--------------------------- MODULE MCDaemonClients ---------------------------
(***************************************************************************)
(* What lives off the daemon, for TLC: the application's supervisor, its   *)
(* connection and panels, and the link of a shim or of the proxy.  They    *)
(* have no state in common, so that a behaviour is one of any.             *)
(***************************************************************************)
EXTENDS Supervisor, PromptPanels, ShimLink

VARIABLE part

EitherInit ==
  /\ Init /\ PanelInit /\ LinkInit
  /\ part \in {"supervisor", "panels", "link"}
  /\ part # "link" => \A t \in Timeouts : askTimeout <= t

EitherNext ==
  /\ \/ part = "supervisor" /\ Next /\ UNCHANGED <<panelVars, linkVars>>
     \/ part = "panels" /\ PanelNext /\ UNCHANGED <<vars, linkVars>>
     \/ part = "link" /\ LinkNext /\ UNCHANGED <<vars, panelVars>>
  /\ UNCHANGED part

(* Processes run, timers fire, a queue runs what is put on it, and so do    *)
(* the read loop and the IPC thread; a caller wakes up when its time is up. *)
EitherSpec ==
  /\ EitherInit /\ [][EitherNext]_<<vars, panelVars, linkVars, part>>
  /\ \A d \in Daemons : WF_vars(part = "supervisor" /\ DaemonStep(d))
  /\ WF_vars(part = "supervisor" /\ AppStep)
  /\ WF_panelVars(part = "panels" /\ ReadLoop)
  /\ WF_linkVars(part = "link" /\ Ipc)
  /\ \A c \in Callers : WF_linkVars(part = "link" /\ GiveUp(c))
==============================================================================
