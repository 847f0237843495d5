----------------------------- MODULE Supervisor -----------------------------
(***************************************************************************)
(* The application's supervision of the daemon: DaemonSupervisor.swift.    *)
(* One serial queue runs launch, the termination handler's block, the      *)
(* restart timer's and stop, so each is a step; the daemon it starts runs  *)
(* between them.  Time is what the code asks of it: whether the last start *)
(* was more than a minute ago.                                             *)
(***************************************************************************)
EXTENDS DaemonSocket

CONSTANT
  MaxRestarts     (* 10                                                     *)

ASSUME SupervisorAssumption == MaxRestarts \in Nat

VARIABLES
  app,            (* what the supervisor's queue is waiting for             *)
  child,          (* `process`                                              *)
  restarts,
  longRun,        (* was lastStart more than 60 seconds ago?                *)
  crashed         (* history: has the application ever ended without stop()? *)

supVars == <<app, child, restarts, longRun, crashed>>
vars == <<socketVars, supVars>>

AppStates == {"off", "watching", "exited", "delaying", "gaveUp", "stopping"}

Init ==
  /\ SocketInit
  /\ app = "off"
  /\ child = NoOne
  /\ restarts = 0
  /\ longRun = FALSE
  /\ crashed = FALSE

Launch(d) ==
  /\ Start(d)
  /\ child' = d
  /\ app' = "watching"
  /\ longRun' = FALSE
  /\ UNCHANGED <<restarts, crashed>>

(* A new instance of the application counts from zero. *)
OpenApp(d) ==
  /\ app = "off"
  /\ Start(d)
  /\ child' = d
  /\ app' = "watching"
  /\ longRun' = FALSE
  /\ restarts' = 0
  /\ UNCHANGED crashed

(* process.run() throws: at once another attempt is counted and scheduled.  *)
LaunchFails ==
  /\ app \in {"off", "delaying"}
  /\ restarts' = (IF app = "off" THEN 0 ELSE restarts) + 1
  /\ app' = IF restarts' <= MaxRestarts THEN "delaying" ELSE "gaveUp"
  /\ longRun' = FALSE
  /\ UNCHANGED <<socketVars, child, crashed>>

(* Starting takes no minute. *)
AMinutePasses ==
  /\ app = "watching"
  /\ pc[child] = "serving"
  /\ ~longRun
  /\ longRun' = TRUE
  /\ UNCHANGED <<socketVars, app, child, restarts, crashed>>

(* terminationHandler: another thread puts a block on the queue, which is   *)
(* ScheduleRestart unless stop() comes first.                              *)
ChildExits ==
  /\ app = "watching"
  /\ ~Running(child)
  /\ app' = "exited"
  /\ UNCHANGED <<socketVars, child, restarts, longRun, crashed>>

ScheduleRestartSlip ==
  /\ app = "exited"
  /\ restarts' = IF longRun THEN 0 ELSE restarts
  /\ app' = IF restarts <= MaxRestarts THEN "delaying" ELSE "gaveUp"
  /\ UNCHANGED <<socketVars, child, longRun, crashed>>

ScheduleRestart ==
  LET count == (IF longRun THEN 0 ELSE restarts) + 1
  IN /\ app = "exited"
     /\ restarts' = count
     /\ app' = IF count <= MaxRestarts THEN "delaying" ELSE "gaveUp"
     /\ UNCHANGED <<socketVars, child, longRun, crashed>>

Relaunch(d) ==
  /\ app = "delaying"
  /\ Launch(d)

(* stop() holds the queue until the child has ended. *)
Stop ==
  /\ app \in {"watching", "exited", "delaying", "gaveUp"}
  /\ app' = "stopping"
  /\ UNCHANGED <<socketVars, child, restarts, longRun, crashed>>

ChildObeys ==
  /\ app = "stopping"
  /\ Shutdown(child)
  /\ UNCHANGED supVars

(* SIGTERM before the handlers are installed, or SIGKILL after 3 seconds.  *)
ChildKilled ==
  /\ app = "stopping"
  /\ Die(child)
  /\ UNCHANGED supVars

StoppedSlip ==
  /\ app = "stopping"
  /\ Running(child) => pc[child] = "closing"
  /\ app' = "off"
  /\ child' = NoOne
  /\ UNCHANGED <<socketVars, restarts, longRun, crashed>>

Stopped ==
  /\ app = "stopping"
  /\ ~Running(child)
  /\ app' = "off"
  /\ child' = NoOne
  /\ UNCHANGED <<socketVars, restarts, longRun, crashed>>

(* The daemon is not told, and lives on. *)
AppCrash ==
  /\ app # "off"
  /\ app' = "off"
  /\ child' = NoOne
  /\ crashed' = TRUE
  /\ UNCHANGED <<socketVars, restarts, longRun>>

DaemonDies(d) ==
  /\ Die(d)
  /\ UNCHANGED supVars

DaemonStep(d) ==
  /\ Progress(d)
  /\ UNCHANGED supVars

AppStep ==
  \/ ChildExits
  \/ ScheduleRestart
  \/ app = "delaying" /\ (LaunchFails \/ \E d \in Daemons : Relaunch(d))
  \/ ChildObeys \/ ChildKilled
  \/ Stopped

Next ==
  \/ \E d \in Daemons : OpenApp(d)
  \/ LaunchFails
  \/ AMinutePasses
  \/ Stop
  \/ AppStep
  \/ AppCrash
  \/ \E d \in Daemons : DaemonStep(d) \/ DaemonDies(d)

Spec == Init /\ [][Next]_vars

(* Processes run, timers fire, and the queue runs what is put on it. *)
FairSpec ==
  /\ Spec
  /\ \A d \in Daemons : WF_vars(DaemonStep(d))
  /\ WF_vars(AppStep)

-----------------------------------------------------------------------------
(* The child is one of the processes, its attempts are counted, and a step   *)
(* is one of the code's (DaemonSupervisor.swift:14-26).                    *)
TypeOK ==
  /\ pc \in [Daemons -> Steps]
  /\ name \in Daemons \cup {NoOne}
  /\ listening \subseteq Daemons
  /\ app \in AppStates
  /\ child \in Daemons \cup {NoOne}
  /\ restarts \in 0..(MaxRestarts + 1)
  /\ longRun \in BOOLEAN /\ crashed \in BOOLEAN

(* A daemon that serves is the one a new shim finds at the path, as long as *)
(* the application has always been closed by stop()                        *)
(* (daemon/mod.rs:115-128 and 379-391).                                    *)
ServingIsReachable ==
  ~crashed => \A d \in Daemons : pc[d] = "serving" => name = d /\ d \in listening

(* When the application has been stopped, so has its daemon: none outlives  *)
(* it (DaemonSupervisor.swift:34-54).                                      *)
NoneOutlives == ~crashed /\ app = "off" => \A d \in Daemons : ~Running(d)

(* What a dead daemon left behind never makes the next one give up: only a  *)
(* stop closes a daemon (daemon/mod.rs:115-131).                           *)
LeftoversDoNotBlock ==
  [][\A d \in Daemons : ~crashed /\ pc'[d] = "closing" /\ pc[d] # "closing"
                          => app = "stopping"]_vars

(* An exit of the daemon is followed by another that serves, unless it      *)
(* keeps failing, or the application is stopped or crashes                 *)
(* (DaemonSupervisor.swift:66-73 and 91-108).                              *)
ExitIsRepaired ==
  app = "exited" ~> \/ \E d \in Daemons : pc[d] = "serving"
                    \/ app \in {"gaveUp", "stopping", "off"}

(* daemon/mod.rs:119-122: one daemon per machine.  The next daemon finds    *)
(* the one of a crashed application, and removes its socket on the way out. *)
OneServes == \A d, e \in Daemons : pc[d] = "serving" /\ pc[e] = "serving" => d = e
=============================================================================
