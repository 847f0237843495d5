---------------------------- MODULE DaemonSocket ----------------------------
(***************************************************************************)
(* The life of the daemon's socket file: serve() and run() of              *)
(* daemon/mod.rs, from the start of a process to its clean-up.  The path   *)
(* is one name in the file system; what it refers to is the socket some    *)
(* daemon bound, which stays there when that daemon dies.                  *)
(*                                                                         *)
(* Who starts daemons, and who stops them, is up to the module that uses   *)
(* this one: the application's supervisor, in Supervisor.                  *)
(***************************************************************************)
EXTENDS Naturals, FiniteSets

CONSTANTS
  Daemons,      (* processes that may run `mcpwall daemon`                  *)
  NoOne

ASSUME DaemonsAssumption == NoOne \notin Daemons

VARIABLES
  pc,           (* where each daemon process stands                         *)
  name,         (* whose socket the path refers to                          *)
  listening     (* the daemons whose socket accepts connections             *)

socketVars == <<pc, name, listening>>

Steps == {"off", "checking", "probing", "unlinking", "binding", "serving", "closing"}

Running(d) == d \in Daemons /\ pc[d] # "off"
Answering  == name \in listening

SocketInit ==
  /\ pc = [d \in Daemons |-> "off"]
  /\ name = NoOne
  /\ listening = {}

Goto(d, step) == pc' = [pc EXCEPT ![d] = step]

Start(d) ==
  /\ pc[d] = "off"
  /\ Goto(d, "checking")
  /\ UNCHANGED <<name, listening>>

CheckExists(d) ==
  /\ pc[d] = "checking"
  /\ Goto(d, IF name = NoOne THEN "binding" ELSE "probing")
  /\ UNCHANGED <<name, listening>>

(* connect(): somebody answers, or the socket is a dead one's. *)
Probe(d) ==
  /\ pc[d] = "probing"
  /\ Goto(d, IF Answering THEN "closing" ELSE "unlinking")
  /\ UNCHANGED <<name, listening>>

Unlink(d) ==
  /\ pc[d] = "unlinking"
  /\ name' = NoOne
  /\ Goto(d, "binding")
  /\ UNCHANGED listening

(* bind() refuses a name that is there, whoever's it is. *)
Bind(d) ==
  /\ pc[d] = "binding"
  /\ IF name = NoOne
     THEN /\ name' = d
          /\ listening' = listening \cup {d}
          /\ Goto(d, "serving")
     ELSE /\ Goto(d, "closing")
          /\ UNCHANGED <<name, listening>>

(* The signal is taken where serve() awaits; the listener goes with the     *)
(* future that owned it.                                                   *)
Shutdown(d) ==
  /\ Running(d)
  /\ pc[d] \in {"probing", "serving"}
  /\ Goto(d, "closing")
  /\ listening' = listening \ {d}
  /\ UNCHANGED name

(* run() removes the file on every way out of serve(). *)
CleanUp(d) ==
  /\ pc[d] = "closing"
  /\ name' = NoOne
  /\ Goto(d, "off")
  /\ UNCHANGED listening

(* Killed, or ended before its signal handlers were there. *)
Die(d) ==
  /\ Running(d)
  /\ Goto(d, "off")
  /\ listening' = listening \ {d}
  /\ UNCHANGED name

Progress(d) == CheckExists(d) \/ Probe(d) \/ Unlink(d) \/ Bind(d) \/ CleanUp(d)
=============================================================================
