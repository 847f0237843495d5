------------------------------ MODULE ToolDrift ------------------------------
(***************************************************************************)
(* How a changed tool description is noticed: the shim reports every       *)
(* tools/list result (observe_response of ipc/client.rs), the daemon       *)
(* compares it with what the database has (record_descriptions of          *)
(* journal/query.rs), marks what changed, and tells the next ruling.       *)
(*                                                                         *)
(* Several sessions may talk to servers of one name, each on a connection  *)
(* of its own: what is recorded and marked is by name.  One tool of each   *)
(* server is enough, since nothing relates two tools.  What a ruling does  *)
(* with the fact is Daemon's subject.                                      *)
(***************************************************************************)
EXTENDS Naturals, Sequences, FiniteSets

CONSTANTS
  Sessions,
  Servers,       (* names servers give themselves                           *)
  ServerOf,
  Versions,      (* of the description and schema of the tool               *)
  None,
  MaxLists,      (* bound: tools/list results                               *)
  MaxCalls,      (* bound: calls of a session not yet ruled on, and of all  *)
  MaxCrashes     (* bound: daemons that die                                 *)

ASSUME NamesAssumption ==
  /\ None \notin Versions
  /\ ServerOf \in [Sessions -> Servers]
  /\ IsFiniteSet(Sessions)
ASSUME BoundsAssumption == {MaxLists, MaxCalls, MaxCrashes} \subseteq Nat

List(v) == [type |-> "tools", version |-> v]
Call    == [type |-> "decide"]
Message == [type : {"tools"}, version : Versions] \cup {Call}

VARIABLES
  link,        (* of each session: new, open, lost                          *)
  queue,       (* its connection                                            *)
  awaiting,    (* does its client await a verdict?                          *)
  shown,       (* the version its client was last shown                     *)
  handler,     (* of each connection: idle, or about to mark a change       *)
  digests,     (* tool_descriptions, in the database                        *)
  drifted,     (* Daemon.drifted, in memory                                 *)
  flagged,     (* was the last ruling told of a change?                     *)
  lists, calls, crashes,                              (* counters of bounds *)
  reviewed,    (* history: versions first seen, or in view of who was asked *)
  escaped,     (* history: versions whose change was lost, or whose mark a  *)
               (* session with another in view took                         *)
  changes,     (* history: changes recorded of each server                  *)
  alarms       (* history: rulings told of one                              *)

session == <<link, queue, awaiting, shown>>
past    == <<reviewed, escaped, changes, alarms>>
vars == <<session, handler, digests, drifted, flagged, lists, calls, crashes, past>>

Init ==
  /\ link = [s \in Sessions |-> "new"]
  /\ queue = [s \in Sessions |-> <<>>]
  /\ awaiting = [s \in Sessions |-> FALSE]
  /\ shown = [s \in Sessions |-> None]
  /\ handler = [s \in Sessions |-> "idle"]
  /\ digests = [v \in Servers |-> None]
  /\ drifted = {}
  /\ flagged = FALSE
  /\ lists = 0 /\ calls = 0 /\ crashes = 0
  /\ reviewed = [v \in Servers |-> {}]
  /\ escaped = [v \in Servers |-> {}]
  /\ changes = [v \in Servers |-> 0]
  /\ alarms = [v \in Servers |-> 0]

-----------------------------------------------------------------------------
(* The session.                                                            *)

Send(s, m) == queue' = [queue EXCEPT ![s] = Append(@, m)]

Connect(s) ==
  /\ link[s] = "new"
  /\ link' = [link EXCEPT ![s] = "open"]
  /\ UNCHANGED <<queue, awaiting, shown, handler, digests, drifted, flagged,
                 lists, calls, crashes, past>>

(* The report is queued before the client is given the list. *)
ListTools(s, v) ==
  /\ link[s] = "open" /\ ~awaiting[s]
  /\ lists < MaxLists
  /\ lists' = lists + 1
  /\ Send(s, List(v))
  /\ shown' = [shown EXCEPT ![s] = v]
  /\ UNCHANGED <<link, awaiting, handler, digests, drifted, flagged, calls, crashes, past>>

MakeCall(s) ==
  /\ link[s] = "open" /\ ~awaiting[s]
  /\ calls < MaxCalls
  /\ calls' = calls + 1
  /\ Send(s, Call)
  /\ awaiting' = [awaiting EXCEPT ![s] = TRUE]
  /\ UNCHANGED <<link, shown, handler, digests, drifted, flagged, lists, crashes, past>>

-----------------------------------------------------------------------------
(* The daemon: one handler for each connection.                            *)

Receives(s, type) ==
  /\ handler[s] = "idle"
  /\ queue[s] # <<>> /\ Head(queue[s]).type = type
  /\ queue' = [queue EXCEPT ![s] = Tail(@)]

IsChangeSlip(old, v) == FALSE

(* A tool seen for the first time has not changed. *)
IsChange(old, v) == old # None /\ old # v

(* One transaction: what is new is stored whether or not it is a change.   *)
RecordDescriptions(s) ==
  LET server == ServerOf[s]
      v == Head(queue[s]).version
      old == digests[server]
  IN /\ Receives(s, "tools")
     /\ digests' = [digests EXCEPT ![server] = v]
     /\ handler' = [handler EXCEPT ![s] = IF IsChange(old, v) THEN "marking" ELSE "idle"]
     /\ changes' = [changes EXCEPT ![server] = IF old \in {None, v} THEN @ ELSE @ + 1]
     /\ reviewed' = [reviewed EXCEPT ![server] = IF old = None THEN @ \cup {v} ELSE @]
     /\ UNCHANGED <<link, awaiting, shown, drifted, flagged, lists, calls, crashes,
                    escaped, alarms>>

(* It fails when others write to the database; nothing of it is kept.      *)
RecordFails(s) ==
  /\ Receives(s, "tools")
  /\ escaped' = [escaped EXCEPT ![ServerOf[s]] = @ \cup {Head(queue[s]).version}]
  /\ UNCHANGED <<link, awaiting, shown, handler, digests, drifted, flagged,
                 lists, calls, crashes, reviewed, changes, alarms>>

(* Back from the database, the handler marks the change. *)
MarkDrift(s) ==
  /\ handler[s] = "marking"
  /\ handler' = [handler EXCEPT ![s] = "idle"]
  /\ drifted' = drifted \cup {ServerOf[s]}
  /\ UNCHANGED <<session, digests, flagged, lists, calls, crashes, past>>

ConsumeSlip(server) == UNCHANGED drifted
Consume(server) == drifted' = drifted \ {server}

(* What other sessions with this server have in view and have reported.    *)
OthersView(s) ==
  {digests[ServerOf[s]]} \cup
  {shown[r] : r \in {x \in Sessions \ {s} :
     /\ ServerOf[x] = ServerOf[s]
     /\ \A i \in DOMAIN queue[x] : queue[x][i].type # "tools"}}

(* The ruling is told of the change, and the mark goes whatever it says.   *)
Rule(s) ==
  LET server == ServerOf[s]
      told == server \in drifted
      seen == IF told THEN reviewed[server] \cup {shown[s]} ELSE reviewed[server]
  IN /\ Receives(s, "decide")
     /\ awaiting' = [awaiting EXCEPT ![s] = FALSE]
     /\ flagged' = told
     /\ IF told THEN Consume(server) ELSE UNCHANGED drifted
     /\ reviewed' = [reviewed EXCEPT ![server] = seen]
     /\ escaped' = [escaped EXCEPT ![server] = IF told THEN (@ \cup OthersView(s)) \ seen ELSE @]
     /\ alarms' = [alarms EXCEPT ![server] = IF told THEN @ + 1 ELSE @]
     /\ UNCHANGED <<link, shown, handler, digests, lists, calls, crashes, changes>>

(* The daemon dies: the marks go, the database stays, and the sessions it   *)
(* served go on without it.                                                *)
Crash ==
  /\ crashes < MaxCrashes
  /\ crashes' = crashes + 1
  /\ link' = [s \in Sessions |-> IF link[s] = "open" THEN "lost" ELSE link[s]]
  /\ queue' = [s \in Sessions |-> <<>>]
  /\ awaiting' = [s \in Sessions |-> FALSE]
  /\ handler' = [s \in Sessions |-> "idle"]
  /\ drifted' = {}
  /\ escaped' = [v \in Servers |-> escaped[v] \cup ({digests[v]} \ reviewed[v])]
  /\ UNCHANGED <<shown, digests, flagged, lists, calls, reviewed, changes, alarms>>

Handler(s) == RecordDescriptions(s) \/ RecordFails(s) \/ MarkDrift(s) \/ Rule(s)

Next ==
  \/ \E s \in Sessions : \/ Connect(s) \/ MakeCall(s) \/ Handler(s)
                         \/ \E v \in Versions : ListTools(s, v)
  \/ Crash

Spec == Init /\ [][Next]_vars

-----------------------------------------------------------------------------
(* A client awaits a verdict exactly as long as its call is queued, and     *)
(* nothing follows it; the rest are types (client.rs:372-389).             *)
CallIsLast(q, waits) ==
  /\ waits => q # <<>>
  /\ \A i \in 1..Len(q) : q[i] = Call <=> waits /\ i = Len(q)
TypeOK ==
  /\ link \in [Sessions -> {"new", "open", "lost"}]
  /\ queue \in [Sessions -> Seq(Message)]
  /\ awaiting \in [Sessions -> BOOLEAN]
  /\ \A s \in Sessions : CallIsLast(queue[s], awaiting[s])
  /\ shown \in [Sessions -> Versions \cup {None}]
  /\ handler \in [Sessions -> {"idle", "marking"}]
  /\ digests \in [Servers -> Versions \cup {None}]
  /\ drifted \subseteq Servers
  /\ flagged \in BOOLEAN

(* The version this session was shown was not the first, nobody was asked   *)
(* about it, and nothing has kept its change from being noticed: its report *)
(* was not lost, nor its mark with a daemon or to another session's call,   *)
(* and no other handler is about to set it.                                *)
Unreviewed(s) ==
  /\ shown[s] \notin reviewed[ServerOf[s]] \cup escaped[ServerOf[s]] \cup {None}
  /\ \A r \in Sessions : ServerOf[r] = ServerOf[s] => handler[r] = "idle"

Ruling(s) == awaiting[s] /\ ~awaiting'[s] /\ crashes' = crashes

(* A call to a tool whose new description nobody was asked about is told of *)
(* the change (decide.rs:56-90, mod.rs:250-285, query.rs:84-91).           *)
ChangeIsFlagged ==
  [][\A s \in Sessions : Ruling(s) /\ Unreviewed(s) => flagged']_vars

(* One change raises at most one alarm, and nothing but a change raises     *)
(* one: a tool seen for the first time does not (query.rs:80-91).          *)
Marking(handlers, v) == {s \in Sessions : handlers[s] = "marking" /\ ServerOf[s] = v}
OneAlarmPerChange ==
  \A v \in Servers :
    alarms[v] + (IF v \in drifted THEN 1 ELSE 0) + Cardinality(Marking(handler, v)) <= changes[v]
=============================================================================
