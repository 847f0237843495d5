------------------------------ MODULE ShimLink ------------------------------
(***************************************************************************)
(* The verdict link between a shim and the daemon: ipc/client.rs, and the  *)
(* loop that reads one connection in daemon/mod.rs.                        *)
(*                                                                         *)
(* Callers are the threads that block in decide() of one DaemonClient: the *)
(* single one of a stdio shim, or the requests of the HTTP proxy, which    *)
(* share one.  Their requests and the reports of the downward pump go      *)
(* through a channel to the IPC thread, which owns the connection.         *)
(*                                                                         *)
(* Time is a Tick that every running timer counts.  A timer that has run   *)
(* out, and work that takes no time, come before the next Tick.            *)
(***************************************************************************)
EXTENDS Naturals, Sequences

CONSTANTS
  Callers,
  MaxCalls,       (* bound: decide()s of each caller                        *)
  MaxReports,     (* bound: taint and tools reports                         *)
  Timeouts,       (* what ask_timeout may be in the policy                  *)
  Margin,         (* TIMEOUT_MARGIN                                         *)
  Transit,        (* how long a line takes to be read at the other end      *)
  MayReload,      (* may ask_timeout change after the hello?                *)
  MayStall        (* may the daemon die, or be stuck and answer late?       *)

ASSUME LinkAssumption ==
  /\ MaxCalls \in Nat
  /\ Timeouts \subseteq Nat
  /\ Margin \in Nat /\ Transit \in Nat
  /\ 2 * Transit < Margin
  /\ <<MayReload, MayStall>> \in BOOLEAN \X BOOLEAN

Calls == Callers \X (1..MaxCalls)

(* Outgoing *)
NoCall       == <<>>
Decide(call) == <<"decide", call>>
Report       == <<"report", NoCall>>

VARIABLES
  askTimeout,     (* of the policy in the daemon's memory                   *)
  limit,          (* DaemonClient.timeout                                   *)
  degraded,
  made,           (* calls each caller has made                             *)
  waiting,        (* the callers blocked in recv_timeout                    *)
  outcome,        (* what decide() returned: "verdict" or "error"           *)
  verdictOf,      (* the call each verdict is about                         *)
  channel,        (* Outgoing not yet taken by the IPC thread               *)
  ipc,            (* "idle", "reading" a reply, "ended"                     *)
  ipcCall,        (* the call it last wrote                                 *)
  lines,          (* on the wire to the daemon                              *)
  replies,        (* on the wire back                                       *)
  conn,           (* the daemon's end: "reading", "asking" a person, "dead" *)
  asked,          (* the call it asks about                                 *)
  promptLimit,    (* how long that prompt may last                          *)
  stalled,        (* is the daemon stuck?                                   *)
  failed,         (* history: has it ever been stuck, or died?              *)
  raised,         (* history: has ask_timeout ever exceeded the announced?  *)
  overlapped,     (* history: has a call ever been made while one waited?   *)
  observed,       (* history: reports made                                  *)
  recorded,       (* history: reports the daemon has recorded               *)
  madeAt,         (* history: reports made before each call                 *)
  age             (* the timers                                             *)

callerVars == <<degraded, made, waiting, outcome, verdictOf>>
wireVars   == <<channel, ipc, ipcCall, lines, replies>>
connVars   == <<askTimeout, conn, asked, promptLimit, stalled, failed, raised>>
histVars   == <<observed, recorded, madeAt, overlapped>>
linkVars == <<limit, callerVars, wireVars, connVars, histVars, age>>

Clocks == {"read", "prompt", "lines", "replies"}
Timers == Callers \cup Clocks
ASSUME TimersAssumption == Callers \cap Clocks = {}

LimitSlip(announced) == announced

Limit(announced) == announced + Margin

(* connect(): the hello announces ask_timeout. *)
LinkInit ==
  /\ askTimeout \in Timeouts
  /\ limit = Limit(askTimeout)
  /\ degraded = FALSE
  /\ made = [c \in Callers |-> 0]
  /\ waiting = {}
  /\ outcome = [call \in Calls |-> "none"]
  /\ verdictOf = [call \in Calls |-> NoCall]
  /\ channel = <<>> /\ ipc = "idle" /\ ipcCall = NoCall /\ lines = <<>> /\ replies = <<>>
  /\ conn = "reading" /\ asked = NoCall /\ promptLimit = 0
  /\ stalled = FALSE /\ failed = FALSE /\ raised = FALSE /\ overlapped = FALSE
  /\ observed = 0 /\ recorded = 0
  /\ madeAt = [call \in Calls |-> 0]
  /\ age = [t \in Timers |-> 0]

Latest(c) == <<c, made[c]>>

-----------------------------------------------------------------------------
(* The callers. *)

EnqueueSlip(call) == channel' = <<Decide(call)>> \o channel

Enqueue(call) == channel' = Append(channel, Decide(call))

(* decide(), as far as recv_timeout: at once an error if the link is known  *)
(* to be lost, or turns out to be.                                         *)
MakeCall(c) ==
  LET call == <<c, made[c] + 1>>
  IN /\ c \notin waiting
     /\ made[c] < MaxCalls
     /\ made' = [made EXCEPT ![c] = @ + 1]
     /\ madeAt' = [madeAt EXCEPT ![call] = observed]
     /\ overlapped' = (overlapped \/ waiting # {})
     /\ IF degraded \/ ipc = "ended"
        THEN /\ degraded' = TRUE
             /\ outcome' = [outcome EXCEPT ![call] = "error"]
             /\ UNCHANGED <<waiting, channel, age>>
        ELSE /\ Enqueue(call)
             /\ waiting' = waiting \cup {c}
             /\ age' = [age EXCEPT ![c] = 0]
             /\ UNCHANGED <<degraded, outcome>>
     /\ UNCHANGED <<limit, verdictOf, ipc, ipcCall, lines, replies, connVars, observed, recorded>>

(* recv_timeout: the time is up, or the IPC thread dropped the sender. *)
GiveUp(c) ==
  /\ c \in waiting
  /\ age[c] = limit \/ ipc = "ended"
  /\ degraded' = TRUE
  /\ outcome' = [outcome EXCEPT ![Latest(c)] = "error"]
  /\ waiting' = waiting \ {c}
  /\ UNCHANGED <<limit, made, verdictOf, wireVars, connVars, histVars, age>>

(* observe_response() *)
Observe ==
  /\ observed < MaxReports
  /\ observed' = observed + 1
  /\ channel' = IF ipc = "ended" THEN channel ELSE Append(channel, Report)
  /\ UNCHANGED <<limit, callerVars, ipc, ipcCall, lines, replies, connVars, recorded, madeAt,
                 overlapped, age>>

-----------------------------------------------------------------------------
(* The IPC thread. *)

Started(t, queue) == [age EXCEPT ![t] = IF queue = <<>> THEN 0 ELSE @]

(* Writing to a dead daemon is found out by the read. *)
TakeOutgoing ==
  /\ ipc = "idle"
  /\ channel # <<>>
  /\ channel' = Tail(channel)
  /\ lines' = Append(lines, Head(channel))
  /\ IF Head(channel) = Report
     THEN /\ UNCHANGED <<ipc, ipcCall>>
          /\ age' = Started("lines", lines)
     ELSE /\ ipc' = "reading"
          /\ ipcCall' = Head(channel)[2]
          /\ age' = [Started("lines", lines) EXCEPT !["read"] = 0]
  /\ UNCHANGED <<limit, callerVars, replies, connVars, histVars>>

(* A reply belongs to the request the thread last wrote; the caller may     *)
(* have stopped waiting for it.                                            *)
ReadReply ==
  /\ ipc = "reading"
  /\ replies # <<>>
  /\ replies' = Tail(replies)
  /\ ipc' = "idle"
  /\ IF ipcCall[1] \in waiting /\ ipcCall = Latest(ipcCall[1])
     THEN /\ outcome' = [outcome EXCEPT ![ipcCall] = "verdict"]
          /\ verdictOf' = [verdictOf EXCEPT ![ipcCall] = Head(replies)]
          /\ waiting' = waiting \ {ipcCall[1]}
     ELSE UNCHANGED <<outcome, verdictOf, waiting>>
  /\ UNCHANGED <<limit, degraded, made, channel, ipcCall, lines, connVars, histVars, age>>

ReadFailsSlip ==
  /\ ipc = "reading"
  /\ age["read"] = limit \/ (conn = "dead" /\ replies = <<>>)
  /\ ipc' = "idle"
  /\ UNCHANGED <<limit, callerVars, channel, ipcCall, lines, replies, connVars, histVars, age>>

ReadFailsSlip2 ==
  /\ ipc = "reading"
  /\ age["read"] = limit
  /\ ipc' = "ended"
  /\ channel' = <<>>
  /\ UNCHANGED <<limit, callerVars, ipcCall, lines, replies, connVars, histVars, age>>

(* The read times out, or the connection is closed: the thread ends, and    *)
(* what is in the channel goes with it.                                    *)
ReadFails ==
  /\ ipc = "reading"
  /\ age["read"] = limit \/ (conn = "dead" /\ replies = <<>>)
  /\ ipc' = "ended"
  /\ channel' = <<>>
  /\ UNCHANGED <<limit, callerVars, ipcCall, lines, replies, connVars, histVars, age>>

-----------------------------------------------------------------------------
(* The daemon's end of the connection: one line at a time. *)

Reply(call) ==
  /\ replies' = Append(replies, call)
  /\ age' = [Started("replies", replies) EXCEPT !["lines"] = 0]

Record ==
  /\ conn = "reading"
  /\ lines # <<>>
  /\ Head(lines) = Report
  /\ lines' = Tail(lines)
  /\ recorded' = recorded + 1
  /\ UNCHANGED <<limit, callerVars, channel, ipc, ipcCall, replies, connVars, observed, madeAt,
                 overlapped, age>>

(* The rules allow or deny, or a person is asked, for as long as the policy *)
(* says now.                                                               *)
Rule ==
  /\ conn = "reading"
  /\ lines # <<>>
  /\ Head(lines) # Report
  /\ LET call == Head(lines)[2]
     IN /\ lines' = Tail(lines)
        /\ \/ /\ Reply(call)
              /\ UNCHANGED <<conn, asked, promptLimit>>
           \/ /\ conn' = "asking"
              /\ asked' = call
              /\ promptLimit' = askTimeout
              /\ age' = [age EXCEPT !["prompt"] = 0]
              /\ UNCHANGED replies
  /\ UNCHANGED <<limit, callerVars, channel, ipc, ipcCall, askTimeout, stalled, failed,
                 raised, histVars>>

(* A person answers, or the prompt expires. *)
Resolve ==
  /\ conn = "asking"
  /\ Reply(asked)
  /\ conn' = "reading"
  /\ stalled' = FALSE
  /\ UNCHANGED <<limit, callerVars, channel, ipc, ipcCall, lines, askTimeout, asked, promptLimit,
                 failed, raised, histVars>>

Reload(t) ==
  /\ MayReload
  /\ askTimeout' = t
  /\ raised' = (raised \/ Limit(t) > limit)
  /\ UNCHANGED <<limit, callerVars, wireVars, conn, asked, promptLimit, stalled, failed, histVars,
                 age>>

Stall ==
  /\ MayStall
  /\ conn = "asking"
  /\ stalled' = TRUE
  /\ failed' = TRUE
  /\ UNCHANGED <<limit, callerVars, wireVars, askTimeout, conn, asked, promptLimit, raised,
                 histVars, age>>

ServiceDies ==
  /\ MayStall
  /\ conn # "dead"
  /\ conn' = "dead"
  /\ stalled' = FALSE
  /\ failed' = TRUE
  /\ UNCHANGED <<limit, callerVars, wireVars, askTimeout, asked, promptLimit, raised, histVars,
                 age>>

-----------------------------------------------------------------------------
Counting ==
  {t \in Timers :
    \/ t \in waiting
    \/ t = "read" /\ ipc = "reading"
    \/ t = "prompt" /\ conn = "asking" /\ ~stalled
    \/ t = "lines" /\ lines # <<>> /\ conn = "reading"
    \/ t = "replies" /\ replies # <<>> /\ ipc = "reading"}

Bound(t) ==
  CASE t \in Callers \cup {"read"}     -> limit
    [] t = "prompt"                    -> promptLimit
    [] t \in {"lines", "replies"}      -> Transit

WorkThatTakesNoTime ==
  \/ ipc = "idle" /\ channel # <<>>
  \/ ipc = "ended" /\ waiting # {}
  \/ conn = "dead" /\ ipc = "reading" /\ replies = <<>>

Tick ==
  /\ ~WorkThatTakesNoTime
  /\ Counting # {}
  /\ \A t \in Counting : age[t] < Bound(t)
  /\ age' = [t \in Timers |-> IF t \in Counting THEN age[t] + 1 ELSE age[t]]
  /\ UNCHANGED <<limit, callerVars, wireVars, connVars, histVars>>

Ipc == TakeOutgoing \/ ReadReply \/ ReadFails

LinkNext ==
  \/ \E c \in Callers : MakeCall(c) \/ GiveUp(c)
  \/ Observe
  \/ Ipc
  \/ Record \/ Rule \/ Resolve
  \/ \E t \in Timeouts : Reload(t)
  \/ Stall \/ ServiceDies
  \/ Tick

LinkSpec == LinkInit /\ [][LinkNext]_linkVars

-----------------------------------------------------------------------------

(* A verdict is about the call that gets it, although replies carry no id   *)
(* (client.rs:65-69 and 259-263).                                          *)
VerdictMatches == \A call \in Calls : outcome[call] = "verdict" => verdictOf[call] = call

(* A call is ruled on with everything known that this shim had reported     *)
(* before it (client.rs:202-234).                                          *)
ReportsComeFirst == [][Rule => recorded >= madeAt[Head(lines)[2]]]_linkVars

(* A call is given up only when the daemon was stuck or dead, its policy    *)
(* asks for longer than it announced, or calls share the link: in a shim    *)
(* with one caller an ask does not turn into an allow by the clock          *)
(* (client.rs:36-50 and 191-198).                                          *)
GivenUpForCause ==
  \A call \in Calls : outcome[call] = "error" => failed \/ raised \/ overlapped

(* A daemon that dies releases whoever waits for it, without waiting for a  *)
(* timer (client.rs:259-263).                                              *)
DeathReleases == (conn = "dead" /\ waiting # {}) ~> waiting = {}

(* client.rs:38-41 and 48-49: the limit is never shorter than the time the  *)
(* user has to answer.  It is, after a reload, and for a request that waits *)
(* behind another's question.                                              *)
AskNeverDecays == \A call \in Calls : outcome[call] = "error" => failed
=============================================================================
