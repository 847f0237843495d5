------------------------------- MODULE Session -------------------------------
(***************************************************************************)
(* A stdio session of the shim: transport/session.rs and the two pumps of  *)
(* transport/stdio.rs, between a client and the server the shim started.   *)
(*                                                                         *)
(* The runtime has one thread.  A pump that awaits a pipe lets the others  *)
(* run; a pump that awaits a verdict does not.  A message is its number in *)
(* what the client sent, or a note of the server's.  Either peer may close  *)
(* its ends of the pipes, or die, at any time.                             *)
(***************************************************************************)
EXTENDS Naturals, Sequences, SequencesExt, FiniteSets

CONSTANTS
  MaxMessages,    (* bound: messages sent by the client or, of its own      *)
                  (* accord, by the server                                  *)
  PipeCap         (* how many messages a pipe holds                         *)

ASSUME SessionAssumption ==
  /\ MaxMessages \in Nat
  /\ PipeCap \in Nat \ {0}

(* A call to be decided, one that expects no response, anything else that   *)
(* does.                                                                   *)
Kinds == {"call", "oneway", "request"}
Ends  == {"stdin", "stdout"}

VARIABLES
  sent,           (* history: the kind of each message of the client        *)
  closed,         (* has the client closed stdin?                           *)
  signal,         (* has it sent SIGTERM or SIGINT?                         *)
  hungUp,         (* is its end of stdout closed?                           *)
  inbox,          (* the pipe from the client                               *)
  up,             (* the upward pump                                        *)
  upMsg,          (* the message it holds                                   *)
  refused,        (* history: the messages denied                           *)
  denied,         (* the channel of block responses                         *)
  unheard,        (* history: the calls denied when nobody takes from it    *)
  toServer,       (* the pipe to the server                                 *)
  server,         (* "running", "exited"                                    *)
  shut,           (* the ends it has closed while running                   *)
  got,            (* history: what the server read                          *)
  work,           (* what it has still to answer                            *)
  emitted,        (* history: what it wrote                                 *)
  fromServer,     (* the pipe from the server                               *)
  down,           (* the downward pump                                      *)
  downMsg,        (* the message being written to the client                *)
  toClient,       (* the pipe to the client                                 *)
  seen,           (* history: what the client read                          *)
  main,           (* session::run                                           *)
  cut             (* history: did the time to drain run out?                *)

clientVars == <<sent, closed, signal, hungUp>>
upVars     == <<up, upMsg, refused, unheard>>
serverVars == <<server, shut, got, work, emitted>>
downVars   == <<down, downMsg>>
mainVars   == <<main, cut>>
vars == <<clientVars, inbox, upVars, denied, toServer, serverVars, fromServer, downVars, toClient,
          seen, mainVars>>

Nothing == <<>>

Init ==
  /\ sent = <<>> /\ closed = FALSE /\ signal = FALSE /\ hungUp = FALSE
  /\ inbox = <<>> /\ up = "reading" /\ upMsg = 0 /\ refused = {}
  /\ denied = <<>> /\ unheard = {}
  /\ toServer = <<>>
  /\ server = "running" /\ shut = {} /\ got = <<>> /\ work = {} /\ emitted = <<>>
  /\ fromServer = <<>> /\ down = "reading" /\ downMsg = Nothing
  /\ toClient = <<>> /\ seen = <<>>
  /\ main = "select" /\ cut = FALSE

(* decide() blocks the only thread. *)
Free == up # "deciding" /\ main \notin {"leaving", "gone"}

(* Reads of the server's stdout find its end once the pipe is empty.        *)
OutputOver == server = "exited" \/ "stdout" \in shut

(* The pump takes no more denials, or has returned, which closes its ends.  *)
PumpIsDeaf == down \notin {"reading", "writing"}
PumpIsOver == down \in {"broken", "ended"}

IsNote(msg) == msg[1] = "note"
Notes == Cardinality({k \in DOMAIN emitted : IsNote(emitted[k])})

-----------------------------------------------------------------------------
(* The client. *)

ClientSends(kind) ==
  /\ ~closed /\ main # "gone"
  /\ Len(sent) + Notes < MaxMessages
  /\ sent' = Append(sent, kind)
  /\ inbox' = Append(inbox, Len(sent) + 1)
  /\ UNCHANGED <<closed, signal, hungUp, upVars, denied, toServer, serverVars, fromServer, downVars,
                 toClient, seen, mainVars>>

ClientCloses ==
  /\ ~closed
  /\ closed' = TRUE
  /\ UNCHANGED <<sent, signal, hungUp, inbox, upVars, denied, toServer, serverVars, fromServer, downVars,
                 toClient, seen, mainVars>>

ClientSignals ==
  /\ ~signal /\ main # "gone"
  /\ signal' = TRUE
  /\ UNCHANGED <<sent, closed, hungUp, inbox, upVars, denied, toServer, serverVars, fromServer, downVars,
                 toClient, seen, mainVars>>

ClientHangsUp ==
  /\ ~hungUp
  /\ hungUp' = TRUE
  /\ UNCHANGED <<sent, closed, signal, inbox, upVars, denied, toServer, serverVars, fromServer,
                 downVars, toClient, seen, mainVars>>

ClientReads ==
  /\ ~hungUp
  /\ toClient # <<>>
  /\ toClient' = Tail(toClient)
  /\ seen' = Append(seen, Head(toClient))
  /\ UNCHANGED <<clientVars, inbox, upVars, denied, toServer, serverVars, fromServer, downVars,
                 mainVars>>

-----------------------------------------------------------------------------
(* The upward pump. *)

UpRead ==
  /\ Free /\ up = "reading"
  /\ inbox # <<>>
  /\ inbox' = Tail(inbox)
  /\ upMsg' = Head(inbox)
  /\ up' = IF sent[Head(inbox)] = "request" THEN "writing" ELSE "deciding"
  /\ UNCHANGED <<clientVars, refused, unheard, denied, toServer, serverVars, fromServer, downVars, toClient,
                 seen, mainVars>>

UpEof ==
  /\ Free /\ up = "reading"
  /\ inbox = <<>> /\ closed
  /\ up' = "ended"
  /\ UNCHANGED <<clientVars, inbox, upMsg, refused, unheard, denied, toServer, serverVars, fromServer,
                 downVars, toClient, seen, mainVars>>

(* decide() said yes, or could not say: fail_closed is false in every shim. *)
Allow ==
  /\ up = "deciding"
  /\ up' = "writing"
  /\ UNCHANGED <<clientVars, inbox, upMsg, refused, unheard, denied, toServer, serverVars, fromServer,
                 downVars, toClient, seen, mainVars>>

Answerable == sent[upMsg] = "call"

DenySlip ==
  /\ up = "deciding"
  /\ refused' = refused \cup {upMsg}
  /\ up' = IF Answerable THEN "reading" ELSE "writing"
  /\ denied' = IF Answerable /\ ~PumpIsOver THEN Append(denied, upMsg) ELSE denied
  /\ unheard' = IF Answerable /\ PumpIsDeaf THEN unheard \cup {upMsg} ELSE unheard
  /\ UNCHANGED <<clientVars, inbox, upMsg, toServer, serverVars, fromServer, downVars, toClient,
                 seen, mainVars>>

(* The response leaves by the other pump, if that still takes any. *)
Deny ==
  /\ up = "deciding"
  /\ refused' = refused \cup {upMsg}
  /\ up' = "reading"
  /\ denied' = IF Answerable /\ ~PumpIsOver THEN Append(denied, upMsg) ELSE denied
  /\ unheard' = IF Answerable /\ PumpIsDeaf THEN unheard \cup {upMsg} ELSE unheard
  /\ UNCHANGED <<clientVars, inbox, upMsg, toServer, serverVars, fromServer, downVars, toClient,
                 seen, mainVars>>

UpWrite ==
  /\ Free /\ up = "writing"
  /\ server = "running" /\ "stdin" \notin shut
  /\ Len(toServer) < PipeCap
  /\ toServer' = Append(toServer, upMsg)
  /\ up' = "reading"
  /\ UNCHANGED <<clientVars, inbox, upMsg, refused, unheard, denied, serverVars, fromServer, downVars,
                 toClient, seen, mainVars>>

UpFails ==
  /\ Free /\ up = "writing"
  /\ server = "exited" \/ "stdin" \in shut
  /\ up' = "broken"
  /\ UNCHANGED <<clientVars, inbox, upMsg, refused, unheard, denied, toServer, serverVars, fromServer,
                 downVars, toClient, seen, mainVars>>

-----------------------------------------------------------------------------
(* The server, which may be slow, silent or deaf to signals. *)

ServerReads ==
  /\ server = "running" /\ "stdin" \notin shut
  /\ toServer # <<>>
  /\ toServer' = Tail(toServer)
  /\ got' = Append(got, Head(toServer))
  /\ work' = IF sent[Head(toServer)] = "oneway" THEN work ELSE work \cup {Head(toServer)}
  /\ UNCHANGED <<clientVars, inbox, upVars, denied, server, shut, emitted, fromServer, downVars, toClient,
                 seen, mainVars>>

Emit(msg) ==
  /\ server = "running" /\ "stdout" \notin shut /\ ~PumpIsOver
  /\ Len(fromServer) < PipeCap
  /\ fromServer' = Append(fromServer, msg)
  /\ emitted' = Append(emitted, msg)
  /\ UNCHANGED <<clientVars, inbox, upVars, denied, toServer, server, shut, got, downVars, toClient,
                 seen, mainVars>>

ServerAnswers ==
  \E i \in work : Emit(<<"answer", i>>) /\ work' = work \ {i}

ServerNotes ==
  /\ Len(sent) + Notes < MaxMessages
  /\ Emit(<<"note", Notes + 1>>)
  /\ UNCHANGED work

ServerShuts(end) ==
  /\ server = "running"
  /\ end \notin shut
  /\ shut' = shut \cup {end}
  /\ UNCHANGED <<clientVars, inbox, upVars, denied, toServer, server, got, work, emitted, fromServer,
                 downVars, toClient, seen, mainVars>>

ServerExits ==
  /\ server = "running"
  /\ server' = "exited"
  /\ UNCHANGED <<clientVars, inbox, upVars, denied, toServer, shut, got, work, emitted, fromServer,
                 downVars, toClient, seen, mainVars>>

-----------------------------------------------------------------------------
(* The downward pump: block responses come first.  Once started, a write to *)
(* stdout is another thread's; where it fails, the pump returns, and what    *)
(* is in the channel is lost with its receiver.                            *)

DownDeniedSlip ==
  /\ Free /\ down = "reading"
  /\ denied # <<>>
  /\ denied' = Tail(denied)
  /\ UNCHANGED <<clientVars, inbox, upVars, toServer, serverVars, fromServer, downVars, toClient,
                 seen, mainVars>>

DownDenied ==
  /\ Free /\ down = "reading"
  /\ denied # <<>>
  /\ denied' = Tail(denied)
  /\ down' = "writing"
  /\ downMsg' = <<"denial", Head(denied)>>
  /\ UNCHANGED <<clientVars, inbox, upVars, toServer, serverVars, fromServer, toClient, seen,
                 mainVars>>

DownReadSlip ==
  /\ Free /\ down = "reading"
  /\ fromServer # <<>>
  /\ fromServer' = Tail(fromServer)
  /\ IF denied = <<>>
     THEN /\ down' = "writing"
          /\ downMsg' = Head(fromServer)
     ELSE UNCHANGED downVars
  /\ UNCHANGED <<clientVars, inbox, upVars, denied, toServer, serverVars, toClient, seen, mainVars>>

DownRead ==
  /\ Free /\ down = "reading"
  /\ denied = <<>> /\ fromServer # <<>>
  /\ fromServer' = Tail(fromServer)
  /\ down' = "writing"
  /\ downMsg' = Head(fromServer)
  /\ UNCHANGED <<clientVars, inbox, upVars, denied, toServer, serverVars, toClient, seen, mainVars>>

DownEof ==
  /\ Free /\ down = "reading"
  /\ denied = <<>>
  /\ fromServer = <<>> /\ OutputOver
  /\ down' = "ended"
  /\ UNCHANGED <<clientVars, inbox, upVars, denied, toServer, serverVars, fromServer, downMsg,
                 toClient, seen, mainVars>>

(* A last message that was not terminated is written after the end.        *)
DownFinish ==
  /\ Free /\ down = "reading"
  /\ denied = <<>>
  /\ Len(fromServer) = 1 /\ OutputOver
  /\ fromServer' = Tail(fromServer)
  /\ down' = "finishing"
  /\ downMsg' = Head(fromServer)
  /\ UNCHANGED <<clientVars, inbox, upVars, denied, toServer, serverVars, toClient, seen, mainVars>>

Writing == down \in {"writing", "finishing"}

DownWrite ==
  /\ Writing /\ ~hungUp
  /\ Len(toClient) < PipeCap
  /\ toClient' = Append(toClient, downMsg)
  /\ downMsg' = Nothing
  /\ \/ down = "writing" /\ down' = "reading" /\ UNCHANGED denied
     \/ down = "finishing" /\ down' = "ended" /\ denied' = <<>>
  /\ UNCHANGED <<clientVars, inbox, upVars, toServer, serverVars, fromServer, seen, mainVars>>

DownFails ==
  /\ Writing /\ hungUp
  /\ down' = "failed"
  /\ UNCHANGED <<clientVars, inbox, upVars, denied, toServer, serverVars, fromServer, downMsg,
                 toClient, seen, mainVars>>

DownBreaks ==
  /\ Free /\ down = "failed"
  /\ down' = "broken"
  /\ denied' = <<>>
  /\ UNCHANGED <<clientVars, inbox, upVars, toServer, serverVars, fromServer, downMsg, toClient,
                 seen, mainVars>>

-----------------------------------------------------------------------------
(* session::run: whichever of three things comes first. *)

ChildExitedSlip ==
  /\ Free /\ main \in {"select", "closing", "killed"}
  /\ server = "exited"
  /\ main' = "draining"
  /\ UNCHANGED <<clientVars, inbox, upVars, denied, toServer, serverVars, fromServer, downVars,
                 toClient, seen, cut>>

ChildExited ==
  /\ Free /\ main \in {"select", "closing", "terminating", "killed"}
  /\ server = "exited"
  /\ main' = "draining"
  /\ UNCHANGED <<clientVars, inbox, upVars, denied, toServer, serverVars, fromServer, downVars,
                 toClient, seen, cut>>

SignalArrives ==
  /\ Free /\ main = "select"
  /\ signal
  /\ main' = "terminating"
  /\ UNCHANGED <<clientVars, inbox, upVars, denied, toServer, serverVars, fromServer, downVars,
                 toClient, seen, cut>>

UpEndedSlip ==
  /\ Free /\ main = "select"
  /\ up = "broken"
  /\ main' = "closing"
  /\ UNCHANGED <<clientVars, inbox, upVars, denied, toServer, serverVars, fromServer, downVars,
                 toClient, seen, cut>>

UpEnded ==
  /\ Free /\ main = "select"
  /\ up \in {"ended", "broken"}
  /\ main' = "closing"
  /\ UNCHANGED <<clientVars, inbox, upVars, denied, toServer, serverVars, fromServer, downVars,
                 toClient, seen, cut>>

EscalateSlip ==
  \/ main = "closing" /\ main' = "draining" /\ UNCHANGED server
  \/ main = "terminating" /\ main' = "killed" /\ server' = "exited"

Escalate ==
  \/ main = "closing" /\ main' = "terminating" /\ UNCHANGED server
  \/ main = "terminating" /\ main' = "killed" /\ server' = "exited"

(* The grace is over: SIGTERM after a closed stdin, SIGKILL after SIGTERM.  *)
GraceEnds ==
  /\ Free /\ server = "running"
  /\ Escalate
  /\ UNCHANGED <<clientVars, inbox, upVars, denied, toServer, shut, got, work, emitted, fromServer,
                 downVars, toClient, seen, cut>>

(* The downward pump has 200 ms to drain, and both tasks are aborted. *)
Drained ==
  /\ Free /\ main = "draining"
  /\ main' = "leaving"
  /\ cut' = ~PumpIsOver
  /\ UNCHANGED <<clientVars, inbox, upVars, denied, toServer, serverVars, fromServer, downVars,
                 toClient, seen>>

(* Dropping the runtime waits for its threads: a read of stdin that has     *)
(* begun, a write to stdout.                                               *)
Leave ==
  /\ main = "leaving"
  /\ ~Writing
  /\ up = "reading" => inbox # <<>> \/ closed
  /\ main' = "gone"
  /\ UNCHANGED <<clientVars, inbox, upVars, denied, toServer, serverVars, fromServer, downVars,
                 toClient, seen, cut>>

-----------------------------------------------------------------------------
Client ==
  \/ \E kind \in Kinds : ClientSends(kind)
  \/ ClientCloses \/ ClientSignals \/ ClientHangsUp \/ ClientReads
Server ==
  \/ ServerReads \/ ServerAnswers \/ ServerNotes \/ ServerExits
  \/ \E end \in Ends : ServerShuts(end)
Upward == UpRead \/ UpEof \/ Allow \/ Deny \/ UpWrite \/ UpFails
Downward ==
  DownDenied \/ DownRead \/ DownFinish \/ DownEof \/ DownWrite \/ DownFails \/ DownBreaks
Main == ChildExited \/ SignalArrives \/ UpEnded \/ GraceEnds \/ Drained \/ Leave

Next == Client \/ Upward \/ Server \/ Downward \/ Main

Spec == Init /\ [][Next]_vars

(* The tasks of the shim run, its timers fire and decide() returns: it has  *)
(* a limit.  Nothing is asked of the client nor of the server.             *)
FairSpec == Spec /\ WF_vars(Upward) /\ WF_vars(Downward) /\ WF_vars(Main)
=============================================================================
