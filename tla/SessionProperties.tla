-------------------------- MODULE SessionProperties --------------------------
(***************************************************************************)
(* What a session must guarantee to the client, and to the machine.         *)
(***************************************************************************)
EXTENDS Session

(* The server is given exactly what the client sent and was not denied, in  *)
(* the order it was sent in (stdio.rs:216-300): of what the pump has taken  *)
(* and no longer holds.                                                     *)
Held  == IF up \in {"deciding", "writing", "broken"} THEN 1 ELSE 0
Taken == Len(sent) - Len(inbox)

Passed == got \o toServer
UpwardIsFaithful ==
  /\ ToSet(Passed) = (1..(Taken - Held)) \ refused
  /\ \A j, k \in DOMAIN Passed : j < k => Passed[j] < Passed[k]

(* The client is given what the server wrote, in its order and once, with   *)
(* the block responses in between (stdio.rs:145-212).  Unless the time to   *)
(* drain ran out, nothing of either is left behind when the session is over *)
(* (session.rs:160-165), or else the write of the last message failed, for  *)
(* the client is no longer there (stdio.rs:153-154, 192, 205-207, 296).     *)
FromServer(msg) == msg[1] # "denial"
WriteFailed  == down \in {"failed", "broken"}
Written == seen \o toClient \o (IF Writing \/ WriteFailed THEN <<downMsg>> ELSE <<>>)
Relayed(written, n) == Cardinality({j \in 1..n : FromServer(written[j])})
DownwardIsFaithful ==
  /\ fromServer = SubSeq(emitted, Relayed(Written, Len(Written)) + 1, Len(emitted))
  /\ \A j \in 1..Len(Written) :
       FromServer(Written[j]) => Written[j] = emitted[Relayed(Written, j)]
  /\ main \in {"leaving", "gone"} /\ ~cut /\ down # "broken" =>
       fromServer = <<>> /\ denied = <<>>

(* A call that is denied is told so, or still is to be (stdio.rs:273-287),  *)
(* but for what is lost when a write to the client fails, and for the calls *)
(* denied after the pump has taken its last denial.  That it does when there*)
(* is no client to hear, or when the server has closed its stdout or ended  *)
(* (stdio.rs:162), and not before.                                          *)
Told(i) ==
  \/ <<"denial", i>> \in ToSet(Written)
  \/ i \in ToSet(denied)
DenialsAreTold ==
  /\ \A i \in refused \ unheard : sent[i] = "call" => Told(i) \/ WriteFailed
  /\ unheard # {} => hungUp \/ OutputOver

(* Once the session is ending, for whatever reason, or the shim has been    *)
(* sent a signal, the server ends, whatever any of them is doing            *)
(* (session.rs:4-9 and 131-237).                                            *)
NoOrphan == signal \/ main # "select" ~> server = "exited"

(* A closed stdin is noticed, unless the server has stopped reading while   *)
(* the pipe to it is full (session.rs:141-159).                             *)
UpStuck ==
  /\ up = "writing" /\ Len(toServer) = PipeCap
  /\ server = "running" /\ "stdin" \notin shut
CloseIsSeen == closed ~> main # "select" \/ UpStuck

(* Once the client has closed stdin and the server has ended, so does the   *)
(* shim, unless the client keeps its end of stdout and does not read it     *)
(* (session.rs:160-167).                                                    *)
DownStuck == Writing /\ ~hungUp /\ Len(toClient) = PipeCap
ShimEnds == closed /\ server = "exited" ~> main = "gone" \/ DownStuck

-----------------------------------------------------------------------------
(* session.rs:10-11: the server dies and the shim is not left blocked on a  *)
(* read.  The read of stdin that has begun is waited for all the same.      *)
ServerDeathEndsShim == server = "exited" ~> main = "gone" \/ DownStuck
=============================================================================
