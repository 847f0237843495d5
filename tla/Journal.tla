------------------------------- MODULE Journal -------------------------------
(***************************************************************************)
(* The journal of a shim: journal/mod.rs, journal/writer.rs, the observer  *)
(* that feeds it (transport/observer.rs), and what cli/wrap.rs does with   *)
(* it.                                                                     *)
(*                                                                         *)
(* Two channels lead to one writer: an unbounded one for decisions, which  *)
(* it prefers, and a bounded one for the rest.  The runtime has one thread *)
(* and a verdict blocks it: nothing is written while one is awaited.  An   *)
(* entry is its number and whether it is a decision.                       *)
(***************************************************************************)
EXTENDS Naturals, Sequences, SequencesExt, FiniteSets

CONSTANTS
  MaxEntries,       (* bound: entries of the session                        *)
  MaxLearned,       (* bound: what the handshake and the roots tell of it   *)
  MaxFailures,      (* bound: writes that find the database busy            *)
  VolumeCapacity,
  BatchMax

ASSUME JournalAssumption ==
  /\ {MaxEntries, MaxLearned, MaxFailures} \subseteq Nat
  /\ {VolumeCapacity, BatchMax} \subseteq Nat \ {0}

Entries == [n : 1..MaxEntries, decision : BOOLEAN]

(* Msg *)
Entry(e)           == [type |-> "entry", entry |-> e]
OpenSession        == [type |-> "session"]
UpdateSession(row) == [type |-> "update", row |-> row]
Flush              == [type |-> "flush"]

VARIABLES
  stage,            (* of wrap: opening, relaying, flushing, closing, gone  *)
  blocked,          (* is a verdict awaited?                                *)
  row,              (* SessionRow: how often it was added to                *)
  volume,
  decisions,
  dropped,
  pending,          (* the batch                                            *)
  sessionId,        (* is it that of a row?  0 stands for one that failed   *)
  entries,          (* the table of entries                                 *)
  sessionRow,       (* the table of sessions: the version of the row        *)
  logged,           (* history: entries logged                              *)
  unwritten,        (* history: those of transactions that failed           *)
  failures

shimVars  == <<stage, blocked, row, logged>>
tables    == <<entries, sessionRow, unwritten, failures>>
journalVars == <<shimVars, volume, decisions, dropped, pending, sessionId, tables>>

JournalInit ==
  /\ stage = "opening" /\ blocked = FALSE /\ row = 0 /\ logged = {}
  /\ volume = <<>> /\ decisions = <<OpenSession>> /\ dropped = 0
  /\ pending = <<>> /\ sessionId = 0
  /\ entries = {} /\ sessionRow = 0 /\ unwritten = {} /\ failures = 0

-----------------------------------------------------------------------------
(* The relay. *)

LogSlip(e, before) ==
  /\ decisions' = before
  /\ volume' = Append(volume, Entry(e))
  /\ UNCHANGED dropped

(* Journal::log, after what else was sent to the channel of decisions. *)
Log(e, before) ==
  IF e.decision
  THEN decisions' = Append(before, Entry(e)) /\ UNCHANGED <<volume, dropped>>
  ELSE /\ decisions' = before
       /\ IF Len(volume) < VolumeCapacity
          THEN volume' = Append(volume, Entry(e)) /\ UNCHANGED dropped
          ELSE dropped' = dropped + 1 /\ UNCHANGED volume

NextEntry(isDecision) == [n |-> Cardinality(logged) + 1, decision |-> isDecision]

(* on_frame and on_anomaly: the frame may tell something of the session,    *)
(* which is sent before the entry.                                         *)
OnFrame(isDecision, learns) ==
  /\ Cardinality(logged) < MaxEntries
  /\ learns => row < MaxLearned
  /\ row' = IF learns THEN row + 1 ELSE row
  /\ logged' = logged \cup {NextEntry(isDecision)}
  /\ Log(NextEntry(isDecision),
         IF learns THEN Append(decisions, UpdateSession(row + 1)) ELSE decisions)

SeeFrame ==
  /\ stage = "relaying" /\ ~blocked
  /\ \E isDecision, learns \in BOOLEAN : OnFrame(isDecision, learns)
  /\ UNCHANGED <<stage, blocked, pending, sessionId, tables>>

AwaitVerdict ==
  /\ stage = "relaying" /\ ~blocked
  /\ Cardinality(logged) < MaxEntries
  /\ blocked' = TRUE
  /\ UNCHANGED <<stage, row, logged, volume, decisions, dropped, pending, sessionId, tables>>

(* The verdict is journalled at once. *)
VerdictComes ==
  /\ stage = "relaying" /\ blocked
  /\ blocked' = FALSE
  /\ \E isDecision \in BOOLEAN : OnFrame(isDecision, FALSE)
  /\ UNCHANGED <<stage, pending, sessionId, tables>>

(* The session is over: flush(). *)
EndSession ==
  /\ stage = "relaying" /\ ~blocked
  /\ stage' = "flushing"
  /\ decisions' = Append(decisions, Flush)
  /\ UNCHANGED <<blocked, row, logged, volume, dropped, pending, sessionId, tables>>

(* Two seconds are given to a writer whose loop has no end: its ticker      *)
(* keeps the select from ever reaching its else.                           *)
GraceOver ==
  /\ stage = "closing"
  /\ stage' = "gone"
  /\ UNCHANGED <<blocked, row, logged, volume, decisions, dropped, pending, sessionId, tables>>

Kill ==
  /\ stage # "gone"
  /\ stage' = "gone"
  /\ UNCHANGED <<blocked, row, logged, volume, decisions, dropped, pending, sessionId, tables>>

-----------------------------------------------------------------------------
(* writer_loop. *)

Writable == stage # "gone" /\ ~blocked

(* A statement may fail, when another shim keeps the database. *)
Outcomes(count) == IF count < MaxFailures THEN {"done", "failed"} ELSE {"done"}

(* flush_pending: all of the batch or none, and cleared either way.  An     *)
(* entry whose session has no row violates a foreign key.                  *)
FlushPending(batch, outcome) ==
  IF outcome = "failed" \/ sessionId = 0
  THEN unwritten' = unwritten \cup ToSet(batch) /\ UNCHANGED entries
  ELSE entries' = entries \cup ToSet(batch) /\ UNCHANGED unwritten

Failed(batch, outcome) == IF batch # <<>> /\ outcome = "failed" THEN 1 ELSE 0

WriteDecision(e) ==
  \E outcome \in Outcomes(failures) :
    /\ FlushPending(Append(pending, e), outcome)
    /\ failures' = failures + Failed(Append(pending, e), outcome)
    /\ UNCHANGED <<stage, sessionId, sessionRow>>

(* insert_session: 0 if it fails. *)
InsertSession ==
  \E outcome \in Outcomes(failures) :
    /\ sessionId' = IF outcome = "done" THEN 1 ELSE 0
    /\ failures' = failures + Failed(decisions, outcome)
    /\ stage' = "relaying"
    /\ UNCHANGED <<entries, sessionRow, unwritten>>

(* update_session changes nothing when there is no row. *)
WriteUpdate(version) ==
  \E first \in Outcomes(failures) :
    LET count == failures + Failed(pending, first)
    IN \E second \in Outcomes(count) :
         /\ FlushPending(pending, first)
         /\ sessionRow' = IF second = "done" /\ sessionId # 0 THEN version ELSE sessionRow
         /\ failures' = count + Failed(decisions, second)
         /\ UNCHANGED <<stage, sessionId>>

WriteFlush ==
  \E outcome \in Outcomes(failures) :
    /\ FlushPending(pending, outcome)
    /\ failures' = failures + Failed(pending, outcome)
    /\ stage' = "closing"
    /\ UNCHANGED <<sessionId, sessionRow>>

TakeDecision ==
  /\ Writable
  /\ decisions # <<>>
  /\ LET m == Head(decisions)
     IN \/ m.type = "entry" /\ WriteDecision(m.entry)
        \/ m.type = "session" /\ InsertSession
        \/ m.type = "update" /\ WriteUpdate(m.row)
        \/ m.type = "flush" /\ WriteFlush
  /\ pending' = <<>>
  /\ decisions' = Tail(decisions)
  /\ UNCHANGED <<blocked, row, logged, volume, dropped>>

TakeVolume ==
  /\ Writable
  /\ decisions = <<>> /\ volume # <<>>
  /\ volume' = Tail(volume)
  /\ LET batch == Append(pending, Head(volume).entry)
     IN IF Len(batch) < BatchMax
        THEN pending' = batch /\ UNCHANGED tables
        ELSE \E outcome \in Outcomes(failures) :
               /\ FlushPending(batch, outcome)
               /\ failures' = failures + Failed(batch, outcome)
               /\ pending' = <<>> /\ UNCHANGED sessionRow
  /\ UNCHANGED <<shimVars, decisions, dropped, sessionId>>

LingerSlip == decisions = <<>> /\ volume = <<>> /\ Len(pending) >= BatchMax
(* The ticker is heard when both channels are empty. *)
Linger == decisions = <<>> /\ volume = <<>>

LingerOver ==
  /\ Writable
  /\ Linger /\ pending # <<>>
  /\ pending' = <<>>
  /\ \E outcome \in Outcomes(failures) :
       /\ FlushPending(pending, outcome)
       /\ failures' = failures + Failed(pending, outcome)
  /\ UNCHANGED <<shimVars, volume, decisions, dropped, sessionId, sessionRow>>

Writer == TakeDecision \/ TakeVolume \/ LingerOver

JournalNext ==
  \/ SeeFrame \/ AwaitVerdict \/ VerdictComes \/ EndSession \/ GraceOver \/ Kill
  \/ Writer

JournalSpec == JournalInit /\ [][JournalNext]_journalVars

-----------------------------------------------------------------------------
OnItsWay == ToSet(pending) \cup {m.entry : m \in {x \in ToSet(decisions \o volume) : x.type = "entry"}}
Missing  == logged \ (entries \cup unwritten \cup OnItsWay)

(* An entry is written, was in a transaction that failed, or is on its way, *)
(* and dropped() counts the others and nothing else.  When flush() returns, *)
(* every decision and all that is known of the session is in the database,  *)
(* unless it refused a write.  Of the other entries those in their channel  *)
(* are not, although flush() speaks of everything submitted                 *)
(* (journal/mod.rs:5-11 and 148-182, writer.rs:70-107).                    *)
EntriesAreAccounted ==
  /\ dropped = Cardinality(Missing)
  /\ stage = "closing" /\ failures = 0 =>
       /\ sessionRow = row
       /\ \A e \in logged : e.decision => e \in entries

(* No entry stays on its way, however long a prompt blocks the thread, and  *)
(* also when no other follows to fill the batch (journal/mod.rs:27-30,      *)
(* writer.rs:24-47).                                                       *)
EntriesAreWritten ==
  \A n \in 1..MaxEntries :
    (\E e \in OnItsWay : e.n = n) ~> stage = "gone" \/ \A e \in OnItsWay : e.n # n
=============================================================================
