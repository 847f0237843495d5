---------------------------- MODULE FrameSplitter ----------------------------
(***************************************************************************)
(* protocol/frame.rs: cutting a byte stream into frames at each newline,   *)
(* whatever the sizes in which reads deliver it.                           *)
(*                                                                         *)
(* A byte is a newline, a carriage return, or any other.  buf is indexed   *)
(* from 1, so that start and scanned are the code's indices: how many      *)
(* bytes of buf lie before the frame in progress, and before the search.   *)
(***************************************************************************)
EXTENDS Naturals, Sequences, SequencesExt

CONSTANTS
  LF, CR, Other,      (* the bytes                                          *)
  MaxFrameBytes,      (* max_frame_bytes                                    *)
  CompactThreshold,   (* COMPACT_THRESHOLD                                  *)
  MaxRead,            (* bound: bytes returned by one read()                *)
  MaxStream           (* bound: bytes of the stream                         *)

ASSUME SplitterAssumption ==
  /\ LF # CR /\ LF # Other /\ CR # Other
  /\ {MaxFrameBytes, MaxRead, MaxStream} \subseteq Nat
  /\ CompactThreshold \in Nat \ {0}

Byte == {LF, CR, Other}

VARIABLES
  buf, start, scanned, discarding,
  stats,              (* SplitterStats                                      *)
  framing,            (* the pump: "reading", "draining", "finished"        *)
  stream,             (* history: every byte pushed                         *)
  frames              (* history: what next_frame and finish returned       *)

splitterVars == <<buf, start, scanned, discarding, stats, framing, stream, frames>>

Oversize == [raw |-> <<>>, content_len |-> 0]
NoStats == [frames |-> 0, empty_skipped |-> 0, oversize |-> 0, bytes_discarded |-> 0,
            unterminated |-> 0, crlf |-> 0]

SplitterInit ==
  /\ buf = <<>> /\ start = 0 /\ scanned = 0 /\ discarding = FALSE
  /\ stats = NoStats
  /\ framing = "reading" /\ stream = <<>> /\ frames = <<>>

Buffered == Len(buf) - start

-----------------------------------------------------------------------------

ConsumeTo(b, pos) ==
  LET dropped == IF pos = Len(b) \/ pos >= CompactThreshold THEN pos ELSE 0
  IN /\ buf' = SubSeq(b, dropped + 1, Len(b))
     /\ start' = pos - dropped
     /\ scanned' = pos - dropped

(* How much of raw is content: the bytes before the delimiter. *)
ContentLen(line) ==
  IF line # <<>> /\ Last(line) = CR THEN Len(line) - 1 ELSE Len(line)

(* push: a read has returned a chunk. *)
Push(chunk) ==
  /\ framing = "reading"
  /\ framing' = "draining"
  /\ buf' = buf \o chunk
  /\ stream' = stream \o chunk
  /\ UNCHANGED <<start, scanned, discarding, stats, frames>>

Newline(n) ==
  /\ n \in (scanned + 1)..Len(buf)
  /\ buf[n] = LF
  /\ \A m \in (scanned + 1)..(n - 1) : buf[m] # LF

NoNewline == \A n \in (scanned + 1)..Len(buf) : buf[n] # LF

(* What is dropped is counted, once for each line and byte by byte. *)
Dropped(counts, lines, bytes) ==
  [counts EXCEPT !.oversize = @ + lines, !.bytes_discarded = @ + bytes]

(* One round of next_frame's loop when there is a newline at n. *)
EndDiscard(n) ==
  /\ discarding
  /\ discarding' = FALSE
  /\ stats' = Dropped(stats, 0, n - 1 - start)
  /\ UNCHANGED frames

CutOversize(n) ==
  /\ ~discarding
  /\ n - 1 - start > MaxFrameBytes
  /\ stats' = Dropped(stats, 1, n - 1 - start)
  /\ frames' = Append(frames, Oversize)
  /\ UNCHANGED discarding

(* A line with nothing but its delimiter is counted and skipped. *)
Surface(n) ==
  LET len == ContentLen(SubSeq(buf, start + 1, n - 1))
  IN /\ stats' = [stats EXCEPT !.crlf = @ + (n - 1 - start - len),
                               !.frames = @ + (IF len = 0 THEN 0 ELSE 1),
                               !.empty_skipped = @ + (IF len = 0 THEN 1 ELSE 0)]
     /\ frames' = IF len = 0 THEN frames
                  ELSE Append(frames, [raw |-> SubSeq(buf, start + 1, n), content_len |-> len])

CutFrameSlip(n) ==
  ~discarding /\ Surface(n) /\ UNCHANGED discarding

CutFrame(n) ==
  ~discarding /\ n - 1 - start <= MaxFrameBytes /\ Surface(n) /\ UNCHANGED discarding

TakeLine ==
  /\ framing = "draining"
  /\ \E n \in (scanned + 1)..Len(buf) :
       /\ Newline(n)
       /\ EndDiscard(n) \/ CutOversize(n) \/ CutFrame(n)
       /\ ConsumeTo(buf, n)
  /\ UNCHANGED <<framing, stream>>

(* ... and when there is none: the caller is told to read on.  A frame over *)
(* the ceiling is an error first, and the next call says to read on.        *)
WaitForMoreSlip ==
  /\ framing = "draining"
  /\ NoNewline
  /\ framing' = "reading"
  /\ scanned' = Len(buf)
  /\ UNCHANGED <<buf, start, discarding, stats, frames, stream>>

WaitForMore ==
  /\ framing = "draining"
  /\ NoNewline
  /\ framing' = "reading"
  /\ IF discarding \/ Buffered > MaxFrameBytes
     THEN /\ ConsumeTo(buf, Len(buf))
          /\ discarding' = TRUE
          /\ stats' = Dropped(stats, IF discarding THEN 0 ELSE 1, Buffered)
          /\ frames' = IF discarding THEN frames ELSE Append(frames, Oversize)
     ELSE /\ scanned' = Len(buf)
          /\ UNCHANGED <<buf, start, discarding, stats, frames>>
  /\ UNCHANGED stream

(* finish: end of stream.  What is left is a frame without its newline; no  *)
(* more than the ceiling can be left, since the pump has drained.           *)
Finish ==
  LET len == ContentLen(SubSeq(buf, start + 1, Len(buf)))
  IN /\ framing = "reading"
     /\ framing' = "finished"
     /\ ConsumeTo(buf, Len(buf))
     /\ IF discarding \/ Buffered > MaxFrameBytes
        THEN /\ stats' = Dropped(stats, IF discarding THEN 0 ELSE 1, Buffered)
             /\ UNCHANGED frames
        ELSE IF len = 0 THEN UNCHANGED <<stats, frames>>
        ELSE /\ frames' = Append(frames, [raw |-> SubSeq(buf, start + 1, Len(buf)),
                                          content_len |-> len])
             /\ stats' = [stats EXCEPT !.frames = @ + 1, !.unterminated = @ + 1]
     /\ UNCHANGED <<discarding, stream>>

SplitterNext ==
  \/ \E k \in 1..MaxRead : \E chunk \in [1..k -> Byte] :
       Len(stream) + k <= MaxStream /\ Push(chunk)
  \/ TakeLine
  \/ WaitForMore
  \/ Finish

SplitterSpec == SplitterInit /\ [][SplitterNext]_splitterVars

-----------------------------------------------------------------------------
(* What a stream is cut into, said without a buffer: its lines one by one.  *)
Line(cut, line, newline) ==
  LET len == ContentLen(line)
  IN IF Len(line) > MaxFrameBytes
     THEN [out |-> Append(cut.out, Oversize), stats |-> Dropped(cut.stats, 1, Len(line))]
     ELSE [out |-> IF len = 0 THEN cut.out
                   ELSE Append(cut.out, [raw |-> line \o newline, content_len |-> len]),
           stats |-> [cut.stats EXCEPT
                        !.crlf = @ + (IF newline = <<>> THEN 0 ELSE Len(line) - len),
                        !.frames = @ + (IF len = 0 THEN 0 ELSE 1),
                        !.empty_skipped = @ + (IF len = 0 /\ newline # <<>> THEN 1 ELSE 0),
                        !.unterminated = @ + (IF len = 0 \/ newline # <<>> THEN 0 ELSE 1)]]

Fed(acc, byte) ==
  IF byte = LF THEN [cut |-> Line(acc.cut, acc.line, <<LF>>), line |-> <<>>]
               ELSE [acc EXCEPT !.line = Append(@, byte)]

(* The same after the first n bytes, for each n.                            *)
Uncut == [cut |-> [out |-> <<>>, stats |-> NoStats], line |-> <<>>]

Cutting(bytes) ==
  LET after[n \in 0..Len(bytes)] == IF n = 0 THEN Uncut ELSE Fed(after[n - 1], bytes[n])
  IN after

CutOf(bytes, ended) ==
  LET acc == Cutting(bytes)[Len(bytes)]
  IN IF ended \/ Len(acc.line) > MaxFrameBytes THEN Line(acc.cut, acc.line, <<>>) ELSE acc.cut

(* The frames, the errors and the counters are those of the stream, however *)
(* the reads have cut it: a line over the ceiling is never let through, and *)
(* never takes the next one with it (frame.rs:173-257).                     *)
CutIsOfTheStream ==
  framing # "draining" =>
    CutOf(stream, framing = "finished") = [out |-> frames, stats |-> stats]

(* A server that never writes a newline costs no more memory than the       *)
(* ceiling and one read (frame.rs:18-22).                                   *)
ResidualIsBounded == Buffered <= MaxFrameBytes + (IF framing = "draining" THEN MaxRead ELSE 0)
=============================================================================
