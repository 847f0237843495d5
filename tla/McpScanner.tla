----------------------------- MODULE McpScanner -----------------------------
(***************************************************************************)
(* protocol/mcp.rs: the scan that finds the method of a frame without      *)
(* parsing it, first in a window at its beginning, then in all of it.      *)
(*                                                                         *)
(* A byte is a character; the letter m stands for the seven of "method".   *)
(* Positions count from 1: at is the byte under the scan.                  *)
(***************************************************************************)
EXTENDS Integers, Sequences, SequencesExt

CONSTANTS
  Frames,             (* the frames scanned                                 *)
  Windows             (* what METHOD_SCAN_WINDOW may be: it ends anywhere   *)

Space == " "
Quote == "\""
Escape == "\\"
MethodKey == <<"m">>

ASSUME ScannerAssumption == Frames \subseteq Seq(STRING) /\ Windows \subseteq Nat

VARIABLES
  frame, window,
  whole,              (* is this the pass over the whole frame?             *)
  at, depth,          (* scan_within's i and depth                          *)
  scan                (* the MethodScan, or Scanning                        *)

scannerVars == <<frame, window, whole, at, depth, scan>>

Scanning   == [is |-> "scanning"]
NoMethod   == [is |-> "none"]
Unparsable == [is |-> "unparsable"]
Found(text) == [is |-> "found", method |-> text]

ScannerInit ==
  /\ frame \in Frames /\ window \in Windows
  /\ whole = (Len(frame) <= window)
  /\ at = 1 /\ depth = 0
  /\ scan = Scanning

End       == IF whole THEN Len(frame) ELSE window
Truncated == End < Len(frame)

-----------------------------------------------------------------------------

Conclude(result) ==
  IF ~whole /\ result = NoMethod
  THEN whole' = TRUE /\ at' = 1 /\ depth' = 0 /\ UNCHANGED scan
  ELSE scan' = result /\ UNCHANGED <<whole, at, depth>>

(* The bytes ran out: of the window, so that the frame is to be scanned, or *)
(* of the frame.                                                           *)
RunsOut(result) == Conclude(IF Truncated THEN NoMethod ELSE result)

GoTo(next) == at' = next /\ UNCHANGED <<whole, scan>>

SkipSpace(from) ==
  CHOOSE j \in from..(End + 1) :
    /\ j <= End => frame[j] # Space
    /\ \A k \in from..(j - 1) : frame[k] = Space

(* read_string: where the string opened at a quote is closed, or 0. *)
ClosingQuoteSlip(opened) ==
  LET closings == {j \in (opened + 1)..End : frame[j] = Quote}
  IN IF closings = {} THEN 0 ELSE CHOOSE j \in closings : \A k \in closings : j <= k

ClosingQuote(opened) ==
  LET close[j \in 1..(Len(frame) + 2)] ==
        IF j > End THEN 0
        ELSE IF frame[j] = Quote THEN j
        ELSE IF frame[j] = Escape THEN close[j + 2] ELSE close[j + 1]
  IN close[opened + 1]

Content(opened, closed) == SubSeq(frame, opened + 1, closed - 1)
Escaped(text) == Escape \in ToSet(text)

-----------------------------------------------------------------------------
(* scan_within: the opening of the root object, then one byte or string.   *)
EnterRoot ==
  LET j == SkipSpace(at)
  IN /\ depth = 0
     /\ IF j > End THEN RunsOut(NoMethod) /\ UNCHANGED depth
        ELSE IF frame[j] # "{" THEN Conclude(NoMethod) /\ UNCHANGED depth
        ELSE GoTo(j + 1) /\ depth' = 1

Inside == depth > 0 /\ at <= End

Open ==
  /\ Inside /\ frame[at] \in {"{", "["}
  /\ depth' = depth + 1
  /\ GoTo(at + 1)

Close ==
  /\ Inside /\ frame[at] \in {"}", "]"}
  /\ IF depth = 1 THEN Conclude(NoMethod)
                  ELSE GoTo(at + 1) /\ depth' = depth - 1

(* The value of the root key: only plain text is a method. *)
MethodValue(colon) ==
  LET opened == SkipSpace(colon + 1)
      closed == ClosingQuote(opened)
  IN IF opened > End THEN RunsOut(Unparsable)
     ELSE IF frame[opened] # Quote THEN Conclude(Unparsable)
     ELSE IF closed = 0 THEN RunsOut(Unparsable)
     ELSE Conclude(IF Escaped(Content(opened, closed)) THEN Unparsable
                   ELSE Found(Content(opened, closed)))

IsMethodKey(closed, colon) ==
  colon <= End /\ frame[colon] = ":" /\ depth = 1 /\ Content(at, closed) = MethodKey

String ==
  LET closed == ClosingQuote(at)
      colon == SkipSpace(closed + 1)
  IN /\ Inside /\ frame[at] = Quote
     /\ IF closed = 0 THEN RunsOut(Unparsable)
        ELSE IF IsMethodKey(closed, colon) THEN MethodValue(colon)
        ELSE GoTo(closed + 1) /\ UNCHANGED depth

OtherByte ==
  /\ Inside /\ frame[at] \notin {"{", "[", "}", "]", Quote}
  /\ GoTo(at + 1) /\ UNCHANGED depth

Exhausted == depth > 0 /\ at > End /\ RunsOut(NoMethod)

ScannerNext ==
  /\ scan = Scanning
  /\ EnterRoot \/ Open \/ Close \/ String \/ OtherByte \/ Exhausted
  /\ UNCHANGED <<frame, window>>

ScannerSpec == ScannerInit /\ [][ScannerNext]_scannerVars

-----------------------------------------------------------------------------
(* What a frame says, without a window: what is inside a string after each  *)
(* of its bytes, and how deep.                                             *)
Places == 1..Len(frame)

After(before, byte) ==
  LET quoted == byte = Quote
      deeper == CASE byte \in {"{", "["} -> 1 [] byte \in {"}", "]"} -> -1 [] OTHER -> 0
  IN CASE before.is = "outside" -> [is |-> IF quoted THEN "inside" ELSE "outside",
                                    level |-> before.level + deeper]
       [] before.is = "literal" -> [is |-> "inside", level |-> before.level]
       [] before.is = "inside"  -> [is |-> IF quoted THEN "outside"
                                           ELSE IF byte = Escape THEN "literal" ELSE "inside",
                                    level |-> before.level]

Reading ==
  LET after[n \in 0..Len(frame)] ==
        IF n = 0 THEN [is |-> "outside", level |-> 0] ELSE After(after[n - 1], frame[n])
  IN after

Standing(n) == Reading[n].is
Level(n)    == Reading[n].level

(* p is the first place after n that is not blank; a string goes from o to  *)
(* c; the root object is open from j to k.                                 *)
Follows(n, p) == n < p /\ frame[p] # Space /\ \A k \in (n + 1)..(p - 1) : frame[k] = Space

IsString(o, c) ==
  /\ o < c /\ frame[o] = Quote /\ frame[c] = Quote
  /\ Standing(o - 1) = "outside" /\ Standing(c) = "outside"
  /\ \A k \in o..(c - 1) : Standing(k) # "outside"

IsRoot(j, k) == frame[j] = "{" /\ Follows(0, j) /\ j <= k /\ \A i \in j..k : Level(i) > 0

(* The string opened at o is the key of the root's method, with its colon   *)
(* at p.                                                                   *)
IsKey(o, p) ==
  /\ frame[o] = Quote /\ frame[p] = ":"
  /\ \E c \in Places : Content(o, c) = MethodKey /\ IsString(o, c) /\ Follows(c, p)
  /\ Level(o) = 1 /\ \E j \in Places : IsRoot(j, o)

FirstColon(p) ==
  \E o \in Places : IsKey(o, p) /\ \A i \in 1..(o - 1) : \A q \in Places : ~IsKey(i, q)

MethodColon == CHOOSE p \in Places : FirstColon(p)

Values(p) ==
  {v \in Places \X Places :
     Follows(p, v[1]) /\ IsString(v[1], v[2]) /\ ~Escaped(Content(v[1], v[2]))}

MethodText ==
  LET v == CHOOSE v \in Values(MethodColon) : TRUE IN Content(v[1], v[2])

Unclosed ==
  /\ Standing(Len(frame)) # "outside"
  /\ \E j \in Places : IsRoot(j, Len(frame))

Meaning ==
  IF \E o, p \in Places : IsKey(o, p)
  THEN IF Values(MethodColon) = {} THEN Unparsable ELSE Found(MethodText)
  ELSE IF Unclosed THEN Unparsable ELSE NoMethod

(* The method of a frame is that of the first method key of its root        *)
(* object: not of one nested in an argument, inside a string or behind an   *)
(* escaped quote, and whatever the window holds (mcp.rs:16-26, 94-235).     *)
MethodIsOfTheFrame == scan # Scanning => scan = Meaning
=============================================================================
