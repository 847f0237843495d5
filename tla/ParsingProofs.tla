--------------------------- MODULE ParsingProofs ----------------------------
(***************************************************************************)
(* What the shim makes of the bytes it relays: that the journal names the  *)
(* server by what it answered to initialize, for any number of frames,     *)
(* identifiers and handshakes; that what is kept of a stream stays small   *)
(* and what is surfaced of it are its lines, each as it is or as an error, *)
(* for every ceiling, every threshold and every cut into reads; that the   *)
(* scan finds the method of every frame and of every part of it; and that  *)
(* what is observed of a response does not depend on its chunks, nor does  *)
(* a refused call of the proxy reach its server.                           *)
(***************************************************************************)
EXTENDS FrameSplitter, McpScanner, HttpProxy, Observer, SequenceTheorems, WellFoundedInduction, TLAPS

(* The observer.                                                           *)

Pending == [id : Ids, method : {"initialize", "tools/call"}]

ObserverTypeOK ==
  /\ pendingIds \subseteq Pending
  /\ filed = [scope |-> filed.scope, server |-> filed.server]

(* A request without a response has an identifier of its own, that was used *)
(* and will not be again.                                                  *)
OwnIdentifier ==
  /\ \A p \in pendingIds : p.id \in used
  /\ \A p, q \in pendingIds : p.id = q.id => p = q

(* The identifier that is kept is that of the handshake under way, or of    *)
(* one that is over, and of no other request.                              *)
KeptIsOfHandshake ==
  /\ initialize_id \subseteq used
  /\ \A p \in pendingIds : IF p.method = "initialize" THEN initialize_id = {p.id}
                           ELSE p.id \notin initialize_id

ObserverInv == ObserverTypeOK /\ OwnIdentifier /\ KeptIsOfHandshake /\ SessionNamesItsServer

(* A session begins with no request and no answer.                          *)
LEMMA InitObserver == ObserverInit => ObserverInv
BY DEF ObserverInit, ObserverInv, ObserverTypeOK, OwnIdentifier, KeptIsOfHandshake, SessionNamesItsServer

(* A request has a new identifier, which is kept if it is a handshake.      *)
LEMMA ClientRequestsKeeps ==
  ASSUME ObserverInv, NEW id \in Ids, NEW method \in {"initialize", "tools/call"},
         ClientRequests(id, method)
  PROVE  ObserverInv'
<1> DEFINE new == [id |-> id, method |-> method]
           f == Frame("to_server", method, id, NoResult)
<1>1. /\ id \notin used /\ used' = used \cup {id} /\ pendingIds' = pendingIds \cup {new}
      /\ hello' = hello
      /\ method = "initialize" => \A p \in pendingIds : p.method # method
  BY DEF ClientRequests
<1>2. f.dir = "to_server" /\ f.method = method /\ f.id = id /\ method # "none"
  BY DEF Frame
<1>3. ~IsRoots(f) /\ ~IsHello(f) /\ IsObserved(f)
  BY <1>2 DEF IsRoots, IsHello, IsObserved
<1>4. ObserveSemantics(f)  BY <1>3 DEF ClientRequests, FrameGoesBy
<1> HIDE DEF f
<1>5. /\ initialize_id' = IF method = "initialize" THEN {id} ELSE initialize_id
      /\ filed' = filed
  BY <1>2, <1>3, <1>4 DEF ObserveSemantics
<1>6. ObserverTypeOK'  BY <1>1, <1>5 DEF ObserverInv, ObserverTypeOK, Pending
<1>7. OwnIdentifier'  BY <1>1 DEF ObserverInv, OwnIdentifier
<1>8. KeptIsOfHandshake'
  <2>1. initialize_id' \subseteq used'  BY <1>1, <1>5 DEF ObserverInv, KeptIsOfHandshake
  <2>2. ASSUME NEW p \in pendingIds'
        PROVE  IF p.method = "initialize" THEN initialize_id' = {p.id}
               ELSE p.id \notin initialize_id'
    <3>1. CASE p = new
      BY <1>1, <1>5, <3>1 DEF ObserverInv, KeptIsOfHandshake
    <3>2. CASE p \in pendingIds
      BY <1>1, <1>5, <3>2 DEF ObserverInv, KeptIsOfHandshake, OwnIdentifier
    <3>3. QED  BY <1>1, <3>1, <3>2
  <2>3. QED  BY <2>1, <2>2 DEF KeptIsOfHandshake
<1>9. SessionNamesItsServer'  BY <1>1, <1>5 DEF ObserverInv, SessionNamesItsServer
<1>10. QED  BY <1>6, <1>7, <1>8, <1>9 DEF ObserverInv

Results(result) ==
  \/ result = [kind |-> "error"]
  \/ result = [kind |-> "other"]
  \/ \E name \in Servers : result = [kind |-> "hello", name |-> name]

(* A response is to a handshake exactly if it has the identifier kept.      *)
LEMMA ServerRespondsKeeps ==
  ASSUME ObserverInv, NEW p \in pendingIds, NEW result, Results(result),
         ServerResponds(p, result)
  PROVE  ObserverInv'
<1> DEFINE f == Frame("to_client", "none", p.id, result)
<1>1. /\ pendingIds' = pendingIds \ {p} /\ used' = used
      /\ result.kind = "error" \/ (result.kind = "hello" <=> p.method = "initialize")
      /\ hello' = IF result.kind = "hello" THEN result.name ELSE hello
  BY DEF ServerResponds
<1>2. f.dir = "to_client" /\ f.method = "none" /\ f.id = p.id /\ f.result = result
  BY DEF Frame
<1>3. ~IsRoots(f) /\ IsObserved(f)  BY <1>2 DEF IsRoots, IsObserved
<1>4. ObserveSemantics(f)  BY <1>3 DEF ServerResponds, FrameGoesBy
<1>5. IsHello(f) <=> p.id \in initialize_id /\ result.kind \in {"hello", "other"}
  BY <1>2 DEF IsHello
<1> HIDE DEF f
<1>6. /\ initialize_id' = initialize_id
      /\ filed' = IF IsHello(f)
                  THEN [filed EXCEPT !.server = IF result.kind = "hello" THEN result.name
                                                ELSE NoHello]
                  ELSE filed
  BY <1>2, <1>3, <1>4 DEF ObserveSemantics
<1>7. ObserverTypeOK'  BY <1>1, <1>6 DEF ObserverInv, ObserverTypeOK
<1>8. OwnIdentifier' /\ KeptIsOfHandshake'
  BY <1>1, <1>6 DEF ObserverInv, OwnIdentifier, KeptIsOfHandshake
<1>9. SessionNamesItsServer'
  <2>1. filed.server = hello /\ filed = [scope |-> filed.scope, server |-> filed.server]
    BY DEF ObserverInv, ObserverTypeOK, SessionNamesItsServer
  <2>2. CASE result.kind = "hello"
    <3>1. p.method = "initialize"  BY <1>1, <2>2
    <3>2. IsHello(f)  BY <1>5, <2>2, <3>1 DEF ObserverInv, KeptIsOfHandshake
    <3>3. filed' = [filed EXCEPT !.server = result.name]  BY <1>6, <2>2, <3>2
    <3>4. filed'.server = result.name  BY <2>1, <3>3
    <3>5. QED  BY <1>1, <2>2, <3>4 DEF SessionNamesItsServer
  <2>3. CASE result.kind # "hello"
    <3>1. ~IsHello(f)  BY <1>1, <1>5, <2>3 DEF ObserverInv, KeptIsOfHandshake
    <3>2. QED  BY <1>1, <1>6, <2>1, <2>3, <3>1 DEF SessionNamesItsServer
  <2>4. QED  BY <2>2, <2>3
<1>10. QED  BY <1>7, <1>8, <1>9 DEF ObserverInv

(* A round of roots touches neither the identifier nor the server's name.   *)
LEMMA RootsKeep ==
  ASSUME ObserverInv, NEW id, NEW uris, ServerAsksRoots(id) \/ ClientGivesRoots(id, uris)
  PROVE  ObserverInv'
<1> DEFINE asked == Frame("to_client", "roots/list", id, NoResult)
           given == Frame("to_server", "none", id, [kind |-> "roots", roots |-> uris])
<1>1. UNCHANGED <<used, pendingIds, hello>>  BY DEF ServerAsksRoots, ClientGivesRoots
<1>2. filed' = filed /\ initialize_id' = initialize_id
  <2>1. CASE ServerAsksRoots(id)
    <3>1. /\ asked.dir = "to_client" /\ asked.method = "roots/list"  BY DEF Frame
    <3>2. ~IsRoots(asked) /\ ~IsHello(asked) /\ IsObserved(asked)
      BY <3>1 DEF IsRoots, IsHello, IsObserved
    <3>3. ObserveSemantics(asked)  BY <2>1, <3>2 DEF ServerAsksRoots, FrameGoesBy
    <3> HIDE DEF asked
    <3>4. QED  BY <3>1, <3>2, <3>3 DEF ObserveSemantics
  <2>2. CASE ClientGivesRoots(id, uris)
    <3>1. ~IsObserved(given)  BY DEF Frame, IsObserved
    <3>2. QED  BY <2>2, <3>1 DEF ClientGivesRoots, FrameGoesBy
  <2>3. QED  BY <2>1, <2>2
<1>3. QED
  BY <1>1, <1>2 DEF ObserverInv, ObserverTypeOK, OwnIdentifier, KeptIsOfHandshake, SessionNamesItsServer

(* Every step keeps the invariant.                                          *)
LEMMA StepObserver == ObserverInv /\ [ObserverNext]_observerVars => ObserverInv'
<1> SUFFICES ASSUME ObserverInv, [ObserverNext]_observerVars PROVE ObserverInv'  OBVIOUS
<1>1. ASSUME NEW id \in Ids, NEW method \in {"initialize", "tools/call"},
             ClientRequests(id, method)
      PROVE  ObserverInv'
  BY <1>1, ClientRequestsKeeps
<1>2. ASSUME NEW p \in pendingIds,
             NEW result \in {[kind |-> "error"], [kind |-> "other"]}
                            \cup [kind : {"hello"}, name : Servers],
             ServerResponds(p, result)
      PROVE  ObserverInv'
  <2>1. Results(result)  BY DEF Results
  <2>2. QED  BY <1>2, <2>1, ServerRespondsKeeps
<1>3. ASSUME NEW id \in Ids, ServerAsksRoots(id)  PROVE ObserverInv'
  BY <1>3, RootsKeep
<1>4. ASSUME NEW id \in Ids, NEW uris \in SUBSET Roots, ClientGivesRoots(id, uris)
      PROVE  ObserverInv'
  BY <1>4, RootsKeep
<1>5. CASE UNCHANGED observerVars
  BY <1>5 DEF observerVars, resolverVars, trafficVars, ObserverInv, ObserverTypeOK, OwnIdentifier,
              KeptIsOfHandshake, SessionNamesItsServer
<1>6. QED  BY <1>1, <1>2, <1>3, <1>4, <1>5 DEF ObserverNext

(* The row of the session names the server that answered the last handshake *)
(* to be answered, whatever else has an identifier like it: on_frame and    *)
(* observe_semantics of observer.rs.                                       *)
THEOREM ServerIsNamed == ObserverSpec => []SessionNamesItsServer
<1>1. ObserverInit => ObserverInv  BY InitObserver
<1>2. ObserverInv /\ [ObserverNext]_observerVars => ObserverInv'  BY StepObserver
<1>3. ObserverInv => SessionNamesItsServer  BY DEF ObserverInv
<1>4. QED  BY <1>1, <1>2, <1>3, PTL DEF ObserverSpec

-----------------------------------------------------------------------------
(* The frame splitter.                                                     *)

USE SplitterAssumption

Emitted == [raw : Seq(Byte), content_len : Nat]

(* The two indices stay inside the buffer and in their order.               *)
Indices ==
  /\ buf \in Seq(Byte)
  /\ start \in Nat /\ scanned \in Nat
  /\ start <= scanned /\ scanned <= Len(buf)
  /\ framing = "reading" => scanned = Len(buf)
  /\ framing \in {"reading", "draining", "finished"}
  /\ frames \in Seq(Emitted)

(* What has been searched has no newline in it: the search that resumes at  *)
(* scanned finds the newline that a search from start would.                *)
Searched == \A n \in (start + 1)..scanned : buf[n] # LF

(* A frame is within the ceiling, its newline apart, and is one line.       *)
IsLine(f) ==
  /\ Len(f.raw) <= MaxFrameBytes + 1
  /\ \A k \in 1..(Len(f.raw) - 1) : f.raw[k] # LF

FramesAreLines == \A n \in DOMAIN frames : IsLine(frames[n])

SplitterInv == Indices /\ Searched /\ ResidualIsBounded /\ FramesAreLines

-----------------------------------------------------------------------------
(* consume_to keeps what is after pos, wherever it puts it.                 *)
LEMMA Consumed ==
  ASSUME Indices, NEW pos \in scanned..Len(buf), ConsumeTo(buf, pos)
  PROVE  /\ buf' \in Seq(Byte) /\ start' \in Nat /\ scanned' = start'
         /\ start' <= Len(buf') /\ Len(buf') - start' = Len(buf) - pos
<1> DEFINE dropped == IF pos = Len(buf) \/ pos >= CompactThreshold THEN pos ELSE 0
<1>1. /\ buf \in Seq(Byte) /\ Len(buf) \in Nat /\ pos \in Nat /\ pos <= Len(buf)
  BY DEF Indices
<1>2. dropped \in Nat /\ dropped <= pos  BY <1>1
<1>3. buf' = SubSeq(buf, dropped + 1, Len(buf)) /\ start' = pos - dropped /\ scanned' = start'
  BY DEF ConsumeTo
<1> HIDE DEF dropped
<1>4. \A i \in (dropped + 1)..Len(buf) : i \in 1..Len(buf)  BY <1>1, <1>2
<1>5. buf' \in Seq(Byte) /\ Len(buf') = Len(buf) - dropped
  <2>1. \A i \in (dropped + 1)..Len(buf) : buf[i] \in Byte  BY <1>1, <1>4
  <2>2. CASE dropped + 1 <= Len(buf)
    BY <1>1, <1>2, <1>3, <2>1, <2>2, SubSeqProperties
  <2>3. CASE dropped = Len(buf)
    <3>1. buf' = <<>>  BY <1>1, <1>3, <2>3, SubSeqEmpty
    <3>2. QED  BY <1>1, <2>3, <3>1
  <2>4. QED  BY <1>1, <1>2, <2>2, <2>3
<1>6. QED  BY <1>1, <1>2, <1>3, <1>5

(* What lies between start and a newline, or the end, that a search from    *)
(* scanned did not pass: one line.                                          *)
LEMMA Surfaced ==
  ASSUME Indices, Searched, NEW n \in scanned..Len(buf), start < n,
         n - 1 - start <= MaxFrameBytes,
         \A m \in (scanned + 1)..(n - 1) : buf[m] # LF
  PROVE  /\ SubSeq(buf, start + 1, n) \in Seq(Byte)
         /\ Len(SubSeq(buf, start + 1, n)) = n - start
         /\ \A k \in 1..(n - start - 1) : SubSeq(buf, start + 1, n)[k] # LF
<1>1. /\ buf \in Seq(Byte) /\ Len(buf) \in Nat /\ start \in Nat /\ scanned \in Nat
      /\ n \in Nat /\ n <= Len(buf) /\ start < n /\ start <= scanned
  BY DEF Indices
<1>2. \A i \in (start + 1)..n : buf[i] \in Byte  BY <1>1
<1>3. /\ SubSeq(buf, start + 1, n) \in Seq(Byte)
      /\ Len(SubSeq(buf, start + 1, n)) = n - (start + 1) + 1
      /\ \A i \in 1..(n - (start + 1) + 1) : SubSeq(buf, start + 1, n)[i] = buf[start + 1 + i - 1]
  BY <1>1, <1>2, SubSeqProperties
<1>4. ASSUME NEW k \in 1..(n - start - 1)  PROVE SubSeq(buf, start + 1, n)[k] # LF
  <2>1. SubSeq(buf, start + 1, n)[k] = buf[start + k]  BY <1>1, <1>3
  <2>2. CASE start + k <= scanned  BY <1>1, <2>1, <2>2 DEF Searched
  <2>3. CASE start + k > scanned
    <3>1. start + k \in (scanned + 1)..(n - 1)  BY <1>1, <2>3
    <3>2. QED  BY <2>1, <3>1
  <2>4. QED  BY <1>1, <2>2, <2>3
<1>5. n - (start + 1) + 1 = n - start  BY <1>1
<1>6. QED  BY <1>3, <1>4, <1>5, Zenon

(* Right after consume_to there is nothing that has been searched.          *)
LEMMA NothingBetween == ASSUME NEW i \in Nat PROVE (i + 1)..i = {}
OBVIOUS

(* What ContentLen counts is a number of bytes.                             *)
LEMMA ContentIsCounted ==
  ASSUME NEW line \in Seq(Byte)
  PROVE  ContentLen(line) \in Nat
<1>1. Len(line) \in Nat /\ (line # <<>> => Len(line) >= 1)  BY EmptySeq
<1>2. QED  BY <1>1 DEF ContentLen

(* The error says nothing of the line. *)
LEMMA OversizeIsLine == Oversize \in Emitted /\ IsLine(Oversize)
<1>1. Oversize \in Emitted  BY DEF Oversize, Emitted
<1>2. Oversize.raw = <<>> /\ Len(<<>>) = 0  BY DEF Oversize
<1>3. QED  BY <1>1, <1>2 DEF IsLine

(* A line more. *)
LEMMA OneMore ==
  ASSUME frames \in Seq(Emitted), FramesAreLines, NEW f \in Emitted, IsLine(f),
         frames' = Append(frames, f)
  PROVE  frames' \in Seq(Emitted) /\ FramesAreLines'
<1>1. frames' \in Seq(Emitted) /\ Len(frames') = Len(frames) + 1
  BY AppendProperties
<1>2. ASSUME NEW n \in DOMAIN frames'  PROVE IsLine(frames'[n])
  <2>1. CASE n = Len(frames) + 1
    BY <2>1
  <2>2. CASE n # Len(frames) + 1
    <3>1. n \in DOMAIN frames /\ frames'[n] = frames[n]  BY <1>1, <2>2
    <3>2. QED  BY <3>1 DEF FramesAreLines
  <2>3. QED  BY <2>1, <2>2
<1>3. QED  BY <1>1, <1>2 DEF FramesAreLines, IsLine

-----------------------------------------------------------------------------
(* Nothing is held at first.                                                *)
LEMMA InitSplitter == SplitterInit => SplitterInv
<1> SUFFICES ASSUME SplitterInit PROVE SplitterInv  OBVIOUS
<1>1. /\ buf = <<>> /\ Len(buf) = 0 /\ start = 0 /\ scanned = 0
      /\ framing = "reading" /\ frames = <<>>
  BY DEF SplitterInit
<1>2. Indices  BY <1>1 DEF Indices
<1>3. Searched  BY <1>1 DEF Searched
<1>4. ResidualIsBounded  BY <1>1 DEF ResidualIsBounded, Buffered
<1>5. FramesAreLines
  <2>1. DOMAIN frames = {}  BY <1>1
  <2>2. QED  BY <2>1 DEF FramesAreLines
<1>6. QED  BY <1>2, <1>3, <1>4, <1>5 DEF SplitterInv

(* A read appends, and the search goes on where it was.                     *)
LEMMA PushKeeps ==
  ASSUME SplitterInv, NEW k \in 1..MaxRead, NEW chunk \in [1..k -> Byte], Push(chunk)
  PROVE  SplitterInv'
<1>1. /\ buf \in Seq(Byte) /\ Len(buf) \in Nat /\ start \in Nat /\ scanned \in Nat
      /\ start <= scanned /\ scanned <= Len(buf) /\ frames \in Seq(Emitted)
  BY DEF SplitterInv, Indices
<1>2. k \in Nat /\ k >= 1 /\ MaxRead \in Nat /\ k <= MaxRead /\ MaxFrameBytes \in Nat  OBVIOUS
<1>3. chunk \in Seq(Byte) /\ Len(chunk) = k  BY <1>2
<1>4. /\ framing = "reading" /\ framing' = "draining" /\ buf' = buf \o chunk
      /\ UNCHANGED <<start, scanned, frames>>
  BY DEF Push
<1>5. /\ buf' \in Seq(Byte) /\ Len(buf') = Len(buf) + k
      /\ \A i \in 1..Len(buf) : buf'[i] = buf[i]
  <2>1. buf' \in Seq(Byte) /\ Len(buf') = Len(buf) + Len(chunk)
    <3> DEFINE b == buf \o chunk
    <3>1. b \in Seq(Byte) /\ Len(b) = Len(buf) + Len(chunk)
      BY <1>1, <1>3, ConcatProperties
    <3> HIDE DEF b
    <3>2. buf' = b  BY <1>4 DEF b
    <3>3. QED  BY <3>1, <3>2
  <2>2. \A i \in 1..Len(buf) : buf'[i] = buf[i]
    BY <1>1, <1>3, <1>4
  <2>3. QED  BY <1>3, <2>1, <2>2
<1>6. Indices'  BY <1>1, <1>2, <1>4, <1>5 DEF Indices
<1>7. Searched'  BY <1>1, <1>4, <1>5 DEF SplitterInv, Searched
<1>8. ResidualIsBounded'
  BY <1>1, <1>2, <1>4, <1>5 DEF SplitterInv, ResidualIsBounded, Buffered
<1>9. FramesAreLines'  BY <1>4 DEF SplitterInv, FramesAreLines, IsLine
<1>10. QED  BY <1>6, <1>7, <1>8, <1>9 DEF SplitterInv

(* A round at a newline: the line is surfaced, dropped or too long.         *)
LEMMA TakeLineKeeps == ASSUME SplitterInv, TakeLine PROVE SplitterInv'
<1>1. /\ buf \in Seq(Byte) /\ Len(buf) \in Nat /\ start \in Nat /\ scanned \in Nat
      /\ start <= scanned /\ scanned <= Len(buf) /\ frames \in Seq(Emitted)
  BY DEF SplitterInv, Indices
<1>2. framing = "draining" /\ framing' = framing  BY DEF TakeLine
<1>3. PICK n \in (scanned + 1)..Len(buf) :
        /\ Newline(n)
        /\ EndDiscard(n) \/ CutOversize(n) \/ CutFrame(n)
        /\ ConsumeTo(buf, n)
  BY DEF TakeLine
<1>4. /\ buf' \in Seq(Byte) /\ start' \in Nat /\ scanned' = start'
      /\ start' <= Len(buf') /\ Len(buf') - start' = Len(buf) - n
  <2>1. n \in scanned..Len(buf)  BY <1>1
  <2>2. QED  BY <1>3, <2>1, Consumed DEF SplitterInv
<1>5. frames' \in Seq(Emitted) /\ FramesAreLines'
  <2>1. CASE frames' = frames
    BY <1>1, <2>1 DEF SplitterInv, FramesAreLines, IsLine
  <2>2. CASE frames' = Append(frames, Oversize)
    BY <1>1, <2>2, OversizeIsLine, OneMore DEF SplitterInv
  <2>3. CASE CutFrame(n) /\ frames' # frames
    <3> DEFINE raw == SubSeq(buf, start + 1, n)
               len == ContentLen(SubSeq(buf, start + 1, n - 1))
               f   == [raw |-> raw, content_len |-> len]
    <3>1. n - 1 - start <= MaxFrameBytes /\ frames' = Append(frames, f)
      BY <2>3 DEF CutFrame, Surface
    <3>2. raw \in Seq(Byte) /\ Len(raw) = n - start /\ \A k \in 1..(n - start - 1) : raw[k] # LF
      <4>1. n \in scanned..Len(buf) /\ start < n  BY <1>1
      <4>2. \A m \in (scanned + 1)..(n - 1) : buf[m] # LF  BY <1>3 DEF Newline
      <4>3. QED  BY <3>1, <4>1, <4>2, Surfaced DEF SplitterInv
    <3>3. len \in Nat
      <4>1. \A i \in (start + 1)..(n - 1) : buf[i] \in Byte  BY <1>1
      <4>2. SubSeq(buf, start + 1, n - 1) \in Seq(Byte)
        BY <1>1, <4>1, SubSeqProperties
      <4>3. QED  BY <4>2, ContentIsCounted
    <3> HIDE DEF raw, len
    <3>4. f \in Emitted  BY <3>2, <3>3 DEF Emitted
    <3>5. IsLine(f)
      <4>1. f.raw = raw  OBVIOUS
      <4>2. Len(raw) <= MaxFrameBytes + 1 /\ Len(raw) - 1 = n - start - 1
        BY <1>1, <3>1, <3>2
      <4>3. QED  BY <3>2, <4>1, <4>2 DEF IsLine
    <3> HIDE DEF f
    <3>6. QED  BY <1>1, <3>1, <3>4, <3>5, OneMore DEF SplitterInv
  <2>4. QED  BY <1>3, <2>1, <2>2, <2>3 DEF EndDiscard, CutOversize
<1>6. Indices'  BY <1>2, <1>4, <1>5 DEF Indices
<1>7. Searched'
  <2>1. start' \in Nat /\ scanned' = start'  BY <1>4
  <2>2. QED  BY <2>1, NothingBetween DEF Searched
<1>8. ResidualIsBounded'
  BY <1>1, <1>2, <1>4 DEF SplitterInv, ResidualIsBounded, Buffered
<1>9. QED  BY <1>5, <1>6, <1>7, <1>8 DEF SplitterInv

(* No newline: the pump reads on, with what it has or without it.           *)
LEMMA WaitKeeps == ASSUME SplitterInv, WaitForMore PROVE SplitterInv'
<1>1. /\ buf \in Seq(Byte) /\ Len(buf) \in Nat /\ start \in Nat /\ scanned \in Nat
      /\ start <= scanned /\ scanned <= Len(buf) /\ frames \in Seq(Emitted)
  BY DEF SplitterInv, Indices
<1>2. framing' = "reading" /\ NoNewline  BY DEF WaitForMore
<1>3. CASE discarding \/ Buffered > MaxFrameBytes
  <2>1. ConsumeTo(buf, Len(buf)) /\ frames' \in {frames, Append(frames, Oversize)}
    BY <1>3 DEF WaitForMore
  <2>2. /\ buf' \in Seq(Byte) /\ start' \in Nat /\ scanned' = start'
        /\ start' <= Len(buf') /\ Len(buf') - start' = Len(buf) - Len(buf)
    <3>1. Len(buf) \in scanned..Len(buf)  BY <1>1
    <3>2. QED  BY <2>1, <3>1, Consumed DEF SplitterInv
  <2>3. frames' \in Seq(Emitted) /\ FramesAreLines'
    <3>1. CASE frames' = frames
      BY <1>1, <3>1 DEF SplitterInv, FramesAreLines, IsLine
    <3>2. CASE frames' = Append(frames, Oversize)
      BY <1>1, <3>2, OversizeIsLine, OneMore DEF SplitterInv
    <3>3. QED  BY <2>1, <3>1, <3>2
  <2>4. Indices'  BY <1>2, <2>2, <2>3 DEF Indices
  <2>5. Searched'
    <3>1. start' \in Nat /\ scanned' = start'  BY <2>2
    <3>2. QED  BY <3>1, NothingBetween DEF Searched
  <2>6. ResidualIsBounded'  BY <1>1, <1>2, <2>2 DEF ResidualIsBounded, Buffered
  <2>7. QED  BY <2>3, <2>4, <2>5, <2>6 DEF SplitterInv
<1>4. CASE ~(discarding \/ Buffered > MaxFrameBytes)
  <2>1. scanned' = Len(buf) /\ UNCHANGED <<buf, start, frames>>
    BY <1>4 DEF WaitForMore
  <2>2. Indices'  BY <1>1, <1>2, <2>1 DEF Indices
  <2>3. Searched'
    BY <1>1, <1>2, <2>1 DEF SplitterInv, Searched, NoNewline
  <2>4. ResidualIsBounded'
    BY <1>1, <1>2, <1>4, <2>1 DEF ResidualIsBounded, Buffered
  <2>5. FramesAreLines'  BY <2>1 DEF SplitterInv, FramesAreLines, IsLine
  <2>6. QED  BY <2>2, <2>3, <2>4, <2>5 DEF SplitterInv
<1>5. QED  BY <1>3, <1>4

(* The end of the stream: what is left is the last line, or too long.       *)
LEMMA FinishKeeps == ASSUME SplitterInv, Finish PROVE SplitterInv'
<1>1. /\ buf \in Seq(Byte) /\ Len(buf) \in Nat /\ start \in Nat /\ scanned \in Nat
      /\ start <= scanned /\ scanned = Len(buf) /\ frames \in Seq(Emitted)
  BY DEF SplitterInv, Indices, Finish
<1>2. framing' = "finished" /\ ConsumeTo(buf, Len(buf))  BY DEF Finish
<1>3. /\ buf' \in Seq(Byte) /\ start' \in Nat /\ scanned' = start'
      /\ start' <= Len(buf') /\ Len(buf') - start' = Len(buf) - Len(buf)
  <2>1. Len(buf) \in scanned..Len(buf)  BY <1>1
  <2>2. QED  BY <1>2, <2>1, Consumed DEF SplitterInv
<1>4. frames' \in Seq(Emitted) /\ FramesAreLines'
  <2> DEFINE raw == SubSeq(buf, start + 1, Len(buf))
             f   == [raw |-> raw, content_len |-> ContentLen(raw)]
  <2>1. CASE frames' = frames
    BY <1>1, <2>1 DEF SplitterInv, FramesAreLines, IsLine
  <2>2. CASE frames' # frames
    <3>1. /\ Buffered <= MaxFrameBytes /\ ContentLen(raw) # 0
          /\ frames' = Append(frames, f)
      BY <1>1, <2>2 DEF Finish, Buffered
    <3>2. start < Len(buf)
      <4>1. CASE start = Len(buf)
        <5>1. raw = <<>>  BY <1>1, <4>1, SubSeqEmpty
        <5>2. ContentLen(<<>>) = 0
          <6>1. Len(<<>>) = 0  OBVIOUS
          <6>2. QED  BY <6>1 DEF ContentLen
        <5>3. QED  BY <3>1, <5>1, <5>2
      <4>2. QED  BY <1>1, <4>1
    <3>3. /\ raw \in Seq(Byte) /\ Len(raw) = Len(buf) - start
          /\ \A k \in 1..(Len(buf) - start - 1) : raw[k] # LF
      <4>1. Len(buf) \in scanned..Len(buf)  BY <1>1
      <4>2. Len(buf) - 1 - start <= MaxFrameBytes  BY <1>1, <3>1 DEF Buffered
      <4>3. (scanned + 1)..(Len(buf) - 1) = {}  BY <1>1
      <4>4. \A m \in (scanned + 1)..(Len(buf) - 1) : buf[m] # LF  BY <4>3
      <4>5. QED  BY <3>2, <4>1, <4>2, <4>4, Surfaced DEF SplitterInv
    <3>4. ContentLen(raw) \in Nat  BY <3>3, ContentIsCounted
    <3>5. Len(buf) - start <= MaxFrameBytes  BY <3>1 DEF Buffered
    <3> HIDE DEF raw
    <3>6. f \in Emitted  BY <3>3, <3>4 DEF Emitted
    <3>7. IsLine(f)
      <4>1. f.raw = raw  OBVIOUS
      <4>2. Len(raw) <= MaxFrameBytes + 1 /\ Len(raw) - 1 = Len(buf) - start - 1
        BY <1>1, <3>3, <3>5
      <4>3. QED  BY <3>3, <4>1, <4>2 DEF IsLine
    <3> HIDE DEF f
    <3>8. QED  BY <1>1, <3>1, <3>6, <3>7, OneMore DEF SplitterInv
  <2>3. QED  BY <2>1, <2>2
<1>5. Indices'  BY <1>2, <1>3, <1>4 DEF Indices
<1>6. Searched'
  <2>1. start' \in Nat /\ scanned' = start'  BY <1>3
  <2>2. QED  BY <2>1, NothingBetween DEF Searched
<1>7. ResidualIsBounded'  BY <1>1, <1>2, <1>3 DEF ResidualIsBounded, Buffered
<1>8. QED  BY <1>4, <1>5, <1>6, <1>7 DEF SplitterInv

(* Every step of the splitter and of its pump.                              *)
LEMMA StepSplitter == SplitterInv /\ [SplitterNext]_splitterVars => SplitterInv'
<1> SUFFICES ASSUME SplitterInv, [SplitterNext]_splitterVars PROVE SplitterInv'  OBVIOUS
<1>1. CASE \E k \in 1..MaxRead : \E chunk \in [1..k -> Byte] : Push(chunk)
  BY <1>1, PushKeeps
<1>2. CASE TakeLine  BY <1>2, TakeLineKeeps
<1>3. CASE WaitForMore  BY <1>3, WaitKeeps
<1>4. CASE Finish  BY <1>4, FinishKeeps
<1>5. CASE UNCHANGED splitterVars
  BY <1>5 DEF splitterVars, SplitterInv, Indices, Searched, ResidualIsBounded, Buffered,
              FramesAreLines, IsLine
<1>6. QED  BY <1>1, <1>2, <1>3, <1>4, <1>5 DEF SplitterNext

-----------------------------------------------------------------------------
(* However long the lines of a stream and whatever its reads, no more of it *)
(* is held than the ceiling and, while a read is taken apart, that read.    *)
THEOREM MemoryIsBounded == SplitterSpec => []ResidualIsBounded
<1>1. SplitterInv => ResidualIsBounded  BY DEF SplitterInv
<1>2. QED  BY InitSplitter, StepSplitter, <1>1, PTL DEF SplitterSpec

(* What is surfaced is one line each, of no more than the ceiling: two lines *)
(* are never run together, although the search does not begin at the start  *)
(* of the line and the buffer is moved under it.                            *)
THEOREM OneLineEach == SplitterSpec => []FramesAreLines
<1>1. SplitterInv => FramesAreLines  BY DEF SplitterInv
<1>2. QED  BY InitSplitter, StepSplitter, <1>1, PTL DEF SplitterSpec

-----------------------------------------------------------------------------
(* What a stream is cut into.                                              *)

(* Induction over numbers, from the well-foundedness of their order: what   *)
(* holds of 0, and of the next number when of one, holds of all.            *)
LEMMA LeastNumber ==
  ASSUME NEW T \in SUBSET Nat, T # {}
  PROVE  \E x \in T : \A y \in T : x <= y
<1> DEFINE R == OpToRel(<, Nat)
<1>1. IsWellFoundedOn(R, Nat)  BY NatLessThanWellFounded
<1>2. \A x, y \in Nat : x < y => <<x, y>> \in R  BY DEF OpToRel
<1> HIDE DEF R
<1>3. PICK x \in T : \A y \in T : ~(<<y, x>> \in R)  BY <1>1, WFMin
<1>4. \A y \in T : ~(y < x)  BY <1>2, <1>3
<1>5. \A y \in T : y \in Nat /\ x \in Nat  BY <1>3
<1>6. \A y \in T : x <= y  BY <1>4, <1>5
<1>7. QED  BY <1>3, <1>6

LEMMA Induction ==
  ASSUME NEW S, 0 \in S, \A n \in Nat : n \in S => n + 1 \in S
  PROVE  Nat \subseteq S
<1> DEFINE T == {n \in Nat : n \notin S}
<1> SUFFICES ASSUME T # {} PROVE FALSE  OBVIOUS
<1>1. PICK x \in T : \A y \in T : x <= y  BY LeastNumber
<1>2. x \in Nat /\ x # 0  OBVIOUS
<1>3. x - 1 \in Nat /\ x - 1 < x /\ (x - 1) + 1 = x  BY <1>2
<1>4. x - 1 \in S  BY <1>1, <1>3
<1>5. QED  BY <1>3, <1>4

(* The counters of SplitterStats.                                           *)
Counters == [frames : Nat, empty_skipped : Nat, oversize : Nat, bytes_discarded : Nat,
             unterminated : Nat, crlf : Nat]

(* The six counters, and what is done to them. *)
Count(f, e, o, b, u, w) ==
  [frames |-> f, empty_skipped |-> e, oversize |-> o, bytes_discarded |-> b,
   unterminated |-> u, crlf |-> w]
OfLine(counts, n, m, k) ==
  [counts EXCEPT !.crlf = @ + n, !.frames = @ + m, !.empty_skipped = @ + k]
OfLast(counts) == [counts EXCEPT !.frames = @ + 1, !.unterminated = @ + 1]
OfAny(counts, n, m, k, j) ==
  [counts EXCEPT !.crlf = @ + n, !.frames = @ + m, !.empty_skipped = @ + k, !.unterminated = @ + j]

LEMMA Counted ==
  ASSUME NEW c \in Counters
  PROVE  \E f, e, o, b, u, w \in Nat : c = Count(f, e, o, b, u, w)
<1>1. /\ c = Count(c.frames, c.empty_skipped, c.oversize, c.bytes_discarded, c.unterminated,
                   c.crlf)
      /\ c.frames \in Nat /\ c.empty_skipped \in Nat /\ c.oversize \in Nat
      /\ c.bytes_discarded \in Nat /\ c.unterminated \in Nat /\ c.crlf \in Nat
  BY DEF Counters, Count
<1>2. QED  BY <1>1

LEMMA DroppedIs ==
  ASSUME NEW f, NEW e, NEW o, NEW b, NEW u, NEW w, NEW i, NEW n
  PROVE  Dropped(Count(f, e, o, b, u, w), i, n)
           = Count(f, e, o + i, b + n, u, w)
<1>1. [Count(f, e, o, b, u, w) EXCEPT !.oversize = o + i]
        = Count(f, e, o + i, b, u, w)
  BY SMT DEF Count
<1>2. [Count(f, e, o + i, b, u, w) EXCEPT !.bytes_discarded = b + n]
        = Count(f, e, o + i, b + n, u, w)
  BY SMT DEF Count
<1>3. LET c == Count(f, e, o, b, u, w) IN c.oversize = o /\ c.bytes_discarded = b  BY DEF Count
<1>4. QED  BY <1>1, <1>2, <1>3, Zenon DEF Dropped

LEMMA OfLineIs ==
  ASSUME NEW f, NEW e, NEW o, NEW b, NEW u, NEW w, NEW n, NEW m, NEW k
  PROVE  OfLine(Count(f, e, o, b, u, w), n, m, k)
           = Count(f + m, e + k, o, b, u, w + n)
<1>1. [Count(f, e, o, b, u, w) EXCEPT !.crlf = w + n]
        = Count(f, e, o, b, u, w + n)
  BY SMT DEF Count
<1>2. [Count(f, e, o, b, u, w + n) EXCEPT !.frames = f + m]
        = Count(f + m, e, o, b, u, w + n)
  BY SMT DEF Count
<1>3. [Count(f + m, e, o, b, u, w + n) EXCEPT !.empty_skipped = e + k]
        = Count(f + m, e + k, o, b, u, w + n)
  BY SMT DEF Count
<1>4. LET c == Count(f, e, o, b, u, w) IN c.crlf = w /\ c.frames = f /\ c.empty_skipped = e  BY DEF Count
<1>5. QED  BY <1>1, <1>2, <1>3, <1>4, Zenon DEF OfLine

LEMMA OfLastIs ==
  ASSUME NEW f, NEW e, NEW o, NEW b, NEW u, NEW w
  PROVE  OfLast(Count(f, e, o, b, u, w))
           = Count(f + 1, e, o, b, u + 1, w)
<1>1. [Count(f, e, o, b, u, w) EXCEPT !.frames = f + 1]
        = Count(f + 1, e, o, b, u, w)
  BY SMT DEF Count
<1>2. [Count(f + 1, e, o, b, u, w) EXCEPT !.unterminated = u + 1]
        = Count(f + 1, e, o, b, u + 1, w)
  BY SMT DEF Count
<1>3. LET c == Count(f, e, o, b, u, w) IN c.frames = f /\ c.unterminated = u  BY DEF Count
<1>4. QED  BY <1>1, <1>2, <1>3, Zenon DEF OfLast

LEMMA OfAnyIs ==
  ASSUME NEW f, NEW e, NEW o, NEW b, NEW u, NEW w, NEW n, NEW m, NEW k, NEW j
  PROVE  OfAny(Count(f, e, o, b, u, w), n, m, k, j)
           = Count(f + m, e + k, o, b, u + j, w + n)
<1>1. OfLine(Count(f, e, o, b, u, w), n, m, k) = Count(f + m, e + k, o, b, u, w + n)
  BY OfLineIs
<1>2. [Count(f + m, e + k, o, b, u, w + n) EXCEPT !.unterminated = u + j]
        = Count(f + m, e + k, o, b, u + j, w + n)
  BY SMT DEF Count
<1>3. LET c == Count(f, e, o, b, u, w) IN c.unterminated = u  BY DEF Count
<1>4. QED  BY <1>1, <1>2, <1>3, Zenon DEF OfLine, OfAny

(* What is dropped in parts is dropped; what ends with its newline is not   *)
(* the last.                                                               *)
LEMMA Dropping ==
  ASSUME NEW c \in Counters, NEW i \in Nat, NEW n \in Nat, NEW m \in Nat
  PROVE  /\ Dropped(c, i, n) \in Counters
         /\ Dropped(c, 0, 0) = c
         /\ Dropped(Dropped(c, i, n), 0, m) = Dropped(c, i, n + m)
<1>1. PICK f, e, o, b, u, w \in Nat : c = Count(f, e, o, b, u, w)  BY Counted
<1>2. Dropped(c, i, n) = Count(f, e, o + i, b + n, u, w)  BY <1>1, DroppedIs
<1>3. Dropped(c, 0, 0) = Count(f, e, o + 0, b + 0, u, w)  BY <1>1, DroppedIs
<1>4. Dropped(c, i, n + m) = Count(f, e, o + i, b + (n + m), u, w)  BY <1>1, DroppedIs
<1>5. Dropped(Dropped(c, i, n), 0, m) = Count(f, e, (o + i) + 0, (b + n) + m, u, w)
  BY <1>2, DroppedIs
<1>6. /\ o + 0 = o /\ b + 0 = b /\ (o + i) + 0 = o + i /\ (b + n) + m = b + (n + m)
      /\ o + i \in Nat /\ b + n \in Nat
  BY <1>1
<1>7. Dropped(c, i, n) \in Counters  BY <1>2, <1>6 DEF Counters, Count
<1>8. QED  BY <1>1, <1>2, <1>3, <1>4, <1>5, <1>6, <1>7

LEMMA OfLineCounts ==
  ASSUME NEW c \in Counters, NEW n \in Nat, NEW m \in Nat, NEW k \in Nat
  PROVE  OfLine(c, n, m, k) \in Counters
<1>1. PICK f, e, o, b, u, w \in Nat : c = Count(f, e, o, b, u, w)  BY Counted
<1>2. OfLine(c, n, m, k) = Count(f + m, e + k, o, b, u, w + n)  BY <1>1, OfLineIs
<1>3. f + m \in Nat /\ e + k \in Nat /\ w + n \in Nat  BY <1>1
<1>4. QED  BY <1>2, <1>3 DEF Counters, Count

LEMMA OfLineIsOfAny ==
  ASSUME NEW c \in Counters, NEW n, NEW m, NEW k
  PROVE  OfAny(c, n, m, k, 0) = OfLine(c, n, m, k)
<1>1. PICK f, e, o, b, u, w \in Nat : c = Count(f, e, o, b, u, w)  BY Counted
<1>2. OfLine(c, n, m, k) = Count(f + m, e + k, o, b, u, w + n)  BY <1>1, OfLineIs
<1>3. OfAny(c, n, m, k, 0) = Count(f + m, e + k, o, b, u + 0, w + n)  BY <1>1, OfAnyIs
<1>4. u + 0 = u  BY <1>1
<1>5. QED  BY <1>2, <1>3, <1>4

LEMMA OfLastIsOfAny ==
  ASSUME NEW c \in Counters
  PROVE  OfAny(c, 0, 1, 0, 1) = OfLast(c) /\ OfAny(c, 0, 0, 0, 0) = c
<1>1. PICK f, e, o, b, u, w \in Nat : c = Count(f, e, o, b, u, w)  BY Counted
<1>2. OfAny(c, 0, 1, 0, 1) = Count(f + 1, e + 0, o, b, u + 1, w + 0)  BY <1>1, OfAnyIs
<1>3. OfAny(c, 0, 0, 0, 0) = Count(f + 0, e + 0, o, b, u + 0, w + 0)  BY <1>1, OfAnyIs
<1>4. OfLast(c) = Count(f + 1, e, o, b, u + 1, w)  BY <1>1, OfLastIs
<1>5. e + 0 = e /\ u + 0 = u /\ w + 0 = w /\ f + 0 = f  BY <1>1
<1>6. QED  BY <1>1, <1>2, <1>3, <1>4, <1>5

(* What the reference is after n bytes, one byte at a time. *)
LEMMA CuttingIsDefined ==
  ASSUME NEW bytes, Len(bytes) \in Nat
  PROVE  Cutting(bytes) = [n \in 0..Len(bytes) |->
           IF n = 0 THEN Uncut ELSE Fed(Cutting(bytes)[n - 1], bytes[n])]
<1> DEFINE Is(f, m) == f = [n \in 0..m |-> IF n = 0 THEN Uncut ELSE Fed(f[n - 1], bytes[n])]
           S == {m \in Nat : \E f : Is(f, m)}
<1>1. 0 \in S
  <2> DEFINE g == [n \in 0..0 |-> Uncut]
  <2>1. g = [n \in 0..0 |-> IF n = 0 THEN Uncut ELSE Fed(g[n - 1], bytes[n])]  OBVIOUS
  <2>2. Is(g, 0)  BY <2>1
  <2>3. QED  BY <2>2
<1>2. ASSUME NEW m \in Nat, m \in S  PROVE m + 1 \in S
  <2>1. PICK f : Is(f, m)  BY <1>2
  <2> DEFINE g == [n \in 0..(m + 1) |-> IF n = m + 1 THEN Fed(f[m], bytes[m + 1]) ELSE f[n]]
  <2>2. ASSUME NEW n \in 0..(m + 1)
        PROVE  g[n] = IF n = 0 THEN Uncut ELSE Fed(g[n - 1], bytes[n])
    <3>1. CASE n = m + 1
      <4>1. n # 0 /\ m \in 0..(m + 1) /\ m # m + 1 /\ n - 1 = m  BY <3>1
      <4>2. g[n] = Fed(f[m], bytes[n])  BY <3>1
      <4>3. g[m] = f[m]  BY <4>1
      <4>4. QED  BY <4>1, <4>2, <4>3
    <3>2. CASE n # m + 1
      <4>1. n \in 0..m /\ g[n] = f[n]  BY <3>2
      <4>2. f[n] = IF n = 0 THEN Uncut ELSE Fed(f[n - 1], bytes[n])  BY <2>1, <4>1
      <4>3. n # 0 => n - 1 \in 0..(m + 1) /\ n - 1 # m + 1  BY <4>1
      <4>4. n # 0 => g[n - 1] = f[n - 1]  BY <4>3
      <4>5. QED  BY <4>1, <4>2, <4>4
    <3>3. QED  BY <3>1, <3>2
  <2>3. g = [n \in 0..(m + 1) |-> g[n]]  OBVIOUS
  <2> HIDE DEF g
  <2>4. Is(g, m + 1)  BY <2>2, <2>3
  <2>5. QED  BY <2>4
<1>3. Nat \subseteq S
  <2> HIDE DEF S
  <2>1. QED  BY <1>1, <1>2, Induction
<1>4. PICK f : Is(f, Len(bytes))  BY <1>3
<1>5. QED  BY <1>4 DEF Cutting

(* Before the first byte, and after one more. *)
LEMMA CuttingBegins ==
  ASSUME NEW bytes, Len(bytes) \in Nat
  PROVE  Cutting(bytes)[0] = Uncut
<1>1. 0 \in 0..Len(bytes)  OBVIOUS
<1> DEFINE g == Cutting(bytes)
<1>2. g = [n \in 0..Len(bytes) |-> IF n = 0 THEN Uncut ELSE Fed(g[n - 1], bytes[n])]
  BY CuttingIsDefined
<1> HIDE DEF g
<1>3. g[0] = Uncut  BY <1>1, <1>2
<1>4. QED  BY <1>3 DEF g

LEMMA CuttingGoesOn ==
  ASSUME NEW bytes, Len(bytes) \in Nat, NEW n \in Nat, n < Len(bytes)
  PROVE  Cutting(bytes)[n + 1] = Fed(Cutting(bytes)[n], bytes[n + 1])
<1>1. n + 1 \in 0..Len(bytes) /\ n + 1 # 0 /\ (n + 1) - 1 = n  OBVIOUS
<1> DEFINE g == Cutting(bytes)
<1>2. g = [k \in 0..Len(bytes) |-> IF k = 0 THEN Uncut ELSE Fed(g[k - 1], bytes[k])]
  BY CuttingIsDefined
<1> HIDE DEF g
<1>3. g[n + 1] = Fed(g[(n + 1) - 1], bytes[n + 1])  BY <1>1, <1>2
<1>4. g[n + 1] = Fed(g[n], bytes[n + 1])  BY <1>1, <1>3
<1>5. QED  BY <1>4 DEF g

(* Bytes that follow change nothing of what came before. *)
LEMMA CuttingExtends ==
  ASSUME NEW s \in Seq(Byte), NEW t \in Seq(Byte), Len(s) <= Len(t),
         \A i \in 1..Len(s) : t[i] = s[i]
  PROVE  \A n \in 0..Len(s) : Cutting(t)[n] = Cutting(s)[n]
<1> DEFINE S == {n \in Nat : n <= Len(s) => Cutting(t)[n] = Cutting(s)[n]}
<1>1. Len(s) \in Nat /\ Len(t) \in Nat  OBVIOUS
<1>2. 0 \in S  BY <1>1, CuttingBegins
<1>3. ASSUME NEW n \in Nat, n \in S  PROVE n + 1 \in S
  <2>1. SUFFICES ASSUME n + 1 <= Len(s) PROVE Cutting(t)[n + 1] = Cutting(s)[n + 1]
    OBVIOUS
  <2>2. n < Len(s) /\ n < Len(t) /\ n + 1 \in 1..Len(s)  BY <1>1, <2>1
  <2>3. Cutting(t)[n] = Cutting(s)[n]  BY <1>3, <2>2
  <2>4. t[n + 1] = s[n + 1]  BY <2>2
  <2>5. Cutting(t)[n + 1] = Fed(Cutting(t)[n], t[n + 1])  BY <1>1, <2>2, CuttingGoesOn
  <2>6. Cutting(s)[n + 1] = Fed(Cutting(s)[n], s[n + 1])  BY <1>1, <2>2, CuttingGoesOn
  <2>7. QED  BY <2>3, <2>4, <2>5, <2>6
<1>4. Nat \subseteq S
  <2> HIDE DEF S
  <2>1. QED  BY <1>2, <1>3, Induction
<1>5. QED  BY <1>1, <1>4

(* What was cut, and the line that goes on.                                *)
At(cut, line) == [cut |-> cut, line |-> line]
Cut(out, counts) == [out |-> out, stats |-> counts]

(* The bytes that follow the first p, none of them a newline.               *)
Continues(r, bytes, p) ==
  p + Len(r) <= Len(bytes) /\ \A i \in 1..Len(r) : bytes[p + i] = r[i] /\ r[i] # LF

(* They are added to the line. *)
LEMMA LineGoesOn ==
  ASSUME NEW bytes, Len(bytes) \in Nat, NEW p \in Nat, NEW r \in Seq(Byte), Continues(r, bytes, p),
         NEW cut, NEW line \in Seq(Byte),
         Cutting(bytes)[p] = At(cut, line)
  PROVE  Cutting(bytes)[p + Len(r)] = At(cut, line \o r)
<1> DEFINE S == {k \in Nat : k <= Len(r) => Cutting(bytes)[p + k] = At(cut, line \o SubSeq(r, 1, k))}
<1>1. Len(r) \in Nat  OBVIOUS
<1>2. 0 \in S
  <2>1. SubSeq(r, 1, 0) = <<>>  BY SubSeqEmpty
  <2>2. line \o <<>> = line  BY ConcatEmptySeq
  <2>3. p + 0 = p  OBVIOUS
  <2>4. QED  BY <2>1, <2>2, <2>3
<1>3. ASSUME NEW k \in Nat, k \in S  PROVE k + 1 \in S
  <2>1. SUFFICES ASSUME k + 1 <= Len(r) PROVE Cutting(bytes)[p + (k + 1)] = At(cut, line \o SubSeq(r, 1, k + 1))
    OBVIOUS
  <2>2. /\ k + 1 \in 1..Len(r) /\ k <= Len(r) /\ p + k < Len(bytes) /\ p + k \in Nat
        /\ (p + k) + 1 = p + (k + 1)
    BY <1>1, <2>1 DEF Continues
  <2>3. Cutting(bytes)[p + k] = At(cut, line \o SubSeq(r, 1, k))  BY <1>3, <2>2
  <2>4. bytes[p + (k + 1)] = r[k + 1] /\ r[k + 1] # LF  BY <2>2 DEF Continues
  <2>5. Cutting(bytes)[(p + k) + 1] = Fed(Cutting(bytes)[p + k], bytes[(p + k) + 1])
    BY <2>2, CuttingGoesOn
  <2>6. Cutting(bytes)[p + (k + 1)] = Fed(At(cut, line \o SubSeq(r, 1, k)), r[k + 1])  BY <2>2, <2>3, <2>4, <2>5
  <2>7. Fed(At(cut, line \o SubSeq(r, 1, k)), r[k + 1])
          = At(cut, Append(line \o SubSeq(r, 1, k), r[k + 1]))
    BY <2>4 DEF Fed, At
  <2>8. Append(line \o SubSeq(r, 1, k), r[k + 1]) = line \o SubSeq(r, 1, k + 1)
    <3> DEFINE b == r[k + 1]
               x == SubSeq(r, 1, k)
    <3>1. b \in Byte /\ <<b>> \in Seq(Byte)  BY <1>1, <2>2
    <3>2. x \in Seq(Byte)  BY <1>1, <2>2
    <3>3. SubSeq(r, 1, k + 1) = SubSeq(r, 1, (k + 1) - 1) \o <<r[k + 1]>>
      <4>1. 1 \in 1..Len(r) /\ k + 1 \in 1..Len(r)  BY <1>1, <2>2
      <4>2. QED  BY <4>1, SubSeqRecursiveSecond
    <3>4. (k + 1) - 1 = k  OBVIOUS
    <3>5. SubSeq(r, 1, k + 1) = x \o <<b>>  BY <3>3, <3>4
    <3> HIDE DEF b, x
    <3>6. line \o (x \o <<b>>) = (line \o x) \o <<b>>  BY <3>1, <3>2, ConcatAssociative
    <3>7. line \o x \in Seq(Byte)  BY <3>2
    <3>8. Append(line \o x, b) = (line \o x) \o <<b>>  BY <3>1, <3>7
    <3>9. Append(line \o x, b) = line \o SubSeq(r, 1, k + 1)  BY <3>5, <3>6, <3>8
    <3>10. QED  BY <3>9 DEF b, x
  <2>9. QED  BY <2>6, <2>7, <2>8
<1>4. Nat \subseteq S
  <2> HIDE DEF S
  <2>1. QED  BY <1>2, <1>3, Induction
<1>5. Len(r) \in S  BY <1>1, <1>4
<1>6. Cutting(bytes)[p + Len(r)] = At(cut, line \o SubSeq(r, 1, Len(r)))  BY <1>1, <1>5
<1>7. SubSeq(r, 1, Len(r)) = r  BY SubSeqFull
<1>8. QED  BY <1>6, <1>7

-----------------------------------------------------------------------------
(* How much of the stream lies before the frame in progress.                *)
Position == Len(stream) - Buffered

(* What is held is the end of the stream.                                   *)
Held ==
  /\ stream \in Seq(Byte) /\ Buffered <= Len(stream)
  /\ \A i \in 1..Buffered : buf[start + i] = stream[Position + i]

(* What was surfaced and counted is the cut of what lies before the frame    *)
(* in progress: of a line that is dropped, as if it ended there.            *)
IsSoFar(out, counts, line) ==
  /\ Cutting(stream)[Position] = At(Cut(out, counts), line)
  /\ counts \in Counters /\ line \in Seq(Byte)
  /\ IF discarding
     THEN /\ Len(line) > MaxFrameBytes /\ frames = Append(out, Oversize)
          /\ stats = Dropped(counts, 1, Len(line))
     ELSE line = <<>> /\ frames = out /\ stats = counts

SoFar == framing # "finished" => \E out, counts, line : IsSoFar(out, counts, line)

DroppedAtOnce == framing = "reading" /\ discarding => Buffered = 0

LEMMA PositionIsIn ==
  ASSUME Indices, Held
  PROVE  /\ Buffered \in Nat /\ Position \in Nat /\ Position + Buffered = Len(stream)
         /\ Len(stream) \in Nat /\ Len(buf) \in Nat /\ Buffered = Len(buf) - start
<1>1. /\ buf \in Seq(Byte) /\ Len(buf) \in Nat /\ stream \in Seq(Byte) /\ Len(stream) \in Nat
      /\ start \in Nat /\ start <= Len(buf)
  BY DEF Indices, Held
<1>2. QED  BY <1>1 DEF Held, Buffered, Position

(* consume_to moves what is after pos, and keeps it.                        *)
LEMMA Moved ==
  ASSUME Indices, NEW pos \in scanned..Len(buf), ConsumeTo(buf, pos)
  PROVE  \A i \in 1..(Len(buf) - pos) : buf'[start' + i] = buf[pos + i]
<1> DEFINE dropped == IF pos = Len(buf) \/ pos >= CompactThreshold THEN pos ELSE 0
<1>1. /\ buf \in Seq(Byte) /\ Len(buf) \in Nat /\ pos \in Nat /\ pos <= Len(buf)
  BY DEF Indices
<1>2. dropped \in Nat /\ dropped <= pos  BY <1>1
<1>3. buf' = SubSeq(buf, dropped + 1, Len(buf)) /\ start' = pos - dropped
  BY DEF ConsumeTo
<1> HIDE DEF dropped
<1>4. \A i \in (dropped + 1)..Len(buf) : buf[i] \in Byte  BY <1>1, <1>2
<1>5. \A j \in 1..(Len(buf) - (dropped + 1) + 1) : buf'[j] = buf[(dropped + 1) + j - 1]
  BY <1>1, <1>2, <1>3, <1>4, SubSeqProperties
<1>6. ASSUME NEW i \in 1..(Len(buf) - pos)  PROVE buf'[start' + i] = buf[pos + i]
  <2>1. start' + i \in 1..(Len(buf) - (dropped + 1) + 1)  BY <1>1, <1>2, <1>3
  <2>2. (dropped + 1) + (start' + i) - 1 = pos + i  BY <1>1, <1>2, <1>3
  <2>3. QED  BY <1>5, <2>1, <2>2
<1>7. QED  BY <1>6

LEMMA StillHeld ==
  ASSUME Indices, Held, NEW pos \in scanned..Len(buf), ConsumeTo(buf, pos), stream' = stream
  PROVE  Held' /\ Position' = Position + (pos - start) /\ Buffered' = Len(buf) - pos
<1>1. /\ Buffered \in Nat /\ Position \in Nat /\ Position + Buffered = Len(stream)
      /\ Len(stream) \in Nat /\ Len(buf) \in Nat /\ Buffered = Len(buf) - start
  BY PositionIsIn
<1>2. start \in Nat /\ scanned \in Nat /\ start <= scanned /\ pos \in Nat /\ start <= pos
      /\ pos <= Len(buf)
  BY <1>1 DEF Indices
<1>3. Len(buf') - start' = Len(buf) - pos  BY Consumed
<1>4. Buffered' = Len(buf) - pos  BY <1>3 DEF Buffered
<1>5. Position' = Position + (pos - start)  BY <1>1, <1>2, <1>4 DEF Position
<1>6. ASSUME NEW i \in 1..Buffered'  PROVE buf'[start' + i] = stream'[Position' + i]
  <2>1. buf'[start' + i] = buf[pos + i]  BY <1>4, Moved
  <2>2. i + (pos - start) \in 1..Buffered  BY <1>1, <1>2, <1>4
  <2>3. buf[start + (i + (pos - start))] = stream[Position + (i + (pos - start))]
    BY <2>2 DEF Held
  <2>4. start + (i + (pos - start)) = pos + i /\ Position + (i + (pos - start)) = Position' + i
    BY <1>1, <1>2, <1>4, <1>5
  <2>5. QED  BY <2>1, <2>3, <2>4
<1>7. stream' \in Seq(Byte) /\ Buffered' <= Len(stream')  BY <1>1, <1>2, <1>4 DEF Held
<1>8. QED  BY <1>4, <1>5, <1>6, <1>7 DEF Held

(* Over the bytes of a line that are held.                                  *)
LEMMA Passed ==
  ASSUME Indices, Held, NEW n \in start..Len(buf),
         \A m \in (start + 1)..n : buf[m] # LF,
         NEW cut, NEW line \in Seq(Byte),
         Cutting(stream)[Position] = At(cut, line)
  PROVE  LET r == SubSeq(buf, start + 1, n)
         IN /\ r \in Seq(Byte) /\ Len(r) = n - start
            /\ Cutting(stream)[Position + (n - start)] = At(cut, line \o r)
<1> DEFINE r == SubSeq(buf, start + 1, n)
<1>1. /\ Buffered \in Nat /\ Position \in Nat /\ Position + Buffered = Len(stream)
      /\ Len(stream) \in Nat /\ Len(buf) \in Nat /\ Buffered = Len(buf) - start
  BY PositionIsIn
<1>2. start \in Nat /\ n \in Nat /\ start <= n /\ n <= Len(buf) /\ buf \in Seq(Byte)
  BY <1>1 DEF Indices
<1>3. \A i \in (start + 1)..n : buf[i] \in Byte  BY <1>1, <1>2
<1>4. /\ r \in Seq(Byte) /\ Len(r) = n - start
      /\ \A i \in 1..(n - start) : r[i] = buf[start + i]
  <2>1. /\ r \in Seq(Byte)
        /\ Len(r) = IF start + 1 <= n THEN n - (start + 1) + 1 ELSE 0
        /\ \A i \in 1..(n - (start + 1) + 1) : r[i] = buf[(start + 1) + i - 1]
    <3>1. start + 1 \in Int /\ n \in Int  BY <1>2
    <3>2. QED  BY <1>3, <3>1, SubSeqProperties, SMTT(30)
  <2>2. n - (start + 1) + 1 = n - start  BY <1>2
  <2>3. \A i \in 1..(n - start) : (start + 1) + i - 1 = start + i  BY <1>2
  <2>4. Len(r) = n - start  BY <1>2, <2>1
  <2>5. \A i \in 1..(n - start) : r[i] = buf[start + i]  BY <2>1, <2>2, <2>3
  <2>6. QED  BY <2>1, <2>4, <2>5
<1> HIDE DEF r
<1>5. ASSUME NEW i \in 1..Len(r)  PROVE stream[Position + i] = r[i] /\ r[i] # LF
  <2>1. i \in 1..Buffered /\ start + i \in (start + 1)..n  BY <1>1, <1>2, <1>4
  <2>2. QED  BY <1>4, <2>1 DEF Held
<1>6. Position + Len(r) <= Len(stream)  BY <1>1, <1>2, <1>4, SMTT(30)
<1>7. Cutting(stream)[Position + Len(r)] = At(cut, line \o r)
  <2>1. Continues(r, stream, Position)  BY <1>5, <1>6 DEF Continues
  <2>2. Len(stream) \in Nat /\ Position \in Nat /\ r \in Seq(Byte)  BY <1>1, <1>4
  <2>3. QED  BY <2>1, <2>2, LineGoesOn
<1>8. QED  BY <1>4, <1>7 DEF r

(* And past its newline.                                                    *)
LEMMA Ended ==
  ASSUME Indices, Held, NEW n \in (start + 1)..Len(buf), buf[n] = LF,
         \A m \in (start + 1)..(n - 1) : buf[m] # LF,
         NEW cut, NEW line \in Seq(Byte),
         Cutting(stream)[Position] = At(cut, line)
  PROVE  LET r == SubSeq(buf, start + 1, n - 1)
         IN /\ r \in Seq(Byte) /\ Len(r) = n - 1 - start
            /\ Cutting(stream)[Position + (n - start)]
                 = At(Line(cut, line \o r, <<LF>>), <<>>)
<1> DEFINE r == SubSeq(buf, start + 1, n - 1)
           p == Position + (n - 1 - start)
<1>1. /\ Buffered \in Nat /\ Position \in Nat /\ Position + Buffered = Len(stream)
      /\ Len(stream) \in Nat /\ Len(buf) \in Nat /\ Buffered = Len(buf) - start
  BY PositionIsIn
<1>2. start \in Nat /\ n \in Nat /\ start < n /\ n <= Len(buf) /\ n - 1 \in start..Len(buf)
  BY <1>1 DEF Indices
<1>3. /\ r \in Seq(Byte) /\ Len(r) = (n - 1) - start
      /\ Cutting(stream)[Position + ((n - 1) - start)] = At(cut, line \o r)
  BY <1>2, Passed
<1>4. p \in Nat /\ p < Len(stream) /\ p + 1 = Position + (n - start)  BY <1>1, <1>2
<1>5. Cutting(stream)[p + 1] = Fed(Cutting(stream)[p], stream[p + 1])
  <2> HIDE DEF p
  <2>1. QED  BY <1>1, <1>4, CuttingGoesOn
<1>6. stream[p + 1] = LF
  <2>1. n - start \in 1..Buffered /\ start + (n - start) = n  BY <1>1, <1>2
  <2>2. buf[start + (n - start)] = stream[Position + (n - start)]  BY <2>1 DEF Held
  <2>3. QED  BY <1>4, <2>1, <2>2
<1>7. Cutting(stream)[p] = At(cut, line \o r)  BY <1>3
<1>8. Fed(At(cut, line \o r), LF)
        = At(Line(cut, line \o r, <<LF>>), <<>>)
  <2> HIDE DEF r
  <2>1. QED  BY DEF Fed, At
<1> HIDE DEF p, r
<1>9. Cutting(stream)[Position + (n - start)]
        = At(Line(cut, line \o r, <<LF>>), <<>>)
  BY <1>4, <1>5, <1>6, <1>7, <1>8
<1>10. QED  BY <1>2, <1>3, <1>9 DEF r

-----------------------------------------------------------------------------
CutInv ==
  /\ Held /\ SoFar /\ DroppedAtOnce /\ discarding \in BOOLEAN
  /\ framing = "finished" => CutIsOfTheStream

(* Of a line over the ceiling there is the error, newline or not.           *)
LEMMA TooLong ==
  ASSUME NEW out, NEW counts, NEW line, NEW newline, Len(line) > MaxFrameBytes
  PROVE  Line(Cut(out, counts), line, newline)
           = Cut(Append(out, Oversize), Dropped(counts, 1, Len(line)))
BY DEF Line, Cut

(* Of any other the frame, if it has content: with its newline, or the last. *)
LEMMA Terminated ==
  ASSUME NEW out, NEW counts, NEW line, ~(Len(line) > MaxFrameBytes),
         NEW c, c = ContentLen(line)
  PROVE  Line(Cut(out, counts), line, <<LF>>)
           = Cut(IF c = 0 THEN out
                      ELSE Append(out, [raw |-> line \o <<LF>>, content_len |-> c]),
               OfAny(counts, Len(line) - c, IF c = 0 THEN 0 ELSE 1,
                              IF c = 0 THEN 1 ELSE 0, 0))
<1>1. <<LF>> # <<>>  OBVIOUS
<1>2. /\ (IF <<LF>> = <<>> THEN 0 ELSE Len(line) - c) = Len(line) - c
      /\ (IF c = 0 /\ <<LF>> # <<>> THEN 1 ELSE 0) = IF c = 0 THEN 1 ELSE 0
      /\ (IF c = 0 \/ <<LF>> # <<>> THEN 0 ELSE 1) = 0
  BY <1>1
<1>3. Line(Cut(out, counts), line, <<LF>>)
        = Cut(IF c = 0 THEN out
                   ELSE Append(out, [raw |-> line \o <<LF>>, content_len |-> c]),
               OfAny(counts, IF <<LF>> = <<>> THEN 0 ELSE Len(line) - c,
                           IF c = 0 THEN 0 ELSE 1,
                           IF c = 0 /\ <<LF>> # <<>> THEN 1 ELSE 0,
                           IF c = 0 \/ <<LF>> # <<>> THEN 0 ELSE 1))
  BY Zenon DEF Line, OfAny, Cut
<1>4. QED  BY <1>2, <1>3

LEMMA Unterminated ==
  ASSUME NEW out, NEW counts, NEW line, ~(Len(line) > MaxFrameBytes),
         NEW c, c = ContentLen(line)
  PROVE  Line(Cut(out, counts), line, <<>>)
           = Cut(IF c = 0 THEN out
                      ELSE Append(out, [raw |-> line \o <<>>, content_len |-> c]),
               OfAny(counts, 0, IF c = 0 THEN 0 ELSE 1, 0, IF c = 0 THEN 0 ELSE 1))
<1>1. /\ (IF <<>> = <<>> THEN 0 ELSE Len(line) - c) = 0
      /\ (IF c = 0 /\ <<>> # <<>> THEN 1 ELSE 0) = 0
      /\ (IF c = 0 \/ <<>> # <<>> THEN 0 ELSE 1) = IF c = 0 THEN 0 ELSE 1
  OBVIOUS
<1>2. Line(Cut(out, counts), line, <<>>)
        = Cut(IF c = 0 THEN out
                   ELSE Append(out, [raw |-> line \o <<>>, content_len |-> c]),
               OfAny(counts, IF <<>> = <<>> THEN 0 ELSE Len(line) - c,
                           IF c = 0 THEN 0 ELSE 1,
                           IF c = 0 /\ <<>> # <<>> THEN 1 ELSE 0,
                           IF c = 0 \/ <<>> # <<>> THEN 0 ELSE 1))
  BY Zenon DEF Line, OfAny, Cut
<1>3. QED  BY <1>1, <1>2

LEMMA InitCut == SplitterInit => CutInv
<1> SUFFICES ASSUME SplitterInit PROVE CutInv  OBVIOUS
<1>1. /\ buf = <<>> /\ start = 0 /\ ~discarding /\ discarding \in BOOLEAN /\ stats = NoStats
      /\ framing = "reading" /\ stream = <<>> /\ frames = <<>>
  BY DEF SplitterInit
<1>2. Len(<<>>) = 0 /\ <<>> \in Seq(Byte)  OBVIOUS
<1>3. Buffered = 0 /\ Position = 0  BY <1>1, <1>2 DEF Buffered, Position
<1>4. Held  BY <1>1, <1>2, <1>3 DEF Held
<1>5. Cutting(stream)[0] = Uncut  BY <1>1, <1>2, CuttingBegins
<1>6. IsSoFar(<<>>, NoStats, <<>>)
  <2>1. Uncut = At(Cut(<<>>, NoStats), <<>>)  BY DEF Uncut, At, Cut
  <2>2. NoStats \in Counters  BY DEF NoStats, Counters
  <2>3. QED  BY <1>1, <1>2, <1>3, <1>5, <2>1, <2>2 DEF IsSoFar
<1>7. QED  BY <1>1, <1>3, <1>4, <1>6 DEF CutInv, SoFar, DroppedAtOnce

(* A read is of what was not pushed yet.                                    *)
LEMMA PushCuts ==
  ASSUME SplitterInv, CutInv, NEW k \in 1..MaxRead, NEW chunk \in [1..k -> Byte], Push(chunk)
  PROVE  CutInv'
<1>1. /\ Buffered \in Nat /\ Position \in Nat /\ Position + Buffered = Len(stream)
      /\ Len(stream) \in Nat /\ Len(buf) \in Nat /\ Buffered = Len(buf) - start
      /\ buf \in Seq(Byte) /\ stream \in Seq(Byte) /\ start \in Nat
  BY PositionIsIn DEF SplitterInv, CutInv, Indices, Held
<1>2. k \in Nat /\ chunk \in Seq(Byte) /\ Len(chunk) = k
  <2>1. k \in Nat /\ MaxRead \in Nat  OBVIOUS
  <2>2. QED  BY <2>1
<1>3. /\ framing = "reading" /\ framing' = "draining"
      /\ buf' = buf \o chunk /\ stream' = stream \o chunk
      /\ start' = start /\ discarding' = discarding /\ stats' = stats /\ frames' = frames
  BY DEF Push
<1>4. Len(buf') = Len(buf) + k /\ \A i \in 1..(Len(buf) + k) :
        buf'[i] = IF i <= Len(buf) THEN buf[i] ELSE chunk[i - Len(buf)]
  <2> DEFINE b == buf \o chunk
  <2>1. Len(b) = Len(buf) + k /\ \A i \in 1..(Len(buf) + k) :
          b[i] = IF i <= Len(buf) THEN buf[i] ELSE chunk[i - Len(buf)]
    BY <1>1, <1>2, ConcatProperties
  <2> HIDE DEF b
  <2>2. buf' = b  BY <1>3 DEF b
  <2>3. QED  BY <2>1, <2>2
<1>5. /\ stream' \in Seq(Byte) /\ Len(stream') = Len(stream) + k
      /\ \A i \in 1..(Len(stream) + k) :
           stream'[i] = IF i <= Len(stream) THEN stream[i] ELSE chunk[i - Len(stream)]
  <2> DEFINE b == stream \o chunk
  <2>1. b \in Seq(Byte) /\ Len(b) = Len(stream) + k /\ \A i \in 1..(Len(stream) + k) :
          b[i] = IF i <= Len(stream) THEN stream[i] ELSE chunk[i - Len(stream)]
    BY <1>1, <1>2, ConcatProperties
  <2> HIDE DEF b
  <2>2. stream' = b  BY <1>3 DEF b
  <2>3. QED  BY <2>1, <2>2
<1>6. Buffered' = Buffered + k /\ Position' = Position
  BY <1>1, <1>2, <1>3, <1>4, <1>5 DEF Buffered, Position
<1>7. Held'
  <2>1. ASSUME NEW i \in 1..Buffered'  PROVE buf'[start' + i] = stream'[Position' + i]
    <3>1. CASE i <= Buffered
      <4>1. /\ start + i \in 1..(Len(buf) + k) /\ start + i <= Len(buf)
            /\ Position + i \in 1..(Len(stream) + k) /\ Position + i <= Len(stream)
        BY <1>1, <1>2, <3>1
      <4>2. buf[start + i] = stream[Position + i]  BY <3>1 DEF CutInv, Held
      <4>3. QED  BY <1>3, <1>4, <1>5, <1>6, <4>1, <4>2
    <3>2. CASE i > Buffered
      <4>1. i \in Nat /\ i <= Buffered + k  BY <1>1, <1>2, <1>6
      <4>2. /\ start + i \in 1..(Len(buf) + k) /\ ~(start + i <= Len(buf))
            /\ Position + i \in 1..(Len(stream) + k) /\ ~(Position + i <= Len(stream))
        BY <1>1, <1>2, <3>2, <4>1
      <4>3. (start + i) - Len(buf) = (Position + i) - Len(stream)
        <5>1. (start + i) - Len(buf) = i - Buffered  BY <1>1, <4>1
        <5>2. (Position + i) - Len(stream) = i - Buffered
          <6>1. Position + Buffered = Len(stream) /\ Position \in Nat /\ Buffered \in Nat
            BY <1>1
          <6> HIDE DEF Position, Buffered
          <6>2. QED  BY <6>1, <4>1
        <5>3. QED  BY <5>1, <5>2
      <4>4. QED  BY <1>3, <1>4, <1>5, <1>6, <4>2, <4>3
    <3>3. QED  BY <1>1, <1>6, <3>1, <3>2
  <2>2. Buffered' <= Len(stream')  BY <1>1, <1>2, <1>5, <1>6
  <2>3. QED  BY <1>5, <2>1, <2>2 DEF Held
<1>8. SoFar'
  <2>1. PICK out, counts, line : IsSoFar(out, counts, line)
    BY <1>3 DEF CutInv, SoFar
  <2>2. Cutting(stream')[Position] = Cutting(stream)[Position]
    <3>1. Position \in 0..Len(stream)  BY <1>1
    <3>2. ASSUME NEW i \in 1..Len(stream)  PROVE stream'[i] = stream[i]
      <4>1. i \in 1..(Len(stream) + k) /\ i <= Len(stream)  BY <1>1, <1>2
      <4>2. QED  BY <1>5, <4>1
    <3>3. Len(stream) <= Len(stream')  BY <1>1, <1>2, <1>5
    <3>4. QED  BY <1>1, <1>5, <3>1, <3>2, <3>3, CuttingExtends
  <2>3. IsSoFar(out, counts, line)'  BY <1>3, <1>6, <2>1, <2>2 DEF IsSoFar
  <2>4. QED  BY <2>3 DEF SoFar
<1>9. QED  BY <1>3, <1>7, <1>8 DEF CutInv, DroppedAtOnce

(* A round at a newline ends a line of the stream.                          *)
LEMMA TakeLineCuts == ASSUME SplitterInv, CutInv, TakeLine PROVE CutInv'
<1>1. /\ Buffered \in Nat /\ Position \in Nat /\ Position + Buffered = Len(stream)
      /\ Len(stream) \in Nat /\ Len(buf) \in Nat /\ Buffered = Len(buf) - start
      /\ buf \in Seq(Byte) /\ start \in Nat /\ scanned \in Nat /\ start <= scanned
      /\ MaxFrameBytes \in Nat
  BY PositionIsIn DEF SplitterInv, CutInv, Indices
<1>2. framing = "draining" /\ framing' = framing /\ stream' = stream  BY DEF TakeLine
<1>3. PICK n \in (scanned + 1)..Len(buf) :
        /\ Newline(n)
        /\ EndDiscard(n) \/ CutOversize(n) \/ CutFrame(n)
        /\ ConsumeTo(buf, n)
  BY DEF TakeLine
<1>4. n \in scanned..Len(buf) /\ n \in (start + 1)..Len(buf) /\ n \in Nat  BY <1>1
<1>5. Held' /\ Position' = Position + (n - start)
  BY <1>2, <1>3, <1>4, StillHeld DEF SplitterInv, CutInv
<1>6. PICK out, counts, line : IsSoFar(out, counts, line)  BY <1>2 DEF CutInv, SoFar
<1> DEFINE r   == SubSeq(buf, start + 1, n - 1)
           cut == Cut(out, counts)
           len == n - 1 - start
<1>7. /\ r \in Seq(Byte) /\ Len(r) = len
      /\ Cutting(stream)[Position + (n - start)] = At(Line(cut, line \o r, <<LF>>), <<>>)
  <2>1. buf[n] = LF  BY <1>3 DEF Newline
  <2>2. ASSUME NEW m \in (start + 1)..(n - 1)  PROVE buf[m] # LF
    <3>1. m \in (start + 1)..scanned \/ m \in (scanned + 1)..(n - 1)  BY <1>1, <1>4
    <3>2. QED  BY <1>3, <3>1 DEF SplitterInv, Searched, Newline
  <2>3. line \in Seq(Byte) /\ Cutting(stream)[Position] = At(cut, line)  BY <1>6 DEF IsSoFar
  <2> HIDE DEF cut
  <2>4. QED  BY <1>4, <2>1, <2>2, <2>3, Ended DEF SplitterInv, CutInv
<1>8. counts \in Counters /\ line \in Seq(Byte) /\ Len(line) \in Nat /\ len \in Nat
  BY <1>1, <1>4, <1>6 DEF IsSoFar
<1>9. discarding' = FALSE
  BY <1>3 DEF EndDiscard, CutOversize, CutFrame, CutInv
<1> HIDE DEF r
<1>10. /\ stats' \in Counters
       /\ Line(cut, line \o r, <<LF>>) = Cut(frames', stats')
  <2>1. CASE EndDiscard(n)
    <3>1. /\ Len(line) > MaxFrameBytes /\ frames = Append(out, Oversize)
          /\ stats = Dropped(counts, 1, Len(line))
      BY <1>6, <2>1 DEF EndDiscard, IsSoFar
    <3>2. frames' = frames /\ stats' = Dropped(stats, 0, len)  BY <2>1 DEF EndDiscard
    <3>3. Len(line \o r) = Len(line) + len
      <4> HIDE DEF len
      <4>1. QED  BY <1>7, <1>8, ConcatProperties
    <3>4. Len(line \o r) > MaxFrameBytes  BY <1>1, <1>8, <3>1, <3>3
    <3>5. /\ Dropped(counts, 1, Len(line) + len) \in Counters
          /\ Dropped(Dropped(counts, 1, Len(line)), 0, len) = Dropped(counts, 1, Len(line) + len)
      <4> HIDE DEF len
      <4>1. Len(line) + len \in Nat /\ 1 \in Nat  BY <1>8
      <4>2. Dropped(counts, 1, Len(line) + len) \in Counters  BY <1>8, <4>1, Dropping
      <4>3. QED  BY <1>8, <4>1, <4>2, Dropping
    <3>6. Line(cut, line \o r, <<LF>>)
            = Cut(Append(out, Oversize), Dropped(counts, 1, Len(line \o r)))
      BY <3>4, TooLong
    <3>7. QED  BY <3>1, <3>2, <3>3, <3>5, <3>6
  <2>2. CASE ~discarding
    <3>1. line = <<>> /\ frames = out /\ stats = counts  BY <1>6, <2>2 DEF IsSoFar
    <3>2. line \o r = r  BY <1>7, <3>1
    <3>3. CASE CutOversize(n)
      <4>1. /\ len > MaxFrameBytes /\ frames' = Append(frames, Oversize)
            /\ stats' = Dropped(stats, 1, len)
        BY <3>3 DEF CutOversize
      <4>2. stats' \in Counters  BY <1>8, <3>1, <4>1, Dropping
      <4>3. Line(cut, r, <<LF>>)
              = Cut(Append(out, Oversize), Dropped(counts, 1, Len(r)))
        BY <1>7, <4>1, TooLong
      <4>4. QED  BY <1>7, <3>1, <3>2, <4>1, <4>2, <4>3
    <3>4. CASE CutFrame(n)
      <4> DEFINE c == ContentLen(r)
                 raw == SubSeq(buf, start + 1, n)
      <4>1. len <= MaxFrameBytes /\ Surface(n)  BY <3>4 DEF CutFrame
      <4> DEFINE one == IF c = 0 THEN 0 ELSE 1
                 none == IF c = 0 THEN 1 ELSE 0
      <4>2. /\ stats' = OfLine(stats, len - c, one, none)
            /\ frames' = IF c = 0 THEN frames ELSE Append(frames, [raw |-> raw, content_len |-> c])
        BY <4>1, Zenon DEF Surface, OfLine, r
      <4>3. c \in Nat /\ len - c \in Nat
        <5>1. Len(r) \in Nat /\ (r # <<>> => Len(r) >= 1)  BY <1>7, EmptySeq
        <5>2. QED  BY <1>7, <5>1 DEF ContentLen
      <4>4. raw = r \o <<LF>>
        <5>1. n - 1 \in Nat /\ n \in (start + 1)..Len(buf) /\ start + 1 \in 1..Len(buf)
          BY <1>1, <1>4
        <5>2. SubSeq(buf, start + 1, n) = SubSeq(buf, start + 1, n - 1) \o <<buf[n]>>
          BY <1>1, <5>1, SubSeqRecursiveSecond
        <5>3. buf[n] = LF  BY <1>3 DEF Newline
        <5>4. QED  BY <5>2, <5>3 DEF r
      <4> HIDE DEF raw
      <4>5. Line(cut, r, <<LF>>)
              = Cut(IF c = 0 THEN out
                         ELSE Append(out, [raw |-> r \o <<LF>>, content_len |-> c]),
               OfAny(counts, Len(r) - c, one, none, 0))
        <5>1. ~(Len(r) > MaxFrameBytes)  BY <1>1, <1>7, <1>8, <4>1
        <5>2. c = ContentLen(r)  OBVIOUS
        <5> HIDE DEF c
        <5>3. Line(cut, r, <<LF>>)
                = Cut(IF c = 0 THEN out
                         ELSE Append(out, [raw |-> r \o <<LF>>, content_len |-> c]),
                      OfAny(counts, Len(r) - c, IF c = 0 THEN 0 ELSE 1, IF c = 0 THEN 1 ELSE 0, 0))
          <6> HIDE DEF r
          <6>1. QED  BY <5>1, <5>2, Terminated, SMTT(30)
        <5>4. QED  BY <5>3
      <4>6. one \in Nat /\ none \in Nat  OBVIOUS
      <4> HIDE DEF c, one, none
      <4>7. /\ OfLine(counts, len - c, one, none) \in Counters
            /\ OfAny(counts, len - c, one, none, 0) = OfLine(counts, len - c, one, none)
        <5>1. PICK x \in Nat : x = len - c  BY <4>3
        <5>2. /\ OfLine(counts, x, one, none) \in Counters
              /\ OfAny(counts, x, one, none, 0) = OfLine(counts, x, one, none)
          BY <1>8, <4>6, OfLineCounts, OfLineIsOfAny
        <5>3. QED  BY <5>1, <5>2
      <4>8. QED  BY <1>7, <3>1, <3>2, <4>2, <4>4, <4>5, <4>7
    <3>5. QED  BY <1>3, <2>2, <3>3, <3>4 DEF EndDiscard
  <2>3. QED  BY <1>3, <2>1, <2>2 DEF CutOversize, CutFrame
<1>11. \E surfaced, counted : IsSoFar(surfaced, counted, <<>>)'
  <2>1. PICK surfaced, counted : surfaced = frames' /\ counted = stats'  OBVIOUS
  <2>2. Cutting(stream')[Position'] = At(Cut(surfaced, counted), <<>>)
    BY <1>2, <1>5, <1>7, <1>10, <2>1
  <2>3. <<>> \in Seq(Byte) /\ counted \in Counters  BY <1>10, <2>1
  <2>4. IsSoFar(surfaced, counted, <<>>)'  BY <1>9, <2>1, <2>2, <2>3 DEF IsSoFar
  <2>5. QED  BY <2>4
<1>12. QED  BY <1>2, <1>5, <1>9, <1>11 DEF CutInv, SoFar, DroppedAtOnce

(* What is held when it has no newline is a line that goes on.              *)
LEMMA Unended ==
  ASSUME SplitterInv, CutInv, NoNewline, NEW out, NEW counts, NEW line, IsSoFar(out, counts, line)
  PROVE  LET r == SubSeq(buf, start + 1, Len(buf))
         IN /\ r \in Seq(Byte) /\ Len(r) = Buffered
            /\ Cutting(stream)[Len(stream)] = At(Cut(out, counts), line \o r)
<1> DEFINE r   == SubSeq(buf, start + 1, Len(buf))
           cut == Cut(out, counts)
<1>1. /\ Position + Buffered = Len(stream) /\ Buffered = Len(buf) - start
      /\ Len(buf) \in Nat /\ start \in Nat /\ scanned \in Nat /\ start <= scanned
      /\ scanned <= Len(buf)
  BY PositionIsIn DEF SplitterInv, CutInv, Indices
<1>2. Len(buf) \in start..Len(buf)  BY <1>1
<1>3. ASSUME NEW m \in (start + 1)..Len(buf)  PROVE buf[m] # LF
  <2>1. m \in (start + 1)..scanned \/ m \in (scanned + 1)..Len(buf)  BY <1>1
  <2>2. QED  BY <2>1 DEF SplitterInv, Searched, NoNewline
<1>4. line \in Seq(Byte) /\ Cutting(stream)[Position] = At(cut, line)  BY DEF IsSoFar
<1> HIDE DEF cut
<1>5. /\ r \in Seq(Byte) /\ Len(r) = Len(buf) - start
      /\ Cutting(stream)[Position + (Len(buf) - start)] = At(cut, line \o r)
  BY <1>2, <1>3, <1>4, Passed DEF SplitterInv, CutInv
<1>6. Position + (Len(buf) - start) = Len(stream)  BY <1>1
<1>7. QED  BY <1>1, <1>5, <1>6 DEF cut

(* No newline: what goes on is kept, or dropped with what was.              *)
LEMMA WaitCuts == ASSUME SplitterInv, CutInv, WaitForMore PROVE CutInv'
<1>1. /\ Buffered \in Nat /\ Position \in Nat /\ Position + Buffered = Len(stream)
      /\ Len(stream) \in Nat /\ Len(buf) \in Nat /\ Buffered = Len(buf) - start
      /\ buf \in Seq(Byte) /\ start \in Nat /\ scanned \in Nat /\ scanned <= Len(buf)
      /\ MaxFrameBytes \in Nat
  BY PositionIsIn DEF SplitterInv, CutInv, Indices
<1>2. framing = "draining" /\ framing' = "reading" /\ NoNewline /\ stream' = stream
  BY DEF WaitForMore
<1>3. PICK out, counts, line : IsSoFar(out, counts, line)  BY <1>2 DEF CutInv, SoFar
<1>4. counts \in Counters /\ line \in Seq(Byte) /\ Len(line) \in Nat  BY <1>3 DEF IsSoFar
<1>5. CASE discarding \/ Buffered > MaxFrameBytes
  <2> DEFINE r == SubSeq(buf, start + 1, Len(buf))
  <2>1. /\ ConsumeTo(buf, Len(buf)) /\ discarding' = TRUE
        /\ stats' = Dropped(stats, IF discarding THEN 0 ELSE 1, Buffered)
        /\ frames' = IF discarding THEN frames ELSE Append(frames, Oversize)
    BY <1>5 DEF WaitForMore
  <2>2. Held' /\ Position' = Len(stream) /\ Buffered' = 0
    <3>1. Len(buf) \in scanned..Len(buf)  BY <1>1
    <3>2. Held' /\ Position' = Position + (Len(buf) - start) /\ Buffered' = Len(buf) - Len(buf)
      BY <1>2, <2>1, <3>1, StillHeld DEF SplitterInv, CutInv
    <3>3. QED  BY <1>1, <3>2
  <2>3. /\ r \in Seq(Byte) /\ Len(r) = Buffered
        /\ Cutting(stream)[Len(stream)] = At(Cut(out, counts), line \o r)
    BY <1>2, <1>3, Unended
  <2> HIDE DEF r
  <2>4. line \o r \in Seq(Byte) /\ Len(line \o r) = Len(line) + Buffered
    BY <1>4, <2>3, ConcatProperties
  <2>5. /\ Len(line \o r) > MaxFrameBytes /\ frames' = Append(out, Oversize)
        /\ stats' = Dropped(counts, 1, Len(line \o r))
    <3>1. CASE discarding
      <4>1. /\ Len(line) > MaxFrameBytes /\ frames = Append(out, Oversize)
            /\ stats = Dropped(counts, 1, Len(line))
        BY <1>3, <3>1 DEF IsSoFar
      <4>2. Dropped(Dropped(counts, 1, Len(line)), 0, Buffered)
              = Dropped(counts, 1, Len(line) + Buffered)
        BY <1>1, <1>4, Dropping
      <4>3. Len(line \o r) > MaxFrameBytes  BY <1>1, <1>4, <2>4, <4>1
      <4>4. QED  BY <2>1, <2>4, <3>1, <4>1, <4>2, <4>3
    <3>2. CASE ~discarding
      <4>1. line = <<>> /\ frames = out /\ stats = counts  BY <1>3, <3>2 DEF IsSoFar
      <4>2. line \o r = r  BY <2>3, <4>1
      <4>3. QED  BY <1>5, <2>1, <2>3, <3>2, <4>1, <4>2
    <3>3. QED  BY <3>1, <3>2
  <2>6. \E x : IsSoFar(out, counts, x)'
    <3>1. PICK x \in Seq(Byte) : x = line \o r  BY <2>4
    <3>2. IsSoFar(out, counts, x)'
      BY <1>2, <1>4, <2>1, <2>2, <2>3, <2>5, <3>1 DEF IsSoFar
    <3>3. QED  BY <3>2
  <2>7. QED  BY <1>2, <2>1, <2>2, <2>6 DEF CutInv, SoFar, DroppedAtOnce
<1>6. CASE ~(discarding \/ Buffered > MaxFrameBytes)
  <2>1. UNCHANGED <<buf, start, discarding, stats, frames>>  BY <1>6 DEF WaitForMore
  <2>2. Buffered' = Buffered /\ Position' = Position  BY <1>2, <2>1 DEF Buffered, Position
  <2>3. Held'  BY <1>2, <2>1, <2>2 DEF CutInv, Held
  <2>4. IsSoFar(out, counts, line)'  BY <1>2, <1>3, <2>1, <2>2 DEF IsSoFar
  <2>5. QED  BY <1>2, <1>6, <2>1, <2>3, <2>4 DEF CutInv, SoFar, DroppedAtOnce
<1>7. QED  BY <1>5, <1>6

(* The end of the stream.                                                   *)
LEMMA FinishCuts == ASSUME SplitterInv, CutInv, Finish PROVE CutInv'
<1>1. /\ Buffered \in Nat /\ Position \in Nat /\ Position + Buffered = Len(stream)
      /\ Len(stream) \in Nat /\ Len(buf) \in Nat /\ Buffered = Len(buf) - start
      /\ buf \in Seq(Byte) /\ start \in Nat /\ scanned \in Nat /\ scanned = Len(buf)
      /\ MaxFrameBytes \in Nat
  BY PositionIsIn DEF SplitterInv, CutInv, Indices, Finish
<1>2. /\ framing = "reading" /\ framing' = "finished" /\ stream' = stream
      /\ discarding' = discarding /\ ConsumeTo(buf, Len(buf))
  BY DEF Finish
<1>3. PICK out, counts, line : IsSoFar(out, counts, line)  BY <1>2 DEF CutInv, SoFar
<1>4. counts \in Counters /\ line \in Seq(Byte) /\ Len(line) \in Nat  BY <1>3 DEF IsSoFar
<1> DEFINE r   == SubSeq(buf, start + 1, Len(buf))
           cut == Cut(out, counts)
<1>5. /\ r \in Seq(Byte) /\ Len(r) = Buffered
      /\ Cutting(stream)[Len(stream)] = At(cut, line \o r)
  <2>1. NoNewline  BY <1>1 DEF NoNewline
  <2>2. QED  BY <1>3, <2>1, Unended
<1>6. CutOf(stream, TRUE) = Line(cut, line \o r, <<>>)
  <2> HIDE DEF cut, r
  <2>1. QED  BY <1>5 DEF CutOf, At
<1>7. Line(cut, line \o r, <<>>) = Cut(frames', stats')
  <2>1. CASE discarding
    <3>1. Buffered = 0  BY <1>2, <2>1 DEF CutInv, DroppedAtOnce
    <3>2. frames' = frames /\ stats' = Dropped(stats, 0, 0)  BY <2>1, <3>1 DEF Finish
    <3>3. /\ Len(line) > MaxFrameBytes /\ frames = Append(out, Oversize)
          /\ stats = Dropped(counts, 1, Len(line))
      BY <1>3, <2>1 DEF IsSoFar
    <3>4. Dropped(Dropped(counts, 1, Len(line)), 0, 0) = Dropped(counts, 1, Len(line) + 0)
      BY <1>4, Dropping
    <3>5. Len(line) + 0 = Len(line)  BY <1>4
    <3>6. line \o r = line
      <4>1. r = <<>>  BY <1>5, <3>1, EmptySeq
      <4> HIDE DEF r
      <4>2. QED  BY <1>4, <4>1, ConcatEmptySeq
    <3>7. Line(cut, line, <<>>) = Cut(Append(out, Oversize), Dropped(counts, 1, Len(line)))
      BY <3>3, TooLong
    <3>8. QED  BY <3>2, <3>3, <3>4, <3>5, <3>6, <3>7
  <2>2. CASE ~discarding
    <3>1. line = <<>> /\ frames = out /\ stats = counts  BY <1>3, <2>2 DEF IsSoFar
    <3>2. line \o r = r  BY <1>5, <3>1
    <3>3. Buffered <= MaxFrameBytes  BY <1>1, <1>2 DEF SplitterInv, ResidualIsBounded
    <3>4. PICK c : c = ContentLen(r)  OBVIOUS
    <3>5. Line(cut, r, <<>>)
            = Cut(IF c = 0 THEN out ELSE Append(out, [raw |-> r \o <<>>, content_len |-> c]),
                  OfAny(counts, 0, IF c = 0 THEN 0 ELSE 1, 0, IF c = 0 THEN 0 ELSE 1))
      <4>1. ~(Len(r) > MaxFrameBytes)  BY <1>1, <1>5, <3>3
      <4> HIDE DEF r
      <4>2. QED  BY <3>4, <4>1, Unterminated
    <3>6. r \o <<>> = r  BY <1>5
    <3>7. OfAny(counts, 0, 1, 0, 1) = OfLast(counts) /\ OfAny(counts, 0, 0, 0, 0) = counts
      BY <1>4, OfLastIsOfAny
    <3>8. CASE c = 0
      <4>1. frames' = frames /\ stats' = stats
        <5>1. ~(discarding \/ Buffered > MaxFrameBytes)  BY <1>1, <2>2, <3>3
        <5>2. QED  BY <3>4, <3>8, <5>1, Zenon DEF Finish
      <4>2. QED  BY <3>1, <3>2, <3>5, <3>7, <3>8, <4>1
    <3>9. CASE c # 0
      <4>1. /\ frames' = Append(frames, [raw |-> r, content_len |-> c])
            /\ stats' = OfLast(stats)
        <5>1. ~(discarding \/ Buffered > MaxFrameBytes)  BY <1>1, <2>2, <3>3
        <5>2. QED  BY <3>4, <3>9, <5>1, Zenon DEF Finish, OfLast
      <4>2. QED  BY <3>1, <3>2, <3>5, <3>6, <3>7, <3>9, <4>1
    <3>10. QED  BY <3>8, <3>9
  <2>3. QED  BY <2>1, <2>2 DEF CutInv
<1>8. Held'
  <2>1. Len(buf) \in scanned..Len(buf)  BY <1>1
  <2>2. QED  BY <1>2, <2>1, StillHeld DEF SplitterInv, CutInv
<1>9. CutIsOfTheStream'
  BY <1>2, <1>6, <1>7 DEF CutIsOfTheStream, Cut
<1>10. QED  BY <1>2, <1>8, <1>9 DEF CutInv, SoFar, DroppedAtOnce

(* Between two reads the line in progress is within the ceiling, or dropped. *)
LEMMA CutIsShown == SplitterInv /\ CutInv => CutIsOfTheStream
<1> SUFFICES ASSUME SplitterInv, CutInv, framing = "reading" PROVE CutIsOfTheStream
  BY DEF CutInv, CutIsOfTheStream, SplitterInv, Indices
<1>1. /\ Buffered \in Nat /\ scanned = Len(buf) /\ Len(buf) \in Nat /\ MaxFrameBytes \in Nat
  BY PositionIsIn DEF SplitterInv, CutInv, Indices
<1>2. PICK out, counts, line : IsSoFar(out, counts, line)  BY DEF CutInv, SoFar
<1> DEFINE r == SubSeq(buf, start + 1, Len(buf))
<1>3. /\ r \in Seq(Byte) /\ Len(r) = Buffered
      /\ Cutting(stream)[Len(stream)] = At(Cut(out, counts), line \o r)
  <2>1. NoNewline  BY <1>1 DEF NoNewline
  <2>2. QED  BY <1>2, <2>1, Unended
<1> HIDE DEF r
<1>4. CutOf(stream, FALSE) = IF Len(line \o r) > MaxFrameBytes
                             THEN Line(Cut(out, counts), line \o r, <<>>) ELSE Cut(out, counts)
  BY <1>3 DEF CutOf, At
<1>5. line \in Seq(Byte) /\ Len(line) \in Nat  BY <1>2 DEF IsSoFar
<1>6. CutOf(stream, FALSE) = Cut(frames, stats)
  <2>1. CASE discarding
    <3>1. r = <<>>  BY <1>3, <2>1, EmptySeq DEF CutInv, DroppedAtOnce
    <3>2. line \o r = line  BY <1>5, <3>1
    <3>3. /\ Len(line) > MaxFrameBytes /\ frames = Append(out, Oversize)
          /\ stats = Dropped(counts, 1, Len(line))
      BY <1>2, <2>1 DEF IsSoFar
    <3>4. Line(Cut(out, counts), line, <<>>)
            = Cut(Append(out, Oversize), Dropped(counts, 1, Len(line)))
      BY <3>3, TooLong
    <3>5. QED  BY <1>4, <3>2, <3>3, <3>4
  <2>2. CASE ~discarding
    <3>1. line = <<>> /\ frames = out /\ stats = counts  BY <1>2, <2>2 DEF IsSoFar
    <3>2. line \o r = r  BY <1>3, <3>1
    <3>3. Buffered <= MaxFrameBytes  BY <1>1 DEF SplitterInv, ResidualIsBounded
    <3>4. ~(Len(line \o r) > MaxFrameBytes)  BY <1>1, <1>3, <3>2, <3>3
    <3>5. QED  BY <1>4, <3>1, <3>4
  <2>3. QED  BY <2>1, <2>2
<1>7. QED  BY <1>6 DEF CutIsOfTheStream, Cut

LEMMA StepCuts == SplitterInv /\ CutInv /\ [SplitterNext]_splitterVars => CutInv'
<1> SUFFICES ASSUME SplitterInv, CutInv, [SplitterNext]_splitterVars PROVE CutInv'  OBVIOUS
<1>1. CASE \E k \in 1..MaxRead : \E chunk \in [1..k -> Byte] : Push(chunk)
  BY <1>1, PushCuts
<1>2. CASE TakeLine  BY <1>2, TakeLineCuts
<1>3. CASE WaitForMore  BY <1>3, WaitCuts
<1>4. CASE Finish  BY <1>4, FinishCuts
<1>5. CASE UNCHANGED splitterVars
  BY <1>5 DEF splitterVars, CutInv, Held, SoFar, IsSoFar, DroppedAtOnce, CutIsOfTheStream,
              Buffered, Position
<1>6. QED  BY <1>1, <1>2, <1>3, <1>4, <1>5 DEF SplitterNext

(* The frames, the errors and the counters are those of the stream, however *)
(* the reads have cut it and wherever the buffer was moved: next_frame,     *)
(* finish and consume_to of frame.rs.                                       *)
THEOREM StreamIsCut == SplitterSpec => []CutIsOfTheStream
<1>1. SplitterInit => SplitterInv /\ CutInv  BY InitSplitter, InitCut
<1>2. (SplitterInv /\ CutInv) /\ [SplitterNext]_splitterVars => (SplitterInv /\ CutInv)'
  BY StepSplitter, StepCuts
<1>3. SplitterInv /\ CutInv => CutIsOfTheStream  BY CutIsShown
<1>4. QED  BY <1>1, <1>2, <1>3, PTL DEF SplitterSpec

HIDE SplitterAssumption

-----------------------------------------------------------------------------
(* What a frame says.                                                       *)
Outside == [is |-> "outside", level |-> 0]

(* The reading of a frame is what it is defined to be, byte by byte.        *)
LEMMA ReadingIsDefined ==
  ASSUME Len(frame) \in Nat
  PROVE  Reading = [n \in 0..Len(frame) |->
                      IF n = 0 THEN Outside ELSE After(Reading[n - 1], frame[n])]
<1> DEFINE Is(f, m) == f = [n \in 0..m |-> IF n = 0 THEN Outside ELSE After(f[n - 1], frame[n])]
           S == {m \in Nat : \E f : Is(f, m)}
<1>1. 0 \in S
  <2> DEFINE g == [n \in 0..0 |-> Outside]
  <2>1. g = [n \in 0..0 |-> IF n = 0 THEN Outside ELSE After(g[n - 1], frame[n])]  OBVIOUS
  <2>2. Is(g, 0)  BY <2>1
  <2>3. QED  BY <2>2
<1>2. ASSUME NEW m \in Nat, m \in S  PROVE m + 1 \in S
  <2>1. PICK f : Is(f, m)  BY <1>2
  <2> DEFINE g == [n \in 0..(m + 1) |-> IF n = m + 1 THEN After(f[m], frame[m + 1]) ELSE f[n]]
  <2>2. ASSUME NEW n \in 0..(m + 1)
        PROVE  g[n] = IF n = 0 THEN Outside ELSE After(g[n - 1], frame[n])
    <3>1. CASE n = m + 1
      <4>1. n # 0 /\ m \in 0..(m + 1) /\ m # m + 1 /\ n - 1 = m  BY <3>1
      <4>2. g[n] = After(f[m], frame[n])  BY <3>1
      <4>3. g[m] = f[m]  BY <4>1
      <4>4. QED  BY <4>1, <4>2, <4>3
    <3>2. CASE n # m + 1
      <4>1. n \in 0..m /\ g[n] = f[n]  BY <3>2
      <4>2. f[n] = IF n = 0 THEN Outside ELSE After(f[n - 1], frame[n])  BY <2>1, <4>1
      <4>3. n # 0 => n - 1 \in 0..(m + 1) /\ n - 1 # m + 1  BY <4>1
      <4>4. n # 0 => g[n - 1] = f[n - 1]  BY <4>3
      <4>5. QED  BY <4>1, <4>2, <4>4
    <3>3. QED  BY <3>1, <3>2
  <2>3. g = [n \in 0..(m + 1) |-> g[n]]  OBVIOUS
  <2> HIDE DEF g
  <2>4. Is(g, m + 1)  BY <2>2, <2>3
  <2>5. QED  BY <2>4
<1>3. Nat \subseteq S
  <2> HIDE DEF S
  <2>1. QED  BY <1>1, <1>2, Induction
<1>4. PICK f : Is(f, Len(frame))  BY <1>3
<1>5. QED  BY <1>4 DEF Reading, Outside

LEMMA ReadingBegins ==
  ASSUME Len(frame) \in Nat
  PROVE  Standing(0) = "outside" /\ Level(0) = 0
<1>1. 0 \in 0..Len(frame)  OBVIOUS
<1>2. Reading[0] = Outside  BY <1>1, ReadingIsDefined
<1>3. QED  BY <1>2 DEF Standing, Level, Outside

Deeper(byte) == IF byte \in {"{", "["} THEN 1 ELSE IF byte \in {"}", "]"} THEN -1 ELSE 0
Standings == {"outside", "inside", "literal"}

(* One byte more: in a string, and outside.                                 *)
LEMMA AfterIs ==
  ASSUME NEW before, NEW byte, before.is \in Standings
  PROVE  /\ before.is = "outside" =>
              /\ After(before, byte).is = IF byte = Quote THEN "inside" ELSE "outside"
              /\ After(before, byte).level = before.level + Deeper(byte)
         /\ before.is = "literal" =>
              After(before, byte).is = "inside" /\ After(before, byte).level = before.level
         /\ before.is = "inside" =>
              /\ After(before, byte).is = IF byte = Quote THEN "outside"
                                          ELSE IF byte = Escape THEN "literal" ELSE "inside"
              /\ After(before, byte).level = before.level
<1>1. CASE before.is = "outside"  BY <1>1 DEF After, Deeper
<1>2. CASE before.is = "literal"  BY <1>2 DEF After
<1>3. CASE before.is = "inside"  BY <1>3 DEF After
<1>4. QED  BY <1>1, <1>2, <1>3 DEF Standings

LEMMA ReadingIsOf ==
  ASSUME Len(frame) \in Nat, NEW n \in 0..Len(frame)
  PROVE  Standing(n) \in Standings /\ Level(n) \in Int
<1> DEFINE S == {m \in Nat : m <= Len(frame) => Standing(m) \in Standings /\ Level(m) \in Int}
<1>1. 0 \in S  BY ReadingBegins DEF Standings
<1>2. ASSUME NEW m \in Nat, m \in S  PROVE m + 1 \in S
  <2> SUFFICES ASSUME m + 1 <= Len(frame)
      PROVE Standing(m + 1) \in Standings /\ Level(m + 1) \in Int
    OBVIOUS
  <2>1. m + 1 \in 0..Len(frame) /\ m + 1 # 0 /\ (m + 1) - 1 = m  OBVIOUS
  <2>2. Reading[m + 1] = After(Reading[m], frame[m + 1])  BY <2>1, ReadingIsDefined
  <2>3. Reading[m].is \in Standings /\ Reading[m].level \in Int  BY <1>2 DEF Standing, Level
  <2>4. Deeper(frame[m + 1]) \in Int  BY DEF Deeper
  <2> DEFINE r == Reading[m]
             b == frame[m + 1]
  <2>5. After(r, b).is \in Standings /\ After(r, b).level \in Int
    <3> HIDE DEF r, b
    <3>1. r.is \in Standings /\ r.level \in Int /\ Deeper(b) \in Int  BY <2>3, <2>4 DEF r, b
    <3>2. QED  BY <3>1, AfterIs DEF Standings
  <2>6. QED  BY <2>2, <2>5 DEF Standing, Level
<1>3. Nat \subseteq S
  <2> HIDE DEF S
  <2>1. QED  BY <1>1, <1>2, Induction
<1>4. QED  BY <1>3

(* A byte outside a string, and one inside.                                 *)
LEMMA ReadingGoesOn ==
  ASSUME Len(frame) \in Nat, NEW n \in Places
  PROVE  /\ Standing(n - 1) = "outside" =>
              /\ Standing(n) = IF frame[n] = Quote THEN "inside" ELSE "outside"
              /\ Level(n) = Level(n - 1) + Deeper(frame[n])
         /\ Standing(n - 1) = "literal" => Standing(n) = "inside"
         /\ Standing(n - 1) = "inside" =>
              Standing(n) = IF frame[n] = Quote THEN "outside"
                            ELSE IF frame[n] = Escape THEN "literal" ELSE "inside"
         /\ Standing(n - 1) # "outside" => Level(n) = Level(n - 1)
<1>1. n \in 0..Len(frame) /\ n # 0 /\ n - 1 \in 0..Len(frame)  BY DEF Places
<1>2. Reading[n] = After(Reading[n - 1], frame[n])  BY <1>1, ReadingIsDefined
<1>3. Standing(n - 1) \in Standings  BY <1>1, ReadingIsOf
<1> DEFINE r == Reading[n - 1]
           b == frame[n]
<1>4. r.is \in Standings  BY <1>3 DEF Standing
<1>5. Standing(n) = After(r, b).is /\ Level(n) = After(r, b).level  BY <1>2 DEF Standing, Level
<1>6. Standing(n - 1) = r.is /\ Level(n - 1) = r.level  BY DEF Standing, Level
<1> HIDE DEF r
<1>7. QED  BY <1>4, <1>5, <1>6, AfterIs DEF Standings

(* No quote, no string; no bracket outside a string, the same depth.        *)
LEMMA OutsideStays ==
  ASSUME Len(frame) \in Nat, NEW a \in 0..Len(frame), NEW b \in a..Len(frame),
         Standing(a) = "outside", \A k \in (a + 1)..b : frame[k] # Quote
  PROVE  \A k \in a..b : Standing(k) = "outside"
<1> DEFINE S == {m \in Nat : a + m <= b => Standing(a + m) = "outside"}
<1>1. 0 \in S  OBVIOUS
<1>2. ASSUME NEW m \in Nat, m \in S  PROVE m + 1 \in S
  <2> SUFFICES ASSUME a + (m + 1) <= b PROVE Standing(a + (m + 1)) = "outside"  OBVIOUS
  <2>1. PICK n : n = a + (m + 1)  OBVIOUS
  <2>2. n \in Places /\ n - 1 = a + m /\ n \in (a + 1)..b /\ a + m <= b  BY <2>1 DEF Places
  <2>3. Standing(n - 1) = "outside"  BY <1>2, <2>2
  <2>4. frame[n] # Quote  BY <2>2
  <2>5. Standing(n) = "outside"  BY <2>2, <2>3, <2>4, ReadingGoesOn
  <2>6. QED  BY <2>1, <2>5
<1>3. Nat \subseteq S
  <2> HIDE DEF S
  <2>1. QED  BY <1>1, <1>2, Induction
<1>4. ASSUME NEW k \in a..b  PROVE Standing(k) = "outside"
  <2>1. PICK m : m = k - a  OBVIOUS
  <2>2. m \in Nat /\ a + m = k  BY <2>1
  <2>3. m \in S  BY <1>3, <2>2
  <2>4. QED  BY <2>2, <2>3
<1>5. QED  BY <1>4

LEMMA LevelStays ==
  ASSUME Len(frame) \in Nat, NEW a \in 0..Len(frame), NEW b \in a..Len(frame),
         \A k \in (a + 1)..b : Standing(k - 1) # "outside" \/ Deeper(frame[k]) = 0
  PROVE  \A k \in a..b : Level(k) = Level(a)
<1> DEFINE S == {m \in Nat : a + m <= b => Level(a + m) = Level(a)}
<1>1. 0 \in S  OBVIOUS
<1>2. ASSUME NEW m \in Nat, m \in S  PROVE m + 1 \in S
  <2> SUFFICES ASSUME a + (m + 1) <= b PROVE Level(a + (m + 1)) = Level(a)  OBVIOUS
  <2>1. PICK n : n = a + (m + 1)  OBVIOUS
  <2>2. n \in Places /\ n - 1 = a + m /\ n \in (a + 1)..b /\ a + m <= b /\ n - 1 \in 0..Len(frame)
    BY <2>1 DEF Places
  <2>3. Level(n - 1) = Level(a) /\ Level(n - 1) \in Int  BY <1>2, <2>2, ReadingIsOf
  <2>4. Standing(n - 1) # "outside" \/ Deeper(frame[n]) = 0  BY <2>2
  <2>5. Level(n) = Level(n - 1)
    <3>1. CASE Standing(n - 1) # "outside"  BY <2>2, <3>1, ReadingGoesOn
    <3>2. CASE Standing(n - 1) = "outside"
      <4>1. Level(n) = Level(n - 1) + Deeper(frame[n])  BY <2>2, <3>2, ReadingGoesOn
      <4>2. QED  BY <2>3, <2>4, <3>2, <4>1
    <3>3. QED  BY <3>1, <3>2
  <2>6. QED  BY <2>1, <2>3, <2>5
<1>3. Nat \subseteq S
  <2> HIDE DEF S
  <2>1. QED  BY <1>1, <1>2, Induction
<1>4. ASSUME NEW k \in a..b  PROVE Level(k) = Level(a)
  <2>1. PICK m : m = k - a  OBVIOUS
  <2>2. m \in Nat /\ a + m = k  BY <2>1
  <2>3. m \in S  BY <1>3, <2>2
  <2>4. QED  BY <2>2, <2>3
<1>5. QED  BY <1>4

-----------------------------------------------------------------------------
(* What the scan finds.                                                     *)

(* The window ends in the frame. *)
Window ==
  /\ Len(frame) \in Nat /\ window \in Nat /\ whole \in BOOLEAN
  /\ ~whole => window < Len(frame)

LEMMA WindowEnds ==
  ASSUME Window
  PROVE  End \in Nat /\ End <= Len(frame) /\ (whole => End = Len(frame)) /\ (Truncated <=> ~whole)
BY DEF Window, End, Truncated

(* Spaces are skipped up to the first byte that is none, or to the end.     *)
LEMMA SpacesAreSkipped ==
  ASSUME Window, NEW from \in 1..(End + 1)
  PROVE  /\ SkipSpace(from) \in from..(End + 1)
         /\ SkipSpace(from) <= End => frame[SkipSpace(from)] # Space
         /\ \A k \in from..(SkipSpace(from) - 1) : frame[k] = Space
<1>1. End \in Nat /\ from \in Nat  BY WindowEnds
<1> DEFINE T == {j \in from..(End + 1) : j <= End => frame[j] # Space}
           Is(j) == /\ j <= End => frame[j] # Space
                    /\ \A k \in from..(j - 1) : frame[k] = Space
<1>2. End + 1 \in T /\ T \in SUBSET Nat  BY <1>1
<1>3. PICK x \in T : \A y \in T : x <= y
  <2> HIDE DEF T
  <2>1. QED  BY <1>2, LeastNumber
<1>4. ASSUME NEW k \in from..(x - 1)  PROVE frame[k] = Space
  <2>1. k \in from..(End + 1) /\ k <= End /\ ~(x <= k)  BY <1>1, <1>3
  <2>2. k \notin T  BY <1>3, <2>1
  <2>3. QED  BY <2>1, <2>2
<1>5. x \in from..(End + 1) /\ Is(x)  BY <1>3, <1>4
<1>6. SkipSpace(from) = CHOOSE j \in from..(End + 1) : Is(j)  BY DEF SkipSpace
<1> HIDE DEF Is
<1>7. SkipSpace(from) \in from..(End + 1) /\ Is(SkipSpace(from))  BY <1>5, <1>6
<1>8. QED  BY <1>7 DEF Is

(* read_string goes on by a byte, or by two after an escape. *)
Closing(f, j) ==
  IF j > End THEN 0
  ELSE IF frame[j] = Quote THEN j
  ELSE IF frame[j] = Escape THEN f[j + 2] ELSE f[j + 1]

LEMMA ClosingIsDefined ==
  ASSUME Window, NEW opened
  PROVE  \E f : /\ f = [j \in 1..(Len(frame) + 2) |-> Closing(f, j)]
                /\ ClosingQuote(opened) = f[opened + 1]
<1> DEFINE L == Len(frame) + 2
           Is(f, m) == f = [j \in (L - m)..L |-> Closing(f, j)]
           S == {m \in Nat : m <= L - 1 => \E f : Is(f, m)}
<1>1. End \in Nat /\ Len(frame) \in Nat /\ End + 2 <= L /\ L \in Nat  BY WindowEnds DEF Window
<1>2. 0 \in S
  <2> DEFINE g == [j \in L..L |-> 0]
  <2>1. \A j \in L..L : g[j] = Closing(g, j)
    <3>1. \A j \in L..L : j > End /\ g[j] = 0  BY <1>1
    <3>2. QED  BY <3>1 DEF Closing
  <2>2. g = [j \in L..L |-> g[j]]  OBVIOUS
  <2>3. L - 0 = L  BY <1>1
  <2> HIDE DEF g, L
  <2>4. Is(g, 0)  BY <2>1, <2>2, <2>3
  <2>5. QED  BY <2>4
<1>3. ASSUME NEW m \in Nat, m \in S  PROVE m + 1 \in S
  <2> SUFFICES ASSUME m + 1 <= L - 1 PROVE \E f : Is(f, m + 1)  OBVIOUS
  <2>1. PICK f : Is(f, m)  BY <1>1, <1>3
  <2>2. PICK l : l = L - (m + 1)  OBVIOUS
  <2>3. l \in Nat /\ l + 1 = L - m /\ l < L  BY <1>1, <2>2
  <2> DEFINE g == [j \in l..L |-> IF j = l THEN Closing(f, l) ELSE f[j]]
  <2>4. ASSUME NEW j \in l..L  PROVE g[j] = Closing(g, j)
    <3>1. \A i \in l..L : i # l => g[i] = f[i]  OBVIOUS
    <3>2. ~(j > End) => j + 1 \in l..L /\ j + 2 \in l..L /\ j + 1 # l /\ j + 2 # l
      BY <1>1, <2>3
    <3>3. ~(j > End) => g[j + 1] = f[j + 1] /\ g[j + 2] = f[j + 2]  BY <3>1, <3>2
    <3>4. Closing(g, j) = Closing(f, j)
      <4> HIDE DEF g
      <4>1. QED  BY <3>3 DEF Closing
    <3>5. g[j] = Closing(f, j)
      <4>1. CASE j = l  BY <4>1
      <4>2. CASE j # l
        <5>1. j \in (L - m)..L  BY <2>3, <4>2, <1>1
        <5>2. f[j] = Closing(f, j)
          <6> HIDE DEF L
          <6>1. QED  BY <2>1, <5>1
        <5>3. QED  BY <3>1, <4>2, <5>2
      <4>3. QED  BY <4>1, <4>2
    <3>6. QED  BY <3>4, <3>5
  <2>5. g = [j \in l..L |-> g[j]]  OBVIOUS
  <2> HIDE DEF g, L
  <2>6. Is(g, m + 1)  BY <2>2, <2>4, <2>5
  <2>7. QED  BY <2>6
<1>4. Nat \subseteq S
  <2> HIDE DEF S
  <2>1. QED  BY <1>2, <1>3, Induction
<1>5. L - 1 \in Nat /\ L - (L - 1) = 1  BY <1>1
<1>6. PICK h : Is(h, L - 1)
  <2> HIDE DEF L, Is
  <2>1. QED  BY <1>4, <1>5
<1>7. \E f : f = [j \in 1..(Len(frame) + 2) |-> Closing(f, j)]
  <2>1. h = [j \in 1..L |-> Closing(h, j)]
    <3> HIDE DEF L
    <3>1. QED  BY <1>5, <1>6
  <2>2. QED  BY <2>1
<1>8. ClosingQuote(opened)
        = (CHOOSE f : f = [j \in 1..(Len(frame) + 2) |-> Closing(f, j)])[opened + 1]
  BY DEF ClosingQuote, Closing
<1>9. QED  BY <1>7, <1>8

(* From j on, inside a string, what is found is where the string is closed. *)
IsClosed(j, c) ==
  IF c = 0 THEN \A k \in (j - 1)..End : Standing(k) # "outside"
  ELSE /\ c \in j..End /\ frame[c] = Quote /\ Standing(c) = "outside"
       /\ \A k \in (j - 1)..(c - 1) : Standing(k) # "outside"

LEMMA InsideIsClosed ==
  ASSUME Window, NEW f, f = [j \in 1..(Len(frame) + 2) |-> Closing(f, j)],
         NEW i \in 1..(End + 1), Standing(i - 1) = "inside"
  PROVE  IsClosed(i, f[i])
<1>1. End \in Nat /\ Len(frame) \in Nat /\ End <= Len(frame)  BY WindowEnds DEF Window
<1>2. ASSUME NEW j \in 1..(End + 2)  PROVE f[j] = Closing(f, j)
  <2>1. j \in 1..(Len(frame) + 2)  BY <1>1
  <2>2. QED  BY <2>1
<1> DEFINE S == {m \in Nat : \A j \in 1..(End + 1) :
                    (End + 1) - j <= m /\ Standing(j - 1) = "inside" => IsClosed(j, f[j])}
<1>3. 0 \in S
  <2> SUFFICES ASSUME NEW j \in 1..(End + 1), (End + 1) - j <= 0, Standing(j - 1) = "inside"
      PROVE IsClosed(j, f[j])
    OBVIOUS
  <2>1. j = End + 1 /\ j > End /\ j \in 1..(End + 2)  BY <1>1
  <2>2. f[j] = 0  BY <1>2, <2>1 DEF Closing
  <2>3. \A k \in (j - 1)..End : k = j - 1  BY <1>1, <2>1
  <2>4. QED  BY <2>2, <2>3 DEF IsClosed
<1>4. ASSUME NEW m \in Nat, m \in S  PROVE m + 1 \in S
  <2>1. m + 1 \in Nat  OBVIOUS
  <2> SUFFICES ASSUME NEW j \in 1..(End + 1), (End + 1) - j <= m + 1, Standing(j - 1) = "inside"
      PROVE IsClosed(j, f[j])
    BY <2>1, Zenon
  <2>2. CASE j > End
    <3>1. (End + 1) - j <= m  BY <1>1, <2>2
    <3>2. QED  BY <1>4, <3>1
  <2>3. CASE ~(j > End)
    <3>1. /\ j \in Places /\ j \in 1..(End + 2) /\ j <= End /\ j \in Nat
          /\ j + 1 \in 1..(End + 1) /\ (End + 1) - (j + 1) <= m /\ (j + 1) - 1 = j
      BY <1>1, <2>3 DEF Places
    <3>2. f[j] = Closing(f, j)  BY <1>2, <3>1
    <3>3. CASE frame[j] = Quote
      <4>1. f[j] = j  BY <2>3, <3>2, <3>3 DEF Closing
      <4>2. Standing(j) = "outside"  BY <1>1, <3>1, <3>3, ReadingGoesOn
      <4>3. \A k \in (j - 1)..(j - 1) : k = j - 1  BY <3>1
      <4>4. j # 0 /\ j \in j..End  BY <1>1, <3>1
      <4>5. QED  BY <3>3, <4>1, <4>2, <4>3, <4>4 DEF IsClosed
    <3>4. CASE frame[j] # Quote /\ frame[j] = Escape
      <4>1. f[j] = f[j + 2]  BY <2>3, <3>2, <3>4 DEF Closing
      <4>2. Standing(j) = "literal"  BY <1>1, <3>1, <3>4, ReadingGoesOn
      <4>3. CASE j = End
        <5>1. j + 2 \in 1..(End + 2) /\ j + 2 > End  BY <1>1, <4>3
        <5>2. f[j + 2] = 0  BY <1>2, <5>1 DEF Closing
        <5>3. \A k \in (j - 1)..End : k = j - 1 \/ k = j  BY <1>1, <4>3
        <5>4. QED  BY <4>1, <4>2, <5>2, <5>3 DEF IsClosed
      <4>4. CASE j # End
        <5>1. /\ j + 1 \in Places /\ j + 2 \in 1..(End + 1) /\ (End + 1) - (j + 2) <= m
              /\ (j + 2) - 1 = j + 1
          BY <1>1, <3>1, <4>4 DEF Places
        <5>2. Standing(j + 1) = "inside"  BY <1>1, <3>1, <4>2, <5>1, ReadingGoesOn
        <5>3. IsClosed(j + 2, f[j + 2])  BY <1>4, <5>1, <5>2
        <5>4. PICK c : c = f[j + 2]  OBVIOUS
        <5>5. \A k \in (j - 1)..(j + 1) : Standing(k) # "outside"
          <6>1. \A k \in (j - 1)..(j + 1) : k = j - 1 \/ k = j \/ k = j + 1  BY <3>1
          <6>2. QED  BY <4>2, <5>2, <6>1
        <5>6. CASE c = 0
          <6>1. \A k \in (j + 1)..End : Standing(k) # "outside"
            BY <5>1, <5>3, <5>4, <5>6 DEF IsClosed
          <6>2. \A k \in (j - 1)..End : k \in (j - 1)..(j + 1) \/ k \in (j + 1)..End
            BY <1>1, <3>1
          <6>3. \A k \in (j - 1)..End : Standing(k) # "outside"  BY <5>5, <6>1, <6>2
          <6>4. QED  BY <4>1, <5>4, <5>6, <6>3 DEF IsClosed
        <5>7. CASE c # 0
          <6>1. /\ c \in (j + 2)..End /\ frame[c] = Quote /\ Standing(c) = "outside"
                /\ \A k \in (j + 1)..(c - 1) : Standing(k) # "outside"
            BY <5>1, <5>3, <5>4, <5>7 DEF IsClosed
          <6>2. \A k \in (j - 1)..(c - 1) : k \in (j - 1)..(j + 1) \/ k \in (j + 1)..(c - 1)
            BY <1>1, <3>1, <6>1
          <6>3. \A k \in (j - 1)..(c - 1) : Standing(k) # "outside"  BY <5>5, <6>1, <6>2
          <6>4. c \in j..End  BY <1>1, <3>1, <6>1
          <6>5. QED  BY <4>1, <5>4, <5>7, <6>1, <6>3, <6>4 DEF IsClosed
        <5>8. QED  BY <5>6, <5>7
      <4>5. QED  BY <4>3, <4>4
    <3>5. CASE frame[j] # Quote /\ frame[j] # Escape
      <4>1. f[j] = f[j + 1]  BY <2>3, <3>2, <3>5 DEF Closing
      <4>2. Standing(j) = "inside"  BY <1>1, <3>1, <3>5, ReadingGoesOn
      <4>3. IsClosed(j + 1, f[j + 1])  BY <1>4, <3>1, <4>2
      <4>4. PICK c : c = f[j + 1]  OBVIOUS
      <4>5. CASE c = 0
        <5>1. \A k \in j..End : Standing(k) # "outside"
          BY <3>1, <4>3, <4>4, <4>5 DEF IsClosed
        <5>2. \A k \in (j - 1)..End : k = j - 1 \/ k \in j..End  BY <1>1, <3>1
        <5>3. \A k \in (j - 1)..End : Standing(k) # "outside"  BY <5>1, <5>2
        <5>4. QED  BY <4>1, <4>4, <4>5, <5>3 DEF IsClosed
      <4>6. CASE c # 0
        <5>1. /\ c \in (j + 1)..End /\ frame[c] = Quote /\ Standing(c) = "outside"
              /\ \A k \in j..(c - 1) : Standing(k) # "outside"
          BY <3>1, <4>3, <4>4, <4>6 DEF IsClosed
        <5>2. \A k \in (j - 1)..(c - 1) : k = j - 1 \/ k \in j..(c - 1)  BY <1>1, <3>1, <5>1
        <5>3. \A k \in (j - 1)..(c - 1) : Standing(k) # "outside"  BY <5>1, <5>2
        <5>4. c \in j..End  BY <1>1, <3>1, <5>1
        <5>5. QED  BY <4>1, <4>4, <4>6, <5>1, <5>3, <5>4 DEF IsClosed
      <4>7. QED  BY <4>5, <4>6
    <3>6. QED  BY <3>3, <3>4, <3>5
  <2>4. QED  BY <2>2, <2>3
<1>5. Nat \subseteq S
  <2> HIDE DEF S
  <2>1. QED  BY <1>3, <1>4, Induction
<1>6. (End + 1) - i \in Nat /\ (End + 1) - i <= (End + 1) - i  BY <1>1
<1>7. QED  BY <1>5, <1>6

(* read_string finds the string, unless what is scanned ends inside it.     *)
LEMMA StringIsFound ==
  ASSUME Window, NEW o \in 1..End, frame[o] = Quote, Standing(o - 1) = "outside"
  PROVE  IF ClosingQuote(o) = 0 THEN \A k \in o..End : Standing(k) # "outside"
         ELSE ClosingQuote(o) \in (o + 1)..End /\ IsString(o, ClosingQuote(o))
<1>1. /\ End \in Nat /\ Len(frame) \in Nat /\ o \in Places /\ (o + 1) - 1 = o
      /\ o + 1 \in 1..(End + 1) /\ o \in Nat
  BY WindowEnds DEF Window, Places
<1>2. Standing(o) = "inside"  BY <1>1, ReadingGoesOn
<1>3. PICK f : /\ f = [j \in 1..(Len(frame) + 2) |-> Closing(f, j)]
               /\ ClosingQuote(o) = f[o + 1]
  BY ClosingIsDefined
<1>4. PICK c : c = ClosingQuote(o)  OBVIOUS
<1>5. IsClosed(o + 1, c)
  <2>1. IsClosed(o + 1, f[o + 1])
    <3>1. PICK i : i = o + 1  OBVIOUS
    <3>2. i \in 1..(End + 1) /\ Standing(i - 1) = "inside"  BY <1>1, <1>2, <3>1
    <3>3. IsClosed(i, f[i])  BY <1>3, <3>2, InsideIsClosed
    <3>4. QED  BY <3>1, <3>3
  <2>2. QED  BY <1>3, <1>4, <2>1
<1>6. CASE c = 0
  <2>1. \A k \in o..End : Standing(k) # "outside"  BY <1>1, <1>5, <1>6 DEF IsClosed
  <2>2. QED  BY <1>4, <1>6, <2>1
<1>7. CASE c # 0
  <2>1. /\ c \in (o + 1)..End /\ frame[c] = Quote /\ Standing(c) = "outside"
        /\ \A k \in o..(c - 1) : Standing(k) # "outside"
    BY <1>1, <1>5, <1>7 DEF IsClosed
  <2>2. o < c  BY <1>1, <2>1
  <2>3. QED  BY <1>4, <1>7, <2>1, <2>2 DEF IsString
<1>8. QED  BY <1>6, <1>7

-----------------------------------------------------------------------------
(* There is one first byte, and one end of a string.                        *)
LEMMA FollowsOnce ==
  ASSUME NEW n \in Nat, NEW p \in Nat, NEW q \in Nat, Follows(n, p), Follows(n, q)
  PROVE  p = q
<1>1. ~(p < q)
  <2> SUFFICES ASSUME p < q PROVE FALSE  OBVIOUS
  <2>1. p \in (n + 1)..(q - 1)  BY DEF Follows
  <2>2. QED  BY <2>1 DEF Follows
<1>2. ~(q < p)
  <2> SUFFICES ASSUME q < p PROVE FALSE  OBVIOUS
  <2>1. q \in (n + 1)..(p - 1)  BY DEF Follows
  <2>2. QED  BY <2>1 DEF Follows
<1>3. QED  BY <1>1, <1>2

LEMMA StringEndsOnce ==
  ASSUME NEW o \in Nat, NEW c \in Nat, NEW d \in Nat, IsString(o, c), IsString(o, d)
  PROVE  c = d
<1>1. ~(c < d)
  <2> SUFFICES ASSUME c < d PROVE FALSE  OBVIOUS
  <2>1. c \in o..(d - 1)  BY DEF IsString
  <2>2. QED  BY <2>1 DEF IsString
<1>2. ~(d < c)
  <2> SUFFICES ASSUME d < c PROVE FALSE  OBVIOUS
  <2>1. d \in o..(c - 1)  BY DEF IsString
  <2>2. QED  BY <2>1 DEF IsString
<1>3. QED  BY <1>1, <1>2

(* A string is no deeper than where it stands, and no string opens in it.   *)
LEMMA InString ==
  ASSUME Len(frame) \in Nat, NEW o \in Places, NEW b \in o..Len(frame), frame[o] = Quote,
         \A k \in o..(b - 1) : Standing(k) # "outside"
  PROVE  /\ \A k \in (o - 1)..b : Level(k) = Level(o - 1)
         /\ \A i \in (o + 1)..b : Standing(i - 1) # "outside"
<1>1. o - 1 \in 0..Len(frame) /\ b \in (o - 1)..Len(frame) /\ o \in Nat /\ b \in Nat  BY DEF Places
<1>2. \A i \in (o + 1)..b : i - 1 \in o..(b - 1)  BY <1>1
<1>3. \A i \in (o + 1)..b : Standing(i - 1) # "outside"  BY <1>2
<1>4. ASSUME NEW k \in ((o - 1) + 1)..b
      PROVE  Standing(k - 1) # "outside" \/ Deeper(frame[k]) = 0
  <2>1. CASE k = o  BY <2>1 DEF Deeper, Quote
  <2>2. CASE k # o
    <3>1. k \in (o + 1)..b  BY <1>1, <2>2
    <3>2. QED  BY <1>3, <3>1
  <2>3. QED  BY <2>1, <2>2
<1>5. \A k \in (o - 1)..b : Level(k) = Level(o - 1)  BY <1>1, <1>4, LevelStays
<1>6. QED  BY <1>3, <1>5

(* What was scanned: the root object is open at depth, and a method key in  *)
(* it has its colon beyond the window, of which only spaces are left.       *)
Scanned(j) ==
  /\ j \in 1..(at - 1) /\ frame[j] = "{" /\ Follows(0, j)
  /\ \A i \in j..(at - 1) : Level(i) > 0
  /\ Level(at - 1) = depth /\ Standing(at - 1) = "outside"
  /\ \A o \in 1..(at - 1), p \in Places :
       IsKey(o, p) => p > End /\ \A k \in at..End : frame[k] = Space

Scan ==
  scan = Scanning =>
    /\ depth \in Nat
    /\ depth = 0 => at = 1
    /\ depth > 0 => at \in 1..(End + 1) /\ \E j : Scanned(j)

ScanInv == Window /\ Scan /\ MethodIsOfTheFrame

LEMMA InitScan == ScannerAssumption /\ ScannerInit => ScanInv
<1> SUFFICES ASSUME ScannerAssumption, ScannerInit PROVE ScanInv  OBVIOUS
<1>1. frame \in Seq(STRING) /\ window \in Nat  BY DEF ScannerAssumption, ScannerInit
<1>2. Window
  <2>1. whole = (Len(frame) <= window)  BY DEF ScannerInit
  <2>2. Len(frame) \in Nat  BY <1>1
  <2>3. whole \in BOOLEAN  BY <2>1
  <2>4. ~whole => window < Len(frame)
    <3>1. ~whole => ~(Len(frame) <= window)  BY <2>1
    <3>2. QED  BY <1>1, <2>2, <3>1
  <2>5. QED  BY <1>1, <2>2, <2>3, <2>4 DEF Window
<1>3. Scan /\ MethodIsOfTheFrame  BY DEF ScannerInit, Scan, MethodIsOfTheFrame
<1>4. QED  BY <1>2, <1>3 DEF ScanInv

(* The frame says what it says.                                             *)
LEMMA SaysTheSame ==
  ASSUME frame' = frame
  PROVE  /\ \A n : Standing(n)' = Standing(n) /\ Level(n)' = Level(n)
         /\ \A n, p : Follows(n, p)' = Follows(n, p)
         /\ \A o, p : IsKey(o, p)' = IsKey(o, p)
         /\ Meaning' = Meaning
<1>1. Reading' = Reading  BY DEF Reading
<1>2. \A n : Standing(n)' = Standing(n) /\ Level(n)' = Level(n)  BY <1>1 DEF Standing, Level
<1>3. \A n, p : Follows(n, p)' = Follows(n, p)  BY DEF Follows
<1>4. \A o, p : IsString(o, p)' = IsString(o, p) /\ IsRoot(o, p)' = IsRoot(o, p)
  BY <1>2, <1>3 DEF IsString, IsRoot
<1>5. Places' = Places /\ \A o, p : Content(o, p)' = Content(o, p)  BY DEF Places, Content
<1>6. \A o, p : IsKey(o, p)' = IsKey(o, p)  BY <1>2, <1>3, <1>4, <1>5 DEF IsKey
<1>7. \A p : FirstColon(p)' = FirstColon(p)  BY <1>5, <1>6 DEF FirstColon
<1>8. MethodColon' = MethodColon  BY <1>5, <1>7 DEF MethodColon
<1>9. Values(MethodColon)' = Values(MethodColon)  BY <1>3, <1>4, <1>5, <1>8 DEF Values
<1>10. (\E o, p \in Places : IsKey(o, p))' = \E o, p \in Places : IsKey(o, p)  BY <1>5, <1>6
<1>11. Meaning' = Meaning
  <2>1. MethodText' = MethodText  BY <1>9 DEF MethodText, Content
  <2>2. (\E j \in Places : IsRoot(j, Len(frame)))' = \E j \in Places : IsRoot(j, Len(frame))
    BY <1>2, <1>3, <1>5 DEF IsRoot
  <2>3. Unclosed' = Unclosed  BY <1>1, <2>2 DEF Unclosed, Standing
  <2>4. QED  BY <1>9, <1>10, <2>1, <2>3, Zenon DEF Meaning, Found, Unparsable, NoMethod
<1>12. QED  BY <1>2, <1>3, <1>6, <1>11

(* A pass that concludes is of the frame, or starts the next.               *)
LEMMA ConcludeKeeps ==
  ASSUME ScanInv, scan = Scanning, frame' = frame, window' = window,
         NEW result, Conclude(result), result # Scanning,
         whole \/ result # NoMethod => result = Meaning
  PROVE  ScanInv'
<1>1. CASE ~whole /\ result = NoMethod
  <2>1. whole' = TRUE /\ at' = 1 /\ depth' = 0 /\ scan' = Scanning  BY <1>1 DEF Conclude
  <2>2. Window'  BY <2>1 DEF ScanInv, Window
  <2>3. Scan' /\ MethodIsOfTheFrame'  BY <2>1 DEF Scan, MethodIsOfTheFrame, Scanning
  <2>4. QED  BY <2>2, <2>3 DEF ScanInv
<1>2. CASE ~(~whole /\ result = NoMethod)
  <2>1. scan' = result /\ whole' = whole  BY <1>2, Zenon DEF Conclude
  <2>2. Window'  BY <2>1 DEF ScanInv, Window
  <2>3. result = Meaning /\ Meaning' = Meaning  BY <1>2, SaysTheSame DEF ScanInv, Window
  <2>4. Scanning' = Scanning  BY DEF Scanning
  <2>5. Scan' /\ MethodIsOfTheFrame'  BY <2>1, <2>3, <2>4 DEF Scan, MethodIsOfTheFrame
  <2>6. QED  BY <2>2, <2>5 DEF ScanInv
<1>3. QED  BY <1>1, <1>2

LEMMA RunsOutKeeps ==
  ASSUME ScanInv, scan = Scanning, frame' = frame, window' = window,
         NEW result, RunsOut(result), result # Scanning, whole => result = Meaning
  PROVE  ScanInv'
<1>1. Truncated <=> ~whole  BY WindowEnds DEF ScanInv
<1>2. CASE whole
  <2>1. Conclude(result)  BY <1>1, <1>2 DEF RunsOut
  <2>2. QED  BY <1>2, <2>1, ConcludeKeeps
<1>3. CASE ~whole
  <2>1. Conclude(NoMethod)  BY <1>1, <1>3 DEF RunsOut
  <2>2. NoMethod # Scanning  BY DEF NoMethod, Scanning
  <2>3. QED  BY <1>3, <2>1, <2>2, ConcludeKeeps
<1>4. QED  BY <1>2, <1>3

(* Keys are of strings, and of the root.                                    *)
LEMMA KeyIs ==
  ASSUME Len(frame) \in Nat, NEW o \in Places, NEW p, IsKey(o, p)
  PROVE  /\ frame[o] = Quote /\ frame[p] = ":" /\ Level(o) = 1 /\ Standing(o - 1) = "outside"
         /\ \E c \in Places : IsString(o, c) /\ Content(o, c) = MethodKey /\ Follows(c, p)
         /\ \E j \in Places : IsRoot(j, o)
BY DEF IsKey, IsString

(* The scan goes on to b.                                                   *)
LEMMA GoesOn ==
  ASSUME ScanInv, scan = Scanning, NEW j, Scanned(j), NEW b \in at..End,
         frame' = frame, window' = window, whole' = whole, scan' = scan,
         at' = b + 1, depth' = Level(b), Standing(b) = "outside",
         \A i \in at..b : Level(i) > 0,
         \A o \in at..b, p \in Places :
           IsKey(o, p) => p > End /\ \A k \in (b + 1)..End : frame[k] = Space
  PROVE  ScanInv'
<1>1. /\ End \in Nat /\ End <= Len(frame) /\ Len(frame) \in Nat /\ at \in Nat /\ at > 1 /\ b \in Nat
      /\ j \in 1..(at - 1) /\ b \in Places /\ b \in 0..Len(frame)
  <2>1. End \in Nat /\ End <= Len(frame) /\ Len(frame) \in Nat
    BY WindowEnds DEF ScanInv, Window
  <2>2. j \in 1..(at - 1)  BY DEF Scanned
  <2>3. depth \in Nat /\ (depth > 0 => at \in 1..(End + 1)) /\ (depth = 0 => at = 1)
    BY DEF ScanInv, Scan
  <2>4. at \in Nat /\ at > 1  BY <2>1, <2>2, <2>3
  <2>5. b \in Nat /\ b \in Places /\ b \in 0..Len(frame)  BY <2>1, <2>4 DEF Places
  <2>6. QED  BY <2>1, <2>2, <2>4, <2>5
<1>2. Window'  BY DEF ScanInv, Window
<1>3. End' = End  BY DEF End
<1>4. Scanned(j)'
  <2>1. j \in 1..(at' - 1) /\ at' - 1 = b  BY <1>1
  <2>2. frame'[j] = "{" /\ Follows(0, j)'  BY SaysTheSame DEF Scanned
  <2>3. ASSUME NEW i \in j..(at' - 1)  PROVE Level(i) > 0
    <3>1. CASE i < at
      <4>1. i \in j..(at - 1)  BY <1>1, <3>1
      <4>2. QED  BY <4>1 DEF Scanned
    <3>2. CASE ~(i < at)
      <4>1. i \in at..b  BY <1>1, <3>2
      <4>2. QED  BY <4>1
    <3>3. QED  BY <3>1, <3>2
  <2>4. ASSUME NEW o \in 1..(at' - 1), NEW p \in Places, IsKey(o, p)
        PROVE  p > End /\ \A k \in at'..End : frame[k] = Space
    <3>1. CASE o < at
      <4>1. o \in 1..(at - 1)  BY <1>1, <3>1
      <4>2. p > End /\ \A k \in at..End : frame[k] = Space  BY <2>4, <4>1 DEF Scanned
      <4>3. \A k \in at'..End : k \in at..End  BY <1>1
      <4>4. QED  BY <4>2, <4>3
    <3>2. CASE ~(o < at)
      <4>1. o \in at..b  BY <1>1, <3>2
      <4>2. QED  BY <2>4, <4>1
    <3>3. QED  BY <3>1, <3>2
  <2>5. Places' = Places  BY DEF Places
  <2>6. \A i : Level(i)' = Level(i) /\ Standing(i)' = Standing(i)  BY SaysTheSame
  <2>7. \A o, p : IsKey(o, p)' = IsKey(o, p)  BY SaysTheSame
  <2>8. (Level(at - 1) = depth)' /\ (Standing(at - 1) = "outside")'
    <3>1. Level(b)' = Level(b) /\ Standing(b)' = Standing(b)  BY <2>6
    <3>2. QED  BY <2>1, <3>1 DEF Level, Standing
  <2>9. (\A i \in j..(at - 1) : Level(i) > 0)'  BY <2>3, <2>6
  <2>10. (\A o \in 1..(at - 1), p \in Places :
            IsKey(o, p) => p > End /\ \A k \in at..End : frame[k] = Space)'
    BY <1>3, <2>4, <2>5, <2>7
  <2>11. QED  BY <2>1, <2>2, <2>8, <2>9, <2>10 DEF Scanned
<1>5. Scan'
  <2>1. depth' \in Nat /\ depth' > 0
    <3>1. b \in at..b  BY <1>1
    <3>2. Level(b) > 0 /\ Level(b) \in Int  BY <1>1, <3>1, ReadingIsOf
    <3>3. QED  BY <3>2
  <2>2. at' \in 1..(End' + 1)  BY <1>1, <1>3
  <2>3. QED  BY <1>4, <2>1, <2>2 DEF Scan
<1>6. MethodIsOfTheFrame'  BY DEF MethodIsOfTheFrame, Scanning
<1>7. QED  BY <1>2, <1>5, <1>6 DEF ScanInv

(* A frame that does not begin as an object has no method.                  *)
LEMMA NoRoot ==
  ASSUME \A j \in Places : ~(frame[j] = "{" /\ Follows(0, j))
  PROVE  Meaning = NoMethod
<1>1. \A j \in Places : \A k : ~IsRoot(j, k)  BY DEF IsRoot
<1>2. \A o, p \in Places : ~IsKey(o, p)  BY <1>1 DEF IsKey
<1>3. ~Unclosed  BY <1>1 DEF Unclosed
<1>4. QED  BY <1>2, <1>3 DEF Meaning

LEMMA EnterRootKeeps ==
  ASSUME ScanInv, scan = Scanning, EnterRoot, frame' = frame, window' = window
  PROVE  ScanInv'
<1>1. PICK j : j = SkipSpace(at)  OBVIOUS
<1>2. depth = 0 /\ at = 1  BY DEF EnterRoot, ScanInv, Scan
<1>3. End \in Nat /\ End <= Len(frame) /\ (whole => End = Len(frame)) /\ Len(frame) \in Nat
  BY WindowEnds DEF ScanInv, Window
<1>4. /\ j \in 1..(End + 1) /\ (j <= End => frame[j] # Space)
      /\ \A k \in 1..(j - 1) : frame[k] = Space
  <2>1. at \in 1..(End + 1)  BY <1>2, <1>3
  <2>2. QED  BY <1>1, <1>2, <2>1, SpacesAreSkipped DEF ScanInv
<1>5. j \in Nat /\ j > 0  BY <1>4
<1>6. j <= End <=> ~(j > End)  BY <1>3, <1>5
<1>7. (0 + 1)..(j - 1) = 1..(j - 1) /\ \A k \in (0 + 1)..j : k \in 1..j  OBVIOUS
<1>8. /\ j > End => RunsOut(NoMethod)
      /\ ~(j > End) /\ frame[j] # "{" => Conclude(NoMethod)
      /\ ~(j > End) /\ frame[j] = "{" => GoTo(j + 1) /\ depth' = 1
  BY <1>1 DEF EnterRoot
<1>9. NoMethod # Scanning  BY DEF NoMethod, Scanning
<1>10. CASE j > End
  <2>1. ASSUME whole  PROVE Meaning = NoMethod
    <3>1. \A i \in Places : i \in 1..(j - 1)  BY <1>3, <1>5, <1>10, <2>1 DEF Places
    <3>2. \A i \in Places : frame[i] = Space  BY <1>4, <3>1
    <3>3. "{" # Space  BY DEF Space
    <3>4. QED  BY <3>2, <3>3, NoRoot
  <2>2. QED  BY <1>8, <1>9, <1>10, <2>1, RunsOutKeeps
<1>11. CASE ~(j > End) /\ frame[j] # "{"
  <2>1. Follows(0, j)
    <3>1. frame[j] # Space /\ 0 < j  BY <1>4, <1>5, <1>11, <1>6
    <3>2. QED  BY <1>4, <1>7, <3>1 DEF Follows
  <2>2. ASSUME NEW i \in Places, Follows(0, i)  PROVE frame[i] # "{"
    <3>1. i \in Nat  BY DEF Places
    <3>2. i = j  BY <1>5, <2>1, <2>2, <3>1, FollowsOnce
    <3>3. QED  BY <1>11, <3>2
  <2>3. Meaning = NoMethod  BY <2>2, NoRoot
  <2>4. QED  BY <1>8, <1>9, <1>11, <2>3, ConcludeKeeps
<1>12. CASE ~(j > End) /\ frame[j] = "{"
  <2>1. at' = j + 1 /\ whole' = whole /\ scan' = scan /\ depth' = 1  BY <1>8, <1>12 DEF GoTo
  <2>2. /\ j \in Places /\ j \in 0..Len(frame) /\ j - 1 \in 0..Len(frame) /\ 0 \in 0..Len(frame)
        /\ j \in 1..((j + 1) - 1) /\ (j + 1) - 1 = j /\ j <= End
    <3>1. j <= End  BY <1>12, <1>6
    <3>2. QED  BY <1>3, <1>5, <3>1 DEF Places
  <2>3. \A k \in 1..j : frame[k] = Space \/ frame[k] = "{"
    <3>1. \A k \in 1..j : k \in 1..(j - 1) \/ k = j  BY <1>5
    <3>2. QED  BY <1>4, <1>12, <3>1
  <2>4. Standing(j) = "outside"
    <3>1. \A k \in (0 + 1)..j : frame[k] # Quote  BY <1>7, <2>3 DEF Space, Quote
    <3>2. j \in 0..j  BY <1>5
    <3>3. QED  BY <1>3, <2>2, <3>1, <3>2, OutsideStays, ReadingBegins
  <2>5. Level(j) = 1
    <3>1. PICK i : i = j - 1  OBVIOUS
    <3>2. \A k \in (0 + 1)..i : frame[k] = Space  BY <1>4, <1>7, <3>1
    <3>3. \A k \in (0 + 1)..i : Standing(k - 1) # "outside" \/ Deeper(frame[k]) = 0
      BY <3>2 DEF Deeper, Space
    <3>4. i \in 0..Len(frame) /\ i \in 0..i  BY <2>2, <3>1
    <3>5. \A k \in 0..i : Level(k) = Level(0)  BY <1>3, <2>2, <3>3, <3>4, LevelStays
    <3>6. Level(i) = 0  BY <1>3, <3>4, <3>5, ReadingBegins
    <3>7. Standing(i) = "outside"
      <4>1. \A k \in (0 + 1)..i : frame[k] # Quote  BY <3>2 DEF Space, Quote
      <4>2. QED  BY <1>3, <2>2, <3>4, <4>1, OutsideStays, ReadingBegins
    <3>8. Level(j) = Level(i) + Deeper(frame[j])  BY <1>3, <2>2, <3>1, <3>7, ReadingGoesOn
    <3>9. Deeper(frame[j]) = 1  BY <1>12 DEF Deeper
    <3>10. QED  BY <3>6, <3>8, <3>9
  <2>6. Window' /\ End' = End  BY <2>1 DEF ScanInv, Window, End
  <2>7. Scanned(j)'
    <3>1. j \in 1..(at' - 1) /\ at' - 1 = j  BY <2>1, <2>2
    <3>2. Follows(0, j)
      <4>1. frame[j] # Space /\ 0 < j  BY <1>5, <1>12 DEF Space
      <4>2. QED  BY <1>4, <1>7, <4>1 DEF Follows
    <3>3. Level(j)' = 1 /\ Standing(j)' = "outside"  BY <2>4, <2>5, SaysTheSame
    <3>4. \A i \in j..j : i = j  BY <1>5
    <3>5. \A o \in 1..j : \A p : ~IsKey(o, p)
      <4>1. \A o \in 1..j : frame[o] # Quote  BY <2>3 DEF Space, Quote
      <4>2. QED  BY <4>1 DEF IsKey
    <3>6. frame'[j] = "{" /\ Follows(0, j)'  BY <1>12, <3>2, SaysTheSame
    <3>7. (\A i \in j..(at - 1) : Level(i) > 0)'  BY <3>1, <3>3, <3>4
    <3>8. (Level(at - 1) = depth)' /\ (Standing(at - 1) = "outside")'
      BY <2>1, <3>1, <3>3 DEF Level, Standing
    <3>9. (\A o \in 1..(at - 1), p \in Places :
             IsKey(o, p) => p > End /\ \A k \in at..End : frame[k] = Space)'
      BY <3>1, <3>5, SaysTheSame
    <3>10. QED  BY <3>1, <3>6, <3>7, <3>8, <3>9 DEF Scanned
  <2>8. at' \in 1..(End' + 1)  BY <1>3, <1>5, <2>1, <2>2, <2>6
  <2>9. Scan'  BY <2>1, <2>7, <2>8 DEF Scan
  <2>10. MethodIsOfTheFrame'  BY <2>1 DEF MethodIsOfTheFrame, Scanning
  <2>11. QED  BY <2>6, <2>9, <2>10 DEF ScanInv
<1>13. QED  BY <1>10, <1>11, <1>12

(* Where the scan is.                                                       *)
LEMMA InsideIsAt ==
  ASSUME ScanInv, scan = Scanning, depth > 0
  PROVE  /\ End \in Nat /\ End <= Len(frame) /\ Len(frame) \in Nat /\ (whole => End = Len(frame))
         /\ at \in Nat /\ at > 1 /\ at <= End + 1 /\ depth \in Nat
         /\ \E j : Scanned(j)
<1>1. /\ End \in Nat /\ End <= Len(frame) /\ Len(frame) \in Nat /\ (whole => End = Len(frame))
      /\ at \in 1..(End + 1) /\ depth \in Nat
  BY WindowEnds DEF ScanInv, Window, Scan
<1>2. PICK j : Scanned(j)  BY DEF ScanInv, Scan
<1>3. j \in 1..(at - 1)  BY <1>2 DEF Scanned
<1>4. at \in Nat /\ at > 1 /\ at <= End + 1  BY <1>1, <1>3
<1>5. QED  BY <1>1, <1>2, <1>4

(* One byte that is no quote, and does not close the root.                  *)
LEMMA ByteKeeps ==
  ASSUME ScanInv, scan = Scanning, Inside, frame' = frame, window' = window,
         GoTo(at + 1), frame[at] # Quote, depth' = depth + Deeper(frame[at]), depth' > 0
  PROVE  ScanInv'
<1>1. depth > 0 /\ at <= End  BY DEF Inside
<1>2. /\ End \in Nat /\ End <= Len(frame) /\ Len(frame) \in Nat /\ at \in Nat /\ at > 1
      /\ depth \in Nat
  BY <1>1, InsideIsAt
<1>3. PICK j : Scanned(j)  BY <1>1, InsideIsAt
<1>4. at \in Places /\ at \in at..End  BY <1>1, <1>2 DEF Places
<1>5. Standing(at - 1) = "outside" /\ Level(at - 1) = depth  BY <1>3 DEF Scanned
<1>6. Standing(at) = "outside" /\ Level(at) = depth'  BY <1>2, <1>4, <1>5, ReadingGoesOn
<1>7. \A o \in at..at : o = at  BY <1>2
<1>8. \A o \in at..at, p \in Places : ~IsKey(o, p)  BY <1>7 DEF IsKey
<1>9. \A i \in at..at : Level(i) > 0  BY <1>6, <1>7
<1>10. at' = at + 1 /\ whole' = whole /\ scan' = scan  BY DEF GoTo
<1>11. QED  BY <1>3, <1>4, <1>6, <1>8, <1>9, <1>10, GoesOn

LEMMA OpenKeeps ==
  ASSUME ScanInv, scan = Scanning, Open, frame' = frame, window' = window
  PROVE  ScanInv'
<1>1. depth \in Nat /\ depth > 0  BY InsideIsAt DEF Open, Inside
<1>2. /\ Inside /\ frame[at] # Quote /\ Deeper(frame[at]) = 1 /\ GoTo(at + 1)
      /\ depth' = depth + 1
  BY DEF Open, Deeper, Quote
<1>3. QED  BY <1>1, <1>2, ByteKeeps

LEMMA OtherByteKeeps ==
  ASSUME ScanInv, scan = Scanning, OtherByte, frame' = frame, window' = window
  PROVE  ScanInv'
<1>1. depth \in Nat /\ depth > 0  BY InsideIsAt DEF OtherByte, Inside
<1>2. /\ Inside /\ frame[at] # Quote /\ Deeper(frame[at]) = 0 /\ GoTo(at + 1)
      /\ depth' = depth
  BY DEF OtherByte, Deeper
<1>3. QED  BY <1>1, <1>2, ByteKeeps

(* When all of the frame is scanned and there is no key in what is left.    *)
LEMMA NothingFound ==
  ASSUME ScanInv, scan = Scanning, depth > 0, whole, NEW j, Scanned(j),
         \A o \in at..Len(frame), p \in Places : ~IsKey(o, p)
  PROVE  Meaning = IF Unclosed THEN Unparsable ELSE NoMethod
<1>1. End = Len(frame) /\ Len(frame) \in Nat /\ at \in Nat /\ at > 1  BY InsideIsAt
<1>2. ASSUME NEW o \in Places, NEW p \in Places  PROVE ~IsKey(o, p)
  <2>1. CASE o < at
    <3>1. o \in 1..(at - 1) /\ ~(p > End)  BY <1>1, <2>1 DEF Places
    <3>2. QED  BY <3>1 DEF Scanned
  <2>2. CASE ~(o < at)
    <3>1. o \in at..Len(frame)  BY <1>1, <2>2 DEF Places
    <3>2. QED  BY <3>1
  <2>3. QED  BY <2>1, <2>2
<1>3. QED  BY <1>2 DEF Meaning

LEMMA ExhaustedKeeps ==
  ASSUME ScanInv, scan = Scanning, Exhausted, frame' = frame, window' = window
  PROVE  ScanInv'
<1>1. depth > 0 /\ at > End /\ RunsOut(NoMethod)  BY DEF Exhausted
<1>2. PICK j : Scanned(j)  BY <1>1, InsideIsAt
<1>3. ASSUME whole  PROVE Meaning = NoMethod
  <2>1. at - 1 = Len(frame) /\ at..Len(frame) = {}  BY <1>1, <1>3, InsideIsAt
  <2>2. Standing(Len(frame)) = "outside"  BY <1>2, <2>1 DEF Scanned
  <2>3. ~Unclosed  BY <2>2 DEF Unclosed
  <2>4. QED  BY <1>1, <1>2, <1>3, <2>1, <2>3, NothingFound
<1>4. NoMethod # Scanning  BY DEF NoMethod, Scanning
<1>5. QED  BY <1>1, <1>3, <1>4, RunsOutKeeps

(* The root is not open beyond where it was closed.                         *)
LEMMA RootIsClosed ==
  ASSUME Len(frame) \in Nat, NEW j \in Nat, Follows(0, j), NEW b \in Nat, j <= b, ~(Level(b) > 0),
         NEW k \in Nat, b <= k
  PROVE  ~\E i \in Places : IsRoot(i, k)
<1> SUFFICES ASSUME NEW i \in Places, IsRoot(i, k) PROVE FALSE  OBVIOUS
<1>1. Follows(0, i) /\ i \in Nat
  <2>1. Follows(0, i)  BY DEF IsRoot
  <2>2. i \in Nat  BY DEF Places
  <2>3. QED  BY <2>1, <2>2
<1>2. i = j  BY <1>1, FollowsOnce
<1>3. b \in i..k  BY <1>2
<1>4. QED  BY <1>3 DEF IsRoot

LEMMA CloseKeeps ==
  ASSUME ScanInv, scan = Scanning, Close, frame' = frame, window' = window
  PROVE  ScanInv'
<1>1. /\ Inside /\ depth > 0 /\ at <= End /\ frame[at] # Quote /\ Deeper(frame[at]) = -1
  BY DEF Close, Inside, Deeper, Quote
<1>2. /\ End \in Nat /\ End <= Len(frame) /\ Len(frame) \in Nat /\ at \in Nat /\ at > 1
      /\ depth \in Nat
  BY <1>1, InsideIsAt
<1>3. PICK j : Scanned(j)  BY <1>1, InsideIsAt
<1>4. CASE depth = 1
  <2>1. Conclude(NoMethod)  BY <1>4 DEF Close
  <2>2. ASSUME whole  PROVE Meaning = NoMethod
    <3>1. at \in Places /\ End = Len(frame)  BY <1>1, <1>2, <2>2, InsideIsAt DEF Places
    <3>2. Standing(at - 1) = "outside" /\ Level(at - 1) = 1  BY <1>3, <1>4 DEF Scanned
    <3>3. Level(at) = 0  BY <1>1, <1>2, <3>1, <3>2, ReadingGoesOn
    <3>4. j \in Nat /\ j <= at /\ Follows(0, j)
      <4>1. j \in 1..(at - 1) /\ Follows(0, j)  BY <1>3 DEF Scanned
      <4>2. QED  BY <1>2, <4>1
    <3>5. ASSUME NEW k \in Nat, at <= k  PROVE ~\E i \in Places : IsRoot(i, k)
      <4>1. ~(Level(at) > 0)  BY <3>3
      <4>2. QED  BY <1>2, <3>4, <3>5, <4>1, RootIsClosed
    <3>6. \A o \in at..Len(frame), p \in Places : ~IsKey(o, p)
      <4>1. \A o \in at..Len(frame) : o \in Nat /\ at <= o  BY <1>2
      <4>2. QED  BY <3>5, <4>1 DEF IsKey
    <3>7. ~Unclosed  BY <1>1, <1>2, <3>1, <3>5 DEF Unclosed
    <3>8. QED  BY <1>1, <1>3, <2>2, <3>6, <3>7, NothingFound
  <2>3. NoMethod # Scanning  BY DEF NoMethod, Scanning
  <2>4. QED  BY <2>1, <2>2, <2>3, ConcludeKeeps
<1>5. CASE depth # 1
  <2>1. GoTo(at + 1) /\ depth' = depth - 1  BY <1>5 DEF Close
  <2>2. depth' = depth + Deeper(frame[at]) /\ depth' > 0  BY <1>1, <1>2, <1>5, <2>1
  <2>3. QED  BY <1>1, <2>1, <2>2, ByteKeeps
<1>6. QED  BY <1>4, <1>5

(* A string that is not closed is what the frame ends with.                 *)
LEMMA UnclosedIs ==
  ASSUME ScanInv, scan = Scanning, depth > 0, whole, NEW j, Scanned(j), at <= End,
         frame[at] = Quote, \A k \in at..End : Standing(k) # "outside"
  PROVE  Meaning = Unparsable
<1>1. /\ End = Len(frame) /\ Len(frame) \in Nat /\ at \in Nat /\ at > 1 /\ at <= Len(frame)
      /\ depth \in Nat
  BY InsideIsAt
<1>2. /\ at \in Places /\ Len(frame) \in at..Len(frame) /\ \A k \in at..(Len(frame) - 1) : k \in at..End
  BY <1>1 DEF Places
<1>3. /\ \A k \in (at - 1)..Len(frame) : Level(k) = Level(at - 1)
      /\ \A i \in (at + 1)..Len(frame) : Standing(i - 1) # "outside"
  BY <1>1, <1>2, InString
<1>4. ASSUME NEW o \in at..Len(frame), NEW p \in Places  PROVE ~IsKey(o, p)
  <2> SUFFICES ASSUME IsKey(o, p) PROVE FALSE  OBVIOUS
  <2>1. PICK c \in Places : IsString(o, c)  BY DEF IsKey
  <2>2. CASE o = at
    <3>1. c \in at..End /\ Standing(c) = "outside"  BY <1>1, <2>1, <2>2 DEF Places, IsString
    <3>2. QED  BY <3>1
  <2>3. CASE o # at
    <3>1. o \in (at + 1)..Len(frame) /\ Standing(o - 1) = "outside"  BY <1>1, <2>1, <2>3 DEF IsString
    <3>2. QED  BY <1>3, <3>1
  <2>4. QED  BY <2>2, <2>3
<1>5. IsRoot(j, Len(frame))
  <2>1. /\ j \in 1..(at - 1) /\ frame[j] = "{" /\ Follows(0, j) /\ Level(at - 1) = depth
        /\ \A i \in j..(at - 1) : Level(i) > 0
    BY DEF Scanned
  <2>2. j \in Nat /\ j < at
    <3>1. j \in 1..(at - 1)  BY <2>1
    <3>2. QED  BY <1>1, <3>1
  <2>3. at \in Nat /\ Len(frame) \in Nat /\ at <= Len(frame)  BY <1>1
  <2>4. ASSUME NEW i \in j..Len(frame)  PROVE Level(i) > 0
    <3>1. CASE i < at
      <4>1. i \in j..(at - 1)  BY <2>2, <2>3, <3>1
      <4>2. QED  BY <2>1, <4>1
    <3>2. CASE ~(i < at)
      <4>1. i \in (at - 1)..Len(frame)  BY <2>2, <2>3, <3>2
      <4>2. Level(i) = depth  BY <1>3, <2>1, <4>1
      <4>3. QED  BY <4>2
    <3>3. QED  BY <3>1, <3>2
  <2>5. j <= Len(frame)  BY <2>2, <2>3
  <2>6. QED  BY <2>1, <2>4, <2>5 DEF IsRoot
<1>6. Unclosed
  <2>1. Standing(Len(frame)) # "outside"  BY <1>1, <1>2
  <2>2. j \in Places
    <3>1. j \in 1..(at - 1)  BY DEF Scanned
    <3>2. QED  BY <1>1, <3>1 DEF Places
  <2>3. QED  BY <1>5, <2>1, <2>2 DEF Unclosed
<1>7. QED  BY <1>4, <1>6, NothingFound

(* The first key is the one the scan is at.                                 *)
LEMMA ColonIs ==
  ASSUME ScanInv, scan = Scanning, Inside, NEW j, Scanned(j), frame[at] = Quote,
         NEW closed \in (at + 1)..End, IsString(at, closed), Content(at, closed) = MethodKey,
         NEW colon \in (closed + 1)..End, Follows(closed, colon), frame[colon] = ":", depth = 1
  PROVE  MethodColon = colon /\ (\E o, p \in Places : IsKey(o, p))
<1>1. /\ End \in Nat /\ End <= Len(frame) /\ Len(frame) \in Nat /\ at \in Nat /\ at > 1
      /\ at <= End /\ depth > 0
  BY InsideIsAt DEF Inside
<1>2. closed \in Nat /\ closed > at /\ colon \in Nat /\ closed <= End /\ colon <= End
  BY <1>1
<1>3. at \in Places /\ closed \in Places /\ colon \in Places /\ closed \in at..Len(frame)
  BY <1>1, <1>2 DEF Places
<1>4. /\ j \in 1..(at - 1) /\ frame[j] = "{" /\ Follows(0, j) /\ Level(at - 1) = 1
      /\ \A i \in j..(at - 1) : Level(i) > 0
  BY DEF Scanned
<1>5. Level(at) = 1
  <2>1. \A k \in at..(closed - 1) : Standing(k) # "outside"  BY DEF IsString
  <2>2. \A k \in (at - 1)..closed : Level(k) = Level(at - 1)  BY <1>1, <1>3, <2>1, InString
  <2>3. at \in (at - 1)..closed  BY <1>1, <1>2
  <2>4. QED  BY <1>4, <2>2, <2>3
<1>6. j \in Places /\ IsRoot(j, at)
  <2>1. j \in Nat /\ j < at /\ j >= 1 /\ at \in Nat
    <3>1. j \in 1..(at - 1) /\ at \in Nat  BY <1>1, <1>4
    <3>2. QED  BY <3>1
  <2>2. at <= Len(frame) /\ Len(frame) \in Nat  BY <1>1
  <2>3. ASSUME NEW i \in j..at  PROVE Level(i) > 0
    <3>1. i \in j..(at - 1) \/ i = at  BY <2>1
    <3>2. Level(at) > 0  BY <1>5
    <3>3. QED  BY <1>4, <3>1, <3>2
  <2>4. j \in Places /\ j <= at  BY <2>1, <2>2 DEF Places
  <2>5. QED  BY <1>4, <2>3, <2>4 DEF IsRoot
<1>7. IsKey(at, colon)  BY <1>3, <1>5, <1>6 DEF IsKey
<1>8. \A i \in 1..(at - 1), q \in Places : ~IsKey(i, q)
  <2> SUFFICES ASSUME NEW i \in 1..(at - 1), NEW q \in Places, IsKey(i, q) PROVE FALSE  OBVIOUS
  <2>1. \A k \in at..End : frame[k] = Space  BY DEF Scanned
  <2>2. frame[at] = Space  BY <1>1, <2>1
  <2>3. QED  BY <2>2 DEF Space, Quote
<1>9. FirstColon(colon)  BY <1>3, <1>7, <1>8 DEF FirstColon
<1>10. ASSUME NEW p \in Places, FirstColon(p)  PROVE p = colon
  <2>1. PICK o \in Places : IsKey(o, p) /\ \A i \in 1..(o - 1) : \A q \in Places : ~IsKey(i, q)
    BY <1>10 DEF FirstColon
  <2>2. o = at
    <3>1. o \in Nat /\ o >= 1  BY DEF Places
    <3>2. ~(o < at)
      <4> SUFFICES ASSUME o < at PROVE FALSE  OBVIOUS
      <4>1. o \in 1..(at - 1)  BY <1>1, <3>1
      <4>2. QED  BY <1>8, <2>1, <4>1
    <3>3. ~(at < o)
      <4> SUFFICES ASSUME at < o PROVE FALSE  OBVIOUS
      <4>1. at \in 1..(o - 1)  BY <1>1, <3>1
      <4>2. QED  BY <1>3, <1>7, <2>1, <4>1
    <3>4. QED  BY <1>1, <3>1, <3>2, <3>3
  <2>3. PICK c \in Places : IsString(at, c) /\ Follows(c, p)  BY <2>1, <2>2 DEF IsKey
  <2>4. c \in Nat /\ p \in Nat  BY DEF Places
  <2>5. c = closed  BY <1>1, <1>2, <2>3, <2>4, StringEndsOnce
  <2>6. QED  BY <1>2, <2>3, <2>4, <2>5, FollowsOnce
<1>11. MethodColon = colon  BY <1>3, <1>9, <1>10 DEF MethodColon
<1>12. QED  BY <1>3, <1>7, <1>11

(* What is read of the value is what the frame has there.                   *)
LEMMA ValueKeeps ==
  ASSUME ScanInv, scan = Scanning, frame' = frame, window' = window,
         NEW colon \in 1..End, frame[colon] = ":", Standing(colon - 1) = "outside",
         MethodColon = colon, \E o, p \in Places : IsKey(o, p), MethodValue(colon)
  PROVE  ScanInv'
<1>1. PICK v : v = SkipSpace(colon + 1)  OBVIOUS
<1>2. PICK c : c = ClosingQuote(v)  OBVIOUS
<1>3. /\ End \in Nat /\ End <= Len(frame) /\ Len(frame) \in Nat /\ (whole => End = Len(frame))
      /\ colon \in Nat /\ colon >= 1 /\ colon <= End
  BY WindowEnds DEF ScanInv, Window
<1>4. /\ v \in (colon + 1)..(End + 1) /\ (v <= End => frame[v] # Space)
      /\ \A k \in (colon + 1)..(v - 1) : frame[k] = Space
  <2>1. colon + 1 \in 1..(End + 1)  BY <1>3
  <2>2. QED  BY <1>1, <2>1, SpacesAreSkipped DEF ScanInv
<1>5. v \in Nat /\ v > colon /\ v <= End + 1  BY <1>3, <1>4
<1>6. ~(v > End) <=> v <= End  BY <1>3, <1>5
<1>7. Unparsable # Scanning /\ Unparsable # NoMethod  BY DEF Unparsable, Scanning, NoMethod
<1>8. Values(colon) = {} => Meaning = Unparsable  BY DEF Meaning
<1>9. ASSUME NEW q \in Values(colon)
      PROVE  /\ q[1] \in Nat /\ q[2] \in Nat /\ q[2] \in Places /\ q[1] <= Len(frame)
             /\ Follows(colon, q[1]) /\ IsString(q[1], q[2])
             /\ ~Escaped(Content(q[1], q[2])) /\ q = <<q[1], q[2]>>
  BY <1>3 DEF Values, Places
<1>10. CASE v > End
  <2>1. RunsOut(Unparsable)  BY <1>1, <1>10 DEF MethodValue
  <2>2. ASSUME whole  PROVE Meaning = Unparsable
    <3> SUFFICES ASSUME NEW q \in Values(colon) PROVE FALSE  BY <1>8
    <3>1. q[1] \in Nat /\ q[1] <= Len(frame) /\ Follows(colon, q[1])  BY <1>9
    <3>2. q[1] > colon /\ frame[q[1]] # Space  BY <3>1 DEF Follows
    <3>3. q[1] \in (colon + 1)..(v - 1)  BY <1>3, <1>5, <1>10, <2>2, <3>1, <3>2
    <3>4. QED  BY <1>4, <3>2, <3>3
  <2>3. QED  BY <1>7, <2>1, <2>2, RunsOutKeeps
<1>11. ASSUME v <= End  PROVE Follows(colon, v)
  <2>1. colon < v /\ frame[v] # Space  BY <1>4, <1>5, <1>11
  <2>2. QED  BY <1>4, <2>1 DEF Follows
<1>12. ASSUME v <= End, NEW q \in Values(colon)  PROVE q[1] = v
  <2>1. Follows(colon, v)  BY <1>11, <1>12
  <2>2. Follows(colon, q[1]) /\ q[1] \in Nat  BY <1>9, <1>12
  <2>3. QED  BY <1>3, <1>5, <2>1, <2>2, FollowsOnce
<1>13. CASE v <= End /\ frame[v] # Quote
  <2>1. Conclude(Unparsable)  BY <1>1, <1>6, <1>13 DEF MethodValue
  <2>2. Values(colon) = {}
    <3> SUFFICES ASSUME NEW q \in Values(colon) PROVE FALSE  OBVIOUS
    <3>1. q[1] = v /\ IsString(q[1], q[2])  BY <1>9, <1>12, <1>13
    <3>2. QED  BY <1>13, <3>1 DEF IsString
  <2>3. QED  BY <1>7, <1>8, <2>1, <2>2, ConcludeKeeps
<1>14. CASE v <= End /\ frame[v] = Quote
  <2>1. Standing(v - 1) = "outside"
    <3>1. PICK a : a = colon - 1  OBVIOUS
    <3>2. PICK b : b = v - 1  OBVIOUS
    <3>3. a \in 0..Len(frame) /\ b \in a..Len(frame) /\ b \in a..b  BY <1>3, <1>5, <3>1, <3>2
    <3>4. ASSUME NEW k \in (a + 1)..b  PROVE frame[k] # Quote
      <4>1. k = colon \/ k \in (colon + 1)..(v - 1)  BY <1>3, <1>5, <3>1, <3>2
      <4>2. frame[k] = ":" \/ frame[k] = Space  BY <1>4, <4>1
      <4>3. QED  BY <4>2 DEF Quote, Space
    <3>5. \A k \in a..b : Standing(k) = "outside"  BY <1>3, <3>1, <3>3, <3>4, OutsideStays
    <3>6. QED  BY <3>2, <3>3, <3>5
  <2>2. v \in 1..End  BY <1>3, <1>5, <1>14
  <2>3. IF c = 0 THEN \A k \in v..End : Standing(k) # "outside"
        ELSE c \in (v + 1)..End /\ IsString(v, c)
    BY <1>2, <1>14, <2>1, <2>2, StringIsFound DEF ScanInv
  <2>4. CASE c = 0
    <3>1. RunsOut(Unparsable)  BY <1>1, <1>2, <1>6, <1>14, <2>4 DEF MethodValue
    <3>2. ASSUME whole  PROVE Meaning = Unparsable
      <4> SUFFICES ASSUME NEW q \in Values(colon) PROVE FALSE  BY <1>8
      <4>1. IsString(v, q[2]) /\ q[2] \in Nat /\ q[2] \in Places  BY <1>9, <1>12, <1>14
      <4>2. v < q[2] /\ Standing(q[2]) = "outside"  BY <4>1 DEF IsString
      <4>3. q[2] \in v..End  BY <1>3, <1>5, <3>2, <4>1, <4>2 DEF Places
      <4>4. QED  BY <2>3, <2>4, <4>2, <4>3
    <3>3. QED  BY <1>7, <3>1, <3>2, RunsOutKeeps
  <2>5. CASE c # 0
    <3>1. c \in (v + 1)..End /\ IsString(v, c)  BY <2>3, <2>5
    <3>2. c \in Nat /\ c <= End /\ c >= 1  BY <1>3, <1>5, <3>1
    <3>3. ASSUME NEW q \in Values(colon)  PROVE q = <<v, c>>
      <4>1. q[1] = v  BY <1>12, <1>14
      <4>2. IsString(v, q[2]) /\ q[2] \in Nat /\ q = <<q[1], q[2]>>  BY <1>9, <4>1
      <4>3. q[2] = c  BY <1>5, <3>1, <3>2, <4>2, StringEndsOnce
      <4>4. QED  BY <4>1, <4>2, <4>3
    <3>4. CASE Escaped(Content(v, c))
      <4>1. Conclude(Unparsable)  BY <1>1, <1>2, <1>6, <1>14, <2>5, <3>4 DEF MethodValue
      <4>2. Values(colon) = {}
        <5> SUFFICES ASSUME NEW q \in Values(colon) PROVE FALSE  OBVIOUS
        <5>1. ~Escaped(Content(q[1], q[2])) /\ q[1] = v /\ q[2] = c  BY <1>9, <3>3
        <5>2. QED  BY <3>4, <5>1
      <4>3. QED  BY <1>7, <1>8, <4>1, <4>2, ConcludeKeeps
    <3>5. CASE ~Escaped(Content(v, c))
      <4>1. Conclude(Found(Content(v, c)))
        BY <1>1, <1>2, <1>6, <1>14, <2>5, <3>5 DEF MethodValue
      <4>2. <<v, c>> \in Values(colon)
        <5>1. v \in Places /\ c \in Places  BY <1>3, <1>5, <1>14, <3>2 DEF Places
        <5>2. Follows(colon, v)  BY <1>11, <1>14
        <5>3. QED  BY <3>1, <3>5, <5>1, <5>2 DEF Values
      <4>3. MethodText = Content(v, c)
        <5>1. PICK q : q = CHOOSE u \in Values(colon) : TRUE  OBVIOUS
        <5>2. q = <<v, c>>  BY <3>3, <4>2, <5>1
        <5>3. MethodText = Content(q[1], q[2])  BY <5>1 DEF MethodText
        <5>4. QED  BY <5>2, <5>3
      <4>4. Meaning = Found(Content(v, c))  BY <4>2, <4>3 DEF Meaning
      <4>5. Found(Content(v, c)) # Scanning  BY DEF Found, Scanning
      <4>6. QED  BY <4>1, <4>4, <4>5, ConcludeKeeps
    <3>6. QED  BY <3>4, <3>5
  <2>6. QED  BY <2>4, <2>5
<1>15. QED  BY <1>6, <1>10, <1>13, <1>14

(* A string that is not the key is passed over, whatever is in it.          *)
LEMMA StringKeeps ==
  ASSUME ScanInv, scan = Scanning, String, frame' = frame, window' = window
  PROVE  ScanInv'
<1>1. PICK closed : closed = ClosingQuote(at)  OBVIOUS
<1>2. PICK colon : colon = SkipSpace(closed + 1)  OBVIOUS
<1>3. /\ Inside /\ frame[at] = Quote /\ depth > 0 /\ at <= End
      /\ closed = 0 => RunsOut(Unparsable)
      /\ closed # 0 /\ IsMethodKey(closed, colon) => MethodValue(colon)
      /\ closed # 0 /\ ~IsMethodKey(closed, colon) => GoTo(closed + 1) /\ depth' = depth
  BY <1>1, <1>2, Zenon DEF String, Inside
<1>4. /\ End \in Nat /\ End <= Len(frame) /\ Len(frame) \in Nat /\ (whole => End = Len(frame))
      /\ at \in Nat /\ at > 1 /\ depth \in Nat
  BY <1>3, InsideIsAt
<1>5. PICK j : Scanned(j)  BY <1>3, InsideIsAt
<1>6. /\ j \in 1..(at - 1) /\ Level(at - 1) = depth /\ Standing(at - 1) = "outside"
  BY <1>5 DEF Scanned
<1>7. IF closed = 0 THEN \A k \in at..End : Standing(k) # "outside"
      ELSE closed \in (at + 1)..End /\ IsString(at, closed)
  <2>1. at \in 1..End  BY <1>3, <1>4
  <2>2. QED  BY <1>1, <1>3, <1>6, <2>1, StringIsFound DEF ScanInv
<1>8. CASE closed = 0
  <2>1. whole => Meaning = Unparsable  BY <1>3, <1>5, <1>7, <1>8, UnclosedIs
  <2>2. Unparsable # Scanning  BY DEF Unparsable, Scanning
  <2>3. QED  BY <1>3, <1>8, <2>1, <2>2, RunsOutKeeps
<1>9. CASE closed # 0
  <2>1. closed \in (at + 1)..End /\ IsString(at, closed)  BY <1>7, <1>9
  <2>2. closed \in Nat /\ closed > at /\ closed <= End  BY <1>4, <2>1
  <2>3. /\ colon \in (closed + 1)..(End + 1) /\ (colon <= End => frame[colon] # Space)
        /\ \A k \in (closed + 1)..(colon - 1) : frame[k] = Space
    <3>1. closed + 1 \in 1..(End + 1)  BY <1>4, <2>2
    <3>2. QED  BY <1>2, <3>1, SpacesAreSkipped DEF ScanInv
  <2>4. colon \in Nat /\ colon > closed /\ colon <= End + 1  BY <1>4, <2>2, <2>3
  <2>5. ASSUME colon <= End  PROVE Follows(closed, colon)
    <3>1. closed < colon /\ frame[colon] # Space  BY <2>3, <2>4, <2>5
    <3>2. QED  BY <2>3, <3>1 DEF Follows
  <2>6. Standing(closed) = "outside" /\ \A k \in at..(closed - 1) : Standing(k) # "outside"
    BY <2>1 DEF IsString
  <2>7. at \in Places /\ closed \in at..Len(frame)  BY <1>3, <1>4, <2>2 DEF Places
  <2>8. /\ \A k \in (at - 1)..closed : Level(k) = depth
        /\ \A i \in (at + 1)..closed : Standing(i - 1) # "outside"
    BY <1>3, <1>4, <1>6, <2>6, <2>7, InString
  <2>9. CASE IsMethodKey(closed, colon)
    <3>1. /\ colon <= End /\ frame[colon] = ":" /\ depth = 1 /\ Content(at, closed) = MethodKey
          /\ MethodValue(colon)
      BY <1>3, <1>9, <2>9 DEF IsMethodKey
    <3>2. colon \in (closed + 1)..End /\ colon \in 1..End  BY <1>4, <2>2, <2>4, <3>1
    <3>3. Follows(closed, colon)  BY <2>5, <3>1
    <3>4. MethodColon = colon /\ \E o, p \in Places : IsKey(o, p)
      BY <1>3, <1>5, <2>1, <3>1, <3>2, <3>3, ColonIs
    <3>5. Standing(colon - 1) = "outside"
      <4>1. PICK b : b = colon - 1  OBVIOUS
      <4>2. closed \in 0..Len(frame) /\ b \in closed..Len(frame) /\ b \in closed..b
        BY <1>4, <2>2, <2>4, <3>1, <4>1
      <4>3. \A k \in (closed + 1)..b : frame[k] # Quote  BY <2>3, <4>1 DEF Space, Quote
      <4>4. \A k \in closed..b : Standing(k) = "outside"
        BY <1>4, <2>6, <4>2, <4>3, OutsideStays
      <4>5. QED  BY <4>1, <4>2, <4>4
    <3>6. QED  BY <3>1, <3>2, <3>4, <3>5, ValueKeeps
  <2>10. CASE ~IsMethodKey(closed, colon)
    <3>1. at' = closed + 1 /\ whole' = whole /\ scan' = scan /\ depth' = depth
      BY <1>3, <1>9, <2>10 DEF GoTo
    <3>2. closed \in at..End  BY <1>4, <2>2
    <3>3. depth' = Level(closed)
      <4>1. closed \in (at - 1)..closed  BY <1>4, <2>2
      <4>2. QED  BY <2>8, <3>1, <4>1
    <3>4. \A i \in at..closed : Level(i) > 0
      <4>1. \A i \in at..closed : i \in (at - 1)..closed  BY <1>4
      <4>2. QED  BY <1>3, <2>8, <4>1
    <3>5. ASSUME NEW o \in at..closed, NEW p \in Places, IsKey(o, p)
          PROVE  p > End /\ \A k \in (closed + 1)..End : frame[k] = Space
      <4>1. /\ Standing(o - 1) = "outside" /\ frame[p] = ":" /\ Level(o) = 1
            /\ \E c \in Places : IsString(o, c) /\ Content(o, c) = MethodKey /\ Follows(c, p)
        BY <3>5 DEF IsKey, IsString
      <4>2. o = at
        <5> SUFFICES ASSUME o # at PROVE FALSE  OBVIOUS
        <5>1. o \in (at + 1)..closed  BY <1>4
        <5>2. QED  BY <2>8, <4>1, <5>1
      <4>3. PICK c \in Places : IsString(at, c) /\ Content(at, c) = MethodKey /\ Follows(c, p)
        BY <4>1, <4>2
      <4>4. c \in Nat /\ p \in Nat  BY DEF Places
      <4>5. c = closed  BY <1>4, <2>1, <2>2, <4>3, <4>4, StringEndsOnce
      <4>6. depth = 1
        <5>1. at \in (at - 1)..closed  BY <1>4, <2>2
        <5>2. QED  BY <2>8, <4>1, <4>2, <5>1
      <4>7. ~(colon <= End)
        <5> SUFFICES ASSUME colon <= End PROVE FALSE  OBVIOUS
        <5>1. p = colon  BY <2>2, <2>4, <2>5, <4>3, <4>4, <4>5, FollowsOnce
        <5>2. QED  BY <2>10, <4>1, <4>3, <4>5, <4>6, <5>1 DEF IsMethodKey
      <4>8. colon = End + 1  BY <1>4, <2>4, <4>7
      <4>9. \A k \in (closed + 1)..End : frame[k] = Space
        <5>1. \A k \in (closed + 1)..End : k \in (closed + 1)..(colon - 1)  BY <1>4, <2>2, <4>8
        <5>2. QED  BY <2>3, <5>1
      <4>10. p > End
        <5> SUFFICES ASSUME p <= End PROVE FALSE  BY <1>4, <4>4
        <5>1. p > closed /\ frame[p] # Space  BY <4>3, <4>5 DEF Follows
        <5>2. p \in (closed + 1)..End  BY <1>4, <2>2, <4>4, <5>1
        <5>3. QED  BY <4>9, <5>1, <5>2
      <4>11. QED  BY <4>9, <4>10
    <3>6. QED  BY <1>5, <2>6, <3>1, <3>2, <3>3, <3>4, <3>5, GoesOn
  <2>11. QED  BY <2>9, <2>10
<1>10. QED  BY <1>8, <1>9

LEMMA StepScan == ScanInv /\ [ScannerNext]_scannerVars => ScanInv'
<1> SUFFICES ASSUME ScanInv, [ScannerNext]_scannerVars PROVE ScanInv'  OBVIOUS
<1>1. CASE ScannerNext
  <2>1. scan = Scanning /\ frame' = frame /\ window' = window  BY <1>1 DEF ScannerNext
  <2>2. CASE EnterRoot  BY <2>1, <2>2, EnterRootKeeps
  <2>3. CASE Open  BY <2>1, <2>3, OpenKeeps
  <2>4. CASE Close  BY <2>1, <2>4, CloseKeeps
  <2>5. CASE String  BY <2>1, <2>5, StringKeeps
  <2>6. CASE OtherByte  BY <2>1, <2>6, OtherByteKeeps
  <2>7. CASE Exhausted  BY <2>1, <2>7, ExhaustedKeeps
  <2>8. QED  BY <1>1, <2>2, <2>3, <2>4, <2>5, <2>6, <2>7 DEF ScannerNext
<1>2. CASE UNCHANGED scannerVars
  <2>1. /\ frame' = frame /\ window' = window /\ whole' = whole /\ at' = at /\ depth' = depth
        /\ scan' = scan
    BY <1>2 DEF scannerVars
  <2>2. Window' /\ End' = End /\ Places' = Places  BY <2>1 DEF ScanInv, Window, End, Places
  <2>3. \A j : Scanned(j)' = Scanned(j)
    BY <2>1, <2>2, SaysTheSame DEF Scanned, Level, Standing
  <2>4. Scan' = Scan  BY <2>1, <2>2, <2>3 DEF Scan, Scanning
  <2>5. MethodIsOfTheFrame'  BY <2>1, SaysTheSame DEF ScanInv, MethodIsOfTheFrame, Scanning
  <2>6. QED  BY <2>2, <2>4, <2>5 DEF ScanInv
<1>3. QED  BY <1>1, <1>2

(* The method the scan names is that of the first method key of the root    *)
(* object, in every frame and with every window (mcp.rs:16-26, 94-235).     *)
THEOREM MethodIsFound == ScannerSpec => []MethodIsOfTheFrame
<1>1. ScannerInit => ScanInv  BY InitScan, ScannerAssumption
<1>2. ScanInv => MethodIsOfTheFrame  BY DEF ScanInv
<1>3. QED  BY <1>1, <1>2, StepScan, PTL DEF ScannerSpec

-----------------------------------------------------------------------------
(* What is heard of a response.                                             *)
Bytes == STRING
Split(o, l) == [out |-> o, line |-> l]
Splits == [out : Seq(Seq(Bytes)), line : Seq(Bytes)]

(* What is split has its two parts.                                        *)
LEMMA SplitHas == \A o, l : Split(o, l).out = o /\ Split(o, l).line = l
BY DEF Split

(* And nothing else.                                                       *)
LEMMA SplitIs ==
  /\ \A o, l : Split(o, l).out = o /\ Split(o, l).line = l
  /\ \A o \in Seq(Seq(Bytes)), l \in Seq(Bytes) : Split(o, l) \in Splits
  /\ \A s \in Splits : /\ s = Split(s.out, s.line) /\ s.out \in Seq(Seq(Bytes))
                       /\ s.line \in Seq(Bytes)
BY DEF Split, Splits

(* A line has one payload, or none.                                         *)
LEMMA PayloadIsOf ==
  ASSUME NEW line \in Seq(Bytes)
  PROVE  Payload(line) \in Seq(Seq(Bytes))
<1>1. StripCr(line) \in Seq(Bytes)
  <2>1. CASE line = <<>>  BY <2>1 DEF StripCr
  <2>2. CASE line # <<>>
    <3>1. Len(line) \in Nat /\ Len(line) >= 1  BY <2>2, EmptySeq
    <3>2. \A i \in 1..(Len(line) - 1) : line[i] \in Bytes  BY <3>1
    <3>3. SubSeq(line, 1, Len(line) - 1) \in Seq(Bytes)  BY <3>1, <3>2, SubSeqProperties
    <3>4. QED  BY <3>3 DEF StripCr, Front
  <2>3. QED  BY <2>1, <2>2
<1>2. PICK s : s = StripCr(line)  OBVIOUS
<1>3. ASSUME Len(s) > 1  PROVE <<Tail(s)>> \in Seq(Seq(Bytes))
  <2>1. s # <<>>  BY <1>3
  <2>2. Tail(s) \in Seq(Bytes)  BY <1>1, <1>2, <2>1, HeadTailProperties
  <2> DEFINE t == Tail(s)
  <2> HIDE DEF t
  <2>3. <<t>> \in Seq(Seq(Bytes))  BY <2>2 DEF t
  <2>4. QED  BY <2>3 DEF t
<1>4. <<>> \in Seq(Seq(Bytes))  OBVIOUS
<1>5. Payload(line) = IF Len(s) > 1 /\ line[1] = Data THEN <<Tail(s)>> ELSE <<>>
  BY <1>2 DEF Payload
<1>6. QED  BY <1>3, <1>4, <1>5

(* A newline ends the line; any other byte is added to it.                 *)
LEMMA EventLineIs ==
  ASSUME NEW o, NEW l, NEW byte
  PROVE  EventLine(Split(o, l), byte)
           = IF byte = NL THEN Split(o \o Payload(l), <<>>) ELSE Split(o, Append(l, byte))
<1>1. CASE byte = NL  BY <1>1, SplitIs DEF EventLine, Split
<1>2. CASE byte # NL
  <2>1. EventLine(Split(o, l), byte) = [Split(o, l) EXCEPT !.line = Append(l, byte)]
    BY <1>2, SplitIs, Zenon DEF EventLine
  <2>2. [Split(o, l) EXCEPT !.line = Append(l, byte)] = Split(o, Append(l, byte))
    BY SMT DEF Split
  <2>3. QED  BY <1>2, <2>1, <2>2
<1>3. QED  BY <1>1, <1>2

(* What is split stays lines of bytes.                                     *)
LEMMA EventLineIsOf ==
  ASSUME NEW s \in Splits, NEW byte \in Bytes
  PROVE  EventLine(s, byte) \in Splits
<1>1. PICK o \in Seq(Seq(Bytes)), l \in Seq(Bytes) : s = Split(o, l)  BY SplitIs
<1>2. EventLine(s, byte) = IF byte = NL THEN Split(o \o Payload(l), <<>>) ELSE Split(o, Append(l, byte))
  BY <1>1, EventLineIs
<1>3. Payload(l) \in Seq(Seq(Bytes))  BY PayloadIsOf
<1>4. o \o Payload(l) \in Seq(Seq(Bytes)) /\ <<>> \in Seq(Bytes)  BY <1>3, ConcatProperties
<1>5. Append(l, byte) \in Seq(Bytes)  BY AppendProperties
<1>6. CASE byte = NL
  <2>1. Split(o \o Payload(l), <<>>) \in Splits  BY <1>4, SplitIs
  <2>2. QED  BY <1>2, <1>6, <2>1
<1>7. CASE byte # NL
  <2>1. Split(o, Append(l, byte)) \in Splits  BY <1>5, SplitIs
  <2>2. QED  BY <1>2, <1>7, <2>1
<1>8. QED  BY <1>6, <1>7

Unsplit == Split(<<>>, <<>>)

(* An event is split as it is defined to be, byte by byte.                  *)
LEMMA SplittingIsDefined ==
  ASSUME NEW b, Len(b) \in Nat
  PROVE  Splitting(b) = [n \in 0..Len(b) |->
                           IF n = 0 THEN Unsplit ELSE EventLine(Splitting(b)[n - 1], b[n])]
<1> DEFINE Is(f, m) == f = [n \in 0..m |-> IF n = 0 THEN Unsplit ELSE EventLine(f[n - 1], b[n])]
           S == {m \in Nat : \E f : Is(f, m)}
<1>1. 0 \in S
  <2> DEFINE g == [n \in 0..0 |-> Unsplit]
  <2>1. g = [n \in 0..0 |-> IF n = 0 THEN Unsplit ELSE EventLine(g[n - 1], b[n])]  OBVIOUS
  <2>2. Is(g, 0)  BY <2>1
  <2>3. QED  BY <2>2
<1>2. ASSUME NEW m \in Nat, m \in S  PROVE m + 1 \in S
  <2>1. PICK f : Is(f, m)  BY <1>2
  <2> DEFINE g == [n \in 0..(m + 1) |-> IF n = m + 1 THEN EventLine(f[m], b[m + 1]) ELSE f[n]]
  <2>2. ASSUME NEW n \in 0..(m + 1)
        PROVE  g[n] = IF n = 0 THEN Unsplit ELSE EventLine(g[n - 1], b[n])
    <3>1. CASE n = m + 1
      <4>1. n # 0 /\ m \in 0..(m + 1) /\ m # m + 1 /\ n - 1 = m  BY <3>1
      <4>2. g[n] = EventLine(f[m], b[n])  BY <3>1
      <4>3. g[m] = f[m]  BY <4>1
      <4>4. QED  BY <4>1, <4>2, <4>3
    <3>2. CASE n # m + 1
      <4>1. n \in 0..m /\ g[n] = f[n]  BY <3>2
      <4>2. f[n] = IF n = 0 THEN Unsplit ELSE EventLine(f[n - 1], b[n])  BY <2>1, <4>1
      <4>3. n # 0 => n - 1 \in 0..(m + 1) /\ n - 1 # m + 1  BY <4>1
      <4>4. n # 0 => g[n - 1] = f[n - 1]  BY <4>3
      <4>5. QED  BY <4>1, <4>2, <4>4
    <3>3. QED  BY <3>1, <3>2
  <2>3. g = [n \in 0..(m + 1) |-> g[n]]  OBVIOUS
  <2> HIDE DEF g
  <2>4. Is(g, m + 1)  BY <2>2, <2>3
  <2>5. QED  BY <2>4
<1>3. Nat \subseteq S
  <2> HIDE DEF S
  <2>1. QED  BY <1>1, <1>2, Induction
<1>4. PICK f : Is(f, Len(b))  BY <1>3
<1>5. QED  BY <1>4 DEF Splitting, Unsplit, Split

(* Each byte is split off after those before it.                           *)
LEMMA SplittingGoesOn ==
  ASSUME NEW b, Len(b) \in Nat
  PROVE  /\ Splitting(b)[0] = Unsplit
         /\ \A n \in 1..Len(b) : Splitting(b)[n] = EventLine(Splitting(b)[n - 1], b[n])
<1> DEFINE g == Splitting(b)
<1>1. g = [n \in 0..Len(b) |-> IF n = 0 THEN Unsplit ELSE EventLine(g[n - 1], b[n])]
  BY SplittingIsDefined
<1> HIDE DEF g
<1>2. g[0] = Unsplit  BY <1>1
<1>3. \A n \in 1..Len(b) : n \in 0..Len(b) /\ n # 0  OBVIOUS
<1>4. \A n \in 1..Len(b) : g[n] = EventLine(g[n - 1], b[n])  BY <1>1, <1>3
<1>5. QED  BY <1>2, <1>4 DEF g

(* What is split of an event are lines of bytes.                           *)
LEMMA SplittingIsOf ==
  ASSUME NEW b \in Seq(Bytes), NEW n \in 0..Len(b)
  PROVE  Splitting(b)[n] \in Splits
<1> DEFINE S == {m \in Nat : m <= Len(b) => Splitting(b)[m] \in Splits}
<1>1. Len(b) \in Nat  OBVIOUS
<1>2. 0 \in S
  <2>1. <<>> \in Seq(Seq(Bytes)) /\ <<>> \in Seq(Bytes)  OBVIOUS
  <2>2. Splitting(b)[0] = Split(<<>>, <<>>)  BY <1>1, SplittingGoesOn DEF Unsplit
  <2>3. Split(<<>>, <<>>) \in Splits  BY <2>1, SplitIs
  <2>4. Splitting(b)[0] \in Splits  BY <2>2, <2>3
  <2>5. QED  BY <2>4
<1>3. ASSUME NEW m \in Nat, m \in S  PROVE m + 1 \in S
  <2> SUFFICES ASSUME m + 1 <= Len(b) PROVE Splitting(b)[m + 1] \in Splits  OBVIOUS
  <2>1. m + 1 \in 1..Len(b) /\ (m + 1) - 1 = m /\ m <= Len(b)  BY <1>1
  <2>2. Splitting(b)[m + 1] = EventLine(Splitting(b)[m], b[m + 1])
    BY <1>1, <2>1, SplittingGoesOn
  <2>3. Splitting(b)[m] \in Splits /\ b[m + 1] \in Bytes  BY <1>3, <2>1
  <2>4. QED  BY <2>2, <2>3, EventLineIsOf
<1>4. Nat \subseteq S
  <2> HIDE DEF S
  <2>1. QED  BY <1>2, <1>3, Induction
<1>5. QED  BY <1>4

(* The payloads of an event; of nothing, none.                             *)
LEMMA PayloadsAre ==
  ASSUME NEW b \in Seq(Bytes)
  PROVE  Payloads(b) \in Seq(Seq(Bytes)) /\ (b = <<>> => Payloads(b) = <<>>)
<1>1. Len(b) \in Nat /\ Len(b) \in 0..Len(b)  OBVIOUS
<1>2. Splitting(b)[Len(b)] \in Splits  BY <1>1, SplittingIsOf
<1>3. Payloads(b) \in Seq(Seq(Bytes))  BY <1>2, SplitIs DEF Payloads
<1>4. ASSUME b = <<>>  PROVE Payloads(b) = <<>>
  <2>1. Len(b) = 0  BY <1>4
  <2>2. Splitting(b)[0] = Unsplit  BY <1>1, SplittingGoesOn
  <2>3. QED  BY <2>1, <2>2, SplitIs DEF Payloads, Unsplit
<1>5. QED  BY <1>3, <1>4

(* Bytes that follow change nothing of what came before.                    *)
LEMMA SplittingExtends ==
  ASSUME NEW a \in Seq(Bytes), NEW c \in Seq(Bytes), NEW n \in 0..Len(a)
  PROVE  Splitting(a \o c)[n] = Splitting(a)[n]
<1> DEFINE b == a \o c
           S == {m \in Nat : m <= Len(a) => Splitting(b)[m] = Splitting(a)[m]}
<1>1. /\ Len(a) \in Nat /\ Len(c) \in Nat /\ b \in Seq(Bytes) /\ Len(b) = Len(a) + Len(c)
      /\ \A i \in 1..(Len(a) + Len(c)) : b[i] = IF i <= Len(a) THEN a[i] ELSE c[i - Len(a)]
  BY ConcatProperties
<1> HIDE DEF b
<1>2. Len(b) \in Nat  BY <1>1
<1>3. 0 \in S
  <2>1. Splitting(b)[0] = Unsplit  BY <1>2, SplittingGoesOn
  <2>2. Splitting(a)[0] = Unsplit  BY <1>1, SplittingGoesOn
  <2>3. QED  BY <2>1, <2>2
<1>4. ASSUME NEW m \in Nat, m \in S  PROVE m + 1 \in S
  <2> SUFFICES ASSUME m + 1 <= Len(a) PROVE Splitting(b)[m + 1] = Splitting(a)[m + 1]  OBVIOUS
  <2>1. m + 1 \in 1..Len(b) /\ m + 1 \in 1..Len(a) /\ (m + 1) - 1 = m /\ m <= Len(a)  BY <1>1
  <2>2. b[m + 1] = a[m + 1]
    <3>1. m + 1 \in 1..(Len(a) + Len(c))  BY <1>1, <2>1
    <3>2. QED  BY <1>1, <3>1
  <2>3. Splitting(b)[m + 1] = EventLine(Splitting(b)[m], b[m + 1])
    BY <1>2, <2>1, SplittingGoesOn
  <2>4. Splitting(a)[m + 1] = EventLine(Splitting(a)[m], a[m + 1])
    BY <1>1, <2>1, SplittingGoesOn
  <2>5. Splitting(b)[m] = Splitting(a)[m]  BY <1>4, <2>1
  <2>6. QED  BY <2>2, <2>3, <2>4, <2>5
<1>5. Nat \subseteq S
  <2> HIDE DEF S
  <2>1. QED  BY <1>3, <1>4, Induction
<1>6. Splitting(b)[n] = Splitting(a)[n]  BY <1>1, <1>5
<1>7. QED  BY <1>6 DEF b

(* At the end of a line nothing of it is left.                              *)
LEMMA EndsItsLine ==
  ASSUME NEW a \in Seq(Bytes), a = <<>> \/ a[Len(a)] = NL
  PROVE  Splitting(a)[Len(a)] = Split(Payloads(a), <<>>)
<1>1. Len(a) \in Nat  OBVIOUS
<1>2. CASE a = <<>>
  <2>1. Len(a) = 0 /\ Splitting(a)[0] = Unsplit  BY <1>2, SplittingGoesOn
  <2>2. Payloads(a) = <<>>  BY <1>2, PayloadsAre
  <2>3. QED  BY <2>1, <2>2 DEF Unsplit
<1>3. CASE a # <<>>
  <2>1. Len(a) \in 1..Len(a) /\ Len(a) - 1 \in 0..Len(a)  BY <1>1, <1>3, EmptySeq
  <2>2. PICK s \in Splits : s = Splitting(a)[Len(a) - 1]  BY <2>1, SplittingIsOf
  <2>3. PICK o, l : s = Split(o, l)  BY SplitIs
  <2>4. Splitting(a)[Len(a)] = EventLine(Split(o, l), NL)
    <3>1. Splitting(a)[Len(a)] = EventLine(Splitting(a)[Len(a) - 1], a[Len(a)])
      BY <1>1, <2>1, SplittingGoesOn
    <3>2. QED  BY <1>3, <2>2, <2>3, <3>1
  <2>5. Splitting(a)[Len(a)] = Split(o \o Payload(l), <<>>)  BY <2>4, EventLineIs
  <2>6. Payloads(a) = o \o Payload(l)  BY <2>5, SplitIs DEF Payloads
  <2>7. QED  BY <2>5, <2>6
<1>4. QED  BY <1>2, <1>3

(* Payloads that follow one another, in any grouping.                      *)
LEMMA PayloadsAssociate ==
  \A u, v, w \in Seq(Seq(Bytes)) : (u \o v) \o w = u \o (v \o w)
<1> DEFINE D == Seq(Bytes)
<1> SUFFICES ASSUME NEW u \in Seq(D), NEW v \in Seq(D), NEW w \in Seq(D)
             PROVE  (u \o v) \o w = u \o (v \o w)
  OBVIOUS
<1> HIDE DEF D
<1>1. QED  BY ConcatAssociative

(* What two parts say that are split between lines, is what they say.       *)
LEMMA SplitBetweenLines ==
  ASSUME NEW a \in Seq(Bytes), NEW c \in Seq(Bytes), a = <<>> \/ a[Len(a)] = NL
  PROVE  Payloads(a \o c) = Payloads(a) \o Payloads(c)
<1> DEFINE b == a \o c
           P == Payloads(a)
           S == {m \in Nat : m <= Len(c) =>
                   Splitting(b)[Len(a) + m]
                     = Split(P \o Splitting(c)[m].out, Splitting(c)[m].line)}
<1>1. /\ Len(a) \in Nat /\ Len(c) \in Nat /\ b \in Seq(Bytes) /\ Len(b) = Len(a) + Len(c)
      /\ \A i \in 1..(Len(a) + Len(c)) : b[i] = IF i <= Len(a) THEN a[i] ELSE c[i - Len(a)]
  BY ConcatProperties
<1>2. Splitting(b)[Len(a)] = Split(P, <<>>)
  <2>1. Len(a) \in 0..Len(a)  BY <1>1
  <2>2. QED  BY <2>1, SplittingExtends, EndsItsLine
<1>3. P \in Seq(Seq(Bytes))  BY PayloadsAre
<1> HIDE DEF b, P
<1>4. 0 \in S
  <2>1. Splitting(c)[0] = Split(<<>>, <<>>)  BY <1>1, SplittingGoesOn DEF Unsplit
  <2>2. Splitting(c)[0].out = <<>> /\ Splitting(c)[0].line = <<>>  BY <2>1, SplitIs
  <2>3. P \o <<>> = P /\ Len(a) + 0 = Len(a)  BY <1>1, <1>3, ConcatEmptySeq
  <2>4. Splitting(b)[Len(a) + 0] = Split(P \o Splitting(c)[0].out, Splitting(c)[0].line)
    BY <1>2, <2>2, <2>3
  <2>5. QED  BY <2>4
<1>5. ASSUME NEW m \in Nat, m \in S  PROVE m + 1 \in S
  <2> SUFFICES ASSUME m + 1 <= Len(c)
      PROVE  Splitting(b)[Len(a) + (m + 1)]
               = Split(P \o Splitting(c)[m + 1].out, Splitting(c)[m + 1].line)
    OBVIOUS
  <2>1. PICK n : n = Len(a) + (m + 1)  OBVIOUS
  <2>2. /\ n \in 1..Len(b) /\ n \in 1..(Len(a) + Len(c)) /\ n - 1 = Len(a) + m
        /\ n - Len(a) = m + 1 /\ ~(n <= Len(a)) /\ m + 1 \in 1..Len(c) /\ (m + 1) - 1 = m
        /\ m \in 0..Len(c) /\ m <= Len(c)
    BY <1>1, <2>1
  <2>3. PICK byte : byte = c[m + 1]  OBVIOUS
  <2>4. b[n] = byte  BY <1>1, <2>2, <2>3
  <2>5. Len(b) \in Nat  BY <1>1
  <2>6. Splitting(b)[n] = EventLine(Splitting(b)[Len(a) + m], byte)
    <3>1. Splitting(b)[n] = EventLine(Splitting(b)[n - 1], b[n])  BY <2>2, <2>5, SplittingGoesOn
    <3>2. QED  BY <2>2, <2>4, <3>1
  <2>7. Splitting(c)[m + 1] = EventLine(Splitting(c)[m], byte)
    <3>1. Splitting(c)[m + 1] = EventLine(Splitting(c)[(m + 1) - 1], c[m + 1])
      BY <1>1, <2>2, SplittingGoesOn
    <3>2. QED  BY <2>2, <2>3, <3>1
  <2>8. PICK s \in Splits : s = Splitting(c)[m]  BY <2>2, SplittingIsOf
  <2>9. PICK o \in Seq(Seq(Bytes)), l \in Seq(Bytes) : s = Split(o, l)  BY SplitIs
  <2>10. Splitting(b)[Len(a) + m] = Split(P \o o, l)
    <3>1. Splitting(b)[Len(a) + m] = Split(P \o s.out, s.line)  BY <1>5, <2>2, <2>8
    <3>2. s.out = o /\ s.line = l  BY <2>9, SplitIs
    <3>3. QED  BY <3>1, <3>2
  <2>11. PICK p \in Seq(Seq(Bytes)) : p = Payload(l)  BY PayloadIsOf
  <2>12. Splitting(b)[n] = IF byte = NL THEN Split((P \o o) \o p, <<>>)
                           ELSE Split(P \o o, Append(l, byte))
    BY <2>6, <2>10, <2>11, EventLineIs
  <2>13. Splitting(c)[m + 1] = IF byte = NL THEN Split(o \o p, <<>>) ELSE Split(o, Append(l, byte))
    BY <2>7, <2>8, <2>9, <2>11, EventLineIs
  <2>14. (P \o o) \o p = P \o (o \o p)
    BY <1>3, <2>9, <2>11, PayloadsAssociate
  <2>15. CASE byte = NL
    <3>1. Splitting(c)[m + 1].out = o \o p /\ Splitting(c)[m + 1].line = <<>>
      <4>1. Splitting(c)[m + 1] = Split(o \o p, <<>>)  BY <2>13, <2>15
      <4>2. QED  BY <4>1, SplitHas, Zenon
    <3>2. QED  BY <2>1, <2>12, <2>14, <2>15, <3>1
  <2>16. CASE byte # NL
    <3>1. Splitting(c)[m + 1].out = o /\ Splitting(c)[m + 1].line = Append(l, byte)
      <4>1. Splitting(c)[m + 1] = Split(o, Append(l, byte))  BY <2>13, <2>16
      <4>2. QED  BY <4>1, SplitHas, Zenon
    <3>2. QED  BY <2>1, <2>12, <2>16, <3>1
  <2>17. QED  BY <2>15, <2>16
<1>6. Nat \subseteq S
  <2> HIDE DEF S
  <2>1. QED  BY <1>4, <1>5, Induction
<1>7. Splitting(b)[Len(a) + Len(c)]
        = Split(P \o Splitting(c)[Len(c)].out, Splitting(c)[Len(c)].line)
  <2>1. Len(c) \in S /\ Len(c) <= Len(c)  BY <1>1, <1>6
  <2>2. QED  BY <2>1
<1>8. Splitting(b)[Len(b)].out = P \o Splitting(c)[Len(c)].out
  <2>1. PICK l : l = Splitting(c)[Len(c)].line  OBVIOUS
  <2>2. Splitting(b)[Len(b)] = Split(P \o Splitting(c)[Len(c)].out, l)  BY <1>1, <1>7, <2>1
  <2>3. QED  BY <2>2, SplitIs
<1>9. QED  BY <1>8 DEF b, P, Payloads

-----------------------------------------------------------------------------
(* The bytes of a stretch.                                                  *)
LEMMA StretchIs ==
  ASSUME NEW b \in Seq(Bytes), NEW q \in 0..Len(b), NEW n \in q..Len(b)
  PROVE  /\ SubSeq(b, q + 1, n) \in Seq(Bytes) /\ Len(SubSeq(b, q + 1, n)) = n - q
         /\ \A x \in 1..(n - q) : SubSeq(b, q + 1, n)[x] = b[q + x]
<1>1. Len(b) \in Nat  OBVIOUS
<1>2. PICK i : i = q + 1  OBVIOUS
<1>3. i \in Int /\ n \in Int /\ n - i + 1 = n - q /\ \A x \in i..n : b[x] \in Bytes
  BY <1>1, <1>2
<1>4. /\ SubSeq(b, i, n) \in Seq(Bytes) /\ Len(SubSeq(b, i, n)) = IF i <= n THEN n - i + 1 ELSE 0
      /\ \A x \in 1..(n - i + 1) : SubSeq(b, i, n)[x] = b[i + x - 1]
  BY <1>3, SubSeqProperties
<1>5. ~(i <= n) => n - q = 0  BY <1>1, <1>2
<1>6. \A x \in 1..(n - q) : i + x - 1 = q + x  BY <1>1, <1>2
<1>7. \A x \in 1..(n - q) : SubSeq(b, i, n)[x] = b[q + x]  BY <1>3, <1>4, <1>6
<1>8. QED  BY <1>2, <1>3, <1>4, <1>5, <1>7

(* find_event_end finds the end of a blank line, and fails only when       *)
(* there is none.                                                          *)
LEMMA EventEndIs ==
  ASSUME NEW b \in Seq(Bytes)
  PROVE  IF EventEnd(b) = 0 THEN \A i : ~BlankLineAt(b, i) ELSE BlankLineAt(b, EventEnd(b))
<1>1. Len(b) \in Nat  OBVIOUS
<1> DEFINE Two(i)  == SubSeq(b, i - 1, i) = <<NL, NL>>
           Four(i) == i >= 4 /\ SubSeq(b, i - 3, i) = <<Ret, NL, Ret, NL>>
           ends    == {i \in 2..Len(b) : Two(i) \/ Four(i)}
<1>2. ends \in SUBSET Nat  OBVIOUS
<1>3. EventEnd(b) = IF ends = {} THEN 0 ELSE CHOOSE e \in ends : \A f \in ends : e <= f
  BY DEF EventEnd
<1>4. ASSUME ends # {}  PROVE EventEnd(b) \in ends
  <2> HIDE DEF ends
  <2>1. \E e \in ends : \A f \in ends : e <= f  BY <1>2, <1>4, LeastNumber
  <2>2. QED  BY <1>3, <1>4, <2>1
<1>5. ASSUME NEW i \in 2..Len(b)
      PROVE  Two(i) <=> b[i - 1] = NL /\ b[i] = NL
  <2> DEFINE s == SubSeq(b, i - 1, i)
  <2>1. PICK q : q = i - 2  OBVIOUS
  <2>2. q \in 0..Len(b) /\ i \in q..Len(b) /\ q + 1 = i - 1 /\ q + 2 = i /\ i - q = 2
    BY <1>1, <2>1
  <2>3. s \in Seq(Bytes) /\ Len(s) = 2 /\ \A x \in 1..2 : s[x] = b[q + x]
    <3>1. SubSeq(b, q + 1, i) = s  BY <2>2
    <3> HIDE DEF s
    <3>2. /\ s \in Seq(Bytes) /\ Len(s) = i - q
          /\ \A x \in 1..(i - q) : s[x] = b[q + x]
      BY <2>2, <3>1, StretchIs
    <3>3. QED  BY <2>2, <3>2
  <2> HIDE DEF s
  <2>4. s[1] = b[i - 1] /\ s[2] = b[i]  BY <2>2, <2>3
  <2>5. s = <<NL, NL>> <=> s[1] = NL /\ s[2] = NL  BY <2>3
  <2>6. QED  BY <2>4, <2>5 DEF s
<1>6. ASSUME NEW i \in 4..Len(b)
      PROVE  Four(i) <=> b[i - 3] = Ret /\ b[i - 2] = NL /\ b[i - 1] = Ret /\ b[i] = NL
  <2> DEFINE s == SubSeq(b, i - 3, i)
  <2>1. PICK q : q = i - 4  OBVIOUS
  <2>2. /\ q \in 0..Len(b) /\ i \in q..Len(b) /\ q + 1 = i - 3 /\ q + 2 = i - 2 /\ q + 3 = i - 1
        /\ q + 4 = i /\ i - q = 4 /\ i >= 4
    BY <1>1, <2>1
  <2>3. s \in Seq(Bytes) /\ Len(s) = 4 /\ \A x \in 1..4 : s[x] = b[q + x]
    <3>1. SubSeq(b, q + 1, i) = s  BY <2>2
    <3> HIDE DEF s
    <3>2. /\ s \in Seq(Bytes) /\ Len(s) = i - q
          /\ \A x \in 1..(i - q) : s[x] = b[q + x]
      BY <2>2, <3>1, StretchIs
    <3>3. QED  BY <2>2, <3>2
  <2> HIDE DEF s
  <2>4. s[1] = b[i - 3] /\ s[2] = b[i - 2] /\ s[3] = b[i - 1] /\ s[4] = b[i]  BY <2>2, <2>3
  <2>5. s = <<Ret, NL, Ret, NL>> <=> s[1] = Ret /\ s[2] = NL /\ s[3] = Ret /\ s[4] = NL
    BY <2>3
  <2>6. QED  BY <2>2, <2>4, <2>5 DEF s
<1>7. ASSUME NEW i  PROVE i \in ends <=> BlankLineAt(b, i)
  <2>1. i \in 4..Len(b) <=> i \in 2..Len(b) /\ i >= 4  BY <1>1
  <2>2. Four(i) => i >= 4  OBVIOUS
  <2> HIDE DEF Two, Four
  <2>3. i \in ends <=> i \in 2..Len(b) /\ (Two(i) \/ Four(i))  OBVIOUS
  <2>4. QED  BY <1>5, <1>6, <2>1, <2>2, <2>3 DEF BlankLineAt
<1>8. CASE ends = {}
  <2> HIDE DEF ends
  <2>1. QED  BY <1>3, <1>7, <1>8
<1>9. CASE ends # {}
  <2>1. PICK i : i = EventEnd(b)  OBVIOUS
  <2>2. i \in ends /\ i # 0  BY <1>4, <1>9, <2>1
  <2> HIDE DEF ends
  <2>3. QED  BY <1>7, <2>1, <2>2
<1>10. QED  BY <1>8, <1>9

(* What is left of b after n bytes, and what is taken from there on.        *)
Rest(b, n)     == SubSeq(b, n + 1, Len(b))
Taken(o, r)    == [out |-> o, rest |-> r]
TakeEvent(b, f, n) ==
  LET end == EventEnd(Rest(b, n))
  IN IF end = 0 THEN Taken(<<>>, Rest(b, n))
     ELSE Taken(Payloads(SubSeq(Rest(b, n), 1, end)) \o f[n + end].out, f[n + end].rest)

(* What is taken, and what is left.                                        *)
LEMMA TakenIs == \A o, r : Taken(o, r).out = o /\ Taken(o, r).rest = r
BY DEF Taken

(* What is left after n bytes.                                             *)
LEMMA RestIs ==
  ASSUME NEW b \in Seq(Bytes), NEW n \in 0..Len(b)
  PROVE  /\ Rest(b, n) \in Seq(Bytes) /\ Len(Rest(b, n)) = Len(b) - n
         /\ \A i \in 1..(Len(b) - n) : Rest(b, n)[i] = b[n + i]
BY StretchIs, Len(b) \in Nat, Len(b) \in n..Len(b) DEF Rest

(* A blank line of a stretch is one of the whole.                           *)
LEMMA BlankLineOfStretch ==
  ASSUME NEW w, NEW v, NEW q \in Nat, NEW m \in Nat, Len(v) = m, q + m <= Len(w), Len(w) \in Nat,
         \A i \in 1..m : v[i] = w[q + i], NEW j, BlankLineAt(v, j)
  PROVE  BlankLineAt(w, q + j) /\ j \in 1..m
<1>1. CASE j \in 2..Len(v) /\ v[j - 1] = NL /\ v[j] = NL
  <2>1. /\ j - 1 \in 1..m /\ j \in 1..m /\ q + (j - 1) = (q + j) - 1 /\ q + j \in 2..Len(w)
    <3>1. PICK l : l = Len(w)  OBVIOUS
    <3>2. l \in Nat /\ q + m <= l /\ j \in 2..m  BY <1>1, <3>1
    <3>3. j - 1 \in 1..m /\ j \in 1..m /\ q + (j - 1) = (q + j) - 1  BY <3>2
    <3>4. q + j \in 2..l  BY <3>2
    <3>5. QED  BY <3>1, <3>3, <3>4
  <2>2. v[j - 1] = w[q + (j - 1)] /\ v[j] = w[q + j]  BY <2>1
  <2>3. w[(q + j) - 1] = NL /\ w[q + j] = NL  BY <1>1, <2>1, <2>2
  <2>4. QED  BY <2>1, <2>3 DEF BlankLineAt
<1>2. CASE j \in 4..Len(v) /\ v[j - 3] = Ret /\ v[j - 2] = NL /\ v[j - 1] = Ret /\ v[j] = NL
  <2>1. /\ j - 1 \in 1..m /\ j - 2 \in 1..m /\ j - 3 \in 1..m /\ j \in 1..m
        /\ q + (j - 1) = (q + j) - 1 /\ q + (j - 2) = (q + j) - 2 /\ q + (j - 3) = (q + j) - 3
        /\ q + j \in 4..Len(w)
    <3>1. PICK l : l = Len(w)  OBVIOUS
    <3>2. l \in Nat /\ q + m <= l /\ j \in 4..m  BY <1>2, <3>1
    <3>3. j - 1 \in 1..m /\ j - 2 \in 1..m /\ j - 3 \in 1..m /\ j \in 1..m  BY <3>2
    <3>4. /\ q + (j - 1) = (q + j) - 1 /\ q + (j - 2) = (q + j) - 2
          /\ q + (j - 3) = (q + j) - 3
      BY <3>2
    <3>5. q + j \in 4..l  BY <3>2
    <3>6. QED  BY <3>1, <3>3, <3>4, <3>5
  <2>2. /\ v[j - 1] = w[q + (j - 1)] /\ v[j - 2] = w[q + (j - 2)]
        /\ v[j - 3] = w[q + (j - 3)] /\ v[j] = w[q + j]
    BY <2>1
  <2>3. w[(q + j) - 3] = Ret /\ w[(q + j) - 2] = NL /\ w[(q + j) - 1] = Ret /\ w[q + j] = NL
    BY <1>2, <2>1, <2>2
  <2>4. QED  BY <2>1, <2>3 DEF BlankLineAt
<1>3. QED  BY <1>1, <1>2 DEF BlankLineAt

(* Where an event of the rest ends, a blank line ends.                      *)
LEMMA RestEndsAt ==
  ASSUME NEW b \in Seq(Bytes), NEW n \in 0..Len(b), EventEnd(Rest(b, n)) # 0
  PROVE  /\ EventEnd(Rest(b, n)) \in 1..(Len(b) - n)
         /\ BlankLineAt(b, n + EventEnd(Rest(b, n)))
<1>1. PICK r : r = Rest(b, n)  OBVIOUS
<1>2. PICK e : e = EventEnd(r)  OBVIOUS
<1>3. r \in Seq(Bytes) /\ Len(r) = Len(b) - n /\ \A i \in 1..(Len(b) - n) : r[i] = b[n + i]
  BY <1>1, RestIs
<1>4. e # 0 /\ BlankLineAt(r, e)  BY <1>1, <1>2, <1>3, EventEndIs
<1>5. Len(b) \in Nat  OBVIOUS
<1>6. e \in 1..(Len(b) - n)  BY <1>3, <1>4, <1>5 DEF BlankLineAt
<1>7. BlankLineAt(b, n + e)
  <2>1. n \in Nat /\ Len(b) - n \in Nat /\ n + (Len(b) - n) <= Len(b)  BY <1>5
  <2>2. QED  BY <1>3, <1>4, <1>5, <2>1, BlankLineOfStretch
<1>8. QED  BY <1>1, <1>2, <1>6, <1>7

(* The events are what they are defined to be, from the last to the first. *)
LEMMA EventsAreDefined ==
  ASSUME NEW b \in Seq(Bytes)
  PROVE  \E f : f = [n \in 0..Len(b) |-> TakeEvent(b, f, n)] /\ Events(b) = f[0]
<1> DEFINE L == Len(b)
           Is(f, m) == f = [n \in (L - m)..L |-> TakeEvent(b, f, n)]
           S == {m \in Nat : m <= L => \E f : Is(f, m)}
<1>1. L \in Nat  OBVIOUS
<1>2. 0 \in S
  <2> DEFINE g == [n \in L..L |-> Taken(<<>>, Rest(b, n))]
  <2>1. \A n \in L..L : EventEnd(Rest(b, n)) = 0
    <3>1. \A n \in L..L : n \in 0..Len(b) /\ n = L /\ 1..(Len(b) - n) = {}  BY <1>1
    <3>2. QED  BY <3>1, RestEndsAt
  <2>2. \A n \in L..L : g[n] = TakeEvent(b, g, n)  BY <2>1 DEF TakeEvent
  <2>3. g = [n \in L..L |-> g[n]]  OBVIOUS
  <2>4. L - 0 = L  BY <1>1
  <2> HIDE DEF g, L
  <2>5. Is(g, 0)  BY <2>2, <2>3, <2>4
  <2>6. QED  BY <2>5
<1>3. ASSUME NEW m \in Nat, m \in S  PROVE m + 1 \in S
  <2> SUFFICES ASSUME m + 1 <= L PROVE \E f : Is(f, m + 1)  OBVIOUS
  <2>1. PICK f : Is(f, m)  BY <1>1, <1>3
  <2>2. PICK l : l = L - (m + 1)  OBVIOUS
  <2>3. l \in Nat /\ l + 1 = L - m /\ l < L  BY <1>1, <2>2
  <2> DEFINE g == [n \in l..L |-> IF n = l THEN TakeEvent(b, f, l) ELSE f[n]]
  <2>4. ASSUME NEW n \in l..L  PROVE g[n] = TakeEvent(b, g, n)
    <3>1. \A i \in l..L : i # l => g[i] = f[i]  OBVIOUS
    <3>2. PICK e : e = EventEnd(Rest(b, n))  OBVIOUS
    <3>3. n \in 0..Len(b) /\ n \in Nat /\ n >= l  BY <1>1, <2>3
    <3>4. e # 0 => n + e \in l..L /\ n + e # l
      <4>1. e # 0 => e \in 1..(L - n)  BY <3>2, <3>3, RestEndsAt
      <4>2. QED  BY <1>1, <2>3, <3>3, <4>1
    <3>5. e # 0 => g[n + e] = f[n + e]  BY <3>1, <3>4
    <3>6. TakeEvent(b, g, n) = TakeEvent(b, f, n)
      <4> HIDE DEF g
      <4>1. QED  BY <3>2, <3>5 DEF TakeEvent
    <3>7. g[n] = TakeEvent(b, f, n)
      <4>1. CASE n = l  BY <4>1
      <4>2. CASE n # l
        <5>1. n \in (L - m)..L  BY <2>3, <4>2, <1>1
        <5>2. f[n] = TakeEvent(b, f, n)
          <6> HIDE DEF L
          <6>1. QED  BY <2>1, <5>1
        <5>3. QED  BY <3>1, <4>2, <5>2
      <4>3. QED  BY <4>1, <4>2
    <3>8. QED  BY <3>6, <3>7
  <2>5. g = [n \in l..L |-> g[n]]  OBVIOUS
  <2> HIDE DEF g, L
  <2>6. Is(g, m + 1)  BY <2>2, <2>4, <2>5
  <2>7. QED  BY <2>6
<1>4. Nat \subseteq S
  <2> HIDE DEF S
  <2>1. QED  BY <1>2, <1>3, Induction
<1>5. L - L = 0  BY <1>1
<1>6. PICK h : Is(h, L)
  <2> HIDE DEF L, Is
  <2>1. QED  BY <1>1, <1>4
<1>7. h = [n \in 0..L |-> TakeEvent(b, h, n)]
  <2> HIDE DEF L
  <2>1. QED  BY <1>5, <1>6
<1>8. Events(b) = (CHOOSE f : f = [n \in 0..Len(b) |-> TakeEvent(b, f, n)])[0]
  BY DEF Events, TakeEvent, Taken, Rest
<1>9. QED  BY <1>7, <1>8

(* Of what is looked at, the complete events are taken and the rest kept.   *)
LEMMA EventsAre ==
  ASSUME NEW b \in Seq(Bytes)
  PROVE  \E j \in 0..Len(b) :
           /\ Events(b) = Taken(Payloads(SubSeq(b, 1, j)), Rest(b, j))
           /\ j = 0 \/ BlankLineAt(b, j)
           /\ EventEnd(Rest(b, j)) = 0
<1> DEFINE L == Len(b)
<1>1. PICK f : f = [n \in 0..L |-> TakeEvent(b, f, n)] /\ Events(b) = f[0]
  BY EventsAreDefined
<1>2. L \in Nat  OBVIOUS
<1> DEFINE Of(n, j) == /\ f[n] = Taken(Payloads(SubSeq(b, n + 1, j)), Rest(b, j))
                       /\ j = n \/ BlankLineAt(b, j)
                       /\ EventEnd(Rest(b, j)) = 0
           S == {m \in Nat : \A n \in 0..L : L - n <= m => \E j \in n..L : Of(n, j)}
<1>3. ASSUME NEW n \in 0..L, EventEnd(Rest(b, n)) = 0  PROVE Of(n, n)
  <2>1. f[n] = Taken(<<>>, Rest(b, n))  BY <1>1, <1>3 DEF TakeEvent
  <2>2. SubSeq(b, n + 1, n) = <<>>
    <3>1. n + 1 \in Int /\ n \in Int /\ n < n + 1  BY <1>2
    <3>2. QED  BY <3>1, SubSeqEmpty
  <2>3. <<>> \in Seq(Bytes)  OBVIOUS
  <2>4. Payloads(SubSeq(b, n + 1, n)) = <<>>  BY <2>2, <2>3, PayloadsAre
  <2>5. QED  BY <1>3, <2>1, <2>4
<1>4. ASSUME NEW n \in 0..L, NEW e, e = EventEnd(Rest(b, n)), e # 0,
             NEW j \in (n + e)..L, Of(n + e, j)
      PROVE  Of(n, j)
  <2>1. e \in 1..(L - n) /\ BlankLineAt(b, n + e)  BY <1>4, RestEndsAt
  <2>2. PICK k : k = n + e  OBVIOUS
  <2>3. n \in Nat /\ k \in Nat /\ j \in Nat /\ e \in Nat /\ n < k /\ k <= j /\ j <= L /\ n + e = k
    BY <1>2, <2>1, <2>2
  <2> DEFINE a == SubSeq(b, n + 1, k)
             c == SubSeq(b, k + 1, j)
  <2>4. SubSeq(Rest(b, n), 1, e) = a
    <3>1. PICK i : i = n + 1  OBVIOUS
    <3>2. /\ i \in 1..Len(b) /\ Len(b) \in 1..Len(b) /\ 1 \in 1..(Len(b) - i + 1)
          /\ e \in 1..(Len(b) - i + 1) /\ i + 1 - 1 = i /\ i + e - 1 = k
      BY <1>2, <2>1, <2>3, <3>1
    <3>3. SubSeq(SubSeq(b, i, Len(b)), 1, e) = SubSeq(b, i + 1 - 1, i + e - 1)
      BY <3>2, SubSeqOfSubSeq
    <3>4. QED  BY <3>1, <3>2, <3>3 DEF Rest
  <2>5. a \in Seq(Bytes) /\ a[Len(a)] = NL
    <3>1. PICK i : i = n + 1  OBVIOUS
    <3>2. i \in Int /\ k \in Int /\ i <= k /\ \A x \in i..k : b[x] \in Bytes
      BY <1>2, <2>3, <3>1
    <3>3. /\ SubSeq(b, i, k) \in Seq(Bytes) /\ Len(SubSeq(b, i, k)) = k - i + 1
          /\ \A x \in 1..(k - i + 1) : SubSeq(b, i, k)[x] = b[i + x - 1]
      BY <3>2, SubSeqProperties
    <3>4. k - i + 1 \in 1..(k - i + 1) /\ i + (k - i + 1) - 1 = k  BY <2>3, <3>1
    <3>5. b[k] = NL  BY <2>1, <2>2 DEF BlankLineAt
    <3>6. QED  BY <3>1, <3>3, <3>4, <3>5
  <2>6. c \in Seq(Bytes)
    <3>1. PICK i : i = k + 1  OBVIOUS
    <3>2. i \in Int /\ j \in Int /\ \A x \in i..j : b[x] \in Bytes  BY <1>2, <2>3, <3>1
    <3>3. SubSeq(b, i, j) \in Seq(Bytes)  BY <3>2, SubSeqProperties
    <3>4. QED  BY <3>1, <3>3
  <2>7. a \o c = SubSeq(b, n + 1, j)
    <3>1. PICK i : i = n + 1  OBVIOUS
    <3>2. i \in 1..(Len(b) + 1) /\ k \in (i - 1)..Len(b) /\ j \in k..Len(b)
      BY <1>2, <2>3, <3>1
    <3>3. SubSeq(b, i, k) \o SubSeq(b, k + 1, j) = SubSeq(b, i, j)
      BY <3>2, ConcatAdjacentSubSeq
    <3>4. QED  BY <3>1, <3>3
  <2>8. f[n] = Taken(Payloads(a) \o f[k].out, f[k].rest)
    BY <1>1, <1>4, <2>2, <2>4 DEF TakeEvent
  <2> HIDE DEF a
  <2>9. f[k].out = Payloads(c) /\ f[k].rest = Rest(b, j)
    BY <1>4, <2>2, TakenIs
  <2> HIDE DEF c
  <2>10. Payloads(a) \o Payloads(c) = Payloads(SubSeq(b, n + 1, j))
    BY <2>5, <2>6, <2>7, SplitBetweenLines
  <2>11. f[n] = Taken(Payloads(SubSeq(b, n + 1, j)), Rest(b, j))  BY <2>8, <2>9, <2>10
  <2>12. j = n \/ BlankLineAt(b, j)  BY <1>4, <2>1
  <2>13. QED  BY <1>4, <2>11, <2>12
<1> HIDE DEF Of
<1>5. 0 \in S
  <2> SUFFICES ASSUME NEW n \in 0..L, L - n <= 0 PROVE \E j \in n..L : Of(n, j)  OBVIOUS
  <2>1. n = L /\ n \in n..L /\ 1..(L - n) = {}  BY <1>2
  <2>2. EventEnd(Rest(b, n)) = 0  BY <2>1, RestEndsAt
  <2>3. Of(n, n)  BY <1>3, <2>2
  <2>4. QED  BY <2>1, <2>3
<1>6. ASSUME NEW m \in Nat, m \in S  PROVE m + 1 \in S
  <2> SUFFICES ASSUME NEW n \in 0..L, L - n <= m + 1 PROVE \E j \in n..L : Of(n, j)  OBVIOUS
  <2>1. PICK e : e = EventEnd(Rest(b, n))  OBVIOUS
  <2>2. CASE e = 0
    <3>1. n \in n..L  BY <1>2
    <3>2. QED  BY <1>3, <2>1, <2>2, <3>1
  <2>3. CASE e # 0
    <3>1. e \in 1..(L - n)  BY <2>1, <2>3, RestEndsAt
    <3>2. n + e \in 0..L /\ L - (n + e) <= m  BY <1>2, <3>1
    <3>3. PICK j \in (n + e)..L : Of(n + e, j)
      <4> HIDE DEF L
      <4>1. QED  BY <1>6, <3>2
    <3>4. Of(n, j)  BY <1>4, <2>1, <2>3, <3>3
    <3>5. j \in n..L  BY <1>2, <3>1, <3>3
    <3>6. QED  BY <3>4, <3>5
  <2>4. QED  BY <2>2, <2>3
<1>7. Nat \subseteq S
  <2> HIDE DEF S
  <2>1. QED  BY <1>5, <1>6, Induction
<1>8. PICK j \in 0..L : Of(0, j)
  <2>1. L \in S
    <3> HIDE DEF S, L
    <3>1. QED  BY <1>2, <1>7
  <2>2. 0 \in 0..L /\ L - 0 <= L  BY <1>2
  <2> HIDE DEF L
  <2>3. QED  BY <2>1, <2>2
<1>9. 0 + 1 = 1  OBVIOUS
<1>10. QED  BY <1>1, <1>8, <1>9 DEF Of

-----------------------------------------------------------------------------
(* Up to q what the server says has been offered, line by line, and from    *)
(* there to what went by it is kept.                                       *)
OfferedUpTo(q) ==
  /\ q = 0 \/ BlankLineAt(body, q)
  /\ offered = Payloads(SubSeq(body, 1, q))
  /\ buffer = SubSeq(body, q + 1, relayed)
  /\ EventEnd(buffer) = 0

(* A stream is offered up to the last blank line that went by. *)
StreamIsKept == IsStream => overran \/ \E q \in 0..relayed : OfferedUpTo(q)

(* What follows a message of the body is no message. *)
OneMessage ==
  \A m \in 0..Len(body) : \A n \in m..Len(body) :
    IsJson(SubSeq(body, 1, m)) => ~IsJson(SubSeq(body, m + 1, n))

(* A plain body is kept until it is a message, which is offered. *)
PlainIsKept ==
  EventEnd(body) = 0 /\ OneMessage =>
    \/ overran
    \/ /\ offered = <<>> /\ buffer = SubSeq(body, 1, relayed)
       /\ relayed > 0 => ~IsJson(buffer)
    \/ \E m \in 1..relayed : /\ offered = <<SubSeq(body, 1, m)>> /\ IsJson(SubSeq(body, 1, m))
                             /\ buffer = SubSeq(body, m + 1, relayed)

(* The inductive invariant of an exchange's response. *)
HeardInv == /\ body \in Seq(Bytes) /\ relayed \in 0..Len(body)
            /\ StreamIsKept /\ PlainIsKept

(* What a chunk adds to what is kept is what followed it.                   *)
LEMMA ChunkFollows ==
  ASSUME NEW w \in Seq(Bytes), NEW r \in 0..Len(w), NEW q \in 0..r, NEW k \in 1..(Len(w) - r)
  PROVE  SubSeq(w, q + 1, r) \o SubSeq(w, r + 1, r + k) = SubSeq(w, q + 1, r + k)
<1>1. Len(w) \in Nat  OBVIOUS
<1>2. PICK i : i = q + 1  OBVIOUS
<1>3. PICK n : n = r + k  OBVIOUS
<1>4. i \in 1..(Len(w) + 1) /\ r \in (i - 1)..Len(w) /\ n \in r..Len(w)  BY <1>1, <1>2, <1>3
<1>5. SubSeq(w, i, r) \o SubSeq(w, r + 1, n) = SubSeq(w, i, n)  BY <1>4, ConcatAdjacentSubSeq
<1>6. QED  BY <1>2, <1>3, <1>5

(* A part of a stretch is a part of the whole.                              *)
LEMMA PartOfStretch ==
  ASSUME NEW w \in Seq(Bytes), NEW q \in 0..Len(w), NEW n \in q..Len(w), NEW j \in 0..(n - q)
  PROVE  /\ SubSeq(SubSeq(w, q + 1, n), 1, j) = SubSeq(w, q + 1, q + j)
         /\ Rest(SubSeq(w, q + 1, n), j) = SubSeq(w, (q + j) + 1, n)
<1>1. Len(w) \in Nat  OBVIOUS
<1>2. PICK i : i = q + 1  OBVIOUS
<1> DEFINE v == SubSeq(w, i, n)
<1>3. i \in Int /\ n \in Int  BY <1>1, <1>2
<1>4. Len(v) = n - q  BY <1>2, StretchIs
<1>5. SubSeq(v, 1, j) = SubSeq(w, i, q + j)
  <2>1. CASE j = 0
    <3>1. j \in Int /\ 1 \in Int /\ q + j \in Int /\ j < 1 /\ q + j < i  BY <1>1, <1>2, <2>1
    <3>2. QED  BY <1>3, <3>1, SubSeqEmpty
  <2>2. CASE j # 0
    <3>1. /\ i \in 1..Len(w) /\ n \in 1..Len(w) /\ 1 \in 1..(n - i + 1) /\ j \in 1..(n - i + 1)
          /\ i + 1 - 1 = i /\ i + j - 1 = q + j
      BY <1>1, <1>2, <2>2
    <3>2. SubSeq(SubSeq(w, i, n), 1, j) = SubSeq(w, i + 1 - 1, i + j - 1)
      BY <3>1, SubSeqOfSubSeq
    <3>3. QED  BY <3>1, <3>2
  <2>3. QED  BY <2>1, <2>2
<1>6. PICK k : k = j + 1  OBVIOUS
<1>7. SubSeq(v, k, n - q) = SubSeq(w, (q + j) + 1, n)
  <2>1. CASE j = n - q
    <3>1. /\ k \in Int /\ n - q \in Int /\ n \in Int /\ (q + j) + 1 \in Int
          /\ n - q < k /\ n < (q + j) + 1
      BY <1>1, <1>6, <2>1
    <3>2. QED  BY <3>1, SubSeqEmpty
  <2>2. CASE j # n - q
    <3>1. /\ i \in 1..Len(w) /\ n \in 1..Len(w) /\ k \in 1..(n - i + 1)
          /\ n - q \in 1..(n - i + 1) /\ i + k - 1 = (q + j) + 1 /\ i + (n - q) - 1 = n
      BY <1>1, <1>2, <1>6, <2>2
    <3>2. SubSeq(SubSeq(w, i, n), k, n - q) = SubSeq(w, i + k - 1, i + (n - q) - 1)
      BY <3>1, SubSeqOfSubSeq
    <3>3. QED  BY <3>1, <3>2
  <2>3. QED  BY <2>1, <2>2
<1>8. QED  BY <1>2, <1>4, <1>5, <1>6, <1>7 DEF Rest

(* What a chunk makes of what is kept, of which a blank line ends before    *)
(* q + 1.                                                                   *)
LEMMA StretchIsTaken ==
  ASSUME NEW w \in Seq(Bytes), NEW q \in 0..Len(w), NEW n \in q..Len(w),
         q = 0 \/ BlankLineAt(w, q)
  PROVE  \E p \in q..n :
           /\ Events(SubSeq(w, q + 1, n))
                = Taken(Payloads(SubSeq(w, q + 1, p)), SubSeq(w, p + 1, n))
           /\ Payloads(SubSeq(w, 1, q)) \o Payloads(SubSeq(w, q + 1, p))
                = Payloads(SubSeq(w, 1, p))
           /\ p = q \/ BlankLineAt(w, p)
           /\ EventEnd(SubSeq(w, p + 1, n)) = 0
<1>1. Len(w) \in Nat /\ q \in Nat /\ n \in Nat /\ q <= n /\ n <= Len(w)  OBVIOUS
<1>2. PICK b : b = SubSeq(w, q + 1, n)  OBVIOUS
<1>3. b \in Seq(Bytes) /\ Len(b) = n - q /\ \A i \in 1..(n - q) : b[i] = w[q + i]
  BY <1>2, StretchIs
<1>4. PICK j \in 0..(n - q) : /\ Events(b) = Taken(Payloads(SubSeq(b, 1, j)), Rest(b, j))
                              /\ j = 0 \/ BlankLineAt(b, j)
                              /\ EventEnd(Rest(b, j)) = 0
  BY <1>3, EventsAre
<1>5. PICK p : p = q + j  OBVIOUS
<1>6. p \in q..n /\ p \in Nat /\ p <= Len(w)  BY <1>1, <1>4, <1>5
<1>7. SubSeq(b, 1, j) = SubSeq(w, q + 1, p) /\ Rest(b, j) = SubSeq(w, p + 1, n)
  BY <1>2, <1>4, <1>5, PartOfStretch
<1>8. p = q \/ BlankLineAt(w, p)
  <2>1. CASE j = 0  BY <1>1, <1>5, <2>1
  <2>2. CASE j # 0
    <3>1. n - q \in Nat /\ q + (n - q) <= Len(w)  BY <1>1
    <3>2. BlankLineAt(w, q + j)  BY <1>1, <1>3, <1>4, <2>2, <3>1, BlankLineOfStretch
    <3>3. QED  BY <1>5, <3>2
  <2>3. QED  BY <2>1, <2>2
<1>9. Payloads(SubSeq(w, 1, q)) \o Payloads(SubSeq(w, q + 1, p)) = Payloads(SubSeq(w, 1, p))
  <2> DEFINE a == SubSeq(w, 1, q)
             c == SubSeq(w, q + 1, p)
  <2>1. a \in Seq(Bytes) /\ Len(a) = q /\ \A i \in 1..q : a[i] = w[i]
    <3>1. 0 \in 0..Len(w) /\ q \in 0..Len(w) /\ 0 + 1 = 1 /\ q - 0 = q
      BY <1>1
    <3>2. \A i \in 1..q : 0 + i = i  BY <1>1
    <3>3. SubSeq(w, 1, q) \in Seq(Bytes) /\ Len(SubSeq(w, 1, q)) = q  BY <3>1, StretchIs
    <3>4. \A i \in 1..q : SubSeq(w, 1, q)[i] = w[0 + i]  BY <3>1, StretchIs
    <3>5. QED  BY <3>2, <3>3, <3>4
  <2>2. c \in Seq(Bytes)
    <3>1. p \in q..Len(w)  BY <1>6
    <3>2. QED  BY <3>1, StretchIs
  <2>3. a \o c = SubSeq(w, 1, p)
    <3>1. 1 \in 1..(Len(w) + 1) /\ q \in (1 - 1)..Len(w) /\ p \in q..Len(w)  BY <1>1, <1>6
    <3>2. QED  BY <3>1, ConcatAdjacentSubSeq
  <2> HIDE DEF a, c
  <2>4. a = <<>> \/ a[Len(a)] = NL
    <3>1. CASE q = 0  BY <2>1, <3>1
    <3>2. CASE q # 0
      <4>1. w[q] = NL /\ q \in 1..q  BY <1>1, <3>2 DEF BlankLineAt
      <4>2. QED  BY <2>1, <4>1
    <3>3. QED  BY <3>1, <3>2
  <2>5. QED  BY <2>1, <2>2, <2>3, <2>4, SplitBetweenLines DEF a, c
<1>10. QED  BY <1>2, <1>4, <1>6, <1>7, <1>8, <1>9

(* What a chunk of the response does.                                       *)
LEMMA RelayChunkDoes ==
  ASSUME HeardInv, RelayChunk
  PROVE  \E n \in (relayed + 1)..Len(body) : \E t :
           /\ t = TakeMessages(buffer \o SubSeq(body, relayed + 1, n))
           /\ relayed' = n /\ body' = body /\ offered' = offered \o t.out
           /\ overran' = (overran \/ Len(t.rest) > MaxHeld)
           /\ ~overran' => buffer' = t.rest
<1>1. PICK k \in 1..(Len(body) - relayed) :
        LET taken == TakeMessages(buffer \o SubSeq(body, relayed + 1, relayed + k))
            over  == Len(taken.rest) > MaxHeld
        IN /\ relayed' = relayed + k
           /\ offered' = offered \o taken.out
           /\ buffer' = IF over THEN <<>> ELSE taken.rest
           /\ overran' = (overran \/ over)
  BY DEF RelayChunk
<1>2. PICK n : n = relayed + k  OBVIOUS
<1>3. PICK t : t = TakeMessages(buffer \o SubSeq(body, relayed + 1, n))  OBVIOUS
<1>4. /\ relayed' = n /\ offered' = offered \o t.out
      /\ buffer' = IF Len(t.rest) > MaxHeld THEN <<>> ELSE t.rest
      /\ overran' = (overran \/ Len(t.rest) > MaxHeld)
  BY <1>1, <1>2, <1>3, Zenon
<1>5. body' = body  BY DEF RelayChunk
<1>6. n \in (relayed + 1)..Len(body)
  <2>1. Len(body) \in Nat /\ relayed \in 0..Len(body)  BY DEF HeardInv
  <2>2. QED  BY <1>1, <1>2, <2>1
<1>7. QED  BY <1>3, <1>4, <1>5, <1>6

(* A chunk of a stream.                                                    *)
LEMMA StreamGoesOn ==
  ASSUME HeardInv, RelayChunk
  PROVE  StreamIsKept'
<1>1. PICK n \in (relayed + 1)..Len(body) : \E t :
        /\ t = TakeMessages(buffer \o SubSeq(body, relayed + 1, n))
        /\ relayed' = n /\ body' = body /\ offered' = offered \o t.out
        /\ overran' = (overran \/ Len(t.rest) > MaxHeld)
        /\ ~overran' => buffer' = t.rest
  BY RelayChunkDoes
<1>2. PICK t :
        /\ t = TakeMessages(buffer \o SubSeq(body, relayed + 1, n))
        /\ relayed' = n /\ body' = body /\ offered' = offered \o t.out
        /\ overran' = (overran \/ Len(t.rest) > MaxHeld)
        /\ ~overran' => buffer' = t.rest
  BY <1>1
<1>3. body' = body  BY <1>2
<1>4. IsStream' <=> IsStream  BY <1>3 DEF IsStream
<1>5. SUFFICES ASSUME IsStream, ~overran'
               PROVE  \E q \in 0..relayed' : OfferedUpTo(q)'
  BY <1>4 DEF StreamIsKept
<1>6. ~overran  BY <1>2, <1>5
<1>7. PICK q \in 0..relayed : OfferedUpTo(q)  BY <1>5, <1>6 DEF HeardInv, StreamIsKept
<1>8. PICK w : w = body  OBVIOUS
<1>9. PICK r : r = relayed  OBVIOUS
<1>10. w \in Seq(Bytes) /\ r \in 0..Len(w)  BY <1>8, <1>9 DEF HeardInv
<1>11. Len(w) \in Nat  BY <1>10
<1>12. /\ q \in 0..r /\ n \in (r + 1)..Len(w)
       /\ q = 0 \/ BlankLineAt(w, q)
       /\ buffer = SubSeq(w, q + 1, r) /\ offered = Payloads(SubSeq(w, 1, q))
       /\ t = TakeMessages(buffer \o SubSeq(w, r + 1, n))
  BY <1>2, <1>7, <1>8, <1>9 DEF OfferedUpTo
<1>13. /\ q \in 0..Len(w) /\ n \in q..Len(w) /\ n - r \in 1..(Len(w) - r) /\ r + (n - r) = n
  BY <1>10, <1>11, <1>12
<1>14. SubSeq(w, q + 1, r) \o SubSeq(w, r + 1, n) = SubSeq(w, q + 1, n)
  BY <1>10, <1>12, <1>13, ChunkFollows
<1>15. PICK p \in q..n :
         /\ Events(SubSeq(w, q + 1, n))
              = Taken(Payloads(SubSeq(w, q + 1, p)), SubSeq(w, p + 1, n))
         /\ Payloads(SubSeq(w, 1, q)) \o Payloads(SubSeq(w, q + 1, p)) = Payloads(SubSeq(w, 1, p))
         /\ p = q \/ BlankLineAt(w, p)
         /\ EventEnd(SubSeq(w, p + 1, n)) = 0
  BY <1>10, <1>12, <1>13, StretchIsTaken
<1>16. p \in 0..Len(w) /\ n \in p..Len(w) /\ p \in 0..n  BY <1>11, <1>13, <1>15
<1>17. p = 0 \/ BlankLineAt(w, p)  BY <1>12, <1>15
<1>18. ~IsJson(SubSeq(w, p + 1, n))  BY <1>5, <1>8, <1>16, <1>17 DEF IsStream
<1>19. t.out = Payloads(SubSeq(w, q + 1, p)) /\ t.rest = SubSeq(w, p + 1, n)
  <2>1. PICK sse : sse = Events(SubSeq(w, q + 1, n))  OBVIOUS
  <2>2. sse.out = Payloads(SubSeq(w, q + 1, p)) /\ sse.rest = SubSeq(w, p + 1, n)
    <3>1. PICK o : o = Payloads(SubSeq(w, q + 1, p))  OBVIOUS
    <3>2. PICK s : s = SubSeq(w, p + 1, n)  OBVIOUS
    <3>3. sse = Taken(o, s)  BY <1>15, <2>1, <3>1, <3>2
    <3>4. QED  BY <3>1, <3>2, <3>3, TakenIs
  <2>3. t = TakeMessages(SubSeq(w, q + 1, n))  BY <1>12, <1>14
  <2>4. ~IsJson(sse.rest)  BY <1>18, <2>2
  <2>5. t = [out |-> sse.out, rest |-> sse.rest]
    BY <2>1, <2>3, <2>4 DEF TakeMessages
  <2>6. QED  BY <2>2, <2>5
<1>20. offered' = Payloads(SubSeq(w, 1, p)) /\ buffer' = SubSeq(w, p + 1, n)
  BY <1>2, <1>5, <1>12, <1>15, <1>19
<1>21. w = body' /\ n = relayed'  BY <1>2, <1>8
<1>22. OfferedUpTo(p)'  BY <1>15, <1>17, <1>20, <1>21 DEF OfferedUpTo
<1>23. p \in 0..relayed'  BY <1>16, <1>21
<1>24. QED  BY <1>22, <1>23

(* A chunk of a plain body.                                                *)
LEMMA PlainGoesOn ==
  ASSUME HeardInv, RelayChunk
  PROVE  PlainIsKept'
<1>1. PICK n \in (relayed + 1)..Len(body) : \E t :
        /\ t = TakeMessages(buffer \o SubSeq(body, relayed + 1, n))
        /\ relayed' = n /\ body' = body /\ offered' = offered \o t.out
        /\ overran' = (overran \/ Len(t.rest) > MaxHeld)
        /\ ~overran' => buffer' = t.rest
  BY RelayChunkDoes
<1>2. PICK t :
        /\ t = TakeMessages(buffer \o SubSeq(body, relayed + 1, n))
        /\ relayed' = n /\ body' = body /\ offered' = offered \o t.out
        /\ overran' = (overran \/ Len(t.rest) > MaxHeld)
        /\ ~overran' => buffer' = t.rest
  BY <1>1
<1>3. body' = body  BY <1>2
<1>4. EventEnd(body)' = EventEnd(body) /\ (OneMessage' <=> OneMessage)  BY <1>3 DEF OneMessage
<1>5. SUFFICES ASSUME EventEnd(body) = 0, OneMessage, ~overran'
               PROVE  PlainIsKept'
  BY <1>4 DEF PlainIsKept
<1>6. ~overran  BY <1>2, <1>5
<1>7. PICK w : w = body  OBVIOUS
<1>8. PICK r : r = relayed  OBVIOUS
<1>9. w \in Seq(Bytes) /\ r \in 0..Len(w) /\ n \in (r + 1)..Len(w)  BY <1>2, <1>7, <1>8 DEF HeardInv
<1>10. Len(w) \in Nat /\ r \in Nat /\ n \in Nat  BY <1>9
(* Nothing of a plain body is taken but the whole of what is kept. *)
<1>11. ASSUME NEW q \in 0..r, buffer = SubSeq(w, q + 1, r)
       PROVE  LET b == SubSeq(w, q + 1, n)
              IN IF IsJson(b) THEN t.out = <<b>> /\ t.rest = <<>>
                 ELSE t.out = <<>> /\ t.rest = b
  <2>1. q \in 0..Len(w) /\ n \in q..Len(w) /\ n - r \in 1..(Len(w) - r) /\ r + (n - r) = n
    BY <1>9, <1>10
  <2>2. PICK b : b = SubSeq(w, q + 1, n)  OBVIOUS
  <2>3. SubSeq(w, q + 1, r) \o SubSeq(w, r + 1, n) = b  BY <1>9, <2>1, <2>2, ChunkFollows
  <2>4. t = TakeMessages(b)  BY <1>2, <1>7, <1>8, <1>11, <2>3
  <2>5. b \in Seq(Bytes) /\ Len(b) = n - q /\ \A i \in 1..(n - q) : b[i] = w[q + i]
    BY <1>9, <2>1, <2>2, StretchIs
  <2>6. PICK j \in 0..Len(b) : /\ Events(b) = Taken(Payloads(SubSeq(b, 1, j)), Rest(b, j))
                               /\ j = 0 \/ BlankLineAt(b, j)
    BY <2>5, EventsAre
  <2>7. ~BlankLineAt(b, j)
    <3>1. \A i : ~BlankLineAt(w, i)  BY <1>5, <1>7, <1>9, EventEndIs
    <3>2. n - q \in Nat /\ q + (n - q) <= Len(w) /\ q \in Nat  BY <1>10, <2>1
    <3>3. BlankLineAt(b, j) => BlankLineAt(w, q + j)
      BY <1>10, <2>5, <3>2, BlankLineOfStretch
    <3>4. QED  BY <3>1, <3>3
  <2>8. j = 0  BY <2>6, <2>7
  <2>9. SubSeq(b, 1, j) = <<>> /\ Rest(b, j) = b
    <3>1. SubSeq(b, 1, 0) = <<>>  BY SubSeqEmpty
    <3>2. SubSeq(b, 1, Len(b)) = b  BY <2>5, SubSeqFull
    <3>3. 0 + 1 = 1  OBVIOUS
    <3>4. QED  BY <2>8, <3>1, <3>2, <3>3 DEF Rest
  <2>10. Payloads(<<>>) = <<>>
    <3>1. <<>> \in Seq(Bytes)  OBVIOUS
    <3>2. QED  BY <3>1, PayloadsAre
  <2>11. PICK sse : sse = Events(b)  OBVIOUS
  <2>12. sse.out = <<>> /\ sse.rest = b
    <3>1. sse = Taken(<<>>, b)  BY <2>6, <2>9, <2>10, <2>11
    <3>2. QED  BY <3>1, TakenIs
  <2>13. t = [out |-> IF IsJson(b) THEN <<b>> ELSE <<>>, rest |-> IF IsJson(b) THEN <<>> ELSE b]
    BY <2>4, <2>11, <2>12 DEF TakeMessages
  <2>14. QED  BY <2>2, <2>13
<1>12. CASE offered = <<>> /\ buffer = SubSeq(w, 1, r)
  <2>1. PICK b : b = SubSeq(w, 1, n)  OBVIOUS
  <2>2. 0 \in 0..r /\ 0 + 1 = 1  BY <1>10
  <2>3. IF IsJson(b) THEN t.out = <<b>> /\ t.rest = <<>> ELSE t.out = <<>> /\ t.rest = b
    BY <1>11, <1>12, <2>1, <2>2
  <2>4. CASE IsJson(b)
    <3>1. offered' = <<>> \o <<b>> /\ buffer' = <<>>  BY <1>2, <1>5, <1>12, <2>3, <2>4
    <3>2. offered' = <<b>>  BY <3>1
    <3>3. SubSeq(w, n + 1, n) = <<>>
      <4>1. n + 1 \in Int /\ n \in Int /\ n < n + 1  BY <1>10
      <4>2. QED  BY <4>1, SubSeqEmpty
    <3>4. n \in 1..n  BY <1>9, <1>10
    <3>5. n = relayed' /\ w = body'  BY <1>2, <1>7
    <3>6. QED  BY <2>1, <2>4, <3>1, <3>2, <3>3, <3>4, <3>5 DEF PlainIsKept
  <2>5. CASE ~IsJson(b)
    <3>1. offered' = <<>> \o <<>> /\ buffer' = b  BY <1>2, <1>5, <1>12, <2>3, <2>5
    <3>2. offered' = <<>>  BY <3>1
    <3>3. n = relayed' /\ w = body'  BY <1>2, <1>7
    <3>4. QED  BY <2>1, <2>5, <3>1, <3>2, <3>3 DEF PlainIsKept
  <2>6. QED  BY <2>4, <2>5
<1>13. ASSUME NEW m \in 1..r, offered = <<SubSeq(w, 1, m)>>, IsJson(SubSeq(w, 1, m)),
              buffer = SubSeq(w, m + 1, r)
       PROVE  PlainIsKept'
  <2>1. m \in 0..r /\ m \in 0..Len(w) /\ n \in m..Len(w) /\ m \in 1..n  BY <1>9, <1>10
  <2>2. ~IsJson(SubSeq(w, m + 1, n))  BY <1>5, <1>7, <1>13, <2>1 DEF OneMessage
  <2>3. t.out = <<>> /\ t.rest = SubSeq(w, m + 1, n)  BY <1>11, <1>13, <2>1, <2>2
  <2>4. PICK c : c = SubSeq(w, 1, m)  OBVIOUS
  <2>5. offered' = <<c>> \o <<>> /\ buffer' = SubSeq(w, m + 1, n)  BY <1>2, <1>5, <1>13, <2>3, <2>4
  <2>6. offered' = <<c>>  BY <2>5
  <2>7. n = relayed' /\ w = body'  BY <1>2, <1>7
  <2>8. QED  BY <1>13, <2>1, <2>4, <2>5, <2>6, <2>7 DEF PlainIsKept
<1>14. PlainIsKept  BY DEF HeardInv
<1>15. QED  BY <1>5, <1>6, <1>7, <1>8, <1>12, <1>13, <1>14 DEF PlainIsKept

(* Both are kept by every step of an exchange.                             *)
LEMMA HeardInvHolds == HttpSpec => []HeardInv
<1> USE HttpAssumption
<1>1. HttpInit => HeardInv
  <2> SUFFICES ASSUME HttpInit PROVE HeardInv  OBVIOUS
  <2>1. body \in Seq(Bytes) /\ Len(body) \in Nat  BY DEF HttpInit, Bytes
  <2>2. relayed = 0 /\ 0 \in 0..Len(body)  BY <2>1 DEF HttpInit
  <2>3. \A q \in {0, 1} : SubSeq(body, q + 1, 0) = <<>> /\ SubSeq(body, 1, 0) = <<>>
    <3>1. SubSeq(body, 1, 0) = <<>> /\ SubSeq(body, 2, 0) = <<>>  BY SubSeqEmpty
    <3>2. QED  BY <3>1
  <2>4. <<>> \in Seq(Bytes) /\ Payloads(<<>>) = <<>> /\ EventEnd(<<>>) = 0
    <3>1. <<>> \in Seq(Bytes) /\ Len(<<>>) = 0  OBVIOUS
    <3>2. \A i : ~BlankLineAt(<<>>, i)  BY <3>1 DEF BlankLineAt
    <3>3. QED  BY <3>1, <3>2, PayloadsAre, EventEndIs
  <2>5. SubSeq(body, 0 + 1, 0) = <<>> /\ SubSeq(body, 1, 0) = <<>>  BY <2>3
  <2>6. offered = <<>> /\ buffer = <<>>  BY DEF HttpInit
  <2>7. OfferedUpTo(0)  BY <2>2, <2>4, <2>5, <2>6 DEF OfferedUpTo
  <2>8. StreamIsKept  BY <2>2, <2>7 DEF StreamIsKept
  <2>9. PlainIsKept  BY <2>2, <2>5, <2>6 DEF PlainIsKept
  <2>10. QED  BY <2>1, <2>2, <2>8, <2>9 DEF HeardInv
<1>2. HeardInv /\ [HttpNext]_httpVars => HeardInv'
  <2> SUFFICES ASSUME HeardInv, [HttpNext]_httpVars PROVE HeardInv'  OBVIOUS
  <2>1. CASE RelayChunk
    <3>1. body' = body /\ relayed' \in 0..Len(body)
      <4>1. PICK n \in (relayed + 1)..Len(body) : relayed' = n /\ body' = body
        BY <2>1, RelayChunkDoes
      <4>2. Len(body) \in Nat /\ relayed \in 0..Len(body)  BY DEF HeardInv
      <4>3. QED  BY <4>1, <4>2
    <3>2. QED  BY <2>1, <3>1, StreamGoesOn, PlainGoesOn DEF HeardInv
  <2>2. CASE UNCHANGED bodyVars
    BY <2>2 DEF bodyVars, HeardInv, StreamIsKept, PlainIsKept, OfferedUpTo, IsStream,
                OneMessage
  <2>3. CASE Arrive  BY <2>2, <2>3 DEF Arrive, bodyVars
  <2>4. CASE Judge  BY <2>2, <2>4 DEF Judge, bodyVars
  <2>5. CASE Forwarded  BY <2>2, <2>5 DEF Forwarded, bodyVars
  <2>6. CASE Unreachable  BY <2>2, <2>6 DEF Unreachable, bodyVars
  <2>7. CASE ResponseEnds  BY <2>2, <2>7 DEF ResponseEnds, bodyVars
  <2>8. CASE HandleFails  BY <2>2, <2>8 DEF HandleFails, bodyVars
  <2>9. CASE UNCHANGED httpVars  BY <2>2, <2>9 DEF httpVars, bodyVars
  <2>10. QED  BY <2>1, <2>3, <2>4, <2>5, <2>6, <2>7, <2>8, <2>9 DEF HttpNext
<1>3. QED  BY <1>1, <1>2, PTL DEF HttpSpec

-----------------------------------------------------------------------------
(* The bytes of a line that says something: its Data, and its text.         *)
LEMMA SaysHasText ==
  ASSUME body \in Seq(Bytes), NEW i \in 1..Len(body), NEW e \in i..Len(body), Says(i, e)
  PROVE  i < LastOf(e) /\ LastOf(e) < e /\ i < e
<1>1. i \in Nat /\ e \in Nat  OBVIOUS
<1>2. LastOf(e) > i /\ (LastOf(e) = e - 2 \/ LastOf(e) = e - 1)  BY DEF Says, LastOf
<1>3. PICK l : l = LastOf(e)  OBVIOUS
<1>4. QED  BY <1>1, <1>2, <1>3

(* The payload of a line is its text, if it says something.                 *)
LEMMA PayloadIsText ==
  ASSUME body \in Seq(Bytes), NEW i \in 1..Len(body), NEW e \in i..Len(body), LineAt(i, e)
  PROVE  Payload(SubSeq(body, i, e - 1)) = IF Says(i, e) THEN <<Text(i, e)>> ELSE <<>>
<1>1. PICK w : w = body  OBVIOUS
<1>2. w \in Seq(Bytes) /\ Len(w) \in Nat /\ i \in 1..Len(w) /\ e \in i..Len(w)  BY <1>1
<1>3. PICK d : d = e - 1  OBVIOUS
<1>4. PICK l : l = SubSeq(w, i, d)  OBVIOUS
<1>5. /\ l \in Seq(Bytes) /\ Len(l) = d - i + 1 /\ \A x \in 1..(d - i + 1) : l[x] = w[i + x - 1]
  <2>1. PICK q : q = i - 1  OBVIOUS
  <2>2. /\ q \in 0..Len(w) /\ d \in q..Len(w) /\ q + 1 = i /\ d - q = d - i + 1
        /\ \A x \in 1..(d - q) : q + x = i + x - 1
    BY <1>2, <1>3, <2>1
  <2>3. /\ SubSeq(w, q + 1, d) \in Seq(Bytes) /\ Len(SubSeq(w, q + 1, d)) = d - q
        /\ \A x \in 1..(d - q) : SubSeq(w, q + 1, d)[x] = w[q + x]
    BY <1>2, <2>2, StretchIs
  <2>4. QED  BY <1>4, <2>2, <2>3
<1>6. CASE d < i
  <2>1. i = e /\ Len(l) = 0  BY <1>2, <1>3, <1>5, <1>6
  <2>2. l = <<>>  BY <1>5, <2>1, EmptySeq
  <2>3. Payload(l) = <<>>  BY <2>1, <2>2 DEF Payload, StripCr
  <2>4. ~Says(i, e)
    <3>1. body[i] = NL  BY <2>1 DEF LineAt
    <3>2. NL # Data  BY DEF NL, Data
    <3>3. QED  BY <3>1, <3>2 DEF Says
  <2>5. QED  BY <1>1, <1>3, <1>4, <2>3, <2>4
<1>7. CASE ~(d < i)
  <2>1. d \in i..Len(w) /\ d \in 1..Len(w) /\ d - i + 1 >= 1 /\ i + 1 - 1 = i /\ i + (d - i + 1) - 1 = d
    BY <1>2, <1>3, <1>7
  <2>2. l[1] = w[i] /\ l[Len(l)] = w[d] /\ l # <<>> /\ Len(l) \in Nat  BY <1>5, <2>1
  <2>3. PICK k : k = LastOf(e)  OBVIOUS
  <2>4. k = IF w[d] = Ret THEN e - 2 ELSE d  BY <1>1, <1>3, <2>3 DEF LastOf
  <2>5. PICK s : s = StripCr(l)  OBVIOUS
  <2>6. s = SubSeq(w, i, k) /\ Len(s) = k - i + 1
    <3>1. CASE w[d] = Ret
      <4>1. s = SubSeq(l, 1, Len(l) - 1)  BY <2>2, <2>5, <3>1 DEF StripCr, Front, Last
      <4>2. k = e - 2 /\ Len(l) - 1 = k - i + 1 /\ k = d - 1  BY <1>3, <1>5, <2>4, <3>1, <1>2
      <4>3. CASE k < i
        <5>1. Len(l) - 1 = 0 /\ k - i + 1 = 0
          <6>1. Len(l) = d - i + 1 /\ k = d - 1 /\ d >= i /\ k < i  BY <1>5, <1>7, <4>2, <4>3, <2>1
          <6>2. d \in Int /\ i \in Int  BY <1>2, <1>3
          <6>3. d = i  BY <6>1, <6>2
          <6>4. QED  BY <6>1, <6>2, <6>3
        <5>2. SubSeq(w, i, k) = <<>>
          <6>1. i \in Int /\ k \in Int  BY <1>2, <1>3, <4>2
          <6>2. QED  BY <4>3, <6>1, SubSeqEmpty
        <5>3. SubSeq(l, 1, 0) = <<>>  BY SubSeqEmpty
        <5>4. s = <<>>
          <6>1. PICK z : z = Len(l) - 1  OBVIOUS
          <6>2. s = SubSeq(l, 1, z) /\ z = 0  BY <4>1, <5>1, <6>1
          <6>3. QED  BY <5>3, <6>2
        <5>5. Len(s) = 0  BY <5>4
        <5>6. QED  BY <5>1, <5>2, <5>4, <5>5
      <4>4. CASE ~(k < i)
        <5>1. /\ k - i + 1 \in 1..(d - i + 1) /\ 1 \in 1..(d - i + 1) /\ i + (k - i + 1) - 1 = k
          BY <1>2, <1>3, <2>1, <4>2, <4>4
        <5>2. SubSeq(SubSeq(w, i, d), 1, k - i + 1) = SubSeq(w, i + 1 - 1, i + (k - i + 1) - 1)
          BY <1>2, <2>1, <5>1, SubSeqOfSubSeq
        <5>3. s = SubSeq(w, i, k)  BY <1>4, <2>1, <4>1, <4>2, <5>1, <5>2
        <5>4. Len(s) = k - i + 1
          <6>1. i \in Int /\ k \in Int /\ i <= k /\ \A x \in i..k : w[x] \in Bytes
            BY <1>2, <1>3, <2>1, <4>2, <4>4
          <6>2. Len(SubSeq(w, i, k)) = k - i + 1  BY <6>1, SubSeqProperties
          <6>3. QED  BY <5>3, <6>2
        <5>5. QED  BY <5>3, <5>4
      <4>5. QED  BY <4>3, <4>4
    <3>2. CASE w[d] # Ret
      <4>1. s = l /\ k = d  BY <2>2, <2>4, <2>5, <3>2 DEF StripCr, Last
      <4>2. QED  BY <1>4, <1>5, <4>1
    <3>3. QED  BY <3>1, <3>2
  <2>7. k \in Nat \/ k = -1
    BY <1>2, <1>3, <2>1, <2>4
  <2>8. Len(s) > 1 <=> k > i
    BY <1>2, <2>6, <2>7
  <2>9. Says(i, e) <=> Len(s) > 1 /\ l[1] = Data
    BY <1>1, <2>2, <2>3, <2>8 DEF Says
  <2>10. ASSUME Says(i, e)  PROVE Tail(s) = Text(i, e)
    <3>1. k \in i..Len(w)
      <4>1. k > i  BY <2>8, <2>9, <2>10
      <4>2. k <= d  BY <1>2, <1>3, <2>4
      <4>3. QED  BY <1>2, <2>1, <2>7, <4>1, <4>2
    <3>2. Tail(SubSeq(w, i, k)) = SubSeq(w, i + 1, k)  BY <1>2, <3>1, HeadTailOfSubSeq
    <3>3. QED  BY <1>1, <2>3, <2>6, <3>2 DEF Text
  <2>11. Payload(l) = IF Len(s) > 1 /\ l[1] = Data THEN <<Tail(s)>> ELSE <<>>
    BY <2>5 DEF Payload
  <2>12. Payload(l) = IF Says(i, e) THEN <<Text(i, e)>> ELSE <<>>
    BY <2>9, <2>10, <2>11
  <2>13. QED  BY <1>1, <1>3, <1>4, <2>12
<1>8. QED  BY <1>6, <1>7

(* The line that ends at e begins after the newline before it, and the      *)
(* lines that end before it begin before it.                               *)
LEMMA LinesDoNotCross ==
  ASSUME body \in Seq(Bytes), NEW n \in 0..Len(body), NEW i \in 1..(n + 1), i = 1 \/ body[i - 1] = NL,
         \A x \in i..n : body[x] # NL, NEW j \in 1..Len(body), NEW e \in j..Len(body), LineAt(j, e)
  PROVE  /\ e = n + 1 => j = i
         /\ e <= n => e < i /\ j < i
<1>1. i \in Nat /\ j \in Nat /\ e \in Nat /\ n \in Nat /\ i <= n + 1  OBVIOUS
<1>2. body[e] = NL /\ (j = 1 \/ body[j - 1] = NL) /\ \A x \in j..(e - 1) : body[x] # NL
  BY DEF LineAt
<1>3. ASSUME e = n + 1  PROVE j = i
  <2>1. ~(j < i)
    <3>1. j < i => i - 1 \in j..(e - 1) /\ i # 1  BY <1>1, <1>3
    <3>2. QED  BY <1>2, <3>1
  <2>2. ~(i < j)
    <3>1. i < j => j - 1 \in i..n /\ j # 1  BY <1>1, <1>3
    <3>2. QED  BY <1>2, <3>1
  <2>3. QED  BY <1>1, <2>1, <2>2
<1>4. ASSUME e <= n  PROVE e < i /\ j < i
  <2>1. ~(e >= i)
    <3>1. e >= i => e \in i..n  BY <1>1, <1>4
    <3>2. QED  BY <1>2, <3>1
  <2>2. QED  BY <1>1, <2>1
<1>5. QED  BY <1>3, <1>4

(* One line more, after all the others.                                     *)
LEMMA OneLineMore ==
  ASSUME body \in Seq(Bytes), NEW out \in Seq(Seq(Bytes)), NEW T \in SUBSET Nat, NEW line,
         Tells(line, out, T), NEW i \in 1..Len(body), NEW e \in i..Len(body), Says(i, e),
         \A j \in T : j < i
  PROVE  \E l : Tells(l, out \o <<Text(i, e)>>, T \cup {i})
<1>1. PICK m : m = Len(out)  OBVIOUS
<1>2. PICK t : t = Text(i, e)  OBVIOUS
<1>3. m \in Nat  BY <1>1
<1>4. t \in Seq(Bytes)
  <2>1. PICK k : k = LastOf(e)  OBVIOUS
  <2>2. i < k /\ k < e /\ i \in Nat /\ e \in Nat /\ Len(body) \in Nat  BY <2>1, SaysHasText
  <2>3. k \in Int  BY <2>1 DEF LastOf
  <2>4. i + 1 \in Int /\ \A x \in (i + 1)..k : body[x] \in Bytes  BY <2>2, <2>3
  <2>5. QED  BY <1>2, <2>1, <2>3, <2>4, SubSeqProperties DEF Text
<1>5. PICK o : o = out \o <<t>>  OBVIOUS
<1>6. Len(o) = m + 1 /\ o[m + 1] = t /\ \A h \in 1..m : o[h] = out[h]
  <2> DEFINE D == Seq(Bytes)
  <2>1. out \in Seq(D) /\ t \in D  BY <1>4
  <2> HIDE DEF D
  <2>2. <<t>> \in Seq(D) /\ Len(<<t>>) = 1  BY <2>1
  <2>3. /\ Len(o) = m + 1
        /\ \A h \in 1..(m + 1) : o[h] = IF h <= m THEN out[h] ELSE <<t>>[h - m]
    BY <1>1, <1>5, <2>1, <2>2, ConcatProperties
  <2>4. m + 1 \in 1..(m + 1) /\ ~(m + 1 <= m) /\ (m + 1) - m = 1  BY <1>3
  <2>5. o[m + 1] = <<t>>[1]  BY <2>3, <2>4
  <2>6. <<t>>[1] = t  OBVIOUS
  <2>7. \A h \in 1..m : h \in 1..(m + 1) /\ h <= m  BY <1>3
  <2>8. QED  BY <2>3, <2>5, <2>6, <2>7
<1> DEFINE l == [h \in 1..(m + 1) |-> IF h = m + 1 THEN i ELSE line[h]]
<1>7. l[m + 1] = i /\ \A h \in 1..m : l[h] = line[h]  BY <1>3
<1>8. \A h \in 1..(m + 1) : h = m + 1 \/ h \in 1..m  BY <1>3
<1>9. \A h \in 1..m : h \in 1..(m + 1)  BY <1>3
<1>10. m + 1 \in 1..(m + 1)  BY <1>3
<1>11. \A h \in 1..m : line[h] \in T /\ line[h] < i  BY <1>1 DEF Tells
<1>12. l \in [1..(m + 1) -> T \cup {i}]  BY <1>8, <1>11
<1> HIDE DEF l
<1>13. ASSUME NEW g \in 1..(m + 1), NEW h \in 1..(m + 1), g < h  PROVE l[g] < l[h]
  <2>1. g \in 1..m  BY <1>3, <1>13
  <2>2. CASE h = m + 1  BY <1>7, <1>11, <2>1, <2>2
  <2>3. CASE h \in 1..m
    <3>1. line[g] < line[h]  BY <1>1, <1>13, <2>1, <2>3 DEF Tells
    <3>2. QED  BY <1>7, <2>1, <2>3, <3>1
  <2>4. QED  BY <1>8, <2>2, <2>3
<1>14. ASSUME NEW j \in T \cup {i}  PROVE \E h \in 1..(m + 1) : l[h] = j
  <2>1. CASE j = i  BY <1>7, <1>10, <2>1
  <2>2. CASE j \in T
    <3>1. PICK h \in 1..m : line[h] = j  BY <1>1, <2>2 DEF Tells
    <3>2. QED  BY <1>7, <1>9, <3>1
  <2>3. QED  BY <2>1, <2>2
<1>15. ASSUME NEW h \in 1..(m + 1)
       PROVE  \E x \in l[h]..Len(body) : Says(l[h], x) /\ o[h] = Text(l[h], x)
  <2>1. CASE h = m + 1  BY <1>2, <1>6, <1>7, <2>1
  <2>2. CASE h \in 1..m
    <3>1. PICK x \in line[h]..Len(body) : Says(line[h], x) /\ out[h] = Text(line[h], x)
      BY <1>1, <2>2 DEF Tells
    <3>2. l[h] = line[h] /\ o[h] = out[h]  BY <1>6, <1>7, <2>2
    <3>3. QED  BY <3>1, <3>2
  <2>3. QED  BY <1>8, <2>1, <2>2
<1>16. Tells(l, o, T \cup {i})
  <2>1. Len(o) = m + 1  BY <1>6
  <2>2. QED  BY <1>12, <1>13, <1>14, <1>15, <2>1, Zenon DEF Tells
<1>17. QED  BY <1>2, <1>5, <1>16

(* The lines up to n that say something.                                    *)
SaidTo(n) == {i \in 1..n : \E e \in i..n : Says(i, e)}

(* What is split off of the body up to n: the texts of these lines, and the *)
(* beginning of one, from i on.                                             *)
SplitTo(n, s, i) ==
  /\ i = 1 \/ body[i - 1] = NL
  /\ \A x \in i..n : body[x] # NL
  /\ s.line = SubSeq(body, i, n)
  /\ \E line : Tells(line, s.out, SaidTo(n))

(* Splitting tells the lines, up to any byte.                               *)
LEMMA SplittingTells ==
  ASSUME body \in Seq(Bytes), NEW n \in 0..Len(body)
  PROVE  \E line : Tells(line, Splitting(body)[n].out, SaidTo(n))
<1> DEFINE S == {m \in Nat : m <= Len(body) => \E i \in 1..(m + 1) : SplitTo(m, Splitting(body)[m], i)}
<1>1. Len(body) \in Nat  OBVIOUS
<1>2. 0 \in S
  <2>1. PICK s : s = Splitting(body)[0]  OBVIOUS
  <2>2. s.out = <<>> /\ s.line = <<>>  BY <1>1, <2>1, SplittingGoesOn, SplitIs DEF Unsplit
  <2>3. SubSeq(body, 1, 0) = <<>>  BY SubSeqEmpty
  <2>4. SaidTo(0) = {}  BY DEF SaidTo
  <2>5. Tells(<<>>, <<>>, {})
    <3>1. Len(<<>>) = 0 /\ 1..0 = {} /\ <<>> \in [{} -> {}]  OBVIOUS
    <3>2. QED  BY <3>1 DEF Tells
  <2>6. SplitTo(0, s, 1)
    <3>1. Tells(<<>>, s.out, SaidTo(0))  BY <2>2, <2>4, <2>5
    <3>2. \A x \in 1..0 : body[x] # NL  OBVIOUS
    <3>3. s.line = SubSeq(body, 1, 0)  BY <2>2, <2>3
    <3>4. QED  BY <3>1, <3>2, <3>3, Zenon DEF SplitTo
  <2>7. 1 \in 1..(0 + 1)  OBVIOUS
  <2>8. QED  BY <2>1, <2>6, <2>7
<1>3. ASSUME NEW m \in Nat, m \in S  PROVE m + 1 \in S
  <2> SUFFICES ASSUME m + 1 <= Len(body)
               PROVE  \E i \in 1..((m + 1) + 1) : SplitTo(m + 1, Splitting(body)[m + 1], i)
    OBVIOUS
  <2>1. PICK e : e = m + 1  OBVIOUS
  <2>2. /\ e \in 1..Len(body) /\ e - 1 = m /\ m <= Len(body) /\ m \in 0..Len(body)
        /\ m \in Nat /\ e \in Nat /\ e \in 0..Len(body)
    BY <1>1, <2>1
  <2>3. PICK i \in 1..(m + 1) : SplitTo(m, Splitting(body)[m], i)  BY <1>3, <2>2
  <2>4. PICK s \in Splits : s = Splitting(body)[m]  BY <2>2, SplittingIsOf
  <2>5. PICK o \in Seq(Seq(Bytes)), l \in Seq(Bytes) : s = Split(o, l)  BY SplitIs
  <2>6. s.out = o /\ s.line = l  BY <2>5, SplitHas
  <2>7. /\ i = 1 \/ body[i - 1] = NL
        /\ \A x \in i..m : body[x] # NL
        /\ l = SubSeq(body, i, m)
    BY <2>3, <2>4, <2>6 DEF SplitTo
  <2>8. PICK line : Tells(line, o, SaidTo(m))  BY <2>3, <2>4, <2>6 DEF SplitTo
  <2>9. i \in 1..Len(body) /\ e \in i..Len(body) /\ i <= e /\ i \in Nat  BY <2>1, <2>2
  <2>10. Splitting(body)[e]
           = IF body[e] = NL THEN Split(o \o Payload(l), <<>>) ELSE Split(o, Append(l, body[e]))
    <3>1. Splitting(body)[e] = EventLine(Splitting(body)[e - 1], body[e])
      BY <1>1, <2>2, SplittingGoesOn
    <3>2. PICK byte : byte = body[e]  OBVIOUS
    <3>3. Splitting(body)[e] = EventLine(Split(o, l), byte)  BY <2>2, <2>4, <2>5, <3>1, <3>2
    <3>4. QED  BY <3>2, <3>3, EventLineIs
  <2>11. SaidTo(m) \in SUBSET Nat  BY DEF SaidTo
  <2>12. ASSUME body[e] # NL  PROVE SaidTo(e) = SaidTo(m)
    <3>1. ASSUME NEW j \in SaidTo(e)  PROVE j \in SaidTo(m)
      <4>1. PICK x \in j..e : Says(j, x)  BY DEF SaidTo
      <4>2. x # e  BY <2>12, <4>1 DEF Says, LineAt
      <4>3. j \in 1..e  BY DEF SaidTo
      <4>4. j \in 1..m /\ x \in j..m  BY <2>1, <2>2, <4>1, <4>2, <4>3
      <4>5. QED  BY <4>1, <4>4 DEF SaidTo
    <3>2. ASSUME NEW j \in SaidTo(m)  PROVE j \in SaidTo(e)
      <4>1. PICK x \in j..m : Says(j, x)  BY DEF SaidTo
      <4>2. j \in 1..m  BY DEF SaidTo
      <4>3. j \in 1..e /\ x \in j..e  BY <2>1, <2>2, <4>1, <4>2
      <4>4. QED  BY <4>1, <4>3 DEF SaidTo
    <3>3. QED  BY <3>1, <3>2
  <2>13. ASSUME body[e] = NL
         PROVE  SaidTo(e) = SaidTo(m) \cup (IF Says(i, e) THEN {i} ELSE {})
    <3>1. ASSUME NEW j \in SaidTo(e), j \notin SaidTo(m)  PROVE j = i /\ Says(i, e)
      <4>1. PICK x \in j..e : Says(j, x)  BY DEF SaidTo
      <4>2. j \in 1..e  BY DEF SaidTo
      <4>3. x = e
        <5>1. x # e => j \in 1..m /\ x \in j..m  BY <2>1, <2>2, <4>1, <4>2
        <5>2. QED  BY <3>1, <4>1, <5>1 DEF SaidTo
      <4>4. j \in 1..Len(body) /\ e \in j..Len(body) /\ LineAt(j, e)
        <5>1. LineAt(j, e)  BY <4>1, <4>3 DEF Says
        <5>2. j \in 1..Len(body) /\ e \in j..Len(body)  BY <1>1, <2>2, <4>1, <4>2
        <5>3. QED  BY <5>1, <5>2
      <4>5. j = i  BY <2>1, <2>2, <2>7, <4>4, LinesDoNotCross
      <4>6. QED  BY <4>1, <4>3, <4>5
    <3>2. ASSUME NEW j \in SaidTo(m)  PROVE j \in SaidTo(e)
      <4>1. PICK x \in j..m : Says(j, x)  BY DEF SaidTo
      <4>2. j \in 1..m  BY DEF SaidTo
      <4>3. j \in 1..e /\ x \in j..e  BY <2>1, <2>2, <4>1, <4>2
      <4>4. QED  BY <4>1, <4>3 DEF SaidTo
    <3>3. Says(i, e) => i \in SaidTo(e)
      <4>1. i \in 1..e /\ e \in i..e  BY <2>2, <2>9
      <4>2. QED  BY <4>1 DEF SaidTo
    <3>4. QED  BY <3>1, <3>2, <3>3
  <2>14. CASE body[e] = NL
    <3>1. LineAt(i, e)  BY <2>2, <2>7, <2>14 DEF LineAt
    <3>2. Payload(l) = IF Says(i, e) THEN <<Text(i, e)>> ELSE <<>>
      BY <2>2, <2>7, <2>9, <3>1, PayloadIsText
    <3>3. \A j \in SaidTo(m) : j < i
      <4>1. TAKE j \in SaidTo(m)
      <4>2. PICK x \in j..m : Says(j, x)  BY DEF SaidTo
      <4>3. j \in 1..m  BY DEF SaidTo
      <4>4. LineAt(j, x)  BY <4>2 DEF Says
      <4>5. j \in 1..Len(body) /\ x \in j..Len(body) /\ x <= m  BY <1>1, <2>2, <4>2, <4>3
      <4>6. QED  BY <2>2, <2>7, <4>4, <4>5, LinesDoNotCross
    <3>4. \E t : Tells(t, o \o Payload(l), SaidTo(e))
      <4>1. CASE Says(i, e)
        <5>1. \E t : Tells(t, o \o <<Text(i, e)>>, SaidTo(m) \cup {i})
          BY <2>5, <2>8, <2>9, <2>11, <3>3, <4>1, OneLineMore
        <5>2. QED  BY <2>13, <2>14, <3>2, <4>1, <5>1
      <4>2. CASE ~Says(i, e)
        <5>1. SaidTo(e) = SaidTo(m)  BY <2>13, <2>14, <4>2
        <5>2. o \o <<>> = o
          <6> DEFINE D == Seq(Bytes)
          <6>1. o \in Seq(D)  OBVIOUS
          <6> HIDE DEF D
          <6>2. QED  BY <6>1, ConcatEmptySeq
        <5>3. QED  BY <2>8, <3>2, <4>2, <5>1, <5>2
      <4>3. QED  BY <4>1, <4>2
    <3>5. PICK u : u = Splitting(body)[e]  OBVIOUS
    <3>6. u.out = o \o Payload(l) /\ u.line = <<>>
      <4>1. u = Split(o \o Payload(l), <<>>)  BY <2>10, <2>14, <3>5
      <4>2. QED  BY <4>1, SplitHas
    <3>7. SubSeq(body, e + 1, e) = <<>>
      <4>1. e + 1 \in Int /\ e \in Int /\ e < e + 1  BY <2>2
      <4>2. QED  BY <4>1, SubSeqEmpty
    <3>8. (e + 1) - 1 = e /\ (e + 1)..e = {} /\ e + 1 \in 1..((m + 1) + 1)  BY <2>1, <2>2
    <3>9. SplitTo(e, u, e + 1)  BY <2>14, <3>4, <3>6, <3>7, <3>8 DEF SplitTo
    <3>10. QED  BY <2>1, <3>5, <3>8, <3>9
  <2>15. CASE body[e] # NL
    <3>1. PICK u : u = Splitting(body)[e]  OBVIOUS
    <3>2. u.out = o /\ u.line = Append(l, body[e])
      <4>1. u = Split(o, Append(l, body[e]))  BY <2>10, <2>15, <3>1
      <4>2. QED  BY <4>1, SplitHas
    <3>3. Append(l, body[e]) = SubSeq(body, i, e)
      <4>1. SubSeq(body, i, e) = SubSeq(body, i, e - 1) \o <<body[e]>>
        BY <2>9, SubSeqRecursiveSecond
      <4>2. body[e] \in Bytes  BY <2>2
      <4>3. l \o <<body[e]>> = Append(l, body[e])  BY <2>5, <4>2, AppendIsConcat
      <4>4. QED  BY <2>2, <2>7, <4>1, <4>3
    <3>4. \A x \in i..e : body[x] # NL
      <4>1. \A x \in i..e : x = e \/ x \in i..m  BY <2>1, <2>2
      <4>2. QED  BY <2>7, <2>15, <4>1
    <3>5. SplitTo(e, u, i)  BY <2>7, <2>8, <2>12, <2>15, <3>2, <3>3, <3>4 DEF SplitTo
    <3>6. i \in 1..((m + 1) + 1)  BY <2>2
    <3>7. QED  BY <2>1, <3>1, <3>5, <3>6
  <2>16. QED  BY <2>14, <2>15
<1>4. Nat \subseteq S
  <2> HIDE DEF S
  <2>1. QED  BY <1>2, <1>3, Induction
<1>5. PICK i \in 1..(n + 1) : SplitTo(n, Splitting(body)[n], i)
  <2>1. n \in S /\ n <= Len(body)  BY <1>1, <1>4
  <2>2. QED  BY <2>1
<1>6. QED  BY <1>5 DEF SplitTo

(* What is offered up to q are the lines after which a blank line went by,  *)
(* if none went by after q.                                                *)
LEMMA SaidIsOffered ==
  ASSUME body \in Seq(Bytes), relayed \in 0..Len(body), NEW q \in 0..relayed,
         q = 0 \/ BlankLineAt(body, q),
         \A n : ~BlankLineAt(SubSeq(body, q + 1, relayed), n)
  PROVE  Said = SaidTo(q)
<1>1. PICK w : w = body  OBVIOUS
<1>2. PICK r : r = relayed  OBVIOUS
<1>3. /\ w \in Seq(Bytes) /\ Len(w) \in Nat /\ r \in 0..Len(w) /\ r \in Nat /\ q \in 0..r
      /\ q \in Nat /\ q <= r /\ r <= Len(w) /\ q \in 0..Len(w) /\ r \in q..Len(w)
  BY <1>1, <1>2
<1>4. PICK b : b = SubSeq(w, q + 1, r)  OBVIOUS
<1>5. Len(b) = r - q /\ \A x \in 1..(r - q) : b[x] = w[q + x]  BY <1>3, <1>4, StretchIs
<1>6. \A n : ~BlankLineAt(b, n)  BY <1>1, <1>2, <1>4
<1>7. ASSUME NEW i \in Said  PROVE i \in SaidTo(q)
  <2>1. i \in 1..r  BY <1>2 DEF Said
  <2>2. PICK e \in i..r : Says(i, e) /\ \E n \in (e + 1)..r : BlankLineAt(w, n)
    BY <1>1, <1>2 DEF Said
  <2>3. PICK n \in (e + 1)..r : BlankLineAt(w, n)  BY <2>2
  <2>4. /\ i \in Nat /\ e \in Nat /\ n \in Nat /\ i <= e /\ e < n /\ n <= r /\ 1 <= i
    BY <1>3, <2>1, <2>2, <2>3
  <2>5. w[e] = NL /\ w[i] = Data /\ \A x \in i..(e - 1) : w[x] # NL
    BY <1>1, <2>2 DEF Says, LineAt
  <2>6. i < e
    <3>1. NL # Data  BY DEF NL, Data
    <3>2. i # e  BY <2>5, <3>1
    <3>3. QED  BY <2>4, <3>2
  <2>7. ASSUME q < e  PROVE FALSE
    <3>1. q < i
      <4>1. CASE q = 0  BY <2>4, <4>1
      <4>2. CASE q # 0
        <5>1. w[q] = NL  BY <1>1, <4>2 DEF BlankLineAt
        <5>2. ~(q >= i)
          <6>1. q >= i => q \in i..(e - 1)  BY <1>3, <2>4, <2>7
          <6>2. QED  BY <2>5, <5>1, <6>1
        <5>3. QED  BY <1>3, <2>4, <5>2
      <4>3. QED  BY <4>1, <4>2
    <3>2. PICK j : j = n - q  OBVIOUS
    <3>3. CASE w[n - 1] = NL /\ w[n] = NL
      <4>1. /\ j \in 2..(r - q) /\ j \in 1..(r - q) /\ j - 1 \in 1..(r - q)
            /\ q + j = n /\ q + (j - 1) = n - 1
        BY <1>3, <2>4, <2>7, <3>2
      <4>2. b[j] = NL /\ b[j - 1] = NL  BY <1>5, <3>3, <4>1
      <4>3. BlankLineAt(b, j)  BY <1>5, <4>1, <4>2 DEF BlankLineAt
      <4>4. QED  BY <1>6, <4>3
    <3>4. CASE w[n - 3] = Ret /\ w[n - 2] = NL /\ w[n - 1] = Ret /\ w[n] = NL
      <4>1. Ret # NL  BY DEF Ret, NL
      <4>2. e # n - 1  BY <2>5, <3>4, <4>1
      <4>3. e <= n - 2  BY <2>4, <4>2
      <4>4. i <= n - 3  BY <2>4, <2>6, <4>3
      <4>5. /\ j \in 4..(r - q) /\ j \in 1..(r - q) /\ j - 1 \in 1..(r - q) /\ j - 2 \in 1..(r - q)
            /\ j - 3 \in 1..(r - q)
        BY <1>3, <2>4, <3>1, <3>2, <4>4
      <4>6. q + j = n /\ q + (j - 1) = n - 1 /\ q + (j - 2) = n - 2 /\ q + (j - 3) = n - 3
        BY <1>3, <2>4, <3>2
      <4>7. b[j] = NL /\ b[j - 1] = Ret /\ b[j - 2] = NL /\ b[j - 3] = Ret
        BY <1>5, <3>4, <4>5, <4>6
      <4>8. BlankLineAt(b, j)  BY <1>5, <4>5, <4>7 DEF BlankLineAt
      <4>9. QED  BY <1>6, <4>8
    <3>5. QED  BY <2>3, <3>3, <3>4 DEF BlankLineAt
  <2>8. i \in 1..q /\ e \in i..q  BY <1>3, <2>4, <2>7
  <2>9. QED  BY <2>2, <2>8 DEF SaidTo
<1>8. ASSUME NEW i \in SaidTo(q)  PROVE i \in Said
  <2>1. i \in 1..q  BY DEF SaidTo
  <2>2. PICK e \in i..q : Says(i, e)  BY DEF SaidTo
  <2>3. BlankLineAt(w, q)  BY <1>1, <2>1
  <2>4. i \in Nat /\ e \in Nat /\ i <= e /\ e <= q /\ 1 <= i  BY <1>3, <2>1, <2>2
  <2>5. /\ w[e] = NL /\ w[i] = Data /\ \A x \in i..(e - 1) : w[x] # NL
        /\ (IF w[e - 1] = Ret THEN e - 2 ELSE e - 1) > i
    BY <1>1, <2>2 DEF Says, LineAt, LastOf
  <2>6. e # q
    <3> SUFFICES ASSUME e = q PROVE FALSE  OBVIOUS
    <3>1. CASE w[q - 1] = NL
      <4>1. i < e
        <5>1. NL # Data  BY DEF NL, Data
        <5>2. i # e  BY <2>5, <5>1
        <5>3. QED  BY <2>4, <5>2
      <4>2. q - 1 \in i..(e - 1)  BY <1>3, <2>4, <4>1
      <4>3. QED  BY <2>5, <3>1, <4>2
    <3>2. CASE w[q - 2] = NL /\ w[q - 1] = Ret
      <4>1. e - 2 > i  BY <2>5, <3>2
      <4>2. q - 2 \in i..(e - 1)  BY <1>3, <2>4, <4>1
      <4>3. QED  BY <2>5, <3>2, <4>2
    <3>3. QED  BY <2>3, <3>1, <3>2 DEF BlankLineAt
  <2>7. i \in 1..r /\ e \in i..r /\ q \in (e + 1)..r  BY <1>3, <2>4, <2>6
  <2>8. QED  BY <1>1, <1>2, <2>2, <2>3, <2>7 DEF Said
<1>9. QED  BY <1>7, <1>8

(* Of a stream, what is offered are the lines the server said.              *)
LEMMA StreamIsHeard ==
  ASSUME HeardInv, IsStream, ~overran
  PROVE  LinesAreHeard
<1>1. PICK q \in 0..relayed : OfferedUpTo(q)  BY DEF HeardInv, StreamIsKept
<1>2. body \in Seq(Bytes) /\ relayed \in 0..Len(body) /\ Len(body) \in Nat  BY DEF HeardInv
<1>3. q \in 0..Len(body) /\ relayed \in q..Len(body) /\ q \in Nat  BY <1>2
<1>4. Said = SaidTo(q)
  <2>1. PICK b : b = SubSeq(body, q + 1, relayed)  OBVIOUS
  <2>2. b \in Seq(Bytes)  BY <1>2, <1>3, <2>1, StretchIs
  <2>3. EventEnd(b) = 0  BY <1>1, <2>1 DEF OfferedUpTo
  <2>4. \A n : ~BlankLineAt(b, n)  BY <2>2, <2>3, EventEndIs
  <2>5. q = 0 \/ BlankLineAt(body, q)  BY <1>1 DEF OfferedUpTo
  <2>6. QED  BY <1>2, <2>1, <2>4, <2>5, SaidIsOffered
<1>5. offered = Splitting(body)[q].out
  <2> DEFINE a == SubSeq(body, 1, q)
             c == SubSeq(body, q + 1, Len(body))
  <2>1. a \in Seq(Bytes) /\ Len(a) = q
    <3>1. 0 \in 0..Len(body) /\ q \in 0..Len(body) /\ 0 + 1 = 1 /\ q - 0 = q  BY <1>3
    <3>2. QED  BY <1>2, <3>1, StretchIs
  <2>2. c \in Seq(Bytes)  BY <1>2, <1>3, StretchIs, Len(body) \in q..Len(body)
  <2>3. a \o c = body
    <3>1. 1 \in 1..(Len(body) + 1) /\ q \in (1 - 1)..Len(body) /\ Len(body) \in q..Len(body)
      BY <1>2, <1>3
    <3>2. a \o c = SubSeq(body, 1, Len(body))  BY <1>2, <3>1, ConcatAdjacentSubSeq
    <3>3. QED  BY <1>2, <3>2, SubSeqFull
  <2>4. offered = Payloads(a)  BY <1>1 DEF OfferedUpTo
  <2> HIDE DEF a, c
  <2>5. q \in 0..Len(a)  BY <1>3, <2>1
  <2>6. Splitting(a \o c)[q] = Splitting(a)[q]  BY <2>1, <2>2, <2>5, SplittingExtends
  <2>7. QED  BY <2>1, <2>3, <2>4, <2>6 DEF Payloads
<1>6. PICK line : Tells(line, offered, Said)  BY <1>2, <1>3, <1>4, <1>5, SplittingTells
<1>7. line \in [1..Len(offered) -> Said]  BY <1>6 DEF Tells
<1>8. QED  BY <1>6, <1>7 DEF LinesAreHeard

(* An object stands around one name.                                        *)
Around(b, i, j, k) ==
  /\ i \in DOMAIN b /\ j \in (i + 1)..Len(b) /\ k \in (j + 1)..Len(b)
  /\ b[i] = "{" /\ b[k] = "}"
  /\ \A x \in DOMAIN b : x = i \/ x = j \/ x = k \/ Blank(b[x])

(* A message is one.                                                        *)
LEMMA MessageIs == \A b : IsJson(b) => \E i, j, k : Around(b, i, j, k)
<1>1. SUFFICES ASSUME NEW b, IsJson(b) PROVE \E i, j, k : Around(b, i, j, k)  OBVIOUS
<1>2. PICK i \in DOMAIN b : b[i] = "{" /\ \E j \in (i + 1)..Len(b) : b[j] \in Names /\
        \E k \in (j + 1)..Len(b) : b[k] = "}" /\ \A x \in DOMAIN b \ {i, j, k} : Blank(b[x])
  BY <1>1 DEF IsJson
<1>3. PICK j \in (i + 1)..Len(b) :
        \E k \in (j + 1)..Len(b) : b[k] = "}" /\ \A x \in DOMAIN b \ {i, j, k} : Blank(b[x])
  BY <1>2
<1>4. PICK k \in (j + 1)..Len(b) : b[k] = "}" /\ \A x \in DOMAIN b \ {i, j, k} : Blank(b[x])
  BY <1>3
<1>5. \A x \in DOMAIN b : x = i \/ x = j \/ x = k \/ Blank(b[x])  BY <1>4
<1>6. QED  BY <1>2, <1>3, <1>4, <1>5 DEF Around

(* A plain body is one message.                                             *)
LEMMA PlainIsOne ==
  ASSUME body \in Seq(Bytes), IsJson(body)
  PROVE  OneMessage
<1>1. PICK w : w = body  OBVIOUS
<1>2. w \in Seq(Bytes) /\ Len(w) \in Nat /\ DOMAIN w = 1..Len(w)  BY <1>1
<1>3. PICK i, j, k : Around(w, i, j, k)  BY <1>1, MessageIs
<1>4. ASSUME NEW x \in 1..Len(w), w[x] = "{" \/ w[x] = "}"  PROVE x = i \/ x = j \/ x = k
  <2>1. ~Blank(w[x])  BY <1>4 DEF Blank, NL, Ret
  <2>2. QED  BY <1>2, <1>3, <2>1 DEF Around
<1>5. SUFFICES ASSUME NEW m \in 0..Len(w), NEW n \in m..Len(w), IsJson(SubSeq(w, 1, m)),
                      IsJson(SubSeq(w, m + 1, n))
               PROVE  FALSE
  BY <1>1 DEF OneMessage
<1>6. Len(w) \in Nat /\ m \in Nat /\ n \in Nat /\ m <= n /\ n <= Len(w)
  <2>1. Len(w) \in Nat  BY <1>2
  <2>2. QED  BY <2>1
<1>7. \E a, c \in 1..m : a < c /\ w[a] = "{" /\ w[c] = "}"
  <2>1. PICK u : u = SubSeq(w, 1, m)  OBVIOUS
  <2>2. 0 \in 0..Len(w) /\ m \in 0..Len(w) /\ 0 + 1 = 1 /\ m - 0 = m /\ \A x \in 1..m : 0 + x = x
    BY <1>2
  <2>3. u \in Seq(Bytes) /\ Len(u) = m /\ \A x \in 1..m : u[x] = w[0 + x]
    BY <1>2, <2>1, <2>2, StretchIs
  <2>4. DOMAIN u = 1..m  BY <2>3
  <2>5. PICK a, d, c : Around(u, a, d, c)  BY <1>5, <2>1, MessageIs
  <2>6. a \in 1..m /\ d \in (a + 1)..m /\ c \in (d + 1)..m /\ u[a] = "{" /\ u[c] = "}"
    BY <2>3, <2>4, <2>5 DEF Around
  <2>7. c \in 1..m /\ a < c
    <3>1. a \in 1..m /\ d \in (a + 1)..m /\ c \in (d + 1)..m  BY <2>6
    <3>2. a \in Nat /\ a >= 1  BY <1>6, <3>1
    <3>3. d \in Nat /\ d > a  BY <1>6, <3>1, <3>2
    <3>4. QED  BY <1>6, <3>1, <3>2, <3>3
  <2>8. QED  BY <2>2, <2>3, <2>6, <2>7
<1>8. \E a, c \in (m + 1)..n : a < c /\ w[a] = "{" /\ w[c] = "}"
  <2>1. PICK u : u = SubSeq(w, m + 1, n)  OBVIOUS
  <2>2. u \in Seq(Bytes) /\ Len(u) = n - m /\ \A x \in 1..(n - m) : u[x] = w[m + x]
    BY <1>2, <2>1, StretchIs
  <2>3. DOMAIN u = 1..(n - m)  BY <2>2
  <2>4. PICK a, d, c : Around(u, a, d, c)  BY <1>5, <2>1, MessageIs
  <2>5. /\ a \in 1..(n - m) /\ d \in (a + 1)..(n - m) /\ c \in (d + 1)..(n - m)
        /\ u[a] = "{" /\ u[c] = "}"
    BY <2>2, <2>3, <2>4 DEF Around
  <2>6. c \in 1..(n - m) /\ m + c \in (m + 1)..n /\ m + a \in (m + 1)..n /\ m + a < m + c
    <3>1. a \in 1..(n - m) /\ d \in (a + 1)..(n - m) /\ c \in (d + 1)..(n - m)  BY <2>5
    <3>2. a \in Nat /\ a >= 1  BY <1>6, <3>1
    <3>3. d \in Nat /\ d > a  BY <1>6, <3>1, <3>2
    <3>4. QED  BY <1>6, <3>1, <3>2, <3>3
  <2>7. w[m + a] = "{" /\ w[m + c] = "}"  BY <2>2, <2>5, <2>6
  <2>8. QED  BY <2>6, <2>7
<1>9. PICK a \in 1..m, c \in 1..m : a < c /\ w[a] = "{" /\ w[c] = "}"  BY <1>7
<1>10. PICK f \in (m + 1)..n, g \in (m + 1)..n : f < g /\ w[f] = "{" /\ w[g] = "}"  BY <1>8
<1>11. /\ a \in 1..Len(w) /\ c \in 1..Len(w) /\ f \in 1..Len(w) /\ g \in 1..Len(w)
       /\ a < c /\ c < f /\ f < g
  <2>1. /\ m \in 0..Len(w) /\ n \in m..Len(w) /\ Len(w) \in Nat /\ a \in 1..m /\ c \in 1..m
        /\ f \in (m + 1)..n /\ g \in (m + 1)..n /\ a < c /\ f < g
    BY <1>2, <1>9, <1>10
  <2>2. QED  BY <2>1
<1>12. /\ a = i \/ a = j \/ a = k
       /\ c = i \/ c = j \/ c = k
       /\ f = i \/ f = j \/ f = k
       /\ g = i \/ g = j \/ g = k
  BY <1>4, <1>9, <1>10, <1>11
<1>13. a # c /\ a # f /\ a # g /\ c # f /\ c # g /\ f # g  BY <1>11
<1>14. QED  BY <1>12, <1>13

(* Of a plain body, what is offered is the message.                         *)
LEMMA PlainIsHeard ==
  ASSUME HeardInv, IsPlain, ~overran
  PROVE  MessageIsHeard
<1>1. body \in Seq(Bytes) /\ relayed \in 0..Len(body) /\ Len(body) \in Nat  BY DEF HeardInv
<1>2. OneMessage  BY <1>1, PlainIsOne DEF IsPlain
<1>3. EventEnd(body) = 0
  <2>1. \A n : BlankLineAt(body, n) => n \in 1..Len(body)  BY <1>1 DEF BlankLineAt
  <2>2. \A n : ~BlankLineAt(body, n)  BY <2>1 DEF IsPlain
  <2>3. QED  BY <1>1, <2>2, EventEndIs
<1>4. CASE offered = <<>> /\ buffer = SubSeq(body, 1, relayed) /\ (relayed > 0 => ~IsJson(buffer))
  <2>1. ASSUME relayed = 0  PROVE ~IsJson(SubSeq(body, 1, relayed))
    <3>1. PICK u : u = SubSeq(body, 1, 0)  OBVIOUS
    <3>2. u = <<>>  BY <3>1, SubSeqEmpty
    <3>3. DOMAIN u = {}  BY <3>2
    <3>4. ~IsJson(u)  BY <3>3 DEF IsJson
    <3>5. QED  BY <2>1, <3>1, <3>4
  <2>2. relayed = 0 \/ relayed > 0  BY <1>1
  <2>3. QED  BY <1>4, <2>1, <2>2 DEF MessageIsHeard
<1>5. CASE \E m \in 1..relayed : /\ offered = <<SubSeq(body, 1, m)>> /\ IsJson(SubSeq(body, 1, m))
                                 /\ buffer = SubSeq(body, m + 1, relayed)
  BY <1>5 DEF MessageIsHeard
<1>6. QED  BY <1>2, <1>3, <1>4, <1>5 DEF HeardInv, PlainIsKept

(* What is observed of a response is what the server said, once and in      *)
(* order, for every body, every cut of it into chunks and every ceiling     *)
(* (observe_stream, take_messages and find_event_end of http.rs).           *)
THEOREM ResponseIsHeard == HttpSpec => []HeardIsSaid
<1>1. HeardInv => HeardIsSaid  BY StreamIsHeard, PlainIsHeard DEF HeardIsSaid
<1>2. QED  BY <1>1, HeardInvHolds, PTL

-----------------------------------------------------------------------------
(* What is so of a refusal, where DeniedIsDropped is not: a call that is    *)
(* denied and can be answered never reaches the server, and is answered     *)
(* with the refusal (http.rs:276-314).                                      *)
RefusalIsTheAnswer ==
  verdict = "deny" /\ request.id => ~upstream /\ (exchange = "over" => reply = "refusal")

(* It is so because it is never called. *)
RefusalInv ==
  /\ exchange = "arrived" => verdict = "none" /\ ~upstream
  /\ exchange = "judged" => ~upstream
  /\ verdict = "deny" /\ request.id =>
       ~upstream /\ (exchange = "judged" \/ (exchange = "over" /\ reply = "refusal"))

(* A refused call is not forwarded, whatever else is asked of the proxy.    *)
THEOREM DeniedIsNotForwarded == HttpSpec => []RefusalIsTheAnswer
<1>1. HttpInit => RefusalInv  BY DEF HttpInit, RefusalInv
<1>2. RefusalInv /\ [HttpNext]_httpVars => RefusalInv'
  <2> SUFFICES ASSUME RefusalInv, [HttpNext]_httpVars PROVE RefusalInv'  OBVIOUS
  <2>1. CASE Arrive
    <3>1. verdict = "none" /\ ~upstream'  BY <2>1, Zenon DEF Arrive, RefusalInv
    <3>2. exchange' = "judged" \/ (exchange' \in {"over", "calling"} /\ verdict' = verdict)
      BY <2>1, Zenon DEF Arrive, Answer
    <3>3. exchange' # "arrived" /\ (verdict' = "deny" => exchange' = "judged")  BY <3>1, <3>2
    <3>4. QED  BY <3>1, <3>3, Zenon DEF RefusalInv
  <2>2. CASE Judge  BY <2>2 DEF Judge, Answer, RefusalInv
  <2>3. CASE Forwarded  BY <2>3 DEF Forwarded, RefusalInv
  <2>4. CASE Unreachable  BY <2>4 DEF Unreachable, Answer, RefusalInv
  <2>5. CASE RelayChunk  BY <2>5 DEF RelayChunk, RefusalInv
  <2>6. CASE ResponseEnds  BY <2>6 DEF ResponseEnds, RefusalInv
  <2>7. CASE HandleFails  BY <2>7 DEF HandleFails, Answer, RefusalInv
  <2>8. CASE UNCHANGED httpVars  BY <2>8 DEF httpVars, RefusalInv
  <2>9. QED  BY <2>1, <2>2, <2>3, <2>4, <2>5, <2>6, <2>7, <2>8 DEF HttpNext
<1>3. RefusalInv => RefusalIsTheAnswer  BY DEF RefusalInv, RefusalIsTheAnswer
<1>4. QED  BY <1>1, <1>2, <1>3, PTL DEF HttpSpec

=============================================================================
