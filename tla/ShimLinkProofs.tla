--------------------------- MODULE ShimLinkProofs ---------------------------
(***************************************************************************)
(* For any number of callers, calls, reports and any time limits: replies  *)
(* without an identifier are paired with the calls they are about, reports *)
(* come before the calls made after them, and no call is given up while    *)
(* the daemon is well, keeps its promise and calls take turns.             *)
(***************************************************************************)
EXTENDS ShimLink, Integers, SequenceTheorems, TLAPS

USE LinkAssumption

Outgoing == {Report} \cup {Decide(call) : call \in Calls}

Types ==
  /\ made \in [Callers -> 0..MaxCalls]
  /\ outcome \in [Calls -> {"none", "verdict", "error"}]
  /\ verdictOf \in [Calls -> Calls \cup {NoCall}]
  /\ channel \in Seq(Outgoing)
  /\ lines \in Seq(Outgoing)
  /\ replies \in Seq(Calls)
  /\ ipc = "reading" => ipcCall \in Calls
  /\ conn = "asking" => asked \in Calls

OnlyReports(seq) == \A i \in 1..Len(seq) : seq[i] = Report

(* The one request under way, at the end of what was written. *)
Written(call) ==
  /\ lines # <<>>
  /\ lines[Len(lines)] = Decide(call)
  /\ \A i \in 1..(Len(lines) - 1) : lines[i] = Report

(* Nothing is under way while the thread is idle; while it reads, one       *)
(* request is, and it is the one it wrote last: still on its way, in front  *)
(* of a person or lost with the daemon, or answered.                       *)
OneUnderWay ==
  /\ ipc = "idle" => OnlyReports(lines) /\ replies = <<>> /\ conn # "asking"
  /\ ipc = "reading" =>
       \/ Written(ipcCall) /\ replies = <<>> /\ conn # "asking"
       \/ OnlyReports(lines) /\ replies = <<>> /\ (conn = "asking" => asked = ipcCall)
       \/ OnlyReports(lines) /\ replies = <<ipcCall>> /\ conn # "asking"

Inv == Types /\ OneUnderWay /\ VerdictMatches

LEMMA DecideIsNoReport == \A call : Decide(call) # Report
BY DEF Decide, Report

LEMMA InitInv == LinkInit => Inv
<1> SUFFICES ASSUME LinkInit  PROVE Inv  OBVIOUS
<1>1. Types  BY DEF LinkInit, Types
<1>2. OneUnderWay  BY DEF LinkInit, OneUnderWay, OnlyReports
<1>3. VerdictMatches  BY DEF LinkInit, VerdictMatches
<1>4. QED  BY <1>1, <1>2, <1>3 DEF Inv

LEMMA TailOnlyReports ==
  ASSUME NEW seq \in Seq(Outgoing), seq # <<>>, OnlyReports(seq)
  PROVE  Tail(seq) \in Seq(Outgoing) /\ OnlyReports(Tail(seq)) /\ Head(seq) = Report
BY DEF OnlyReports

LEMMA MakeCallInv == ASSUME Inv, NEW c \in Callers, MakeCall(c)  PROVE Inv'
<1> DEFINE call == <<c, made[c] + 1>>
<1> USE DEF Inv, Types, MakeCall, connVars
<1>1. \/ channel' = channel
      \/ channel' = Append(channel, Decide(call)) /\ call \in Calls
  BY DEF Enqueue, Calls
<1>2. channel' \in Seq(Outgoing)
  <2>1. call \in Calls => Decide(call) \in Outgoing  BY DEF Outgoing
  <2>2. channel \in Seq(Outgoing)  OBVIOUS
  <2> HIDE DEF call, Outgoing, MakeCall, Types, Inv, Report, Decide
  <2>3. QED  BY <1>1, <2>1, <2>2
<1>3. outcome' = outcome \/ outcome' = [outcome EXCEPT ![call] = "error"]  OBVIOUS
<1>3b. made' \in [Callers -> 0..MaxCalls]  OBVIOUS
<1>4. Types'  BY <1>2, <1>3, <1>3b
<1>5. OneUnderWay'  BY DEF OneUnderWay, OnlyReports, Written
<1>6. VerdictMatches'  BY <1>3 DEF VerdictMatches
<1>7. QED  BY <1>4, <1>5, <1>6

LEMMA GiveUpInv == ASSUME Inv, NEW c \in Callers, GiveUp(c)  PROVE Inv'
<1> USE DEF Inv, Types, GiveUp, wireVars, connVars
<1>1. Types'  OBVIOUS
<1>2. OneUnderWay'  BY DEF OneUnderWay, OnlyReports, Written
<1>3. VerdictMatches'  BY DEF VerdictMatches
<1>4. QED  BY <1>1, <1>2, <1>3

LEMMA WrittenOnSending ==
  ASSUME lines \in Seq(Outgoing), OnlyReports(lines), NEW call \in Calls,
         lines' = Append(lines, Decide(call))
  PROVE  Written(call)'
<1>1. Decide(call) \in Outgoing  BY DEF Outgoing
<1>2. /\ Len(lines') = Len(lines) + 1 /\ Len(lines) \in Nat
      /\ lines'[Len(lines) + 1] = Decide(call)
      /\ \A i \in 1..Len(lines) : lines'[i] = lines[i]
  BY <1>1
<1>3. QED  BY <1>2 DEF Written, OnlyReports, Decide, Report, NoCall

LEMMA TakeOutgoingInv == ASSUME Inv, TakeOutgoing  PROVE Inv'
<1> USE DEF Inv, Types, TakeOutgoing, callerVars, connVars
<1>1. Head(channel) \in Outgoing /\ channel' \in Seq(Outgoing) /\ lines' \in Seq(Outgoing)
  OBVIOUS
<1>2. /\ Len(lines') = Len(lines) + 1
      /\ lines'[Len(lines) + 1] = Head(channel)
      /\ \A i \in 1..Len(lines) : lines'[i] = lines[i]
  BY <1>1
<1>3. OnlyReports(lines) /\ replies = <<>> /\ conn # "asking"  BY DEF OneUnderWay
<1>4. VerdictMatches'  BY DEF VerdictMatches
<1>5. CASE Head(channel) = Report
  <2>1. OnlyReports(lines')  BY <1>1, <1>2, <1>3, <1>5 DEF OnlyReports
  <2>2. OneUnderWay'  BY <1>3, <1>5, <2>1 DEF OneUnderWay, OnlyReports
  <2>3. QED  BY <1>1, <1>4, <1>5, <2>2
<1>6. CASE Head(channel) # Report
  <2>1. PICK call \in Calls : Head(channel) = Decide(call)  BY <1>1, <1>6 DEF Outgoing
  <2>2. ipcCall' = call /\ ipc' = "reading"  BY <1>6, <2>1 DEF Decide
  <2>3. Written(ipcCall)'
    <3>1. lines' = Append(lines, Decide(call)) /\ lines \in Seq(Outgoing)  BY <2>1
    <3>2. Written(call)'  BY <1>3, <3>1, WrittenOnSending
    <3>3. QED  BY <2>2, <3>2 DEF Written, Decide
  <2>4. OneUnderWay'  BY <1>3, <2>2, <2>3 DEF OneUnderWay
  <2>5. QED  BY <1>1, <1>4, <2>2, <2>4
<1>7. QED  BY <1>5, <1>6

LEMMA ReadReplyInv == ASSUME Inv, ReadReply  PROVE Inv'
<1> USE DEF Inv, Types, ReadReply, connVars
<1>1. replies = <<ipcCall>> /\ OnlyReports(lines) /\ conn # "asking"  BY DEF OneUnderWay
<1>2. Head(replies) = ipcCall /\ replies' = <<>> /\ ipcCall \in Calls  BY <1>1
<1>3. Types'
  <2>1. outcome' \in [Calls -> {"none", "verdict", "error"}]  BY <1>2
  <2>2. verdictOf' \in [Calls -> Calls \cup {NoCall}]
    <3>1. verdictOf \in [Calls -> Calls \cup {NoCall}]  OBVIOUS
    <3>2. \/ verdictOf' = verdictOf
          \/ verdictOf' = [verdictOf EXCEPT ![ipcCall] = ipcCall]
      BY <1>2
    <3>3. QED  BY <1>2, <3>1, <3>2
  <2>3. replies' \in Seq(Calls)  BY <1>2
  <2>4. QED  BY <1>1, <2>1, <2>2, <2>3
<1>4. OneUnderWay'  BY <1>1, <1>2 DEF OneUnderWay, OnlyReports
<1>5. VerdictMatches'
  <2>1. \/ outcome' = outcome /\ verdictOf' = verdictOf
        \/ /\ outcome' = [outcome EXCEPT ![ipcCall] = "verdict"]
           /\ verdictOf' = [verdictOf EXCEPT ![ipcCall] = ipcCall]
    BY <1>2
  <2>2. /\ outcome \in [Calls -> {"none", "verdict", "error"}]
        /\ verdictOf \in [Calls -> Calls \cup {NoCall}] /\ VerdictMatches
    OBVIOUS
  <2> HIDE DEF Inv, Types, ReadReply
  <2>3. QED  BY <1>2, <2>1, <2>2 DEF VerdictMatches
<1>6. QED  BY <1>3, <1>4, <1>5

LEMMA ReadFailsInv == ASSUME Inv, ReadFails  PROVE Inv'
BY DEF Inv, Types, ReadFails, callerVars, connVars, OneUnderWay, OnlyReports, Written,
       VerdictMatches

LEMMA WrittenStays ==
  ASSUME lines \in Seq(Outgoing), lines # <<>>, Head(lines) = Report, lines' = Tail(lines),
         NEW call, Written(call)
  PROVE  Written(call)'
<1>1. Len(lines) # 1  BY DecideIsNoReport DEF Written
<1>2. /\ Len(lines') = Len(lines) - 1
      /\ \A i \in 1..Len(lines') : lines'[i] = lines[i + 1]
  OBVIOUS
<1>3. Len(lines') # 0  BY <1>1, <1>2 DEF Written
<1>4. lines'[Len(lines')] = Decide(call)'  BY <1>2, <1>3 DEF Written, Decide
<1>5. \A i \in 1..(Len(lines') - 1) : lines'[i] = Report  BY <1>2 DEF Written
<1>6. QED  BY <1>3, <1>4, <1>5 DEF Written, Decide

(* Once the thread has ended, what the daemon does concerns nobody. *)
LEMMA RecordInv == ASSUME Inv, Record  PROVE Inv'
<1> USE DEF Inv, Types, Record, callerVars, connVars
<1>1. Types'  OBVIOUS
<1>2. VerdictMatches'  BY DEF VerdictMatches
<1>3. ASSUME OnlyReports(lines)  PROVE OnlyReports(lines')
  BY <1>3, TailOnlyReports
<1>4. ASSUME NEW call, Written(call)  PROVE Written(call)'
  BY <1>4, WrittenStays
<1>5. Written(ipcCall) => Written(ipcCall)'  BY <1>4
<1>6. OneUnderWay'  BY <1>3, <1>5 DEF OneUnderWay, OnlyReports
<1>7. QED  BY <1>1, <1>2, <1>6

LEMMA RuleInv == ASSUME Inv, Rule  PROVE Inv'
<1> USE DEF Inv, Types, Rule, callerVars
<1>1. PICK call \in Calls : Head(lines) = Decide(call)  BY DEF Outgoing
<1>2. Head(lines)[2] = call  BY <1>1 DEF Decide
<1>3. VerdictMatches'  BY DEF VerdictMatches
<1>4. /\ lines' = Tail(lines) /\ UNCHANGED <<ipc, ipcCall>>
      /\ \/ replies' = Append(replies, call) /\ UNCHANGED <<conn, asked>>
         \/ replies' = replies /\ conn' = "asking" /\ asked' = call
  BY <1>2 DEF Reply
<1>5. Types'
  <2>1. lines' \in Seq(Outgoing)  BY <1>4
  <2>2. replies' \in Seq(Calls)
    <3>1. replies \in Seq(Calls)  OBVIOUS
    <3> HIDE DEF Rule, Types, Inv
    <3>2. Append(replies, call) \in Seq(Calls)  BY <3>1
    <3>3. QED  BY <1>4, <3>1, <3>2
  <2>3. QED  BY <1>4, <2>1, <2>2
<1>6. CASE ipc = "reading"
  <2>1. ~OnlyReports(lines)  BY TailOnlyReports
  <2>2. Written(ipcCall) /\ replies = <<>>  BY <1>6, <2>1 DEF OneUnderWay
  <2>3. Len(lines) = 1
    <3>1. lines[1] # Report  BY <1>1, DecideIsNoReport
    <3>2. Len(lines) \in Nat /\ Len(lines) # 0  OBVIOUS
    <3>3. ~(1 \in 1..(Len(lines) - 1))  BY <2>2, <3>1 DEF Written
    <3>4. \A n \in Nat : n # 0 /\ ~(1 \in 1..(n - 1)) => n = 1  OBVIOUS
    <3>5. QED  BY <3>2, <3>3, <3>4
  <2>4. call = ipcCall /\ lines' = <<>>  BY <1>1, <1>2, <2>2, <2>3 DEF Written, Decide
  <2>5. OnlyReports(lines')
    <3>1. 1..Len(lines') = {}  BY <2>4
    <3>2. QED  BY <3>1 DEF OnlyReports
  <2>6. conn = "reading" /\ ipc' = "reading" /\ ipcCall' = ipcCall  BY <1>4, <1>6
  <2>7. OneUnderWay'
    <3>1. CASE replies' = Append(replies, call) /\ UNCHANGED <<conn, asked>>
      <4>1. replies' = <<ipcCall>>  BY <2>2, <2>4, <3>1
      <4>2. QED  BY <2>5, <2>6, <3>1, <4>1 DEF OneUnderWay, OnlyReports
    <3>2. CASE replies' = replies /\ conn' = "asking" /\ asked' = call
      BY <2>2, <2>4, <2>5, <2>6, <3>2 DEF OneUnderWay, OnlyReports
    <3>3. QED  BY <1>4, <3>1, <3>2
  <2>8. QED  BY <1>3, <1>5, <2>7
<1>7. CASE ipc = "idle"
  BY <1>7, TailOnlyReports DEF OneUnderWay
<1>8. CASE ipc \notin {"idle", "reading"}
  BY <1>3, <1>4, <1>5, <1>8 DEF OneUnderWay
<1>9. QED  BY <1>6, <1>7, <1>8

LEMMA ResolveInv == ASSUME Inv, Resolve  PROVE Inv'
<1> USE DEF Inv, Types, Resolve, Reply, callerVars
<1>1. VerdictMatches'  BY DEF VerdictMatches
<1>2. ipc # "idle"  BY DEF OneUnderWay
<1>3. CASE ipc = "reading"
  <2>1. asked = ipcCall /\ OnlyReports(lines) /\ replies = <<>>  BY <1>3 DEF OneUnderWay
  <2>2. replies' = <<ipcCall>>  BY <2>1
  <2>3. OneUnderWay'  BY <1>3, <2>1, <2>2 DEF OneUnderWay, OnlyReports
  <2>4. QED  BY <1>1, <1>3, <2>2, <2>3
<1>4. CASE ipc \notin {"idle", "reading"}
  BY <1>1, <1>4 DEF OneUnderWay
<1>5. QED  BY <1>2, <1>3, <1>4

LEMMA StepInv == Inv /\ [LinkNext]_linkVars => Inv'
<1> SUFFICES ASSUME Inv, [LinkNext]_linkVars  PROVE Inv'  OBVIOUS
<1>1. CASE Observe
  <2>1. Types'  BY <1>1 DEF Observe, Inv, Types, callerVars, connVars, Outgoing
  <2>2. QED
    BY <1>1, <2>1 DEF Observe, Inv, callerVars, connVars, OneUnderWay, OnlyReports, Written,
                      VerdictMatches
<1>2. ASSUME NEW t \in Timeouts, Reload(t)  PROVE Inv'
  BY <1>2 DEF Reload, Inv, Types, callerVars, wireVars, OneUnderWay, OnlyReports, Written,
              VerdictMatches
<1>3. CASE Stall \/ ServiceDies
  BY <1>3 DEF Stall, ServiceDies, Inv, Types, callerVars, wireVars, OneUnderWay, OnlyReports,
              Written, VerdictMatches
<1>4. CASE Tick
  BY <1>4 DEF Tick, Inv, Types, callerVars, wireVars, connVars, OneUnderWay, OnlyReports,
              Written, VerdictMatches
<1>5. CASE UNCHANGED linkVars
  BY <1>5 DEF linkVars, Inv, Types, callerVars, wireVars, connVars, OneUnderWay, OnlyReports,
              Written, VerdictMatches
<1>6. QED
  BY <1>1, <1>2, <1>3, <1>4, <1>5, MakeCallInv, GiveUpInv, TakeOutgoingInv, ReadReplyInv,
     ReadFailsInv, RecordInv, RuleInv, ResolveInv DEF LinkNext, Ipc

(* A verdict is about the call that gets it. *)
THEOREM Paired == LinkSpec => []VerdictMatches
<1>1. Inv => VerdictMatches  BY DEF Inv
<1>2. QED  BY InitInv, StepInv, <1>1, PTL DEF LinkSpec

-----------------------------------------------------------------------------
(* Reports come before the calls made after them.                          *)

(* What was sent and not yet handled: the wire, then the channel. *)
Pipe == lines \o channel

(* f[j] is how many of the first j entries of the pipe are reports. *)
Counts(f, seq) ==
  /\ f \in [0..Len(seq) -> Int]
  /\ f[0] = 0
  /\ \A j \in 1..Len(seq) : f[j] = IF seq[j] = Report THEN f[j - 1] + 1 ELSE f[j - 1]

(* With as many reports recorded as there are, and those in the pipe before *)
(* a call, everything reported before it was made is accounted for.        *)
Balance(f, seq) ==
  /\ ipc # "ended" => observed = recorded + f[Len(seq)]
  /\ \A j \in 1..Len(seq), call \in Calls :
       seq[j] = Decide(call) => madeAt[call] <= recorded + f[j]

(* A call in the pipe has been made. *)
WereMade(seq) ==
  \A j \in 1..Len(seq), call \in Calls : seq[j] = Decide(call) => call[2] <= made[call[1]]

OrderInv ==
  /\ Inv
  /\ observed \in Nat /\ recorded \in Nat /\ madeAt \in [Calls -> Nat]
  /\ WereMade(Pipe)
  /\ \E f : Counts(f, Pipe) /\ Balance(f, Pipe)

LEMMA PipeMoves ==
  ASSUME NEW S, NEW l \in Seq(S), NEW c \in Seq(S), NEW m \in S
  PROVE  /\ l \o c \in Seq(S)
         /\ l \o Append(c, m) = Append(l \o c, m)
         /\ c # <<>> => Append(l, Head(c)) \o Tail(c) = l \o c
         /\ l # <<>> => Tail(l) \o c = Tail(l \o c) /\ l \o c # <<>> /\ Head(l \o c) = Head(l)
         /\ Len(l \o <<>>) <= Len(l \o c)
         /\ \A j \in 1..Len(l \o <<>>) : (l \o <<>>)[j] = (l \o c)[j]
<1>1. l \o c \in Seq(S) /\ l \o <<>> = l  OBVIOUS
<1>2. l \o Append(c, m) = Append(l \o c, m)  OBVIOUS
<1>3. ASSUME c # <<>>  PROVE Append(l, Head(c)) \o Tail(c) = l \o c
  <2> DEFINE a == Append(l, Head(c))
             t == Tail(c)
             x == a \o t
             y == l \o c
  <2>1. /\ a \in Seq(S) /\ t \in Seq(S) /\ Len(a) = Len(l) + 1 /\ Len(t) = Len(c) - 1
        /\ \A i \in 1..Len(l) : a[i] = l[i]
        /\ a[Len(l) + 1] = c[1]
        /\ \A i \in 1..(Len(c) - 1) : t[i] = c[i + 1]
        /\ Len(l) \in Nat /\ Len(c) \in Nat /\ Len(c) # 0
    BY <1>3
  <2> HIDE DEF a, t
  <2>2. /\ x \in Seq(S) /\ Len(x) = Len(a) + Len(t)
        /\ \A i \in 1..(Len(a) + Len(t)) : x[i] = IF i <= Len(a) THEN a[i] ELSE t[i - Len(a)]
    BY <2>1, ConcatProperties
  <2>3. /\ y \in Seq(S) /\ Len(y) = Len(l) + Len(c)
        /\ \A i \in 1..(Len(l) + Len(c)) : y[i] = IF i <= Len(l) THEN l[i] ELSE c[i - Len(l)]
    BY ConcatProperties
  <2> HIDE DEF x, y
  <2>4. Len(x) = Len(y) /\ Len(x) = Len(l) + Len(c)  BY <2>1, <2>2, <2>3
  <2>5. ASSUME NEW i \in 1..Len(x)  PROVE x[i] = y[i]
    <3>1. CASE i <= Len(l)
      <4>1. i \in 1..Len(l) /\ i <= Len(a) /\ i \in 1..(Len(a) + Len(t))
            /\ i \in 1..(Len(l) + Len(c))
        BY <2>1, <2>4, <3>1
      <4>2. QED  BY <2>1, <2>2, <2>3, <3>1, <4>1
    <3>2. CASE i = Len(l) + 1
      <4>1. /\ i <= Len(a) /\ ~(i <= Len(l)) /\ i - Len(l) = 1
            /\ i \in 1..(Len(a) + Len(t)) /\ i \in 1..(Len(l) + Len(c))
        BY <2>1, <2>4, <3>2
      <4>2. QED  BY <2>1, <2>2, <2>3, <3>2, <4>1
    <3>3. CASE i > Len(l) + 1
      <4>1. /\ ~(i <= Len(a)) /\ ~(i <= Len(l)) /\ i - Len(a) \in 1..(Len(c) - 1)
            /\ (i - Len(a)) + 1 = i - Len(l)
            /\ i \in 1..(Len(a) + Len(t)) /\ i \in 1..(Len(l) + Len(c))
        BY <2>1, <2>4, <3>3
      <4>2. QED  BY <2>1, <2>2, <2>3, <4>1
    <3>4. QED  BY <2>1, <2>4, <3>1, <3>2, <3>3
  <2>6. x = y  BY <2>2, <2>3, <2>4, <2>5, SeqEqual
  <2>7. QED  BY <2>6 DEF x, y, a, t
<1>4. ASSUME l # <<>>
      PROVE  Tail(l) \o c = Tail(l \o c) /\ l \o c # <<>> /\ Head(l \o c) = Head(l)
  <2> DEFINE t == Tail(l)
             y == l \o c
             x == t \o c
             z == Tail(y)
  <2>1. /\ t \in Seq(S) /\ Len(t) = Len(l) - 1 /\ Head(l) = l[1]
        /\ \A i \in 1..(Len(l) - 1) : t[i] = l[i + 1]
        /\ Len(l) \in Nat /\ Len(c) \in Nat /\ Len(l) # 0
    BY <1>4
  <2>2. /\ y \in Seq(S) /\ Len(y) = Len(l) + Len(c)
        /\ \A i \in 1..(Len(l) + Len(c)) : y[i] = IF i <= Len(l) THEN l[i] ELSE c[i - Len(l)]
    BY ConcatProperties
  <2> HIDE DEF t
  <2>3. /\ x \in Seq(S) /\ Len(x) = Len(t) + Len(c)
        /\ \A i \in 1..(Len(t) + Len(c)) : x[i] = IF i <= Len(t) THEN t[i] ELSE c[i - Len(t)]
    BY <2>1, ConcatProperties
  <2> HIDE DEF x, y
  <2>4. y # <<>> /\ Head(y) = y[1]  BY <2>1, <2>2
  <2>5. Head(y) = Head(l)
    <3>1. 1 \in 1..(Len(l) + Len(c)) /\ 1 <= Len(l)  BY <2>1
    <3>2. QED  BY <2>1, <2>2, <2>4, <3>1
  <2>6. /\ z \in Seq(S) /\ Len(z) = Len(y) - 1
        /\ \A i \in 1..Len(z) : z[i] = y[i + 1]
    BY <2>2, <2>4, HeadTailProperties
  <2> HIDE DEF z
  <2>7. Len(x) = Len(z) /\ Len(x) = Len(l) + Len(c) - 1  BY <2>1, <2>2, <2>3, <2>6
  <2>8. ASSUME NEW i \in 1..Len(x)  PROVE x[i] = z[i]
    <3>1. i + 1 \in 1..(Len(l) + Len(c)) /\ i \in 1..(Len(t) + Len(c)) /\ z[i] = y[i + 1]
      BY <2>1, <2>3, <2>6, <2>7
    <3>2. CASE i <= Len(t)
      <4>1. i + 1 <= Len(l) /\ i \in 1..(Len(l) - 1)  BY <2>1, <3>2
      <4>2. QED  BY <2>1, <2>2, <2>3, <3>1, <3>2, <4>1
    <3>3. CASE ~(i <= Len(t))
      <4>1. ~(i + 1 <= Len(l)) /\ (i + 1) - Len(l) = i - Len(t)  BY <2>1, <3>1, <3>3
      <4>2. QED  BY <2>2, <2>3, <3>1, <3>3, <4>1
    <3>4. QED  BY <3>2, <3>3
  <2>9. x = z  BY <2>3, <2>6, <2>7, <2>8, SeqEqual
  <2>10. QED  BY <2>4, <2>5, <2>9 DEF x, y, z, t
<1>5. Len(l) <= Len(l \o c) /\ \A j \in 1..Len(l) : l[j] = (l \o c)[j]  OBVIOUS
<1>6. QED  BY <1>1, <1>2, <1>3, <1>4, <1>5

(* One more entry, counted. *)
LEMMA CountsAppend ==
  ASSUME NEW seq \in Seq(Outgoing), NEW m \in Outgoing, NEW f, Counts(f, seq)
  PROVE  \E g : /\ Counts(g, Append(seq, m))
                /\ \A j \in 0..Len(seq) : g[j] = f[j]
                /\ g[Len(seq) + 1] = IF m = Report THEN f[Len(seq)] + 1 ELSE f[Len(seq)]
<1> DEFINE n == Len(seq)
           last == IF m = Report THEN f[n] + 1 ELSE f[n]
           g == [j \in 0..(n + 1) |-> IF j = n + 1 THEN last ELSE f[j]]
           more == Append(seq, m)
<1>1. /\ n \in Nat /\ Len(more) = n + 1 /\ more[n + 1] = m
      /\ \A j \in 1..n : more[j] = seq[j]
  OBVIOUS
<1>2. /\ \A j \in 0..n : f[j] \in Int
      /\ f[0] = 0
      /\ \A j \in 1..n : f[j] = IF seq[j] = Report THEN f[j - 1] + 1 ELSE f[j - 1]
  BY DEF Counts
<1> HIDE DEF n, more
<1>3. n \in 0..n  BY <1>1
<1>4. last \in Int  BY <1>2, <1>3
<1> HIDE DEF last
<1>5. (\A j \in 0..n : g[j] = f[j]) /\ g[n + 1] = last  BY <1>1
<1>6. g \in [0..(n + 1) -> Int]  BY <1>1, <1>2, <1>4
<1> HIDE DEF g
<1>7. Counts(g, more)
  <2>1. g[0] = 0  BY <1>1, <1>2, <1>5
  <2>2. ASSUME NEW j \in 1..(n + 1)
        PROVE  g[j] = IF more[j] = Report THEN g[j - 1] + 1 ELSE g[j - 1]
    <3>1. CASE j = n + 1
      <4>1. j - 1 = n  BY <1>1, <3>1
      <4>2. QED  BY <1>1, <1>3, <1>5, <3>1, <4>1 DEF last
    <3>2. CASE j \in 1..n
      <4>1. j - 1 \in 0..n /\ j \in 0..n  BY <1>1, <3>2
      <4>2. QED  BY <1>1, <1>2, <1>5, <3>2, <4>1
    <3>3. QED  BY <1>1, <3>1, <3>2
  <2>3. QED  BY <1>1, <1>6, <2>1, <2>2 DEF Counts
<1>8. QED  BY <1>1, <1>5, <1>7 DEF last, n, more

(* The first entry gone, counted. *)
LEMMA CountsTail ==
  ASSUME NEW seq \in Seq(Outgoing), seq # <<>>, NEW f, Counts(f, seq)
  PROVE  \E g : /\ Counts(g, Tail(seq))
                /\ \A j \in 0..Len(Tail(seq)) : g[j] = f[j + 1] - f[1]
                /\ f[1] = IF Head(seq) = Report THEN 1 ELSE 0
<1> DEFINE n == Len(seq)
           rest == Tail(seq)
           g == [j \in 0..(n - 1) |-> f[j + 1] - f[1]]
<1>1. /\ n \in Nat /\ n # 0 /\ Len(rest) = n - 1 /\ seq[1] = Head(seq)
      /\ \A j \in 1..(n - 1) : rest[j] = seq[j + 1]
  OBVIOUS
<1>2. /\ \A j \in 0..n : f[j] \in Int
      /\ f[0] = 0
      /\ \A j \in 1..n : f[j] = IF seq[j] = Report THEN f[j - 1] + 1 ELSE f[j - 1]
  BY DEF Counts
<1> HIDE DEF n, rest
<1>3. 1 \in 1..n /\ 1 \in 0..n /\ 1 - 1 = 0  BY <1>1
<1>4. f[1] = IF Head(seq) = Report THEN 1 ELSE 0  BY <1>1, <1>2, <1>3
<1>5. \A j \in 0..(n - 1) : j + 1 \in 0..n /\ g[j] = f[j + 1] - f[1]  BY <1>1
<1>6. g \in [0..(n - 1) -> Int]  BY <1>1, <1>2, <1>3, <1>5
<1> HIDE DEF g
<1>7. Counts(g, rest)
  <2>1. g[0] = 0
    <3>1. 0 \in 0..(n - 1) /\ 0 + 1 = 1  BY <1>1
    <3>2. g[0] = f[1] - f[1]  BY <1>5, <3>1
    <3>3. QED  BY <1>2, <1>3, <3>2
  <2>2. ASSUME NEW j \in 1..(n - 1)
        PROVE  g[j] = IF rest[j] = Report THEN g[j - 1] + 1 ELSE g[j - 1]
    <3>1. /\ j \in 0..(n - 1) /\ j - 1 \in 0..(n - 1) /\ j + 1 \in 1..n
          /\ (j - 1) + 1 = j /\ (j + 1) - 1 = j /\ j \in 0..n
      BY <1>1
    <3>2. g[j] = f[j + 1] - f[1] /\ g[j - 1] = f[j] - f[1]  BY <1>5, <3>1
    <3>3. f[j + 1] = IF seq[j + 1] = Report THEN f[j] + 1 ELSE f[j]  BY <1>2, <3>1
    <3>4. rest[j] = seq[j + 1]  BY <1>1
    <3>5. f[j] \in Int /\ f[1] \in Int  BY <1>2, <1>3, <3>1
    <3>6. QED  BY <3>2, <3>3, <3>4, <3>5
  <2>3. QED  BY <1>1, <1>6, <2>1, <2>2 DEF Counts
<1>8. QED  BY <1>1, <1>4, <1>5, <1>7 DEF n, rest

LEMMA InitOrder == LinkInit => OrderInv
<1> SUFFICES ASSUME LinkInit  PROVE OrderInv  OBVIOUS
<1>1. Inv  BY InitInv
<1>2. Pipe = <<>> /\ Len(Pipe) = 0  BY DEF LinkInit, Pipe
<1>3. observed = 0 /\ recorded = 0 /\ madeAt \in [Calls -> Nat]  BY DEF LinkInit
<1>4. WereMade(Pipe)  BY <1>2 DEF WereMade
<1>5. Counts([j \in {0} |-> 0], Pipe) /\ Balance([j \in {0} |-> 0], Pipe)
  BY <1>2, <1>3 DEF Counts, Balance
<1>6. QED  BY <1>1, <1>3, <1>4, <1>5 DEF OrderInv

(* Most steps leave the pipe and what is counted alone; the end of the      *)
(* thread cuts the pipe short.                                             *)
LEMMA PipeStays ==
  ASSUME OrderInv, Inv', UNCHANGED <<observed, recorded>>,
         madeAt' \in [Calls -> Nat],
         \A call \in Calls : /\ made[call[1]] <= made'[call[1]]
                             /\ call[2] <= made[call[1]] => madeAt'[call] = madeAt[call],
         \/ Pipe' = Pipe /\ (ipc = "ended" => ipc' = "ended")
         \/ lines' = lines /\ channel' = <<>> /\ ipc' = "ended"
  PROVE  OrderInv'
<1>0. /\ lines \in Seq(Outgoing) /\ channel \in Seq(Outgoing)
      /\ made \in [Callers -> 0..MaxCalls] /\ made' \in [Callers -> 0..MaxCalls]
  BY DEF OrderInv, Inv, Types
<1>n. PICK n : n = Len(Pipe')  OBVIOUS
<1>1. /\ n \in Nat /\ Len(Pipe) \in Nat /\ n <= Len(Pipe)
      /\ \A j \in 1..n : Pipe'[j] = Pipe[j]
      /\ ipc' # "ended" => n = Len(Pipe) /\ ipc # "ended"
  <2>1. Report \in Outgoing  BY DEF Outgoing
  <2>2. Pipe \in Seq(Outgoing) /\ lines \o <<>> \in Seq(Outgoing)  BY <1>0 DEF Pipe
  <2>3. CASE Pipe' = Pipe /\ (ipc = "ended" => ipc' = "ended")  BY <1>n, <2>2, <2>3
  <2>4. CASE lines' = lines /\ channel' = <<>> /\ ipc' = "ended"
    <3>1. Pipe' = lines \o <<>>  BY <2>4 DEF Pipe
    <3>2. QED  BY <1>0, <1>n, <2>1, <2>2, <2>4, <3>1, PipeMoves DEF Pipe
  <2>5. QED  BY <1>n, <2>3, <2>4
<1>2. PICK f : Counts(f, Pipe) /\ Balance(f, Pipe)  BY DEF OrderInv
<1>g. PICK g : g = [j \in 0..n |-> f[j]]  OBVIOUS
<1>3. (\A j \in 0..n : g[j] = f[j] /\ j \in 0..Len(Pipe)) /\ n \in 0..n /\ 0 \in 0..n
  BY <1>1, <1>g
<1>4. g \in [0..n -> Int]
  <2>1. \A j \in 0..Len(Pipe) : f[j] \in Int  BY <1>2 DEF Counts
  <2>2. QED  BY <1>3, <1>g, <2>1
<1>5. ASSUME NEW j \in 1..n
      PROVE  g[j] = IF Pipe'[j] = Report THEN g[j - 1] + 1 ELSE g[j - 1]
  <2>1. j \in 0..n /\ j - 1 \in 0..n /\ j \in 1..Len(Pipe)  BY <1>1
  <2>2. f[j] = IF Pipe[j] = Report THEN f[j - 1] + 1 ELSE f[j - 1]
    BY <1>2, <2>1 DEF Counts
  <2>3. QED  BY <1>1, <1>3, <2>1, <2>2
<1>6. Counts(g, Pipe)'
  <2>1. g[0] = 0  BY <1>2, <1>3 DEF Counts
  <2>2. QED  BY <1>4, <1>5, <1>n, <2>1 DEF Counts, Report, NoCall
<1>7. ASSUME NEW j \in 1..n, NEW call \in Calls, Pipe'[j] = Decide(call)
      PROVE  madeAt'[call] <= recorded + g[j] /\ call[2] <= made'[call[1]]
  <2>1. j \in 0..n /\ j \in 1..Len(Pipe) /\ Pipe[j] = Decide(call)  BY <1>1, <1>7
  <2>2. madeAt[call] <= recorded + f[j] /\ call[2] <= made[call[1]]
    BY <1>2, <2>1 DEF Balance, OrderInv, WereMade
  <2>3. madeAt'[call] = madeAt[call] /\ g[j] = f[j]  BY <1>3, <2>1, <2>2
  <2>4. call[2] <= made'[call[1]]
    <3>1. call[1] \in Callers /\ call[2] \in Nat  BY DEF Calls
    <3>2. made[call[1]] \in Nat /\ made'[call[1]] \in Nat  BY <1>0, <3>1
    <3>3. made[call[1]] <= made'[call[1]]  OBVIOUS
    <3>4. QED  BY <2>2, <3>1, <3>2, <3>3
  <2>5. QED  BY <2>2, <2>3, <2>4
<1>8. ipc' # "ended" => observed = recorded + g[n]
  BY <1>1, <1>2, <1>3 DEF Balance
<1>9. Balance(g, Pipe)'  BY <1>7, <1>8, <1>n DEF Balance, Decide
<1>10. WereMade(Pipe)'  BY <1>7, <1>n DEF WereMade, Decide
<1>11. QED  BY <1>6, <1>9, <1>10 DEF OrderInv

(* What is handled leaves the front of the pipe, and is recorded if it is a *)
(* report.                                                                 *)
LEMMA PipeDrains ==
  ASSUME OrderInv, Inv', lines # <<>>, lines' = Tail(lines),
         UNCHANGED <<channel, observed, madeAt, made, ipc>>,
         recorded' = IF Head(lines) = Report THEN recorded + 1 ELSE recorded
  PROVE  OrderInv'
<1>0. lines \in Seq(Outgoing) /\ channel \in Seq(Outgoing)  BY DEF OrderInv, Inv, Types
<1>p. /\ Pipe \in Seq(Outgoing) /\ Pipe # <<>> /\ Pipe' = Tail(Pipe)
      /\ Head(Pipe) = Head(lines)
  <2>1. Report \in Outgoing  BY DEF Outgoing
  <2>2. QED  BY <1>0, <2>1, PipeMoves DEF Pipe
<1>1. PICK f : Counts(f, Pipe) /\ Balance(f, Pipe)  BY DEF OrderInv
<1>2. PICK g : /\ Counts(g, Tail(Pipe))
               /\ \A j \in 0..Len(Tail(Pipe)) : g[j] = f[j + 1] - f[1]
               /\ f[1] = IF Head(Pipe) = Report THEN 1 ELSE 0
  BY <1>p, <1>1, CountsTail
<1> DEFINE n == Len(Pipe)
           rest == Tail(Pipe)
<1>3. /\ n \in Nat /\ n # 0 /\ Len(rest) = n - 1
      /\ \A j \in 1..(n - 1) : rest[j] = Pipe[j + 1]
  BY <1>p
<1>4. \A j \in 0..n : f[j] \in Int  BY <1>1 DEF Counts
<1>5. recorded' = recorded + f[1] /\ recorded' \in Nat /\ recorded \in Nat /\ observed \in Nat
  BY <1>p, <1>2 DEF OrderInv
<1> HIDE DEF rest, n
<1>6. 1 \in 0..n /\ n \in 0..n /\ n - 1 \in 0..(n - 1) /\ (n - 1) + 1 = n  BY <1>3
<1>7. ipc' # "ended" => observed' = recorded' + g[Len(rest)]
  <2>1. g[n - 1] = f[n] - f[1]  BY <1>2, <1>3, <1>6 DEF rest
  <2>2. ipc # "ended" => observed = recorded + f[n]  BY <1>1 DEF Balance, n
  <2>3. f[n] \in Int /\ f[1] \in Int  BY <1>4, <1>6
  <2>4. QED  BY <1>3, <1>5, <2>1, <2>2, <2>3
<1>8. ASSUME NEW j \in 1..Len(rest), NEW call \in Calls, rest[j] = Decide(call)
      PROVE  madeAt[call] <= recorded' + g[j] /\ call[2] <= made[call[1]]
  <2>1. /\ j \in 1..(n - 1) /\ j \in 0..(n - 1) /\ j + 1 \in 1..n /\ j + 1 \in 0..n
    BY <1>3
  <2>2. Pipe[j + 1] = Decide(call)  BY <1>3, <1>8, <2>1
  <2>3. madeAt[call] <= recorded + f[j + 1] /\ call[2] <= made[call[1]]
    BY <1>1, <2>1, <2>2 DEF Balance, OrderInv, WereMade, n
  <2>4. g[j] = f[j + 1] - f[1]  BY <1>2, <1>3, <2>1 DEF rest
  <2>5. f[j + 1] \in Int /\ f[1] \in Int  BY <1>4, <1>6, <2>1
  <2>6. recorded' + g[j] = recorded + f[j + 1]  BY <1>5, <2>4, <2>5
  <2>7. QED  BY <2>3, <2>6
<1>9. Pipe' = rest  BY <1>p DEF rest
<1>10. Balance(g, Pipe)'  BY <1>7, <1>8, <1>9 DEF Balance, Decide
<1>11. WereMade(Pipe)'  BY <1>8, <1>9 DEF WereMade, Decide
<1>12. Counts(g, Pipe)'  BY <1>2, <1>9 DEF Counts, Report, NoCall, rest
<1>13. QED  BY <1>5, <1>10, <1>11, <1>12 DEF OrderInv

(* A report joins the pipe and is counted; a call joins it and remembers    *)
(* how many were.                                                          *)
LEMMA PipeFills ==
  ASSUME OrderInv, Inv', NEW m \in Outgoing, ipc # "ended",
         channel' = Append(channel, m), UNCHANGED <<lines, ipc, recorded>>,
         observed' = IF m = Report THEN observed + 1 ELSE observed,
         madeAt' \in [Calls -> Nat],
         \A call \in Calls : /\ made[call[1]] <= made'[call[1]]
                             /\ call[2] <= made[call[1]] => madeAt'[call] = madeAt[call]
                             /\ m = Decide(call) => madeAt'[call] = observed
                                                    /\ call[2] <= made'[call[1]]
  PROVE  OrderInv'
<1>0. /\ lines \in Seq(Outgoing) /\ channel \in Seq(Outgoing)
      /\ made \in [Callers -> 0..MaxCalls] /\ made' \in [Callers -> 0..MaxCalls]
  BY DEF OrderInv, Inv, Types
<1>p. Pipe \in Seq(Outgoing) /\ Pipe' = Append(Pipe, m)
  BY <1>0, PipeMoves DEF Pipe
<1>1. PICK f : Counts(f, Pipe) /\ Balance(f, Pipe)  BY DEF OrderInv
<1>2. PICK g : /\ Counts(g, Append(Pipe, m))
               /\ \A j \in 0..Len(Pipe) : g[j] = f[j]
               /\ g[Len(Pipe) + 1] = IF m = Report THEN f[Len(Pipe)] + 1 ELSE f[Len(Pipe)]
  BY <1>p, <1>1, CountsAppend
<1> DEFINE n == Len(Pipe)
           more == Append(Pipe, m)
<1>3. /\ n \in Nat /\ Len(more) = n + 1 /\ more[n + 1] = m
      /\ \A j \in 1..n : more[j] = Pipe[j]
  BY <1>p
<1> HIDE DEF more, n
<1>4. n \in 0..n /\ f[n] \in Int  BY <1>1, <1>3 DEF Counts, n
<1>5. observed \in Nat /\ recorded \in Nat /\ observed = recorded + f[n]
  BY <1>1 DEF OrderInv, Balance, n
<1>6. g[n + 1] = IF m = Report THEN f[n] + 1 ELSE f[n]  BY <1>2 DEF n
<1>7. observed' = recorded' + g[Len(more)] /\ observed' \in Nat
  BY <1>3, <1>4, <1>5, <1>6
<1>8. ASSUME NEW j \in 1..Len(more), NEW call \in Calls, more[j] = Decide(call)
      PROVE  madeAt'[call] <= recorded' + g[j] /\ call[2] <= made'[call[1]]
  <2>1. CASE j = n + 1
    <3>1. m = Decide(call)  BY <1>3, <1>8, <2>1
    <3>2. madeAt'[call] = observed /\ call[2] <= made'[call[1]]  BY <3>1
    <3>3. g[j] = f[n]  BY <1>6, <2>1, <3>1, DecideIsNoReport
    <3>4. observed <= recorded + f[n]  BY <1>4, <1>5
    <3>5. QED  BY <3>2, <3>3, <3>4
  <2>2. CASE j \in 1..n
    <3>1. Pipe[j] = Decide(call) /\ j \in 0..n  BY <1>3, <1>8, <2>2
    <3>2. madeAt[call] <= recorded + f[j] /\ call[2] <= made[call[1]]
      BY <1>1, <2>2, <3>1 DEF Balance, OrderInv, WereMade, n
    <3>3. g[j] = f[j]  BY <1>2, <3>1 DEF n
    <3>4. madeAt'[call] = madeAt[call]  BY <3>2
    <3>5. call[2] <= made'[call[1]]
      <4>1. call[1] \in Callers /\ call[2] \in Nat  BY DEF Calls
      <4>2. made[call[1]] \in Nat /\ made'[call[1]] \in Nat  BY <1>0, <4>1
      <4>3. made[call[1]] <= made'[call[1]]  OBVIOUS
      <4>4. QED  BY <3>2, <4>1, <4>2, <4>3
    <3>6. QED  BY <3>2, <3>3, <3>4, <3>5
  <2>3. QED  BY <1>3, <2>1, <2>2
<1>9. Pipe' = more  BY <1>p DEF more
<1>10. Balance(g, Pipe)'  BY <1>7, <1>8, <1>9 DEF Balance, Decide
<1>11. WereMade(Pipe)'  BY <1>8, <1>9 DEF WereMade, Decide
<1>12. Counts(g, Pipe)'  BY <1>2, <1>9 DEF Counts, Report, NoCall, more
<1>13. QED  BY <1>5, <1>7, <1>10, <1>11, <1>12 DEF OrderInv

LEMMA StepOrder == OrderInv /\ [LinkNext]_linkVars => OrderInv'
<1> SUFFICES ASSUME OrderInv, [LinkNext]_linkVars  PROVE OrderInv'  OBVIOUS
<1>0. Inv /\ Inv'  BY StepInv DEF OrderInv
<1>t. /\ made \in [Callers -> 0..MaxCalls] /\ madeAt \in [Calls -> Nat]
      /\ lines \in Seq(Outgoing) /\ channel \in Seq(Outgoing)
      /\ observed \in Nat /\ recorded \in Nat
  BY <1>0 DEF OrderInv, Inv, Types
<1>m. ASSUME UNCHANGED <<made, madeAt>>
      PROVE  /\ madeAt' \in [Calls -> Nat]
             /\ \A call \in Calls : /\ made[call[1]] <= made'[call[1]]
                                    /\ call[2] <= made[call[1]] => madeAt'[call] = madeAt[call]
  <2>1. ASSUME NEW call \in Calls  PROVE made[call[1]] <= made'[call[1]]
    <3>1. call[1] \in Callers  BY DEF Calls
    <3>2. made[call[1]] \in Nat  BY <1>t, <3>1
    <3>3. QED  BY <1>m, <3>2
  <2>2. QED  BY <1>m, <1>t, <2>1
<1>1. ASSUME NEW c \in Callers, MakeCall(c)  PROVE OrderInv'
  <2> DEFINE new == <<c, made[c] + 1>>
  <2>1. /\ new \in Calls /\ made' = [made EXCEPT ![c] = made[c] + 1]
        /\ madeAt' = [madeAt EXCEPT ![new] = observed]
        /\ UNCHANGED <<lines, ipc, observed, recorded>>
        /\ made[c] \in Nat
    BY <1>1, <1>t DEF MakeCall, Calls
  <2>2. madeAt' \in [Calls -> Nat]  BY <1>t, <2>1
  <2>3. ASSUME NEW call \in Calls
        PROVE  /\ made[call[1]] <= made'[call[1]]
               /\ call[2] <= made[call[1]] => madeAt'[call] = madeAt[call]
               /\ call = new => madeAt'[call] = observed /\ call[2] <= made'[call[1]]
    <3>1. call[1] \in Callers /\ call[2] \in Nat  BY DEF Calls
    <3>2. made[call[1]] \in Nat  BY <1>t, <3>1
    <3>3. made'[call[1]] = IF call[1] = c THEN made[c] + 1 ELSE made[call[1]]
      BY <1>t, <2>1, <3>1
    <3>4. madeAt'[call] = IF call = new THEN observed ELSE madeAt[call]
      BY <1>t, <2>1
    <3>5. new[1] = c /\ new[2] = made[c] + 1  OBVIOUS
    <3> HIDE DEF new
    <3>6. made[call[1]] <= made'[call[1]]  BY <2>1, <3>2, <3>3
    <3>7. call[2] <= made[call[1]] => call # new
      BY <2>1, <3>5
    <3>8. call = new => call[2] <= made'[call[1]]  BY <2>1, <3>3, <3>5
    <3>9. QED  BY <3>4, <3>6, <3>7, <3>8
  <2> HIDE DEF new
  <2>4. CASE channel' = channel
    <3>1. Pipe' = Pipe  BY <2>1, <2>4 DEF Pipe
    <3>2. QED  BY <1>0, <2>1, <2>2, <2>3, <3>1, PipeStays
  <2>5. CASE channel' = Append(channel, Decide(new)) /\ ipc # "ended"
    <3>1. Decide(new) \in Outgoing  BY <2>1 DEF Outgoing
    <3>2. \A call \in Calls : Decide(new) = Decide(call) => call = new  BY DEF Decide
    <3>3. observed' = IF Decide(new) = Report THEN observed + 1 ELSE observed
      BY <2>1, DecideIsNoReport
    <3>4. QED  BY <1>0, <2>1, <2>2, <2>3, <2>5, <3>1, <3>2, <3>3, PipeFills
  <2>6. QED  BY <1>1, <2>4, <2>5 DEF MakeCall, Enqueue, new
<1>2. CASE Observe
  <2>1. /\ observed' = observed + 1 /\ UNCHANGED <<lines, ipc, recorded, made, madeAt>>
        /\ \/ ipc = "ended" /\ channel' = channel
           \/ ipc # "ended" /\ channel' = Append(channel, Report)
    BY <1>2 DEF Observe, callerVars
  <2>2. CASE ipc = "ended" /\ channel' = channel
    <3>1. Pipe' = Pipe /\ ipc' = "ended"  BY <2>1, <2>2 DEF Pipe
    <3>2. PICK f : Counts(f, Pipe) /\ Balance(f, Pipe)  BY DEF OrderInv
    <3>3. Counts(f, Pipe)'  BY <3>1, <3>2 DEF Counts, Report, NoCall
    <3>4. Balance(f, Pipe)'  BY <2>1, <3>1, <3>2 DEF Balance, Decide
    <3>5. WereMade(Pipe)'  BY <2>1, <3>1 DEF OrderInv, WereMade, Decide
    <3>6. QED  BY <1>0, <1>t, <2>1, <3>3, <3>4, <3>5 DEF OrderInv
  <2>3. CASE ipc # "ended" /\ channel' = Append(channel, Report)
    <3>1. Report \in Outgoing  BY DEF Outgoing
    <3>2. \A call \in Calls : Report # Decide(call)  BY DecideIsNoReport
    <3>3. UNCHANGED <<made, madeAt, lines, ipc, recorded>>  BY <2>1
    <3>4. observed' = IF Report = Report THEN observed + 1 ELSE observed  BY <2>1
    <3>5. QED  BY <1>0, <1>m, <2>3, <3>1, <3>2, <3>3, <3>4, PipeFills
  <2>4. QED  BY <2>1, <2>2, <2>3
<1>3. CASE TakeOutgoing
  <2>1. /\ Pipe' = Pipe /\ ipc = "idle" /\ UNCHANGED <<made, madeAt, observed, recorded>>
    <3>1. channel # <<>> /\ channel' = Tail(channel) /\ lines' = Append(lines, Head(channel))
          /\ ipc = "idle" /\ UNCHANGED <<made, madeAt, observed, recorded>>
      BY <1>3 DEF TakeOutgoing, callerVars, histVars
    <3>2. Report \in Outgoing  BY DEF Outgoing
    <3>3. Append(lines, Head(channel)) \o Tail(channel) = lines \o channel
      BY <1>t, <3>1, <3>2, PipeMoves
    <3>4. QED  BY <3>1, <3>3 DEF Pipe
  <2>2. QED  BY <1>0, <1>m, <2>1, PipeStays
<1>4. CASE ReadFails
  <2>1. /\ UNCHANGED <<made, madeAt, observed, recorded, lines>>
        /\ channel' = <<>> /\ ipc' = "ended"
    BY <1>4 DEF ReadFails, callerVars, histVars
  <2>2. QED  BY <1>0, <1>m, <2>1, PipeStays
<1>5. CASE Record \/ Rule
  <2>1. /\ lines # <<>> /\ lines' = Tail(lines)
        /\ UNCHANGED <<channel, observed, made, madeAt, ipc>>
        /\ recorded' = IF Head(lines) = Report THEN recorded + 1 ELSE recorded
    BY <1>5 DEF Record, Rule, callerVars, histVars
  <2>2. QED  BY <1>0, <2>1, PipeDrains
<1>6. CASE \/ ReadReply \/ Resolve \/ Stall \/ ServiceDies \/ Tick \/ UNCHANGED linkVars
           \/ \E c \in Callers : GiveUp(c)
           \/ \E t \in Timeouts : Reload(t)
  <2>1. /\ UNCHANGED <<lines, channel, made, madeAt, observed, recorded>>
        /\ ipc = "ended" => ipc' = "ended"
    BY <1>6 DEF ReadReply, Resolve, Stall, ServiceDies, Tick, GiveUp, Reload, linkVars,
                callerVars, wireVars, histVars
  <2>2. Pipe' = Pipe  BY <2>1 DEF Pipe
  <2>3. QED  BY <1>0, <1>m, <2>1, <2>2, PipeStays
<1>7. QED  BY <1>1, <1>2, <1>3, <1>4, <1>5, <1>6 DEF LinkNext, Ipc

(* A call is ruled on only after everything reported before it is recorded. *)
THEOREM ReportsAreAhead == LinkSpec => ReportsComeFirst
<1>1. ASSUME OrderInv, [LinkNext]_linkVars, Rule
      PROVE  recorded >= madeAt[Head(lines)[2]]
  <2>1. /\ lines # <<>> /\ Head(lines) # Report /\ lines \in Seq(Outgoing)
        /\ channel \in Seq(Outgoing)
    BY <1>1 DEF Rule, OrderInv, Inv, Types
  <2>2. PICK call \in Calls : Head(lines) = Decide(call)  BY <2>1 DEF Outgoing
  <2>3. Head(lines)[2] = call  BY <2>2 DEF Decide
  <2>4. Pipe \in Seq(Outgoing) /\ Pipe # <<>> /\ Head(Pipe) = Decide(call)
    <3>1. Report \in Outgoing  BY DEF Outgoing
    <3>2. QED  BY <2>1, <2>2, <3>1, PipeMoves DEF Pipe
  <2>5. PICK f : Counts(f, Pipe) /\ Balance(f, Pipe)  BY <1>1 DEF OrderInv
  <2>6. 1 \in 1..Len(Pipe) /\ Pipe[1] = Decide(call)  BY <2>4
  <2>7. f[1] = 0  BY <2>5, <2>6, DecideIsNoReport DEF Counts
  <2>8. madeAt[call] <= recorded + f[1]  BY <2>5, <2>6 DEF Balance
  <2>9. madeAt[call] \in Nat /\ recorded \in Nat  BY <1>1 DEF OrderInv
  <2>10. QED  BY <2>3, <2>7, <2>8, <2>9
<1>2. OrderInv /\ [LinkNext]_linkVars
        => [Rule => recorded >= madeAt[Head(lines)[2]]]_linkVars
  BY <1>1
<1>3. QED  BY InitOrder, StepOrder, <1>2, PTL DEF LinkSpec, ReportsComeFirst
-----------------------------------------------------------------------------
(* No call is given up but for a reason.                                   *)

Calm == ~failed /\ ~raised /\ ~overlapped

(* One request among reports. *)
Named(seq, call) ==
  \E i \in 1..Len(seq) : /\ seq[i] = Decide(call)
                         /\ \A j \in 1..Len(seq) : j # i => seq[j] = Report

Measured ==
  /\ askTimeout \in Timeouts /\ limit \in Nat /\ promptLimit \in Nat
  /\ age \in [Timers -> Nat]
  /\ waiting \subseteq Callers

(* While it is calm both ends are alive and nobody has given up. *)
Running ==
  /\ ipc \in {"idle", "reading"} /\ conn \in {"reading", "asking"} /\ ~stalled /\ ~degraded
  /\ \A call \in Calls : outcome[call] # "error"

(* The limit leaves TIMEOUT_MARGIN beyond what a person may take. *)
Limits ==
  /\ askTimeout + Margin <= limit
  /\ conn = "asking" => promptLimit + Margin <= limit /\ age["prompt"] <= promptLimit
  /\ age["lines"] <= Transit /\ age["replies"] <= Transit

(* One caller waits at most; the thread takes its request at once, and has  *)
(* waited for the reply exactly as long as the caller.                     *)
OneWaits == \A c, d \in waiting : c = d
WhenIdle ==
  ipc = "idle" =>
    /\ waiting = {} => OnlyReports(channel)
    /\ \A c \in waiting : Named(channel, Latest(c)) /\ age[c] = 0
WhenReading ==
  ipc = "reading" =>
    /\ ipcCall[1] \in waiting /\ ipcCall = Latest(ipcCall[1])
    /\ OnlyReports(channel)
    /\ age[ipcCall[1]] = age["read"]

(* What the reader has waited is no more than the line took to arrive, then *)
(* the person to answer, then the reply to come back.                      *)
InTime ==
  ipc = "reading" =>
    /\ conn = "reading" /\ replies = <<>> => Written(ipcCall) /\ age["read"] <= age["lines"]
    /\ conn = "asking" => age["read"] <= Transit + age["prompt"]
    /\ replies # <<>> => age["read"] + Margin <= limit + Transit + age["replies"]

Served == Running /\ Limits /\ OneWaits /\ WhenIdle /\ WhenReading /\ InTime

PatienceInv == Inv /\ Measured /\ (Calm => Served)

LEMMA NumbersOfTime ==
  /\ Margin \in Nat /\ Transit \in Nat /\ 2 * Transit < Margin
  /\ \A t \in Timeouts : t \in Nat
  /\ {"read", "prompt", "lines", "replies"} \subseteq Timers /\ Callers \subseteq Timers
  /\ \A c \in Callers : c \notin {"read", "prompt", "lines", "replies"}
BY TimersAssumption DEF Timers, Clocks

LEMMA NamedOnJoining ==
  ASSUME NEW seq \in Seq(Outgoing), OnlyReports(seq), NEW call \in Calls
  PROVE  Named(Append(seq, Decide(call)), call)
<1> DEFINE more == Append(seq, Decide(call))
<1>1. Decide(call) \in Outgoing  BY DEF Outgoing
<1>2. /\ Len(more) = Len(seq) + 1 /\ Len(seq) \in Nat
      /\ more[Len(seq) + 1] = Decide(call)
      /\ \A i \in 1..Len(seq) : more[i] = seq[i]
  BY <1>1
<1> HIDE DEF more
<1>3. Len(seq) + 1 \in 1..Len(more)  BY <1>2
<1>4. \A j \in 1..Len(more) : j # Len(seq) + 1 => more[j] = Report
  BY <1>2 DEF OnlyReports
<1>5. Named(more, call)  BY <1>2, <1>3, <1>4 DEF Named
<1>6. QED  BY <1>5 DEF more

LEMMA ReportsJoin ==
  ASSUME NEW seq \in Seq(Outgoing)
  PROVE  /\ OnlyReports(seq) => OnlyReports(Append(seq, Report))
         /\ \A call : Named(seq, call) => Named(Append(seq, Report), call)
<1> DEFINE more == Append(seq, Report)
<1>1. Report \in Outgoing  BY DEF Outgoing
<1>2. /\ Len(more) = Len(seq) + 1 /\ Len(seq) \in Nat
      /\ more[Len(seq) + 1] = Report
      /\ \A i \in 1..Len(seq) : more[i] = seq[i]
  BY <1>1
<1> HIDE DEF more
<1>3. OnlyReports(seq) => OnlyReports(more)  BY <1>2 DEF OnlyReports
<1>4. ASSUME NEW call, Named(seq, call)  PROVE Named(more, call)
  <2>1. PICK i \in 1..Len(seq) : /\ seq[i] = Decide(call)
                                 /\ \A j \in 1..Len(seq) : j # i => seq[j] = Report
    BY <1>4 DEF Named
  <2>2. i \in 1..Len(more) /\ more[i] = Decide(call)  BY <1>2, <2>1
  <2>3. \A j \in 1..Len(more) : j # i => more[j] = Report  BY <1>2, <2>1
  <2>4. QED  BY <2>2, <2>3 DEF Named
<1>5. QED  BY <1>3, <1>4 DEF more

LEMMA NamedAtHead ==
  ASSUME NEW seq \in Seq(Outgoing), seq # <<>>, NEW call, Named(seq, call)
  PROVE  /\ Head(seq) = Report => Named(Tail(seq), call)
         /\ Head(seq) # Report => Head(seq) = Decide(call) /\ OnlyReports(Tail(seq))
<1>1. PICK i \in 1..Len(seq) : /\ seq[i] = Decide(call)
                               /\ \A j \in 1..Len(seq) : j # i => seq[j] = Report
  BY DEF Named
<1> DEFINE rest == Tail(seq)
<1>2. /\ Len(seq) \in Nat /\ Len(rest) = Len(seq) - 1 /\ Head(seq) = seq[1]
      /\ \A j \in 1..Len(rest) : rest[j] = seq[j + 1]
  OBVIOUS
<1> HIDE DEF rest
<1>3. CASE i = 1
  <2>1. OnlyReports(rest)  BY <1>1, <1>2, <1>3 DEF OnlyReports
  <2>2. QED  BY <1>1, <1>2, <1>3, <2>1, DecideIsNoReport DEF rest
<1>4. CASE i # 1
  <2>1. Head(seq) = Report  BY <1>1, <1>2, <1>4
  <2>2. i - 1 \in 1..Len(rest) /\ rest[i - 1] = Decide(call)  BY <1>1, <1>2, <1>4
  <2>3. \A j \in 1..Len(rest) : j # i - 1 => rest[j] = Report  BY <1>1, <1>2
  <2>4. QED  BY <2>1, <2>2, <2>3 DEF Named, rest
<1>5. QED  BY <1>3, <1>4

LEMMA InitPatience == LinkInit => PatienceInv
<1> SUFFICES ASSUME LinkInit  PROVE PatienceInv  OBVIOUS
<1> USE NumbersOfTime
<1>1. Inv  BY InitInv
<1>2. Measured
  <2>1. askTimeout \in Nat /\ limit = askTimeout + Margin  BY DEF LinkInit, Limit
  <2>2. limit \in Nat  BY <2>1
  <2>3. QED  BY <2>2 DEF LinkInit, Measured
<1>3. Running  BY DEF LinkInit, Running
<1>4. Limits
  <2>1. askTimeout \in Nat /\ limit = askTimeout + Margin  BY DEF LinkInit, Limit
  <2>2. QED  BY <2>1 DEF LinkInit, Limits
<1>5. WhenIdle  BY DEF LinkInit, WhenIdle, OnlyReports
<1>6. OneWaits /\ WhenReading /\ InTime  BY DEF LinkInit, OneWaits, WhenReading, InTime
<1>7. QED  BY <1>1, <1>2, <1>3, <1>4, <1>5, <1>6 DEF PatienceInv, Served

LEMMA StepMeasured ==
  ASSUME Measured, Inv, [LinkNext]_linkVars
  PROVE  Measured'
<1> USE NumbersOfTime DEF Measured
<1>r. ASSUME NEW call, Reply(call)  PROVE age' \in [Timers -> Nat]
  <2>1. Started("replies", replies) \in [Timers -> Nat]  BY DEF Started
  <2>2. age' = [Started("replies", replies) EXCEPT !["lines"] = 0]  BY <1>r DEF Reply
  <2>3. QED  BY <2>1, <2>2
<1>1. ASSUME NEW c \in Callers, MakeCall(c) \/ GiveUp(c)  PROVE Measured'
  BY <1>1 DEF MakeCall, GiveUp, connVars, histVars
<1>2. CASE Observe \/ Record \/ Stall \/ ServiceDies \/ ReadFails \/ UNCHANGED linkVars
  BY <1>2 DEF Observe, Record, Stall, ServiceDies, ReadFails, linkVars, callerVars, connVars,
              histVars
<1>3. CASE TakeOutgoing
  <2>1. Started("lines", lines) \in [Timers -> Nat]  BY DEF Started
  <2>2. age' \in {Started("lines", lines), [Started("lines", lines) EXCEPT !["read"] = 0]}
    BY <1>3 DEF TakeOutgoing
  <2>3. age' \in [Timers -> Nat]  BY <2>1, <2>2
  <2>4. QED  BY <1>3, <2>3 DEF TakeOutgoing, callerVars, connVars
<1>4. CASE ReadReply
  BY <1>4 DEF ReadReply, connVars
<1>5. CASE Rule
  <2>1. age' \in [Timers -> Nat]
    <3>1. Reply(Head(lines)[2]) => age' \in [Timers -> Nat]  BY <1>r
    <3>2. QED  BY <1>5, <3>1 DEF Rule
  <2>2. promptLimit' \in Nat  BY <1>5 DEF Rule
  <2>3. QED  BY <1>5, <2>1, <2>2 DEF Rule, callerVars
<1>6. CASE Resolve
  <2>1. age' \in [Timers -> Nat]  BY <1>6, <1>r DEF Resolve
  <2>2. QED  BY <1>6, <2>1 DEF Resolve, callerVars
<1>7. ASSUME NEW t \in Timeouts, Reload(t)  PROVE Measured'
  BY <1>7 DEF Reload, callerVars
<1>8. CASE Tick
  <2>1. age' \in [Timers -> Nat]
    <3>1. age' = [t \in Timers |-> IF t \in Counting THEN age[t] + 1 ELSE age[t]]
      BY <1>8 DEF Tick
    <3>2. \A t \in Timers : age[t] \in Nat /\ age[t] + 1 \in Nat  OBVIOUS
    <3>3. QED  BY <3>1, <3>2
  <2>2. QED  BY <1>8, <2>1 DEF Tick, callerVars, connVars
<1>9. QED  BY <1>1, <1>2, <1>3, <1>4, <1>5, <1>6, <1>7, <1>8 DEF LinkNext, Ipc

(* While it is calm the reader has not run out of time. *)
LEMMA ReadIsInTime ==
  ASSUME PatienceInv, Calm, ipc = "reading"
  PROVE  age["read"] < limit
<1> USE NumbersOfTime
<1>1. /\ limit \in Nat /\ promptLimit \in Nat /\ askTimeout \in Nat
      /\ age["read"] \in Nat /\ age["prompt"] \in Nat /\ age["lines"] \in Nat
      /\ age["replies"] \in Nat
  BY DEF PatienceInv, Measured
<1>2. Served  BY DEF PatienceInv
<1>3. askTimeout + Margin <= limit /\ age["lines"] <= Transit /\ age["replies"] <= Transit
  BY <1>2 DEF Served, Limits
<1>4. CASE conn = "reading" /\ replies = <<>>
  <2>1. age["read"] <= age["lines"]  BY <1>2, <1>4 DEF Served, InTime
  <2>2. QED  BY <1>1, <1>3, <2>1
<1>5. CASE conn = "asking"
  <2>1. age["read"] <= Transit + age["prompt"]  BY <1>2, <1>5 DEF Served, InTime
  <2>2. promptLimit + Margin <= limit /\ age["prompt"] <= promptLimit
    BY <1>2, <1>5 DEF Served, Limits
  <2>3. QED  BY <1>1, <2>1, <2>2
<1>6. CASE replies # <<>>
  <2>1. age["read"] + Margin <= limit + Transit + age["replies"]
    BY <1>2, <1>6 DEF Served, InTime
  <2>2. QED  BY <1>1, <1>3, <2>1
<1>7. conn \in {"reading", "asking"}  BY <1>2 DEF Served, Running
<1>8. QED  BY <1>4, <1>5, <1>6, <1>7

LEMMA NobodyGivesUp ==
  ASSUME PatienceInv, Calm
  PROVE  ~ReadFails /\ \A c \in Callers : ~GiveUp(c)
<1> USE NumbersOfTime
<1>1. Served /\ limit \in Nat  BY DEF PatienceInv, Measured
<1>2. ipc \in {"idle", "reading"} /\ conn # "dead"  BY <1>1 DEF Served, Running
<1>3. ASSUME ReadFails  PROVE FALSE
  <2>1. ipc = "reading" /\ age["read"] = limit  BY <1>2, <1>3 DEF ReadFails
  <2>2. age["read"] < limit  BY <2>1, ReadIsInTime
  <2>3. QED  BY <1>1, <2>1, <2>2
<1>4. ASSUME NEW c \in Callers, GiveUp(c)  PROVE FALSE
  <2>1. c \in waiting /\ age[c] = limit  BY <1>2, <1>4 DEF GiveUp
  <2>2. CASE ipc = "idle"
    <3>1. age[c] = 0  BY <1>1, <2>1, <2>2 DEF Served, WhenIdle
    <3>2. askTimeout + Margin <= limit /\ askTimeout \in Nat
      BY <1>1 DEF Served, Limits, PatienceInv, Measured
    <3>3. QED  BY <1>1, <2>1, <3>1, <3>2
  <2>3. CASE ipc = "reading"
    <3>1. ipcCall[1] \in waiting /\ age[ipcCall[1]] = age["read"]
      BY <1>1, <2>3 DEF Served, WhenReading
    <3>2. c = ipcCall[1]  BY <1>1, <2>1, <3>1 DEF Served, OneWaits
    <3>3. age["read"] < limit  BY <2>3, ReadIsInTime
    <3>4. QED  BY <1>1, <2>1, <3>1, <3>2, <3>3
  <2>4. QED  BY <1>2, <2>2, <2>3
<1>5. QED  BY <1>3, <1>4

(* What a step may leave alone. *)
LEMMA StillServed ==
  ASSUME Served, UNCHANGED <<askTimeout, limit, degraded, made, waiting, outcome, ipc, ipcCall,
                             conn, promptLimit, stalled, age>>
  PROVE  /\ Running' /\ Limits' /\ OneWaits'
         /\ UNCHANGED channel => WhenIdle' /\ WhenReading'
         /\ UNCHANGED <<lines, replies>> => InTime'
<1> USE DEF Served
<1>1. Running'  BY DEF Running
<1>2. Limits'  BY DEF Limits
<1>3. OneWaits'  BY DEF OneWaits
<1>4. ASSUME UNCHANGED channel  PROVE WhenIdle' /\ WhenReading'
  <2>1. WhenReading'
    BY <1>4 DEF WhenReading, OnlyReports, Latest, Report, NoCall
  <2>2. OnlyReports(channel)' = OnlyReports(channel)
    BY <1>4 DEF OnlyReports, Report, NoCall
  <2>3. \A c \in waiting : Named(channel, Latest(c))' = Named(channel, Latest(c))
    BY <1>4 DEF Named, Latest, Decide, Report, NoCall
  <2>4. QED  BY <2>1, <2>2, <2>3 DEF WhenIdle
<1>5. ASSUME UNCHANGED <<lines, replies>>  PROVE InTime'
  <2>1. Written(ipcCall)' = Written(ipcCall)
    BY <1>5 DEF Written, Decide, Report, NoCall
  <2>2. QED  BY <1>5, <2>1 DEF InTime
<1>6. QED  BY <1>1, <1>2, <1>3, <1>4, <1>5

LEMMA MakeCallServed ==
  ASSUME PatienceInv, Calm, Calm', NEW c \in Callers, MakeCall(c)
  PROVE  Served'
<1> DEFINE call == <<c, made[c] + 1>>
<1> USE NumbersOfTime
<1>1. Served /\ Measured /\ made \in [Callers -> 0..MaxCalls] /\ channel \in Seq(Outgoing)
  BY DEF PatienceInv, Inv, Types
<1>2. waiting = {} /\ ~degraded /\ ipc \in {"idle", "reading"}
  BY <1>1 DEF MakeCall, Calm, Served, Running
<1>3. ipc = "idle" /\ OnlyReports(channel)
  BY <1>1, <1>2 DEF Served, WhenReading, WhenIdle
<1>4. /\ channel' = Append(channel, Decide(call)) /\ waiting' = {c}
      /\ age' = [age EXCEPT ![c] = 0]
      /\ made' = [made EXCEPT ![c] = made[c] + 1]
      /\ UNCHANGED <<limit, askTimeout, conn, stalled, promptLimit, ipc, degraded, outcome>>
  BY <1>2, <1>3 DEF MakeCall, Enqueue, connVars
<1>5. call \in Calls /\ Latest(c)' = call
  <2>1. made[c] \in Nat /\ made[c] < MaxCalls /\ made'[c] = made[c] + 1
    BY <1>1, <1>4 DEF MakeCall
  <2>2. QED  BY <2>1 DEF Calls, Latest
<1>6. age'[c] = 0 /\ \A t \in {"read", "prompt", "lines", "replies"} : age'[t] = age[t]
  BY <1>1, <1>4 DEF Measured
<1> HIDE DEF call
<1>7. Named(channel, Latest(c))'
  <2>1. Named(Append(channel, Decide(call)), call)  BY <1>1, <1>3, <1>5, NamedOnJoining
  <2>2. QED  BY <1>4, <1>5, <2>1 DEF Named, Decide, Report, NoCall
<1>8. Running'  BY <1>1, <1>4 DEF Served, Running
<1>9. Limits'  BY <1>1, <1>4, <1>6 DEF Served, Limits
<1>10. OneWaits'  BY <1>4 DEF OneWaits
<1>11. WhenIdle'  BY <1>4, <1>6, <1>7 DEF WhenIdle
<1>12. WhenReading' /\ InTime'  BY <1>3, <1>4 DEF WhenReading, InTime
<1>13. QED  BY <1>8, <1>9, <1>10, <1>11, <1>12 DEF Served

LEMMA ObserveServed ==
  ASSUME PatienceInv, Calm, Observe
  PROVE  Served'
<1>1. Served /\ channel \in Seq(Outgoing)  BY DEF PatienceInv, Inv, Types
<1>2. /\ channel' = Append(channel, Report)
      /\ UNCHANGED <<askTimeout, limit, degraded, made, waiting, outcome, ipc, ipcCall,
                     conn, promptLimit, stalled, age, lines, replies>>
  BY <1>1 DEF Observe, callerVars, connVars, Served, Running
<1>3. Running' /\ Limits' /\ OneWaits' /\ InTime'  BY <1>1, <1>2, StillServed
<1>4. \A c \in Callers : Latest(c)' = Latest(c)  BY <1>2 DEF Latest
<1>5. /\ OnlyReports(channel) => OnlyReports(channel)'
      /\ \A call : Named(channel, call) => Named(channel', call)
  BY <1>1, <1>2, ReportsJoin DEF OnlyReports, Report, NoCall
<1>6. WhenIdle'
  <2>1. ASSUME ipc = "idle", waiting = {}  PROVE OnlyReports(channel)'
    BY <1>1, <1>5, <2>1 DEF Served, WhenIdle
  <2>2. ASSUME ipc = "idle", NEW c \in waiting
        PROVE  Named(channel', Latest(c)') /\ age'[c] = 0
    <3>1. Named(channel, Latest(c)) /\ age[c] = 0  BY <1>1, <2>2 DEF Served, WhenIdle
    <3>2. Latest(c)' = Latest(c)  BY <1>2 DEF Latest
    <3>3. QED  BY <1>2, <1>5, <3>1, <3>2
  <2>3. QED
    BY <1>2, <2>1, <2>2 DEF WhenIdle, Named, Latest, Decide, Report, NoCall
<1>7. WhenReading'
  BY <1>1, <1>2, <1>5 DEF Served, WhenReading, Latest
<1>8. QED  BY <1>3, <1>6, <1>7 DEF Served

LEMMA TakeOutgoingServed ==
  ASSUME PatienceInv, Calm, TakeOutgoing
  PROVE  Served'
<1> USE NumbersOfTime
<1> DEFINE started == Started("lines", lines)
<1>1. /\ Served /\ channel \in Seq(Outgoing) /\ lines \in Seq(Outgoing)
      /\ age \in [Timers -> Nat] /\ waiting \subseteq Callers
  BY DEF PatienceInv, Measured, Inv, Types
<1>2. /\ ipc = "idle" /\ channel # <<>> /\ channel' = Tail(channel)
      /\ lines' = Append(lines, Head(channel)) /\ lines' # <<>>
      /\ UNCHANGED <<askTimeout, limit, degraded, made, waiting, outcome, conn, promptLimit,
                     stalled, replies>>
  BY <1>1 DEF TakeOutgoing, callerVars, connVars
<1>3. /\ started \in [Timers -> Nat]
      /\ \A t \in Timers \ {"lines"} : started[t] = age[t]
      /\ started["lines"] \in {0, age["lines"]}
  BY <1>1 DEF Started
<1> HIDE DEF started
<1>4. /\ age' \in {started, [started EXCEPT !["read"] = 0]}
      /\ Head(channel) = Report => age' = started
      /\ Head(channel) # Report => age' = [started EXCEPT !["read"] = 0]
  BY DEF TakeOutgoing, started
<1>5. /\ \A t \in Timers \ {"read", "lines"} : age'[t] = age[t]
      /\ age'["lines"] \in {0, age["lines"]}
      /\ Head(channel) # Report => age'["read"] = 0
  BY <1>3, <1>4
<1>6. Running'
  <2>1. ipc' \in {"idle", "reading"}  BY <1>2 DEF TakeOutgoing
  <2>2. QED  BY <1>1, <1>2, <2>1 DEF Served, Running
<1>7. Limits'
  <2>1. age'["lines"] <= Transit  BY <1>1, <1>5 DEF Served, Limits
  <2>2. age'["prompt"] = age["prompt"] /\ age'["replies"] = age["replies"]  BY <1>5
  <2>3. QED  BY <1>1, <1>2, <2>1, <2>2 DEF Served, Limits
<1>8. OneWaits'  BY <1>1, <1>2 DEF Served, OneWaits
<1>c. \A c \in Callers : Latest(c)' = Latest(c) /\ age'[c] = age[c]
  BY <1>2, <1>5 DEF Latest
<1>9. CASE Head(channel) = Report
  <2>1. ipc' = "idle"  BY <1>2, <1>9 DEF TakeOutgoing
  <2>2. waiting = {} => OnlyReports(channel')
    BY <1>1, <1>2, TailOnlyReports DEF Served, WhenIdle
  <2>3. ASSUME NEW c \in waiting  PROVE Named(channel', Latest(c)') /\ age'[c] = 0
    <3>1. Named(channel, Latest(c)) /\ age[c] = 0  BY <1>1, <1>2 DEF Served, WhenIdle
    <3>2. Named(Tail(channel), Latest(c))  BY <1>1, <1>2, <1>9, <3>1, NamedAtHead
    <3>3. QED  BY <1>1, <1>2, <1>c, <3>1, <3>2
  <2>4. WhenIdle'
    BY <1>2, <2>2, <2>3 DEF WhenIdle, Named, OnlyReports, Latest, Decide, Report, NoCall
  <2>5. QED  BY <1>6, <1>7, <1>8, <2>1, <2>4 DEF Served, WhenReading, InTime
<1>10. CASE Head(channel) # Report
  <2>1. PICK c \in waiting : TRUE
    BY <1>1, <1>2, <1>10, TailOnlyReports DEF Served, WhenIdle
  <2>2. Named(channel, Latest(c)) /\ age[c] = 0  BY <1>1, <1>2 DEF Served, WhenIdle
  <2>3. Head(channel) = Decide(Latest(c)) /\ OnlyReports(channel')
    BY <1>1, <1>2, <1>10, <2>2, NamedAtHead
  <2>4. ipc' = "reading" /\ ipcCall' = Latest(c)
    BY <1>10, <2>3 DEF TakeOutgoing, Decide
  <2>5. ipcCall'[1] = c /\ ipcCall' = Latest(c)'
    BY <1>1, <1>c, <2>4 DEF Latest
  <2>6. age'[c] = 0 /\ age'["read"] = 0  BY <1>1, <1>5, <1>10, <1>c, <2>2
  <2>7. WhenReading'
    BY <1>2, <2>3, <2>5, <2>6 DEF WhenReading, OnlyReports, Latest, Report, NoCall
  <2>8. WhenIdle'  BY <2>4 DEF WhenIdle
  <2>9. InTime'
    <3>1. age'["lines"] \in Nat /\ age'["prompt"] \in Nat  BY <1>1, <1>5
    <3>2. OnlyReports(lines) /\ replies = <<>> /\ conn # "asking"
      BY <1>2 DEF PatienceInv, Inv, OneUnderWay
    <3>3. PICK call \in Calls : call = Latest(c)
      BY <2>4, TakeOutgoingInv DEF PatienceInv, Inv, Types
    <3>4. Written(call)'  BY <1>1, <1>2, <2>3, <3>2, <3>3, WrittenOnSending
    <3>5. Written(ipcCall)'  BY <2>4, <3>3, <3>4 DEF Written, Decide
    <3>6. QED  BY <1>2, <2>6, <3>1, <3>2, <3>5 DEF InTime
  <2>10. QED  BY <1>6, <1>7, <1>8, <2>7, <2>8, <2>9 DEF Served
<1>11. QED  BY <1>9, <1>10

LEMMA ReadReplyServed ==
  ASSUME PatienceInv, Calm, ReadReply
  PROVE  Served'
<1>1. Served /\ ipcCall \in Calls /\ outcome \in [Calls -> {"none", "verdict", "error"}]
  BY DEF PatienceInv, Inv, Types, ReadReply
<1>2. /\ ipc = "reading" /\ ipc' = "idle"
      /\ UNCHANGED <<askTimeout, limit, degraded, made, channel, conn, promptLimit, stalled, age>>
  BY DEF ReadReply, connVars
<1>3. /\ ipcCall[1] \in waiting /\ ipcCall = Latest(ipcCall[1]) /\ OnlyReports(channel)
  BY <1>1, <1>2 DEF Served, WhenReading
<1>4. /\ waiting' = waiting \ {ipcCall[1]}
      /\ outcome' = [outcome EXCEPT ![ipcCall] = "verdict"]
  BY <1>3 DEF ReadReply
<1>5. waiting' = {}  BY <1>1, <1>3, <1>4 DEF Served, OneWaits
<1>6. Running'  BY <1>1, <1>2, <1>4 DEF Served, Running
<1>7. Limits'  BY <1>1, <1>2 DEF Served, Limits
<1>8. WhenIdle'  BY <1>2, <1>3, <1>5 DEF WhenIdle, OnlyReports, Report, NoCall
<1>9. OneWaits' /\ WhenReading' /\ InTime'  BY <1>2, <1>5 DEF OneWaits, WhenReading, InTime
<1>10. QED  BY <1>6, <1>7, <1>8, <1>9 DEF Served

LEMMA RecordServed ==
  ASSUME PatienceInv, Calm, Record
  PROVE  Served'
<1>1. Served /\ lines \in Seq(Outgoing)  BY DEF PatienceInv, Inv, Types
<1>2. /\ lines # <<>> /\ Head(lines) = Report /\ lines' = Tail(lines)
      /\ UNCHANGED <<askTimeout, limit, degraded, made, waiting, outcome, ipc, ipcCall,
                     conn, promptLimit, stalled, age, channel, replies>>
  BY DEF Record, callerVars, connVars
<1>3. Running' /\ Limits' /\ OneWaits' /\ WhenIdle' /\ WhenReading'
  BY <1>1, <1>2, StillServed
<1>4. Written(ipcCall) => Written(ipcCall)'
  <2>1. ASSUME Written(ipcCall)  PROVE Written(ipcCall)'
    <3>1. PICK call : call = ipcCall  OBVIOUS
    <3>2. Written(call)'  BY <1>1, <1>2, <2>1, <3>1, WrittenStays
    <3>3. QED  BY <1>2, <3>1, <3>2 DEF Written, Decide
  <2>2. QED  BY <2>1
<1>5. InTime'  BY <1>1, <1>2, <1>4 DEF Served, InTime
<1>6. QED  BY <1>3, <1>5 DEF Served

LEMMA RuleServed ==
  ASSUME PatienceInv, Calm, Rule
  PROVE  Served'
<1> USE NumbersOfTime
<1>1. /\ Served /\ lines \in Seq(Outgoing) /\ age \in [Timers -> Nat] /\ waiting \subseteq Callers
      /\ limit \in Nat /\ askTimeout \in Nat /\ replies \in Seq(Calls)
  BY DEF PatienceInv, Measured, Inv, Types
<1>2. /\ conn = "reading" /\ lines # <<>> /\ Head(lines) # Report
      /\ UNCHANGED <<askTimeout, limit, degraded, made, waiting, outcome, ipc, ipcCall,
                     stalled, channel>>
  BY DEF Rule, callerVars
<1>3. ~OnlyReports(lines)  BY <1>1, <1>2, TailOnlyReports
<1>4. ipc = "reading" /\ replies = <<>>
  <2>1. ipc \in {"idle", "reading"}  BY <1>1 DEF Served, Running
  <2>2. QED  BY <1>3, <2>1 DEF PatienceInv, Inv, OneUnderWay
<1>5. age["read"] <= Transit
  <2>1. age["read"] <= age["lines"] /\ age["lines"] <= Transit
    BY <1>1, <1>2, <1>4 DEF Served, InTime, Limits
  <2>2. age["read"] \in Nat /\ age["lines"] \in Nat  BY <1>1
  <2>3. QED  BY <2>1, <2>2
<1>6. \/ /\ Reply(Head(lines)[2]) /\ conn' = "reading" /\ promptLimit' = promptLimit
      \/ /\ conn' = "asking" /\ promptLimit' = askTimeout /\ replies' = replies
         /\ age' = [age EXCEPT !["prompt"] = 0]
  BY <1>2 DEF Rule
<1>7. CASE Reply(Head(lines)[2]) /\ conn' = "reading" /\ promptLimit' = promptLimit
  <2>1. /\ age' = [[age EXCEPT !["replies"] = 0] EXCEPT !["lines"] = 0]
        /\ replies' = Append(replies, Head(lines)[2])
    BY <1>4, <1>7 DEF Reply, Started
  <2>2. /\ \A t \in Timers \ {"replies", "lines"} : age'[t] = age[t]
        /\ age'["replies"] = 0 /\ age'["lines"] = 0
    BY <1>1, <2>1
  <2>3. replies' # <<>>  BY <1>4, <2>1
  <2>4. Limits'
    <3>1. 0 <= Transit  OBVIOUS
    <3>2. QED  BY <1>1, <1>2, <1>7, <2>2, <3>1 DEF Served, Limits
  <2>5. InTime'
    <3>1. age'["read"] + Margin <= limit + Transit + age'["replies"]
      <4>1. askTimeout + Margin <= limit  BY <1>1 DEF Served, Limits
      <4>2. age'["read"] = age["read"] /\ age["read"] \in Nat  BY <1>1, <2>2
      <4>3. QED  BY <1>1, <1>5, <2>2, <4>1, <4>2
    <3>2. QED  BY <1>2, <1>7, <2>3, <3>1 DEF InTime
  <2>6. \A c \in Callers : age'[c] = age[c]  BY <2>2
  <2>7. WhenIdle' /\ WhenReading'
    <3>1. age'["read"] = age["read"]  BY <2>2
    <3>2. QED
      BY <1>1, <1>2, <1>4, <2>6, <3>1
         DEF Served, WhenIdle, WhenReading, Latest, OnlyReports, Report, NoCall
  <2>8. Running' /\ OneWaits'  BY <1>1, <1>2, <1>7 DEF Served, Running, OneWaits
  <2>9. QED  BY <2>4, <2>5, <2>7, <2>8 DEF Served
<1>8. CASE /\ conn' = "asking" /\ promptLimit' = askTimeout /\ replies' = replies
           /\ age' = [age EXCEPT !["prompt"] = 0]
  <2>1. /\ \A t \in Timers \ {"prompt"} : age'[t] = age[t]
        /\ age'["prompt"] = 0
    BY <1>1, <1>8
  <2>2. Limits'
    <3>1. 0 <= askTimeout  BY <1>1
    <3>2. QED  BY <1>1, <1>2, <1>8, <2>1, <3>1 DEF Served, Limits
  <2>3. InTime'
    <3>1. age'["read"] <= Transit + age'["prompt"]  BY <1>1, <1>5, <2>1
    <3>2. QED  BY <1>4, <1>8, <3>1 DEF InTime
  <2>4. WhenIdle' /\ WhenReading'
    <3>1. age'["read"] = age["read"] /\ \A c \in Callers : age'[c] = age[c]  BY <2>1
    <3>2. QED
      BY <1>1, <1>2, <1>4, <3>1
         DEF Served, WhenIdle, WhenReading, Latest, OnlyReports, Report, NoCall
  <2>5. Running' /\ OneWaits'  BY <1>1, <1>2, <1>8 DEF Served, Running, OneWaits
  <2>6. QED  BY <2>2, <2>3, <2>4, <2>5 DEF Served
<1>9. QED  BY <1>6, <1>7, <1>8

LEMMA ResolveServed ==
  ASSUME PatienceInv, Calm, Resolve
  PROVE  Served'
<1> USE NumbersOfTime
<1>1. /\ Served /\ age \in [Timers -> Nat] /\ waiting \subseteq Callers
      /\ limit \in Nat /\ promptLimit \in Nat /\ replies \in Seq(Calls)
  BY DEF PatienceInv, Measured, Inv, Types
<1>2. /\ conn = "asking" /\ conn' = "reading" /\ stalled' = FALSE
      /\ UNCHANGED <<askTimeout, limit, degraded, made, waiting, outcome, ipc, ipcCall,
                     promptLimit, channel, lines>>
  BY DEF Resolve, callerVars
<1>3. ipc = "reading" /\ replies = <<>>
  <2>1. ipc \in {"idle", "reading"}  BY <1>1 DEF Served, Running
  <2>2. QED  BY <1>2, <2>1 DEF PatienceInv, Inv, OneUnderWay
<1>4. /\ age' = [[age EXCEPT !["replies"] = 0] EXCEPT !["lines"] = 0]
      /\ replies' = Append(replies, asked)
  BY <1>3 DEF Resolve, Reply, Started
<1>5. /\ \A t \in Timers \ {"replies", "lines"} : age'[t] = age[t]
      /\ age'["replies"] = 0 /\ age'["lines"] = 0
  BY <1>1, <1>4
<1>6. replies' # <<>>  BY <1>3, <1>4
<1>7. Limits'
  <2>1. 0 <= Transit  OBVIOUS
  <2>2. QED  BY <1>1, <1>2, <1>5, <2>1 DEF Served, Limits
<1>8. InTime'
  <2>1. age'["read"] + Margin <= limit + Transit + age'["replies"]
    <3>1. promptLimit + Margin <= limit /\ age["prompt"] <= promptLimit
      BY <1>1, <1>2 DEF Served, Limits
    <3>2. age["read"] <= Transit + age["prompt"]  BY <1>1, <1>2, <1>3 DEF Served, InTime
    <3>3. age'["read"] = age["read"] /\ age["read"] \in Nat /\ age["prompt"] \in Nat
      BY <1>1, <1>5
    <3>4. QED  BY <1>1, <1>5, <3>1, <3>2, <3>3
  <2>2. QED  BY <1>2, <1>6, <2>1 DEF InTime
<1>9. WhenIdle' /\ WhenReading'
  <2>1. age'["read"] = age["read"] /\ \A c \in Callers : age'[c] = age[c]  BY <1>5
  <2>2. QED
    BY <1>1, <1>2, <1>3, <2>1
       DEF Served, WhenIdle, WhenReading, Latest, OnlyReports, Report, NoCall
<1>10. Running' /\ OneWaits'  BY <1>1, <1>2 DEF Served, Running, OneWaits
<1>11. QED  BY <1>7, <1>8, <1>9, <1>10 DEF Served

LEMMA TickServed ==
  ASSUME PatienceInv, Calm, Tick
  PROVE  Served'
<1> USE NumbersOfTime
<1>1. /\ Served /\ age \in [Timers -> Nat] /\ waiting \subseteq Callers
      /\ limit \in Nat /\ promptLimit \in Nat
  BY DEF PatienceInv, Measured
<1>2. /\ UNCHANGED <<askTimeout, limit, degraded, made, waiting, outcome, ipc, ipcCall, conn,
                     promptLimit, stalled, channel, lines, replies>>
      /\ ~WorkThatTakesNoTime
      /\ \A t \in Counting : age[t] < Bound(t)
      /\ \A t \in Timers : age'[t] = IF t \in Counting THEN age[t] + 1 ELSE age[t]
  BY DEF Tick, callerVars, wireVars, connVars, histVars
<1>3. Running' /\ OneWaits'  BY <1>1, <1>2 DEF Served, Running, OneWaits
<1>4. \A t \in {"lines", "replies"} : age'[t] <= Transit
  <2>1. ASSUME NEW t \in {"lines", "replies"}  PROVE age'[t] <= Transit
    <3>1. t \in Timers /\ age[t] \in Nat /\ age[t] <= Transit
      BY <1>1 DEF Served, Limits
    <3>2. Bound(t) = Transit  BY DEF Bound
    <3>3. QED  BY <1>2, <3>1, <3>2
  <2>2. QED  BY <2>1
<1>5. conn = "asking" => age'["prompt"] <= promptLimit
  <2>1. conn = "asking" => age["prompt"] <= promptLimit  BY <1>1 DEF Served, Limits
  <2>2. age["prompt"] \in Nat  BY <1>1
  <2>3. Bound("prompt") = promptLimit  BY DEF Bound
  <2>4. QED  BY <1>1, <1>2, <2>1, <2>2, <2>3
<1>6. Limits'  BY <1>1, <1>2, <1>4, <1>5 DEF Served, Limits
<1>7. WhenIdle'
  <2>1. ASSUME ipc = "idle"  PROVE waiting = {} /\ channel = <<>>
    <3>1. channel = <<>>  BY <1>2, <2>1 DEF WorkThatTakesNoTime
    <3>2. WhenIdle  BY <1>1 DEF Served
    <3>3. \A c \in waiting : Named(channel, Latest(c))  BY <2>1, <3>2, Zenon DEF WhenIdle
    <3>4. 1..Len(channel) = {}  BY <3>1
    <3>5. waiting = {}  BY <3>3, <3>4, Zenon DEF Named
    <3>6. QED  BY <3>1, <3>5
  <2>2. QED  BY <1>2, <2>1 DEF WhenIdle, OnlyReports
<1>8. CASE ipc = "reading"
  <2>1. /\ ipcCall[1] \in waiting /\ ipcCall = Latest(ipcCall[1])
        /\ OnlyReports(channel) /\ age[ipcCall[1]] = age["read"]
    BY <1>1, <1>8 DEF Served, WhenReading
  <2>2. ipcCall[1] \in Counting /\ "read" \in Counting
    BY <1>1, <1>8, <2>1 DEF Counting
  <2>3. /\ age'[ipcCall[1]] = age[ipcCall[1]] + 1 /\ age'["read"] = age["read"] + 1
    BY <1>1, <1>2, <2>1, <2>2
  <2>4. WhenReading'
    BY <1>2, <2>1, <2>3 DEF WhenReading, Latest, OnlyReports, Report, NoCall
  <2>5. InTime'
    <3>1. /\ age["read"] \in Nat /\ age["lines"] \in Nat /\ age["prompt"] \in Nat
          /\ age["replies"] \in Nat
      BY <1>1
    <3>2. ASSUME conn = "reading", replies = <<>>
          PROVE  Written(ipcCall)' /\ age'["read"] <= age'["lines"]
      <4>1. Written(ipcCall) /\ age["read"] <= age["lines"]
        BY <1>1, <1>8, <3>2 DEF Served, InTime
      <4>2. "lines" \in Counting  BY <3>2, <4>1 DEF Counting, Written
      <4>3. age'["lines"] = age["lines"] + 1  BY <1>2, <4>2
      <4>4. age'["read"] <= age'["lines"]  BY <2>3, <3>1, <4>1, <4>3
      <4>5. Written(ipcCall)'  BY <1>2, <4>1 DEF Written, Decide, Report, NoCall
      <4>6. QED  BY <4>4, <4>5
    <3>3. ASSUME conn = "asking"  PROVE age'["read"] <= Transit + age'["prompt"]
      <4>1. age["read"] <= Transit + age["prompt"] /\ ~stalled
        BY <1>1, <1>8, <3>3 DEF Served, InTime, Running
      <4>2. "prompt" \in Counting  BY <3>3, <4>1 DEF Counting
      <4>3. age'["prompt"] = age["prompt"] + 1  BY <1>2, <4>2
      <4>4. QED  BY <2>3, <3>1, <4>1, <4>3
    <3>4. ASSUME replies # <<>>
          PROVE  age'["read"] + Margin <= limit + Transit + age'["replies"]
      <4>1. age["read"] + Margin <= limit + Transit + age["replies"]
        BY <1>1, <1>8, <3>4 DEF Served, InTime
      <4>2. "replies" \in Counting  BY <1>8, <3>4 DEF Counting
      <4>3. age'["replies"] = age["replies"] + 1  BY <1>2, <4>2
      <4>4. QED  BY <1>1, <2>3, <3>1, <4>1, <4>3
    <3>5. QED  BY <1>2, <3>2, <3>3, <3>4 DEF InTime
  <2>6. QED  BY <1>3, <1>6, <1>7, <2>4, <2>5 DEF Served
<1>9. CASE ipc # "reading"
  BY <1>2, <1>3, <1>6, <1>7, <1>9 DEF Served, WhenReading, InTime
<1>10. QED  BY <1>8, <1>9

LEMMA CalmBefore ==
  ASSUME [LinkNext]_linkVars, Calm'
  PROVE  Calm
<1> USE DEF Calm
<1>1. ASSUME NEW c \in Callers, MakeCall(c) \/ GiveUp(c)  PROVE Calm
  <2>1. CASE MakeCall(c)
    <3>1. /\ overlapped' = (overlapped \/ waiting # {})
          /\ failed' = failed /\ raised' = raised
      BY <2>1 DEF MakeCall, connVars
    <3>2. QED  BY <3>1, Zenon
  <2>2. CASE GiveUp(c)
    BY <2>2 DEF GiveUp, connVars, histVars
  <2>3. QED  BY <1>1, <2>1, <2>2
<1>2. CASE Observe \/ Ipc \/ Record \/ Rule \/ Resolve \/ Stall \/ ServiceDies \/ Tick
  BY <1>2 DEF Observe, Ipc, TakeOutgoing, ReadReply, ReadFails, Record, Rule, Resolve, Stall,
              ServiceDies, Tick, connVars, histVars
<1>3. ASSUME NEW t \in Timeouts, Reload(t)  PROVE Calm
  <2>1. /\ raised' = (raised \/ Limit(t) > limit)
        /\ failed' = failed /\ overlapped' = overlapped
    BY <1>3 DEF Reload, histVars
  <2>2. QED  BY <2>1, Zenon
<1>4. CASE UNCHANGED linkVars
  BY <1>4 DEF linkVars, connVars, histVars
<1>5. QED  BY <1>1, <1>2, <1>3, <1>4 DEF LinkNext

LEMMA StepPatience == PatienceInv /\ [LinkNext]_linkVars => PatienceInv'
<1> SUFFICES ASSUME PatienceInv, [LinkNext]_linkVars  PROVE PatienceInv'  OBVIOUS
<1>1. Inv' /\ Measured'  BY StepInv, StepMeasured DEF PatienceInv
<1>2. ASSUME Calm'  PROVE Served'
  <2>1. Calm /\ Served  BY <1>2, CalmBefore DEF PatienceInv
  <2>2. ASSUME NEW t \in Timeouts, Reload(t)  PROVE Served'
    <3>1. t + Margin <= limit
      <4>1. ~raised' /\ raised' = (raised \/ Limit(t) > limit)
        BY <1>2, <2>2 DEF Reload, Calm
      <4>2. ~(Limit(t) > limit)  BY <4>1, Zenon
      <4>3. Limit(t) = t + Margin /\ t \in Nat /\ limit \in Nat
        BY NumbersOfTime DEF Limit, PatienceInv, Measured
      <4>4. QED  BY <4>2, <4>3, NumbersOfTime
    <3>2. /\ askTimeout' = t
          /\ UNCHANGED <<limit, degraded, made, waiting, outcome, ipc, ipcCall, conn,
                         promptLimit, stalled, age, channel, lines, replies>>
      BY <2>2 DEF Reload, callerVars, wireVars
    <3>3. Limits'  BY <2>1, <3>1, <3>2 DEF Served, Limits
    <3>4. Running' /\ OneWaits'  BY <2>1, <3>2 DEF Served, Running, OneWaits
    <3>5. OnlyReports(channel)' = OnlyReports(channel)
      BY <3>2 DEF OnlyReports, Report, NoCall
    <3>6. \A c \in waiting : Named(channel, Latest(c))' = Named(channel, Latest(c))
      BY <3>2 DEF Named, Latest, Decide, Report, NoCall
    <3>7. Written(ipcCall)' = Written(ipcCall)
      BY <3>2 DEF Written, Decide, Report, NoCall
    <3>8. WhenIdle'  BY <2>1, <3>2, <3>5, <3>6 DEF Served, WhenIdle
    <3>9. WhenReading'  BY <2>1, <3>2, <3>5 DEF Served, WhenReading, Latest
    <3>10. InTime'  BY <2>1, <3>2, <3>7 DEF Served, InTime
    <3>11. QED  BY <3>3, <3>4, <3>8, <3>9, <3>10 DEF Served
  <2>3. CASE Stall \/ ServiceDies
    BY <1>2, <2>3 DEF Stall, ServiceDies, Calm
  <2>4. CASE UNCHANGED linkVars
    BY <2>1, <2>4, StillServed DEF linkVars, callerVars, wireVars, connVars, Served
  <2>5. QED
    BY <1>2, <2>1, <2>2, <2>3, <2>4, NobodyGivesUp, MakeCallServed, ObserveServed,
       TakeOutgoingServed, ReadReplyServed, RecordServed, RuleServed, ResolveServed, TickServed
       DEF LinkNext, Ipc
<1>3. QED  BY <1>1, <1>2 DEF PatienceInv

(* A call is given up only when the daemon was stuck or dead, its policy    *)
(* asks for longer than it announced, or calls share the link.              *)
THEOREM GivenUpIsExplained == LinkSpec => []GivenUpForCause
<1>1. PatienceInv => GivenUpForCause
  BY DEF PatienceInv, Served, Running, Calm, GivenUpForCause
<1>2. QED  BY InitPatience, StepPatience, <1>1, PTL DEF LinkSpec
=============================================================================
