------------------------- MODULE ApplicationProofs --------------------------
(***************************************************************************)
(* Proofs about the application.  For any number of daemons, prompts and   *)
(* connections, the panels show what can be answered and an answer goes    *)
(* where it was shown.  For any number of daemon processes and restarts, it *)
(* keeps one daemon, which every new shim can reach, until the first time  *)
(* it ends without stop().                                                 *)
(***************************************************************************)
EXTENDS Supervisor, PromptPanels, SequenceTheorems, TLAPS

(* The panels.                                                             *)

Prompts  == [daemon : Nat \ {0}, id : Nat \ {0}]
Messages == {Ask(p) : p \in Prompts} \cup {Withdrawal(p) : p \in Prompts} \cup {Lost}
Sends    == Prompts \cup {Status}

PanelTypeOK ==
  /\ running \in BOOLEAN
  /\ serving \in Nat /\ born \in Nat /\ numbered \in Nat
  /\ open \subseteq [id : Nat \ {0}, on : Nat]
  /\ reader \in {"sleeping", "greeting", "reading"}
  /\ fd \in Nat /\ source \in Nat /\ spoiled \in BOOLEAN /\ sockets \in Nat
  /\ connected \in BOOLEAN
  /\ wire \in Seq(Messages) /\ mainQueue \in Seq(Messages)
  /\ panels \subseteq Prompts
  /\ sends \in Seq(Sends)
  /\ writing \in [socket : Nat, send : Sends]
  /\ statuses \in Nat
  /\ late \in BOOLEAN

(* What is in a sequence of messages, and in which order.                   *)
Asked(s, p)     == \E n \in 1..Len(s) : s[n] = Ask(p)
Withdrawn(s, p) == \E n \in 1..Len(s) : s[n] = Withdrawal(p)
LostLast(s)     == \A n \in 1..Len(s) : s[n] = Lost => n = Len(s)
AskedOnce(s)    == \A m, n \in 1..Len(s), p \in Prompts :
                     s[m] = Ask(p) /\ s[n] = Ask(p) => m = n
WithdrawnAfter(s, asks) ==
  \A n \in 1..Len(s), p \in Prompts :
    s[n] = Ask(p) => p \in asks \/ \E m \in 1..Len(s) : m > n /\ s[m] = Withdrawal(p)

(* What the main thread is to see, if no more is sent.                      *)
Stream == mainQueue \o wire

(* Answers under way.                                                       *)
Replying == {sends[n] : n \in 1..Len(sends)} \cup {writing.send}

OpenPrompts == {[daemon |-> serving, id |-> o.id] : o \in open}

(* Without a delay the read loop and the connection agree, and a write that *)
(* was begun is for the connection there is or for one that was closed.     *)
OneConnection ==
  /\ connected <=> reader = "reading"
  /\ fd = 0 <=> reader = "sleeping"
  /\ reader # "reading" => wire = <<>>
  /\ writing # NoWrite => fd = 0 \/ fd = writing.socket
  /\ fd # 0 => source # 0

InOrder ==
  /\ serving <= born /\ source <= born /\ fd <= sockets
  /\ \A o \in open : o.id <= numbered /\ o.on <= sockets
  /\ \A o, q \in open : o.id = q.id => o = q
  /\ reader = "greeting" => \A o \in open : o.on # fd

(* A lost connection is the last thing the main thread is told, and once it *)
(* was told nothing is left of it.                                         *)
LossIsLast ==
  /\ LostLast(Stream)
  /\ \A n \in 1..Len(Stream) :
       Stream[n] = Lost => reader = "sleeping" /\ source \notin {0, serving}
  /\ reader # "reading" => \/ Stream = <<>> /\ panels = {}
                           \/ Stream # <<>> /\ Stream[Len(Stream)] = Lost

(* Everything shown, coming or answered is of the daemon at the other end.  *)
Known(p) == p \in panels \/ p \in Replying \/ Asked(Stream, p) \/ Withdrawn(Stream, p)
OfTheSource ==
  \A p \in Prompts : Known(p) => p.daemon = source /\ (source = serving => p.id <= numbered)

(* A prompt is in one place: coming, shown, answered or being answered.     *)
InOnePlace ==
  /\ AskedOnce(Stream)
  /\ \A p \in Prompts : Asked(Stream, p) => p \notin panels /\ p \notin Replying
  /\ \A p \in panels : p \notin Replying
  /\ \A m, n \in 1..Len(sends) : sends[m] = sends[n] /\ sends[n] # Status => m = n
  /\ \A n \in 1..Len(sends) : sends[n] = writing.send => sends[n] = Status

(* What is shown can be answered, or its withdrawal is coming; and what can *)
(* be answered on this connection is somewhere.                            *)
Mirrored ==
  source = serving =>
    /\ WithdrawnAfter(Stream, OpenPrompts)
    /\ \A p \in panels : p \in OpenPrompts \/ Withdrawn(Stream, p)
    /\ \A p \in OpenPrompts : ~Withdrawn(Stream, p)
    /\ reader = "reading" => \A o \in open : o.on = fd =>
         LET p == [daemon |-> serving, id |-> o.id]
         IN p \in panels \/ p \in Replying \/ Asked(Stream, p)

Applied == \A a \in applied : a[1] = a[2]

Prompt == OneConnection /\ InOrder /\ LossIsLast /\ OfTheSource /\ InOnePlace /\ Mirrored
          /\ Applied
PanelInv == PanelTypeOK /\ (~late => Prompt)

-----------------------------------------------------------------------------
(* Messages are of three kinds, and none is of two.                         *)
LEMMA Kinds ==
  /\ \A m \in Messages : m = Lost \/ \E p \in Prompts : m = Ask(p) \/ m = Withdrawal(p)
  /\ \A p \in Prompts : Ask(p) \in Messages /\ Withdrawal(p) \in Messages
  /\ Lost \in Messages
  /\ \A p, q : Ask(p) # Withdrawal(q) /\ Ask(p) # Lost /\ Withdrawal(p) # Lost
  /\ \A p, q : (Ask(p) = Ask(q) => p = q) /\ (Withdrawal(p) = Withdrawal(q) => p = q)
  /\ \A p : Ask(p).type = "prompt" /\ Withdrawal(p).type = "withdraw" /\ Lost.type = "lost"
  /\ \A p : Ask(p).prompt = p /\ Withdrawal(p).prompt = p
  /\ Status \notin Prompts
BY DEF Messages, Ask, Withdrawal, Lost, Status, Prompts

(* One message more.                                                        *)
LEMMA OneMore ==
  ASSUME NEW s \in Seq(Messages), NEW x \in Messages
  PROVE  /\ Append(s, x) \in Seq(Messages) /\ Append(s, x) # <<>>
         /\ Append(s, x)[Len(Append(s, x))] = x
         /\ \A p : Asked(Append(s, x), p) <=> Asked(s, p) \/ x = Ask(p)
         /\ \A p : Withdrawn(Append(s, x), p) <=> Withdrawn(s, p) \/ x = Withdrawal(p)
<1> DEFINE t == Append(s, x)
<1>1. /\ t \in Seq(Messages) /\ Len(t) = Len(s) + 1 /\ t[Len(s) + 1] = x
      /\ \A i \in 1..Len(s) : t[i] = s[i]
  BY AppendProperties
<1>2. Len(s) \in Nat  OBVIOUS
<1> HIDE DEF t
<1>3. t # <<>> /\ t[Len(t)] = x  BY <1>1, <1>2, EmptySeq
<1>4. \A i \in 1..Len(s) : i \in 1..Len(t)  BY <1>1, <1>2
<1>5. \A i \in 1..Len(t) : i \in 1..Len(s) \/ i = Len(s) + 1  BY <1>1, <1>2
<1>6. Len(s) + 1 \in 1..Len(t)  BY <1>1, <1>2
<1>7. ASSUME NEW p  PROVE Asked(t, p) <=> Asked(s, p) \/ x = Ask(p)
  BY <1>1, <1>4, <1>5, <1>6 DEF Asked
<1>8. ASSUME NEW p  PROVE Withdrawn(t, p) <=> Withdrawn(s, p) \/ x = Withdrawal(p)
  BY <1>1, <1>4, <1>5, <1>6 DEF Withdrawn
<1>9. QED  BY <1>1, <1>3, <1>7, <1>8 DEF t

(* The order of a stream of messages to which one is added: a prompt that   *)
(* is new to it, or the loss, or a withdrawal.                             *)
LEMMA OneMoreInOrder ==
  ASSUME NEW s \in Seq(Messages), NEW x \in Messages, NEW asks
  PROVE  /\ (\A n \in 1..Len(s) : s[n] # Lost) => LostLast(Append(s, x))
         /\ AskedOnce(s) /\ (\A p \in Prompts : x = Ask(p) => ~Asked(s, p))
              => AskedOnce(Append(s, x))
         /\ WithdrawnAfter(s, asks) /\ (\A p \in Prompts : x = Ask(p) => p \in asks)
              => WithdrawnAfter(Append(s, x), asks)
         /\ \A n \in 1..Len(Append(s, x)) :
              Append(s, x)[n] = Lost => x = Lost \/ \E m \in 1..Len(s) : s[m] = Lost
<1> DEFINE t == Append(s, x)
<1>1. /\ t \in Seq(Messages) /\ Len(t) = Len(s) + 1 /\ t[Len(s) + 1] = x
      /\ \A i \in 1..Len(s) : t[i] = s[i]
  BY AppendProperties
<1>2. Len(s) \in Nat  OBVIOUS
<1> HIDE DEF t
<1>4. \A i \in 1..Len(s) : i \in 1..Len(t)  BY <1>1, <1>2
<1>5. \A i \in 1..Len(t) : i \in 1..Len(s) \/ i = Len(t)  BY <1>1, <1>2
<1>6. Len(t) \in 1..Len(t) /\ t[Len(t)] = x  BY <1>1, <1>2
<1>7. ASSUME \A n \in 1..Len(s) : s[n] # Lost  PROVE LostLast(t)
  BY <1>1, <1>5, <1>7 DEF LostLast
<1>8. ASSUME AskedOnce(s), \A p \in Prompts : x = Ask(p) => ~Asked(s, p)  PROVE AskedOnce(t)
  BY <1>1, <1>5, <1>6, <1>8 DEF AskedOnce, Asked
<1>9. ASSUME WithdrawnAfter(s, asks), \A p \in Prompts : x = Ask(p) => p \in asks
      PROVE  WithdrawnAfter(t, asks)
  <2>1. ASSUME NEW n \in 1..Len(t), NEW p \in Prompts, t[n] = Ask(p), p \notin asks
        PROVE  \E m \in 1..Len(t) : m > n /\ t[m] = Withdrawal(p)
    <3>1. n \in 1..Len(s) /\ s[n] = Ask(p)  BY <1>1, <1>5, <1>6, <1>9, <2>1
    <3>2. QED  BY <1>1, <1>4, <1>9, <2>1, <3>1 DEF WithdrawnAfter
  <2>2. QED  BY <2>1 DEF WithdrawnAfter
<1>10. \A n \in 1..Len(t) : t[n] = Lost => x = Lost \/ \E m \in 1..Len(s) : s[m] = Lost
  BY <1>1, <1>5, <1>6
<1>11. QED  BY <1>7, <1>8, <1>9, <1>10 DEF t

(* The first message is taken.                                              *)
LEMMA OneLess ==
  ASSUME NEW s \in Seq(Messages), s # <<>>, NEW asks
  PROVE  /\ Tail(s) \in Seq(Messages) /\ Head(s) \in Messages /\ Head(s) = s[1]
         /\ \A p : Asked(s, p) <=> Head(s) = Ask(p) \/ Asked(Tail(s), p)
         /\ \A p : Withdrawn(s, p) <=> Head(s) = Withdrawal(p) \/ Withdrawn(Tail(s), p)
         /\ LostLast(s) => LostLast(Tail(s)) /\ (Head(s) = Lost => Tail(s) = <<>>)
         /\ AskedOnce(s) =>
              /\ AskedOnce(Tail(s))
              /\ \A p \in Prompts : Head(s) = Ask(p) => ~Asked(Tail(s), p)
         /\ WithdrawnAfter(s, asks) =>
              /\ WithdrawnAfter(Tail(s), asks)
              /\ \A p \in Prompts : Head(s) = Ask(p) => p \in asks \/ Withdrawn(Tail(s), p)
         /\ \A n \in 1..Len(Tail(s)) : \E m \in 1..Len(s) : s[m] = Tail(s)[n]
         /\ Tail(s) # <<>> => Tail(s)[Len(Tail(s))] = s[Len(s)]
<1> DEFINE t == Tail(s)
<1>1. /\ t \in Seq(Messages) /\ Head(s) \in Messages /\ Head(s) = s[1] /\ Len(t) = Len(s) - 1
      /\ \A i \in 1..Len(t) : t[i] = s[i + 1]
  BY HeadTailProperties
<1>2. Len(s) \in Nat /\ Len(s) >= 1  BY EmptySeq
<1> HIDE DEF t
<1>3. \A i \in 1..Len(t) : i + 1 \in 1..Len(s)  BY <1>1, <1>2
<1>4. \A i \in 1..Len(s) : i = 1 \/ (i - 1 \in 1..Len(t) /\ t[i - 1] = s[i])  BY <1>1, <1>2
<1>5. 1 \in 1..Len(s)  BY <1>2
<1>6. ASSUME NEW p  PROVE Asked(s, p) <=> Head(s) = Ask(p) \/ Asked(t, p)
  BY <1>1, <1>3, <1>4, <1>5 DEF Asked
<1>7. ASSUME NEW p  PROVE Withdrawn(s, p) <=> Head(s) = Withdrawal(p) \/ Withdrawn(t, p)
  BY <1>1, <1>3, <1>4, <1>5 DEF Withdrawn
<1>8. ASSUME LostLast(s)  PROVE LostLast(t) /\ (Head(s) = Lost => t = <<>>)
  <2>1. LostLast(t)  BY <1>1, <1>2, <1>3, <1>8 DEF LostLast
  <2>2. Head(s) = Lost => Len(t) = 0  BY <1>1, <1>5, <1>8 DEF LostLast
  <2>3. QED  BY <1>1, <2>1, <2>2, EmptySeq
<1>9. ASSUME AskedOnce(s)
      PROVE  AskedOnce(t) /\ \A p \in Prompts : Head(s) = Ask(p) => ~Asked(t, p)
  <2>1. AskedOnce(t)
    <3>1. ASSUME NEW m \in 1..Len(t), NEW n \in 1..Len(t), NEW p \in Prompts,
                 t[m] = Ask(p), t[n] = Ask(p)
          PROVE  m = n
      <4>1. m + 1 = n + 1  BY <1>1, <1>3, <1>9, <3>1 DEF AskedOnce
      <4>2. QED  BY <4>1
    <3>2. QED  BY <3>1 DEF AskedOnce
  <2>2. ASSUME NEW p \in Prompts, Head(s) = Ask(p), Asked(t, p)  PROVE FALSE
    <3>1. PICK n \in 1..Len(t) : t[n] = Ask(p)  BY <2>2 DEF Asked
    <3>2. s[n + 1] = Ask(p) /\ s[1] = Ask(p) /\ n + 1 # 1  BY <1>1, <2>2, <3>1
    <3>3. QED  BY <1>3, <1>5, <1>9, <3>1, <3>2 DEF AskedOnce
  <2>3. QED  BY <2>1, <2>2
<1>10. ASSUME WithdrawnAfter(s, asks)
       PROVE  /\ WithdrawnAfter(t, asks)
              /\ \A p \in Prompts : Head(s) = Ask(p) => p \in asks \/ Withdrawn(t, p)
  <2>1. ASSUME NEW n \in 1..Len(t), NEW p \in Prompts, t[n] = Ask(p), p \notin asks
        PROVE  \E m \in 1..Len(t) : m > n /\ t[m] = Withdrawal(p)
    <3>1. s[n + 1] = Ask(p) /\ n + 1 \in 1..Len(s)  BY <1>1, <1>3, <2>1
    <3>2. PICK m \in 1..Len(s) : m > n + 1 /\ s[m] = Withdrawal(p)
      BY <1>10, <2>1, <3>1 DEF WithdrawnAfter
    <3>3. m - 1 \in 1..Len(t) /\ m - 1 > n /\ t[m - 1] = Withdrawal(p)  BY <1>4, <3>2
    <3>4. QED  BY <3>3
  <2>2. ASSUME NEW p \in Prompts, Head(s) = Ask(p), p \notin asks  PROVE Withdrawn(t, p)
    <3>1. PICK m \in 1..Len(s) : m > 1 /\ s[m] = Withdrawal(p)
      BY <1>1, <1>5, <1>10, <2>2 DEF WithdrawnAfter
    <3>2. m - 1 \in 1..Len(t) /\ t[m - 1] = Withdrawal(p)  BY <1>4, <3>1
    <3>3. QED  BY <3>2 DEF Withdrawn
  <2>3. QED  BY <2>1, <2>2 DEF WithdrawnAfter
<1>11. \A n \in 1..Len(t) : \E m \in 1..Len(s) : s[m] = t[n]  BY <1>1, <1>3
<1>12. t # <<>> => t[Len(t)] = s[Len(s)]
  <2>1. ASSUME t # <<>>  PROVE Len(t) \in 1..Len(t) /\ Len(t) + 1 = Len(s)
    BY <1>1, <1>2, <2>1, EmptySeq
  <2>2. QED  BY <1>1, <2>1
<1>13. QED  BY <1>1, <1>6, <1>7, <1>8, <1>9, <1>10, <1>11, <1>12 DEF t

-----------------------------------------------------------------------------
(* A stream in two parts: what is sent is added at its end, what is read    *)
(* changes parts, and what is handled is its first.                        *)
LEMMA StreamParts ==
  ASSUME NEW q \in Seq(Messages), NEW w \in Seq(Messages)
  PROVE  /\ q \o w \in Seq(Messages)
         /\ q \o <<>> = q
         /\ \A m \in Messages : q \o Append(w, m) = Append(q \o w, m)
         /\ w # <<>> => Append(q, Head(w)) \o Tail(w) = q \o w
         /\ q # <<>> => q \o w # <<>> /\ Head(q \o w) = Head(q) /\ Tail(q \o w) = Tail(q) \o w
<1>1. ASSUME NEW s \in Seq(Messages), s # <<>>
      PROVE  s = <<Head(s)>> \o Tail(s) /\ Head(s) \in Messages /\ Tail(s) \in Seq(Messages)
  <2> DEFINE h == Head(s)
             t == Tail(s)
             one == <<h>>
             j == one \o t
  <2>1. /\ h \in Messages /\ t \in Seq(Messages) /\ Len(t) = Len(s) - 1
        /\ \A i \in 1..Len(t) : t[i] = s[i + 1]
        /\ h = s[1]
    BY <1>1, HeadTailProperties
  <2>2. Len(s) \in Nat /\ Len(s) >= 1  BY <1>1, EmptySeq
  <2> HIDE DEF h, t
  <2>3. one \in Seq(Messages) /\ Len(one) = 1 /\ one[1] = h  BY <2>1
  <2> HIDE DEF one
  <2>4. /\ j \in Seq(Messages) /\ Len(j) = Len(one) + Len(t)
        /\ \A i \in 1..(Len(one) + Len(t)) : j[i] = IF i <= Len(one) THEN one[i] ELSE t[i - Len(one)]
    <3>1. one \in Seq(Messages) /\ t \in Seq(Messages)  BY <2>1, <2>3
    <3>2. QED  BY ONLY <3>1, ConcatProperties
  <2> HIDE DEF j
  <2>5. Len(s) = Len(j)  BY <2>1, <2>2, <2>3, <2>4
  <2>6. ASSUME NEW i \in 1..Len(s)  PROVE s[i] = j[i]
    <3>1. CASE i = 1  BY <2>1, <2>2, <2>3, <2>4, <3>1
    <3>2. CASE i # 1
      <4>1. i - 1 \in 1..Len(t) /\ (i - 1) + 1 = i /\ ~(i <= 1) /\ i \in 1..(1 + Len(t))
        BY <2>1, <2>2, <3>2
      <4>2. QED  BY <2>1, <2>3, <2>4, <4>1
    <3>3. QED  BY <3>1, <3>2
  <2>7. s = j  BY <2>4, <2>5, <2>6, SeqEqual
  <2>8. QED  BY <2>1, <2>7 DEF h, t, one, j
<1>2. q \o w \in Seq(Messages) /\ q \o <<>> = q  BY ConcatProperties, ConcatEmptySeq
<1>3. ASSUME NEW m \in Messages  PROVE q \o Append(w, m) = Append(q \o w, m)
  <2>1. <<m>> \in Seq(Messages)  OBVIOUS
  <2>2. Append(w, m) = w \o <<m>> /\ Append(q \o w, m) = (q \o w) \o <<m>>
    BY <1>2, AppendIsConcat
  <2>3. (q \o w) \o <<m>> = q \o (w \o <<m>>)  BY <2>1, ConcatAssociative
  <2>4. QED  BY <2>2, <2>3
<1>4. ASSUME w # <<>>  PROVE Append(q, Head(w)) \o Tail(w) = q \o w
  <2>1. w = <<Head(w)>> \o Tail(w) /\ Head(w) \in Messages /\ Tail(w) \in Seq(Messages)
    BY <1>1, <1>4
  <2>2. <<Head(w)>> \in Seq(Messages)  BY <2>1
  <2>3. Append(q, Head(w)) = q \o <<Head(w)>>  BY <2>1, AppendIsConcat
  <2>4. (q \o <<Head(w)>>) \o Tail(w) = q \o (<<Head(w)>> \o Tail(w))
    BY <2>1, <2>2, ConcatAssociative
  <2>5. QED  BY <2>1, <2>3, <2>4
<1>5. ASSUME q # <<>>
      PROVE  q \o w # <<>> /\ Head(q \o w) = Head(q) /\ Tail(q \o w) = Tail(q) \o w
  <2> DEFINE h == Head(q)
             t == Tail(q) \o w
             s == q \o w
  <2>1. q = <<h>> \o Tail(q) /\ h \in Messages /\ Tail(q) \in Seq(Messages)  BY <1>1, <1>5
  <2>2. <<h>> \in Seq(Messages)  BY <2>1
  <2>3. s = <<h>> \o t  BY <2>1, <2>2, ConcatAssociative
  <2>4. t \in Seq(Messages)  BY <2>1, ConcatProperties
  <2>5. s \in Seq(Messages) /\ s # <<>>  BY <1>2, <1>5, ConcatEqualIffEmpty
  <2> HIDE DEF h, t, s
  <2>6. s = <<Head(s)>> \o Tail(s) /\ Head(s) \in Messages /\ Tail(s) \in Seq(Messages)
    BY <1>1, <2>5
  <2>7. Head(s) = h
    <3>1. \A x \in Messages, y \in Seq(Messages) : (<<x>> \o y)[1] = x
      BY ConcatProperties
    <3>2. QED  BY <2>1, <2>3, <2>4, <2>6, <3>1
  <2>8. <<h>> \in Seq(Messages)  BY <2>2 DEF h
  <2>9. Tail(s) = t  BY <2>3, <2>4, <2>6, <2>7, <2>8, ConcatSimplifications
  <2>10. QED  BY <2>5, <2>7, <2>9 DEF h, t, s
<1>6. QED  BY <1>2, <1>3, <1>4, <1>5

(* What a message does to the panels.                                       *)
LEMMA HandledMessage ==
  /\ Handled(Lost) = {}
  /\ \A p \in Prompts : Handled(Ask(p)) = Present(p) /\ Handled(Withdrawal(p)) = Dismiss(p)
BY DEF Handled, Ask, Withdrawal, Lost

LEMMA NothingWritten == NoWrite \in [socket : Nat, send : Sends] /\ NoWrite.send = Status
BY DEF NoWrite, Sends

(* closeConnection() loses one message or none.                              *)
LEMMA TypedClose ==
  ASSUME PanelTypeOK, CloseConnection
  PROVE  fd' \in Nat /\ connected' \in BOOLEAN /\ mainQueue' \in Seq(Messages)
<1>1. Append(mainQueue, Lost) \in Seq(Messages)  BY Kinds, AppendProperties DEF PanelTypeOK
<1>2. QED  BY <1>1 DEF PanelTypeOK, CloseConnection

LEMMA TypedPanels == PanelTypeOK /\ [PanelNext]_panelVars => PanelTypeOK'
<1> SUFFICES ASSUME PanelTypeOK, [PanelNext]_panelVars  PROVE PanelTypeOK'  OBVIOUS
<1> USE DEF PanelTypeOK
<1>a. ASSUME NEW m \in Messages  PROVE Append(wire, m) \in Seq(Messages)
  BY <1>a, AppendProperties
<1>b. ASSUME NEW p \in Sends  PROVE Append(sends, p) \in Seq(Sends)
  BY <1>b, AppendProperties
<1>1. CASE Serve \/ Perish
  <2>1. CASE Serve
    <3>1. born + 1 \in Nat  OBVIOUS
    <3>2. QED  BY <2>1, <3>1 DEF Serve, socketIO, queues
  <2>2. CASE Perish
    BY <2>2 DEF Perish, socketIO, queues
  <2>3. QED  BY <1>1, <2>1, <2>2
<1>2. CASE AskUser
  <2>1. numbered + 1 \in Nat \ {0}  OBVIOUS
  <2>2. CASE Hears
    <3> DEFINE p == [daemon |-> serving, id |-> numbered + 1]
    <3>1. p \in Prompts  BY <1>2, <2>1 DEF AskUser, Prompts
    <3>2. Append(wire, Ask(p)) \in Seq(Messages)  BY <1>a, <3>1, Kinds
    <3>3. QED  BY <1>2, <2>1, <2>2, <3>2 DEF AskUser, socketIO, queues
  <2>3. QED  BY <1>2, <2>1, <2>2 DEF AskUser, socketIO, queues
<1>3. ASSUME NEW o \in open, Expire(o)  PROVE PanelTypeOK'
  <2>1. [daemon |-> serving, id |-> o.id] \in Prompts  BY <1>3 DEF Expire, Prompts
  <2>2. Append(wire, Withdrawal([daemon |-> serving, id |-> o.id])) \in Seq(Messages)
    BY <1>a, <2>1, Kinds
  <2>3. wire' \in Seq(Messages)  BY <1>3, <2>2 DEF Expire
  <2>4. QED  BY <1>3, <2>3 DEF Expire, socketIO, queues
<1>4. CASE Connect
  <2>1. late' \in BOOLEAN  BY <1>4 DEF Connect
  <2>2. wire' \in Seq(Messages)  BY <1>4, EmptySeq DEF Connect
  <2>3. spoiled' \in BOOLEAN  BY <1>4 DEF Connect
  <2>4. QED  BY <1>4, <2>1, <2>2, <2>3 DEF Connect, daemonVars, queues
<1>5. CASE Greet
  BY <1>5 DEF Greet, daemonVars, queues
<1>6. CASE GreetingFails \/ ReadEnds
  <2>1. fd' \in Nat /\ connected' \in BOOLEAN /\ mainQueue' \in Seq(Messages)
    BY <1>6, TypedClose DEF GreetingFails, ReadEnds
  <2>2. <<>> \in Seq(Messages)  BY EmptySeq
  <2>3. QED  BY <1>6, <2>1, <2>2 DEF GreetingFails, ReadEnds, daemonVars, queues
<1>7. CASE ReadMessage
  <2>1. Head(wire) \in Messages /\ Tail(wire) \in Seq(Messages)
    BY <1>7, HeadTailProperties DEF ReadMessage
  <2>2. Append(mainQueue, Head(wire)) \in Seq(Messages)  BY <2>1, AppendProperties
  <2>3. QED  BY <1>7, <2>1, <2>2 DEF ReadMessage, daemonVars, socketIO, queues
<1>8. CASE HandleMessage
  <2>1. Head(mainQueue) \in Messages /\ Tail(mainQueue) \in Seq(Messages)
    BY <1>8, HeadTailProperties DEF HandleMessage
  <2>2. Handled(Head(mainQueue)) \subseteq Prompts
    <3>1. \A p \in Prompts : Present(p) \subseteq Prompts /\ Dismiss(p) \subseteq Prompts
      BY DEF Present, Dismiss
    <3>2. CASE Head(mainQueue) = Lost  BY <3>2, HandledMessage
    <3>3. ASSUME NEW p \in Prompts, Head(mainQueue) \in {Ask(p), Withdrawal(p)}
          PROVE  Handled(Head(mainQueue)) \subseteq Prompts
      BY <3>1, <3>3, HandledMessage
    <3>4. QED  BY <2>1, <3>2, <3>3, Kinds
  <2>3. QED  BY <1>8, <2>1, <2>2 DEF HandleMessage, daemonVars, socketIO, queues
<1>9. ASSUME NEW p \in panels, Click(p)  PROVE PanelTypeOK'
  <2>1. Append(sends, p) \in Seq(Sends)  BY <1>b DEF Sends
  <2>2. QED  BY <1>9, <2>1 DEF Click, Dismiss, daemonVars, socketIO
<1>10. CASE RequestStatus
  <2>1. Append(sends, Status) \in Seq(Sends)  BY <1>b DEF Sends
  <2>2. QED  BY <1>10, <2>1 DEF RequestStatus, daemonVars, socketIO
<1>11. CASE TakeSend
  <2>1. Head(sends) \in Sends /\ Tail(sends) \in Seq(Sends)
    BY <1>11, HeadTailProperties DEF TakeSend
  <2>2. QED  BY <1>11, <2>1, NothingWritten DEF TakeSend, daemonVars, socketIO
<1>12. CASE WriteArrives
  BY <1>12, NothingWritten DEF WriteArrives, Delivered
<1>13. CASE WriteFails
  BY <1>13, NothingWritten, TypedClose DEF WriteFails, daemonVars
<1>14. CASE WriteKills \/ Quit
  BY <1>14 DEF WriteKills, Quit, daemonVars, socketIO, queues
<1>15. CASE Reopen
  <2>1. <<>> \in Seq(Messages) /\ <<>> \in Seq(Sends)  BY EmptySeq
  <2>2. QED  BY <1>15, <2>1, NothingWritten DEF Reopen
<1>16. CASE UNCHANGED panelVars
  BY <1>16 DEF panelVars, daemonVars, socketIO, queues
<1>17. QED
  BY <1>1, <1>2, <1>3, <1>4, <1>5, <1>6, <1>7, <1>8, <1>9, <1>10, <1>11, <1>12, <1>13, <1>14,
     <1>15, <1>16 DEF PanelNext, ReadLoop, WriteQueue

-----------------------------------------------------------------------------
(* Who changes nothing that a part of the invariant is about keeps it.      *)
LEMMA Untouched ==
  /\ OneConnection /\ UNCHANGED <<connected, reader, fd, wire, writing, source>> => OneConnection'
  /\ InOrder /\ UNCHANGED <<serving, born, source, fd, sockets, open, numbered, reader>> => InOrder'
  /\ LossIsLast /\ UNCHANGED <<Stream, reader, source, serving, panels>> => LossIsLast'
  /\ OfTheSource /\ UNCHANGED <<panels, sends, writing, Stream, source, serving, numbered>>
       => OfTheSource'
  /\ InOnePlace /\ UNCHANGED <<Stream, panels, sends, writing>> => InOnePlace'
  /\ Mirrored /\ UNCHANGED <<source, serving, Stream, open, panels, reader, fd, sends, writing>>
       => Mirrored'
  /\ Applied /\ UNCHANGED applied => Applied'
<1>1. OneConnection /\ UNCHANGED <<connected, reader, fd, wire, writing, source>> => OneConnection'
  BY DEF OneConnection
<1>2. InOrder /\ UNCHANGED <<serving, born, source, fd, sockets, open, numbered, reader>> => InOrder'
  BY DEF InOrder
<1>3. LossIsLast /\ UNCHANGED <<Stream, reader, source, serving, panels>> => LossIsLast'
  BY DEF LossIsLast
<1>4. OfTheSource /\ UNCHANGED <<panels, sends, writing, Stream, source, serving, numbered>>
       => OfTheSource'
  BY DEF OfTheSource, Known, Replying
<1>5. InOnePlace /\ UNCHANGED <<Stream, panels, sends, writing>> => InOnePlace'
  BY DEF InOnePlace, Replying
<1>6. Mirrored /\ UNCHANGED <<source, serving, Stream, open, panels, reader, fd, sends, writing>>
       => Mirrored'
  BY DEF Mirrored, Replying, OpenPrompts
<1>7. Applied /\ UNCHANGED applied => Applied'
  BY DEF Applied
<1>8. QED  BY <1>1, <1>2, <1>3, <1>4, <1>5, <1>6, <1>7

LEMMA StreamUntouched == UNCHANGED <<mainQueue, wire>> => Stream' = Stream
BY DEF Stream

NoSource == source = 0

(* Before there is a connection there is nothing to mirror.                 *)
LEMMA NothingToMirror ==
  PanelTypeOK /\ OneConnection /\ OfTheSource /\ NoSource => Mirrored
<1> SUFFICES ASSUME PanelTypeOK, OneConnection, OfTheSource, source = 0  PROVE Mirrored
  BY DEF NoSource
<1>1. Stream \in Seq(Messages)  BY StreamParts DEF PanelTypeOK, Stream
<1>2. ASSUME NEW p \in Prompts  PROVE ~Known(p)
  BY <1>2 DEF OfTheSource, Prompts
<1>3. reader # "reading"  BY DEF OneConnection
<1>4. panels = {}  BY <1>2 DEF Known, PanelTypeOK
<1>5. WithdrawnAfter(Stream, OpenPrompts)
  BY <1>2 DEF Known, Asked, WithdrawnAfter
<1>6. ASSUME NEW p, Withdrawn(Stream, p)  PROVE FALSE
  <2>1. Withdrawal(p) \in Messages  BY <1>1, <1>6, ElementOfSeq DEF Withdrawn
  <2>2. p \in Prompts  BY <2>1, Kinds
  <2>3. QED  BY <1>2, <1>6, <2>2 DEF Known
<1>7. QED  BY <1>3, <1>4, <1>5, <1>6 DEF Mirrored

LEMMA InitPanels == PanelInit => PanelInv
<1> SUFFICES ASSUME PanelInit  PROVE PanelInv  OBVIOUS
<1> USE DEF PanelInit
<1>1. <<>> \in Seq(Messages) /\ <<>> \in Seq(Sends)  BY EmptySeq
<1>2. PanelTypeOK  BY <1>1, NothingWritten DEF PanelTypeOK
<1>3. Stream = <<>>  BY <1>1, ConcatEmptySeq DEF Stream
<1>4. OneConnection /\ InOrder /\ Applied  BY DEF OneConnection, InOrder, Applied
<1>5. 1..Len(<<>>) = {}  OBVIOUS
<1>6. Replying = {Status}  BY <1>5, NothingWritten DEF Replying
<1>7. LossIsLast  BY <1>3, <1>5 DEF LossIsLast, LostLast
<1>8. OfTheSource  BY <1>3, <1>5, <1>6, Kinds DEF OfTheSource, Known, Asked, Withdrawn
<1>9. InOnePlace  BY <1>3, <1>5, <1>6 DEF InOnePlace, AskedOnce, Asked
<1>10. Mirrored  BY <1>2, <1>4, <1>8, NothingToMirror DEF NoSource
<1>11. QED  BY <1>2, <1>4, <1>7, <1>8, <1>9, <1>10 DEF PanelInv, Prompt

LEMMA NothingNext ==
  PanelTypeOK' /\ OneConnection' /\ OfTheSource' /\ NoSource' => Mirrored'
BY NothingToMirror, PTL

-----------------------------------------------------------------------------
(* The daemon.                                                              *)
LEMMA DaemonComesKeeps == ASSUME PanelTypeOK, PanelTypeOK', Prompt, Serve \/ Perish PROVE Prompt'
<1> USE DEF Prompt
<1>1. /\ UNCHANGED <<connected, reader, fd, wire, writing, source, sockets, panels, sends, applied>>
      /\ Stream' = Stream
  BY StreamUntouched DEF Serve, Perish, socketIO, queues
<1>2. OneConnection' /\ InOnePlace' /\ Applied'  BY <1>1, Untouched
<1>3. source' = serving' => source' = 0
  BY <1>1 DEF Serve, Perish, InOrder, PanelTypeOK
<1>a. LossIsLast'  BY <1>1, <1>3 DEF LossIsLast
<1>4. InOrder'
  BY <1>1 DEF Serve, Perish, InOrder, PanelTypeOK
<1>5. ASSUME NEW p \in Prompts  PROVE Known(p)' => Known(p)
  BY <1>1 DEF Known, Replying
<1>6. OfTheSource'
  BY <1>1, <1>3, <1>5 DEF OfTheSource, Prompts
<1>7. Mirrored'
  <2>1. CASE source' = serving'
    BY <1>2, <1>3, <1>6, <2>1, NothingNext DEF NoSource
  <2>2. CASE source' # serving'  BY <2>2 DEF Mirrored
  <2>3. QED  BY <2>1, <2>2
<1>8. QED  BY <1>2, <1>a, <1>4, <1>6, <1>7

(* A prompt is numbered above all others, so that it is nowhere yet.        *)
LEMMA AskUserKeeps == ASSUME PanelTypeOK, Prompt, AskUser PROVE Prompt'
<1> DEFINE p == [daemon |-> serving, id |-> numbered + 1]
           o == [id |-> numbered + 1, on |-> IF Hears THEN fd ELSE 0]
           t == Append(Stream, Ask(p))
<1> USE DEF Prompt
<1>1. /\ UNCHANGED <<running, serving, born, socketIO, mainQueue, panels, queues, applied, late>>
      /\ serving # 0 /\ numbered' = numbered + 1 /\ open' = open \cup {o}
      /\ wire' = IF Hears THEN Append(wire, Ask(p)) ELSE wire
  BY DEF AskUser
<1>2. numbered \in Nat /\ serving \in Nat /\ fd \in Nat /\ Stream \in Seq(Messages)
  BY StreamParts DEF PanelTypeOK, Stream
<1>3. p \in Prompts /\ Ask(p) \in Messages  BY <1>1, <1>2, Kinds DEF Prompts
<1>4. Stream' = IF Hears THEN t ELSE Stream
  <2>1. mainQueue \o Append(wire, Ask(p)) = Append(mainQueue \o wire, Ask(p))
    BY <1>3, StreamParts DEF PanelTypeOK
  <2>2. QED  BY <1>1, <2>1 DEF Stream
<1>5. source = serving => ~Known(p)
  BY <1>2, <1>3 DEF OfTheSource
<1>6. Hears => source = serving /\ fd # 0 /\ reader = "reading"  BY DEF Hears
<1>7. UNCHANGED <<reader, fd, source, sockets, connected, sends, writing>>
  BY <1>1 DEF socketIO, queues
<1>8. /\ t \in Seq(Messages) /\ t # <<>> /\ t[Len(t)] = Ask(p)
      /\ \A q : Asked(t, q) <=> Asked(Stream, q) \/ Ask(p) = Ask(q)
      /\ \A q : Withdrawn(t, q) <=> Withdrawn(Stream, q) \/ Ask(p) = Withdrawal(q)
  BY <1>2, <1>3, OneMore
<1>9. /\ (\A n \in 1..Len(Stream) : Stream[n] # Lost) => LostLast(t)
      /\ AskedOnce(Stream) /\ (\A q \in Prompts : Ask(p) = Ask(q) => ~Asked(Stream, q)) => AskedOnce(t)
      /\ WithdrawnAfter(Stream, OpenPrompts \cup {p})
           /\ (\A q \in Prompts : Ask(p) = Ask(q) => q \in OpenPrompts \cup {p})
           => WithdrawnAfter(t, OpenPrompts \cup {p})
      /\ \A n \in 1..Len(t) : t[n] = Lost => Ask(p) = Lost \/ \E m \in 1..Len(Stream) : Stream[m] = Lost
  BY <1>2, <1>3, OneMoreInOrder
<1>10. OpenPrompts' = OpenPrompts \cup {p}
  <2>1. OpenPrompts' = {[daemon |-> serving, id |-> x.id] : x \in open \cup {o}}
    BY <1>1 DEF OpenPrompts
  <2>2. o.id = numbered + 1  OBVIOUS
  <2> HIDE DEF o
  <2>3. QED  BY <2>1, <2>2 DEF OpenPrompts
<1>11. Replying' = Replying  BY <1>7 DEF Replying
<1> HIDE DEF t, o
<1>12. OneConnection'
  BY <1>1, <1>6, <1>7 DEF OneConnection
<1>13. InOrder'
  <2>1. o.id = numbered + 1 /\ (o.on = fd \/ o.on = 0) /\ o.on \in Nat  BY <1>2 DEF o
  <2>2. \A x \in open : x.id \in Nat /\ x.id <= numbered  BY DEF InOrder, PanelTypeOK
  <2>3. \A x \in open' : x \in open \/ x = o  BY <1>1
  <2>4. \A x \in open' : x.id <= numbered' /\ x.on <= sockets'
    BY <1>1, <1>2, <1>7, <2>1, <2>2, <2>3 DEF InOrder, PanelTypeOK
  <2>5. \A x \in open : x.id # o.id  BY <1>2, <2>1, <2>2
  <2>6. \A x, y \in open' : x.id = y.id => x = y  BY <2>3, <2>5 DEF InOrder
  <2>7. reader' = "greeting" => \A x \in open' : x.on # fd'
    <3>1. reader = "greeting" => ~Hears /\ fd # 0  BY DEF Hears, OneConnection
    <3>2. reader = "greeting" => o.on # fd  BY <3>1 DEF o
    <3>3. QED  BY <1>7, <2>3, <3>2 DEF InOrder
  <2>8. QED  BY <1>1, <1>7, <2>4, <2>6, <2>7 DEF InOrder
<1>14. LossIsLast'
  <2>1. Hears => \A n \in 1..Len(Stream) : Stream[n] # Lost  BY <1>6 DEF LossIsLast
  <2>2. CASE Hears
    BY <1>1, <1>4, <1>6, <1>7, <1>9, <2>1, <2>2, Kinds DEF LossIsLast
  <2>3. CASE ~Hears
    BY <1>1, <1>4, <1>7, <2>3 DEF LossIsLast
  <2>4. QED  BY <2>2, <2>3
<1>15. ASSUME NEW q \in Prompts  PROVE Known(q)' => Known(q) \/ (Hears /\ q = p)
  BY <1>1, <1>4, <1>8, <1>11, Kinds DEF Known
<1>16. OfTheSource'
  BY <1>1, <1>2, <1>6, <1>7, <1>15 DEF OfTheSource, Prompts
<1>17. InOnePlace'
  <2>1. CASE Hears
    <3>1. ~Known(p)  BY <1>5, <1>6, <2>1
    <3>2. AskedOnce(t)  BY <1>9, <3>1, Kinds DEF InOnePlace, Known
    <3>3. \A q \in Prompts : Asked(t, q) => q \notin panels /\ q \notin Replying
      BY <1>8, <3>1, Kinds DEF InOnePlace, Known
    <3>4. QED  BY <1>1, <1>4, <1>7, <1>11, <2>1, <3>2, <3>3 DEF InOnePlace
  <2>2. CASE ~Hears
    BY <1>1, <1>4, <1>7, <2>2, Untouched
  <2>3. QED  BY <2>1, <2>2
<1>18. Mirrored'
  <2>1. SUFFICES ASSUME source = serving  PROVE Mirrored'  BY <1>1, <1>7 DEF Mirrored
  <2>2. ~Known(p)  BY <1>5, <2>1
  <2>3. WithdrawnAfter(Stream, OpenPrompts \cup {p})  BY <2>1 DEF Mirrored, WithdrawnAfter
  <2>4. WithdrawnAfter(Stream', OpenPrompts')
    BY <1>4, <1>9, <1>10, <2>3, Kinds
  <2>5. \A q : Withdrawn(Stream', q) <=> Withdrawn(Stream, q)  BY <1>4, <1>8, Kinds
  <2>6. \A q \in panels' : q \in OpenPrompts' \/ Withdrawn(Stream', q)
    BY <1>1, <1>10, <2>1, <2>5 DEF Mirrored
  <2>7. \A q \in OpenPrompts' : ~Withdrawn(Stream', q)
    BY <1>10, <2>1, <2>2, <2>5 DEF Mirrored, Known
  <2>8. ASSUME NEW x \in open', x.on = fd', reader' = "reading",
               NEW q, q = [daemon |-> serving, id |-> x.id]
        PROVE  q \in panels \/ q \in Replying \/ Asked(Stream', q)
    <3>1. CASE x \in open
      BY <1>4, <1>7, <1>8, <2>1, <2>8, <3>1 DEF Mirrored
    <3>2. CASE x = o
      <4>1. q = p  BY <2>8, <3>2 DEF o
      <4>2. fd # 0  BY <1>7, <2>8 DEF OneConnection
      <4>3. Hears  BY <1>7, <2>1, <2>8, <4>2 DEF Hears
      <4>4. QED  BY <1>4, <1>8, <4>1, <4>3
    <3>3. QED  BY <1>1, <3>1, <3>2
  <2>9. QED  BY <1>1, <1>7, <1>11, <2>4, <2>6, <2>7, <2>8 DEF Mirrored
<1>19. QED  BY <1>1, <1>12, <1>13, <1>14, <1>16, <1>17, <1>18 DEF Applied

(* A prompt is withdrawn after it was asked.                                *)
LEMMA ExpireKeeps == ASSUME PanelTypeOK, Prompt, NEW o \in open, Expire(o) PROVE Prompt'
<1> DEFINE p == [daemon |-> serving, id |-> o.id]
           t == Append(Stream, Withdrawal(p))
<1> USE DEF Prompt
<1>1. /\ UNCHANGED <<running, serving, born, numbered, socketIO, mainQueue, panels, queues,
                     applied, late>>
      /\ serving # 0 /\ open' = open \ {o}
      /\ wire' = IF Hears THEN Append(wire, Withdrawal(p)) ELSE wire
  BY DEF Expire
<1>2. serving \in Nat /\ o.id \in Nat \ {0} /\ Stream \in Seq(Messages)
  BY StreamParts DEF PanelTypeOK, Stream
<1>3. p \in Prompts /\ Withdrawal(p) \in Messages  BY <1>1, <1>2, Kinds DEF Prompts
<1>4. Stream' = IF Hears THEN t ELSE Stream
  <2>1. mainQueue \o Append(wire, Withdrawal(p)) = Append(mainQueue \o wire, Withdrawal(p))
    BY <1>3, StreamParts DEF PanelTypeOK
  <2>2. QED  BY <1>1, <2>1 DEF Stream
<1>5. Hears => source = serving /\ fd # 0 /\ reader = "reading"  BY DEF Hears
<1>6. UNCHANGED <<reader, fd, source, sockets, connected, sends, writing>>
  BY <1>1 DEF socketIO, queues
<1>7. /\ t \in Seq(Messages) /\ t # <<>> /\ t[Len(t)] = Withdrawal(p)
      /\ \A q : Asked(t, q) <=> Asked(Stream, q) \/ Withdrawal(p) = Ask(q)
      /\ \A q : Withdrawn(t, q) <=> Withdrawn(Stream, q) \/ Withdrawal(p) = Withdrawal(q)
  BY <1>2, <1>3, OneMore
<1>8. /\ (\A n \in 1..Len(Stream) : Stream[n] # Lost) => LostLast(t)
      /\ AskedOnce(Stream) /\ (\A q \in Prompts : Withdrawal(p) = Ask(q) => ~Asked(Stream, q))
           => AskedOnce(t)
      /\ \A n \in 1..Len(t) :
           t[n] = Lost => Withdrawal(p) = Lost \/ \E m \in 1..Len(Stream) : Stream[m] = Lost
  BY <1>2, <1>3, OneMoreInOrder
<1>9. p \in OpenPrompts /\ OpenPrompts' = OpenPrompts \ {p}
  <2>1. p \in OpenPrompts  BY DEF OpenPrompts
  <2>2. \A x \in open : x.id = o.id => x = o  BY DEF InOrder
  <2>3. OpenPrompts' = {[daemon |-> serving, id |-> x.id] : x \in open \ {o}}
    BY <1>1 DEF OpenPrompts
  <2>4. QED  BY <2>1, <2>2, <2>3 DEF OpenPrompts
<1>10. Replying' = Replying  BY <1>6 DEF Replying
<1> HIDE DEF t
<1>11. OneConnection'  BY <1>1, <1>5, <1>6 DEF OneConnection
<1>12. InOrder'  BY <1>1, <1>6 DEF InOrder
<1>13. LossIsLast'
  <2>1. CASE Hears
    <3>1. \A n \in 1..Len(Stream) : Stream[n] # Lost  BY <1>5, <2>1 DEF LossIsLast
    <3>2. QED  BY <1>1, <1>4, <1>5, <1>6, <1>8, <2>1, <3>1, Kinds DEF LossIsLast
  <2>2. CASE ~Hears
    BY <1>1, <1>4, <1>6, <2>2 DEF LossIsLast
  <2>3. QED  BY <2>1, <2>2
<1>14. p.daemon = source => p.id <= numbered
  BY <1>2 DEF InOrder, PanelTypeOK
<1>15. ASSUME NEW q \in Prompts  PROVE Known(q)' => Known(q) \/ (Hears /\ q = p)
  BY <1>1, <1>4, <1>7, <1>10, Kinds DEF Known
<1>16. OfTheSource'
  BY <1>1, <1>2, <1>5, <1>6, <1>14, <1>15 DEF OfTheSource, Prompts
<1>17. InOnePlace'
  <2>1. CASE Hears
    <3>1. AskedOnce(t)  BY <1>8, Kinds DEF InOnePlace
    <3>2. \A q \in Prompts : Asked(t, q) => q \notin panels /\ q \notin Replying
      BY <1>7, Kinds DEF InOnePlace
    <3>3. QED  BY <1>1, <1>4, <1>6, <1>10, <2>1, <3>1, <3>2 DEF InOnePlace
  <2>2. CASE ~Hears
    BY <1>1, <1>4, <1>6, <2>2, Untouched
  <2>3. QED  BY <2>1, <2>2
<1>18. Mirrored'
  <2>1. SUFFICES ASSUME source = serving  PROVE Mirrored'  BY <1>1, <1>6 DEF Mirrored
  <2>2. CASE Hears
    <3>1. WithdrawnAfter(t, OpenPrompts \ {p})
      <4> DEFINE s == Stream
      <4>1. /\ Len(t) = Len(s) + 1 /\ t[Len(s) + 1] = Withdrawal(p) /\ Len(s) \in Nat
            /\ \A i \in 1..Len(s) : t[i] = s[i]
        BY <1>2, <1>3, AppendProperties DEF t
      <4>2. WithdrawnAfter(s, OpenPrompts)  BY <2>1 DEF Mirrored
      <4> HIDE DEF s
      <4>3. ASSUME NEW n \in 1..Len(t), NEW q \in Prompts, t[n] = Ask(q),
                   q \notin OpenPrompts \ {p}
            PROVE  \E m \in 1..Len(t) : m > n /\ t[m] = Withdrawal(q)
        <5>1. n # Len(s) + 1  BY <4>1, <4>3, Kinds
        <5>2. n \in 1..Len(s) /\ s[n] = Ask(q)  BY <4>1, <4>3, <5>1
        <5>3. CASE q = p
          BY <4>1, <5>2, <5>3
        <5>4. CASE q # p
          <6>1. PICK m \in 1..Len(s) : m > n /\ s[m] = Withdrawal(q)
            BY <4>2, <4>3, <5>2, <5>4 DEF WithdrawnAfter
          <6>2. m \in 1..Len(t) /\ t[m] = Withdrawal(q)  BY <4>1, <6>1
          <6>3. QED  BY <6>1, <6>2
        <5>5. QED  BY <5>3, <5>4
      <4>4. QED  BY <4>3 DEF WithdrawnAfter
    <3>2. \A q \in panels' : q \in OpenPrompts' \/ Withdrawn(t, q)
      BY <1>1, <1>7, <1>9, <2>1 DEF Mirrored
    <3>3. \A q \in OpenPrompts' : ~Withdrawn(t, q)
      BY <1>7, <1>9, <2>1, Kinds DEF Mirrored
    <3>4. \A x \in open' : x.on = fd' /\ reader' = "reading" =>
            LET q == [daemon |-> serving, id |-> x.id]
            IN q \in panels \/ q \in Replying \/ Asked(t, q)
      BY <1>1, <1>6, <1>7, <2>1 DEF Mirrored
    <3>5. QED  BY <1>1, <1>4, <1>6, <1>9, <1>10, <2>2, <3>1, <3>2, <3>3, <3>4 DEF Mirrored
  <2>3. CASE ~Hears
    <3>1. reader # "reading"  BY <2>1, <2>3 DEF Hears, OneConnection
    <3>2. Stream = <<>> /\ panels = {}
      <4>1. Stream # <<>> => Len(Stream) \in 1..Len(Stream)  BY <1>2, EmptySeq
      <4>2. QED  BY <2>1, <3>1, <4>1 DEF LossIsLast
    <3>3. 1..Len(Stream) = {}  BY <3>2
    <3>4. Stream' = Stream /\ panels' = panels /\ reader' # "reading"
      BY <1>1, <1>4, <1>6, <2>3, <3>1
    <3>5. WithdrawnAfter(Stream, OpenPrompts')  BY <3>3 DEF WithdrawnAfter
    <3>6. \A q : ~Withdrawn(Stream, q)  BY <3>3 DEF Withdrawn
    <3>7. QED  BY <3>2, <3>4, <3>5, <3>6 DEF Mirrored
  <2>4. QED  BY <2>2, <2>3
<1>19. QED  BY <1>1, <1>11, <1>12, <1>13, <1>16, <1>17, <1>18 DEF Applied

-----------------------------------------------------------------------------
(* The read loop.  A connection that is opened without delay finds nothing  *)
(* of the last one.                                                        *)
LEMMA ConnectKeeps == ASSUME PanelTypeOK, Prompt, Connect, ~late' PROVE Prompt'
<1> USE DEF Prompt
<1>1. /\ reader = "sleeping" /\ serving # 0
      /\ sockets' = sockets + 1 /\ fd' = sockets + 1 /\ source' = serving /\ wire' = <<>>
      /\ reader' = "greeting"
      /\ UNCHANGED <<running, daemonVars, connected, mainQueue, panels, queues, applied>>
  BY DEF Connect
<1>2. /\ \A n \in DOMAIN mainQueue : mainQueue[n] # Lost
      /\ \A n \in DOMAIN sends : sends[n] = Status
      /\ writing = NoWrite
  BY DEF Connect
<1>3. /\ UNCHANGED <<serving, born, numbered, open, sends, writing>>
      /\ serving \in Nat /\ sockets \in Nat /\ mainQueue \in Seq(Messages)
  BY <1>1 DEF daemonVars, queues, PanelTypeOK
<1>4. wire = <<>> /\ Stream = mainQueue
  BY <1>1, StreamParts DEF OneConnection, Stream, PanelTypeOK
<1>5. Stream' = Stream  BY <1>1, <1>4, StreamUntouched
<1>6. Stream = <<>> /\ panels = {}
  <2>1. Stream # <<>> => Len(Stream) \in DOMAIN Stream  BY <1>3, <1>4, EmptySeq
  <2>2. QED  BY <1>1, <1>2, <1>4, <2>1 DEF LossIsLast
<1>7. Replying \subseteq {Status} /\ Replying' = Replying
  <2>1. DOMAIN sends = 1..Len(sends)  BY DEF PanelTypeOK
  <2>2. QED  BY <1>2, <1>3, <2>1, NothingWritten DEF Replying
<1>8. 1..Len(Stream) = {}  BY <1>6
<1>9. OneConnection'  BY <1>1, <1>2, <1>3 DEF OneConnection
<1>10. InOrder'
  <2>1. \A o \in open : o.on \in Nat /\ o.on <= sockets /\ o.on # sockets + 1
    BY <1>3 DEF InOrder, PanelTypeOK
  <2>2. \A o \in open' : o.id <= numbered' /\ o.on <= sockets'
    BY <1>1, <1>3, <2>1 DEF InOrder, PanelTypeOK
  <2>3. serving' <= born' /\ source' <= born' /\ fd' <= sockets'
    BY <1>1, <1>3 DEF InOrder, PanelTypeOK
  <2>4. QED  BY <1>1, <1>3, <2>1, <2>2, <2>3 DEF InOrder
<1>11. LossIsLast'  BY <1>1, <1>5, <1>6, <1>8 DEF LossIsLast, LostLast
<1>12. OfTheSource'
  BY <1>1, <1>5, <1>6, <1>7, <1>8, Kinds DEF OfTheSource, Known, Asked, Withdrawn
<1>13. InOnePlace'  BY <1>1, <1>3, <1>5, Untouched
<1>14. Mirrored'
  BY <1>1, <1>5, <1>6, <1>8 DEF Mirrored, WithdrawnAfter, Withdrawn
<1>15. QED  BY <1>1, <1>9, <1>10, <1>11, <1>12, <1>13, <1>14 DEF Applied

LEMMA GreetKeeps == ASSUME PanelTypeOK, Prompt, Greet PROVE Prompt'
<1> USE DEF Prompt
<1>1. /\ reader = "greeting" /\ fd # 0 /\ reader' = "reading" /\ connected' = TRUE
      /\ UNCHANGED <<fd, source, sockets, wire, mainQueue, panels, sends, writing, applied,
                     serving, born, numbered, open>>
      /\ Stream' = Stream
  BY StreamUntouched DEF Greet, daemonVars, queues
<1>2. \A n \in 1..Len(Stream) : Stream[n] # Lost  BY <1>1 DEF LossIsLast
<1>3. \A o \in open : o.on # fd  BY <1>1 DEF InOrder
<1>4. OneConnection'  BY <1>1 DEF OneConnection
<1>5. InOrder'  BY <1>1 DEF InOrder
<1>6. LossIsLast'  BY <1>1, <1>2 DEF LossIsLast
<1>7. OfTheSource' /\ InOnePlace' /\ Applied'  BY <1>1, Untouched
<1>8. Mirrored'
  <2>1. OpenPrompts' = OpenPrompts  BY <1>1 DEF OpenPrompts
  <2>2. QED  BY <1>1, <1>3, <2>1 DEF Mirrored
<1>9. QED  BY <1>4, <1>5, <1>6, <1>7, <1>8

(* A connection that never was one is not lost.                             *)
LEMMA GreetingFailsKeeps == ASSUME PanelTypeOK, Prompt, GreetingFails PROVE Prompt'
<1> USE DEF Prompt
<1>1. /\ reader = "greeting" /\ reader' = "sleeping" /\ ~connected
      /\ fd' = 0 /\ connected' = FALSE
      /\ UNCHANGED <<source, sockets, wire, mainQueue, panels, sends, writing, applied,
                     serving, born, numbered, open>>
      /\ Stream' = Stream
  BY StreamUntouched DEF GreetingFails, CloseConnection, OneConnection, daemonVars, queues
<1>2. OneConnection'  BY <1>1 DEF OneConnection
<1>3. InOrder'
  <2>1. 0 <= sockets  BY DEF PanelTypeOK
  <2>2. QED  BY <1>1, <2>1 DEF InOrder
<1>4. LossIsLast'  BY <1>1 DEF LossIsLast
<1>5. OfTheSource' /\ InOnePlace' /\ Applied'  BY <1>1, Untouched
<1>6. Mirrored'
  <2>1. OpenPrompts' = OpenPrompts  BY <1>1 DEF OpenPrompts
  <2>2. QED  BY <1>1, <2>1 DEF Mirrored
<1>7. QED  BY <1>2, <1>3, <1>4, <1>5, <1>6

LEMMA ReadMessageKeeps == ASSUME PanelTypeOK, Prompt, ReadMessage PROVE Prompt'
<1> USE DEF Prompt
<1>1. /\ reader = "reading" /\ wire # <<>>
      /\ mainQueue' = Append(mainQueue, Head(wire)) /\ wire' = Tail(wire)
      /\ UNCHANGED <<connected, reader, fd, source, sockets, panels, sends, writing, applied,
                     serving, born, numbered, open>>
  BY DEF ReadMessage, daemonVars, socketIO, queues
<1>2. Stream' = Stream  BY <1>1, StreamParts DEF Stream, PanelTypeOK
<1>3. OneConnection'  BY <1>1 DEF OneConnection
<1>4. QED  BY <1>1, <1>2, <1>3, Untouched

(* A connection that is lost is the last thing there is to tell.            *)
LEMMA ReadEndsKeeps == ASSUME PanelTypeOK, Prompt, ReadEnds PROVE Prompt'
<1> DEFINE t == Append(Stream, Lost)
<1> USE DEF Prompt
<1>1. /\ reader = "reading" /\ reader' = "sleeping" /\ fd' = 0 /\ connected' = FALSE
      /\ mainQueue' = Append(mainQueue, Lost) /\ wire' = <<>>
      /\ UNCHANGED <<source, sockets, panels, sends, writing, applied, serving, born, numbered,
                     open>>
  BY DEF ReadEnds, CloseConnection, OneConnection, daemonVars, queues
<1>2. fd # 0 /\ wire = <<>> /\ source # serving /\ source # 0
  BY <1>1 DEF ReadEnds, NothingToRead, OneConnection
<1>3. Stream \in Seq(Messages) /\ Stream = mainQueue
  BY <1>2, StreamParts DEF Stream, PanelTypeOK
<1>4. Stream' = t
  <2>1. Append(mainQueue, Lost) \in Seq(Messages)  BY Kinds, AppendProperties DEF PanelTypeOK
  <2>2. QED  BY <1>1, <1>3, <2>1, ConcatEmptySeq DEF Stream
<1>5. /\ t # <<>> /\ t[Len(t)] = Lost
      /\ \A p : Asked(t, p) <=> Asked(Stream, p) \/ Lost = Ask(p)
      /\ \A p : Withdrawn(t, p) <=> Withdrawn(Stream, p) \/ Lost = Withdrawal(p)
  BY <1>3, Kinds, OneMore
<1>6. /\ (\A n \in 1..Len(Stream) : Stream[n] # Lost) => LostLast(t)
      /\ AskedOnce(Stream) /\ (\A p \in Prompts : Lost = Ask(p) => ~Asked(Stream, p))
           => AskedOnce(t)
  BY <1>3, Kinds, OneMoreInOrder
<1>7. Replying' = Replying  BY <1>1 DEF Replying
<1> HIDE DEF t
<1>8. OneConnection'  BY <1>1 DEF OneConnection
<1>9. InOrder'
  <2>1. 0 <= sockets  BY DEF PanelTypeOK
  <2>2. QED  BY <1>1, <2>1 DEF InOrder
<1>10. LossIsLast'
  <2>1. LostLast(t)  BY <1>1, <1>6 DEF LossIsLast
  <2>2. QED  BY <1>1, <1>2, <1>4, <1>5, <2>1 DEF LossIsLast
<1>11. ASSUME NEW p \in Prompts  PROVE Known(p)' <=> Known(p)
  BY <1>1, <1>4, <1>5, <1>7, Kinds DEF Known
<1>12. OfTheSource'  BY <1>1, <1>11 DEF OfTheSource
<1>13. InOnePlace'
  BY <1>1, <1>4, <1>5, <1>6, <1>7, Kinds DEF InOnePlace
<1>14. Mirrored'  BY <1>1, <1>2 DEF Mirrored
<1>15. QED  BY <1>1, <1>8, <1>9, <1>10, <1>12, <1>13, <1>14 DEF Applied

-----------------------------------------------------------------------------
(* The main thread.  As all panels are of one daemon, the number of one     *)
(* names it.                                                               *)
LEMMA HandleMessageKeeps == ASSUME PanelTypeOK, Prompt, HandleMessage PROVE Prompt'
<1> DEFINE t == Tail(Stream)
           m == Head(Stream)
<1> USE DEF Prompt
<1>1. /\ mainQueue # <<>> /\ panels' = Handled(Head(mainQueue)) /\ mainQueue' = Tail(mainQueue)
      /\ UNCHANGED <<connected, reader, fd, source, sockets, wire, sends, writing, applied,
                     serving, born, numbered, open>>
  BY DEF HandleMessage, daemonVars, socketIO, queues
<1>2. mainQueue \in Seq(Messages) /\ wire \in Seq(Messages)  BY DEF PanelTypeOK
<1>3. Stream \in Seq(Messages) /\ Stream # <<>> /\ m = Head(mainQueue) /\ Stream' = t
  BY <1>1, <1>2, StreamParts DEF Stream
<1>4. /\ t \in Seq(Messages) /\ m \in Messages /\ m = Stream[1]
      /\ \A p : Asked(Stream, p) <=> m = Ask(p) \/ Asked(t, p)
      /\ \A p : Withdrawn(Stream, p) <=> m = Withdrawal(p) \/ Withdrawn(t, p)
      /\ LostLast(t) /\ (m = Lost => t = <<>>)
      /\ AskedOnce(t) /\ \A p \in Prompts : m = Ask(p) => ~Asked(t, p)
      /\ \A n \in 1..Len(t) : \E k \in 1..Len(Stream) : Stream[k] = t[n]
      /\ t # <<>> => t[Len(t)] = Stream[Len(Stream)]
  BY <1>3, OneLess DEF LossIsLast, InOnePlace
<1>5. source = serving =>
        /\ WithdrawnAfter(t, OpenPrompts)
        /\ \A p \in Prompts : m = Ask(p) => p \in OpenPrompts \/ Withdrawn(t, p)
  BY <1>3, OneLess DEF Mirrored
<1>a. Len(t) = Len(Stream) - 1 /\ Len(Stream) \in Nat  BY <1>3, HeadTailProperties
<1> HIDE DEF t, m
<1>6. t = <<>> => m = Stream[Len(Stream)]
  <2>1. t = <<>> => Len(Stream) = 1  BY <1>a, EmptySeq
  <2>2. QED  BY <1>4, <2>1
<1>7. m = Lost \/ \E p \in Prompts : m = Ask(p) \/ m = Withdrawal(p)  BY <1>4, Kinds
<1>8. \A p \in panels : p \in Prompts /\ p = [daemon |-> source, id |-> p.id]
  BY DEF OfTheSource, Known, PanelTypeOK, Prompts
<1>9. m = Lost => panels' = {}  BY <1>1, <1>3, HandledMessage
<1>10. ASSUME NEW p \in Prompts, m = Ask(p)
       PROVE  p \notin panels /\ panels' = panels \cup {p} /\ p.daemon = source
  <2>1. Asked(Stream, p)  BY <1>4, <1>10
  <2>2. p \notin panels /\ p.daemon = source  BY <2>1 DEF InOnePlace, OfTheSource, Known
  <2>3. p = [daemon |-> source, id |-> p.id]  BY <2>2 DEF Prompts
  <2>4. \A q \in panels : q.id # p.id  BY <1>8, <2>2, <2>3
  <2>5. QED  BY <1>1, <1>3, <1>10, <2>2, <2>4, HandledMessage DEF Present
<1>11. ASSUME NEW p \in Prompts, m = Withdrawal(p)  PROVE panels' = panels \ {p}
  <2>1. Withdrawn(Stream, p)  BY <1>4, <1>11
  <2>2. p.daemon = source  BY <2>1 DEF OfTheSource, Known
  <2>3. p = [daemon |-> source, id |-> p.id]  BY <2>2 DEF Prompts
  <2>4. \A q \in panels : q.id = p.id => q = p  BY <1>8, <2>3
  <2>5. QED  BY <1>1, <1>3, <1>11, <2>4, HandledMessage DEF Dismiss
<1>12. Replying' = Replying /\ OpenPrompts' = OpenPrompts  BY <1>1 DEF Replying, OpenPrompts
<1>13. OneConnection' /\ InOrder' /\ Applied'  BY <1>1, Untouched
<1>14. LossIsLast'
  <2>1. \A n \in 1..Len(t) : t[n] = Lost => reader = "sleeping" /\ source \notin {0, serving}
    BY <1>4 DEF LossIsLast
  <2>2. reader # "reading" => Stream[Len(Stream)] = Lost  BY <1>3 DEF LossIsLast
  <2>3. reader # "reading" => \/ t = <<>> /\ panels' = {}
                              \/ t # <<>> /\ t[Len(t)] = Lost
    BY <1>4, <1>6, <1>9, <2>2
  <2>4. QED  BY <1>1, <1>3, <1>4, <2>1, <2>3 DEF LossIsLast
<1>15. ASSUME NEW p \in Prompts  PROVE Known(p)' => Known(p)
  <2>1. p \in panels' => p \in panels \/ Asked(Stream, p)
    BY <1>4, <1>7, <1>9, <1>10, <1>11
  <2>2. QED  BY <1>3, <1>4, <1>12, <2>1 DEF Known
<1>16. OfTheSource'  BY <1>1, <1>15 DEF OfTheSource
<1>17. InOnePlace'
  <2>1. \A p \in panels' : p \in Prompts /\ (p \in panels \/ m = Ask(p))
    BY <1>7, <1>8, <1>9, <1>10, <1>11
  <2>2. \A p \in Prompts : Asked(t, p) => p \notin panels' /\ p \notin Replying
    BY <1>4, <2>1 DEF InOnePlace
  <2>3. \A p \in panels' : p \notin Replying  BY <1>4, <2>1 DEF InOnePlace
  <2>4. QED  BY <1>1, <1>3, <1>4, <1>12, <2>2, <2>3 DEF InOnePlace
<1>18. Mirrored'
  <2>1. SUFFICES ASSUME source = serving  PROVE Mirrored'  BY <1>1 DEF Mirrored
  <2>2. ASSUME NEW p \in panels'  PROVE p \in OpenPrompts \/ Withdrawn(t, p)
    <3>1. CASE m = Lost  BY <1>9, <2>2, <3>1
    <3>2. ASSUME NEW q \in Prompts, m = Ask(q)  PROVE p \in OpenPrompts \/ Withdrawn(t, p)
      BY <1>4, <1>5, <1>10, <2>1, <2>2, <3>2, Kinds DEF Mirrored
    <3>3. ASSUME NEW q \in Prompts, m = Withdrawal(q)
          PROVE  p \in OpenPrompts \/ Withdrawn(t, p)
      <4>1. p \in panels /\ p # q  BY <1>11, <2>2, <3>3
      <4>2. p \in OpenPrompts \/ Withdrawn(Stream, p)  BY <2>1, <4>1 DEF Mirrored
      <4>3. m # Withdrawal(p)  BY <3>3, <4>1, Kinds
      <4>4. QED  BY <1>4, <4>2, <4>3
    <3>4. QED  BY <1>7, <3>1, <3>2, <3>3
  <2>3. \A p \in OpenPrompts : ~Withdrawn(t, p)  BY <1>4, <2>1 DEF Mirrored
  <2>4. ASSUME NEW o \in open, o.on = fd, reader = "reading",
               NEW p, p = [daemon |-> serving, id |-> o.id]
        PROVE  p \in panels' \/ p \in Replying \/ Asked(t, p)
    <3>1. p \in OpenPrompts  BY <2>4 DEF OpenPrompts
    <3>2. ~Withdrawn(Stream, p)  BY <2>1, <3>1 DEF Mirrored
    <3>3. p \in panels \/ p \in Replying \/ m = Ask(p) \/ Asked(t, p)
      BY <1>4, <2>1, <2>4 DEF Mirrored
    <3>4. m # Lost  BY <2>1, <1>3, <1>4, <2>4, EmptySeq DEF LossIsLast
    <3>5. CASE \E q \in Prompts : m = Ask(q)
      BY <1>10, <3>3, <3>5, Kinds
    <3>6. CASE \E q \in Prompts : m = Withdrawal(q)
      BY <1>4, <1>11, <3>2, <3>3, <3>6, Kinds
    <3>7. QED  BY <1>7, <3>4, <3>5, <3>6
  <2>5. QED  BY <1>1, <1>3, <1>5, <1>12, <2>1, <2>2, <2>3, <2>4 DEF Mirrored
<1>19. QED  BY <1>13, <1>14, <1>16, <1>17, <1>18

(* One answer more, or a request for the status.                            *)
LEMMA OneMoreSend ==
  ASSUME PanelTypeOK, NEW p \in Sends, p = Status \/ p \notin Replying,
         sends' = Append(sends, p), UNCHANGED writing,
         \A m, n \in 1..Len(sends) : sends[m] = sends[n] /\ sends[n] # Status => m = n,
         \A n \in 1..Len(sends) : sends[n] = writing.send => sends[n] = Status
  PROVE  /\ Replying' = Replying \cup {p}
         /\ \A m, n \in 1..Len(sends') : sends'[m] = sends'[n] /\ sends'[n] # Status => m = n
         /\ \A n \in 1..Len(sends') : sends'[n] = writing'.send => sends'[n] = Status
<1>1. /\ Len(sends') = Len(sends) + 1 /\ Len(sends) \in Nat /\ sends'[Len(sends) + 1] = p
      /\ \A i \in 1..Len(sends) : sends'[i] = sends[i]
  BY AppendProperties DEF PanelTypeOK
<1>2. \A i \in 1..Len(sends') : i \in 1..Len(sends) \/ i = Len(sends')  BY <1>1
<1>3. \A i \in 1..Len(sends) : i \in 1..Len(sends')  BY <1>1
<1>4. Len(sends') \in 1..Len(sends') /\ sends'[Len(sends')] = p  BY <1>1
<1>5. {sends'[n] : n \in 1..Len(sends')} = {sends[n] : n \in 1..Len(sends)} \cup {p}
  BY <1>1, <1>2, <1>3, <1>4
<1>6. Replying' = Replying \cup {p}  BY <1>5 DEF Replying
<1>7. p # Status => (\A n \in 1..Len(sends) : sends[n] # p) /\ writing.send # p
  BY DEF Replying
<1>8. ASSUME NEW m \in 1..Len(sends'), NEW n \in 1..Len(sends'), sends'[m] = sends'[n],
             sends'[n] # Status
      PROVE  m = n
  BY <1>1, <1>2, <1>4, <1>7, <1>8
<1>9. ASSUME NEW n \in 1..Len(sends'), sends'[n] = writing'.send  PROVE sends'[n] = Status
  BY <1>1, <1>2, <1>4, <1>7, <1>9
<1>10. QED  BY <1>6, <1>8, <1>9

LEMMA ClickKeeps == ASSUME PanelTypeOK, Prompt, NEW p \in panels, Click(p) PROVE Prompt'
<1> USE DEF Prompt
<1>1. /\ panels' = Dismiss(p) /\ sends' = Append(sends, p)
      /\ UNCHANGED <<connected, reader, fd, source, sockets, wire, mainQueue, writing, applied,
                     serving, born, numbered, open>>
      /\ Stream' = Stream
  BY StreamUntouched DEF Click, daemonVars, socketIO
<1>2. p \in Prompts /\ p \in Sends  BY DEF PanelTypeOK, Sends
<1>3. p \notin Replying  BY DEF InOnePlace
<1>4. panels' = panels \ {p}
  <2>1. \A q \in panels : q = [daemon |-> source, id |-> q.id]
    BY DEF OfTheSource, Known, PanelTypeOK, Prompts
  <2>2. QED  BY <1>1, <2>1 DEF Dismiss
<1>5. /\ Replying' = Replying \cup {p}
      /\ \A m, n \in 1..Len(sends') : sends'[m] = sends'[n] /\ sends'[n] # Status => m = n
      /\ \A n \in 1..Len(sends') : sends'[n] = writing'.send => sends'[n] = Status
  BY <1>1, <1>2, <1>3, OneMoreSend DEF InOnePlace
<1>6. OneConnection' /\ InOrder' /\ Applied'  BY <1>1, Untouched
<1>7. LossIsLast'  BY <1>1, <1>4 DEF LossIsLast
<1>8. ASSUME NEW q \in Prompts  PROVE Known(q)' => Known(q)
  BY <1>1, <1>4, <1>5 DEF Known
<1>9. OfTheSource'  BY <1>1, <1>8 DEF OfTheSource
<1>10. InOnePlace'
  <2>1. \A q \in Prompts : Asked(Stream, q) => q \notin panels' /\ q \notin Replying'
    BY <1>4, <1>5 DEF InOnePlace
  <2>2. \A q \in panels' : q \notin Replying'  BY <1>4, <1>5 DEF InOnePlace
  <2>3. QED  BY <1>1, <1>5, <2>1, <2>2 DEF InOnePlace
<1>11. Mirrored'
  <2>1. OpenPrompts' = OpenPrompts  BY <1>1 DEF OpenPrompts
  <2>2. QED  BY <1>1, <1>4, <1>5, <2>1 DEF Mirrored
<1>12. QED  BY <1>6, <1>7, <1>9, <1>10, <1>11

LEMMA RequestStatusKeeps == ASSUME PanelTypeOK, Prompt, RequestStatus PROVE Prompt'
<1> USE DEF Prompt
<1>1. /\ sends' = Append(sends, Status)
      /\ UNCHANGED <<connected, reader, fd, source, sockets, wire, mainQueue, panels, writing,
                     applied, serving, born, numbered, open>>
      /\ Stream' = Stream
  BY StreamUntouched DEF RequestStatus, daemonVars, socketIO
<1>2. Status \in Sends  BY DEF Sends
<1>3. /\ Replying' = Replying \cup {Status}
      /\ \A m, n \in 1..Len(sends') : sends'[m] = sends'[n] /\ sends'[n] # Status => m = n
      /\ \A n \in 1..Len(sends') : sends'[n] = writing'.send => sends'[n] = Status
  BY <1>1, <1>2, OneMoreSend DEF InOnePlace
<1>4. \A p \in Prompts : p # Status  BY Kinds
<1>5. OneConnection' /\ InOrder' /\ LossIsLast' /\ Applied'  BY <1>1, Untouched
<1>6. ASSUME NEW q \in Prompts  PROVE Known(q)' => Known(q)
  BY <1>1, <1>3, <1>4 DEF Known
<1>7. OfTheSource'  BY <1>1, <1>6 DEF OfTheSource
<1>8. InOnePlace'
  <2>1. \A q \in Prompts : Asked(Stream, q) => q \notin panels /\ q \notin Replying'
    BY <1>3, <1>4 DEF InOnePlace
  <2>2. \A q \in panels : q \notin Replying'  BY <1>3, <1>4 DEF InOnePlace, PanelTypeOK
  <2>3. QED  BY <1>1, <1>3, <2>1, <2>2 DEF InOnePlace
<1>9. Mirrored'
  <2>1. OpenPrompts' = OpenPrompts  BY <1>1 DEF OpenPrompts
  <2>2. QED  BY <1>1, <1>3, <2>1 DEF Mirrored
<1>10. QED  BY <1>5, <1>7, <1>8, <1>9

-----------------------------------------------------------------------------
(* The write queue.                                                         *)
LEMMA TakeSendKeeps == ASSUME PanelTypeOK, Prompt, TakeSend PROVE Prompt'
<1> USE DEF Prompt
<1>1. /\ writing = NoWrite /\ sends # <<>> /\ sends' = Tail(sends)
      /\ writing' = IF fd = 0 THEN NoWrite ELSE [socket |-> fd, send |-> Head(sends)]
      /\ UNCHANGED <<connected, reader, fd, source, sockets, wire, mainQueue, panels, applied,
                     serving, born, numbered, open>>
      /\ Stream' = Stream
  BY StreamUntouched DEF TakeSend, daemonVars, socketIO
<1>2. /\ Len(sends') = Len(sends) - 1 /\ Len(sends) \in Nat /\ Len(sends) >= 1
      /\ Head(sends) = sends[1]
      /\ \A i \in 1..Len(sends') : sends'[i] = sends[i + 1]
  BY <1>1, HeadTailProperties, EmptySeq DEF PanelTypeOK
<1>3. 1 \in 1..Len(sends) /\ \A i \in 1..Len(sends') : i + 1 \in 1..Len(sends) /\ i + 1 # 1
  BY <1>2
<1>4. \A i \in 1..Len(sends) : i = 1 \/ (i - 1 \in 1..Len(sends') /\ sends'[i - 1] = sends[i])
  BY <1>2
<1>5. writing.send = Status /\ (writing'.send = IF fd = 0 THEN Status ELSE sends[1])
  BY <1>1, <1>2, NothingWritten
<1>6. Replying' \subseteq Replying
  BY <1>2, <1>3, <1>5 DEF Replying
<1>7. fd # 0 => \A q \in Replying : q # Status => q \in Replying'
  <2>1. ASSUME fd # 0, NEW n \in 1..Len(sends)  PROVE sends[n] \in Replying'
    <3>1. CASE n = 1  BY <1>5, <2>1, <3>1 DEF Replying
    <3>2. CASE n # 1  BY <1>4, <3>2 DEF Replying
    <3>3. QED  BY <3>1, <3>2
  <2>2. QED  BY <1>5, <2>1 DEF Replying
<1>8. OneConnection'
  <2>1. fd # 0 => writing'.socket = fd  BY <1>1
  <2>2. QED  BY <1>1, <2>1 DEF OneConnection
<1>9. InOrder' /\ LossIsLast' /\ Applied'  BY <1>1, Untouched
<1>10. ASSUME NEW q \in Prompts  PROVE Known(q)' => Known(q)
  BY <1>1, <1>6 DEF Known
<1>11. OfTheSource'  BY <1>1, <1>10 DEF OfTheSource
<1>12. InOnePlace'
  <2>1. ASSUME NEW m \in 1..Len(sends'), NEW n \in 1..Len(sends'), sends'[m] = sends'[n],
               sends'[n] # Status
        PROVE  m = n
    <3>1. m + 1 = n + 1  BY <1>2, <1>3, <2>1 DEF InOnePlace
    <3>2. QED  BY <1>2, <3>1
  <2>2. ASSUME NEW n \in 1..Len(sends'), sends'[n] = writing'.send  PROVE sends'[n] = Status
    BY <1>2, <1>3, <1>5, <2>2 DEF InOnePlace
  <2>3. \A q \in Prompts : Asked(Stream, q) => q \notin panels /\ q \notin Replying'
    BY <1>6 DEF InOnePlace
  <2>4. \A q \in panels : q \notin Replying'  BY <1>6 DEF InOnePlace
  <2>5. QED  BY <1>1, <2>1, <2>2, <2>3, <2>4 DEF InOnePlace
<1>13. Mirrored'
  <2>1. SUFFICES ASSUME source = serving  PROVE Mirrored'  BY <1>1 DEF Mirrored
  <2>2. OpenPrompts' = OpenPrompts  BY <1>1 DEF OpenPrompts
  <2>3. ASSUME NEW o \in open, o.on = fd, reader = "reading",
               NEW p, p = [daemon |-> serving, id |-> o.id]
        PROVE  p \in panels \/ p \in Replying' \/ Asked(Stream, p)
    <3>1. fd # 0  BY <2>3 DEF OneConnection
    <3>2. p # Status  BY <2>3 DEF PanelTypeOK, Status
    <3>3. p \in panels \/ p \in Replying \/ Asked(Stream, p)  BY <2>1, <2>3 DEF Mirrored
    <3>4. QED  BY <1>7, <3>1, <3>2, <3>3
  <2>4. QED  BY <1>1, <2>1, <2>2, <2>3 DEF Mirrored
<1>14. QED  BY <1>8, <1>9, <1>11, <1>12, <1>13

(* A write that is over, whatever became of it.                             *)
LEMMA OneSendLess ==
  ASSUME UNCHANGED sends, writing' = NoWrite
  PROVE  /\ Replying' \subseteq Replying \cup {Status}
         /\ \A q \in Replying : q # writing.send => q \in Replying'
         /\ writing'.send = Status
BY NothingWritten DEF Replying

(* The answer that arrives is of the daemon that takes it, which therefore  *)
(* asked what is answered.                                                 *)
LEMMA WriteArrivesKeeps == ASSUME PanelTypeOK, Prompt, WriteArrives PROVE Prompt'
<1> DEFINE a == writing.send
<1> USE DEF Prompt
<1>1. /\ fd # 0 /\ source = serving /\ writing' = NoWrite
      /\ \/ reader = "greeting" /\ UNCHANGED <<open, applied>>
         \/ Delivered(a)
      /\ UNCHANGED <<connected, reader, fd, source, sockets, wire, mainQueue, panels, sends,
                     serving, born, numbered>>
      /\ Stream' = Stream
  BY StreamUntouched DEF WriteArrives, PeerGone
<1>2. a \in Sends /\ a \in Replying  BY DEF PanelTypeOK, Replying
<1>3. \A o \in open : o.id = a.id => a = [daemon |-> serving, id |-> o.id]
  <2>1. CASE a = Status  BY <2>1 DEF PanelTypeOK, Status
  <2>2. CASE a \in Prompts
    <3>1. a.daemon = serving  BY <1>1, <1>2, <2>2 DEF OfTheSource, Known
    <3>2. QED  BY <2>2, <3>1 DEF Prompts
  <2>3. QED  BY <1>2, <2>1, <2>2 DEF Sends
<1> HIDE DEF a
<1>4. /\ Replying' \subseteq Replying \cup {Status}
      /\ \A q \in Replying : q # a => q \in Replying'
      /\ writing'.send = Status
  BY <1>1, OneSendLess DEF a
<1>5. \A p \in Prompts : p # Status  BY Kinds
<1>6. open' \subseteq open /\ \A o \in open \ open' : a = [daemon |-> serving, id |-> o.id]
  BY <1>1, <1>3 DEF Delivered
<1>7. reader = "reading" => \A o \in open' : o.id # a.id
  BY <1>1 DEF Delivered
<1>8. OneConnection'  BY <1>1 DEF OneConnection
<1>9. InOrder'  BY <1>1, <1>6 DEF InOrder
<1>10. LossIsLast'  BY <1>1, Untouched
<1>11. ASSUME NEW q \in Prompts  PROVE Known(q)' => Known(q)
  BY <1>1, <1>4, <1>5 DEF Known
<1>12. OfTheSource'  BY <1>1, <1>11 DEF OfTheSource
<1>13. InOnePlace'
  <2>1. \A q \in Prompts : Asked(Stream, q) => q \notin panels /\ q \notin Replying'
    BY <1>4, <1>5 DEF InOnePlace
  <2>2. \A q \in panels : q \notin Replying'  BY <1>4, <1>5 DEF InOnePlace, PanelTypeOK
  <2>3. QED  BY <1>1, <1>4, <2>1, <2>2 DEF InOnePlace
<1>14. Mirrored'
  <2>1. OpenPrompts' \subseteq OpenPrompts /\ OpenPrompts \subseteq OpenPrompts' \cup {a}
    BY <1>1, <1>6 DEF OpenPrompts
  <2>2. a \notin panels /\ (a \in Prompts => ~Asked(Stream, a))  BY <1>2 DEF InOnePlace
  <2>3. WithdrawnAfter(Stream, OpenPrompts')
    <3>1. ASSUME NEW n \in 1..Len(Stream), NEW p \in Prompts, Stream[n] = Ask(p),
                 p \notin OpenPrompts'
          PROVE  \E m \in 1..Len(Stream) : m > n /\ Stream[m] = Withdrawal(p)
      <4>1. p # a  BY <2>2, <3>1 DEF Asked
      <4>2. p \notin OpenPrompts  BY <2>1, <3>1, <4>1
      <4>3. QED  BY <1>1, <3>1, <4>2 DEF Mirrored, WithdrawnAfter
    <3>2. QED  BY <3>1 DEF WithdrawnAfter
  <2>4. \A p \in panels : p \in OpenPrompts' \/ Withdrawn(Stream, p)
    BY <1>1, <2>1, <2>2 DEF Mirrored
  <2>5. \A p \in OpenPrompts' : ~Withdrawn(Stream, p)  BY <1>1, <2>1 DEF Mirrored
  <2>6. ASSUME NEW o \in open', o.on = fd, reader = "reading",
               NEW p, p = [daemon |-> serving, id |-> o.id]
        PROVE  p \in panels \/ p \in Replying' \/ Asked(Stream, p)
    <3>1. p \in panels \/ p \in Replying \/ Asked(Stream, p)
      BY <1>1, <1>6, <2>6 DEF Mirrored
    <3>2. p # a  BY <1>7, <2>6
    <3>3. QED  BY <1>4, <3>1, <3>2
  <2>7. QED  BY <1>1, <2>3, <2>4, <2>5, <2>6 DEF Mirrored
<1>15. Applied'
  BY <1>1, <1>3 DEF Applied, Delivered
<1>16. QED  BY <1>8, <1>9, <1>10, <1>12, <1>13, <1>14, <1>15

LEMMA WriteFailsKeeps == ASSUME PanelTypeOK, Prompt, WriteFails PROVE Prompt'
<1> USE DEF Prompt
<1>1. /\ fd = 0 /\ reader = "sleeping" /\ ~connected /\ fd' = 0 /\ connected' = FALSE
      /\ writing' = NoWrite
      /\ UNCHANGED <<reader, source, sockets, wire, mainQueue, panels, sends, applied, serving,
                     born, numbered, open>>
      /\ Stream' = Stream
  BY StreamUntouched DEF WriteFails, CloseConnection, OneConnection, daemonVars
<1>2. /\ Replying' \subseteq Replying \cup {Status}
      /\ writing'.send = Status
  BY <1>1, OneSendLess
<1>3. \A p \in Prompts : p # Status  BY Kinds
<1>4. OneConnection'  BY <1>1 DEF OneConnection
<1>5. InOrder' /\ LossIsLast' /\ Applied'  BY <1>1, Untouched
<1>6. ASSUME NEW q \in Prompts  PROVE Known(q)' => Known(q)
  BY <1>1, <1>2, <1>3 DEF Known
<1>7. OfTheSource'  BY <1>1, <1>6 DEF OfTheSource
<1>8. InOnePlace'
  <2>1. \A q \in Prompts : Asked(Stream, q) => q \notin panels /\ q \notin Replying'
    BY <1>2, <1>3 DEF InOnePlace
  <2>2. \A q \in panels : q \notin Replying'  BY <1>2, <1>3 DEF InOnePlace, PanelTypeOK
  <2>3. QED  BY <1>1, <1>2, <2>1, <2>2 DEF InOnePlace
<1>9. Mirrored'
  <2>1. OpenPrompts' = OpenPrompts  BY <1>1 DEF OpenPrompts
  <2>2. QED  BY <1>1, <2>1 DEF Mirrored
<1>10. QED  BY <1>4, <1>5, <1>7, <1>8, <1>9

-----------------------------------------------------------------------------
LEMMA StepPanels == PanelInv /\ [PanelNext]_panelVars => PanelInv'
<1> SUFFICES ASSUME PanelInv, [PanelNext]_panelVars  PROVE PanelInv'  OBVIOUS
<1>1. PanelTypeOK /\ PanelTypeOK'  BY TypedPanels DEF PanelInv
<1>2. CASE Reopen
  <2>1. PanelInit'  BY <1>2 DEF Reopen, PanelInit
  <2>2. QED  BY <2>1, InitPanels, PTL
<1>3. CASE ~Reopen
  <2>1. SUFFICES ASSUME ~late'  PROVE Prompt'  BY <1>1 DEF PanelInv
  <2>2. ~late
    BY <1>3, <2>1 DEF PanelNext, ReadLoop, WriteQueue, Serve, Perish, AskUser, Expire, Connect,
       Greet, GreetingFails, ReadMessage, ReadEnds, HandleMessage, RequestStatus, Click, TakeSend,
       WriteArrives, WriteFails, WriteKills, Quit, panelVars
  <2>3. Prompt  BY <2>2 DEF PanelInv
  <2>4. CASE Quit \/ WriteKills \/ UNCHANGED panelVars
    <3>1. /\ UNCHANGED <<connected, reader, fd, source, sockets, wire, mainQueue, panels, sends,
                         writing, applied, serving, born, numbered, open>>
          /\ Stream' = Stream
      BY <2>4, StreamUntouched DEF Quit, WriteKills, panelVars, daemonVars, socketIO, queues
    <3>2. QED  BY <2>3, <3>1, Untouched DEF Prompt
  <2>5. QED
    BY <1>1, <1>3, <2>1, <2>3, <2>4, DaemonComesKeeps, AskUserKeeps, ExpireKeeps, ConnectKeeps,
       GreetKeeps, GreetingFailsKeeps, ReadMessageKeeps, ReadEndsKeeps, HandleMessageKeeps,
       ClickKeeps, RequestStatusKeeps, TakeSendKeeps, WriteArrivesKeeps, WriteFailsKeeps
       DEF PanelNext, ReadLoop, WriteQueue
<1>4. QED  BY <1>2, <1>3

LEMMA AlwaysPanels == PanelSpec => []PanelInv
<1>1. PanelInit => PanelInv  BY InitPanels
<1>2. PanelInv /\ [PanelNext]_panelVars => PanelInv'  BY StepPanels
<1>3. QED  BY <1>1, <1>2, PTL DEF PanelSpec

(* The stream has what is coming.                                           *)
LEMMA StreamIsComing ==
  ASSUME PanelTypeOK, NEW m
  PROVE  Coming(m) <=> \E n \in 1..Len(Stream) : Stream[n] = m
<1> DEFINE s == Stream
<1>1. /\ s \in Seq(Messages) /\ Len(s) = Len(mainQueue) + Len(wire)
      /\ \A i \in 1..(Len(mainQueue) + Len(wire)) :
           s[i] = IF i <= Len(mainQueue) THEN mainQueue[i] ELSE wire[i - Len(mainQueue)]
  BY ConcatProperties DEF PanelTypeOK, Stream
<1>2. /\ Len(mainQueue) \in Nat /\ DOMAIN mainQueue = 1..Len(mainQueue)
      /\ Len(wire) \in Nat /\ DOMAIN wire = 1..Len(wire)
  BY DEF PanelTypeOK
<1> HIDE DEF s
<1>3. ASSUME Coming(m)  PROVE \E n \in 1..Len(s) : s[n] = m
  <2>1. CASE \E i \in 1..Len(mainQueue) : mainQueue[i] = m
    <3>1. PICK i \in 1..Len(mainQueue) : mainQueue[i] = m  BY <2>1
    <3>2. i \in 1..Len(s) /\ i <= Len(mainQueue)  BY <1>1, <1>2
    <3>3. QED  BY <1>1, <3>1, <3>2
  <2>2. CASE \E i \in 1..Len(wire) : wire[i] = m
    <3>1. PICK i \in 1..Len(wire) : wire[i] = m  BY <2>2
    <3>2. /\ Len(mainQueue) + i \in 1..Len(s) /\ ~(Len(mainQueue) + i <= Len(mainQueue))
          /\ (Len(mainQueue) + i) - Len(mainQueue) = i
      BY <1>1, <1>2
    <3>3. QED  BY <1>1, <3>1, <3>2
  <2>3. QED  BY <1>2, <1>3, <2>1, <2>2 DEF Coming, ToSet
<1>4. ASSUME NEW n \in 1..Len(s), s[n] = m  PROVE Coming(m)
  <2>1. CASE n <= Len(mainQueue)
    <3>1. n \in DOMAIN mainQueue /\ mainQueue[n] = m  BY <1>1, <1>2, <1>4, <2>1
    <3>2. QED  BY <3>1 DEF Coming, ToSet
  <2>2. CASE ~(n <= Len(mainQueue))
    <3>1. n - Len(mainQueue) \in DOMAIN wire /\ wire[n - Len(mainQueue)] = m
      BY <1>1, <1>2, <1>4, <2>2
    <3>2. QED  BY <3>1 DEF Coming, ToSet
  <2>3. QED  BY <2>1, <2>2
<1>5. QED  BY <1>3, <1>4 DEF s

(* An answer is about the prompt on the panel it was given on.              *)
THEOREM AnswersReachWhoAsked == PanelSpec => []AnswersGoWhereShown
<1>1. PanelInv => AnswersGoWhereShown  BY DEF PanelInv, Prompt, Applied, AnswersGoWhereShown
<1>2. QED  BY <1>1, AlwaysPanels, PTL

(* What is shown can be answered, what can be answered is shown, but for    *)
(* messages under way.                                                     *)
THEOREM PanelsMirror == PanelSpec => []PanelsMirrorOpen
<1>1. PanelInv => PanelsMirrorOpen
  <2>1. SUFFICES ASSUME PanelTypeOK, Prompt  PROVE PanelsMirrorOpen
    BY DEF PanelInv, PanelsMirrorOpen
  <2>2. \A m : Coming(m) <=> \E n \in 1..Len(Stream) : Stream[n] = m  BY <2>1, StreamIsComing
  <2>3. \A p : p \in Replying <=> OnItsWayBack(p)
    <3>1. DOMAIN sends = 1..Len(sends)  BY <2>1 DEF PanelTypeOK
    <3>2. QED  BY <3>1 DEF Replying, OnItsWayBack, ToSet
  <2>4. ASSUME NEW p \in panels, Lost \notin ToSet(mainQueue)
        PROVE  /\ fd # 0 /\ source = p.daemon
               /\ source = serving => Asks(p) \/ Coming(Withdrawal(p))
    <3>1. p \in Prompts /\ p.daemon = source
      BY <2>1 DEF PanelTypeOK, Prompt, OfTheSource, Known
    <3>2. fd # 0
      <4>1. SUFFICES ASSUME fd = 0  PROVE FALSE  OBVIOUS
      <4>2. reader # "reading" /\ wire = <<>>  BY <2>1, <4>1 DEF Prompt, OneConnection
      <4>3. Stream = mainQueue /\ mainQueue \in Seq(Messages)
        BY <2>1, <4>2, StreamParts DEF Stream, PanelTypeOK
      <4>4. mainQueue # <<>> /\ mainQueue[Len(mainQueue)] = Lost
        BY <2>1, <2>4, <4>2, <4>3 DEF Prompt, LossIsLast
      <4>5. Len(mainQueue) \in DOMAIN mainQueue  BY <4>3, <4>4, EmptySeq
      <4>6. QED  BY <2>4, <4>4, <4>5 DEF ToSet
    <3>3. ASSUME source = serving  PROVE Asks(p) \/ Coming(Withdrawal(p))
      <4>1. p \in OpenPrompts \/ Withdrawn(Stream, p)  BY <2>1, <3>3 DEF Prompt, Mirrored
      <4>2. p \in OpenPrompts => Asks(p)  BY DEF OpenPrompts, Asks
      <4>3. Withdrawn(Stream, p) => Coming(Withdrawal(p))  BY <2>2 DEF Withdrawn
      <4>4. QED  BY <4>1, <4>2, <4>3
    <3>4. QED  BY <3>1, <3>2, <3>3
  <2>5. ASSUME NEW o \in open, fd # 0, o.on = fd, source = serving,
               NEW p, p = [daemon |-> serving, id |-> o.id]
        PROVE  p \in panels \/ Coming(Ask(p)) \/ OnItsWayBack(p)
    <3>1. reader = "reading"
      BY <2>1, <2>5 DEF PanelTypeOK, Prompt, OneConnection, InOrder
    <3>2. p \in panels \/ p \in Replying \/ Asked(Stream, p)
      BY <2>1, <2>5, <3>1 DEF Prompt, Mirrored
    <3>3. Asked(Stream, p) => Coming(Ask(p))  BY <2>2 DEF Asked
    <3>4. QED  BY <2>3, <3>2, <3>3
  <2>6. QED  BY <2>4, <2>5 DEF PanelsMirrorOpen
<1>2. QED  BY <1>1, AlwaysPanels, PTL

-----------------------------------------------------------------------------
(* The supervisor.                                                         *)

USE DaemonsAssumption, SupervisorAssumption

(* The only process there can be is the supervisor's child. *)
OnlyChild ==
  \A d \in Daemons : Running(d) => d = child /\ app \in {"watching", "stopping"}

(* The socket that listens is the path's, and a process that is about to    *)
(* bind finds the path free.                                               *)
SocketInOrder ==
  \A d \in Daemons :
    /\ d \in listening <=> pc[d] = "serving"
    /\ pc[d] = "serving" => name = d
    /\ pc[d] = "binding" => name = NoOne

(* While a child is watched there is one, and an attempt is under way only  *)
(* while one is left.                                                      *)
Watching ==
  /\ app = "watching" => child \in Daemons
  /\ app \in {"watching", "exited", "delaying"} => restarts <= MaxRestarts

Inv == TypeOK /\ OnlyChild /\ SocketInOrder /\ Watching

(* What is left of it after a crash, and what is not. *)
CInv == (~crashed => Inv) /\ TypeOK /\ Watching

LEMMA InitInv == Init => Inv
<1> SUFFICES ASSUME Init  PROVE Inv  OBVIOUS
<1> USE DEF Init, SocketInit
<1>1. 0 \in 0..(MaxRestarts + 1) /\ 0 <= MaxRestarts  OBVIOUS
<1>2. TypeOK  BY <1>1 DEF TypeOK, Steps, AppStates
<1>3. OnlyChild /\ SocketInOrder  BY DEF OnlyChild, SocketInOrder, Running
<1>4. Watching  BY <1>1 DEF Watching
<1>5. QED  BY <1>2, <1>3, <1>4 DEF Inv

LEMMA StartInv ==
  ASSUME Inv, NEW d \in Daemons, Start(d), \A e \in Daemons : ~Running(e),
         app' = "watching", child' = d, longRun' = FALSE, restarts' \in 0..MaxRestarts,
         UNCHANGED crashed
  PROVE  Inv'
<1> USE DEF Inv, TypeOK, Running, Goto, Start
<1>1. TypeOK'
  <2>1. restarts' \in 0..(MaxRestarts + 1)  OBVIOUS
  <2>2. pc' \in [Daemons -> Steps]  BY DEF Steps
  <2>3. QED  BY <2>1, <2>2 DEF AppStates
<1>2. OnlyChild'  BY DEF OnlyChild
<1>3. SocketInOrder'  BY DEF SocketInOrder
<1>4. Watching'  BY DEF Watching
<1>5. QED  BY <1>1, <1>2, <1>3, <1>4

(* A step of the child's process. *)
LEMMA ChildInv ==
  ASSUME Inv, NEW d \in Daemons, Progress(d) \/ Shutdown(d) \/ Die(d), UNCHANGED supVars
  PROVE  Inv'
<1> USE DEF Inv, TypeOK, Running, Goto, supVars
<1>1. Running(d) /\ d = child  BY DEF OnlyChild, Progress, CheckExists, Probe, Unlink, Bind,
                                     CleanUp, Shutdown, Die
<1>2. \A e \in Daemons : e # d => pc[e] = "off"  BY <1>1 DEF OnlyChild
<1>3. CASE CheckExists(d)
  BY <1>1, <1>2, <1>3 DEF CheckExists, Steps, OnlyChild, SocketInOrder, Watching
<1>4. CASE Probe(d)
  BY <1>1, <1>2, <1>4 DEF Probe, Steps, OnlyChild, SocketInOrder, Watching
<1>5. CASE Unlink(d)
  BY <1>1, <1>2, <1>5 DEF Unlink, Steps, OnlyChild, SocketInOrder, Watching
<1>6. CASE Bind(d)
  BY <1>1, <1>2, <1>6 DEF Bind, Steps, OnlyChild, SocketInOrder, Watching
<1>7. CASE CleanUp(d)
  BY <1>1, <1>2, <1>7 DEF CleanUp, Steps, OnlyChild, SocketInOrder, Watching
<1>8. CASE Shutdown(d)
  BY <1>1, <1>2, <1>8 DEF Shutdown, Steps, OnlyChild, SocketInOrder, Watching
<1>9. CASE Die(d)
  BY <1>1, <1>2, <1>9 DEF Die, Steps, OnlyChild, SocketInOrder, Watching
<1>10. QED  BY <1>3, <1>4, <1>5, <1>6, <1>7, <1>8, <1>9 DEF Progress

(* Types and the count of attempts do not depend on how the application      *)
(* ends.                                                                   *)
LEMMA TypedStep == TypeOK /\ Watching /\ [Next]_vars => (TypeOK /\ Watching)'
<1> SUFFICES ASSUME TypeOK, Watching, [Next]_vars  PROVE TypeOK' /\ Watching'  OBVIOUS
<1> USE DEF TypeOK, Watching
<1>1. ASSUME NEW d \in Daemons, OpenApp(d)  PROVE TypeOK' /\ Watching'
  <2>1. restarts' \in 0..(MaxRestarts + 1) /\ restarts' <= MaxRestarts  BY <1>1 DEF OpenApp
  <2>2. pc' \in [Daemons -> Steps]  BY <1>1 DEF OpenApp, Start, Goto, Steps
  <2>3. QED  BY <1>1, <2>1, <2>2 DEF OpenApp, Start, AppStates
<1>2. ASSUME NEW d \in Daemons, Relaunch(d)  PROVE TypeOK' /\ Watching'
  BY <1>2 DEF Relaunch, Launch, Start, Goto, Steps, AppStates
<1>3. ASSUME NEW d \in Daemons, Progress(d) \/ Shutdown(d) \/ Die(d), UNCHANGED supVars
      PROVE  TypeOK' /\ Watching'
  BY <1>3 DEF supVars, Progress, CheckExists, Probe, Unlink, Bind, CleanUp, Shutdown, Die, Goto,
              Steps
<1>4. ASSUME NEW d \in Daemons, DaemonStep(d) \/ DaemonDies(d)  PROVE TypeOK' /\ Watching'
  BY <1>3, <1>4 DEF DaemonStep, DaemonDies
<1>5. CASE ChildObeys \/ ChildKilled
  <2>1. child \in Daemons  BY <1>5 DEF ChildObeys, ChildKilled, Shutdown, Die, Running
  <2>2. QED  BY <1>3, <1>5, <2>1 DEF ChildObeys, ChildKilled
<1>6. CASE ScheduleRestart
  <2>1. restarts' \in 0..(MaxRestarts + 1)  BY <1>6 DEF ScheduleRestart
  <2>2. QED  BY <1>6, <2>1 DEF ScheduleRestart, AppStates, socketVars
<1>7. CASE LaunchFails
  <2>1. restarts' \in 0..(MaxRestarts + 1)  BY <1>7 DEF LaunchFails
  <2>2. QED  BY <1>7, <2>1 DEF LaunchFails, AppStates, socketVars
<1>8. CASE AMinutePasses \/ ChildExits \/ Stop \/ Stopped \/ AppCrash
  BY <1>8 DEF AMinutePasses, ChildExits, Stop, Stopped, AppCrash, AppStates, socketVars
<1>9. CASE UNCHANGED vars
  BY <1>9 DEF vars, socketVars, supVars
<1>10. QED  BY <1>1, <1>2, <1>4, <1>5, <1>6, <1>7, <1>8, <1>9 DEF Next, AppStep

LEMMA StepInv == Inv /\ [Next]_vars /\ ~crashed' => Inv'
<1> SUFFICES ASSUME Inv, [Next]_vars, ~crashed'  PROVE Inv'  OBVIOUS
<1>1. ASSUME NEW d \in Daemons, OpenApp(d)  PROVE Inv'
  <2>1. \A e \in Daemons : ~Running(e)  BY <1>1 DEF OpenApp, Inv, OnlyChild
  <2>2. restarts' \in 0..MaxRestarts  BY <1>1 DEF OpenApp
  <2>3. QED  BY <1>1, <2>1, <2>2, StartInv DEF OpenApp
<1>2. ASSUME NEW d \in Daemons, Relaunch(d)  PROVE Inv'
  <2>1. \A e \in Daemons : ~Running(e)  BY <1>2 DEF Relaunch, Inv, OnlyChild
  <2>2. restarts' \in 0..MaxRestarts
    BY <1>2 DEF Relaunch, Launch, Inv, TypeOK, Watching
  <2>3. QED  BY <1>2, <2>1, <2>2, StartInv DEF Relaunch, Launch
<1>3. ASSUME NEW d \in Daemons, DaemonStep(d) \/ DaemonDies(d)  PROVE Inv'
  BY <1>3, ChildInv DEF DaemonStep, DaemonDies
<1>4. CASE ChildObeys \/ ChildKilled
  <2>1. child \in Daemons  BY <1>4 DEF ChildObeys, ChildKilled, Shutdown, Die, Running
  <2>2. QED  BY <1>4, <2>1, ChildInv DEF ChildObeys, ChildKilled
<1>5. CASE LaunchFails \/ AMinutePasses \/ ChildExits \/ ScheduleRestart \/ Stop \/ Stopped
  <2> USE DEF Inv, TypeOK, AppStates, socketVars, Running, SocketInOrder, OnlyChild, Watching
  <2>1. CASE AMinutePasses  BY <2>1 DEF AMinutePasses
  <2>2. CASE ChildExits  BY <2>2 DEF ChildExits
  <2>3. CASE ScheduleRestart
    <3>1. restarts' \in 0..(MaxRestarts + 1)
      BY <2>3 DEF ScheduleRestart
    <3>2. QED  BY <2>3, <3>1 DEF ScheduleRestart
  <2>4. CASE Stop  BY <2>4 DEF Stop
  <2>5. CASE Stopped  BY <2>5 DEF Stopped
  <2>6. CASE LaunchFails
    <3>1. restarts' \in 0..(MaxRestarts + 1)
      BY <2>6 DEF LaunchFails
    <3>2. QED  BY <2>6, <3>1 DEF LaunchFails
  <2>7. QED  BY <1>5, <2>1, <2>2, <2>3, <2>4, <2>5, <2>6
<1>6. CASE UNCHANGED vars
  BY <1>6 DEF vars, socketVars, supVars, Inv, TypeOK, Running, SocketInOrder, OnlyChild,
              Watching
<1>7. ~AppCrash  BY DEF AppCrash
<1>8. QED  BY <1>1, <1>2, <1>3, <1>4, <1>5, <1>6, <1>7 DEF Next, AppStep

LEMMA CInvHolds == Spec => []CInv
<1>1. Init => CInv  BY InitInv DEF CInv, Inv
<1>2. ASSUME CInv, [Next]_vars  PROVE CInv'
  <2>1. TypeOK' /\ Watching'  BY <1>2, TypedStep DEF CInv
  <2>2. crashed => crashed'
    BY <1>2 DEF Next, OpenApp, LaunchFails, AMinutePasses, Stop, AppStep, ChildExits,
                ScheduleRestart, Relaunch, Launch, ChildObeys, ChildKilled, Stopped, AppCrash,
                DaemonStep, DaemonDies, supVars, vars
  <2>3. ~crashed' => Inv'  BY <1>2, <2>2, StepInv DEF CInv
  <2>4. QED  BY <2>1, <2>3 DEF CInv
<1>3. QED  BY <1>1, <1>2, PTL DEF Spec

(* Every variable keeps its type, however the application ends: attempts    *)
(* stop being counted one after the last that is made.                     *)
THEOREM TypeCorrect == Spec => []TypeOK
<1>1. CInv => TypeOK  BY DEF CInv
<1>2. QED  BY CInvHolds, <1>1, PTL

(* A daemon that serves can be reached at the path. *)
THEOREM Reachable == Spec => []ServingIsReachable
<1>1. CInv => ServingIsReachable  BY DEF CInv, Inv, SocketInOrder, ServingIsReachable
<1>2. QED  BY CInvHolds, <1>1, PTL

(* No daemon outlives the application that was told to stop. *)
THEOREM NobodyLeft == Spec => []NoneOutlives
<1>1. CInv => NoneOutlives  BY DEF CInv, Inv, OnlyChild, NoneOutlives
<1>2. QED  BY CInvHolds, <1>1, PTL

(* A daemon closes only when it is told to: what a dead one left behind     *)
(* makes none give up.                                                     *)
THEOREM NotBlocked == Spec => LeftoversDoNotBlock
<1> DEFINE OnlyWhenTold == \A d \in Daemons :
             ~crashed /\ pc'[d] = "closing" /\ pc[d] # "closing" => app = "stopping"
<1>1. ASSUME Inv, Next, NEW d \in Daemons, pc'[d] = "closing", pc[d] # "closing"
      PROVE  app = "stopping"
  <2> USE DEF Inv, TypeOK, Goto
  <2>1. ASSUME NEW e \in Daemons, OpenApp(e) \/ Relaunch(e)  PROVE FALSE
    BY <1>1, <2>1 DEF OpenApp, Relaunch, Launch, Start
  <2>2. ASSUME NEW e \in Daemons, DaemonStep(e) \/ DaemonDies(e)  PROVE FALSE
    <3>1. Running(e) /\ e = child
      BY <1>1, <2>2 DEF DaemonStep, DaemonDies, Running, OnlyChild, Progress, CheckExists, Probe,
                  Unlink, Bind, CleanUp, Die
    <3>2. \A x \in Daemons : x # e => pc[x] = "off"  BY <1>1, <3>1 DEF OnlyChild, Running
    <3>3. pc[e] = "probing" => ~Answering
      BY <1>1, <3>2 DEF Answering, SocketInOrder
    <3>4. pc[e] = "binding" => name = NoOne  BY <1>1 DEF SocketInOrder
    <3>5. QED
      BY <1>1, <2>2, <3>3, <3>4 DEF DaemonStep, DaemonDies, Progress, CheckExists, Probe, Unlink,
                               Bind, CleanUp, Die
  <2>3. CASE \/ LaunchFails \/ AMinutePasses \/ ChildExits \/ ScheduleRestart
             \/ Stop \/ Stopped \/ AppCrash
    BY <1>1, <2>3 DEF LaunchFails, AMinutePasses, ChildExits, ScheduleRestart, Stop, Stopped, AppCrash,
                     socketVars
  <2>4. CASE ChildObeys \/ ChildKilled
    BY <2>4 DEF ChildObeys, ChildKilled
  <2>5. QED  BY <1>1, <2>1, <2>2, <2>3, <2>4 DEF Next, AppStep
<1>2. CInv /\ [Next]_vars => [OnlyWhenTold]_vars
  BY <1>1 DEF CInv
<1>3. QED  BY CInvHolds, <1>2, PTL DEF Spec, LeftoversDoNotBlock
=============================================================================
