------------------------- MODULE TaintTrackingProofs -------------------------
(***************************************************************************)
(* Proofs, for any clients, links, files and limits, that what is taken    *)
(* for local data is, and that what can be known of it is known when a     *)
(* call is ruled on.                                                       *)
(***************************************************************************)
EXTENDS TaintTracking, SequenceTheorems, TLAPS

Messages == {Report(s, b, f) : s \in Clients, b \in Bodies, f \in Files}
            \cup {Decide(s) : s \in Clients}
Some(F)  == F \cup {Nothing}

TaintTypeOK ==
  /\ linkOf \in [Clients -> Links]
  /\ used \in [Clients -> 0..MaxIds]
  /\ call \in [Clients -> [id : Nat, reads : Some(Files), carries : Some(Files)]]
  /\ unanswered \in [Clients -> SUBSET (Ids \X Some(Files))]
  /\ inflight \in [Links -> SUBSET (Ids \X Files)]
  /\ connection \in [Links -> Seq(Messages)]
  /\ posted \subseteq Files
  /\ store \in [Bodies -> [at : Nat, origin : Files] \cup {Clean}]
  /\ now \in Nat
  /\ held \in [Files -> Nat \cup {Nothing}]
  /\ unseen \subseteq Files

(* A client numbers its calls, and a number stands for one call.            *)
OwnNumbers ==
  \A s \in Clients :
    /\ call[s] # NoCall => call[s].id \in 1..used[s] /\ \A x \in unanswered[s] : x[1] # call[s].id
    /\ \A x \in unanswered[s] : x[1] <= used[s]
    /\ \A x, y \in unanswered[s] : x[1] = y[1] => x = y

(* What goes down a connection is of the clients on its link.  A client     *)
(* that awaits a verdict has sent nothing after its call.                  *)
CallIsLast ==
  \A l \in Links : \A i \in 1..Len(connection[l]) :
    LET m == connection[l][i]
    IN /\ linkOf[m.by] = l
       /\ m.type = "decide" =>
            /\ call[m.by] # NoCall
            /\ \A j \in 1..Len(connection[l]) : j > i => connection[l][j].by # m.by

(* A read in flight is noted, unless something took or dropped the note.    *)
Noted ==
  \A s \in Clients : \A id \in Awaited(s) :
    <<s, id>> \in robbed \/ \E e \in inflight[linkOf[s]] : e[1] = id

(* A note is of a call somebody on the link made, and of what it read.      *)
NotesAreOfReads ==
  \A l \in Links : \A e \in inflight[l] : \E s \in Mates(l) :
    /\ e[1] <= used[s]
    /\ call[s].id = e[1] => call[s].reads = e[2]
    /\ \A x \in unanswered[s] : x[1] = e[1] => x[2] = e[2]

Carried(l) == {connection[l][i] : i \in 1..Len(connection[l])}

(* What is reported, and what was recorded, came in answer to a read.       *)
Real(body, origin) == <<body, origin>> \in answered \cup mixed
ReportsAreReal ==
  /\ \A l \in Links : \A m \in Carried(l) : m.type = "taint" => Real(m.body, m.origin)
  /\ \A f \in posted : Real(f, f)

(* What the agent was given with a report is recorded, under its way to be, *)
(* or was given too long ago.                                              *)
Coming(f) ==
  \/ f \in posted
  \/ \E l \in Links : \E m \in Carried(l) : m.type = "taint" /\ m.body = f
InStore(f) == store[f] # Clean /\ held[f] <= store[f].at
HeldIsKnown ==
  \A f \in Files :
    held[f] # Nothing =>
      /\ held[f] <= now
      /\ f \in unseen \/ TTL <= now - held[f] \/ Coming(f) \/ InStore(f)

TaintInv == TaintTypeOK /\ OwnNumbers /\ CallIsLast /\ Noted /\ NotesAreOfReads /\ ReportsAreReal
            /\ TaintIsReal /\ HeldIsKnown

-----------------------------------------------------------------------------
LEMMA Bounds == MaxIds \in Nat /\ TTL \in Nat /\ Nothing \notin Files /\ Ids = 1..MaxIds
BY TaintBounds, ContentAssumption DEF Ids

LEMMA Kinds ==
  /\ \A m \in Messages :
       /\ m.by \in Clients
       /\ \/ m.type = "decide" /\ m = Decide(m.by)
          \/ m.type = "taint" /\ m.body \in Bodies /\ m.origin \in Files
  /\ \A s \in Clients : Decide(s) \in Messages
  /\ \A s \in Clients, b \in Bodies, f \in Files : Report(s, b, f) \in Messages
  /\ \A s \in Clients : Decide(s).type = "decide" /\ Decide(s).by = s
  /\ \A s \in Clients, b \in Bodies, f \in Files :
       /\ Report(s, b, f).type = "taint" /\ Report(s, b, f).by = s
       /\ Report(s, b, f).body = b /\ Report(s, b, f).origin = f
<1>1. \A s \in Clients : Decide(s).type = "decide" /\ Decide(s).by = s
  BY DEF Decide
<1>2. \A s \in Clients, b \in Bodies, f \in Files :
       /\ Report(s, b, f).type = "taint" /\ Report(s, b, f).by = s
       /\ Report(s, b, f).body = b /\ Report(s, b, f).origin = f
  BY DEF Report
<1>3. \A s \in Clients : Decide(s) \in Messages  BY DEF Messages
<1>4. \A s \in Clients, b \in Bodies, f \in Files : Report(s, b, f) \in Messages
  BY DEF Messages
<1>5. ASSUME NEW m \in Messages
      PROVE  /\ m.by \in Clients
             /\ \/ m.type = "decide" /\ m = Decide(m.by)
                \/ m.type = "taint" /\ m.body \in Bodies /\ m.origin \in Files
  <2>1. \/ \E s \in Clients : m = Decide(s)
        \/ \E s \in Clients, b \in Bodies, f \in Files : m = Report(s, b, f)
    BY DEF Messages
  <2>2. QED  BY <2>1, <1>1, <1>2
<1>6. QED  BY <1>1, <1>2, <1>3, <1>4, <1>5

(* A message is put at the end of one connection.                           *)
LEMMA Sent ==
  ASSUME TaintTypeOK, NEW l \in Links, NEW m \in Messages, Enqueue(l, m)
  PROVE  /\ connection' \in [Links -> Seq(Messages)]
         /\ \A k \in Links \ {l} : connection'[k] = connection[k] /\ Carried(k)' = Carried(k)
         /\ Len(connection'[l]) = Len(connection[l]) + 1
         /\ connection'[l][Len(connection[l]) + 1] = m
         /\ \A i \in 1..Len(connection[l]) : connection'[l][i] = connection[l][i]
         /\ Carried(l)' = Carried(l) \cup {m}
<1> DEFINE q == connection[l]
           t == Append(q, m)
<1>1. /\ connection \in [Links -> Seq(Messages)] /\ q \in Seq(Messages)
      /\ connection' = [connection EXCEPT ![l] = t]
  BY DEF TaintTypeOK, Enqueue
<1>2. /\ t \in Seq(Messages) /\ Len(t) = Len(q) + 1 /\ t[Len(q) + 1] = m
      /\ \A i \in 1..Len(q) : t[i] = q[i]
  BY <1>1, AppendProperties
<1>3. Len(q) \in Nat  BY <1>1
<1> HIDE DEF t
<1>4. connection' \in [Links -> Seq(Messages)] /\ connection'[l] = t  BY <1>1, <1>2
<1>5. \A k \in Links \ {l} : connection'[k] = connection[k]  BY <1>1
<1>6. \A k \in Links \ {l} : Carried(k)' = Carried(k)  BY <1>5 DEF Carried
<1>7. /\ \A i \in 1..Len(t) : i \in 1..Len(q) \/ i = Len(q) + 1
      /\ \A i \in 1..Len(q) : i \in 1..Len(t)
      /\ Len(q) + 1 \in 1..Len(t)
  BY <1>2, <1>3
<1>8. {t[i] : i \in 1..Len(t)} = {q[i] : i \in 1..Len(q)} \cup {m}  BY <1>2, <1>7
<1>9. Carried(l)' = Carried(l) \cup {m}  BY <1>4, <1>8 DEF Carried
<1>10. QED  BY <1>2, <1>4, <1>5, <1>6, <1>9

(* The first message of a connection is taken.                              *)
LEMMA TakenOff ==
  ASSUME TaintTypeOK, NEW l \in Links, NEW type, Takes(l, type)
  PROVE  /\ connection' \in [Links -> Seq(Messages)]
         /\ \A k \in Links \ {l} : connection'[k] = connection[k] /\ Carried(k)' = Carried(k)
         /\ Len(connection'[l]) = Len(connection[l]) - 1
         /\ \A i \in 1..Len(connection'[l]) : connection'[l][i] = connection[l][i + 1]
         /\ 1 \in 1..Len(connection[l]) /\ Head(connection[l]) = connection[l][1]
         /\ Head(connection[l]) \in Messages /\ Head(connection[l]).type = type
         /\ Carried(l) = Carried(l)' \cup {Head(connection[l])}
<1> DEFINE q == connection[l]
           t == Tail(q)
           h == Head(q)
<1>1. /\ connection \in [Links -> Seq(Messages)] /\ q \in Seq(Messages) /\ q # <<>>
      /\ connection' = [connection EXCEPT ![l] = t] /\ h.type = type
  BY DEF TaintTypeOK, Takes
<1>2. /\ t \in Seq(Messages) /\ Len(t) = Len(q) - 1 /\ h \in Messages /\ h = q[1]
      /\ \A i \in 1..Len(t) : t[i] = q[i + 1]
  BY <1>1, HeadTailProperties
<1>3. Len(q) \in Nat /\ Len(q) >= 1  BY <1>1, EmptySeq
<1> HIDE DEF t, h
<1>4. connection' \in [Links -> Seq(Messages)] /\ connection'[l] = t  BY <1>1, <1>2
<1>5. \A k \in Links \ {l} : connection'[k] = connection[k]  BY <1>1
<1>6. \A k \in Links \ {l} : Carried(k)' = Carried(k)  BY <1>5 DEF Carried
<1>7. /\ \A i \in 1..Len(q) : i = 1 \/ (i - 1 \in 1..Len(t) /\ t[i - 1] = q[i])
      /\ \A i \in 1..Len(t) : i + 1 \in 1..Len(q)
      /\ 1 \in 1..Len(q)
  BY <1>2, <1>3
<1>8. {q[i] : i \in 1..Len(q)} = {t[i] : i \in 1..Len(t)} \cup {h}
  BY <1>2, <1>7
<1>9. Carried(l) = Carried(l)' \cup {h}  BY <1>4, <1>8 DEF Carried
<1>10. QED  BY <1>1, <1>2, <1>4, <1>5, <1>6, <1>7, <1>9 DEF h

(* A message that bears the identifier of a read in flight takes the note.  *)
LEMMA Observed ==
  ASSUME TaintTypeOK, NEW s \in Clients, NEW id \in Ids, NEW body \in Bodies, Observe(s, id, body)
  PROVE  \/ /\ \A e \in inflight[linkOf[s]] : e[1] # id
            /\ UNCHANGED <<inflight, connection>>
         \/ \E e \in inflight[linkOf[s]] :
              /\ e[1] = id /\ e[2] \in Files
              /\ e \in EntriesOf(linkOf[s], id)
              /\ inflight' = [inflight EXCEPT ![linkOf[s]] = @ \ {e}]
              /\ Enqueue(linkOf[s], Report(s, body, e[2]))
              /\ Report(s, body, e[2]) \in Messages
<1> DEFINE l == linkOf[s]
<1>1. l \in Links /\ inflight[l] \subseteq Ids \X Files  BY DEF TaintTypeOK
<1>2. CASE EntriesOf(l, id) = {}
  BY <1>2 DEF Observe, EntriesOf
<1>3. CASE EntriesOf(l, id) # {}
  <2>1. PICK e \in EntriesOf(l, id) :
          /\ inflight' = [inflight EXCEPT ![l] = @ \ {e}]
          /\ Enqueue(l, Report(s, body, e[2]))
    BY <1>3 DEF Observe
  <2>2. e \in inflight[l] /\ e[1] = id /\ e[2] \in Files  BY <1>1, <2>1 DEF EntriesOf
  <2>3. Report(s, body, e[2]) \in Messages  BY <2>2, Kinds
  <2>4. QED  BY <2>1, <2>2, <2>3
<1>4. QED  BY <1>2, <1>3

-----------------------------------------------------------------------------
(* What several actions have in common.                                    *)

LEMMA AwaitedOnes ==
  ASSUME NEW s
  PROVE  /\ \A id \in Awaited(s) : \/ \E x \in unanswered[s] : x[1] = id /\ x[2] # Nothing
                                   \/ call[s].reads # Nothing /\ call[s].id = id
         /\ \A x \in unanswered[s] : x[2] # Nothing => x[1] \in Awaited(s)
         /\ call[s].reads # Nothing => call[s].id \in Awaited(s)
BY DEF Awaited

(* An awaited answer is one to a call the client has made.                  *)
LEMMA AwaitedIsUsed ==
  ASSUME TaintTypeOK, OwnNumbers, NEW s \in Clients, NEW id \in Awaited(s)
  PROVE  id \in Ids /\ id <= used[s]
<1>1. used[s] \in 0..MaxIds /\ MaxIds \in Nat /\ Ids = 1..MaxIds  BY Bounds DEF TaintTypeOK
<1>2. CASE \E x \in unanswered[s] : x[1] = id
  <2>1. PICK x \in unanswered[s] : x[1] = id  BY <1>2
  <2>2. x \in Ids \X Some(Files)  BY DEF TaintTypeOK
  <2>3. x[1] <= used[s]  BY DEF OwnNumbers
  <2>4. QED  BY <2>1, <2>2, <2>3
<1>3. CASE call[s].reads # Nothing /\ call[s].id = id
  <2>1. call[s] # NoCall  BY <1>3 DEF NoCall
  <2>2. call[s].id \in 1..used[s]  BY <2>1 DEF OwnNumbers
  <2>3. QED  BY <1>1, <1>3, <2>2
<1>4. QED  BY <1>2, <1>3, AwaitedOnes

(* A client that awaits no verdict sends, and may await one from then on.   *)
LEMMA SentIsLast ==
  ASSUME TaintTypeOK, CallIsLast, NEW l \in Links, NEW m \in Messages, Enqueue(l, m),
         linkOf[m.by] = l, linkOf' = linkOf, call[m.by] = NoCall,
         \A r \in Clients \ {m.by} : call'[r] = call[r],
         m.type = "decide" => call'[m.by] # NoCall
  PROVE  CallIsLast'
<1> SUFFICES ASSUME NEW k \in Links, NEW i \in 1..Len(connection'[k])
             PROVE  /\ linkOf[connection'[k][i].by] = k
                    /\ connection'[k][i].type = "decide" =>
                         /\ call'[connection'[k][i].by] # NoCall
                         /\ \A j \in 1..Len(connection'[k]) :
                              j > i => connection'[k][j].by # connection'[k][i].by
  BY DEF CallIsLast
<1>1. /\ m.by \in Clients
      /\ \A q \in Links : connection[q] \in Seq(Messages)
  BY Kinds DEF TaintTypeOK
<1>2. \A q \in Links : Len(connection[q]) \in Nat  BY <1>1
<1>3. \A q \in Links : \A j \in 1..Len(connection[q]) :
        /\ linkOf[connection[q][j].by] = q
        /\ connection[q][j].by \in Clients
        /\ connection[q][j].type = "decide" =>
             /\ connection[q][j].by # m.by
             /\ call'[connection[q][j].by] # NoCall
             /\ \A h \in 1..Len(connection[q]) : h > j => connection[q][h].by # connection[q][j].by
  <2> TAKE q \in Links
  <2> TAKE j \in 1..Len(connection[q])
  <2>1. connection[q][j] \in Messages  BY <1>1, ElementOfSeq
  <2>2. connection[q][j].by \in Clients  BY <2>1, Kinds
  <2>3. QED  BY <2>2 DEF CallIsLast
<1>4. CASE k # l
  <2>1. connection'[k] = connection[k]  BY <1>4, Sent
  <2>2. QED  BY <1>3, <2>1
<1>5. CASE k = l
  <2>1. /\ Len(connection'[l]) = Len(connection[l]) + 1
        /\ connection'[l][Len(connection[l]) + 1] = m
        /\ \A j \in 1..Len(connection[l]) : connection'[l][j] = connection[l][j]
    BY Sent
  <2>2. CASE i = Len(connection[l]) + 1
    <3>1. \A j \in 1..Len(connection'[l]) : ~(j > i)  BY <1>2, <2>1, <2>2
    <3>2. QED  BY <1>5, <2>1, <2>2, <3>1
  <2>3. CASE i # Len(connection[l]) + 1
    <3>1. i \in 1..Len(connection[l])  BY <1>2, <1>5, <2>1, <2>3
    <3>2. connection'[l][i] = connection[l][i]  BY <2>1, <3>1
    <3>3. ASSUME NEW j \in 1..Len(connection'[l]), j > i, connection[l][i].type = "decide"
          PROVE  connection'[l][j].by # connection[l][i].by
      <4>1. j \in 1..Len(connection[l]) \/ j = Len(connection[l]) + 1  BY <1>2, <2>1
      <4>2. QED  BY <1>3, <2>1, <3>1, <3>3, <4>1
    <3>4. QED  BY <1>3, <1>5, <3>1, <3>2, <3>3
  <2>4. QED  BY <2>2, <2>3
<1>6. QED  BY <1>4, <1>5

(* The daemon takes a message, and a verdict is for the client that asked.  *)
LEMMA TakenIsFirst ==
  ASSUME TaintTypeOK, CallIsLast, NEW l \in Links, NEW type, Takes(l, type), linkOf' = linkOf,
         \A r \in Clients : call'[r] # call[r] => type = "decide" /\ r = Head(connection[l]).by
  PROVE  CallIsLast'
<1> DEFINE h == Head(connection[l])
<1>1. /\ \A q \in Links : connection[q] \in Seq(Messages)
      /\ h \in Messages /\ h.type = type /\ h = connection[l][1] /\ 1 \in 1..Len(connection[l])
      /\ Len(connection'[l]) = Len(connection[l]) - 1
      /\ \A i \in 1..Len(connection'[l]) : connection'[l][i] = connection[l][i + 1]
      /\ \A q \in Links \ {l} : connection'[q] = connection[q]
  BY TakenOff DEF TaintTypeOK
<1>2. \A q \in Links : Len(connection[q]) \in Nat  BY <1>1
<1> HIDE DEF h
<1>3. \A q \in Links : \A j \in 1..Len(connection[q]) : connection[q][j].by \in Clients
  <2> TAKE q \in Links
  <2> TAKE j \in 1..Len(connection[q])
  <2>1. connection[q][j] \in Messages  BY <1>1, ElementOfSeq
  <2>2. QED  BY <2>1, Kinds
<1>4. linkOf[h.by] = l  BY <1>1 DEF CallIsLast
<1>5. \A q \in Links : \A j \in 1..Len(connection[q]) :
        /\ linkOf[connection[q][j].by] = q
        /\ connection[q][j].type = "decide" =>
             /\ call[connection[q][j].by] # NoCall
             /\ \A g \in 1..Len(connection[q]) : g > j => connection[q][g].by # connection[q][j].by
  BY DEF CallIsLast
<1> SUFFICES ASSUME NEW k \in Links, NEW i \in 1..Len(connection'[k])
             PROVE  /\ linkOf[connection'[k][i].by] = k
                    /\ connection'[k][i].type = "decide" =>
                         /\ call'[connection'[k][i].by] # NoCall
                         /\ \A j \in 1..Len(connection'[k]) :
                              j > i => connection'[k][j].by # connection'[k][i].by
  BY DEF CallIsLast
<1>6. CASE k # l
  <2>1. connection'[k] = connection[k]  BY <1>1, <1>6
  <2>2. connection[k][i].by # h.by /\ connection[k][i].by \in Clients
    BY <1>3, <1>4, <1>5, <1>6, <2>1
  <2>3. call'[connection[k][i].by] = call[connection[k][i].by]  BY <2>2 DEF h
  <2>4. QED  BY <1>5, <2>1, <2>3
<1>7. CASE k = l
  <2>1. /\ i + 1 \in 1..Len(connection[l]) /\ i + 1 > 1
        /\ connection'[l][i] = connection[l][i + 1]
    BY <1>1, <1>2, <1>7
  <2>2. connection[l][i + 1].by \in Clients  BY <1>3, <2>1
  <2>3. type = "decide" => connection[l][i + 1].by # h.by  BY <1>1, <1>5, <2>1
  <2>4. call'[connection[l][i + 1].by] = call[connection[l][i + 1].by]
    BY <2>2, <2>3 DEF h
  <2>5. ASSUME NEW j \in 1..Len(connection'[l]), j > i
        PROVE  /\ j + 1 \in 1..Len(connection[l]) /\ j + 1 > i + 1
               /\ connection'[l][j] = connection[l][j + 1]
    BY <1>1, <1>2, <1>7, <2>5
  <2>6. linkOf[connection'[l][i].by] = l  BY <1>5, <2>1
  <2>7. ASSUME connection'[l][i].type = "decide"
        PROVE  /\ call'[connection'[l][i].by] # NoCall
               /\ \A j \in 1..Len(connection'[l]) :
                    j > i => connection'[l][j].by # connection'[l][i].by
    <3>1. /\ call[connection[l][i + 1].by] # NoCall
          /\ \A g \in 1..Len(connection[l]) :
               g > i + 1 => connection[l][g].by # connection[l][i + 1].by
      BY <1>5, <2>1, <2>7
    <3>2. QED  BY <2>1, <2>4, <2>5, <3>1
  <2>8. QED  BY <1>7, <2>6, <2>7
<1>8. QED  BY <1>6, <1>7

(* A report that is on its way stays so while nothing is taken.             *)
LEMMA StillComing ==
  ASSUME posted \subseteq posted', \A l \in Links : Carried(l) \subseteq Carried(l)', NEW f, Coming(f)
  PROVE  Coming(f)'
<1>1. CASE f \in posted  BY <1>1 DEF Coming
<1>2. CASE \E l \in Links : \E m \in Carried(l) : m.type = "taint" /\ m.body = f
  <2>1. PICK l \in Links : \E m \in Carried(l)' : m.type = "taint" /\ m.body = f  BY <1>2
  <2>2. QED  BY <2>1 DEF Coming
<1>3. QED  BY <1>1, <1>2 DEF Coming

(* What is put on a connection was in answer to a read, if it reports.      *)
LEMMA SentIsReal ==
  ASSUME TaintTypeOK, ReportsAreReal, NEW l \in Links, NEW m \in Messages, Enqueue(l, m),
         m.type = "taint" => Real(m.body, m.origin)',
         posted' = posted, answered \subseteq answered', mixed \subseteq mixed'
  PROVE  ReportsAreReal'
<1>1. \A b, o : Real(b, o) => Real(b, o)'  BY DEF Real
<1>2. ASSUME NEW k \in Links, NEW n \in Carried(k)', n.type = "taint"
      PROVE  Real(n.body, n.origin)'
  <2>1. n \in Carried(k) \/ (k = l /\ n = m)  BY <1>2, Sent
  <2>2. QED  BY <1>1, <1>2, <2>1 DEF ReportsAreReal
<1>3. QED  BY <1>1, <1>2 DEF ReportsAreReal

(* What was given to the agent is known or will be, when nothing is taken.  *)
LEMMA MoreIsComing ==
  ASSUME HeldIsKnown, posted \subseteq posted', \A l \in Links : Carried(l) \subseteq Carried(l)',
         UNCHANGED <<now, store, held, unseen>>
  PROVE  HeldIsKnown'
<1> SUFFICES ASSUME NEW f \in Files, held[f] # Nothing
             PROVE  /\ held[f] <= now
                    /\ f \in unseen \/ TTL <= now - held[f] \/ Coming(f)' \/ InStore(f)'
  BY DEF HeldIsKnown
<1>1. Coming(f) => Coming(f)'  BY StillComing
<1>2. InStore(f) => InStore(f)'  BY DEF InStore
<1>3. QED  BY <1>1, <1>2 DEF HeldIsKnown

(* The store takes up what came in answer to a read.                        *)
LEMMA RecordKeeps ==
  ASSUME TaintTypeOK, TaintIsReal, HeldIsKnown, NEW b \in Bodies, NEW o \in Files, Real(b, o),
         store' = Recorded(b, o), UNCHANGED <<now, held, unseen, answered, mixed>>,
         \A f \in Files : Coming(f) => Coming(f)' \/ f = b
  PROVE  /\ store' \in [Bodies -> [at : Nat, origin : Files] \cup {Clean}]
         /\ TaintIsReal' /\ HeldIsKnown'
<1>1. /\ now \in Nat /\ store \in [Bodies -> [at : Nat, origin : Files] \cup {Clean}]
      /\ TTL \in Nat /\ Nothing \notin Files
      /\ held \in [Files -> Nat \cup {Nothing}]
  BY Bounds DEF TaintTypeOK
<1>2. /\ store'[b] = [at |-> now, origin |-> o]
      /\ \A x \in Bodies : x # b => store'[x] = store[x] \/ store'[x] = Clean
      /\ \A x \in Bodies : x # b /\ Fresh(store[x]) => store'[x] = store[x]
  BY DEF Recorded
<1>3. store' \in [Bodies -> [at : Nat, origin : Files] \cup {Clean}]
  BY <1>1 DEF Recorded
<1>4. TaintIsReal'
  BY <1>2 DEF TaintIsReal, Real
<1>5. ASSUME NEW f \in Files, held[f] # Nothing
      PROVE  /\ held[f] <= now
             /\ f \in unseen \/ TTL <= now - held[f] \/ Coming(f)' \/ InStore(f)'
  <2>1. /\ held[f] <= now /\ held[f] \in Nat /\ f \in Bodies
        /\ f \in unseen \/ TTL <= now - held[f] \/ Coming(f) \/ InStore(f)
    BY <1>1, <1>5 DEF HeldIsKnown, Bodies
  <2>2. f = b => InStore(f)'
    BY <1>1, <1>2, <2>1 DEF InStore, Clean
  <2>3. InStore(f) /\ f # b => InStore(f)' \/ TTL <= now - held[f]
    <3>1. CASE Fresh(store[f])  BY <1>2, <2>1, <3>1 DEF InStore
    <3>2. CASE InStore(f) /\ ~Fresh(store[f])
      <4>1. store[f] # Clean /\ store[f].at \in Nat /\ held[f] <= store[f].at
        BY <1>1, <2>1, <3>2 DEF InStore
      <4>2. ~(now - store[f].at < TTL)  BY <3>2, <4>1 DEF Fresh
      <4>3. QED  BY <1>1, <2>1, <4>1, <4>2
    <3>3. QED  BY <3>1, <3>2
  <2>4. QED  BY <2>1, <2>2, <2>3
<1>6. HeldIsKnown'  BY <1>5 DEF HeldIsKnown
<1>7. QED  BY <1>3, <1>4, <1>6

-----------------------------------------------------------------------------
(* The actions.                                                            *)

LEMMA KeptByCall ==
  ASSUME TaintInv, NEW s \in Clients, NEW reads \in Some(Files), NEW carries \in Some(Files),
         CallTool(s, reads, carries)
  PROVE  TaintInv'
<1> DEFINE l  == linkOf[s]
           id == used[s] + 1
           full == Cardinality(inflight[l]) >= MaxInflight
<1> USE DEF TaintInv
<1>1. /\ l \in Links /\ id \in Ids /\ used[s] \in Nat /\ id \in 0..MaxIds
      /\ call[s] = NoCall
      /\ used' = [used EXCEPT ![s] = id]
      /\ call' = [call EXCEPT ![s] = [id |-> id, reads |-> reads, carries |-> carries]]
      /\ Enqueue(l, Decide(s)) /\ Decide(s) \in Messages
      /\ linkOf' = linkOf /\ unanswered' = unanswered /\ posted' = posted /\ store' = store
      /\ now' = now /\ held' = held /\ unseen' = unseen
      /\ answered' = answered /\ mixed' = mixed
  BY Bounds, Kinds DEF CallTool, TaintTypeOK
<1>2. /\ reads = Nothing => inflight' = inflight /\ robbed' = robbed
      /\ reads # Nothing =>
           /\ inflight' = [inflight EXCEPT ![l] = NoteRead(l, id, reads)]
           /\ robbed' = IF ~full THEN robbed
                        ELSE robbed \cup {r \in Mates(l) \X Ids : r[2] \in Awaited(r[1])}
  BY DEF CallTool
<1>3. /\ call' \in [Clients -> [id : Nat, reads : Some(Files), carries : Some(Files)]]
      /\ call'[s] = [id |-> id, reads |-> reads, carries |-> carries] /\ call'[s] # NoCall
      /\ \A r \in Clients \ {s} : call'[r] = call[r]
      /\ used' \in [Clients -> 0..MaxIds] /\ used'[s] = id
      /\ \A r \in Clients \ {s} : used'[r] = used[r]
  BY <1>1 DEF TaintTypeOK, NoCall
<1>4. /\ \A k \in Links \ {l} : inflight'[k] = inflight[k]
      /\ reads = Nothing => inflight'[l] = inflight[l]
      /\ reads # Nothing => inflight'[l] = NoteRead(l, id, reads)
      /\ inflight' \in [Links -> SUBSET (Ids \X Files)]
  <2>1. inflight \in [Links -> SUBSET (Ids \X Files)]  BY DEF TaintTypeOK
  <2>2. reads # Nothing => NoteRead(l, id, reads) \in SUBSET (Ids \X Files)
    BY <1>1, <2>1 DEF NoteRead, Some
  <2> HIDE DEF full
  <2>3. QED  BY <1>1, <1>2, <2>1, <2>2
<1>5. TaintTypeOK'
  <2>1. connection' \in [Links -> Seq(Messages)]  BY <1>1, Sent
  <2>2. QED  BY <1>1, <1>3, <1>4, <2>1 DEF TaintTypeOK
<1>6. OwnNumbers'
  <2>1. ASSUME NEW x \in unanswered[s] PROVE x[1] <= used[s] /\ x[1] < id
    <3>1. x[1] \in Ids /\ x[1] <= used[s]  BY DEF TaintTypeOK, OwnNumbers
    <3>2. QED  BY <1>1, <3>1 DEF Ids
  <2>2. id \in 1..id  BY <1>1
  <2>3. ASSUME NEW x \in unanswered[s] PROVE x[1] # id /\ x[1] <= id
    <3>1. x[1] \in Ids  BY DEF TaintTypeOK
    <3>2. QED  BY <1>1, <2>1, <3>1 DEF Ids
  <2>4. /\ call'[s].id \in 1..used'[s] /\ \A x \in unanswered'[s] : x[1] # call'[s].id
        /\ \A x \in unanswered'[s] : x[1] <= used'[s]
        /\ \A x, y \in unanswered'[s] : x[1] = y[1] => x = y
    BY <1>1, <1>3, <2>2, <2>3 DEF OwnNumbers
  <2>5. ASSUME NEW r \in Clients, r # s
        PROVE  /\ call'[r] # NoCall =>
                    call'[r].id \in 1..used'[r] /\ \A x \in unanswered'[r] : x[1] # call'[r].id
               /\ \A x \in unanswered'[r] : x[1] <= used'[r]
               /\ \A x, y \in unanswered'[r] : x[1] = y[1] => x = y
    BY <1>1, <1>3, <2>5 DEF OwnNumbers
  <2>6. QED  BY <2>4, <2>5 DEF OwnNumbers
<1>7. CallIsLast'
  <2>1. Decide(s).by = s  BY Kinds
  <2>2. QED  BY <1>1, <1>3, <2>1, SentIsLast
<1>8. Noted'
  <2> SUFFICES ASSUME NEW r \in Clients, NEW i \in Awaited(r)'
               PROVE  <<r, i>> \in robbed' \/ \E e \in inflight'[linkOf[r]] : e[1] = i
    <3>1. linkOf' = linkOf  BY <1>1
    <3>2. QED  BY <3>1, Zenon DEF Noted
  <2>1. i \in Awaited(r) \/ (r = s /\ i = id /\ reads # Nothing)
    <3>1. call[s].reads = Nothing  BY <1>1 DEF NoCall
    <3>2. CASE r # s  BY <1>1, <1>3, <3>2 DEF Awaited
    <3>3. CASE r = s  BY <1>1, <1>3, <3>3 DEF Awaited
    <3>4. QED  BY <3>2, <3>3
  <2>2. robbed \subseteq robbed'  BY <1>2
  <2>3. i \in Awaited(r) => <<r, i>> \in robbed' \/ \E e \in inflight[linkOf[r]] : e[1] = i
    BY <2>2 DEF Noted
  <2>4. linkOf[r] \in Links  BY DEF TaintTypeOK
  <2>5. CASE linkOf[r] # l \/ reads = Nothing
    BY <1>4, <2>1, <2>3, <2>4, <2>5
  <2>6. CASE linkOf[r] = l /\ reads # Nothing
    <3>1. <<id, reads>> \in inflight'[l]  BY <1>4, <2>6 DEF NoteRead
    <3>2. CASE full
      <4>1. ASSUME i \in Awaited(r) PROVE <<r, i>> \in robbed'
        <5>1. i \in Ids  BY <4>1, AwaitedIsUsed
        <5>2. <<r, i>> \in {x \in Mates(l) \X Ids : x[2] \in Awaited(x[1])}
          BY <2>6, <4>1, <5>1 DEF Mates
        <5>3. QED  BY <1>2, <2>6, <3>2, <5>2
      <4>2. QED  BY <2>1, <2>6, <3>1, <4>1
    <3>3. CASE ~full
      <4>1. inflight'[l] = (inflight[l] \ EntriesOf(l, id)) \cup {<<id, reads>>}
        BY <1>4, <2>6, <3>3 DEF NoteRead
      <4>2. \A e \in inflight[l] : e[1] # id => e \in inflight'[l]
        BY <4>1 DEF EntriesOf
      <4>3. QED  BY <2>1, <2>3, <2>6, <3>1, <4>2
    <3>4. QED  BY <3>2, <3>3
  <2>7. QED  BY <2>5, <2>6
<1>9. NotesAreOfReads'
  <2> SUFFICES ASSUME NEW k \in Links, NEW e \in inflight'[k]
               PROVE  \E r \in Mates(k) :
                        /\ e[1] <= used'[r]
                        /\ call'[r].id = e[1] => call'[r].reads = e[2]
                        /\ \A x \in unanswered[r] : x[1] = e[1] => x[2] = e[2]
    <3>1. \A k \in Links : Mates(k)' = Mates(k)  BY <1>1 DEF Mates
    <3>2. QED  BY <1>1, <3>1 DEF NotesAreOfReads
  <2>1. ASSUME NEW x \in unanswered[s] PROVE x[1] # id
    <3>1. x[1] \in Ids /\ x[1] <= used[s]  BY DEF TaintTypeOK, OwnNumbers
    <3>2. QED  BY <1>1, <3>1 DEF Ids
  <2>2. CASE k = l /\ e = <<id, reads>>
    <3>1. s \in Mates(k) /\ id <= used'[s]  BY <1>1, <1>3, <2>2 DEF Mates
    <3>2. e[1] = id /\ e[2] = reads  BY <2>2
    <3>3. QED  BY <1>3, <2>1, <3>1, <3>2
  <2>3. CASE e \in inflight[k]
    <3>1. PICK r \in Mates(k) :
            /\ e[1] <= used[r]
            /\ call[r].id = e[1] => call[r].reads = e[2]
            /\ \A x \in unanswered[r] : x[1] = e[1] => x[2] = e[2]
      BY <2>3 DEF NotesAreOfReads
    <3>2. r \in Clients /\ e[1] \in Nat  BY <2>3, Bounds DEF Mates, TaintTypeOK
    <3>3. CASE r # s  BY <1>3, <3>1, <3>2, <3>3
    <3>4. CASE r = s
      <4>1. e[1] # id /\ e[1] <= id  BY <1>1, <3>1, <3>2, <3>4
      <4>2. QED  BY <1>3, <3>1, <3>4, <4>1
    <3>5. QED  BY <3>3, <3>4
  <2>4. e \in inflight[k] \/ (k = l /\ e = <<id, reads>>)
    BY <1>4 DEF NoteRead
  <2>5. QED  BY <2>2, <2>3, <2>4
<1>10. ReportsAreReal'
  <2>1. Decide(s).type # "taint"  BY Kinds
  <2>2. QED  BY <1>1, <2>1, SentIsReal
<1>11. TaintIsReal'  BY <1>1 DEF TaintIsReal
<1>12. HeldIsKnown'
  <2>1. \A k \in Links : Carried(k) \subseteq Carried(k)'  BY <1>1, Sent
  <2>2. QED  BY <1>1, <2>1, MoreIsComing
<1>13. QED  BY <1>5, <1>6, <1>7, <1>8, <1>9, <1>10, <1>11, <1>12

(* Who else on the link may have used an identifier, to Respond.            *)
Namesakes(s, id) == {r \in Mates(linkOf[s]) \ {s} : used[r] >= id}

LEMMA KeptByResponse ==
  ASSUME TaintInv, NEW s \in Clients, NEW asked \in unanswered[s],
         NEW body \in {asked[2], Noise} \ {Nothing}, Respond(s, asked, body)
  PROVE  TaintInv'
<1> DEFINE l  == linkOf[s]
           id == asked[1]
<1> USE DEF TaintInv
<1>1. /\ l \in Links /\ asked \in Ids \X Some(Files) /\ id \in Ids /\ asked[2] \in Some(Files)
      /\ body \in Bodies /\ (body \in Files => body = asked[2])
  <2>1. l \in Links /\ asked \in Ids \X Some(Files)  BY DEF TaintTypeOK
  <2>2. id \in Ids /\ asked[2] \in Some(Files)  BY <2>1
  <2>3. Noise \notin Files  BY ContentAssumption
  <2>4. QED  BY <2>1, <2>2, <2>3 DEF Some, Bodies
<1>2. /\ call[s] = NoCall
      /\ unanswered' = [unanswered EXCEPT ![s] = @ \ {asked}]
      /\ answered' = answered \cup {<<body, asked[2]>>}
      /\ linkOf' = linkOf /\ used' = used /\ call' = call /\ posted' = posted /\ store' = store
      /\ now' = now
      /\ Observe(s, id, body)
  BY DEF Respond, bounds
<1>3. /\ mixed \subseteq mixed'
      /\ Namesakes(s, id) # {} => \A e \in EntriesOf(l, id) : <<body, e[2]>> \in mixed'
      /\ \A r \in Clients, i \in Ids : <<r, i>> \in robbed /\ <<r, i>> # <<s, id>> => <<r, i>> \in robbed'
      /\ \A r \in Namesakes(s, id) :
           EntriesOf(l, id) # {} /\ id \in Awaited(r) => <<r, id>> \in robbed'
  <2>1. mixed \subseteq mixed'
    BY DEF Respond
  <2>2. Namesakes(s, id) # {} => \A e \in EntriesOf(l, id) : <<body, e[2]>> \in mixed'
    BY DEF Respond, Namesakes
  <2>3. \A r \in Clients, i \in Ids : <<r, i>> \in robbed /\ <<r, i>> # <<s, id>> => <<r, i>> \in robbed'
    BY DEF Respond
  <2>4. ASSUME NEW r \in Namesakes(s, id), EntriesOf(l, id) # {}, id \in Awaited(r)
        PROVE  <<r, id>> \in robbed'
    <3>1. r # s /\ r \in Mates(l) \ {s} /\ used[r] >= id  BY <2>4 DEF Namesakes
    <3>2. QED  BY <2>4, <3>1 DEF Respond
  <2>5. QED  BY <2>1, <2>2, <2>3, <2>4
<1>4. /\ body \in Files =>
           /\ held' = [held EXCEPT ![body] = now]
           /\ <<s, id>> \in robbed => unseen' = unseen \cup {body}
           /\ <<s, id>> \notin robbed => unseen' = unseen \ {body}
      /\ body \notin Files => held' = held /\ unseen' = unseen
  BY DEF Respond
<1>5. \/ /\ \A e \in inflight[l] : e[1] # id
         /\ UNCHANGED <<inflight, connection>>
      \/ \E e \in inflight[l] :
           /\ e[1] = id /\ e[2] \in Files /\ e \in EntriesOf(l, id)
           /\ inflight' = [inflight EXCEPT ![l] = @ \ {e}]
           /\ Enqueue(l, Report(s, body, e[2]))
           /\ Report(s, body, e[2]) \in Messages
  BY <1>1, <1>2, Observed
<1>6. /\ inflight \in [Links -> SUBSET (Ids \X Files)]
      /\ inflight' \in [Links -> SUBSET (Ids \X Files)]
      /\ \A k \in Links : inflight'[k] \subseteq inflight[k]
      /\ \A k \in Links \ {l} : inflight'[k] = inflight[k]
      /\ \A e \in inflight[l] : e[1] # id => e \in inflight'[l]
  <2>1. inflight \in [Links -> SUBSET (Ids \X Files)]  BY DEF TaintTypeOK
  <2>2. QED  BY <1>1, <1>5, <2>1
<1>7. \A k \in Links : Carried(k) \subseteq Carried(k)'
  <2>1. CASE UNCHANGED connection  BY <2>1 DEF Carried
  <2>2. CASE \E m \in Messages : Enqueue(l, m)  BY <1>1, <2>2, Sent
  <2>3. QED  BY <1>5, <2>1, <2>2
<1>8. TaintTypeOK'
  <2>1. connection' \in [Links -> Seq(Messages)]
    <3>1. CASE UNCHANGED connection  BY <3>1 DEF TaintTypeOK
    <3>2. CASE \E m \in Messages : Enqueue(l, m)  BY <1>1, <3>2, Sent
    <3>3. QED  BY <1>5, <3>1, <3>2
  <2>2. unanswered' \in [Clients -> SUBSET (Ids \X Some(Files))]  BY <1>2 DEF TaintTypeOK
  <2>3. held' \in [Files -> Nat \cup {Nothing}]  BY <1>4 DEF TaintTypeOK
  <2>4. unseen' \subseteq Files  BY <1>4 DEF TaintTypeOK
  <2>5. QED  BY <1>2, <1>6, <2>1, <2>2, <2>3, <2>4 DEF TaintTypeOK
<1>9. /\ \A r \in Clients : unanswered'[r] \subseteq unanswered[r]
      /\ unanswered'[s] = unanswered[s] \ {asked}
      /\ \A r \in Clients \ {s} : unanswered'[r] = unanswered[r]
  BY <1>2 DEF TaintTypeOK
<1>10. OwnNumbers'
  BY <1>2, <1>9 DEF OwnNumbers
<1>11. CallIsLast'
  <2>1. CASE UNCHANGED connection  BY <1>2, <2>1 DEF CallIsLast
  <2>2. CASE \E f \in Files : Report(s, body, f) \in Messages /\ Enqueue(l, Report(s, body, f))
    <3>1. PICK f \in Files : Report(s, body, f) \in Messages /\ Enqueue(l, Report(s, body, f))
      BY <2>2
    <3>2. Report(s, body, f).type = "taint" /\ Report(s, body, f).by = s  BY <1>1, Kinds
    <3>3. QED  BY <1>1, <1>2, <3>1, <3>2, SentIsLast
  <2>3. QED  BY <1>5, <2>1, <2>2
<1>12. Noted'
  <2> SUFFICES ASSUME NEW r \in Clients, NEW i \in Awaited(r)'
               PROVE  <<r, i>> \in robbed' \/ \E e \in inflight'[linkOf[r]] : e[1] = i
    <3>1. linkOf' = linkOf  BY <1>2
    <3>2. QED  BY <3>1, Zenon DEF Noted
  <2>1. i \in Awaited(r)  BY <1>2, <1>9 DEF Awaited
  <2>2. r = s => i # id
    <3>1. call[s].reads = Nothing  BY <1>2 DEF NoCall
    <3>2. r = s => \E x \in unanswered[s] \ {asked} : x[1] = i
      BY <1>2, <1>9, <3>1 DEF Awaited
    <3>3. QED  BY <3>2 DEF OwnNumbers
  <2>3. i \in Ids /\ i <= used[r] /\ linkOf[r] \in Links  BY <2>1, AwaitedIsUsed DEF TaintTypeOK
  <2>4. <<r, i>> \in robbed => <<r, i>> \in robbed'
    BY <1>3, <2>2, <2>3
  <2>5. <<r, i>> \in robbed \/ \E e \in inflight[linkOf[r]] : e[1] = i  BY <2>1 DEF Noted
  <2>6. CASE linkOf[r] # l  BY <1>6, <2>3, <2>4, <2>5, <2>6
  <2>7. CASE i # id  BY <1>6, <2>3, <2>4, <2>5, <2>7
  <2>8. CASE linkOf[r] = l /\ i = id
    <3>1. used[r] \in Nat /\ id \in Nat  BY <2>3, <2>8, Bounds DEF TaintTypeOK
    <3>2. r \in Namesakes(s, id)  BY <2>2, <2>3, <2>8, <3>1 DEF Namesakes, Mates
    <3>3. CASE EntriesOf(l, id) = {}
      BY <2>4, <2>5, <2>8, <3>3 DEF EntriesOf
    <3>4. CASE EntriesOf(l, id) # {}
      BY <1>3, <2>1, <2>8, <3>2, <3>4
    <3>5. QED  BY <3>3, <3>4
  <2>9. QED  BY <2>6, <2>7, <2>8
<1>13. NotesAreOfReads'
  <2>1. \A k \in Links : Mates(k)' = Mates(k) /\ Mates(k) \subseteq Clients  BY <1>2 DEF Mates
  <2>2. QED  BY <1>2, <1>6, <1>9, <2>1 DEF NotesAreOfReads
<1>14. ReportsAreReal'
  <2>1. CASE UNCHANGED <<inflight, connection>>
    <3>1. \A b, o : Real(b, o) => Real(b, o)'  BY <1>2, <1>3 DEF Real
    <3>2. QED  BY <1>2, <2>1, <3>1 DEF ReportsAreReal, Carried
  <2>2. CASE \E e \in inflight[l] :
               /\ e[1] = id /\ e[2] \in Files /\ e \in EntriesOf(l, id)
               /\ Enqueue(l, Report(s, body, e[2]))
               /\ Report(s, body, e[2]) \in Messages
    <3>1. PICK e \in inflight[l] :
               /\ e[1] = id /\ e[2] \in Files /\ e \in EntriesOf(l, id)
               /\ Enqueue(l, Report(s, body, e[2]))
               /\ Report(s, body, e[2]) \in Messages
      BY <2>2
    <3>2. Namesakes(s, id) # {} => <<body, e[2]>> \in mixed'  BY <1>3, <3>1
    <3>3. ASSUME Namesakes(s, id) = {} PROVE <<body, e[2]>> \in answered'
      <4>1. PICK r \in Mates(l) : /\ e[1] <= used[r]
                                  /\ \A x \in unanswered[r] : x[1] = e[1] => x[2] = e[2]
        BY <1>1 DEF NotesAreOfReads
      <4>2. used[r] \in Nat /\ id \in Nat  BY <1>1, <4>1, Bounds DEF TaintTypeOK, Mates
      <4>3. r = s  BY <3>1, <3>3, <4>1, <4>2 DEF Namesakes
      <4>4. asked[2] = e[2]  BY <3>1, <4>1, <4>3
      <4>5. QED  BY <1>2, <4>4
    <3>4. Real(body, e[2])'  BY <3>2, <3>3 DEF Real
    <3>5. Report(s, body, e[2]).body = body /\ Report(s, body, e[2]).origin = e[2]
      BY <1>1, <3>1, Kinds
    <3>6. answered \subseteq answered'  BY <1>2
    <3>7. QED  BY <1>1, <1>2, <1>3, <3>1, <3>4, <3>5, <3>6, SentIsReal
  <2>3. QED  BY <1>5, <2>1, <2>2
<1>15. TaintIsReal'
  BY <1>2, <1>3 DEF TaintIsReal
<1>16. HeldIsKnown'
  <2> SUFFICES ASSUME NEW f \in Files, held'[f] # Nothing
               PROVE  /\ held'[f] <= now
                      /\ f \in unseen' \/ TTL <= now - held'[f] \/ Coming(f)' \/ InStore(f)'
    BY <1>2 DEF HeldIsKnown
  <2>1. CASE f # body
    <3>1. held'[f] = held[f]  BY <1>4, <2>1 DEF TaintTypeOK
    <3>2. f \in unseen => f \in unseen'  BY <1>4, <2>1
    <3>3. Coming(f) => Coming(f)'  BY <1>2, <1>7, StillComing
    <3>4. InStore(f) => InStore(f)'  BY <1>2, <3>1 DEF InStore
    <3>5. QED  BY <3>1, <3>2, <3>3, <3>4 DEF HeldIsKnown
  <2>2. CASE f = body
    <3>1. held'[f] = now /\ now <= now  BY <1>4, <2>2 DEF TaintTypeOK
    <3>2. CASE <<s, id>> \in robbed  BY <1>4, <2>2, <3>1, <3>2
    <3>3. CASE <<s, id>> \notin robbed
      <4>1. asked[2] # Nothing  BY <1>1, <2>2, Bounds
      <4>2. id \in Awaited(s)  BY <4>1, AwaitedOnes
      <4>3. \E e \in inflight[l] : e[1] = id  BY <3>3, <4>2 DEF Noted
      <4>4. PICK e \in inflight[l] : e[2] \in Files /\ Enqueue(l, Report(s, body, e[2]))
                                     /\ Report(s, body, e[2]) \in Messages
        BY <1>5, <4>3
      <4>5. \E k \in Links : Report(s, body, e[2]) \in Carried(k)'  BY <1>1, <4>4, Sent
      <4>6. Report(s, body, e[2]).type = "taint" /\ Report(s, body, e[2]).body = f
        BY <1>1, <2>2, <4>4, Kinds
      <4>7. Coming(f)'  BY <4>5, <4>6 DEF Coming
      <4>8. QED  BY <3>1, <4>7
    <3>4. QED  BY <3>2, <3>3
  <2>3. QED  BY <2>1, <2>2
<1>17. QED  BY <1>8, <1>10, <1>11, <1>12, <1>13, <1>14, <1>15, <1>16

LEMMA KeptByQuestion ==
  ASSUME TaintInv, NEW s \in Clients, NEW id \in Ids, ServerAsks(s, id)
  PROVE  TaintInv'
<1> DEFINE l == linkOf[s]
<1> USE DEF TaintInv
<1>1. l \in Links /\ Noise \in Bodies  BY DEF TaintTypeOK, Bodies
<1>2. /\ call[s] = NoCall
      /\ linkOf' = linkOf /\ used' = used /\ call' = call /\ unanswered' = unanswered
      /\ posted' = posted /\ store' = store /\ now' = now /\ held' = held
      /\ unseen' = unseen /\ answered' = answered
      /\ mixed' = mixed \cup {<<Noise, e[2]>> : e \in EntriesOf(l, id)}
      /\ Observe(s, id, Noise)
  BY DEF ServerAsks
<1>3. /\ robbed \subseteq robbed'
      /\ EntriesOf(l, id) # {} => \A r \in Mates(l) : id \in Awaited(r) => <<r, id>> \in robbed'
  BY DEF ServerAsks
<1>4. \/ /\ \A e \in inflight[l] : e[1] # id
         /\ UNCHANGED <<inflight, connection>>
      \/ \E e \in inflight[l] :
           /\ e[1] = id /\ e[2] \in Files /\ e \in EntriesOf(l, id)
           /\ inflight' = [inflight EXCEPT ![l] = @ \ {e}]
           /\ Enqueue(l, Report(s, Noise, e[2]))
           /\ Report(s, Noise, e[2]) \in Messages
  BY <1>1, <1>2, Observed
<1>5. /\ inflight' \in [Links -> SUBSET (Ids \X Files)]
      /\ \A k \in Links : inflight'[k] \subseteq inflight[k]
      /\ \A k \in Links \ {l} : inflight'[k] = inflight[k]
      /\ \A e \in inflight[l] : e[1] # id => e \in inflight'[l]
  <2>1. inflight \in [Links -> SUBSET (Ids \X Files)]  BY DEF TaintTypeOK
  <2>2. QED  BY <1>1, <1>4, <2>1
<1>6. CASE UNCHANGED <<inflight, connection>>
  <2>1. TaintTypeOK'  BY <1>2, <1>6 DEF TaintTypeOK
  <2>2. OwnNumbers' /\ CallIsLast'  BY <1>2, <1>6 DEF OwnNumbers, CallIsLast
  <2>3. Noted'
    <3>1. \A r \in Clients : Awaited(r)' = Awaited(r)  BY <1>2 DEF Awaited
    <3>2. linkOf' = linkOf /\ inflight' = inflight /\ robbed \subseteq robbed'  BY <1>2, <1>3, <1>6
    <3>3. QED  BY <3>1, <3>2, Zenon DEF Noted
  <2>4. NotesAreOfReads'
    <3>1. \A k \in Links : Mates(k)' = Mates(k)  BY <1>2 DEF Mates
    <3>2. QED  BY <1>2, <1>6, <3>1 DEF NotesAreOfReads
  <2>5. ReportsAreReal'  BY <1>2, <1>6 DEF ReportsAreReal, Real, Carried
  <2>6. TaintIsReal'  BY <1>2 DEF TaintIsReal
  <2>7. HeldIsKnown'
    <3>1. \A k \in Links : Carried(k) \subseteq Carried(k)'  BY <1>6 DEF Carried
    <3>2. QED  BY <1>2, <3>1, MoreIsComing
  <2>8. QED  BY <2>1, <2>2, <2>3, <2>4, <2>5, <2>6, <2>7
<1>7. CASE \E e \in inflight[l] :
             /\ e[1] = id /\ e[2] \in Files /\ e \in EntriesOf(l, id)
             /\ inflight' = [inflight EXCEPT ![l] = @ \ {e}]
             /\ Enqueue(l, Report(s, Noise, e[2]))
             /\ Report(s, Noise, e[2]) \in Messages
  <2>1. PICK e \in inflight[l] :
             /\ e[1] = id /\ e[2] \in Files /\ e \in EntriesOf(l, id)
             /\ inflight' = [inflight EXCEPT ![l] = @ \ {e}]
             /\ Enqueue(l, Report(s, Noise, e[2]))
             /\ Report(s, Noise, e[2]) \in Messages
    BY <1>7
  <2>2. /\ Report(s, Noise, e[2]).type = "taint" /\ Report(s, Noise, e[2]).by = s
        /\ Report(s, Noise, e[2]).body = Noise /\ Report(s, Noise, e[2]).origin = e[2]
    BY <1>1, <2>1, Kinds
  <2>3. /\ connection' \in [Links -> Seq(Messages)]
        /\ \A k \in Links : Carried(k) \subseteq Carried(k)'
    BY <1>1, <2>1, Sent
  <2>4. TaintTypeOK'  BY <1>2, <1>5, <2>3 DEF TaintTypeOK
  <2>5. OwnNumbers'  BY <1>2 DEF OwnNumbers
  <2>6. CallIsLast'  BY <1>1, <1>2, <2>1, <2>2, SentIsLast
  <2>7. Noted'
    <3> SUFFICES ASSUME NEW r \in Clients, NEW i \in Awaited(r)'
                 PROVE  <<r, i>> \in robbed' \/ \E n \in inflight'[linkOf[r]] : n[1] = i
      <4>1. linkOf' = linkOf  BY <1>2
      <4>2. QED  BY <4>1, Zenon DEF Noted
    <3>1. i \in Awaited(r)  BY <1>2 DEF Awaited
    <3>2. linkOf[r] \in Links  BY DEF TaintTypeOK
    <3>3. <<r, i>> \in robbed \/ \E n \in inflight[linkOf[r]] : n[1] = i  BY <3>1 DEF Noted
    <3>4. CASE linkOf[r] # l \/ i # id  BY <1>3, <1>5, <3>2, <3>3, <3>4
    <3>5. CASE linkOf[r] = l /\ i = id  BY <1>3, <2>1, <3>1, <3>5 DEF Mates
    <3>6. QED  BY <3>4, <3>5
  <2>8. NotesAreOfReads'
    <3>1. \A k \in Links : Mates(k)' = Mates(k)  BY <1>2 DEF Mates
    <3>2. QED  BY <1>2, <1>5, <3>1 DEF NotesAreOfReads
  <2>9. ReportsAreReal'
    <3>1. <<Noise, e[2]>> \in mixed' /\ mixed \subseteq mixed'  BY <1>2, <2>1
    <3>2. Real(Noise, e[2])'  BY <3>1 DEF Real
    <3>3. QED  BY <1>1, <1>2, <2>1, <2>2, <3>1, <3>2, SentIsReal
  <2>10. TaintIsReal'  BY <1>2 DEF TaintIsReal
  <2>11. HeldIsKnown'  BY <1>2, <2>3, MoreIsComing
  <2>12. QED  BY <2>4, <2>5, <2>6, <2>7, <2>8, <2>9, <2>10, <2>11
<1>8. QED  BY <1>4, <1>6, <1>7

(* What the shim keeps, and the connections, are left alone.                *)
LEMMA ShimUntouched ==
  ASSUME OwnNumbers, CallIsLast, Noted, NotesAreOfReads, UNCHANGED <<shim, connection, robbed>>
  PROVE  /\ OwnNumbers' /\ CallIsLast' /\ Noted' /\ NotesAreOfReads'
         /\ \A l \in Links : Carried(l)' = Carried(l)
<1>1. /\ linkOf' = linkOf /\ used' = used /\ call' = call /\ unanswered' = unanswered
      /\ inflight' = inflight /\ connection' = connection /\ robbed' = robbed
  BY DEF shim
<1>2. OwnNumbers' /\ CallIsLast'  BY <1>1 DEF OwnNumbers, CallIsLast
<1>3. Noted'
  <2>1. \A r \in Clients : Awaited(r)' = Awaited(r)  BY <1>1 DEF Awaited
  <2>2. linkOf' = linkOf /\ inflight' = inflight /\ robbed' = robbed  BY <1>1
  <2>3. QED  BY <2>1, <2>2, Zenon DEF Noted
<1>4. NotesAreOfReads'
  <2>1. \A k \in Links : Mates(k)' = Mates(k)  BY <1>1 DEF Mates
  <2>2. QED  BY <1>1, <2>1 DEF NotesAreOfReads
<1>5. \A l \in Links : Carried(l)' = Carried(l)  BY <1>1 DEF Carried
<1>6. QED  BY <1>2, <1>3, <1>4, <1>5

LEMMA KeptByHook ==
  ASSUME TaintInv, NEW f \in Files, HookReads(f)
  PROVE  TaintInv'
<1> USE DEF TaintInv
<1>1. /\ UNCHANGED <<shim, connection, robbed>> /\ store' = store /\ now' = now /\ mixed' = mixed
      /\ held' = [held EXCEPT ![f] = now]
      /\ answered' = answered \cup {<<f, f>>}
      /\ \/ posted' = posted \cup {f} /\ unseen' = unseen \ {f}
         \/ unseen' = unseen \cup {f} /\ posted' = posted
  BY DEF HookReads
<1>2. /\ linkOf' = linkOf /\ used' = used /\ call' = call /\ unanswered' = unanswered
      /\ inflight' = inflight /\ connection' = connection
  BY <1>1 DEF shim
<1>3. /\ OwnNumbers' /\ CallIsLast' /\ Noted' /\ NotesAreOfReads'
      /\ \A l \in Links : Carried(l)' = Carried(l)
  BY <1>1, ShimUntouched
<1>4. TaintTypeOK'  BY <1>1, <1>2 DEF TaintTypeOK
<1>5. ReportsAreReal'
  <2>1. \A b, o : Real(b, o) => Real(b, o)'  BY <1>1 DEF Real
  <2>2. Real(f, f)'  BY <1>1 DEF Real
  <2>3. QED  BY <1>1, <1>3, <2>1, <2>2 DEF ReportsAreReal
<1>6. TaintIsReal'  BY <1>1 DEF TaintIsReal
<1>7. HeldIsKnown'
  <2> SUFFICES ASSUME NEW g \in Files, held'[g] # Nothing
               PROVE  /\ held'[g] <= now
                      /\ g \in unseen' \/ TTL <= now - held'[g] \/ Coming(g)' \/ InStore(g)'
    BY <1>1 DEF HeldIsKnown
  <2>1. CASE g = f
    <3>1. held'[g] = now /\ now <= now  BY <1>1, <2>1 DEF TaintTypeOK
    <3>2. f \in unseen' \/ f \in posted'  BY <1>1
    <3>3. QED  BY <2>1, <3>1, <3>2 DEF Coming
  <2>2. CASE g # f
    <3>1. held'[g] = held[g]  BY <1>1, <2>2 DEF TaintTypeOK
    <3>2. g \in unseen => g \in unseen'  BY <1>1, <2>2
    <3>3. Coming(g) => Coming(g)'  BY <1>1, <1>3, StillComing
    <3>4. InStore(g) => InStore(g)'  BY <1>1, <3>1 DEF InStore
    <3>5. QED  BY <3>1, <3>2, <3>3, <3>4 DEF HeldIsKnown
  <2>3. QED  BY <2>1, <2>2
<1>8. QED  BY <1>3, <1>4, <1>5, <1>6, <1>7

LEMMA KeptByTakeReport ==
  ASSUME TaintInv, NEW l \in Links, TakeReport(l)
  PROVE  TaintInv'
<1> DEFINE h == Head(connection[l])
<1> USE DEF TaintInv
<1>1. /\ Takes(l, "taint") /\ store' = Recorded(h.body, h.origin)
      /\ posted' = posted /\ now' = now /\ held' = held /\ unseen' = unseen
      /\ answered' = answered /\ mixed' = mixed /\ robbed' = robbed
      /\ linkOf' = linkOf /\ used' = used /\ call' = call /\ unanswered' = unanswered
      /\ inflight' = inflight
  BY DEF TakeReport, shim, bounds, taintPast
<1>2. /\ connection' \in [Links -> Seq(Messages)]
      /\ \A k \in Links \ {l} : Carried(k)' = Carried(k)
      /\ h \in Messages /\ h.type = "taint" /\ Carried(l) = Carried(l)' \cup {h}
  BY <1>1, TakenOff
<1> HIDE DEF h
<1>3. h.body \in Bodies /\ h.origin \in Files  BY <1>2, Kinds
<1>4. Real(h.body, h.origin)  BY <1>2 DEF ReportsAreReal
<1>5. \A f \in Files : Coming(f) => Coming(f)' \/ f = h.body
  <2> SUFFICES ASSUME NEW f \in Files, Coming(f), f # h.body PROVE Coming(f)'
    OBVIOUS
  <2>1. CASE f \in posted  BY <1>1, <2>1 DEF Coming
  <2>2. CASE \E k \in Links : \E m \in Carried(k) : m.type = "taint" /\ m.body = f
    <3>1. PICK k \in Links : \E m \in Carried(k) : m.type = "taint" /\ m.body = f  BY <2>2
    <3>2. PICK m \in Carried(k) : m.type = "taint" /\ m.body = f  BY <3>1
    <3>3. m \in Carried(k)'  BY <1>2, <3>2
    <3>4. QED  BY <3>2, <3>3 DEF Coming
  <2>3. QED  BY <2>1, <2>2 DEF Coming
<1>6. /\ store' \in [Bodies -> [at : Nat, origin : Files] \cup {Clean}]
      /\ TaintIsReal' /\ HeldIsKnown'
  BY <1>1, <1>3, <1>4, <1>5, RecordKeeps
<1>7. TaintTypeOK'  BY <1>1, <1>2, <1>6 DEF TaintTypeOK
<1>8. OwnNumbers'  BY <1>1 DEF OwnNumbers
<1>9. CallIsLast'  BY <1>1, TakenIsFirst
<1>10. Noted'
  <2>1. \A r \in Clients : Awaited(r)' = Awaited(r)  BY <1>1 DEF Awaited
  <2>2. linkOf' = linkOf /\ inflight' = inflight /\ robbed' = robbed  BY <1>1
  <2>3. QED  BY <2>1, <2>2, Zenon DEF Noted
<1>11. NotesAreOfReads'
  <2>1. \A k \in Links : Mates(k)' = Mates(k)  BY <1>1 DEF Mates
  <2>2. QED  BY <1>1, <2>1 DEF NotesAreOfReads
<1>12. ReportsAreReal'
  <2>1. \A b, o : Real(b, o) => Real(b, o)'  BY <1>1 DEF Real
  <2>2. \A k \in Links : Carried(k)' \subseteq Carried(k)  BY <1>2
  <2>3. QED  BY <1>1, <2>1, <2>2 DEF ReportsAreReal
<1>13. QED  BY <1>6, <1>7, <1>8, <1>9, <1>10, <1>11, <1>12

LEMMA KeptByTakePosted ==
  ASSUME TaintInv, NEW f \in Files, TakePosted(f)
  PROVE  TaintInv'
<1> USE DEF TaintInv
<1>1. /\ UNCHANGED <<shim, connection, robbed>> /\ store' = Recorded(f, f)
      /\ f \in posted /\ posted' = posted \ {f}
      /\ now' = now /\ held' = held /\ unseen' = unseen /\ answered' = answered /\ mixed' = mixed
  BY DEF TakePosted, bounds, taintPast
<1>2. /\ linkOf' = linkOf /\ used' = used /\ call' = call /\ unanswered' = unanswered
      /\ inflight' = inflight /\ connection' = connection
  BY <1>1 DEF shim
<1>3. /\ OwnNumbers' /\ CallIsLast' /\ Noted' /\ NotesAreOfReads'
      /\ \A l \in Links : Carried(l)' = Carried(l)
  BY <1>1, ShimUntouched
<1>4. f \in Bodies /\ Real(f, f)  BY <1>1 DEF Bodies, ReportsAreReal
<1>5. \A g \in Files : Coming(g) => Coming(g)' \/ g = f
  BY <1>1, <1>3 DEF Coming
<1>6. /\ store' \in [Bodies -> [at : Nat, origin : Files] \cup {Clean}]
      /\ TaintIsReal' /\ HeldIsKnown'
  BY <1>1, <1>4, <1>5, RecordKeeps
<1>7. TaintTypeOK'  BY <1>1, <1>2, <1>6 DEF TaintTypeOK
<1>8. ReportsAreReal'
  <2>1. \A b, o : Real(b, o) => Real(b, o)'  BY <1>1 DEF Real
  <2>2. QED  BY <1>1, <1>3, <2>1 DEF ReportsAreReal
<1>9. QED  BY <1>3, <1>6, <1>7, <1>8

(* The client whose call is ruled on sent nothing since, and awaits it.     *)
LEMMA RuledOn ==
  ASSUME TaintTypeOK, CallIsLast, NEW l \in Links, Takes(l, "decide")
  PROVE  LET s == Head(connection[l]).by
         IN /\ s \in Clients /\ linkOf[s] = l /\ call[s] # NoCall
            /\ \A m \in Carried(l) : m.by = s => m.type = "decide"
<1> DEFINE h == Head(connection[l])
<1>1. h \in Messages /\ h.type = "decide" /\ h = connection[l][1] /\ 1 \in 1..Len(connection[l])
  BY TakenOff
<1> HIDE DEF h
<1>2. h.by \in Clients  BY <1>1, Kinds
<1>3. /\ linkOf[h.by] = l /\ call[h.by] # NoCall
      /\ \A j \in 1..Len(connection[l]) : j > 1 => connection[l][j].by # h.by
  BY <1>1 DEF CallIsLast
<1>4. ASSUME NEW m \in Carried(l), m.by = h.by PROVE m.type = "decide"
  <2>1. PICK i \in 1..Len(connection[l]) : m = connection[l][i]  BY DEF Carried
  <2>2. i = 1  BY <1>3, <1>4, <2>1
  <2>3. QED  BY <1>1, <2>1, <2>2
<1>5. QED  BY <1>2, <1>3, <1>4 DEF h

LEMMA KeptByRuling ==
  ASSUME TaintInv, NEW l \in Links, NEW allowed \in BOOLEAN, RuleOn(l, allowed)
  PROVE  TaintInv'
<1> DEFINE h == Head(connection[l])
           s == h.by
           c == call[s]
<1> USE DEF TaintInv
<1>1. /\ Takes(l, "decide")
      /\ call' = [call EXCEPT ![s] = NoCall]
      /\ unanswered' = [unanswered EXCEPT ![s] = IF allowed THEN @ \cup {<<c.id, c.reads>>} ELSE @]
      /\ posted' = posted /\ store' = store /\ now' = now /\ held' = held /\ unseen' = unseen
      /\ answered' = answered /\ mixed' = mixed /\ robbed' = robbed
      /\ linkOf' = linkOf /\ used' = used /\ inflight' = inflight
  BY DEF RuleOn, bounds, taintPast
<1>2. /\ connection' \in [Links -> Seq(Messages)]
      /\ \A k \in Links \ {l} : Carried(k)' = Carried(k)
      /\ h \in Messages /\ h.type = "decide" /\ Carried(l) = Carried(l)' \cup {h}
  BY <1>1, TakenOff
<1>3. s \in Clients /\ c # NoCall  BY <1>1, RuledOn
<1> HIDE DEF h
<1>4. c.id \in Ids /\ c.id \in 1..used[s] /\ c.reads \in Some(Files)
  <2>1. used[s] \in 0..MaxIds /\ c.reads \in Some(Files)  BY <1>3 DEF TaintTypeOK
  <2>2. c.id \in 1..used[s]  BY <1>3 DEF OwnNumbers
  <2>3. QED  BY <2>1, <2>2, Bounds
<1>5. /\ call'[s] = NoCall
      /\ \A r \in Clients \ {s} : call'[r] = call[r] /\ unanswered'[r] = unanswered[r]
      /\ unanswered'[s] \subseteq unanswered[s] \cup {<<c.id, c.reads>>}
      /\ call' \in [Clients -> [id : Nat, reads : Some(Files), carries : Some(Files)]]
      /\ unanswered' \in [Clients -> SUBSET (Ids \X Some(Files))]
  <2>1. NoCall \in [id : Nat, reads : Some(Files), carries : Some(Files)]  BY DEF NoCall, Some
  <2>2. <<c.id, c.reads>> \in Ids \X Some(Files)  BY <1>4
  <2>3. /\ call \in [Clients -> [id : Nat, reads : Some(Files), carries : Some(Files)]]
        /\ unanswered \in [Clients -> SUBSET (Ids \X Some(Files))]
    BY DEF TaintTypeOK
  <2>4. /\ call'[s] = NoCall /\ \A r \in Clients \ {s} : call'[r] = call[r]
        /\ call' \in [Clients -> [id : Nat, reads : Some(Files), carries : Some(Files)]]
    BY <1>1, <1>3, <2>1, <2>3
  <2>5. unanswered'[s] = IF allowed THEN unanswered[s] \cup {<<c.id, c.reads>>} ELSE unanswered[s]
    BY <1>1, <1>3, <2>3
  <2>6. \A r \in Clients \ {s} : unanswered'[r] = unanswered[r]  BY <1>1, <1>3, <2>3
  <2>7. unanswered' \in [Clients -> SUBSET (Ids \X Some(Files))]
    BY <1>1, <1>3, <2>2, <2>3, <2>5, <2>6
  <2>8. QED  BY <2>4, <2>5, <2>6, <2>7
<1>6. /\ \A x \in unanswered[s] : x[1] # c.id /\ x[1] <= used[s]
      /\ \A x, y \in unanswered[s] : x[1] = y[1] => x = y
  BY <1>3 DEF OwnNumbers
<1>7. TaintTypeOK'  BY <1>1, <1>2, <1>5 DEF TaintTypeOK
<1>8. OwnNumbers'
  <2>1. c.id <= used[s]  BY <1>3, <1>4 DEF TaintTypeOK
  <2>2. /\ \A x \in unanswered'[s] : x[1] <= used[s]
        /\ \A x, y \in unanswered'[s] : x[1] = y[1] => x = y
    BY <1>5, <1>6, <2>1
  <2>3. ASSUME NEW r \in Clients, r # s
        PROVE  /\ call'[r] # NoCall =>
                    call'[r].id \in 1..used[r] /\ \A x \in unanswered'[r] : x[1] # call'[r].id
               /\ \A x \in unanswered'[r] : x[1] <= used[r]
               /\ \A x, y \in unanswered'[r] : x[1] = y[1] => x = y
    BY <1>5, <2>3 DEF OwnNumbers
  <2>4. QED  BY <1>1, <1>5, <2>2, <2>3 DEF OwnNumbers
<1>9. CallIsLast'
  <2>1. \A r \in Clients : call'[r] # call[r] => r = Head(connection[l]).by
    BY <1>5 DEF h
  <2>2. QED  BY <1>1, <2>1, TakenIsFirst
<1>10. Noted'
  <2> SUFFICES ASSUME NEW r \in Clients, NEW i \in Awaited(r)'
               PROVE  <<r, i>> \in robbed' \/ \E e \in inflight'[linkOf[r]] : e[1] = i
    <3>1. linkOf' = linkOf  BY <1>1
    <3>2. QED  BY <3>1, Zenon DEF Noted
  <2>1. i \in Awaited(r)
    <3>1. CASE r # s  BY <1>5, <3>1 DEF Awaited
    <3>2. CASE r = s
      <4>1. call'[s].reads = Nothing  BY <1>5 DEF NoCall
      <4>2. PICK x \in unanswered'[s] : x[1] = i /\ x[2] # Nothing  BY <3>2, <4>1 DEF Awaited
      <4>3. CASE x \in unanswered[s]  BY <3>2, <4>2, <4>3, AwaitedOnes
      <4>4. CASE x = <<c.id, c.reads>>  BY <3>2, <4>2, <4>4, AwaitedOnes
      <4>5. QED  BY <1>5, <4>3, <4>4
    <3>3. QED  BY <3>1, <3>2
  <2>2. QED  BY <1>1, <2>1 DEF Noted
<1>11. NotesAreOfReads'
  <2> SUFFICES ASSUME NEW k \in Links, NEW e \in inflight[k]
               PROVE  \E r \in Mates(k) :
                        /\ e[1] <= used[r]
                        /\ call'[r].id = e[1] => call'[r].reads = e[2]
                        /\ \A x \in unanswered'[r] : x[1] = e[1] => x[2] = e[2]
    <3>1. \A q \in Links : Mates(q)' = Mates(q)  BY <1>1 DEF Mates
    <3>2. QED  BY <1>1, <3>1 DEF NotesAreOfReads
  <2>1. PICK r \in Mates(k) :
          /\ e[1] <= used[r]
          /\ call[r].id = e[1] => call[r].reads = e[2]
          /\ \A x \in unanswered[r] : x[1] = e[1] => x[2] = e[2]
    BY DEF NotesAreOfReads
  <2>2. r \in Clients /\ e[1] \in Ids  BY DEF Mates, TaintTypeOK
  <2>3. CASE r # s  BY <1>5, <2>1, <2>2, <2>3
  <2>4. CASE r = s
    <3>1. call'[s].id # e[1]  BY <1>5, <2>2, Bounds DEF NoCall
    <3>2. \A x \in unanswered'[s] : x[1] = e[1] => x[2] = e[2]  BY <1>5, <2>1, <2>4
    <3>3. QED  BY <2>1, <2>4, <3>1, <3>2
  <2>5. QED  BY <2>3, <2>4
<1>12. \A k \in Links : Carried(k)' \subseteq Carried(k)  BY <1>2
<1>13. ReportsAreReal'
  <2>1. \A b, o : Real(b, o) => Real(b, o)'  BY <1>1 DEF Real
  <2>2. QED  BY <1>1, <1>12, <2>1 DEF ReportsAreReal
<1>14. TaintIsReal'  BY <1>1 DEF TaintIsReal
<1>15. HeldIsKnown'
  <2>1. ASSUME NEW f \in Files, Coming(f) PROVE Coming(f)'
    <3>1. CASE f \in posted  BY <1>1, <3>1 DEF Coming
    <3>2. CASE \E k \in Links : \E m \in Carried(k) : m.type = "taint" /\ m.body = f
      <4>1. PICK k \in Links : \E m \in Carried(k) : m.type = "taint" /\ m.body = f  BY <3>2
      <4>2. PICK m \in Carried(k) : m.type = "taint" /\ m.body = f  BY <4>1
      <4>3. m \in Carried(k)'  BY <1>2, <4>2
      <4>4. QED  BY <4>2, <4>3 DEF Coming
    <3>3. QED  BY <2>1, <3>1, <3>2 DEF Coming
  <2>2. \A f \in Files : InStore(f)' <=> InStore(f)  BY <1>1 DEF InStore
  <2>3. QED  BY <1>1, <2>1, <2>2 DEF HeldIsKnown
<1>16. QED  BY <1>7, <1>8, <1>9, <1>10, <1>11, <1>13, <1>14, <1>15

LEMMA KeptByTick == TaintInv /\ Tick => TaintInv'
<1> SUFFICES ASSUME TaintInv, Tick PROVE TaintInv'
  OBVIOUS
<1> USE DEF TaintInv
<1>1. /\ UNCHANGED <<shim, connection, robbed>> /\ now' = now + 1 /\ store' = store
      /\ posted' = posted /\ held' = held /\ unseen' = unseen
      /\ answered' = answered /\ mixed' = mixed
  BY DEF Tick, taintPast
<1>2. /\ linkOf' = linkOf /\ used' = used /\ call' = call /\ unanswered' = unanswered
      /\ inflight' = inflight /\ connection' = connection
  BY <1>1 DEF shim
<1>3. /\ OwnNumbers' /\ CallIsLast' /\ Noted' /\ NotesAreOfReads'
      /\ \A l \in Links : Carried(l)' = Carried(l)
  BY <1>1, ShimUntouched
<1>4. TaintTypeOK'  BY <1>1, <1>2 DEF TaintTypeOK
<1>5. ReportsAreReal'
  <2>1. \A b, o : Real(b, o) => Real(b, o)'  BY <1>1 DEF Real
  <2>2. QED  BY <1>1, <1>3, <2>1 DEF ReportsAreReal
<1>6. TaintIsReal'  BY <1>1 DEF TaintIsReal
<1>7. HeldIsKnown'
  <2> SUFFICES ASSUME NEW f \in Files, held'[f] # Nothing
               PROVE  /\ held'[f] <= now'
                      /\ f \in unseen' \/ TTL <= now' - held'[f] \/ Coming(f)' \/ InStore(f)'
    BY DEF HeldIsKnown
  <2>1. held[f] \in Nat /\ held[f] # Nothing /\ now \in Nat /\ TTL \in Nat
    BY <1>1, Bounds DEF TaintTypeOK
  <2>2. Coming(f) => Coming(f)'  BY <1>1, <1>3, StillComing
  <2>3. InStore(f) => InStore(f)'  BY <1>1 DEF InStore
  <2>4. /\ held[f] <= now
        /\ f \in unseen \/ TTL <= now - held[f] \/ Coming(f) \/ InStore(f)
    BY <2>1 DEF HeldIsKnown
  <2>5. QED  BY <1>1, <2>1, <2>2, <2>3, <2>4
<1>8. QED  BY <1>3, <1>4, <1>5, <1>6, <1>7

-----------------------------------------------------------------------------
LEMMA TaintStarts == TaintInit => TaintInv
<1> SUFFICES ASSUME TaintInit PROVE TaintInv
  OBVIOUS
<1>1. linkOf \in [Clients -> Links]  BY WiringAssumption DEF TaintInit
<1>2. TaintTypeOK  BY <1>1, Bounds DEF TaintInit, TaintTypeOK, NoCall, Some
<1>3. OwnNumbers  BY DEF TaintInit, OwnNumbers
<1>4. \A l \in Links : connection[l] = <<>> /\ Len(connection[l]) = 0  BY DEF TaintInit
<1>5. CallIsLast  BY <1>4 DEF CallIsLast
<1>6. \A s \in Clients : Awaited(s) = {}  BY DEF TaintInit, Awaited, NoCall
<1>7. Noted /\ NotesAreOfReads  BY <1>6 DEF TaintInit, Noted, NotesAreOfReads
<1>8. \A l \in Links : Carried(l) = {}  BY <1>4 DEF Carried
<1>9. ReportsAreReal  BY <1>8 DEF TaintInit, ReportsAreReal
<1>10. TaintIsReal  BY DEF TaintInit, TaintIsReal
<1>11. HeldIsKnown  BY DEF TaintInit, HeldIsKnown
<1>12. QED  BY <1>2, <1>3, <1>5, <1>7, <1>9, <1>10, <1>11 DEF TaintInv

LEMMA TaintKept == TaintInv /\ [TaintNext]_taintVars => TaintInv'
<1> SUFFICES ASSUME TaintInv, [TaintNext]_taintVars PROVE TaintInv'
  OBVIOUS
<1>1. ASSUME NEW l \in Links, TaintHandler(l) PROVE TaintInv'
  BY <1>1, KeptByTakeReport, KeptByRuling DEF TaintHandler
<1>2. ASSUME NEW s \in Clients, Traffic(s) PROVE TaintInv'
  <2>1. ASSUME NEW f \in Files, CallTool(s, f, Nothing) \/ CallTool(s, Nothing, f) PROVE TaintInv'
    <3>1. f \in Some(Files) /\ Nothing \in Some(Files)  BY DEF Some
    <3>2. QED  BY <2>1, <3>1, KeptByCall
  <2>2. ASSUME NEW asked \in unanswered[s], NEW body \in {asked[2], Noise} \ {Nothing},
               Respond(s, asked, body)
        PROVE  TaintInv'
    BY <2>2, KeptByResponse
  <2>3. ASSUME NEW id \in Ids, ServerAsks(s, id) PROVE TaintInv'
    BY <2>3, KeptByQuestion
  <2>4. QED  BY <1>2, <2>1, <2>2, <2>3 DEF Traffic
<1>3. ASSUME NEW f \in Files, HookReads(f) \/ TakePosted(f) PROVE TaintInv'
  BY <1>3, KeptByHook, KeptByTakePosted
<1>4. CASE Tick  BY <1>4, KeptByTick
<1>5. CASE UNCHANGED taintVars
  <2> USE DEF TaintInv
  <2>1. /\ UNCHANGED <<shim, connection, robbed>> /\ now' = now /\ store' = store
        /\ posted' = posted /\ held' = held /\ unseen' = unseen
        /\ answered' = answered /\ mixed' = mixed
    BY <1>5 DEF taintVars, bounds, taintPast
  <2>2. /\ linkOf' = linkOf /\ used' = used /\ call' = call /\ unanswered' = unanswered
        /\ inflight' = inflight /\ connection' = connection
    BY <2>1 DEF shim
  <2>3. /\ OwnNumbers' /\ CallIsLast' /\ Noted' /\ NotesAreOfReads'
        /\ \A l \in Links : Carried(l)' = Carried(l)
    BY <2>1, ShimUntouched
  <2>4. TaintTypeOK'  BY <2>1, <2>2 DEF TaintTypeOK
  <2>5. ReportsAreReal'  BY <2>1, <2>3 DEF ReportsAreReal, Real
  <2>6. TaintIsReal'  BY <2>1 DEF TaintIsReal
  <2>7. HeldIsKnown'  BY <2>1, <2>3, MoreIsComing
  <2>8. QED  BY <2>3, <2>4, <2>5, <2>6, <2>7
<1>6. QED  BY <1>1, <1>2, <1>3, <1>4, <1>5 DEF TaintNext

LEMMA TaintHolds == TaintSpec => []TaintInv
BY TaintStarts, TaintKept, PTL DEF TaintSpec

(* Nothing is taken for local data that was not: whatever the daemon holds  *)
(* as read from a file came in answer to a read of it, unless two messages  *)
(* of the link bore the same identifier (client.rs:429-440).               *)
THEOREM StoreIsReal == TaintSpec => []TaintIsReal
<1>1. TaintInv => TaintIsReal  BY DEF TaintInv
<1>2. QED  BY <1>1, TaintHolds, PTL

(* A call that carries out what the daemon could know of is told so before  *)
(* it is ruled on, whatever the number of clients, of links and of reads in *)
(* flight (client.rs:448, decide.rs:43-52, taint.rs:191).                 *)
THEOREM LeaksAreSeen == TaintSpec => LeakIsSeen
<1>1. ASSUME TaintInv, [TaintNext]_taintVars, NEW s \in Clients, IsRuled(s),
             call[s].carries # Nothing, Known(s, call[s].carries)
      PROVE  tainted' # Nothing
  <2> DEFINE f == call[s].carries
  <2> USE DEF TaintInv
  <2>1. /\ f \in Files /\ f \in Bodies /\ held[f] # Nothing /\ now - held[f] < TTL /\ f \notin unseen
        /\ held[f] \in Nat /\ now \in Nat /\ TTL \in Nat /\ Nothing \notin Files
    BY <1>1, Bounds DEF Known, TaintTypeOK, Some, Bodies
  <2>2. call[s] # NoCall /\ call'[s] = NoCall  BY <1>1 DEF IsRuled
  <2>3. PICK l \in Links : \E allowed \in BOOLEAN : RuleOn(l, allowed)
    <3>1. call' # call  BY <2>2
    <3>2. ASSUME NEW r \in Clients, NEW reads, NEW carries, CallTool(r, reads, carries) PROVE FALSE
      <4>1. /\ call' = [call EXCEPT ![r] = [id |-> used[r] + 1, reads |-> reads, carries |-> carries]]
            /\ call[r] = NoCall
        BY <3>2 DEF CallTool
      <4>2. r # s  BY <2>2, <4>1
      <4>3. call'[s] = call[s]  BY <1>1, <4>1, <4>2 DEF TaintTypeOK
      <4>4. QED  BY <2>2, <4>3
    <3>3. \A r, asked, body : ~Respond(r, asked, body)  BY <3>1 DEF Respond
    <3>4. \A r, id : ~ServerAsks(r, id)  BY <3>1 DEF ServerAsks
    <3>5. \A g : ~HookReads(g) /\ ~TakePosted(g) /\ ~TakeReport(g)
      BY <3>1 DEF HookReads, TakePosted, TakeReport, shim
    <3>6. ~Tick /\ ~UNCHANGED taintVars  BY <3>1 DEF Tick, taintVars, shim
    <3>7. QED  BY <1>1, <3>2, <3>3, <3>4, <3>5, <3>6 DEF TaintNext, Traffic, TaintHandler
  <2>4. /\ Takes(l, "decide")
        /\ tainted' = Overlap(call[Head(connection[l]).by].carries)
        /\ call' = [call EXCEPT ![Head(connection[l]).by] = NoCall]
    BY <2>3 DEF RuleOn
  <2>5. s = Head(connection[l]).by
    BY <1>1, <2>2, <2>4 DEF TaintTypeOK
  <2>6. linkOf[s] = l /\ \A m \in Carried(l) : m.by = s => m.type = "decide"
    BY <1>1, <2>4, <2>5, RuledOn
  <2>7. ~Coming(f)
    <3>1. f \notin posted  BY <1>1 DEF Known, OnItsWay
    <3>2. ASSUME NEW k \in Links, NEW i \in 1..Len(connection[k]),
                 connection[k][i].type = "taint", connection[k][i].body = f
          PROVE  FALSE
      <4>1. connection[k] \in Seq(Messages) /\ i \in DOMAIN connection[k]  BY <1>1 DEF TaintTypeOK
      <4>2. connection[k][i].by = s  BY <1>1, <3>2, <4>1 DEF Known, OnItsWay
      <4>3. k = l  BY <1>1, <2>6, <4>2 DEF CallIsLast
      <4>4. connection[l][i] \in Carried(l)  BY <4>3 DEF Carried
      <4>5. QED  BY <2>6, <3>2, <4>2, <4>3, <4>4
    <3>3. QED  BY <3>1, <3>2 DEF Coming, Carried
  <2>8. InStore(f) /\ held[f] <= now  BY <1>1, <2>1, <2>7 DEF HeldIsKnown
  <2>9. store[f] # Clean /\ store[f].at \in Nat /\ store[f].origin \in Files /\ held[f] <= store[f].at
    BY <1>1, <2>1, <2>8 DEF InStore, TaintTypeOK
  <2>10. Fresh(store[f])  BY <2>1, <2>9 DEF Fresh
  <2>11. Overlap(f) = store[f].origin  BY <1>1, <2>10 DEF Overlap
  <2>12. QED  BY <2>1, <2>4, <2>5, <2>9, <2>11
<1>2. TaintInv /\ [TaintNext]_taintVars =>
        [\A s \in Clients :
           IsRuled(s) /\ call[s].carries # Nothing /\ Known(s, call[s].carries)
             => tainted' # Nothing]_taintVars
  BY <1>1
<1>3. QED  BY <1>2, TaintHolds, PTL DEF TaintSpec, LeakIsSeen
=============================================================================
