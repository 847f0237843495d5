---------------------------- MODULE SessionProofs ----------------------------
(***************************************************************************)
(* That the relay is faithful both ways and answers what it denies, for    *)
(* any number of messages, pipes of any size, and peers that stop at any   *)
(* time; and that its journal loses no entry without a count, for any      *)
(* sizes of its channel and batch and any failures of the database.        *)
(***************************************************************************)
EXTENDS SessionProperties, Journal, SequenceTheorems, FiniteSetTheorems, TLAPS

USE SessionAssumption

Messages == {"answer", "note", "denial"} \X Nat

TypeOK ==
  /\ sent \in Seq(Kinds) /\ inbox \in Seq(Nat)
  /\ up \in {"reading", "deciding", "writing", "broken", "ended"} /\ upMsg \in Nat
  /\ refused \subseteq Nat /\ denied \in Seq(Nat)
  /\ toServer \in Seq(Nat) /\ got \in Seq(Nat)
  /\ work \subseteq Nat /\ emitted \in Seq(Messages) /\ fromServer \in Seq(Messages)
  /\ down \in {"reading", "writing", "finishing", "failed", "broken", "ended"}
  /\ downMsg \in Messages \cup {Nothing}
  /\ toClient \in Seq(Messages) /\ seen \in Seq(Messages)

(* The messages still in the pipe are the last that were sent, the one the  *)
(* pump holds is the one before, and those it denied came before that.      *)
InOrder ==
  /\ Len(inbox) <= Len(sent)
  /\ \A k \in 1..Len(inbox) : inbox[k] = Taken + k
  /\ Held = 1 => upMsg = Taken /\ Taken >= 1
  /\ refused \subseteq 1..(Taken - Held)

(* The pump leaves nothing in the channel, ends with the output of the      *)
(* server or for want of a client, holds a message until it has written it, *)
(* and has taken all the denials it will before it writes the last.        *)
Holds(pump) == pump \in {"writing", "finishing", "failed", "broken"}
Open ==
  /\ PumpIsOver => denied = <<>>
  /\ down \in {"finishing", "ended"} => OutputOver
  /\ WriteFailed => hungUp
  /\ Holds(down) => downMsg \in Messages
  /\ down = "finishing" => ToSet(denied) \subseteq unheard

SessionInv == TypeOK /\ InOrder /\ Open /\ UpwardIsFaithful /\ DenialsAreTold

-----------------------------------------------------------------------------
(* What is in a sequence that was added to, taken from or joined.           *)
LEMMA InAppended ==
  ASSUME NEW S, NEW s \in Seq(S), NEW x \in S
  PROVE  /\ Append(s, x) \in Seq(S)
         /\ ToSet(Append(s, x)) = ToSet(s) \cup {x}
<1>1. /\ Append(s, x) \in Seq(S) /\ Len(Append(s, x)) = Len(s) + 1
      /\ \A i \in 1..Len(s) : Append(s, x)[i] = s[i]
      /\ Append(s, x)[Len(s) + 1] = x
  BY AppendProperties
<1>2. /\ DOMAIN s = 1..Len(s) /\ Len(s) \in Nat
      /\ DOMAIN Append(s, x) = 1..(Len(s) + 1)
  BY <1>1
<1>3. ASSUME NEW e  PROVE e \in ToSet(Append(s, x)) <=> e \in ToSet(s) \cup {x}
  <2>1. ASSUME e \in ToSet(Append(s, x))  PROVE e \in ToSet(s) \cup {x}
    <3>1. PICK i \in 1..(Len(s) + 1) : e = Append(s, x)[i]
      BY <1>2, <2>1 DEF ToSet
    <3>2. CASE i = Len(s) + 1  BY <1>1, <3>1, <3>2
    <3>3. CASE i \in 1..Len(s)  BY <1>1, <1>2, <3>1, <3>3 DEF ToSet
    <3>4. QED  BY <1>2, <3>2, <3>3
  <2>2. ASSUME e \in ToSet(s)  PROVE e \in ToSet(Append(s, x))
    <3>1. PICK i \in 1..Len(s) : e = s[i]  BY <1>2, <2>2 DEF ToSet
    <3>2. i \in 1..(Len(s) + 1)  BY <1>2
    <3>3. QED  BY <1>1, <1>2, <3>1, <3>2 DEF ToSet
  <2>3. x \in ToSet(Append(s, x))
    <3>1. Len(s) + 1 \in 1..(Len(s) + 1)  BY <1>2
    <3>2. QED  BY <1>1, <1>2, <3>1 DEF ToSet
  <2>4. QED  BY <2>1, <2>2, <2>3
<1>4. QED  BY <1>1, <1>3

LEMMA InTail ==
  ASSUME NEW S, NEW s \in Seq(S), s # <<>>
  PROVE  /\ Head(s) \in S /\ Tail(s) \in Seq(S)
         /\ ToSet(s) = {Head(s)} \cup ToSet(Tail(s))
<1>1. /\ Head(s) \in S /\ Tail(s) \in Seq(S) /\ Head(s) = s[1] /\ Len(Tail(s)) = Len(s) - 1
      /\ \A i \in 1..Len(Tail(s)) : Tail(s)[i] = s[i + 1]
  BY HeadTailProperties
<1>2. /\ DOMAIN s = 1..Len(s) /\ Len(s) \in Nat /\ Len(s) >= 1
      /\ DOMAIN Tail(s) = 1..(Len(s) - 1)
  BY <1>1, EmptySeq
<1>3. ASSUME NEW e  PROVE e \in ToSet(s) <=> e \in {Head(s)} \cup ToSet(Tail(s))
  <2>1. ASSUME e \in ToSet(s)  PROVE e \in {Head(s)} \cup ToSet(Tail(s))
    <3>1. PICK i \in 1..Len(s) : e = s[i]  BY <1>2, <2>1 DEF ToSet
    <3>2. CASE i = 1  BY <1>1, <3>1, <3>2
    <3>3. CASE i # 1
      <4>1. i - 1 \in 1..(Len(s) - 1) /\ Tail(s)[i - 1] = s[i]  BY <1>1, <1>2, <3>3
      <4>2. QED  BY <1>2, <3>1, <4>1 DEF ToSet
    <3>4. QED  BY <3>2, <3>3
  <2>2. ASSUME e \in ToSet(Tail(s))  PROVE e \in ToSet(s)
    <3>1. PICK i \in 1..(Len(s) - 1) : e = Tail(s)[i]  BY <1>2, <2>2 DEF ToSet
    <3>2. i + 1 \in 1..Len(s) /\ e = s[i + 1]  BY <1>1, <1>2, <3>1
    <3>3. QED  BY <1>2, <3>2 DEF ToSet
  <2>3. Head(s) \in ToSet(s)  BY <1>1, <1>2 DEF ToSet
  <2>4. QED  BY <2>1, <2>2, <2>3
<1>4. QED  BY <1>1, <1>3

LEMMA InJoined ==
  ASSUME NEW S, NEW s \in Seq(S), NEW t \in Seq(S)
  PROVE  s \o t \in Seq(S) /\ ToSet(s \o t) = ToSet(s) \cup ToSet(t)
<1>1. /\ s \o t \in Seq(S) /\ Len(s \o t) = Len(s) + Len(t)
      /\ \A i \in 1..(Len(s) + Len(t)) :
           (s \o t)[i] = IF i <= Len(s) THEN s[i] ELSE t[i - Len(s)]
  BY ConcatProperties
<1>2. /\ DOMAIN s = 1..Len(s) /\ Len(s) \in Nat /\ DOMAIN t = 1..Len(t) /\ Len(t) \in Nat
      /\ DOMAIN (s \o t) = 1..(Len(s) + Len(t))
  BY <1>1
<1>3. ASSUME NEW e  PROVE e \in ToSet(s \o t) <=> e \in ToSet(s) \cup ToSet(t)
  <2>1. ASSUME e \in ToSet(s \o t)  PROVE e \in ToSet(s) \cup ToSet(t)
    <3>1. PICK i \in 1..(Len(s) + Len(t)) : e = (s \o t)[i]  BY <1>2, <2>1 DEF ToSet
    <3>2. CASE i <= Len(s)
      <4>1. i \in 1..Len(s) /\ e = s[i]  BY <1>1, <1>2, <3>1, <3>2
      <4>2. QED  BY <1>2, <4>1 DEF ToSet
    <3>3. CASE ~(i <= Len(s))
      <4>1. i - Len(s) \in 1..Len(t) /\ e = t[i - Len(s)]  BY <1>1, <1>2, <3>1, <3>3
      <4>2. QED  BY <1>2, <4>1 DEF ToSet
    <3>4. QED  BY <3>2, <3>3
  <2>2. ASSUME e \in ToSet(s)  PROVE e \in ToSet(s \o t)
    <3>1. PICK i \in 1..Len(s) : e = s[i]  BY <1>2, <2>2 DEF ToSet
    <3>2. i \in 1..(Len(s) + Len(t)) /\ (s \o t)[i] = s[i]  BY <1>1, <1>2
    <3>3. QED  BY <1>2, <3>1, <3>2 DEF ToSet
  <2>3. ASSUME e \in ToSet(t)  PROVE e \in ToSet(s \o t)
    <3>1. PICK i \in 1..Len(t) : e = t[i]  BY <1>2, <2>3 DEF ToSet
    <3>2. Len(s) + i \in 1..(Len(s) + Len(t)) /\ (s \o t)[Len(s) + i] = t[i]
      BY <1>1, <1>2
    <3>3. QED  BY <1>2, <3>1, <3>2 DEF ToSet
  <2>4. QED  BY <2>1, <2>2, <2>3
<1>4. QED  BY <1>1, <1>3

(* What was written to the client, as a set.                                *)
Carried(read, pipe, pump, msg) ==
  ToSet(read) \cup ToSet(pipe) \cup (IF Holds(pump) THEN {msg} ELSE {})

(* Every message written was read, is in the pipe or is the pump's: now and *)
(* after a step.                                                           *)
LEMMA WrittenIs ==
  /\ TypeOK /\ Open => ToSet(Written) = Carried(seen, toClient, down, downMsg)
  /\ TypeOK' /\ Open' => ToSet(Written)' = Carried(seen', toClient', down', downMsg')
<1>1. ASSUME NEW read \in Seq(Messages), NEW pipe \in Seq(Messages), NEW pump, NEW msg,
             Holds(pump) => msg \in Messages
      PROVE  ToSet(read \o pipe \o (IF Holds(pump) THEN <<msg>> ELSE <<>>))
               = Carried(read, pipe, pump, msg)
  <2>1. read \o pipe \in Seq(Messages) /\ ToSet(read \o pipe) = ToSet(read) \cup ToSet(pipe)
    BY InJoined
  <2>2. CASE Holds(pump)
    <3> DEFINE both == read \o pipe
               last == <<msg>>
    <3>1. last \in Seq(Messages) /\ ToSet(last) = {msg}  BY <1>1, <2>2 DEF ToSet
    <3>2. both \in Seq(Messages)  BY <2>1
    <3> HIDE DEF both, last
    <3>3. ToSet(both \o last) = ToSet(both) \cup {msg}  BY <3>1, <3>2, InJoined
    <3>4. QED  BY <2>1, <2>2, <3>3 DEF Carried, both, last
  <2>3. CASE ~Holds(pump)
    <3>1. <<>> \in Seq(Messages) /\ ToSet(<<>>) = {}  BY DEF ToSet
    <3>2. ToSet((read \o pipe) \o <<>>) = ToSet(read \o pipe)
      BY <2>1, <3>1, InJoined
    <3>3. QED  BY <2>1, <2>3, <3>2 DEF Carried
  <2>4. QED  BY <2>2, <2>3
<1>2. ASSUME TypeOK, Open
      PROVE  ToSet(Written) = Carried(seen, toClient, down, downMsg)
  <2>1. Written = seen \o toClient \o (IF Holds(down) THEN <<downMsg>> ELSE <<>>)
    BY DEF Written, Holds, Writing, WriteFailed
  <2>2. seen \in Seq(Messages) /\ toClient \in Seq(Messages)  BY <1>2 DEF TypeOK
  <2>3. Holds(down) => downMsg \in Messages  BY <1>2 DEF Open
  <2>4. QED  BY <1>1, <2>1, <2>2, <2>3
<1>3. ASSUME TypeOK', Open'
      PROVE  ToSet(Written)' = Carried(seen', toClient', down', downMsg')
  <2>1. Written' = seen' \o toClient' \o (IF Holds(down') THEN <<downMsg'>> ELSE <<>>)
    BY DEF Written, Holds, Writing, WriteFailed
  <2>2. seen' \in Seq(Messages) /\ toClient' \in Seq(Messages)  BY <1>3 DEF TypeOK
  <2>3. Holds(down') => downMsg' \in Messages  BY <1>3 DEF Open
  <2>4. QED  BY <1>1, <2>1, <2>2, <2>3
<1>4. QED  BY <1>2, <1>3

-----------------------------------------------------------------------------
(* A session begins with nothing sent, nothing held and nothing denied.      *)
LEMMA InitSession == Init => SessionInv
<1> SUFFICES ASSUME Init PROVE SessionInv  OBVIOUS
<1>1. /\ sent = <<>> /\ inbox = <<>> /\ up = "reading" /\ upMsg = 0 /\ refused = {}
      /\ denied = <<>> /\ toServer = <<>> /\ server = "running" /\ got = <<>>
      /\ work = {} /\ emitted = <<>> /\ fromServer = <<>> /\ down = "reading"
      /\ downMsg = Nothing /\ toClient = <<>> /\ seen = <<>> /\ unheard = {}
  BY DEF Init
<1>2. TypeOK  BY <1>1 DEF TypeOK
<1>3. Len(<<>>) = 0 /\ Held = 0 /\ Taken = 0  BY <1>1 DEF Held, Taken
<1>4. InOrder  BY <1>1, <1>3 DEF InOrder
<1>5. Open  BY <1>1 DEF Open, PumpIsOver, WriteFailed, Holds
<1>6. UpwardIsFaithful
  <2>1. Passed = <<>>  BY <1>1 DEF Passed
  <2>2. DOMAIN Passed = {} /\ ToSet(Passed) = {}  BY <2>1 DEF ToSet
  <2>3. (1..(Taken - Held)) = {}  BY <1>3
  <2>4. QED  BY <2>2, <2>3 DEF UpwardIsFaithful
<1>7. DenialsAreTold  BY <1>1 DEF DenialsAreTold
<1>8. QED  BY <1>2, <1>4, <1>5, <1>6, <1>7 DEF SessionInv

(* What the upward pump does not touch.                                     *)
upState == <<sent, inbox, up, upMsg, refused, got, toServer>>

LEMMA UpUntouched ==
  ASSUME InOrder, UpwardIsFaithful, UNCHANGED upState
  PROVE  InOrder' /\ UpwardIsFaithful'
BY DEF upState, InOrder, UpwardIsFaithful, Taken, Held, Passed

(* What decides whether a denial is told of.                                *)
downState == <<sent, refused, unheard, denied, down, downMsg, toClient, seen>>

(* The end of the output and the loss of the client are final.             *)
NoneReturns == (OutputOver => OutputOver') /\ (hungUp => hungUp')

LEMMA ServerUntouched ==
  ASSUME UNCHANGED <<server, shut, hungUp>>
  PROVE  NoneReturns
BY DEF NoneReturns, OutputOver

LEMMA DownUntouched ==
  ASSUME Open, DenialsAreTold, UNCHANGED downState, NoneReturns
  PROVE  Open' /\ DenialsAreTold'
<1>1. UNCHANGED <<Written, denied>>  BY DEF downState, Written, Writing, WriteFailed
<1>2. Open'  BY DEF Open, downState, NoneReturns, PumpIsOver, WriteFailed, Holds
<1>3. DenialsAreTold'
  BY <1>1 DEF DenialsAreTold, Told, downState, NoneReturns, WriteFailed
<1>4. QED  BY <1>2, <1>3

-----------------------------------------------------------------------------
(* The client.                                                             *)
LEMMA ClientSendsKeeps ==
  ASSUME SessionInv, NEW kind \in Kinds, ClientSends(kind)
  PROVE  SessionInv'
<1>1. /\ sent \in Seq(Kinds) /\ Len(sent) \in Nat /\ inbox \in Seq(Nat) /\ Len(inbox) \in Nat
      /\ Len(inbox) <= Len(sent)
  BY DEF SessionInv, TypeOK, InOrder
<1>2. /\ sent' = Append(sent, kind) /\ inbox' = Append(inbox, Len(sent) + 1)
      /\ UNCHANGED <<upVars, denied, toServer, serverVars, fromServer, downVars, toClient, seen>>
  BY DEF ClientSends
<1>3. /\ sent' \in Seq(Kinds) /\ Len(sent') = Len(sent) + 1
      /\ \A i \in 1..Len(sent) : sent'[i] = sent[i]
  BY <1>1, <1>2, AppendProperties
<1>4. /\ inbox' \in Seq(Nat) /\ Len(inbox') = Len(inbox) + 1
      /\ \A i \in 1..Len(inbox) : inbox'[i] = inbox[i]
      /\ inbox'[Len(inbox) + 1] = Len(sent) + 1
  <2>1. Len(sent) + 1 \in Nat  BY <1>1
  <2>2. QED  BY <1>1, <1>2, <2>1, AppendProperties
<1>5. TypeOK'
  BY <1>2, <1>3, <1>4 DEF SessionInv, TypeOK, upVars, serverVars, downVars
<1>6. Taken' = Taken /\ Held' = Held /\ Taken \in Nat /\ Held \in {0, 1}
  BY <1>1, <1>2, <1>3, <1>4 DEF Taken, Held, upVars
<1>7. InOrder'
  <2>1. Len(inbox') <= Len(sent')  BY <1>1, <1>3, <1>4
  <2>2. ASSUME NEW k \in 1..Len(inbox')  PROVE inbox'[k] = Taken + k
    <3>1. CASE k = Len(inbox) + 1
      <4>1. Taken + k = Len(sent) + 1  BY <1>1, <3>1 DEF Taken
      <4>2. QED  BY <1>4, <3>1, <4>1
    <3>2. CASE k \in 1..Len(inbox)  BY <1>4, <3>2 DEF SessionInv, InOrder
    <3>3. QED  BY <1>1, <1>4, <3>1, <3>2
  <2>3. QED  BY <1>2, <1>6, <2>1, <2>2 DEF SessionInv, InOrder, upVars
<1>8. UpwardIsFaithful'
  BY <1>2, <1>6 DEF SessionInv, UpwardIsFaithful, Passed, upVars, serverVars
<1>9. Open' /\ NoneReturns
  <2>1. UNCHANGED <<down, downMsg, denied, server, shut, hungUp>>
    BY <1>2 DEF serverVars, downVars, ClientSends
  <2> UNCHANGED unheard  BY <1>2 DEF upVars
  <2>2. NoneReturns  BY <2>1, ServerUntouched
  <2>3. QED  BY <2>1, <2>2 DEF SessionInv, Open, NoneReturns, PumpIsOver, WriteFailed, Holds
<1>10. DenialsAreTold'
  <2>1. UNCHANGED <<refused, unheard, down, denied, Written>>
    BY <1>2 DEF upVars, downVars, Written, Writing, WriteFailed
  <2>2. ASSUME NEW i \in refused  PROVE sent'[i] = sent[i]
    <3>1. i \in 1..(Taken - Held)  BY DEF SessionInv, InOrder
    <3>2. i \in 1..Len(sent)  BY <1>1, <1>6, <3>1 DEF Taken
    <3>3. QED  BY <1>3, <3>2
  <2>3. ASSUME NEW i \in refused \ unheard, sent[i] = "call"  PROVE (Told(i) \/ WriteFailed)'
    BY <2>1, <2>3 DEF SessionInv, DenialsAreTold, Told, WriteFailed
  <2>4. unheard' # {} => (hungUp \/ OutputOver)'
    BY <1>9, <2>1 DEF SessionInv, DenialsAreTold, NoneReturns
  <2>5. QED  BY <2>1, <2>2, <2>3, <2>4 DEF DenialsAreTold
<1>11. QED  BY <1>5, <1>7, <1>8, <1>9, <1>10 DEF SessionInv

LEMMA ClientReadsKeeps == ASSUME SessionInv, ClientReads PROVE SessionInv'
<1>1. toClient \in Seq(Messages) /\ toClient # <<>> /\ seen \in Seq(Messages)
  BY DEF SessionInv, TypeOK, ClientReads
<1>2. /\ toClient' = Tail(toClient) /\ seen' = Append(seen, Head(toClient))
      /\ UNCHANGED <<clientVars, inbox, upVars, denied, toServer, serverVars, fromServer, downVars>>
  BY DEF ClientReads
<1>3. /\ Head(toClient) \in Messages /\ toClient' \in Seq(Messages)
      /\ ToSet(toClient) = {Head(toClient)} \cup ToSet(toClient')
  BY <1>1, <1>2, InTail
<1>4. /\ seen' \in Seq(Messages) /\ ToSet(seen') = ToSet(seen) \cup {Head(toClient)}
  BY <1>1, <1>2, <1>3, InAppended
<1>5. TypeOK'
  BY <1>2, <1>3, <1>4 DEF SessionInv, TypeOK, clientVars, upVars, serverVars, downVars
<1>6. InOrder' /\ UpwardIsFaithful'
  BY <1>2, UpUntouched DEF SessionInv, upState, clientVars, upVars, serverVars
<1>7. Open' /\ NoneReturns
  <2>1. UNCHANGED <<down, downMsg, denied, server, shut, hungUp>>
    BY <1>2 DEF serverVars, downVars, clientVars
  <2> UNCHANGED unheard  BY <1>2 DEF upVars
  <2>2. NoneReturns  BY <2>1, ServerUntouched
  <2>3. QED  BY <2>1, <2>2 DEF SessionInv, Open, NoneReturns, PumpIsOver, WriteFailed, Holds
<1>8. DenialsAreTold'
  <2>1. ToSet(Written)' = ToSet(Written)
    <3>1. ToSet(Written) = Carried(seen, toClient, down, downMsg)
      BY WrittenIs DEF SessionInv
    <3>2. ToSet(Written)' = Carried(seen', toClient', down', downMsg')
      BY <1>5, <1>7, WrittenIs
    <3>3. QED  BY <1>2, <1>3, <1>4, <3>1, <3>2 DEF Carried, downVars
  <2>2. UNCHANGED <<sent, refused, unheard, denied, down>>
    BY <1>2 DEF clientVars, upVars, downVars
  <2>3. QED
    BY <1>7, <2>1, <2>2 DEF SessionInv, DenialsAreTold, Told, NoneReturns, WriteFailed
<1>9. QED  BY <1>5, <1>6, <1>7, <1>8 DEF SessionInv

-----------------------------------------------------------------------------
(* The upward pump.  It takes the next message, which it then holds.        *)
LEMMA UpReadKeeps == ASSUME SessionInv, UpRead PROVE SessionInv'
<1>1. /\ sent \in Seq(Kinds) /\ Len(sent) \in Nat /\ inbox \in Seq(Nat) /\ inbox # <<>>
      /\ Len(inbox) \in Nat /\ Len(inbox) <= Len(sent)
      /\ \A k \in 1..Len(inbox) : inbox[k] = Taken + k
  BY DEF SessionInv, TypeOK, InOrder, UpRead
<1>2. /\ inbox' = Tail(inbox) /\ upMsg' = Head(inbox) /\ up = "reading"
      /\ up' \in {"writing", "deciding"}
      /\ UNCHANGED <<clientVars, refused, unheard, denied, toServer, serverVars, fromServer, downVars,
                     toClient, seen>>
  BY DEF UpRead
<1>3. /\ inbox' \in Seq(Nat) /\ Len(inbox') = Len(inbox) - 1 /\ upMsg' = inbox[1]
      /\ \A k \in 1..Len(inbox') : inbox'[k] = inbox[k + 1]
      /\ Len(inbox) >= 1
  BY <1>1, <1>2, HeadTailProperties, EmptySeq
<1>4. /\ Taken \in Nat /\ Held = 0 /\ Held' = 1 /\ Taken' = Taken + 1
      /\ upMsg' = Taken + 1
  <2>1. Taken \in Nat /\ Taken' = Taken + 1
    BY <1>1, <1>2, <1>3 DEF Taken, clientVars
  <2>2. Held = 0 /\ Held' = 1  BY <1>2 DEF Held
  <2>3. 1 \in 1..Len(inbox)  BY <1>1, <1>3
  <2>4. QED  BY <1>1, <1>3, <2>1, <2>2, <2>3
<1>5. TypeOK'
  BY <1>2, <1>3, <1>4 DEF SessionInv, TypeOK, clientVars, serverVars, downVars
<1>6. InOrder'
  <2>1. Len(inbox') <= Len(sent')  BY <1>1, <1>2, <1>3 DEF clientVars
  <2>2. ASSUME NEW k \in 1..Len(inbox')  PROVE inbox'[k] = Taken' + k
    <3>1. k + 1 \in 1..Len(inbox) /\ k \in Nat  BY <1>1, <1>3
    <3>2. inbox[k + 1] = Taken + (k + 1)  BY <1>1, <3>1
    <3>3. QED  BY <1>3, <1>4, <3>1, <3>2
  <2>3. refused' = refused /\ refused \subseteq 1..(Taken - 0)
    BY <1>2, <1>4 DEF SessionInv, InOrder
  <2>4. refused' \subseteq 1..(Taken' - Held')  BY <1>4, <2>3
  <2>5. QED  BY <1>4, <2>1, <2>2, <2>4 DEF InOrder
<1>7. UpwardIsFaithful'
  <2>1. Passed' = Passed /\ refused' = refused  BY <1>2 DEF Passed, serverVars
  <2>2. Taken' - Held' = Taken - Held  BY <1>4
  <2>3. QED  BY <2>1, <2>2 DEF SessionInv, UpwardIsFaithful
<1>8. Open' /\ DenialsAreTold'
  BY <1>2, ServerUntouched, DownUntouched
  DEF SessionInv, downState, clientVars, serverVars, downVars
<1>9. QED  BY <1>5, <1>6, <1>7, <1>8 DEF SessionInv

(* It ends, is told to go on, or fails: it holds what it held.              *)
LEMMA UpHoldsKeeps == ASSUME SessionInv, UpEof \/ Allow \/ UpFails PROVE SessionInv'
<1>1. /\ up' \in {"writing", "broken", "ended"} /\ Held' = Held
      /\ UNCHANGED <<clientVars, inbox, upMsg, refused, unheard, denied, toServer, serverVars, fromServer,
                     downVars, toClient, seen>>
  BY DEF UpEof, Allow, UpFails, Held
<1>2. TypeOK'
  BY <1>1 DEF SessionInv, TypeOK, clientVars, serverVars, downVars
<1>3. Taken' = Taken /\ Passed' = Passed
  BY <1>1 DEF Taken, Passed, clientVars, serverVars
<1>4. InOrder' /\ UpwardIsFaithful'
  BY <1>1, <1>3 DEF SessionInv, InOrder, UpwardIsFaithful, clientVars
<1>5. Open' /\ DenialsAreTold'
  BY <1>1, ServerUntouched, DownUntouched
  DEF SessionInv, downState, clientVars, serverVars, downVars
<1>6. QED  BY <1>2, <1>4, <1>5 DEF SessionInv

(* A message is denied: it is the one held, and its response is queued.     *)
LEMMA DenyKeeps == ASSUME SessionInv, Deny PROVE SessionInv'
<1>1. /\ up = "deciding" /\ up' = "reading" /\ refused' = refused \cup {upMsg}
      /\ denied' = IF Answerable /\ ~PumpIsOver THEN Append(denied, upMsg) ELSE denied
      /\ unheard' = IF Answerable /\ PumpIsDeaf THEN unheard \cup {upMsg} ELSE unheard
      /\ UNCHANGED <<clientVars, inbox, upMsg, toServer, serverVars, fromServer, downVars,
                     toClient, seen>>
  BY DEF Deny
<1>2. /\ Held = 1 /\ Held' = 0 /\ Taken' = Taken /\ Taken \in Nat /\ Taken >= 1
      /\ upMsg = Taken /\ refused \subseteq 1..(Taken - 1)
  <2>1. Held = 1 /\ Held' = 0  BY <1>1 DEF Held
  <2>2. Len(sent) \in Nat /\ Len(inbox) \in Nat /\ Len(inbox) <= Len(sent)
    BY DEF SessionInv, TypeOK, InOrder
  <2>3. Taken' = Taken /\ Taken \in Nat  BY <1>1, <2>2 DEF Taken, clientVars
  <2>4. QED  BY <2>1, <2>3 DEF SessionInv, InOrder
<1>3. /\ denied \in Seq(Nat) /\ upMsg \in Nat
      /\ denied' \in Seq(Nat) /\ ToSet(denied) \subseteq ToSet(denied')
      /\ PumpIsDeaf /\ ToSet(denied) \subseteq unheard => ToSet(denied') \subseteq unheard'
      /\ Answerable /\ ~PumpIsOver => upMsg \in ToSet(denied')
  <2>1. denied \in Seq(Nat) /\ upMsg \in Nat  BY DEF SessionInv, TypeOK
  <2>2. /\ Append(denied, upMsg) \in Seq(Nat)
        /\ ToSet(Append(denied, upMsg)) = ToSet(denied) \cup {upMsg}
    BY <2>1, InAppended
  <2>3. QED  BY <1>1, <2>1, <2>2
<1>4. TypeOK'
  BY <1>1, <1>3 DEF SessionInv, TypeOK, clientVars, serverVars, downVars
<1>5. InOrder'
  <2>1. refused' \subseteq 1..(Taken' - Held')  BY <1>1, <1>2
  <2>2. QED  BY <1>1, <1>2, <2>1 DEF SessionInv, InOrder, clientVars
<1>6. UpwardIsFaithful'
  <2>1. Passed' = Passed  BY <1>1 DEF Passed, serverVars
  <2>2. (1..(Taken' - Held')) \ refused' = (1..(Taken - Held)) \ refused
    BY <1>1, <1>2
  <2>3. QED  BY <2>1, <2>2 DEF SessionInv, UpwardIsFaithful
<1>7. Open' /\ NoneReturns
  <2>1. UNCHANGED <<down, downMsg, server, shut, hungUp>>
    BY <1>1 DEF serverVars, downVars, clientVars
  <2>2. NoneReturns  BY <2>1, ServerUntouched
  <2>3. PumpIsOver => denied' = denied  BY <1>1
  <2>4. down = "finishing" => ToSet(denied') \subseteq unheard'
    BY <1>3 DEF SessionInv, Open, PumpIsDeaf
  <2>5. QED
    BY <2>1, <2>2, <2>3, <2>4 DEF SessionInv, Open, NoneReturns, PumpIsOver, WriteFailed, Holds
<1>8. DenialsAreTold'
  <2>1. Written' = Written /\ sent' = sent /\ down' = down
    BY <1>1 DEF Written, Writing, WriteFailed, downVars, clientVars
  <2>2. ASSUME NEW i \in refused' \ unheard', sent'[i] = "call"
        PROVE  (Told(i) \/ WriteFailed)'
    <3>1. CASE i \in refused
      <4>1. i \in refused \ unheard  BY <1>1, <2>2, <3>1
      <4>2. Told(i) \/ WriteFailed  BY <2>1, <2>2, <4>1 DEF SessionInv, DenialsAreTold
      <4>3. QED  BY <1>3, <2>1, <4>2 DEF Told, WriteFailed
    <3>2. CASE i = upMsg
      <4>1. Answerable  BY <2>1, <2>2, <3>2 DEF Answerable
      <4>2. ~PumpIsDeaf  BY <1>1, <2>2, <3>2, <4>1
      <4>3. ~PumpIsOver  BY <4>2 DEF PumpIsDeaf, PumpIsOver
      <4>4. QED  BY <1>3, <3>2, <4>1, <4>3 DEF Told
    <3>3. QED  BY <1>1, <2>2, <3>1, <3>2
  <2>3. unheard' # {} => hungUp' \/ OutputOver'
    <3>1. CASE PumpIsDeaf
      <4>1. down \in {"finishing", "failed", "broken", "ended"}
        BY <3>1 DEF PumpIsDeaf, SessionInv, TypeOK
      <4>2. hungUp \/ OutputOver  BY <4>1 DEF SessionInv, Open, WriteFailed
      <4>3. QED  BY <1>7, <4>2 DEF NoneReturns
    <3>2. CASE ~PumpIsDeaf
      <4>1. unheard' = unheard  BY <1>1, <3>2
      <4>2. QED  BY <1>7, <4>1 DEF SessionInv, DenialsAreTold, NoneReturns
    <3>3. QED  BY <3>1, <3>2
  <2>4. QED  BY <2>2, <2>3 DEF DenialsAreTold
<1>9. QED  BY <1>4, <1>5, <1>6, <1>7, <1>8 DEF SessionInv

(* What it writes is after all it wrote.                                    *)
LEMMA UpWriteKeeps == ASSUME SessionInv, UpWrite PROVE SessionInv'
<1>1. /\ up = "writing" /\ up' = "reading" /\ toServer' = Append(toServer, upMsg)
      /\ UNCHANGED <<clientVars, inbox, upMsg, refused, unheard, denied, serverVars, fromServer, downVars,
                     toClient, seen>>
  BY DEF UpWrite
<1>2. /\ Held = 1 /\ Held' = 0 /\ Taken' = Taken /\ Taken \in Nat /\ Taken >= 1
      /\ upMsg = Taken /\ refused \subseteq 1..(Taken - 1)
  <2>1. Held = 1 /\ Held' = 0  BY <1>1 DEF Held
  <2>2. Len(sent) \in Nat /\ Len(inbox) \in Nat /\ Len(inbox) <= Len(sent)
    BY DEF SessionInv, TypeOK, InOrder
  <2>3. Taken' = Taken /\ Taken \in Nat  BY <1>1, <2>2 DEF Taken, clientVars
  <2>4. QED  BY <2>1, <2>3 DEF SessionInv, InOrder
<1>3. got \in Seq(Nat) /\ toServer \in Seq(Nat) /\ upMsg \in Nat
  BY DEF SessionInv, TypeOK
<1>4. /\ toServer' \in Seq(Nat) /\ ToSet(toServer') = ToSet(toServer) \cup {upMsg}
      /\ Len(toServer') = Len(toServer) + 1
      /\ \A i \in 1..Len(toServer) : toServer'[i] = toServer[i]
      /\ toServer'[Len(toServer) + 1] = upMsg
  BY <1>1, <1>3, InAppended, AppendProperties
<1>5. TypeOK'
  BY <1>1, <1>4 DEF SessionInv, TypeOK, clientVars, serverVars, downVars
<1>6. InOrder'
  <2>1. refused' \subseteq 1..(Taken' - Held')  BY <1>1, <1>2
  <2>2. QED  BY <1>1, <1>2, <2>1 DEF SessionInv, InOrder, clientVars
<1>7. UpwardIsFaithful'
  <2>1. Passed = got \o toServer /\ Passed' = got \o toServer'
    BY <1>1 DEF Passed, serverVars
  <2>2. ToSet(Passed)' = (1..(Taken' - Held')) \ refused'
    <3>1. ToSet(Passed)' = ToSet(Passed) \cup {upMsg}
      BY <1>3, <1>4, <2>1, InJoined
    <3>2. ToSet(Passed) = (1..(Taken - 1)) \ refused
      BY <1>2 DEF SessionInv, UpwardIsFaithful
    <3>3. QED  BY <1>1, <1>2, <3>1, <3>2
  <2>3. /\ DOMAIN Passed = 1..Len(Passed) /\ Len(Passed) \in Nat
        /\ DOMAIN Passed' = 1..(Len(Passed) + 1)
        /\ \A i \in 1..Len(Passed) : Passed'[i] = Passed[i]
        /\ Passed'[Len(Passed) + 1] = upMsg
    <3>1. /\ Len(Passed) = Len(got) + Len(toServer) /\ Passed \in Seq(Nat)
          /\ \A i \in 1..(Len(got) + Len(toServer)) :
               Passed[i] = IF i <= Len(got) THEN got[i] ELSE toServer[i - Len(got)]
      BY <1>3, <2>1, ConcatProperties
    <3>2. /\ Len(Passed') = Len(got) + Len(toServer') /\ Passed' \in Seq(Nat)
          /\ \A i \in 1..(Len(got) + Len(toServer')) :
               Passed'[i] = IF i <= Len(got) THEN got[i] ELSE toServer'[i - Len(got)]
      BY <1>3, <1>4, <2>1, ConcatProperties
    <3>3. Len(got) \in Nat /\ Len(toServer) \in Nat  BY <1>3
    <3>4. /\ DOMAIN Passed = 1..Len(Passed) /\ Len(Passed) \in Nat
          /\ DOMAIN Passed' = 1..(Len(Passed) + 1)
      BY <1>4, <3>1, <3>2, <3>3
    <3>5. ASSUME NEW i \in 1..Len(Passed)  PROVE Passed'[i] = Passed[i]
      <4>1. i \in 1..(Len(got) + Len(toServer)) /\ i \in 1..(Len(got) + Len(toServer'))
        BY <1>4, <3>1, <3>3
      <4>2. CASE i <= Len(got)  BY <3>1, <3>2, <4>1, <4>2
      <4>3. CASE ~(i <= Len(got))
        <5>1. i - Len(got) \in 1..Len(toServer)  BY <3>3, <4>1, <4>3
        <5>2. QED  BY <1>4, <3>1, <3>2, <4>1, <4>3, <5>1
      <4>4. QED  BY <4>2, <4>3
    <3>6. Passed'[Len(Passed) + 1] = upMsg
      <4>1. /\ Len(Passed) + 1 \in 1..(Len(got) + Len(toServer'))
            /\ ~(Len(Passed) + 1 <= Len(got))
            /\ (Len(Passed) + 1) - Len(got) = Len(toServer) + 1
        BY <1>4, <3>1, <3>3
      <4>2. Passed'[Len(Passed) + 1] = toServer'[(Len(Passed) + 1) - Len(got)]
        BY <3>2, <4>1
      <4>3. QED  BY <1>4, <4>1, <4>2
    <3>7. QED  BY <3>4, <3>5, <3>6
  <2>4. ASSUME NEW j \in DOMAIN Passed', NEW k \in DOMAIN Passed', j < k
        PROVE  Passed'[j] < Passed'[k]
    <3>1. j \in 1..Len(Passed)  BY <2>3, <2>4
    <3>2. Passed'[j] = Passed[j] /\ Passed[j] \in ToSet(Passed)
      BY <2>3, <3>1 DEF ToSet
    <3>3. CASE k = Len(Passed) + 1
      <4>1. Passed[j] \in 1..(Taken - 1)
        BY <1>2, <3>2 DEF SessionInv, UpwardIsFaithful
      <4>2. Passed[j] < Taken  BY <1>2, <4>1
      <4>3. Passed'[k] = Taken  BY <1>2, <2>3, <3>3
      <4>4. QED  BY <3>2, <4>2, <4>3
    <3>4. CASE k \in 1..Len(Passed)
      <4>1. Passed[j] < Passed[k]
        BY <2>3, <2>4, <3>1, <3>4 DEF SessionInv, UpwardIsFaithful
      <4>2. QED  BY <2>3, <3>2, <3>4, <4>1
    <3>5. QED  BY <2>3, <3>3, <3>4
  <2>5. QED  BY <2>2, <2>4 DEF UpwardIsFaithful
<1>8. Open' /\ DenialsAreTold'
  BY <1>1, ServerUntouched, DownUntouched
  DEF SessionInv, downState, clientVars, serverVars, downVars
<1>9. QED  BY <1>5, <1>6, <1>7, <1>8 DEF SessionInv

-----------------------------------------------------------------------------
(* The server.  What it reads it is not given again.                        *)
LEMMA MovedOver ==
  ASSUME NEW S, NEW s \in Seq(S), NEW t \in Seq(S), t # <<>>
  PROVE  Append(s, Head(t)) \o Tail(t) = s \o t
<1> DEFINE front == Append(s, Head(t))
           whole == s \o t
           moved == front \o Tail(t)
<1>1. /\ Head(t) \in S /\ Tail(t) \in Seq(S) /\ Head(t) = t[1] /\ Len(Tail(t)) = Len(t) - 1
      /\ \A i \in 1..Len(Tail(t)) : Tail(t)[i] = t[i + 1]
  BY HeadTailProperties
<1>2. Len(s) \in Nat /\ Len(t) \in Nat /\ Len(t) >= 1  BY EmptySeq
<1>3. /\ front \in Seq(S) /\ Len(front) = Len(s) + 1 /\ front[Len(s) + 1] = t[1]
      /\ \A i \in 1..Len(s) : front[i] = s[i]
  BY <1>1, AppendProperties
<1> HIDE DEF front
<1>4. /\ moved \in Seq(S) /\ Len(moved) = Len(front) + Len(Tail(t))
      /\ \A i \in 1..(Len(front) + Len(Tail(t))) :
           moved[i] = IF i <= Len(front) THEN front[i] ELSE Tail(t)[i - Len(front)]
  BY <1>1, <1>3, ConcatProperties
<1>5. /\ whole \in Seq(S) /\ Len(whole) = Len(s) + Len(t)
      /\ \A i \in 1..(Len(s) + Len(t)) :
           whole[i] = IF i <= Len(s) THEN s[i] ELSE t[i - Len(s)]
  BY ConcatProperties
<1> HIDE DEF whole, moved
<1>6. Len(moved) = Len(whole)  BY <1>1, <1>2, <1>3, <1>4, <1>5
<1>7. ASSUME NEW i \in 1..Len(whole)  PROVE moved[i] = whole[i]
  <2>1. i \in 1..(Len(s) + Len(t)) /\ i \in 1..(Len(front) + Len(Tail(t)))
    BY <1>1, <1>2, <1>3, <1>5
  <2>2. CASE i \in 1..Len(s)
    <3>1. i <= Len(front) /\ i <= Len(s)  BY <1>2, <1>3, <2>2
    <3>2. QED  BY <1>3, <1>4, <1>5, <2>1, <2>2, <3>1
  <2>3. CASE i = Len(s) + 1
    <3>1. i <= Len(front) /\ ~(i <= Len(s)) /\ i - Len(s) = 1  BY <1>2, <1>3, <2>3
    <3>2. QED  BY <1>3, <1>4, <1>5, <2>1, <2>3, <3>1
  <2>4. CASE i > Len(s) + 1
    <3>1. /\ ~(i <= Len(front)) /\ ~(i <= Len(s))
          /\ i - Len(front) \in 1..Len(Tail(t)) /\ (i - Len(front)) + 1 = i - Len(s)
      BY <1>1, <1>2, <1>3, <2>1, <2>4
    <3>2. QED  BY <1>1, <1>4, <1>5, <2>1, <3>1
  <2>5. QED  BY <1>2, <2>1, <2>2, <2>3, <2>4
<1>8. moved = whole  BY <1>4, <1>5, <1>6, <1>7, SeqEqual
<1>9. QED  BY <1>8 DEF moved, whole, front

LEMMA ServerReadsKeeps == ASSUME SessionInv, ServerReads PROVE SessionInv'
<1>1. /\ toServer # <<>> /\ toServer' = Tail(toServer) /\ got' = Append(got, Head(toServer))
      /\ work' \subseteq work \cup {Head(toServer)}
      /\ UNCHANGED <<clientVars, inbox, upVars, denied, server, shut, emitted, fromServer, downVars,
                     toClient, seen>>
  BY DEF ServerReads
<1>2. got \in Seq(Nat) /\ toServer \in Seq(Nat) /\ work \subseteq Nat
  BY DEF SessionInv, TypeOK
<1>3. /\ Head(toServer) \in Nat /\ toServer' \in Seq(Nat) /\ got' \in Seq(Nat)
      /\ got' \o toServer' = got \o toServer
  <2>1. Head(toServer) \in Nat /\ Tail(toServer) \in Seq(Nat)
    BY <1>1, <1>2, HeadTailProperties
  <2>2. Append(got, Head(toServer)) \in Seq(Nat)  BY <1>2, <2>1, AppendProperties
  <2>3. Append(got, Head(toServer)) \o Tail(toServer) = got \o toServer
    BY <1>1, <1>2, MovedOver
  <2>4. QED  BY <1>1, <2>1, <2>2, <2>3
<1>4. TypeOK'
  BY <1>1, <1>2, <1>3 DEF SessionInv, TypeOK, clientVars, upVars, downVars
<1>5. Passed' = Passed /\ Taken' = Taken /\ Held' = Held
  BY <1>1, <1>3 DEF Passed, Taken, Held, clientVars, upVars
<1>6. InOrder' /\ UpwardIsFaithful'
  BY <1>1, <1>5 DEF SessionInv, InOrder, UpwardIsFaithful, clientVars, upVars
<1>7. Open' /\ DenialsAreTold'
  BY <1>1, ServerUntouched, DownUntouched
  DEF SessionInv, downState, clientVars, upVars, downVars
<1>8. QED  BY <1>4, <1>6, <1>7 DEF SessionInv

(* What it writes is one of its messages.                                   *)
LEMMA EmitKeeps ==
  ASSUME SessionInv, NEW msg \in Messages, Emit(msg), work' \subseteq work
  PROVE  SessionInv'
<1>1. /\ fromServer' = Append(fromServer, msg) /\ emitted' = Append(emitted, msg)
      /\ UNCHANGED <<clientVars, inbox, upVars, denied, toServer, server, shut, got, downVars,
                     toClient, seen>>
  BY DEF Emit
<1>2. fromServer \in Seq(Messages) /\ emitted \in Seq(Messages)
  BY DEF SessionInv, TypeOK
<1>3. fromServer' \in Seq(Messages) /\ emitted' \in Seq(Messages)
  BY <1>1, <1>2, AppendProperties
<1>4. TypeOK'
  BY <1>1, <1>3 DEF SessionInv, TypeOK, clientVars, upVars, downVars
<1>5. InOrder' /\ UpwardIsFaithful'
  BY <1>1, UpUntouched DEF SessionInv, upState, clientVars, upVars
<1>6. Open' /\ DenialsAreTold'
  BY <1>1, ServerUntouched, DownUntouched
  DEF SessionInv, downState, clientVars, upVars, downVars
<1>7. QED  BY <1>4, <1>5, <1>6 DEF SessionInv

LEMMA ServerWritesKeeps == ASSUME SessionInv, ServerAnswers \/ ServerNotes PROVE SessionInv'
<1>1. CASE ServerAnswers
  <2>1. PICK i \in work : Emit(<<"answer", i>>) /\ work' = work \ {i}
    BY <1>1 DEF ServerAnswers
  <2>2. <<"answer", i>> \in Messages  BY DEF SessionInv, TypeOK, Messages
  <2>3. QED  BY <2>1, <2>2, EmitKeeps
<1>2. CASE ServerNotes
  <2> DEFINE notes == {k \in DOMAIN emitted : IsNote(emitted[k])}
  <2>1. Emit(<<"note", Cardinality(notes) + 1>>) /\ work' = work
    BY <1>2 DEF ServerNotes, Notes
  <2>2. Len(emitted) \in Nat /\ DOMAIN emitted = 1..Len(emitted)
    BY DEF SessionInv, TypeOK
  <2>3. IsFiniteSet(1..Len(emitted)) /\ notes \subseteq 1..Len(emitted)
    BY <2>2, FS_Interval
  <2>4. Cardinality(notes) \in Nat  BY <2>3, FS_Subset, FS_CardinalityType
  <2>5. <<"note", Cardinality(notes) + 1>> \in Messages
    <3>1. Cardinality(notes) + 1 \in Nat  BY <2>4
    <3>2. QED  BY <3>1 DEF Messages
  <2>6. QED  BY <2>1, <2>5, EmitKeeps
<1>3. QED  BY <1>1, <1>2

-----------------------------------------------------------------------------
(* The downward pump.  What it does to the channel and to what it holds      *)
(* leaves every denial told, or to be.                                     *)
LEMMA StillTold ==
  ASSUME DenialsAreTold, NoneReturns, UNCHANGED <<sent, refused, unheard>>,
         \A i \in refused \ unheard : Told(i) \/ WriteFailed => (Told(i) \/ WriteFailed)'
  PROVE  DenialsAreTold'
BY DEF DenialsAreTold, NoneReturns

(* A response that leaves the channel is being written.                     *)
LEMMA DownDeniedKeeps == ASSUME SessionInv, DownDenied PROVE SessionInv'
<1>1. /\ down = "reading" /\ denied # <<>> /\ denied' = Tail(denied) /\ down' = "writing"
      /\ downMsg' = <<"denial", Head(denied)>>
      /\ UNCHANGED <<clientVars, inbox, upVars, toServer, serverVars, fromServer, toClient, seen>>
  BY DEF DownDenied
<1>2. denied \in Seq(Nat)  BY DEF SessionInv, TypeOK
<1>3. /\ Head(denied) \in Nat /\ denied' \in Seq(Nat)
      /\ ToSet(denied) = {Head(denied)} \cup ToSet(denied')
  BY <1>1, <1>2, InTail
<1>4. downMsg' \in Messages  BY <1>1, <1>3 DEF Messages
<1>5. TypeOK'
  BY <1>1, <1>3, <1>4 DEF SessionInv, TypeOK, clientVars, upVars, serverVars
<1>6. InOrder' /\ UpwardIsFaithful'
  BY <1>1, UpUntouched DEF SessionInv, upState, clientVars, upVars, serverVars
<1>7. Open'  BY <1>1, <1>4 DEF Open, PumpIsOver, WriteFailed
<1>8. DenialsAreTold'
  <2>1. ToSet(Written) = Carried(seen, toClient, down, downMsg)
    BY WrittenIs DEF SessionInv
  <2>2. ToSet(Written)' = Carried(seen', toClient', down', downMsg')
    BY <1>5, <1>7, WrittenIs
  <2>3. ToSet(Written)' = ToSet(Written) \cup {<<"denial", Head(denied)>>}
    BY <1>1, <2>1, <2>2 DEF Carried, Holds
  <2>4. ASSUME NEW i, Told(i)  PROVE Told(i)'
    <3>1. CASE <<"denial", i>> \in ToSet(Written)  BY <2>3, <3>1 DEF Told
    <3>2. CASE i = Head(denied)  BY <2>3, <3>2 DEF Told
    <3>3. CASE i \in ToSet(denied')  BY <3>3 DEF Told
    <3>4. QED  BY <1>3, <2>4, <3>1, <3>2, <3>3 DEF Told
  <2>5. ~WriteFailed  BY <1>1 DEF WriteFailed
  <2>6. NoneReturns /\ UNCHANGED <<sent, refused, unheard>>
    BY <1>1, ServerUntouched DEF clientVars, upVars, serverVars
  <2>7. QED  BY <2>4, <2>5, <2>6, StillTold DEF SessionInv
<1>9. QED  BY <1>5, <1>6, <1>7, <1>8 DEF SessionInv

(* A message of the server's is taken to be written.                        *)
LEMMA DownReadKeeps == ASSUME SessionInv, DownRead \/ DownFinish PROVE SessionInv'
<1>1. /\ down = "reading" /\ fromServer # <<>> /\ fromServer' = Tail(fromServer)
      /\ down' \in {"writing", "finishing"} /\ downMsg' = Head(fromServer)
      /\ denied = <<>> /\ (down' = "finishing" => OutputOver)
      /\ UNCHANGED <<clientVars, inbox, upVars, denied, toServer, serverVars, toClient, seen>>
  BY DEF DownRead, DownFinish
<1>2. fromServer \in Seq(Messages)  BY DEF SessionInv, TypeOK
<1>3. downMsg' \in Messages /\ fromServer' \in Seq(Messages)  BY <1>1, <1>2, InTail
<1>4. TypeOK'
  BY <1>1, <1>3 DEF SessionInv, TypeOK, clientVars, upVars, serverVars
<1>5. InOrder' /\ UpwardIsFaithful'
  BY <1>1, UpUntouched DEF SessionInv, upState, clientVars, upVars, serverVars
<1>6. NoneReturns /\ UNCHANGED <<sent, refused, unheard>>
  BY <1>1, ServerUntouched DEF clientVars, upVars, serverVars
<1>7. Open'
  <2>1. ToSet(denied') = {}  BY <1>1 DEF ToSet
  <2>2. ~PumpIsOver' /\ ~WriteFailed'  BY <1>1 DEF PumpIsOver, WriteFailed
  <2>3. QED  BY <1>1, <1>3, <1>6, <2>1, <2>2 DEF Open, NoneReturns
<1>8. DenialsAreTold'
  <2>1. ToSet(Written) = Carried(seen, toClient, down, downMsg)
    BY WrittenIs DEF SessionInv
  <2>2. ToSet(Written)' = Carried(seen', toClient', down', downMsg')
    BY <1>4, <1>7, WrittenIs
  <2>3. ToSet(Written) \subseteq ToSet(Written)'
    BY <1>1, <2>1, <2>2 DEF Carried, Holds
  <2>4. ~WriteFailed /\ denied' = denied  BY <1>1 DEF WriteFailed
  <2>5. ASSUME NEW i, Told(i)  PROVE Told(i)'  BY <2>3, <2>4, <2>5 DEF Told
  <2>6. QED  BY <1>6, <2>4, <2>5, StillTold DEF SessionInv
<1>9. QED  BY <1>4, <1>5, <1>7, <1>8 DEF SessionInv

(* What was being written is in the pipe.                                   *)
LEMMA DownWriteKeeps == ASSUME SessionInv, DownWrite PROVE SessionInv'
<1>1. /\ Writing /\ toClient' = Append(toClient, downMsg) /\ downMsg' = Nothing
      /\ \/ down = "writing" /\ down' = "reading" /\ denied' = denied
         \/ down = "finishing" /\ down' = "ended" /\ denied' = <<>>
      /\ UNCHANGED <<clientVars, inbox, upVars, toServer, serverVars, fromServer, seen>>
  BY DEF DownWrite
<1>2. toClient \in Seq(Messages) /\ downMsg \in Messages
  BY <1>1 DEF SessionInv, TypeOK, Open, Writing, Holds
<1>3. toClient' \in Seq(Messages) /\ ToSet(toClient') = ToSet(toClient) \cup {downMsg}
  BY <1>1, <1>2, InAppended
<1>4. TypeOK'
  <2>1. denied \in Seq(Nat) /\ <<>> \in Seq(Nat)  BY DEF SessionInv, TypeOK
  <2>2. down' \in {"reading", "ended"} /\ denied' \in Seq(Nat)  BY <1>1, <2>1
  <2>3. QED  BY <1>1, <1>3, <2>2 DEF SessionInv, TypeOK, clientVars, upVars, serverVars
<1>5. InOrder' /\ UpwardIsFaithful'
  BY <1>1, UpUntouched DEF SessionInv, upState, clientVars, upVars, serverVars
<1>6. NoneReturns /\ UNCHANGED <<sent, refused, unheard>>
  BY <1>1, ServerUntouched DEF clientVars, upVars, serverVars
<1>7. Open'
  <2>1. ~Holds(down') /\ ~WriteFailed' /\ down' # "finishing"
    BY <1>1 DEF Holds, WriteFailed
  <2>2. PumpIsOver' => denied' = <<>>  BY <1>1 DEF PumpIsOver
  <2>3. down' = "ended" => OutputOver'  BY <1>1, <1>6 DEF SessionInv, Open, NoneReturns
  <2>4. QED  BY <2>1, <2>2, <2>3 DEF Open
<1>8. DenialsAreTold'
  <2>1. ToSet(Written) = Carried(seen, toClient, down, downMsg)
    BY WrittenIs DEF SessionInv
  <2>2. ToSet(Written)' = Carried(seen', toClient', down', downMsg')
    BY <1>4, <1>7, WrittenIs
  <2>3. ToSet(Written)' = ToSet(Written)
    BY <1>1, <1>3, <2>1, <2>2 DEF Carried, Holds
  <2>4. ~WriteFailed  BY <1>1 DEF WriteFailed
  <2>5. ASSUME NEW i \in refused \ unheard, Told(i)  PROVE Told(i)'
    <3>1. CASE denied' = denied  BY <2>3, <2>5, <3>1 DEF Told
    <3>2. CASE down = "finishing"
      <4>1. i \notin ToSet(denied)  BY <2>5, <3>2 DEF SessionInv, Open
      <4>2. QED  BY <2>3, <2>5, <4>1 DEF Told
    <3>3. QED  BY <1>1, <3>1, <3>2
  <2>6. QED  BY <1>6, <2>4, <2>5, StillTold DEF SessionInv
<1>9. QED  BY <1>4, <1>5, <1>7, <1>8 DEF SessionInv

(* It fails only for want of a client, and only then leaves denials behind. *)
LEMMA DownFailsKeeps == ASSUME SessionInv, DownFails \/ DownBreaks PROVE SessionInv'
<1>1. /\ down' \in {"failed", "broken"} /\ Holds(down)
      /\ \/ down' = "failed" /\ hungUp /\ denied' = denied
         \/ down' = "broken" /\ down = "failed" /\ denied' = <<>>
      /\ UNCHANGED <<clientVars, inbox, upVars, toServer, serverVars, fromServer, downMsg, toClient,
                     seen>>
  BY DEF DownFails, DownBreaks, Writing, Holds
<1>2. denied' \in Seq(Nat)
  <2>1. denied \in Seq(Nat) /\ <<>> \in Seq(Nat)  BY DEF SessionInv, TypeOK
  <2>2. QED  BY <1>1, <2>1
<1>3. TypeOK'
  BY <1>1, <1>2 DEF SessionInv, TypeOK, clientVars, upVars, serverVars
<1>4. InOrder' /\ UpwardIsFaithful'
  BY <1>1, UpUntouched DEF SessionInv, upState, clientVars, upVars, serverVars
<1>5. NoneReturns /\ UNCHANGED <<sent, refused, unheard>>
  BY <1>1, ServerUntouched DEF clientVars, upVars, serverVars
<1>6. hungUp' /\ downMsg' \in Messages
  BY <1>1, <1>5 DEF SessionInv, Open, NoneReturns, WriteFailed
<1>7. PumpIsOver' => denied' = <<>>  BY <1>1 DEF PumpIsOver
<1>8. Open'  BY <1>1, <1>6, <1>7 DEF Open
<1>9. WriteFailed'  BY <1>1 DEF WriteFailed
<1>10. DenialsAreTold'  BY <1>5, <1>9, StillTold DEF SessionInv
<1>11. QED  BY <1>3, <1>4, <1>8, <1>10 DEF SessionInv

(* It ends with the server's output, which it has passed on.                *)
LEMMA DownEofKeeps == ASSUME SessionInv, DownEof PROVE SessionInv'
<1>1. /\ down = "reading" /\ down' = "ended" /\ OutputOver /\ denied = <<>>
      /\ UNCHANGED <<clientVars, inbox, upVars, denied, toServer, serverVars, fromServer, downMsg,
                     toClient, seen>>
  BY DEF DownEof
<1>2. TypeOK'  BY <1>1 DEF SessionInv, TypeOK, clientVars, upVars, serverVars
<1>3. InOrder' /\ UpwardIsFaithful'
  BY <1>1, UpUntouched DEF SessionInv, upState, clientVars, upVars, serverVars
<1>4. NoneReturns /\ UNCHANGED <<sent, refused, unheard>>
  BY <1>1, ServerUntouched DEF clientVars, upVars, serverVars
<1>5. Open'  BY <1>1, <1>4 DEF Open, NoneReturns, WriteFailed, Holds
<1>6. Written' = Written /\ ~WriteFailed
  BY <1>1 DEF Written, Writing, WriteFailed
<1>7. ASSUME NEW i, Told(i)  PROVE Told(i)'  BY <1>1, <1>6, <1>7 DEF Told
<1>8. DenialsAreTold'  BY <1>4, <1>6, <1>7, StillTold DEF SessionInv
<1>9. QED  BY <1>2, <1>3, <1>5, <1>8 DEF SessionInv

-----------------------------------------------------------------------------
(* Closing, hanging up, signals, the end of the server and the steps of     *)
(* session::run move no message.                                           *)
MovesNothing ==
  /\ UNCHANGED <<sent, inbox, upVars, denied, toServer, got, work, emitted, fromServer, downVars,
                 toClient, seen>>
  /\ NoneReturns

LEMMA MovesNothingKeeps == ASSUME SessionInv, MovesNothing PROVE SessionInv'
<1>1. TypeOK'  BY DEF MovesNothing, SessionInv, TypeOK, upVars, downVars
<1>2. InOrder' /\ UpwardIsFaithful'
  BY UpUntouched DEF MovesNothing, SessionInv, upState, upVars
<1>3. Open' /\ DenialsAreTold'
  BY DownUntouched DEF MovesNothing, SessionInv, downState, upVars, downVars
<1>4. QED  BY <1>1, <1>2, <1>3 DEF SessionInv

(* Every step keeps the invariant.                                          *)
LEMMA StepSession == SessionInv /\ [Next]_vars => SessionInv'
<1> SUFFICES ASSUME SessionInv, [Next]_vars PROVE SessionInv'  OBVIOUS
<1>1. CASE Client
  <2>1. CASE ClientCloses \/ ClientSignals
    <3>1. UNCHANGED <<server, shut, hungUp>>
      BY <2>1 DEF ClientCloses, ClientSignals, serverVars
    <3>2. NoneReturns  BY <3>1, ServerUntouched
    <3>3. MovesNothing
      BY <2>1, <3>2 DEF ClientCloses, ClientSignals, MovesNothing, serverVars
    <3>4. QED  BY <3>3, MovesNothingKeeps
  <2>2. CASE ClientHangsUp
    <3>1. NoneReturns  BY <2>2 DEF ClientHangsUp, NoneReturns, OutputOver, serverVars
    <3>2. MovesNothing  BY <2>2, <3>1 DEF ClientHangsUp, MovesNothing, serverVars
    <3>3. QED  BY <3>2, MovesNothingKeeps
  <2>3. QED  BY <1>1, <2>1, <2>2, ClientSendsKeeps, ClientReadsKeeps DEF Client
<1>2. CASE Upward
  BY <1>2, UpReadKeeps, UpHoldsKeeps, DenyKeeps, UpWriteKeeps DEF Upward
<1>3. CASE Server
  <2>1. CASE ServerExits \/ \E end \in Ends : ServerShuts(end)
    <3>1. NoneReturns
      BY <2>1 DEF ServerExits, ServerShuts, NoneReturns, OutputOver, clientVars
    <3>2. MovesNothing
      BY <2>1, <3>1 DEF ServerExits, ServerShuts, MovesNothing, clientVars
    <3>3. QED  BY <3>2, MovesNothingKeeps
  <2>2. QED  BY <1>3, <2>1, ServerReadsKeeps, ServerWritesKeeps DEF Server
<1>4. CASE Downward
  BY <1>4, DownDeniedKeeps, DownReadKeeps, DownEofKeeps, DownWriteKeeps, DownFailsKeeps
  DEF Downward
<1>5. CASE Main
  <2>1. CASE GraceEnds
    <3>1. NoneReturns
      BY <2>1 DEF GraceEnds, Escalate, NoneReturns, OutputOver, clientVars
    <3>2. MovesNothing  BY <2>1, <3>1 DEF GraceEnds, MovesNothing, clientVars
    <3>3. QED  BY <3>2, MovesNothingKeeps
  <2>2. CASE ChildExited \/ SignalArrives \/ UpEnded \/ Drained \/ Leave
    <3>1. UNCHANGED <<server, shut, hungUp>>
      BY <2>2 DEF ChildExited, SignalArrives, UpEnded, Drained, Leave, clientVars, serverVars
    <3>2. MovesNothing
      BY <2>2, <3>1, ServerUntouched
      DEF ChildExited, SignalArrives, UpEnded, Drained, Leave, MovesNothing, clientVars,
          serverVars
    <3>3. QED  BY <3>2, MovesNothingKeeps
  <2>3. QED  BY <1>5, <2>1, <2>2 DEF Main
<1>6. CASE UNCHANGED vars
  <2>1. MovesNothing
    BY <1>6, ServerUntouched DEF vars, MovesNothing, clientVars, serverVars
  <2>2. QED  BY <2>1, MovesNothingKeeps
<1>7. QED  BY <1>1, <1>2, <1>3, <1>4, <1>5, <1>6 DEF Next

(* In every session, however long and whenever either end stops.            *)
LEMMA AlwaysSession == Spec => []SessionInv
<1>1. Init => SessionInv  BY InitSession
<1>2. SessionInv /\ [Next]_vars => SessionInv'  BY StepSession
<1>3. QED  BY <1>1, <1>2, PTL DEF Spec

(* The server is given what the client sent, in its order and once, but for *)
(* what was denied: pump_up of stdio.rs.                                    *)
THEOREM RelayedFaithfully == Spec => []UpwardIsFaithful
<1>1. SessionInv => UpwardIsFaithful  BY DEF SessionInv
<1>2. QED  BY <1>1, AlwaysSession, PTL

(* No response to a denied call is lost between the two pumps, unless a     *)
(* write to the client fails or the server's output has ended: the channel  *)
(* of stdio.rs, which pump_down empties first.                             *)
THEOREM DenialsAnswered == Spec => []DenialsAreTold
<1>1. SessionInv => DenialsAreTold  BY DEF SessionInv
<1>2. QED  BY <1>1, AlwaysSession, PTL

-----------------------------------------------------------------------------
(* What the client is given of the server's messages.                       *)
ServerMessages == {"answer", "note"} \X Nat

(* Those written are the first that were emitted, in their order, and those *)
(* in the pipe are the rest.                                               *)
Faithful(written, all, rest) ==
  /\ Len(all) = Relayed(written, Len(written)) + Len(rest)
  /\ \A j \in 1..Len(written) :
       FromServer(written[j]) => written[j] = all[Relayed(written, j)]
  /\ \A k \in 1..Len(rest) : rest[k] = all[Relayed(written, Len(written)) + k]

LEMMA RelayedCounts ==
  ASSUME NEW w \in Seq(Messages)
  PROVE  /\ \A n \in 0..Len(w) : /\ Relayed(w, n) \in Nat
                                 /\ Relayed(w, n) <= Relayed(w, Len(w))
         /\ \A n \in 1..Len(w) : FromServer(w[n]) => Relayed(w, n) >= 1
<1> DEFINE Of(n) == {j \in 1..n : FromServer(w[j])}
<1>1. Len(w) \in Nat  OBVIOUS
<1>2. ASSUME NEW n \in 0..Len(w)
      PROVE  IsFiniteSet(Of(n)) /\ Cardinality(Of(n)) \in Nat
  <2>1. IsFiniteSet(1..n)  BY <1>1, FS_Interval
  <2>2. Of(n) \in SUBSET (1..n)  OBVIOUS
  <2> HIDE DEF Of
  <2>3. QED  BY <2>1, <2>2, FS_Subset, FS_CardinalityType
<1>3. ASSUME NEW n \in 0..Len(w)  PROVE Cardinality(Of(n)) <= Cardinality(Of(Len(w)))
  <2>1. Of(n) \in SUBSET Of(Len(w))  BY <1>1
  <2>2. Len(w) \in 0..Len(w)  BY <1>1
  <2>3. IsFiniteSet(Of(Len(w)))  BY <1>2, <2>2
  <2> HIDE DEF Of
  <2>4. QED  BY <2>1, <2>3, FS_Subset
<1>4. ASSUME NEW n \in 1..Len(w), FromServer(w[n])  PROVE Cardinality(Of(n)) >= 1
  <2>1. n \in Of(n) /\ n \in 0..Len(w)  BY <1>1, <1>4
  <2> HIDE DEF Of
  <2>2. Cardinality(Of(n)) # 0  BY <1>2, <2>1, FS_EmptySet
  <2>3. Cardinality(Of(n)) \in Nat  BY <1>2, <2>1
  <2>4. QED  BY <2>2, <2>3
<1>5. QED  BY <1>2, <1>3, <1>4 DEF Relayed

LEMMA RelayedAppends ==
  ASSUME NEW w \in Seq(Messages), NEW x \in Messages
  PROVE  /\ \A n \in 0..Len(w) : Relayed(Append(w, x), n) = Relayed(w, n)
         /\ Relayed(Append(w, x), Len(w) + 1)
              = IF FromServer(x) THEN Relayed(w, Len(w)) + 1 ELSE Relayed(w, Len(w))
<1> DEFINE more == Append(w, x)
           Of(n) == {j \in 1..n : FromServer(w[j])}
           Then(n) == {j \in 1..n : FromServer(more[j])}
<1>1. /\ Len(w) \in Nat /\ more[Len(w) + 1] = x
      /\ \A i \in 1..Len(w) : more[i] = w[i]
  BY AppendProperties
<1> HIDE DEF more
<1>2. ASSUME NEW n \in 0..Len(w)  PROVE Then(n) = Of(n)
  BY <1>1
<1>3. \A j : j \in 1..(Len(w) + 1) <=> j \in 1..Len(w) \/ j = Len(w) + 1
  BY <1>1
<1>4. Len(w) + 1 \notin Of(Len(w))  BY <1>1
<1>5. IsFiniteSet(Of(Len(w)))
  <2>1. IsFiniteSet(1..Len(w))  BY <1>1, FS_Interval
  <2>2. Of(Len(w)) \in SUBSET (1..Len(w))  OBVIOUS
  <2> HIDE DEF Of
  <2>3. QED  BY <2>1, <2>2, FS_Subset
<1>6. CASE FromServer(x)
  <2>1. Then(Len(w) + 1) = Of(Len(w)) \cup {Len(w) + 1}  BY <1>1, <1>3, <1>6
  <2> HIDE DEF Of, Then
  <2>2. Cardinality(Then(Len(w) + 1)) = Cardinality(Of(Len(w))) + 1
    BY <1>4, <1>5, <2>1, FS_AddElement
  <2>3. QED  BY <1>2, <1>6, <2>2 DEF Relayed, Of, Then, more
<1>7. CASE ~FromServer(x)
  <2>1. Then(Len(w) + 1) = Of(Len(w))  BY <1>1, <1>3, <1>7
  <2>2. QED  BY <1>2, <1>7, <2>1 DEF Relayed, more
<1>8. QED  BY <1>6, <1>7

(* A block response comes in between. *)
LEMMA FaithfulBetween ==
  ASSUME NEW w \in Seq(Messages), NEW all \in Seq(ServerMessages),
         NEW rest \in Seq(ServerMessages), Faithful(w, all, rest),
         NEW x \in Messages, ~FromServer(x)
  PROVE  Faithful(Append(w, x), all, rest)
<1> DEFINE more == Append(w, x)
           m == Len(w)
<1>1. /\ m \in Nat /\ Len(more) = m + 1 /\ more[m + 1] = x
      /\ \A i \in 1..m : more[i] = w[i]
  BY AppendProperties
<1>2. /\ \A n \in 0..m : Relayed(more, n) = Relayed(w, n)
      /\ Relayed(more, m + 1) = Relayed(w, m)
  BY RelayedAppends
<1>3. /\ Len(all) = Relayed(w, m) + Len(rest)
      /\ \A j \in 1..m : FromServer(w[j]) => w[j] = all[Relayed(w, j)]
      /\ \A k \in 1..Len(rest) : rest[k] = all[Relayed(w, m) + k]
  BY DEF Faithful
<1> HIDE DEF more, m
<1>4. \A j \in 1..Len(more) : FromServer(more[j]) => more[j] = all[Relayed(more, j)]
  <2>1. ASSUME NEW j \in 1..Len(more), FromServer(more[j])
        PROVE  more[j] = all[Relayed(more, j)]
    <3>1. j # m + 1  BY <1>1, <2>1
    <3>2. j \in 1..m /\ j \in 0..m  BY <1>1, <3>1
    <3>3. QED  BY <1>1, <1>2, <1>3, <2>1, <3>2
  <2>2. QED  BY <2>1
<1>5. Faithful(more, all, rest)  BY <1>1, <1>2, <1>3, <1>4 DEF Faithful
<1>6. QED  BY <1>5 DEF more

(* The next message is taken from the pipe. *)
LEMMA FaithfulNext ==
  ASSUME NEW w \in Seq(Messages), NEW all \in Seq(ServerMessages),
         NEW rest \in Seq(ServerMessages), Faithful(w, all, rest),
         rest # <<>>, Head(rest) \in Messages, FromServer(Head(rest))
  PROVE  Faithful(Append(w, Head(rest)), all, Tail(rest))
<1> DEFINE x == Head(rest)
           more == Append(w, x)
           m == Len(w)
           left == Tail(rest)
<1>1. /\ m \in Nat /\ Len(more) = m + 1 /\ more[m + 1] = x
      /\ \A i \in 1..m : more[i] = w[i]
  BY AppendProperties
<1>2. /\ \A n \in 0..m : Relayed(more, n) = Relayed(w, n)
      /\ Relayed(more, m + 1) = Relayed(w, m) + 1
  BY RelayedAppends
<1>3. /\ Len(all) = Relayed(w, m) + Len(rest)
      /\ \A j \in 1..m : FromServer(w[j]) => w[j] = all[Relayed(w, j)]
      /\ \A k \in 1..Len(rest) : rest[k] = all[Relayed(w, m) + k]
  BY DEF Faithful
<1>4. /\ Len(left) = Len(rest) - 1 /\ x = rest[1] /\ Len(rest) \in Nat /\ Len(rest) >= 1
      /\ \A i \in 1..Len(left) : left[i] = rest[i + 1]
  BY HeadTailProperties, EmptySeq
<1>5. Relayed(w, m) \in Nat  BY <1>1, RelayedCounts
<1> HIDE DEF more, m, x, left
<1>6. \A j \in 1..Len(more) : FromServer(more[j]) => more[j] = all[Relayed(more, j)]
  <2>1. ASSUME NEW j \in 1..Len(more), FromServer(more[j])
        PROVE  more[j] = all[Relayed(more, j)]
    <3>1. CASE j = m + 1
      <4>1. 1 \in 1..Len(rest)  BY <1>4
      <4>2. rest[1] = all[Relayed(w, m) + 1]  BY <1>3, <4>1
      <4>3. QED  BY <1>1, <1>2, <1>4, <3>1, <4>2
    <3>2. CASE j # m + 1
      <4>1. j \in 1..m /\ j \in 0..m  BY <1>1, <3>2
      <4>2. QED  BY <1>1, <1>2, <1>3, <2>1, <4>1
    <3>3. QED  BY <3>1, <3>2
  <2>2. QED  BY <2>1
<1>7. \A k \in 1..Len(left) : left[k] = all[Relayed(more, Len(more)) + k]
  <2>1. ASSUME NEW k \in 1..Len(left)
        PROVE  left[k] = all[Relayed(more, Len(more)) + k]
    <3>1. k + 1 \in 1..Len(rest)  BY <1>4
    <3>2. left[k] = all[Relayed(w, m) + (k + 1)]  BY <1>3, <1>4, <3>1
    <3>3. Relayed(w, m) + (k + 1) = Relayed(more, Len(more)) + k  BY <1>1, <1>2, <1>5
    <3>4. QED  BY <3>2, <3>3
  <2>2. QED  BY <2>1
<1>8. Len(all) = Relayed(more, Len(more)) + Len(left)
  BY <1>1, <1>2, <1>3, <1>4, <1>5
<1>9. Faithful(more, all, left)  BY <1>6, <1>7, <1>8 DEF Faithful
<1>10. QED  BY <1>9 DEF more, x, left

(* The server writes another. *)
LEMMA FaithfulMore ==
  ASSUME NEW w \in Seq(Messages), NEW all \in Seq(ServerMessages),
         NEW rest \in Seq(ServerMessages), Faithful(w, all, rest), NEW x \in ServerMessages
  PROVE  Faithful(w, Append(all, x), Append(rest, x))
<1> DEFINE every == Append(all, x)
           left == Append(rest, x)
           m == Len(w)
<1>a. /\ Len(every) = Len(all) + 1 /\ every[Len(all) + 1] = x
      /\ \A i \in 1..Len(all) : every[i] = all[i]
  BY AppendProperties
<1>b. /\ Len(left) = Len(rest) + 1 /\ left[Len(rest) + 1] = x
      /\ \A i \in 1..Len(rest) : left[i] = rest[i]
  BY AppendProperties
<1>1. Len(all) \in Nat /\ Len(rest) \in Nat /\ m \in Nat  OBVIOUS
<1>2. /\ Len(all) = Relayed(w, m) + Len(rest)
      /\ \A j \in 1..m : FromServer(w[j]) => w[j] = all[Relayed(w, j)]
      /\ \A k \in 1..Len(rest) : rest[k] = all[Relayed(w, m) + k]
  BY DEF Faithful
<1>3. /\ \A n \in 0..m : Relayed(w, n) \in Nat /\ Relayed(w, n) <= Relayed(w, m)
      /\ \A n \in 1..m : FromServer(w[n]) => Relayed(w, n) >= 1
      /\ Relayed(w, m) \in Nat
  BY <1>1, RelayedCounts
<1> HIDE DEF every, left, m
<1>4. ASSUME NEW j \in 1..m, FromServer(w[j])  PROVE w[j] = every[Relayed(w, j)]
  <2>1. j \in 0..m  BY <1>1
  <2>2. Relayed(w, j) \in 1..Len(all)
    <3>1. Relayed(w, j) \in Nat /\ Relayed(w, j) <= Relayed(w, m) /\ Relayed(w, j) >= 1
      BY <1>3, <1>4, <2>1
    <3>2. Len(all) = Relayed(w, m) + Len(rest) /\ Relayed(w, m) \in Nat  BY <1>2, <1>3
    <3>3. QED  BY <1>1, <3>1, <3>2
  <2>3. w[j] = all[Relayed(w, j)]  BY <1>2, <1>4
  <2>4. QED  BY <1>a, <2>2, <2>3
<1>5. ASSUME NEW k \in 1..Len(left)  PROVE left[k] = every[Relayed(w, m) + k]
  <2>1. CASE k = Len(rest) + 1
    <3>1. Relayed(w, m) + k = Len(all) + 1  BY <1>1, <1>2, <1>3, <2>1
    <3>2. QED  BY <1>a, <1>b, <2>1, <3>1
  <2>2. CASE k # Len(rest) + 1
    <3>1. k \in 1..Len(rest) /\ Relayed(w, m) + k \in 1..Len(all)
      <4>1. k \in 1..Len(rest)  BY <1>1, <1>b, <2>2
      <4>2. Len(all) = Relayed(w, m) + Len(rest) /\ Relayed(w, m) \in Nat  BY <1>2, <1>3
      <4>3. QED  BY <1>1, <4>1, <4>2
    <3>2. left[k] = rest[k] /\ rest[k] = all[Relayed(w, m) + k]  BY <1>2, <1>b, <3>1
    <3>3. QED  BY <1>a, <3>1, <3>2
  <2>3. QED  BY <2>1, <2>2
<1>6. Len(every) = Relayed(w, m) + Len(left)  BY <1>1, <1>2, <1>3, <1>a, <1>b
<1>7. Faithful(w, every, left)  BY <1>4, <1>5, <1>6 DEF Faithful, m
<1>8. QED  BY <1>7 DEF every, left

(* What becomes of what was written: moved on, or added to. *)
LEMMA WrittenMoves ==
  ASSUME TypeOK, Open
  PROVE  /\ Written \in Seq(Messages)
         /\ UNCHANGED <<seen, toClient, down, downMsg>> => Written' = Written
         /\ ~Holds(down) /\ ~Holds(down') /\ UNCHANGED <<seen, toClient>>
              => Written' = Written
         /\ ClientReads => Written' = Written
         /\ DownWrite => Written' = Written
         /\ Holds(down) /\ Holds(down') /\ UNCHANGED <<seen, toClient, downMsg>>
              => Written' = Written
         /\ \A m \in Messages :
              ~Holds(down) /\ Holds(down') /\ downMsg' = m /\ UNCHANGED <<seen, toClient>>
                => Written' = Append(Written, m)
<1> DEFINE last == IF Holds(down) THEN <<downMsg>> ELSE <<>>
<1>0. /\ Written = (seen \o toClient) \o last
      /\ Written' = (seen' \o toClient') \o (IF Holds(down') THEN <<downMsg'>> ELSE <<>>)
  BY DEF Written, Writing, WriteFailed, Holds
<1>1. seen \in Seq(Messages) /\ toClient \in Seq(Messages)  BY DEF TypeOK
<1>2. last \in Seq(Messages)  BY DEF Open
<1>3. seen \o toClient \in Seq(Messages)  BY <1>1, ConcatProperties
<1>4. Written \in Seq(Messages)
  <2> HIDE DEF last
  <2>1. (seen \o toClient) \o last \in Seq(Messages)  BY <1>2, <1>3, ConcatProperties
  <2>2. QED  BY <1>0, <2>1
<1>5. /\ UNCHANGED <<seen, toClient, down, downMsg>> => Written' = Written
      /\ Holds(down) /\ Holds(down') /\ UNCHANGED <<seen, toClient, downMsg>>
           => Written' = Written
  BY <1>0
<1>6. ~Holds(down) /\ ~Holds(down') /\ UNCHANGED <<seen, toClient>> => Written' = Written
  BY <1>0
<1>7. ASSUME ClientReads  PROVE Written' = Written
  <2>1. /\ toClient # <<>> /\ toClient' = Tail(toClient) /\ seen' = Append(seen, Head(toClient))
        /\ UNCHANGED <<down, downMsg>>
    BY <1>7 DEF ClientReads, downVars
  <2>2. seen' \o toClient' = seen \o toClient  BY <1>1, <2>1, MovedOver
  <2>3. QED  BY <1>0, <2>1, <2>2
<1>8. ASSUME DownWrite  PROVE Written' = Written
  <2>1. /\ Holds(down) /\ ~Holds(down') /\ toClient' = Append(toClient, downMsg)
        /\ seen' = seen
    BY <1>8 DEF DownWrite, Holds
  <2>2. downMsg \in Messages  BY <2>1 DEF Open
  <2>3. Written = (seen \o toClient) \o <<downMsg>>  BY <1>0, <2>1
  <2>4. Written' = (seen \o Append(toClient, downMsg)) \o <<>>  BY <1>0, <2>1
  <2>5. PICK m \in Messages : m = downMsg  BY <2>2
  <2>6. PICK both : both = seen \o toClient  OBVIOUS
  <2>7. both \in Seq(Messages)  BY <1>3, <2>6
  <2>8. both \o <<m>> = Append(both, m)  BY <2>7
  <2>9. seen \o Append(toClient, m) = Append(seen \o toClient, m)  BY <1>1
  <2>10. Append(both, m) \in Seq(Messages)  BY <2>7, AppendProperties
  <2>11. PICK whole \in Seq(Messages) : whole = Append(both, m)  BY <2>10
  <2>12. whole \o <<>> = whole  BY <2>11
  <2>13. QED  BY <2>3, <2>4, <2>5, <2>6, <2>8, <2>9, <2>11, <2>12
<1>9. ASSUME NEW m \in Messages, ~Holds(down), Holds(down'), downMsg' = m,
             UNCHANGED <<seen, toClient>>
      PROVE  Written' = Append(Written, m)
  <2>1. PICK both : both = seen \o toClient  OBVIOUS
  <2>2. both \in Seq(Messages)  BY <1>3, <2>1
  <2>3. Written = both \o <<>> /\ Written' = both \o <<m>>  BY <1>0, <1>9, <2>1
  <2>4. both \o <<>> = both /\ both \o <<m>> = Append(both, m)  BY <2>2
  <2>5. QED  BY <2>3, <2>4
<1>10. QED  BY <1>4, <1>5, <1>6, <1>7, <1>8, <1>9

(* The pump ends with nothing left to pass on, or it fails; the shim leaves *)
(* it before only when the time to drain ran out.                          *)
Emptied ==
  /\ down \in {"finishing", "ended"} => fromServer = <<>>
  /\ main \in {"leaving", "gone"} => cut \/ PumpIsOver

RelayInv ==
  /\ SessionInv
  /\ emitted \in Seq(ServerMessages) /\ fromServer \in Seq(ServerMessages)
  /\ Faithful(Written, emitted, fromServer)
  /\ Emptied

LEMMA RelayIsFaithful == RelayInv => DownwardIsFaithful
<1> SUFFICES ASSUME RelayInv  PROVE DownwardIsFaithful  OBVIOUS
<1> DEFINE r == Relayed(Written, Len(Written))
           rest == SubSeq(emitted, r + 1, Len(emitted))
<1>1. Written \in Seq(Messages)  BY WrittenMoves DEF RelayInv, SessionInv
<1>2. r \in Nat
  <2>1. PICK w \in Seq(Messages) : w = Written  BY <1>1
  <2>2. Len(w) \in 0..Len(w)  OBVIOUS
  <2>3. QED  BY <2>1, <2>2, RelayedCounts
<1>3. /\ emitted \in Seq(ServerMessages) /\ fromServer \in Seq(ServerMessages)
      /\ Len(emitted) = r + Len(fromServer)
      /\ \A k \in 1..Len(fromServer) : fromServer[k] = emitted[r + k]
      /\ \A j \in 1..Len(Written) :
           FromServer(Written[j]) => Written[j] = emitted[Relayed(Written, j)]
  BY DEF RelayInv, Faithful
<1> HIDE DEF r
<1>4. Len(emitted) \in Nat /\ Len(fromServer) \in Nat  BY <1>3
<1>5. \A i \in (r + 1)..Len(emitted) : emitted[i] \in ServerMessages  BY <1>2, <1>3, <1>4
<1>6. /\ rest \in Seq(ServerMessages)
      /\ Len(rest) = IF r + 1 <= Len(emitted) THEN Len(emitted) - (r + 1) + 1 ELSE 0
      /\ \A i \in 1..(Len(emitted) - (r + 1) + 1) : rest[i] = emitted[(r + 1) + i - 1]
  <2>1. r + 1 \in Int /\ Len(emitted) \in Int  BY <1>2, <1>4
  <2>2. QED  BY <1>5, <2>1, SubSeqProperties
<1> HIDE DEF rest
<1>7. Len(rest) = Len(fromServer)  BY <1>2, <1>3, <1>4, <1>6
<1>8. ASSUME NEW k \in 1..Len(rest)  PROVE rest[k] = fromServer[k]
  <2>1. k \in 1..(Len(emitted) - (r + 1) + 1) /\ (r + 1) + k - 1 = r + k
    BY <1>2, <1>3, <1>4, <1>7
  <2>2. rest[k] = emitted[r + k]  BY <1>6, <2>1
  <2>3. QED  BY <1>3, <1>7, <2>2
<1>9. rest = fromServer  BY <1>3, <1>6, <1>7, <1>8, SeqEqual
<1>10. main \in {"leaving", "gone"} /\ ~cut /\ down # "broken" =>
         fromServer = <<>> /\ denied = <<>>
  BY DEF RelayInv, Emptied, SessionInv, Open, PumpIsOver
<1>11. QED  BY <1>3, <1>9, <1>10 DEF DownwardIsFaithful, rest, r

LEMMA InitRelay == Init => RelayInv
<1> SUFFICES ASSUME Init  PROVE RelayInv  OBVIOUS
<1>1. /\ emitted = <<>> /\ fromServer = <<>> /\ seen = <<>> /\ toClient = <<>>
      /\ down = "reading" /\ main = "select"
  BY DEF Init
<1>2. Written = <<>>  BY <1>1 DEF Written, Writing, WriteFailed
<1>3. Relayed(<<>>, 0) = 0
  <2>1. {j \in 1..0 : FromServer((<<>>)[j])} = {}  OBVIOUS
  <2>2. QED  BY <2>1, FS_EmptySet DEF Relayed
<1>4. Len(<<>>) = 0 /\ 1..0 = {}  OBVIOUS
<1>5. Faithful(<<>>, <<>>, <<>>)  BY <1>3, <1>4 DEF Faithful
<1>6. Faithful(Written, emitted, fromServer)  BY <1>1, <1>2, <1>5
<1>7. Emptied  BY <1>1 DEF Emptied
<1>8. QED  BY <1>1, <1>6, <1>7, InitSession DEF RelayInv

LEMMA StillFaithful ==
  ASSUME RelayInv, Written' = Written, UNCHANGED <<emitted, fromServer>>
  PROVE  /\ emitted' \in Seq(ServerMessages) /\ fromServer' \in Seq(ServerMessages)
         /\ Faithful(Written', emitted', fromServer')
BY DEF RelayInv

LEMMA DownDeniedRelays == ASSUME RelayInv, DownDenied  PROVE RelayInv'
<1>0. SessionInv /\ SessionInv' /\ TypeOK /\ Open
  BY DownDeniedKeeps DEF RelayInv, SessionInv
<1>1. /\ down = "reading" /\ denied # <<>> /\ down' = "writing"
      /\ downMsg' = <<"denial", Head(denied)>>
      /\ UNCHANGED <<serverVars, fromServer, toClient, seen, mainVars>>
      /\ main \notin {"leaving", "gone"}
  BY DEF DownDenied, Free
<1>2. PICK m \in Messages : m = <<"denial", Head(denied)>>
  BY <1>0, <1>1, InTail DEF TypeOK, Messages
<1>3. ~FromServer(m)  BY <1>2 DEF FromServer
<1>4. Written \in Seq(Messages) /\ Written' = Append(Written, m)
  BY <1>0, <1>1, <1>2, WrittenMoves DEF Holds
<1>5. /\ emitted \in Seq(ServerMessages) /\ fromServer \in Seq(ServerMessages)
      /\ Faithful(Written, emitted, fromServer)
  BY DEF RelayInv
<1>6. Faithful(Append(Written, m), emitted, fromServer)
  BY <1>3, <1>4, <1>5, FaithfulBetween
<1>7. Emptied'  BY <1>1 DEF Emptied, mainVars
<1>8. emitted' = emitted /\ fromServer' = fromServer  BY <1>1 DEF serverVars
<1>9. Faithful(Written', emitted', fromServer')  BY <1>4, <1>6, <1>8
<1>10. QED  BY <1>0, <1>5, <1>7, <1>8, <1>9 DEF RelayInv

LEMMA DownReadRelays == ASSUME RelayInv, DownRead \/ DownFinish  PROVE RelayInv'
<1>0. SessionInv /\ SessionInv' /\ TypeOK /\ Open
  BY DownReadKeeps DEF RelayInv, SessionInv
<1>1. /\ down = "reading" /\ down' \in {"writing", "finishing"} /\ fromServer # <<>>
      /\ downMsg' = Head(fromServer) /\ fromServer' = Tail(fromServer)
      /\ down' = "finishing" => Len(fromServer) = 1
      /\ UNCHANGED <<serverVars, toClient, seen, mainVars>>
      /\ main \notin {"leaving", "gone"}
  BY DEF DownRead, DownFinish, Free
<1>2. /\ emitted \in Seq(ServerMessages) /\ fromServer \in Seq(ServerMessages)
      /\ Faithful(Written, emitted, fromServer)
  BY DEF RelayInv
<1>3. Head(fromServer) \in ServerMessages /\ Tail(fromServer) \in Seq(ServerMessages)
  BY <1>1, <1>2, InTail
<1>4. PICK m \in Messages : m = Head(fromServer)  BY <1>3 DEF Messages, ServerMessages
<1>5. FromServer(m)  BY <1>3, <1>4 DEF ServerMessages, FromServer
<1>6. Written \in Seq(Messages) /\ Written' = Append(Written, m)
  BY <1>0, <1>1, <1>4, WrittenMoves DEF Holds
<1>7. Faithful(Append(Written, m), emitted, Tail(fromServer))
  BY <1>1, <1>2, <1>4, <1>5, <1>6, FaithfulNext
<1>8. Emptied'
  <2>1. down' = "finishing" => fromServer' = <<>>
    BY <1>1, <1>2, HeadTailProperties, EmptySeq
  <2>2. QED  BY <1>1, <2>1 DEF Emptied, mainVars
<1>9. emitted' = emitted  BY <1>1 DEF serverVars
<1>10. Faithful(Written', emitted', fromServer')  BY <1>1, <1>6, <1>7, <1>9
<1>11. QED  BY <1>0, <1>1, <1>2, <1>3, <1>8, <1>9, <1>10 DEF RelayInv

LEMMA ServerWritesRelays == ASSUME RelayInv, ServerAnswers \/ ServerNotes  PROVE RelayInv'
<1>0. SessionInv /\ SessionInv' /\ TypeOK /\ Open
  BY ServerWritesKeeps DEF RelayInv, SessionInv
<1>1. \E m \in ServerMessages : Emit(m)
  <2>1. CASE ServerAnswers
    <3>1. PICK i \in work : Emit(<<"answer", i>>)  BY <2>1 DEF ServerAnswers
    <3>2. <<"answer", i>> \in ServerMessages  BY <1>0 DEF TypeOK, ServerMessages
    <3>3. QED  BY <3>1, <3>2
  <2>2. CASE ServerNotes
    <3> DEFINE notes == {k \in DOMAIN emitted : IsNote(emitted[k])}
    <3>1. Emit(<<"note", Cardinality(notes) + 1>>)  BY <2>2 DEF ServerNotes, Notes
    <3>2. Len(emitted) \in Nat /\ DOMAIN emitted = 1..Len(emitted)  BY <1>0 DEF TypeOK
    <3>3. IsFiniteSet(1..Len(emitted)) /\ notes \subseteq 1..Len(emitted)
      BY <3>2, FS_Interval
    <3>4. Cardinality(notes) \in Nat  BY <3>3, FS_Subset, FS_CardinalityType
    <3>5. Cardinality(notes) + 1 \in Nat  BY <3>4
    <3>6. <<"note", Cardinality(notes) + 1>> \in ServerMessages  BY <3>5 DEF ServerMessages
    <3>7. QED  BY <3>1, <3>6
  <2>3. QED  BY <2>1, <2>2
<1>2. PICK m \in ServerMessages : Emit(m)  BY <1>1
<1>3. /\ fromServer' = Append(fromServer, m) /\ emitted' = Append(emitted, m)
      /\ ~OutputOver
      /\ UNCHANGED <<down, downMsg, toClient, seen, main, cut>>
  BY <1>2 DEF Emit, OutputOver, downVars, mainVars
<1>4. /\ emitted \in Seq(ServerMessages) /\ fromServer \in Seq(ServerMessages)
      /\ Faithful(Written, emitted, fromServer)
  BY DEF RelayInv
<1>5. emitted' \in Seq(ServerMessages) /\ fromServer' \in Seq(ServerMessages)
  BY <1>3, <1>4, AppendProperties
<1>6. Written \in Seq(Messages) /\ Written' = Written  BY <1>0, <1>3, WrittenMoves
<1>7. Faithful(Written, emitted', fromServer')  BY <1>3, <1>4, <1>6, FaithfulMore
<1>8. Emptied'  BY <1>0, <1>3 DEF Emptied, RelayInv, Open, PumpIsOver
<1>9. Faithful(Written', emitted', fromServer')  BY <1>6, <1>7
<1>10. QED  BY <1>0, <1>5, <1>8, <1>9 DEF RelayInv

(* The steps that add nothing to what was written. *)
MovesOn ==
  /\ Written' = Written
  /\ UNCHANGED <<emitted, fromServer>>
  /\ Emptied'

LEMMA MovesOnRelays == ASSUME RelayInv, SessionInv', MovesOn  PROVE RelayInv'
<1>1. /\ emitted' \in Seq(ServerMessages) /\ fromServer' \in Seq(ServerMessages)
      /\ Faithful(Written', emitted', fromServer')
  BY StillFaithful DEF MovesOn
<1>2. QED  BY <1>1 DEF RelayInv, MovesOn

LEMMA OthersMoveOn ==
  ASSUME RelayInv, [Next]_vars, ~DownDenied, ~DownRead, ~DownFinish, ~ServerAnswers,
         ~ServerNotes
  PROVE  MovesOn
<1>0. TypeOK /\ Open /\ Emptied  BY DEF RelayInv, SessionInv
<1>1. CASE ClientReads
  <2>1. Written' = Written  BY <1>0, <1>1, WrittenMoves
  <2>2. UNCHANGED <<emitted, fromServer, down, main, cut>>
    BY <1>1 DEF ClientReads, serverVars, downVars, mainVars
  <2>3. Emptied'  BY <1>0, <2>2 DEF Emptied, PumpIsOver
  <2>4. QED  BY <2>1, <2>2, <2>3 DEF MovesOn
<1>2. CASE DownWrite
  <2>1. Written' = Written  BY <1>0, <1>2, WrittenMoves
  <2>2. /\ UNCHANGED <<emitted, fromServer, main, cut>> /\ ~PumpIsOver
        /\ (down' = "reading" \/ (down = "finishing" /\ down' = "ended"))
    BY <1>2 DEF DownWrite, PumpIsOver, serverVars, mainVars
  <2>3. Emptied'  BY <1>0, <2>2 DEF Emptied
  <2>4. QED  BY <2>1, <2>2, <2>3 DEF MovesOn
<1>3. CASE DownFails \/ DownBreaks
  <2>1. /\ UNCHANGED <<emitted, fromServer, main, cut, seen, toClient, downMsg>>
        /\ Holds(down) /\ Holds(down') /\ ~PumpIsOver /\ down' \in {"failed", "broken"}
    BY <1>3 DEF DownFails, DownBreaks, Writing, Holds, PumpIsOver, serverVars, mainVars
  <2>2. Written' = Written  BY <1>0, <2>1, WrittenMoves
  <2>3. Emptied'  BY <1>0, <2>1 DEF Emptied
  <2>4. QED  BY <2>1, <2>2, <2>3 DEF MovesOn
<1>4. CASE DownEof
  <2>1. /\ ~Holds(down) /\ ~Holds(down') /\ fromServer = <<>> /\ main \notin {"leaving", "gone"}
        /\ UNCHANGED <<emitted, fromServer, main, cut, seen, toClient>>
    BY <1>4 DEF DownEof, Free, Holds, serverVars, mainVars
  <2>2. Written' = Written  BY <1>0, <2>1, WrittenMoves
  <2>3. Emptied'  BY <2>1 DEF Emptied
  <2>4. QED  BY <2>1, <2>2, <2>3 DEF MovesOn
<1>5. CASE Main
  <2>1. UNCHANGED <<emitted, fromServer, down, downMsg, seen, toClient>>
    BY <1>5 DEF Main, ChildExited, SignalArrives, UpEnded, GraceEnds, Drained, Leave, serverVars,
                downVars
  <2>2. \/ main' \notin {"leaving", "gone"}
        \/ main = "leaving" /\ cut' = cut
        \/ cut' = ~PumpIsOver
    BY <1>5 DEF Main, ChildExited, SignalArrives, UpEnded, GraceEnds, Escalate, Drained, Leave
  <2>3. PumpIsOver' = PumpIsOver  BY <2>1 DEF PumpIsOver
  <2>4. Emptied'  BY <1>0, <2>1, <2>2, <2>3 DEF Emptied
  <2>5. Written' = Written  BY <1>0, <2>1, WrittenMoves
  <2>6. QED  BY <2>1, <2>4, <2>5 DEF MovesOn
<1>6. CASE \/ \E kind \in Kinds : ClientSends(kind)
           \/ ClientCloses \/ ClientSignals \/ ClientHangsUp \/ Upward \/ ServerReads
           \/ ServerExits \/ (\E end \in Ends : ServerShuts(end)) \/ UNCHANGED vars
  <2>1. UNCHANGED <<emitted, fromServer, down, downMsg, seen, toClient, main, cut>>
    BY <1>6 DEF ClientSends, ClientCloses, ClientSignals, ClientHangsUp, Upward, UpRead, UpEof,
                Allow, Deny, UpWrite, UpFails, ServerReads, ServerExits, ServerShuts, vars,
                serverVars, downVars, mainVars
  <2>2. Emptied'  BY <1>0, <2>1 DEF Emptied, PumpIsOver
  <2>3. Written' = Written  BY <1>0, <2>1, WrittenMoves
  <2>4. QED  BY <2>1, <2>2, <2>3 DEF MovesOn
<1>7. QED
  BY <1>1, <1>2, <1>3, <1>4, <1>5, <1>6 DEF Next, Client, Server, Downward

LEMMA StepRelay == RelayInv /\ [Next]_vars => RelayInv'
<1> SUFFICES ASSUME RelayInv, [Next]_vars  PROVE RelayInv'  OBVIOUS
<1>1. SessionInv'  BY StepSession DEF RelayInv
<1>2. QED
  BY <1>1, DownDeniedRelays, DownReadRelays, ServerWritesRelays, OthersMoveOn, MovesOnRelays

(* The client is given what the server wrote, in its order and once, with   *)
(* the block responses in between, and all of it unless the time to drain   *)
(* ran out or a write failed, for the client was gone: pump_down of         *)
(* stdio.rs and the end of session.rs.                                     *)
THEOREM PassedOnFaithfully == Spec => []DownwardIsFaithful
<1>1. Spec => []RelayInv  BY InitRelay, StepRelay, PTL DEF Spec
<1>2. QED  BY <1>1, RelayIsFaithful, PTL

-----------------------------------------------------------------------------
(* The journal.                                                            *)

USE JournalAssumption

EntryMsgs == {Entry(e) : e \in Entries}
Msgs == EntryMsgs \cup {OpenSession, Flush} \cup {UpdateSession(r) : r \in Nat}

JournalTypes ==
  /\ stage \in {"opening", "relaying", "flushing", "closing", "gone"}
  /\ blocked \in BOOLEAN
  /\ row \in Nat /\ sessionRow \in Nat /\ dropped \in Nat /\ failures \in Nat
  /\ sessionId \in {0, 1}
  /\ decisions \in Seq(Msgs) /\ volume \in Seq(EntryMsgs) /\ pending \in Seq(Entries)
  /\ logged \subseteq Entries /\ entries \subseteq Entries /\ unwritten \subseteq Entries
  /\ IsFiniteSet(logged)

(* The entries a channel carries. *)
Carry(channel) == {e \in Entries : Entry(e) \in ToSet(channel)}

Accounted == entries \cup unwritten \cup ToSet(pending) \cup Carry(decisions) \cup Carry(volume)

(* Nothing but what was logged is anywhere, and what is nowhere is counted. *)
Counted ==
  /\ \A e \in logged : e.n <= Cardinality(logged)
  /\ Accounted \subseteq logged
  /\ dropped = Cardinality(logged \ Accounted)

Lacks(seq, type) == \A i \in 1..Len(seq) : seq[i].type # type
FlushIsLast(seq) ==
  seq # <<>> /\ \A i \in 1..Len(seq) : seq[i].type = "flush" <=> i = Len(seq)

(* The session is opened before anything is logged, and its end is the last *)
(* thing the writer is told.                                               *)
Staged ==
  /\ stage = "opening" =>
       /\ decisions = <<OpenSession>> /\ row = 0 /\ sessionRow = 0
       /\ logged = {} /\ unwritten = {}
  /\ stage \in {"relaying", "flushing"} => Lacks(decisions, "session")
  /\ stage = "relaying" => Lacks(decisions, "flush")
  /\ stage = "flushing" => FlushIsLast(decisions)
  /\ stage = "closing" => decisions = <<>>
  /\ blocked => stage \in {"relaying", "gone"}

DecisionsArrive ==
  \A e \in logged : e.decision => e \in entries \cup unwritten \cup Carry(decisions)

(* The last version of the row in the channel is that of the session; the   *)
(* one in the table is, if the channel has none.                           *)
LatestIs(seq, stored, version) ==
  /\ Lacks(seq, "update") => stored = version
  /\ \A i \in 1..Len(seq) :
       seq[i].type = "update" /\ (\A j \in 1..Len(seq) : j > i => seq[j].type # "update")
         => seq[i].row = version

(* While no write has failed. *)
Intact ==
  stage \in {"relaying", "flushing", "closing"} /\ failures = 0 =>
    /\ sessionId = 1 /\ unwritten = {}
    /\ LatestIs(decisions, sessionRow, row)

JournalInv == JournalTypes /\ Counted /\ Staged /\ DecisionsArrive /\ Intact

LEMMA MsgKinds ==
  /\ \A m \in Msgs : /\ m.type \in {"entry", "session", "flush", "update"}
                     /\ m.type = "entry" => m.entry \in Entries /\ m = Entry(m.entry)
                     /\ m.type = "update" => m.row \in Nat
                     /\ m.type # "entry" => \A e \in Entries : m # Entry(e)
  /\ \A e \in Entries : Entry(e) \in Msgs /\ Entry(e) \in EntryMsgs /\ Entry(e).type = "entry"
                        /\ Entry(e).entry = e
  /\ \A r \in Nat : UpdateSession(r) \in Msgs /\ UpdateSession(r).type = "update"
                    /\ UpdateSession(r).row = r
  /\ OpenSession \in Msgs /\ OpenSession.type = "session"
  /\ Flush \in Msgs /\ Flush.type = "flush"
<1>1. \A e \in Entries : Entry(e).type = "entry" /\ Entry(e).entry = e  BY DEF Entry
<1>2. \A r \in Nat : UpdateSession(r).type = "update" /\ UpdateSession(r).row = r
  BY DEF UpdateSession
<1>3. OpenSession.type = "session" /\ Flush.type = "flush"  BY DEF OpenSession, Flush
<1>4. ASSUME NEW m \in Msgs
      PROVE  \/ \E e \in Entries : m = Entry(e)
             \/ \E r \in Nat : m = UpdateSession(r)
             \/ m \in {OpenSession, Flush}
  BY <1>4 DEF Msgs, EntryMsgs
<1>5. ASSUME NEW m \in Msgs
      PROVE  /\ m.type \in {"entry", "session", "flush", "update"}
             /\ m.type = "entry" => m.entry \in Entries /\ m = Entry(m.entry)
             /\ m.type = "update" => m.row \in Nat
             /\ m.type # "entry" => \A e \in Entries : m # Entry(e)
  <2>1. CASE \E e \in Entries : m = Entry(e)
    <3>1. PICK e \in Entries : m = Entry(e)  BY <2>1
    <3>2. QED  BY <1>1, <3>1
  <2>2. CASE \E r \in Nat : m = UpdateSession(r)
    <3>1. PICK r \in Nat : m = UpdateSession(r)  BY <2>2
    <3>2. QED  BY <1>1, <1>2, <3>1
  <2>3. CASE m \in {OpenSession, Flush}
    <3>1. m.type \in {"session", "flush"}  BY <1>3, <2>3
    <3>2. QED  BY <1>1, <3>1
  <2>4. QED  BY <1>4, <2>1, <2>2, <2>3
<1>6. \A e \in Entries : Entry(e) \in EntryMsgs  BY DEF EntryMsgs
<1>7. /\ EntryMsgs \subseteq Msgs /\ OpenSession \in Msgs /\ Flush \in Msgs
      /\ \A r \in Nat : UpdateSession(r) \in Msgs
  BY DEF Msgs
<1>8. QED  BY <1>1, <1>2, <1>3, <1>5, <1>6, <1>7

LEMMA VolumeIsMsgs == Seq(EntryMsgs) \subseteq Seq(Msgs)
BY DEF Msgs

(* The sum of the parts. *)
LEMMA MissingIs ==
  ASSUME NEW d \in Seq(Msgs), NEW v \in Seq(EntryMsgs)
  PROVE  {m.entry : m \in {x \in ToSet(d \o v) : x.type = "entry"}} = Carry(d) \cup Carry(v)
<1> DEFINE both == ToSet(d) \cup ToSet(v)
<1>1. ToSet(d \o v) = both  BY InJoined, VolumeIsMsgs
<1>2. both \subseteq Msgs
  <2>1. v \in Seq(Msgs)  BY VolumeIsMsgs
  <2>2. ToSet(d) \subseteq Msgs /\ ToSet(v) \subseteq Msgs  BY <2>1 DEF ToSet
  <2>3. QED  BY <2>2
<1> HIDE DEF both
<1>3. {m.entry : m \in {x \in both : x.type = "entry"}} = {e \in Entries : Entry(e) \in both}
  <2>1. ASSUME NEW m \in both, m.type = "entry"
        PROVE  m.entry \in Entries /\ Entry(m.entry) \in both
    BY <1>2, <2>1, MsgKinds
  <2>2. ASSUME NEW e \in Entries, Entry(e) \in both
        PROVE  \E m \in both : m.type = "entry" /\ m.entry = e
    BY <2>2, MsgKinds
  <2>3. QED  BY <2>1, <2>2
<1>4. {e \in Entries : Entry(e) \in both} = Carry(d) \cup Carry(v)  BY DEF Carry, both
<1>5. QED  BY <1>1, <1>3, <1>4

LEMMA CarryAppended ==
  ASSUME NEW d \in Seq(Msgs), NEW m \in Msgs
  PROVE  /\ Append(d, m) \in Seq(Msgs)
         /\ m.type # "entry" => Carry(Append(d, m)) = Carry(d)
         /\ \A e \in Entries : m = Entry(e) => Carry(Append(d, m)) = Carry(d) \cup {e}
<1>1. Append(d, m) \in Seq(Msgs) /\ ToSet(Append(d, m)) = ToSet(d) \cup {m}
  BY InAppended
<1>2. m.type # "entry" => Carry(Append(d, m)) = Carry(d)
  BY <1>1, MsgKinds DEF Carry
<1>3. ASSUME NEW e \in Entries, m = Entry(e)  PROVE Carry(Append(d, m)) = Carry(d) \cup {e}
  <2>1. \A x \in Entries : Entry(x) = Entry(e) => x = e  BY MsgKinds
  <2>2. QED  BY <1>1, <1>3, <2>1 DEF Carry
<1>4. QED  BY <1>1, <1>2, <1>3

LEMMA CarryTaken ==
  ASSUME NEW d \in Seq(Msgs), d # <<>>
  PROVE  /\ Head(d) \in Msgs /\ Tail(d) \in Seq(Msgs)
         /\ Head(d).type # "entry" => Carry(Tail(d)) = Carry(d)
         /\ \A e \in Entries : Head(d) = Entry(e) => Carry(d) = Carry(Tail(d)) \cup {e}
<1>1. Head(d) \in Msgs /\ Tail(d) \in Seq(Msgs) /\ ToSet(d) = {Head(d)} \cup ToSet(Tail(d))
  BY InTail
<1>2. Head(d).type # "entry" => Carry(Tail(d)) = Carry(d)
  BY <1>1, MsgKinds DEF Carry
<1>3. ASSUME NEW e \in Entries, Head(d) = Entry(e)  PROVE Carry(d) = Carry(Tail(d)) \cup {e}
  <2>1. \A x \in Entries : Entry(x) = Entry(e) => x = e  BY MsgKinds
  <2>2. QED  BY <1>1, <1>3, <2>1 DEF Carry
<1>4. QED  BY <1>1, <1>2, <1>3

LEMMA LacksMoves ==
  ASSUME NEW d \in Seq(Msgs), NEW t
  PROVE  /\ \A m \in Msgs : Lacks(d, t) /\ m.type # t => Lacks(Append(d, m), t)
         /\ d # <<>> /\ Lacks(d, t) => Lacks(Tail(d), t) /\ Head(d).type # t
<1>1. ASSUME NEW m \in Msgs, Lacks(d, t), m.type # t  PROVE Lacks(Append(d, m), t)
  <2>1. /\ Len(Append(d, m)) = Len(d) + 1 /\ Append(d, m)[Len(d) + 1] = m /\ Len(d) \in Nat
        /\ \A i \in 1..Len(d) : Append(d, m)[i] = d[i]
    BY AppendProperties
  <2>2. QED  BY <1>1, <2>1 DEF Lacks
<1>2. ASSUME d # <<>>, Lacks(d, t)  PROVE Lacks(Tail(d), t) /\ Head(d).type # t
  <2>1. /\ Len(Tail(d)) = Len(d) - 1 /\ Head(d) = d[1] /\ Len(d) \in Nat /\ Len(d) >= 1
        /\ \A i \in 1..Len(Tail(d)) : Tail(d)[i] = d[i + 1]
    BY <1>2, HeadTailProperties, EmptySeq
  <2>2. QED  BY <1>2, <2>1 DEF Lacks
<1>3. QED  BY <1>1, <1>2

LEMMA FlushMoves ==
  ASSUME NEW d \in Seq(Msgs)
  PROVE  /\ Lacks(d, "flush") => FlushIsLast(Append(d, Flush))
         /\ FlushIsLast(d) => IF Head(d).type = "flush" THEN Tail(d) = <<>>
                              ELSE FlushIsLast(Tail(d))
<1>1. ASSUME Lacks(d, "flush")  PROVE FlushIsLast(Append(d, Flush))
  <2> DEFINE more == Append(d, Flush)
  <2>1. /\ Len(more) = Len(d) + 1 /\ more[Len(d) + 1] = Flush /\ Len(d) \in Nat
        /\ \A i \in 1..Len(d) : more[i] = d[i]
    BY MsgKinds, AppendProperties
  <2>2. more # <<>>  OBVIOUS
  <2> HIDE DEF more
  <2>3. ASSUME NEW i \in 1..Len(more)  PROVE more[i].type = "flush" <=> i = Len(more)
    <3>1. CASE i = Len(more)
      <4>1. more[i] = Flush  BY <2>1, <3>1
      <4>2. QED  BY <3>1, <4>1, MsgKinds
    <3>2. CASE i # Len(more)
      <4>1. i \in 1..Len(d) /\ more[i] = d[i]  BY <2>1, <3>2
      <4>2. QED  BY <1>1, <3>2, <4>1 DEF Lacks
    <3>3. QED  BY <3>1, <3>2
  <2>4. FlushIsLast(more)  BY <2>2, <2>3 DEF FlushIsLast
  <2>5. QED  BY <2>4 DEF more
<1>2. ASSUME FlushIsLast(d)
      PROVE  IF Head(d).type = "flush" THEN Tail(d) = <<>> ELSE FlushIsLast(Tail(d))
  <2> DEFINE rest == Tail(d)
  <2>1. /\ Len(rest) = Len(d) - 1 /\ Head(d) = d[1] /\ Len(d) \in Nat /\ Len(d) >= 1
        /\ \A i \in 1..Len(rest) : rest[i] = d[i + 1]
        /\ rest \in Seq(Msgs)
    BY <1>2, HeadTailProperties, EmptySeq DEF FlushIsLast
  <2> HIDE DEF rest
  <2>2. Head(d).type = "flush" <=> Len(d) = 1  BY <1>2, <2>1 DEF FlushIsLast
  <2>3. CASE Len(d) = 1
    <3>1. Len(rest) = 0  BY <2>1, <2>3
    <3>2. rest = <<>>  BY <2>1, <3>1, EmptySeq
    <3>3. QED  BY <2>2, <2>3, <3>2 DEF rest
  <2>4. CASE Len(d) # 1
    <3>1. ASSUME NEW i \in 1..Len(rest)  PROVE rest[i].type = "flush" <=> i = Len(rest)
      <4>0. i \in 1..(Len(d) - 1)  BY <2>1
      <4>1. i + 1 \in 1..Len(d) /\ rest[i] = d[i + 1]  BY <2>1, <4>0
      <4>2. rest[i].type = "flush" <=> i + 1 = Len(d)  BY <1>2, <4>1 DEF FlushIsLast
      <4>3. QED  BY <2>1, <4>2
    <3>2. rest # <<>>  BY <2>1, <2>4
    <3>3. FlushIsLast(rest)  BY <3>1, <3>2 DEF FlushIsLast
    <3>4. QED  BY <2>2, <2>4, <3>3 DEF rest
  <2>5. QED  BY <2>3, <2>4
<1>3. QED  BY <1>1, <1>2

LEMMA LatestMoves ==
  ASSUME NEW d \in Seq(Msgs), NEW s \in Nat, NEW v \in Nat
  PROVE  /\ \A m \in Msgs : LatestIs(d, s, v) /\ m.type # "update" => LatestIs(Append(d, m), s, v)
         /\ LatestIs(Append(d, UpdateSession(v)), s, v)
         /\ d # <<>> /\ LatestIs(d, s, v)
              => LatestIs(Tail(d), IF Head(d).type = "update" THEN Head(d).row ELSE s, v)
<1>1. ASSUME NEW m \in Msgs
      PROVE  /\ Len(Append(d, m)) = Len(d) + 1 /\ Append(d, m)[Len(d) + 1] = m /\ Len(d) \in Nat
             /\ \A i \in 1..Len(d) : Append(d, m)[i] = d[i]
  BY AppendProperties
<1>2. ASSUME NEW m \in Msgs, LatestIs(d, s, v), m.type # "update"
      PROVE  LatestIs(Append(d, m), s, v)
  <2> DEFINE more == Append(d, m)
  <2>0. /\ Len(more) = Len(d) + 1 /\ more[Len(d) + 1] = m /\ Len(d) \in Nat
        /\ \A i \in 1..Len(d) : more[i] = d[i]
    BY <1>1
  <2> HIDE DEF more
  <2>1. Lacks(more, "update") => Lacks(d, "update")  BY <2>0 DEF Lacks
  <2>2. ASSUME NEW i \in 1..Len(more), more[i].type = "update",
               \A j \in 1..Len(more) : j > i => more[j].type # "update"
        PROVE  more[i].row = v
    <3>0. i # Len(d) + 1  BY <1>2, <2>0, <2>2
    <3>1. i \in 1..Len(d) /\ more[i] = d[i]  BY <2>0, <3>0
    <3>2. \A j \in 1..Len(d) : j > i => d[j].type # "update"  BY <2>0, <2>2
    <3>3. QED  BY <1>2, <2>2, <3>1, <3>2 DEF LatestIs
  <2>3. LatestIs(more, s, v)  BY <1>2, <2>1, <2>2 DEF LatestIs
  <2>4. QED  BY <2>3 DEF more
<1>3. LatestIs(Append(d, UpdateSession(v)), s, v)
  <2> DEFINE more == Append(d, UpdateSession(v))
  <2>0. /\ Len(more) = Len(d) + 1 /\ more[Len(d) + 1] = UpdateSession(v) /\ Len(d) \in Nat
    BY <1>1, MsgKinds
  <2> HIDE DEF more
  <2>1. Len(d) + 1 \in 1..Len(more) /\ more[Len(d) + 1].type = "update"
        /\ more[Len(d) + 1].row = v
    BY <2>0, MsgKinds
  <2>2. ~Lacks(more, "update")  BY <2>1 DEF Lacks
  <2>3. ASSUME NEW i \in 1..Len(more),
               \A j \in 1..Len(more) : j > i => more[j].type # "update"
        PROVE  more[i].row = v
    <3>1. i = Len(d) + 1  BY <2>0, <2>1, <2>3
    <3>2. QED  BY <2>1, <3>1
  <2>4. LatestIs(more, s, v)  BY <2>2, <2>3 DEF LatestIs
  <2>5. QED  BY <2>4 DEF more
<1>4. ASSUME d # <<>>, LatestIs(d, s, v)
      PROVE  LatestIs(Tail(d), IF Head(d).type = "update" THEN Head(d).row ELSE s, v)
  <2> DEFINE rest == Tail(d)
             now  == IF Head(d).type = "update" THEN Head(d).row ELSE s
  <2>1. /\ Len(rest) = Len(d) - 1 /\ Head(d) = d[1] /\ Len(d) \in Nat /\ Len(d) >= 1
        /\ \A i \in 1..Len(rest) : rest[i] = d[i + 1]
    BY <1>4, HeadTailProperties, EmptySeq
  <2> HIDE DEF rest
  <2>2. ASSUME Lacks(rest, "update")  PROVE now = v
    <3>1. ASSUME NEW j \in 1..Len(d), j > 1  PROVE d[j].type # "update"
      <4>1. j - 1 \in 1..Len(rest) /\ rest[j - 1] = d[j]  BY <2>1, <3>1
      <4>2. QED  BY <2>2, <4>1 DEF Lacks
    <3>2. CASE Head(d).type = "update"
      <4>1. 1 \in 1..Len(d)  BY <2>1
      <4>2. d[1].row = v  BY <1>4, <2>1, <3>1, <3>2, <4>1 DEF LatestIs
      <4>3. QED  BY <2>1, <3>2, <4>2
    <3>3. CASE Head(d).type # "update"
      <4>1. Lacks(d, "update")  BY <2>1, <3>1, <3>3 DEF Lacks
      <4>2. QED  BY <1>4, <3>3, <4>1 DEF LatestIs
    <3>4. QED  BY <3>2, <3>3
  <2>3. ASSUME NEW i \in 1..Len(rest), rest[i].type = "update",
               \A j \in 1..Len(rest) : j > i => rest[j].type # "update"
        PROVE  rest[i].row = v
    <3>1. i + 1 \in 1..Len(d) /\ d[i + 1] = rest[i]  BY <2>1
    <3>2. ASSUME NEW j \in 1..Len(d), j > i + 1  PROVE d[j].type # "update"
      <4>1. j - 1 \in 1..Len(rest) /\ rest[j - 1] = d[j] /\ j - 1 > i  BY <2>1, <3>2
      <4>2. QED  BY <2>3, <4>1
    <3>3. QED  BY <1>4, <2>3, <3>1, <3>2 DEF LatestIs
  <2>4. LatestIs(rest, now, v)  BY <2>2, <2>3 DEF LatestIs
  <2>5. QED  BY <2>4 DEF rest
<1>5. QED  BY <1>2, <1>3, <1>4

(* An empty channel, and one that holds only the opening of the session.    *)
LEMMA NothingCarried ==
  /\ Carry(<<>>) = {} /\ Carry(<<OpenSession>>) = {}
  /\ <<>> \in Seq(Msgs) /\ <<OpenSession>> \in Seq(Msgs)
<1>1. ToSet(<<>>) = {} /\ ToSet(<<OpenSession>>) = {OpenSession}  BY DEF ToSet
<1>2. QED  BY <1>1, MsgKinds DEF Carry

LEMMA NothingInIt ==
  /\ ToSet(<<>>) = {}
  /\ \A type : Lacks(<<>>, type)
  /\ \A stored, version : LatestIs(<<>>, stored, version) <=> stored = version
<1>1. 1..Len(<<>>) = {}  OBVIOUS
<1>2. QED  BY <1>1 DEF ToSet, Lacks, LatestIs

-----------------------------------------------------------------------------
LEMMA InitJournal == JournalInit => JournalInv
<1> SUFFICES ASSUME JournalInit  PROVE JournalInv
  OBVIOUS
<1> USE DEF JournalInit
<1>1. JournalTypes
  <2>1. <<>> \in Seq(EntryMsgs) /\ <<>> \in Seq(Entries) /\ IsFiniteSet({})  BY FS_EmptySet
  <2>2. QED  BY <2>1, NothingCarried DEF JournalTypes
<1>2. Accounted = {}  BY NothingCarried, NothingInIt DEF Accounted
<1>3. Counted  BY <1>2, FS_EmptySet DEF Counted
<1>4. Staged /\ DecisionsArrive /\ Intact  BY DEF Staged, DecisionsArrive, Intact
<1>5. QED  BY <1>1, <1>3, <1>4 DEF JournalInv

(* The entry of a frame, which was not logged before.                       *)
LEMMA NextIsNew ==
  ASSUME JournalTypes, Counted, NEW b \in BOOLEAN, Cardinality(logged) < MaxEntries
  PROVE  /\ NextEntry(b) \in Entries \ logged
         /\ NextEntry(b).decision = b
         /\ NextEntry(b).n = Cardinality(logged) + 1
         /\ Cardinality(logged) \in Nat
         /\ Cardinality(logged \cup {NextEntry(b)}) = Cardinality(logged) + 1
         /\ IsFiniteSet(logged \cup {NextEntry(b)})
<1>1. Cardinality(logged) \in Nat  BY FS_CardinalityType DEF JournalTypes
<1>2. /\ NextEntry(b) \in Entries
      /\ NextEntry(b).decision = b /\ NextEntry(b).n = Cardinality(logged) + 1
  BY <1>1 DEF NextEntry, Entries, JournalAssumption
<1>3. NextEntry(b) \notin logged
  <2>1. ~(Cardinality(logged) + 1 <= Cardinality(logged))  BY <1>1
  <2>2. QED  BY <1>2, <2>1 DEF Counted
<1> DEFINE e == NextEntry(b)
<1> HIDE DEF e
<1>4. /\ IsFiniteSet(logged \cup {e})
      /\ e \notin logged => Cardinality(logged \cup {e}) = Cardinality(logged) + 1
  BY FS_AddElement DEF JournalTypes
<1>5. QED  BY <1>1, <1>2, <1>3, <1>4 DEF e

LEMMA FrameKeeps ==
  ASSUME JournalInv, NEW b \in BOOLEAN, NEW learns \in BOOLEAN,
         stage = "relaying", OnFrame(b, learns),
         UNCHANGED <<stage, pending, sessionId, tables>>, blocked' \in BOOLEAN
  PROVE  JournalInv'
<1> DEFINE e == NextEntry(b)
           before == IF learns THEN Append(decisions, UpdateSession(row + 1)) ELSE decisions
<1>0. /\ JournalTypes /\ Counted /\ Staged /\ DecisionsArrive /\ Intact
      /\ decisions \in Seq(Msgs) /\ volume \in Seq(EntryMsgs) /\ row \in Nat
      /\ sessionRow \in Nat /\ dropped \in Nat
  BY DEF JournalInv, JournalTypes
<1>1. /\ row' = IF learns THEN row + 1 ELSE row
      /\ logged' = logged \cup {e} /\ Log(e, before)
      /\ Cardinality(logged) < MaxEntries
  BY DEF OnFrame
<1>u. /\ stage' = stage /\ pending' = pending /\ sessionId' = sessionId
      /\ entries' = entries /\ sessionRow' = sessionRow /\ unwritten' = unwritten
      /\ failures' = failures
  BY DEF tables
<1>2. /\ e \in Entries \ logged /\ e.decision = b
      /\ e.n = Cardinality(logged) + 1 /\ Cardinality(logged) \in Nat
      /\ Cardinality(logged \cup {e}) = Cardinality(logged) + 1
      /\ IsFiniteSet(logged \cup {e})
  BY <1>0, <1>1, NextIsNew
<1>3. /\ before \in Seq(Msgs) /\ Carry(before) = Carry(decisions)
      /\ Lacks(before, "session") /\ Lacks(before, "flush")
      /\ LatestIs(decisions, sessionRow, row) => LatestIs(before, sessionRow, row')
  <2>1. Lacks(decisions, "session") /\ Lacks(decisions, "flush")  BY <1>0 DEF Staged
  <2>2. CASE ~learns  BY <1>0, <1>1, <2>1, <2>2
  <2>3. CASE learns
    <3> DEFINE m == UpdateSession(row + 1)
    <3>1. m \in Msgs /\ m.type = "update"  BY <1>0, MsgKinds
    <3>2. LatestIs(Append(decisions, m), sessionRow, row + 1)  BY <1>0, LatestMoves
    <3> HIDE DEF m
    <3>3. Append(decisions, m) \in Seq(Msgs) /\ Carry(Append(decisions, m)) = Carry(decisions)
      BY <1>0, <3>1, CarryAppended
    <3>4. Lacks(Append(decisions, m), "session") /\ Lacks(Append(decisions, m), "flush")
      BY <1>0, <2>1, <3>1, LacksMoves
    <3>5. before = Append(decisions, m) /\ row' = row + 1  BY <1>1, <2>3 DEF m
    <3>6. QED  BY <3>2, <3>3, <3>4, <3>5 DEF m
  <2>4. QED  BY <2>2, <2>3
<1>4. row' \in Nat  BY <1>0, <1>1
<1> HIDE DEF e, before
<1>5. Entry(e) \in Msgs /\ Entry(e) \in EntryMsgs /\ Entry(e).type = "entry"
  BY <1>2, MsgKinds
<1>6. /\ decisions' = IF b THEN Append(before, Entry(e)) ELSE before
      /\ volume' = volume \/ volume' = Append(volume, Entry(e))
      /\ \/ ~b /\ volume' = volume /\ dropped' = dropped + 1
         \/ b /\ volume' = volume /\ dropped' = dropped
         \/ ~b /\ volume' = Append(volume, Entry(e)) /\ dropped' = dropped
  BY <1>1, <1>2 DEF Log
<1>7. /\ decisions' \in Seq(Msgs)
      /\ Carry(decisions') = IF b THEN Carry(decisions) \cup {e} ELSE Carry(decisions)
      /\ Lacks(decisions', "session") /\ Lacks(decisions', "flush")
      /\ LatestIs(decisions, sessionRow, row) => LatestIs(decisions', sessionRow, row')
  <2>1. CASE ~b  BY <1>3, <1>6, <2>1
  <2>2. CASE b
    <3>1. decisions' = Append(before, Entry(e))  BY <1>6, <2>2
    <3>2. Append(before, Entry(e)) \in Seq(Msgs)
          /\ Carry(Append(before, Entry(e))) = Carry(before) \cup {e}
      BY <1>2, <1>3, <1>5, CarryAppended
    <3>3. Lacks(Append(before, Entry(e)), "session") /\ Lacks(Append(before, Entry(e)), "flush")
      BY <1>3, <1>5, LacksMoves
    <3>4. LatestIs(before, sessionRow, row') => LatestIs(Append(before, Entry(e)), sessionRow, row')
      BY <1>0, <1>3, <1>4, <1>5, LatestMoves
    <3>5. QED  BY <1>3, <2>2, <3>1, <3>2, <3>3, <3>4
  <2>3. QED  BY <2>1, <2>2
<1>8. /\ volume' \in Seq(EntryMsgs)
      /\ Carry(volume') = IF volume' = volume THEN Carry(volume) ELSE Carry(volume) \cup {e}
  <2>1. CASE volume' = volume  BY <1>0, <2>1
  <2>2. CASE volume' = Append(volume, Entry(e)) /\ volume' # volume
    <3>1. volume \in Seq(Msgs)  BY <1>0, VolumeIsMsgs
    <3>2. Carry(Append(volume, Entry(e))) = Carry(volume) \cup {e}
      BY <1>2, <1>5, <3>1, CarryAppended
    <3>3. Append(volume, Entry(e)) \in Seq(EntryMsgs)  BY <1>0, <1>5, InAppended
    <3>4. QED  BY <2>2, <3>2, <3>3
  <2>3. QED  BY <1>6, <2>1, <2>2
<1>9. Append(volume, Entry(e)) # volume
  <2>1. Len(Append(volume, Entry(e))) = Len(volume) + 1 /\ Len(volume) \in Nat
    BY <1>0, <1>5, AppendProperties
  <2>2. QED  BY <2>1
<1>10. JournalTypes'
  <2>1. dropped' \in Nat  BY <1>0, <1>6
  <2>2. logged' \subseteq Entries /\ IsFiniteSet(logged')
    BY <1>0, <1>1, <1>2 DEF JournalTypes
  <2>3. QED  BY <1>0, <1>u, <1>4, <1>7, <1>8, <2>1, <2>2 DEF JournalTypes
<1>11. Counted'
  <2>1. \A x \in logged' : x.n <= Cardinality(logged')
    BY <1>0, <1>1, <1>2 DEF Counted, JournalTypes, Entries
  <2>2. CASE volume' = volume /\ ~b
    <3>1. Accounted' = Accounted  BY <1>u, <1>7, <1>8, <2>2 DEF Accounted
    <3>2. e \notin Accounted  BY <1>0, <1>2 DEF Counted
    <3>3. logged' \ Accounted = (logged \ Accounted) \cup {e}  BY <1>1, <3>2
    <3> DEFINE lost == logged \ Accounted
    <3>4. IsFiniteSet(lost)  BY <1>0, FS_Subset DEF JournalTypes
    <3>5. e \notin lost  BY <1>2
    <3>6. Cardinality(lost) = dropped  BY <1>0 DEF Counted
    <3> HIDE DEF lost
    <3>7. Cardinality(lost \cup {e}) = Cardinality(lost) + 1  BY <3>4, <3>5, FS_AddElement
    <3>8. dropped' = dropped + 1  BY <1>6, <1>9, <2>2
    <3>9. dropped' = Cardinality(logged' \ Accounted')
      BY <3>1, <3>3, <3>6, <3>7, <3>8 DEF lost
    <3>10. Accounted' \subseteq logged'  BY <1>0, <1>1, <3>1 DEF Counted
    <3>11. QED  BY <2>1, <3>9, <3>10 DEF Counted
  <2>3. CASE volume' # volume \/ b
    <3>1. Accounted' = Accounted \cup {e}
      BY <1>u, <1>6, <1>7, <1>8, <2>3 DEF Accounted
    <3>2. logged' \ Accounted' = logged \ Accounted  BY <1>1, <1>2, <3>1
    <3>3. dropped' = dropped  BY <1>6, <2>3
    <3>4. Accounted' \subseteq logged'  BY <1>0, <1>1, <3>1 DEF Counted
    <3>5. QED  BY <1>0, <2>1, <3>2, <3>3, <3>4 DEF Counted
  <2>4. QED  BY <2>2, <2>3
<1>12. Staged'  BY <1>u, <1>7 DEF Staged
<1>13. DecisionsArrive'
  <2>1. e.decision => e \in Carry(decisions')  BY <1>2, <1>7
  <2>2. Carry(decisions) \subseteq Carry(decisions')  BY <1>7
  <2>3. QED  BY <1>0, <1>1, <1>u, <2>1, <2>2 DEF DecisionsArrive
<1>14. Intact'  BY <1>0, <1>u, <1>7 DEF Intact
<1>15. QED  BY <1>10, <1>11, <1>12, <1>13, <1>14 DEF JournalInv

(* What changes nothing of the entries.                                     *)
LEMMA StageKeeps ==
  ASSUME JournalInv,
         UNCHANGED <<row, logged, volume, dropped, pending, sessionId, tables>>,
         \/ AwaitVerdict \/ EndSession \/ GraceOver \/ Kill
  PROVE  JournalInv'
<1>0. /\ JournalTypes /\ Counted /\ Staged /\ DecisionsArrive /\ Intact
      /\ decisions \in Seq(Msgs) /\ sessionRow \in Nat /\ row \in Nat
  BY DEF JournalInv, JournalTypes
<1>u. /\ row' = row /\ logged' = logged /\ volume' = volume /\ dropped' = dropped
      /\ pending' = pending /\ sessionId' = sessionId
      /\ entries' = entries /\ sessionRow' = sessionRow /\ unwritten' = unwritten
      /\ failures' = failures
  BY DEF tables
<1>1. /\ decisions' \in Seq(Msgs) /\ Carry(decisions') = Carry(decisions)
      /\ LatestIs(decisions, sessionRow, row) => LatestIs(decisions', sessionRow, row)
      /\ decisions' = decisions \/ (EndSession /\ decisions' = Append(decisions, Flush))
  <2>1. CASE decisions' = decisions  BY <1>0, <2>1
  <2>2. CASE EndSession /\ decisions' = Append(decisions, Flush)
    <3>1. Append(decisions, Flush) \in Seq(Msgs) /\ Carry(Append(decisions, Flush)) = Carry(decisions)
      BY <1>0, MsgKinds, CarryAppended
    <3>2. LatestIs(decisions, sessionRow, row) => LatestIs(Append(decisions, Flush), sessionRow, row)
      BY <1>0, MsgKinds, LatestMoves
    <3>3. QED  BY <2>2, <3>1, <3>2
  <2>3. QED  BY <2>1, <2>2 DEF AwaitVerdict, EndSession, GraceOver, Kill
<1>2. /\ stage' \in {"opening", "relaying", "flushing", "closing", "gone"}
      /\ blocked' \in BOOLEAN
  BY <1>0 DEF AwaitVerdict, EndSession, GraceOver, Kill, JournalTypes
<1>3. JournalTypes'  BY <1>0, <1>u, <1>1, <1>2 DEF JournalTypes
<1>4. Accounted' = Accounted  BY <1>u, <1>1 DEF Accounted
<1>5. Counted'  BY <1>0, <1>u, <1>4 DEF Counted
<1>6. Staged'
  <2>1. CASE AwaitVerdict  BY <1>0, <1>u, <2>1 DEF AwaitVerdict, Staged
  <2>2. CASE EndSession
    <3>1. /\ stage' = "flushing" /\ blocked' = FALSE /\ stage = "relaying"
          /\ decisions' = Append(decisions, Flush)
      BY <1>0, <2>2 DEF EndSession, JournalTypes
    <3>2. Lacks(decisions, "session") /\ Lacks(decisions, "flush")
      BY <1>0, <3>1 DEF Staged
    <3>3. FlushIsLast(Append(decisions, Flush))  BY <1>0, <3>2, FlushMoves
    <3>4. Lacks(Append(decisions, Flush), "session")  BY <1>0, <3>2, MsgKinds, LacksMoves
    <3>5. QED  BY <3>1, <3>3, <3>4 DEF Staged
  <2>3. CASE GraceOver \/ Kill  BY <1>0, <1>u, <2>3 DEF GraceOver, Kill, Staged
  <2>4. QED  BY <2>1, <2>2, <2>3
<1>7. DecisionsArrive'  BY <1>0, <1>u, <1>1 DEF DecisionsArrive
<1>8. Intact'
  <2>1. \/ stage' = "gone" \/ stage' = stage
        \/ stage' = "flushing" /\ stage = "relaying"
    BY DEF AwaitVerdict, EndSession, GraceOver, Kill
  <2>2. QED  BY <1>0, <1>u, <1>1, <2>1 DEF Intact
<1>9. QED  BY <1>3, <1>5, <1>6, <1>7, <1>8 DEF JournalInv

-----------------------------------------------------------------------------
(* A transaction takes what there is of a batch to the table, or to what    *)
(* was not written.                                                        *)
LEMMA FlushKeeps ==
  ASSUME JournalTypes, NEW batch \in Seq(Entries), NEW outcome, FlushPending(batch, outcome)
  PROVE  /\ entries' \subseteq Entries /\ unwritten' \subseteq Entries
         /\ entries' \cup unwritten' = entries \cup unwritten \cup ToSet(batch)
         /\ Failed(batch, outcome) \in {0, 1}
         /\ sessionId = 1 /\ Failed(batch, outcome) = 0 => unwritten' = unwritten
<1>1. ToSet(batch) \subseteq Entries  BY DEF ToSet
<1>2. /\ entries' \subseteq Entries /\ unwritten' \subseteq Entries
      /\ entries' \cup unwritten' = entries \cup unwritten \cup ToSet(batch)
  BY <1>1 DEF FlushPending, JournalTypes
<1>3. Failed(batch, outcome) \in {0, 1}  BY DEF Failed
<1>4. ASSUME sessionId = 1, Failed(batch, outcome) = 0  PROVE unwritten' = unwritten
  <2>1. CASE batch = <<>>
    <3>1. ToSet(batch) = {}  BY <2>1, NothingInIt
    <3>2. QED  BY <3>1 DEF FlushPending
  <2>2. CASE batch # <<>>
    <3>1. outcome # "failed"  BY <1>4, <2>2 DEF Failed
    <3>2. QED  BY <1>4, <3>1 DEF FlushPending
  <2>3. QED  BY <2>1, <2>2
<1>5. QED  BY <1>2, <1>3, <1>4

(* Whatever moves nothing out of the account.                               *)
LEMMA AccountKept ==
  ASSUME JournalInv, UNCHANGED <<logged, dropped>>, Accounted' = Accounted
  PROVE  Counted'
BY DEF JournalInv, Counted

(* A decision is taken from its channel, with the batch that waits.         *)
LEMMA DecisionTaken ==
  ASSUME JournalInv, TakeDecision, NEW e \in Entries, Head(decisions) = Entry(e),
         WriteDecision(e)
  PROVE  JournalInv'
<1>0. /\ JournalTypes /\ Counted /\ Staged /\ DecisionsArrive /\ Intact
      /\ decisions \in Seq(Msgs) /\ decisions # <<>> /\ pending \in Seq(Entries)
      /\ sessionRow \in Nat /\ row \in Nat /\ failures \in Nat
      /\ Head(decisions).type = "entry"
  BY MsgKinds DEF JournalInv, JournalTypes, TakeDecision
<1>1. PICK outcome \in Outcomes(failures) :
        /\ FlushPending(Append(pending, e), outcome)
        /\ failures' = failures + Failed(Append(pending, e), outcome)
        /\ UNCHANGED <<stage, sessionId, sessionRow>>
  BY DEF WriteDecision
<1>u. /\ stage' = stage /\ sessionId' = sessionId /\ sessionRow' = sessionRow
      /\ blocked' = blocked /\ row' = row /\ logged' = logged /\ volume' = volume
      /\ dropped' = dropped /\ pending' = <<>> /\ decisions' = Tail(decisions)
      /\ stage # "gone"
  BY <1>1 DEF TakeDecision, Writable
<1>2. Append(pending, e) \in Seq(Entries) /\ ToSet(Append(pending, e)) = ToSet(pending) \cup {e}
  BY <1>0, InAppended
<1>3. /\ entries' \subseteq Entries /\ unwritten' \subseteq Entries
      /\ entries' \cup unwritten' = entries \cup unwritten \cup ToSet(pending) \cup {e}
      /\ Failed(Append(pending, e), outcome) \in {0, 1}
      /\ sessionId = 1 /\ Failed(Append(pending, e), outcome) = 0 => unwritten' = unwritten
  <2> DEFINE batch == Append(pending, e)
  <2>1. batch \in Seq(Entries) /\ FlushPending(batch, outcome)  BY <1>1, <1>2
  <2> HIDE DEF batch
  <2>2. /\ entries' \subseteq Entries /\ unwritten' \subseteq Entries
        /\ entries' \cup unwritten' = entries \cup unwritten \cup ToSet(batch)
        /\ Failed(batch, outcome) \in {0, 1}
        /\ sessionId = 1 /\ Failed(batch, outcome) = 0 => unwritten' = unwritten
    BY <1>0, <2>1, FlushKeeps
  <2>3. QED  BY <1>2, <2>2 DEF batch
<1>4. /\ Tail(decisions) \in Seq(Msgs) /\ Carry(decisions) = Carry(Tail(decisions)) \cup {e}
  BY <1>0, CarryTaken
<1>5. JournalTypes'
  <2>1. failures' \in Nat  BY <1>0, <1>1, <1>3
  <2>2. <<>> \in Seq(Entries)  OBVIOUS
  <2>3. QED  BY <1>0, <1>u, <1>3, <1>4, <2>1, <2>2 DEF JournalTypes
<1>6. Accounted' = Accounted
  <2>1. ToSet(pending') = {}  BY <1>u, NothingInIt
  <2>2. QED  BY <1>u, <1>3, <1>4, <2>1 DEF Accounted
<1>7. Counted'  BY <1>u, <1>6, AccountKept
<1>8. stage \in {"relaying", "flushing"}
  <2>1. OpenSession.type # "entry"  BY MsgKinds
  <2>2. Head(<<OpenSession>>) = OpenSession  OBVIOUS
  <2>3. stage # "opening"  BY <1>0, <2>1, <2>2 DEF Staged
  <2>4. stage # "closing"  BY <1>0 DEF Staged
  <2>5. QED  BY <1>0, <1>u, <2>3, <2>4 DEF JournalTypes
<1>9. Staged'
  <2>1. /\ Lacks(decisions, "session") => Lacks(Tail(decisions), "session")
        /\ Lacks(decisions, "flush") => Lacks(Tail(decisions), "flush")
    BY <1>0, LacksMoves
  <2>2. FlushIsLast(decisions) => FlushIsLast(Tail(decisions))  BY <1>0, FlushMoves
  <2>3. QED  BY <1>0, <1>u, <1>8, <2>1, <2>2 DEF Staged
<1>10. DecisionsArrive'
  BY <1>0, <1>u, <1>3, <1>4 DEF DecisionsArrive
<1>11. Intact'
  <2>1. SUFFICES ASSUME failures' = 0
                 PROVE  sessionId' = 1 /\ unwritten' = {} /\ LatestIs(decisions', sessionRow', row')
    BY DEF Intact
  <2>2. failures = 0 /\ Failed(Append(pending, e), outcome) = 0  BY <1>0, <1>1, <1>3, <2>1
  <2>3. sessionId = 1 /\ unwritten = {} /\ LatestIs(decisions, sessionRow, row)
    BY <1>0, <1>8, <2>2 DEF Intact
  <2>4. LatestIs(Tail(decisions), sessionRow, row)  BY <1>0, <2>3, LatestMoves
  <2>5. QED  BY <1>u, <1>3, <2>2, <2>3, <2>4
<1>12. QED  BY <1>5, <1>7, <1>9, <1>10, <1>11 DEF JournalInv

(* The row of the session is inserted before anything is logged.            *)
LEMMA SessionTaken ==
  ASSUME JournalInv, TakeDecision, Head(decisions).type = "session", InsertSession
  PROVE  JournalInv'
<1>0. /\ JournalTypes /\ Counted /\ Staged /\ DecisionsArrive /\ Intact
      /\ decisions \in Seq(Msgs) /\ decisions # <<>> /\ failures \in Nat
  BY DEF JournalInv, JournalTypes, TakeDecision
<1>1. PICK outcome \in Outcomes(failures) :
        /\ sessionId' = IF outcome = "done" THEN 1 ELSE 0
        /\ failures' = failures + Failed(decisions, outcome)
        /\ stage' = "relaying"
        /\ UNCHANGED <<entries, sessionRow, unwritten>>
  BY DEF InsertSession
<1>2. /\ stage = "opening"
      /\ decisions = <<OpenSession>> /\ row = 0 /\ sessionRow = 0
      /\ logged = {} /\ unwritten = {} /\ ~blocked
  <2>1. stage # "gone" /\ ~blocked  BY DEF TakeDecision, Writable
  <2>2. stage \notin {"relaying", "flushing"}  BY <1>0, LacksMoves DEF Staged
  <2>3. stage # "closing"  BY <1>0 DEF Staged
  <2>4. stage = "opening"  BY <1>0, <2>1, <2>2, <2>3 DEF JournalTypes
  <2>5. QED  BY <1>0, <2>1, <2>4 DEF Staged
<1>u. /\ entries' = entries /\ sessionRow' = 0 /\ unwritten' = {}
      /\ blocked' = blocked /\ row' = 0 /\ logged' = {} /\ volume' = volume
      /\ dropped' = dropped /\ pending' = <<>> /\ decisions' = <<>>
  BY <1>1, <1>2 DEF TakeDecision
<1>3. Failed(decisions, outcome) \in {0, 1} /\ (Failed(decisions, outcome) = 0 => outcome # "failed")
  BY <1>0 DEF Failed
<1>4. outcome \in {"done", "failed"}  BY DEF Outcomes
<1>5. JournalTypes'
  <2>1. failures' \in Nat  BY <1>0, <1>1, <1>3
  <2>2. <<>> \in Seq(Entries) /\ <<>> \in Seq(Msgs)  OBVIOUS
  <2>3. IsFiniteSet(logged')  BY <1>u, FS_EmptySet
  <2>4. QED  BY <1>0, <1>1, <1>u, <2>1, <2>2, <2>3 DEF JournalTypes
<1>6. Accounted' = Accounted
  <2>1. Accounted = {}  BY <1>0, <1>2 DEF Counted
  <2>2. ToSet(pending') = {}  BY <1>u, NothingInIt
  <2>3. Carry(decisions') = {} /\ Carry(decisions) = {}  BY <1>u, <1>2, NothingCarried
  <2>4. QED  BY <1>2, <1>u, <2>1, <2>2, <2>3 DEF Accounted
<1>7. Counted'  BY <1>u, <1>2, <1>6, AccountKept
<1>8. Staged'  BY <1>1, <1>2, <1>u, NothingInIt DEF Staged
<1>9. DecisionsArrive'  BY <1>u DEF DecisionsArrive
<1>10. Intact'
  <2>1. failures' = 0 => sessionId' = 1  BY <1>0, <1>1, <1>3, <1>4
  <2>2. LatestIs(decisions', sessionRow', row')  BY <1>u, NothingInIt
  <2>3. QED  BY <1>u, <2>1, <2>2 DEF Intact
<1>11. QED  BY <1>5, <1>7, <1>8, <1>9, <1>10 DEF JournalInv

(* A version of the row is stored, or the end of the session is seen, once  *)
(* the batch that waits is written.                                        *)
LEMMA PendingWritten ==
  ASSUME JournalInv, TakeDecision, Head(decisions).type # "entry",
         NEW outcome, FlushPending(pending, outcome)
  PROVE  /\ entries' \subseteq Entries /\ unwritten' \subseteq Entries
         /\ Failed(pending, outcome) \in {0, 1}
         /\ sessionId = 1 /\ Failed(pending, outcome) = 0 => unwritten' = unwritten
         /\ Tail(decisions) \in Seq(Msgs) /\ Head(decisions) \in Msgs
         /\ Counted' /\ DecisionsArrive'
<1>0. /\ JournalTypes /\ Counted /\ DecisionsArrive
      /\ decisions \in Seq(Msgs) /\ decisions # <<>> /\ pending \in Seq(Entries)
  BY DEF JournalInv, JournalTypes, TakeDecision
<1>u. /\ logged' = logged /\ volume' = volume
      /\ dropped' = dropped /\ pending' = <<>> /\ decisions' = Tail(decisions)
  BY DEF TakeDecision
<1>1. /\ entries' \subseteq Entries /\ unwritten' \subseteq Entries
      /\ entries' \cup unwritten' = entries \cup unwritten \cup ToSet(pending)
      /\ Failed(pending, outcome) \in {0, 1}
      /\ sessionId = 1 /\ Failed(pending, outcome) = 0 => unwritten' = unwritten
  BY <1>0, FlushKeeps
<1>2. /\ Tail(decisions) \in Seq(Msgs) /\ Head(decisions) \in Msgs
      /\ Carry(Tail(decisions)) = Carry(decisions)
  BY <1>0, CarryTaken
<1>3. Accounted' = Accounted
  <2>1. ToSet(pending') = {}  BY <1>u, NothingInIt
  <2>2. QED  BY <1>u, <1>1, <1>2, <2>1 DEF Accounted
<1>4. Counted'  BY <1>u, <1>3, AccountKept
<1>5. DecisionsArrive'  BY <1>0, <1>u, <1>1, <1>2 DEF DecisionsArrive
<1>6. QED  BY <1>1, <1>2, <1>4, <1>5

LEMMA UpdateTaken ==
  ASSUME JournalInv, TakeDecision, Head(decisions).type = "update",
         WriteUpdate(Head(decisions).row)
  PROVE  JournalInv'
<1>0. /\ JournalTypes /\ Counted /\ Staged /\ DecisionsArrive /\ Intact
      /\ decisions \in Seq(Msgs) /\ decisions # <<>>
      /\ sessionRow \in Nat /\ row \in Nat /\ failures \in Nat
  BY DEF JournalInv, JournalTypes, TakeDecision
<1>p. PICK first \in Outcomes(failures) :
        \E second \in Outcomes(failures + Failed(pending, first)) :
          /\ FlushPending(pending, first)
          /\ sessionRow' = IF second = "done" /\ sessionId # 0 THEN Head(decisions).row ELSE sessionRow
          /\ failures' = failures + Failed(pending, first) + Failed(decisions, second)
          /\ UNCHANGED <<stage, sessionId>>
  BY DEF WriteUpdate
<1>1. PICK second \in Outcomes(failures + Failed(pending, first)) :
        /\ FlushPending(pending, first)
        /\ sessionRow' = IF second = "done" /\ sessionId # 0 THEN Head(decisions).row ELSE sessionRow
        /\ failures' = failures + Failed(pending, first) + Failed(decisions, second)
        /\ UNCHANGED <<stage, sessionId>>
  BY <1>p
<1>u. /\ stage' = stage /\ sessionId' = sessionId
      /\ blocked' = blocked /\ row' = row /\ logged' = logged /\ volume' = volume
      /\ dropped' = dropped /\ pending' = <<>> /\ decisions' = Tail(decisions)
      /\ stage # "gone"
  BY <1>1 DEF TakeDecision, Writable
<1>2. /\ entries' \subseteq Entries /\ unwritten' \subseteq Entries
      /\ Failed(pending, first) \in {0, 1}
      /\ sessionId = 1 /\ Failed(pending, first) = 0 => unwritten' = unwritten
      /\ Tail(decisions) \in Seq(Msgs) /\ Head(decisions) \in Msgs
      /\ Counted' /\ DecisionsArrive'
  BY <1>1, PendingWritten
<1>3. /\ Failed(decisions, second) \in {0, 1}
      /\ Failed(decisions, second) = 0 => second = "done"
  BY <1>0 DEF Failed, Outcomes
<1>4. Head(decisions).row \in Nat  BY <1>2, MsgKinds
<1>5. JournalTypes'
  <2>1. failures' \in Nat  BY <1>0, <1>1, <1>2, <1>3
  <2>2. sessionRow' \in Nat  BY <1>0, <1>1, <1>4
  <2>3. <<>> \in Seq(Entries)  OBVIOUS
  <2>4. QED  BY <1>0, <1>u, <1>2, <2>1, <2>2, <2>3 DEF JournalTypes
<1>6. stage \in {"relaying", "flushing"}
  <2>1. OpenSession.type # "update"  BY MsgKinds
  <2>2. Head(<<OpenSession>>) = OpenSession  OBVIOUS
  <2>3. stage # "opening"  BY <1>0, <2>1, <2>2 DEF Staged
  <2>4. stage # "closing"  BY <1>0 DEF Staged
  <2>5. QED  BY <1>0, <1>u, <2>3, <2>4 DEF JournalTypes
<1>7. Staged'
  <2>1. /\ Lacks(decisions, "session") => Lacks(Tail(decisions), "session")
        /\ Lacks(decisions, "flush") => Lacks(Tail(decisions), "flush")
    BY <1>0, LacksMoves
  <2>2. FlushIsLast(decisions) => FlushIsLast(Tail(decisions))  BY <1>0, FlushMoves
  <2>3. QED  BY <1>0, <1>u, <1>6, <2>1, <2>2 DEF Staged
<1>8. Intact'
  <2>1. SUFFICES ASSUME failures' = 0
                 PROVE  sessionId' = 1 /\ unwritten' = {} /\ LatestIs(decisions', sessionRow', row')
    BY DEF Intact
  <2>2. failures = 0 /\ Failed(pending, first) = 0 /\ second = "done"
    BY <1>0, <1>1, <1>2, <1>3, <2>1
  <2>3. sessionId = 1 /\ unwritten = {} /\ LatestIs(decisions, sessionRow, row)
    BY <1>0, <1>6, <2>2 DEF Intact
  <2>4. sessionRow' = Head(decisions).row  BY <1>1, <2>2, <2>3
  <2>5. LatestIs(Tail(decisions), Head(decisions).row, row)  BY <1>0, <2>3, LatestMoves
  <2>6. QED  BY <1>u, <1>2, <2>2, <2>3, <2>4, <2>5
<1>9. QED  BY <1>2, <1>5, <1>7, <1>8 DEF JournalInv

LEMMA FlushTaken ==
  ASSUME JournalInv, TakeDecision, Head(decisions).type = "flush", WriteFlush
  PROVE  JournalInv'
<1>0. /\ JournalTypes /\ Counted /\ Staged /\ DecisionsArrive /\ Intact
      /\ decisions \in Seq(Msgs) /\ decisions # <<>>
      /\ sessionRow \in Nat /\ row \in Nat /\ failures \in Nat
  BY DEF JournalInv, JournalTypes, TakeDecision
<1>1. PICK outcome \in Outcomes(failures) :
        /\ FlushPending(pending, outcome)
        /\ failures' = failures + Failed(pending, outcome)
        /\ stage' = "closing" /\ UNCHANGED <<sessionId, sessionRow>>
  BY DEF WriteFlush
<1>u. /\ stage' = "closing" /\ sessionId' = sessionId /\ sessionRow' = sessionRow
      /\ blocked' = blocked /\ row' = row /\ logged' = logged /\ volume' = volume
      /\ dropped' = dropped /\ pending' = <<>> /\ decisions' = Tail(decisions)
      /\ stage # "gone" /\ ~blocked
  BY <1>1 DEF TakeDecision, Writable
<1>2. /\ entries' \subseteq Entries /\ unwritten' \subseteq Entries
      /\ Failed(pending, outcome) \in {0, 1}
      /\ sessionId = 1 /\ Failed(pending, outcome) = 0 => unwritten' = unwritten
      /\ Tail(decisions) \in Seq(Msgs)
      /\ Counted' /\ DecisionsArrive'
  BY <1>1, PendingWritten
<1>3. stage = "flushing"
  <2>1. OpenSession.type # "flush"  BY MsgKinds
  <2>2. Head(<<OpenSession>>) = OpenSession  OBVIOUS
  <2>3. stage # "opening"  BY <1>0, <2>1, <2>2 DEF Staged
  <2>4. stage # "closing"  BY <1>0 DEF Staged
  <2>5. stage # "relaying"  BY <1>0, LacksMoves DEF Staged
  <2>6. QED  BY <1>0, <1>u, <2>3, <2>4, <2>5 DEF JournalTypes
<1>4. decisions' = <<>>  BY <1>0, <1>3, <1>u, FlushMoves DEF Staged
<1>5. JournalTypes'
  <2>1. failures' \in Nat  BY <1>0, <1>1, <1>2
  <2>2. <<>> \in Seq(Entries)  OBVIOUS
  <2>3. QED  BY <1>0, <1>u, <1>2, <2>1, <2>2 DEF JournalTypes
<1>6. Staged'  BY <1>u, <1>4 DEF Staged
<1>7. Intact'
  <2>1. SUFFICES ASSUME failures' = 0
                 PROVE  sessionId' = 1 /\ unwritten' = {} /\ LatestIs(decisions', sessionRow', row')
    BY DEF Intact
  <2>2. failures = 0 /\ Failed(pending, outcome) = 0  BY <1>0, <1>1, <1>2, <2>1
  <2>3. sessionId = 1 /\ unwritten = {} /\ LatestIs(decisions, sessionRow, row)
    BY <1>0, <1>3, <2>2 DEF Intact
  <2>4. LatestIs(Tail(decisions), sessionRow, row)  BY <1>0, <2>3, LatestMoves
  <2>5. QED  BY <1>u, <1>2, <2>2, <2>3, <2>4
<1>8. QED  BY <1>2, <1>5, <1>6, <1>7 DEF JournalInv

LEMMA DecisionKeeps == JournalInv /\ TakeDecision => JournalInv'
<1> SUFFICES ASSUME JournalInv, TakeDecision  PROVE JournalInv'
  OBVIOUS
<1>1. Head(decisions) \in Msgs
  BY CarryTaken DEF JournalInv, JournalTypes, TakeDecision
<1>2. \/ Head(decisions).type = "entry" /\ WriteDecision(Head(decisions).entry)
      \/ Head(decisions).type = "session" /\ InsertSession
      \/ Head(decisions).type = "update" /\ WriteUpdate(Head(decisions).row)
      \/ Head(decisions).type = "flush" /\ WriteFlush
  BY DEF TakeDecision
<1>3. CASE Head(decisions).type = "entry" /\ WriteDecision(Head(decisions).entry)
  <2>1. PICK e \in Entries : e = Head(decisions).entry /\ Head(decisions) = Entry(e)
    BY <1>1, <1>3, MsgKinds
  <2>2. WriteDecision(e)  BY <1>3, <2>1
  <2>3. QED  BY <2>1, <2>2, DecisionTaken
<1>4. QED  BY <1>2, <1>3, SessionTaken, UpdateTaken, FlushTaken

(* What the writer does with the entries that are no decisions: the channel *)
(* of decisions is empty.                                                  *)
LEMMA VolumeKeeps ==
  ASSUME JournalInv, stage # "gone", decisions = <<>>, Accounted' = Accounted,
         UNCHANGED <<shimVars, decisions, dropped, sessionId, sessionRow>>,
         volume' \in Seq(EntryMsgs), pending' \in Seq(Entries),
         entries' \subseteq Entries, unwritten' \subseteq Entries,
         entries \cup unwritten \subseteq entries' \cup unwritten',
         failures' \in Nat,
         failures' = 0 => failures = 0 /\ (sessionId = 1 => unwritten' = unwritten)
  PROVE  JournalInv'
<1>0. JournalTypes /\ Counted /\ Staged /\ DecisionsArrive /\ Intact
  BY DEF JournalInv
<1>u. /\ stage' = stage /\ blocked' = blocked /\ row' = row /\ logged' = logged
      /\ decisions' = decisions /\ dropped' = dropped /\ sessionId' = sessionId
      /\ sessionRow' = sessionRow
  BY DEF shimVars
<1>1. JournalTypes'  BY <1>0, <1>u DEF JournalTypes
<1>2. Counted'  BY <1>u, AccountKept
<1>3. stage # "opening"  BY <1>0, NothingCarried DEF Staged
<1>4. Staged'  BY <1>0, <1>u, <1>3 DEF Staged
<1>5. DecisionsArrive'  BY <1>0, <1>u DEF DecisionsArrive
<1>6. Intact'  BY <1>0, <1>u DEF Intact
<1>7. QED  BY <1>1, <1>2, <1>4, <1>5, <1>6 DEF JournalInv

LEMMA TakeVolumeKeeps == JournalInv /\ TakeVolume => JournalInv'
<1> SUFFICES ASSUME JournalInv, TakeVolume  PROVE JournalInv'
  OBVIOUS
<1>0. /\ JournalTypes /\ volume \in Seq(EntryMsgs) /\ volume # <<>>
      /\ pending \in Seq(Entries) /\ decisions = <<>> /\ stage # "gone"
      /\ volume' = Tail(volume) /\ failures \in Nat
      /\ UNCHANGED <<shimVars, decisions, dropped, sessionId>>
      /\ stage' = stage /\ decisions' = decisions
  BY DEF JournalInv, JournalTypes, TakeVolume, Writable, shimVars
<1>1. /\ Head(volume) \in EntryMsgs /\ Tail(volume) \in Seq(EntryMsgs)
      /\ volume \in Seq(Msgs)
  BY <1>0, InTail, VolumeIsMsgs
<1>2. PICK e \in Entries : Head(volume) = Entry(e)  BY <1>1 DEF EntryMsgs
<1>3. Head(volume).entry = e /\ Carry(volume) = Carry(Tail(volume)) \cup {e}
  BY <1>0, <1>1, <1>2, MsgKinds, CarryTaken
<1> DEFINE batch == Append(pending, e)
<1>4. batch \in Seq(Entries) /\ ToSet(batch) = ToSet(pending) \cup {e}
  BY <1>0, InAppended
<1>5. \/ pending' = batch /\ UNCHANGED tables
      \/ \E outcome \in Outcomes(failures) :
           /\ FlushPending(batch, outcome)
           /\ failures' = failures + Failed(batch, outcome)
           /\ pending' = <<>> /\ UNCHANGED sessionRow
  BY <1>3 DEF TakeVolume
<1> HIDE DEF batch
<1>6. CASE pending' = batch /\ UNCHANGED tables
  <2>1. /\ entries' = entries /\ unwritten' = unwritten /\ failures' = failures
        /\ sessionRow' = sessionRow
    BY <1>6 DEF tables
  <2>2. Accounted' = Accounted  BY <1>0, <1>3, <1>4, <1>6, <2>1 DEF Accounted
  <2>3. entries \subseteq Entries /\ unwritten \subseteq Entries  BY <1>0 DEF JournalTypes
  <2>4. QED  BY <1>0, <1>1, <1>4, <1>6, <2>1, <2>2, <2>3, VolumeKeeps
<1>7. CASE \E outcome \in Outcomes(failures) :
             /\ FlushPending(batch, outcome)
             /\ failures' = failures + Failed(batch, outcome)
             /\ pending' = <<>> /\ UNCHANGED sessionRow
  <2>1. PICK outcome \in Outcomes(failures) :
             /\ FlushPending(batch, outcome)
             /\ failures' = failures + Failed(batch, outcome)
             /\ pending' = <<>> /\ UNCHANGED sessionRow
    BY <1>7
  <2>2. /\ entries' \subseteq Entries /\ unwritten' \subseteq Entries
        /\ entries' \cup unwritten' = entries \cup unwritten \cup ToSet(batch)
        /\ Failed(batch, outcome) \in {0, 1}
        /\ sessionId = 1 /\ Failed(batch, outcome) = 0 => unwritten' = unwritten
    BY <1>0, <1>4, <2>1, FlushKeeps
  <2>3. /\ failures' \in Nat
        /\ failures' = 0 => failures = 0 /\ (sessionId = 1 => unwritten' = unwritten)
    BY <1>0, <2>1, <2>2
  <2>4. ToSet(pending') = {} /\ pending' \in Seq(Entries)  BY <2>1, NothingInIt
  <2>5. Accounted' = Accounted  BY <1>0, <1>3, <1>4, <2>2, <2>4 DEF Accounted
  <2>6. entries \cup unwritten \subseteq entries' \cup unwritten' /\ sessionRow' = sessionRow
    BY <2>1, <2>2
  <2>7. QED  BY <1>0, <1>1, <2>2, <2>3, <2>4, <2>5, <2>6, VolumeKeeps
<1>8. QED  BY <1>5, <1>6, <1>7

LEMMA LingerKeeps == JournalInv /\ LingerOver => JournalInv'
<1> SUFFICES ASSUME JournalInv, LingerOver  PROVE JournalInv'
  OBVIOUS
<1>0. /\ JournalTypes /\ volume \in Seq(EntryMsgs) /\ pending \in Seq(Entries)
      /\ decisions = <<>> /\ stage # "gone" /\ failures \in Nat
      /\ volume' = volume /\ decisions' = decisions
      /\ UNCHANGED <<shimVars, decisions, dropped, sessionId, sessionRow>>
  BY DEF JournalInv, JournalTypes, LingerOver, Writable, Linger
<1>1. PICK outcome \in Outcomes(failures) :
        /\ FlushPending(pending, outcome)
        /\ failures' = failures + Failed(pending, outcome)
        /\ pending' = <<>>
  BY DEF LingerOver
<1>2. /\ entries' \subseteq Entries /\ unwritten' \subseteq Entries
      /\ entries' \cup unwritten' = entries \cup unwritten \cup ToSet(pending)
      /\ Failed(pending, outcome) \in {0, 1}
      /\ sessionId = 1 /\ Failed(pending, outcome) = 0 => unwritten' = unwritten
  BY <1>0, <1>1, FlushKeeps
<1>3. /\ failures' \in Nat
      /\ failures' = 0 => failures = 0 /\ (sessionId = 1 => unwritten' = unwritten)
  BY <1>0, <1>1, <1>2
<1>4. ToSet(pending') = {} /\ pending' \in Seq(Entries)  BY <1>1, NothingInIt
<1>5. Accounted' = Accounted  BY <1>0, <1>2, <1>4 DEF Accounted
<1>6. entries \cup unwritten \subseteq entries' \cup unwritten'  BY <1>2
<1>7. QED  BY <1>0, <1>2, <1>3, <1>4, <1>5, <1>6, VolumeKeeps

LEMMA StepJournal == JournalInv /\ [JournalNext]_journalVars => JournalInv'
<1> SUFFICES ASSUME JournalInv, [JournalNext]_journalVars  PROVE JournalInv'
  OBVIOUS
<1>0. JournalTypes /\ Staged  BY DEF JournalInv
<1>1. CASE SeeFrame
  <2>1. PICK b \in BOOLEAN, learns \in BOOLEAN : OnFrame(b, learns)  BY <1>1 DEF SeeFrame
  <2>2. /\ stage = "relaying" /\ UNCHANGED <<stage, pending, sessionId, tables>>
        /\ blocked' \in BOOLEAN
    BY <1>0, <1>1 DEF SeeFrame, JournalTypes
  <2>3. QED  BY <2>1, <2>2, FrameKeeps
<1>2. CASE VerdictComes
  <2>1. PICK b \in BOOLEAN : OnFrame(b, FALSE)  BY <1>2 DEF VerdictComes
  <2>2. /\ stage = "relaying" /\ UNCHANGED <<stage, pending, sessionId, tables>>
        /\ blocked' \in BOOLEAN
    BY <1>2 DEF VerdictComes
  <2>3. QED  BY <2>1, <2>2, FrameKeeps
<1>3. CASE AwaitVerdict \/ EndSession \/ GraceOver \/ Kill
  BY <1>3, StageKeeps DEF AwaitVerdict, EndSession, GraceOver, Kill
<1>4. CASE Writer  BY <1>4, DecisionKeeps, TakeVolumeKeeps, LingerKeeps DEF Writer
<1>5. CASE UNCHANGED journalVars
  <2>1. /\ stage' = stage /\ blocked' = blocked /\ row' = row /\ logged' = logged
        /\ entries' = entries /\ sessionRow' = sessionRow /\ unwritten' = unwritten
        /\ failures' = failures /\ volume' = volume /\ decisions' = decisions
        /\ dropped' = dropped /\ pending' = pending /\ sessionId' = sessionId
    BY <1>5 DEF journalVars, shimVars, tables
  <2>2. Accounted' = Accounted  BY <2>1 DEF Accounted
  <2>3. QED
    BY <2>1, <2>2 DEF JournalInv, JournalTypes, Counted, Staged, DecisionsArrive, Intact
<1>6. QED  BY <1>1, <1>2, <1>3, <1>4, <1>5 DEF JournalNext

LEMMA JournalInvSuffices == JournalInv => EntriesAreAccounted
<1> SUFFICES ASSUME JournalInv  PROVE EntriesAreAccounted
  OBVIOUS
<1>0. /\ JournalTypes /\ Counted /\ Staged /\ DecisionsArrive /\ Intact
      /\ decisions \in Seq(Msgs) /\ volume \in Seq(EntryMsgs)
  BY DEF JournalInv, JournalTypes
<1>1. OnItsWay = ToSet(pending) \cup Carry(decisions) \cup Carry(volume)
  BY <1>0, MissingIs DEF OnItsWay
<1>2. Missing = logged \ Accounted  BY <1>1 DEF Missing, Accounted
<1>3. dropped = Cardinality(Missing)  BY <1>0, <1>2 DEF Counted
<1>4. ASSUME stage = "closing", failures = 0
      PROVE  sessionRow = row /\ \A e \in logged : e.decision => e \in entries
  <2>1. decisions = <<>>  BY <1>0, <1>4 DEF Staged
  <2>2. unwritten = {} /\ LatestIs(decisions, sessionRow, row)  BY <1>0, <1>4 DEF Intact
  <2>3. sessionRow = row  BY <2>1, <2>2, NothingInIt
  <2>4. Carry(decisions) = {}  BY <2>1, NothingCarried
  <2>5. \A e \in logged : e.decision => e \in entries
    BY <1>0, <2>2, <2>4 DEF DecisionsArrive
  <2>6. QED  BY <2>3, <2>5
<1>5. QED  BY <1>3, <1>4 DEF EntriesAreAccounted

(* Whatever the frames, the verdicts that block the thread, the size of the *)
(* channel and of the batch, and whichever writes the database refuses: the *)
(* entries that are nowhere are those dropped() counts, and a writer that   *)
(* was told the session is over has stored every decision and the last      *)
(* version of the session's row, if none of its writes failed.              *)
THEOREM EntriesAreTraced == JournalSpec => []EntriesAreAccounted
<1>1. JournalSpec => []JournalInv  BY InitJournal, StepJournal, PTL DEF JournalSpec
<1>2. QED  BY <1>1, JournalInvSuffices, PTL
=============================================================================
