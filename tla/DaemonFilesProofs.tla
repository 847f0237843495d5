-------------------------- MODULE DaemonFilesProofs --------------------------
(***************************************************************************)
(* What the daemon keeps in files.  That every change of a description is  *)
(* flagged once, and the calls after it told of it, for any number of      *)
(* sessions, lists, calls and daemons that die; that the policy in force   *)
(* is the file's, and that no permanent answer is lost, for any rules, any *)
(* number of answers, saves and crashes.                                   *)
(***************************************************************************)
EXTENDS ToolDrift, PolicyFile, FiniteSetTheorems, SequenceTheorems, TLAPS

USE NamesAssumption, BoundsAssumption

LEMMA ListIsNoCall == \A v : List(v) # Call
<1>1. \A v : List(v).type = "tools" /\ Call.type = "decide"  BY DEF List, Call
<1>2. QED  BY <1>1

LEMMA ToolsHead ==
  ASSUME TypeOK, NEW s \in Sessions, Receives(s, "tools")
  PROVE  Head(queue[s]).version \in Versions /\ Head(queue[s]) # Call /\ queue[s] # <<>>
<1>1. queue[s] \in Seq(Message) /\ queue[s] # <<>>  BY DEF TypeOK, Receives
<1>2. Head(queue[s]) \in Message  BY <1>1
<1>3. Head(queue[s]).type = "tools"  BY DEF Receives
<1>4. Call.type = "decide"  BY DEF Call
<1>5. QED  BY <1>1, <1>2, <1>3, <1>4 DEF Message

LEMMA CallIsLastEmpty == CallIsLast(<<>>, FALSE)
<1>1. 1..Len(<<>>) = {}  OBVIOUS
<1>2. QED  BY <1>1 DEF CallIsLast

LEMMA CallIsLastAppend ==
  ASSUME NEW q \in Seq(Message), CallIsLast(q, FALSE), NEW m \in Message
  PROVE  CallIsLast(Append(q, m), m = Call)
<1>1. /\ Append(q, m) # <<>> /\ Len(q) \in Nat
      /\ Len(Append(q, m)) = Len(q) + 1
      /\ Append(q, m)[Len(q) + 1] = m
      /\ \A i \in 1..Len(q) : Append(q, m)[i] = q[i]
  OBVIOUS
<1>2. \A i \in 1..(Len(q) + 1) : i = Len(q) + 1 \/ (i \in 1..Len(q) /\ i # Len(q) + 1)  BY <1>1
<1>3. \A i \in 1..Len(q) : q[i] # Call  BY DEF CallIsLast
<1>4. \A i \in 1..(Len(q) + 1) : Append(q, m)[i] = Call <=> m = Call /\ i = Len(q) + 1
  BY <1>1, <1>2, <1>3
<1>5. QED  BY <1>1, <1>4 DEF CallIsLast

LEMMA CallIsLastTail ==
  ASSUME NEW q \in Seq(Message), q # <<>>, NEW a \in BOOLEAN, CallIsLast(q, a)
  PROVE  CallIsLast(Tail(q), a /\ Head(q) # Call)
<1>1. /\ Tail(q) \in Seq(Message) /\ Len(q) \in Nat \ {0} /\ Len(Tail(q)) = Len(q) - 1
      /\ Head(q) = q[1]
      /\ \A i \in 1..(Len(q) - 1) : Tail(q)[i] = q[i + 1]
  OBVIOUS
<1>2. q[1] = Call <=> a /\ Len(q) = 1
  <2>1. 1 \in 1..Len(q) /\ (1 = Len(q) <=> Len(q) = 1)  BY <1>1
  <2>2. q[1] = Call <=> a /\ 1 = Len(q)  BY <2>1, Zenon DEF CallIsLast
  <2>3. QED  BY <2>1, <2>2, Zenon
<1>3. a /\ Head(q) # Call => Tail(q) # <<>>
  <2>1. ASSUME a, q[1] # Call PROVE Tail(q) # <<>>
    <3>1. Len(q) # 1  BY <1>2, <2>1, Zenon
    <3>2. Len(Tail(q)) # 0  BY <1>1, <3>1
    <3>3. Len(<<>>) = 0  OBVIOUS
    <3>4. QED  BY <3>2, <3>3
  <2>2. QED  BY <1>1, <2>1, Zenon
<1>4. \A i \in 1..(Len(q) - 1) : Tail(q)[i] = Call <=> a /\ i = Len(q) - 1
  <2>1. \A i \in 1..(Len(q) - 1) : i + 1 \in 1..Len(q) /\ (i + 1 = Len(q) <=> i = Len(q) - 1)
    BY <1>1
  <2>2. ASSUME NEW i \in 1..(Len(q) - 1)  PROVE Tail(q)[i] = Call <=> a /\ i = Len(q) - 1
    <3>1. q[i + 1] = Call <=> a /\ i + 1 = Len(q)  BY <2>1, Zenon DEF CallIsLast
    <3>2. Tail(q)[i] = q[i + 1]  BY <1>1
    <3>3. QED  BY <3>1, <3>2, <2>1, Zenon
  <2>3. QED  BY <2>2, Zenon
<1>5. \A i \in 1..(Len(q) - 1) : Tail(q)[i] = Call <=> (a /\ Head(q) # Call) /\ i = Len(q) - 1
  <2>1. ASSUME NEW i \in 1..(Len(q) - 1)  PROVE Len(q) # 1  BY <1>1
  <2>2. QED  BY <2>1, <1>1, <1>2, <1>4, Zenon
<1>6. QED
  <2>1. 1..Len(Tail(q)) = 1..(Len(q) - 1)  BY <1>1
  <2>2. QED  BY <2>1, <1>1, <1>3, <1>5, Zenon DEF CallIsLast

-----------------------------------------------------------------------------
LEMMA InitType == Init => TypeOK
<1> SUFFICES ASSUME Init PROVE TypeOK  OBVIOUS
<1>1. \A s \in Sessions : CallIsLast(queue[s], awaiting[s])  BY CallIsLastEmpty DEF Init
<1>2. <<>> \in Seq(Message)  OBVIOUS
<1>3. QED  BY <1>1, <1>2 DEF Init, TypeOK

(* What both of a session's own steps do to its queue. *)
LEMMA SendType ==
  ASSUME TypeOK, NEW s \in Sessions, ~awaiting[s], NEW m \in Message, Send(s, m),
         awaiting' = [awaiting EXCEPT ![s] = (m = Call)]
  PROVE  /\ queue' \in [Sessions -> Seq(Message)]
         /\ awaiting' \in [Sessions -> BOOLEAN]
         /\ \A r \in Sessions : CallIsLast(queue'[r], awaiting'[r])
<1>1. queue \in [Sessions -> Seq(Message)] /\ awaiting \in [Sessions -> BOOLEAN]  BY DEF TypeOK
<1>2. queue[s] \in Seq(Message) /\ CallIsLast(queue[s], FALSE)
  <2>1. awaiting[s] = FALSE  BY <1>1
  <2>2. QED  BY <1>1, <2>1 DEF TypeOK
<1>3. Append(queue[s], m) \in Seq(Message)  BY <1>2
<1>4. CallIsLast(Append(queue[s], m), m = Call)  BY <1>2, CallIsLastAppend
<1>5. queue' = [queue EXCEPT ![s] = Append(queue[s], m)]  BY DEF Send
<1>6. QED  BY <1>1, <1>3, <1>4, <1>5 DEF TypeOK

(* What taking a message from it does. *)
LEMMA ReceiveType ==
  ASSUME TypeOK, NEW s \in Sessions, NEW type, Receives(s, type),
         awaiting' = [awaiting EXCEPT ![s] = awaiting[s] /\ Head(queue[s]) # Call]
  PROVE  /\ queue' \in [Sessions -> Seq(Message)]
         /\ awaiting' \in [Sessions -> BOOLEAN]
         /\ \A r \in Sessions : CallIsLast(queue'[r], awaiting'[r])
<1>1. queue \in [Sessions -> Seq(Message)] /\ awaiting \in [Sessions -> BOOLEAN]  BY DEF TypeOK
<1>2. queue[s] \in Seq(Message) /\ queue[s] # <<>> /\ awaiting[s] \in BOOLEAN
  BY <1>1 DEF Receives
<1>3. Tail(queue[s]) \in Seq(Message)  BY <1>2
<1>4. CallIsLast(Tail(queue[s]), awaiting[s] /\ Head(queue[s]) # Call)
  BY <1>2, CallIsLastTail DEF TypeOK
<1>5. queue' = [queue EXCEPT ![s] = Tail(queue[s])]  BY DEF Receives
<1>6. QED  BY <1>1, <1>3, <1>4, <1>5 DEF TypeOK

LEMMA StepType == TypeOK /\ [Next]_vars => TypeOK'
<1> SUFFICES ASSUME TypeOK, [Next]_vars  PROVE TypeOK'  OBVIOUS
<1>1. ASSUME NEW s \in Sessions, Connect(s)  PROVE TypeOK'  BY <1>1 DEF Connect, TypeOK
<1>2. ASSUME NEW s \in Sessions, NEW v \in Versions, ListTools(s, v)  PROVE TypeOK'
  <2>1. List(v) \in Message /\ List(v) # Call  BY ListIsNoCall DEF List, Message
  <2>2. awaiting' = [awaiting EXCEPT ![s] = (List(v) = Call)]
    BY <1>2, <2>1 DEF ListTools, TypeOK
  <2>3. /\ queue' \in [Sessions -> Seq(Message)] /\ awaiting' \in [Sessions -> BOOLEAN]
        /\ \A r \in Sessions : CallIsLast(queue'[r], awaiting'[r])
    BY <1>2, <2>1, <2>2, SendType DEF ListTools
  <2>4. QED  BY <1>2, <2>3 DEF ListTools, TypeOK
<1>3. ASSUME NEW s \in Sessions, MakeCall(s)  PROVE TypeOK'
  <2>1. Call \in Message  BY DEF Message
  <2>2. awaiting' = [awaiting EXCEPT ![s] = (Call = Call)]  BY <1>3 DEF MakeCall
  <2>3. /\ queue' \in [Sessions -> Seq(Message)] /\ awaiting' \in [Sessions -> BOOLEAN]
        /\ \A r \in Sessions : CallIsLast(queue'[r], awaiting'[r])
    BY <1>3, <2>1, <2>2, SendType DEF MakeCall
  <2>4. QED  BY <1>3, <2>3 DEF MakeCall, TypeOK
<1>4. ASSUME NEW s \in Sessions, Receives(s, "tools"), awaiting' = awaiting
      PROVE  /\ queue' \in [Sessions -> Seq(Message)] /\ awaiting' \in [Sessions -> BOOLEAN]
             /\ \A r \in Sessions : CallIsLast(queue'[r], awaiting'[r])
  <2>1. awaiting' = [awaiting EXCEPT ![s] = awaiting[s] /\ Head(queue[s]) # Call]
    BY <1>4, ToolsHead DEF TypeOK
  <2>2. QED  BY <1>4, <2>1, ReceiveType
<1>5. ASSUME NEW s \in Sessions, RecordDescriptions(s)  PROVE TypeOK'
  <2>1. Head(queue[s]).version \in Versions  BY <1>5, ToolsHead DEF RecordDescriptions
  <2>2. digests' \in [Servers -> Versions \cup {None}]
    BY <1>5, <2>1 DEF RecordDescriptions, TypeOK
  <2>3. handler' \in [Sessions -> {"idle", "marking"}]  BY <1>5 DEF RecordDescriptions, TypeOK
  <2>4. /\ queue' \in [Sessions -> Seq(Message)] /\ awaiting' \in [Sessions -> BOOLEAN]
        /\ \A r \in Sessions : CallIsLast(queue'[r], awaiting'[r])
    BY <1>5, <1>4 DEF RecordDescriptions
  <2>5. QED  BY <1>5, <2>2, <2>3, <2>4 DEF RecordDescriptions, TypeOK
<1>6. ASSUME NEW s \in Sessions, RecordFails(s)  PROVE TypeOK'
  <2>1. /\ queue' \in [Sessions -> Seq(Message)] /\ awaiting' \in [Sessions -> BOOLEAN]
        /\ \A r \in Sessions : CallIsLast(queue'[r], awaiting'[r])
    BY <1>6, <1>4 DEF RecordFails
  <2>2. QED  BY <1>6, <2>1 DEF RecordFails, TypeOK
<1>7. ASSUME NEW s \in Sessions, MarkDrift(s)  PROVE TypeOK'
  BY <1>7 DEF MarkDrift, TypeOK, session
<1>8. ASSUME NEW s \in Sessions, Rule(s)  PROVE TypeOK'
  <2>1. queue[s] \in Seq(Message) /\ queue[s] # <<>> /\ Head(queue[s]).type = "decide"
    BY <1>8 DEF Rule, Receives, TypeOK
  <2>2. Head(queue[s]) = Call
    <3>1. Head(queue[s]) \in Message  BY <2>1
    <3>2. QED  BY <2>1, <3>1 DEF Message
  <2>3. awaiting' = [awaiting EXCEPT ![s] = awaiting[s] /\ Head(queue[s]) # Call]
    BY <1>8, <2>2 DEF Rule
  <2>4. /\ queue' \in [Sessions -> Seq(Message)] /\ awaiting' \in [Sessions -> BOOLEAN]
        /\ \A r \in Sessions : CallIsLast(queue'[r], awaiting'[r])
    BY <1>8, <2>3, ReceiveType DEF Rule
  <2>5. drifted' \subseteq Servers  BY <1>8 DEF Rule, Consume, TypeOK
  <2>6. flagged' \in BOOLEAN
    <3>1. flagged' = (ServerOf[s] \in drifted)  BY <1>8 DEF Rule
    <3>2. (ServerOf[s] \in drifted) \in BOOLEAN  OBVIOUS
    <3>3. QED  BY <3>1, <3>2
  <2>7. QED  BY <1>8, <2>4, <2>5, <2>6 DEF Rule, TypeOK
<1>9. ASSUME Crash  PROVE TypeOK'
  <2>1. <<>> \in Seq(Message)  OBVIOUS
  <2>2. \A r \in Sessions : CallIsLast(queue'[r], awaiting'[r])  BY <1>9, CallIsLastEmpty DEF Crash
  <2>3. link' \in [Sessions -> {"new", "open", "lost"}]  BY <1>9 DEF Crash, TypeOK
  <2>4. QED  BY <1>9, <2>1, <2>2, <2>3 DEF Crash, TypeOK
<1>10. ASSUME UNCHANGED vars  PROVE TypeOK'  BY <1>10 DEF vars, session, past, TypeOK
<1>11. QED
  BY <1>1, <1>2, <1>3, <1>5, <1>6, <1>7, <1>8, <1>9, <1>10 DEF Next, Handler

(* A call is queued if and only if its client waits, and then it is last:   *)
(* a session's reports always precede its call.                            *)
THEOREM TypeCorrect == Spec => []TypeOK
<1>1. QED  BY InitType, StepType, PTL DEF Spec

-----------------------------------------------------------------------------
(* The counters, and the changes that have not raised an alarm yet.         *)
Counts == changes \in [Servers -> Nat] /\ alarms \in [Servers -> Nat]
AlarmInv == Counts /\ OneAlarmPerChange

Mark(marked, v) == IF v \in marked THEN 1 ELSE 0

LEMMA MarkingFinite ==
  \A h, v : IsFiniteSet(Marking(h, v)) /\ Cardinality(Marking(h, v)) \in Nat
<1>1. \A h, v : Marking(h, v) \subseteq Sessions  BY DEF Marking
<1>2. QED  BY <1>1, FS_Subset, FS_CardinalityType

(* A handler that goes from one state to the other counts for its server.   *)
LEMMA MarkingMoves ==
  ASSUME NEW h \in [Sessions -> {"idle", "marking"}], NEW s \in Sessions, h[s] = "idle",
         NEW v
  PROVE  Cardinality(Marking([h EXCEPT ![s] = "marking"], v))
           = Cardinality(Marking(h, v)) + Mark({ServerOf[s]}, v)
<1> DEFINE after == [h EXCEPT ![s] = "marking"]
<1>1. CASE v = ServerOf[s]
  <2>1. Marking(after, v) = Marking(h, v) \cup {s} /\ s \notin Marking(h, v)
    BY <1>1 DEF Marking
  <2>2. Cardinality(Marking(after, v)) = Cardinality(Marking(h, v)) + 1
    BY <2>1, FS_AddElement, MarkingFinite
  <2>3. QED  BY <1>1, <2>2 DEF Mark
<1>2. CASE v # ServerOf[s]
  <2>1. Marking(after, v) = Marking(h, v)  BY <1>2 DEF Marking
  <2>2. QED  BY <1>2, <2>1, MarkingFinite DEF Mark
<1>3. QED  BY <1>1, <1>2

(* What every step has to show. *)
Balance(h, marked, raised, made) ==
  \A v \in Servers : raised[v] + Mark(marked, v) + Cardinality(Marking(h, v)) <= made[v]

LEMMA AlarmsBalance == OneAlarmPerChange = Balance(handler, drifted, alarms, changes)
BY DEF OneAlarmPerChange, Balance, Mark

LEMMA InitAlarms == Init => AlarmInv
<1> SUFFICES ASSUME Init PROVE AlarmInv  OBVIOUS
<1>1. \A v \in Servers : Marking(handler, v) = {}  BY DEF Init, Marking
<1>2. Cardinality({}) = 0  BY FS_EmptySet
<1>3. \A v \in Servers : alarms[v] = 0 /\ changes[v] = 0 /\ v \notin drifted  BY DEF Init
<1>4. OneAlarmPerChange  BY <1>1, <1>2, <1>3 DEF OneAlarmPerChange
<1>5. QED  BY <1>4 DEF Init, AlarmInv, Counts

LEMMA StepAlarms == TypeOK /\ AlarmInv /\ [Next]_vars => AlarmInv'
<1> SUFFICES ASSUME TypeOK, AlarmInv, [Next]_vars  PROVE AlarmInv'  OBVIOUS
<1> USE DEF AlarmInv, Counts
<1>0. /\ Balance(handler, drifted, alarms, changes)
      /\ handler \in [Sessions -> {"idle", "marking"}]
      /\ ServerOf \in [Sessions -> Servers]
  BY AlarmsBalance DEF TypeOK
<1>1. CASE UNCHANGED <<handler, drifted, changes, alarms>>
  BY <1>1 DEF OneAlarmPerChange
<1>b. OneAlarmPerChange' = Balance(handler', drifted', alarms', changes')
  BY DEF OneAlarmPerChange, Balance, Mark
<1>2. ASSUME NEW s \in Sessions, RecordDescriptions(s)  PROVE AlarmInv'
  <2> DEFINE server == ServerOf[s]
             changed == IsChange(digests[server], Head(queue[s]).version)
  <2>1. /\ handler[s] = "idle" /\ drifted' = drifted /\ alarms' = alarms
        /\ handler' = [handler EXCEPT ![s] = IF changed THEN "marking" ELSE "idle"]
        /\ changes' = [changes EXCEPT ![server] = IF changed THEN changes[server] + 1
                                                 ELSE changes[server]]
    BY <1>2 DEF RecordDescriptions, Receives, IsChange
  <2>2. server = ServerOf[s] /\ server \in Servers  BY <1>0
  <2> HIDE DEF server, changed
  <2>3. CASE changed
    <3>1. handler' = [handler EXCEPT ![s] = "marking"]  BY <2>1, <2>3
    <3>2. \A v : Cardinality(Marking(handler', v))
                   = Cardinality(Marking(handler, v)) + Mark({server}, v)
      <4>1. \A v : Cardinality(Marking([handler EXCEPT ![s] = "marking"], v))
                     = Cardinality(Marking(handler, v)) + Mark({ServerOf[s]}, v)
        BY <2>1, <1>0, MarkingMoves
      <4>2. QED  BY <4>1, <3>1, <2>2
    <3>3. changes' \in [Servers -> Nat] /\ \A v \in Servers : changes'[v] = changes[v] + Mark({server}, v)
      BY <2>1, <2>2, <2>3 DEF Mark
    <3>4. ASSUME NEW v \in Servers
          PROVE  alarms'[v] + Mark(drifted', v) + Cardinality(Marking(handler', v)) <= changes'[v]
      <4>1. alarms[v] + Mark(drifted, v) + Cardinality(Marking(handler, v)) <= changes[v]
        BY <1>0 DEF Balance
      <4>2. /\ {Cardinality(Marking(handler, v)), Cardinality(Marking(handler', v))} \subseteq Nat
            /\ {Mark(drifted, v), Mark({server}, v)} \subseteq Nat
            /\ alarms[v] \in Nat /\ changes[v] \in Nat
        BY MarkingFinite DEF Mark
      <4>3. /\ Cardinality(Marking(handler', v))
                 = Cardinality(Marking(handler, v)) + Mark({server}, v)
            /\ changes'[v] = changes[v] + Mark({server}, v)
            /\ alarms'[v] = alarms[v] /\ drifted' = drifted
        BY <3>2, <3>3, <2>1
      <4>4. QED  BY <4>1, <4>2, <4>3
    <3>5. Balance(handler', drifted', alarms', changes')  BY <3>4 DEF Balance
    <3>6. QED  BY <3>3, <3>5, <2>1, <1>b
  <2>4. CASE ~changed
    <3>1. handler' = handler /\ changes' = changes  BY <1>0, <2>1, <2>2, <2>4
    <3>2. QED  BY <2>1, <3>1, <1>1
  <2>5. QED  BY <2>3, <2>4
<1>3. ASSUME NEW s \in Sessions, MarkDrift(s)  PROVE AlarmInv'
  <2>1. /\ handler[s] = "marking" /\ handler' = [handler EXCEPT ![s] = "idle"]
        /\ drifted' = drifted \cup {ServerOf[s]} /\ changes' = changes /\ alarms' = alarms
    BY <1>3 DEF MarkDrift, past
  <2>2. handler' \in [Sessions -> {"idle", "marking"}] /\ handler'[s] = "idle"
        /\ handler = [handler' EXCEPT ![s] = "marking"]
    BY <1>0, <2>1
  <2>3. \A v : Cardinality(Marking(handler, v))
                 = Cardinality(Marking(handler', v)) + Mark({ServerOf[s]}, v)
    <3>1. \A v : Cardinality(Marking([handler' EXCEPT ![s] = "marking"], v))
                   = Cardinality(Marking(handler', v)) + Mark({ServerOf[s]}, v)
      BY <2>2, MarkingMoves
    <3>2. QED  BY <2>2, <3>1
  <2>4. \A v : Mark(drifted', v) <= Mark(drifted, v) + Mark({ServerOf[s]}, v)  BY <2>1 DEF Mark
  <2>5. ASSUME NEW v \in Servers
        PROVE  alarms'[v] + Mark(drifted', v) + Cardinality(Marking(handler', v)) <= changes'[v]
    <3>1. alarms[v] + Mark(drifted, v) + Cardinality(Marking(handler, v)) <= changes[v]
      BY <1>0 DEF Balance
    <3>2. /\ {Cardinality(Marking(handler, v)), Cardinality(Marking(handler', v))} \subseteq Nat
          /\ {Mark(drifted, v), Mark(drifted', v), Mark({ServerOf[s]}, v)} \subseteq Nat
          /\ alarms[v] \in Nat /\ changes[v] \in Nat
      BY MarkingFinite DEF Mark
    <3>3. /\ Cardinality(Marking(handler, v))
               = Cardinality(Marking(handler', v)) + Mark({ServerOf[s]}, v)
          /\ Mark(drifted', v) <= Mark(drifted, v) + Mark({ServerOf[s]}, v)
          /\ alarms'[v] = alarms[v] /\ changes'[v] = changes[v]
      BY <2>1, <2>3, <2>4
    <3>4. QED  BY <3>1, <3>2, <3>3
  <2>6. Balance(handler', drifted', alarms', changes')  BY <2>5 DEF Balance
  <2>7. QED  BY <2>1, <2>6, <1>b
<1>4. ASSUME NEW s \in Sessions, Rule(s)  PROVE AlarmInv'
  <2>1. handler' = handler /\ changes' = changes  BY <1>4 DEF Rule
  <2>2. CASE ServerOf[s] \in drifted
    <3>1. drifted' = drifted \ {ServerOf[s]}
          /\ alarms' = [alarms EXCEPT ![ServerOf[s]] = alarms[ServerOf[s]] + 1]
      BY <1>4, <2>2 DEF Rule, Consume
    <3>2. alarms' \in [Servers -> Nat]
          /\ \A v \in Servers : alarms'[v] + Mark(drifted', v) = alarms[v] + Mark(drifted, v)
      BY <1>0, <2>2, <3>1 DEF Mark
    <3>3. Balance(handler', drifted', alarms', changes')
      BY <1>0, <2>1, <3>2 DEF Balance
    <3>4. QED  BY <2>1, <3>2, <3>3, <1>b
  <2>3. CASE ServerOf[s] \notin drifted
    <3>1. drifted' = drifted /\ alarms' = alarms  BY <1>4, <2>3 DEF Rule
    <3>2. QED  BY <2>1, <3>1, <1>1
  <2>4. QED  BY <2>2, <2>3
<1>5. ASSUME Crash  PROVE AlarmInv'
  <2>1. /\ handler' = [s \in Sessions |-> "idle"] /\ drifted' = {}
        /\ changes' = changes /\ alarms' = alarms
    BY <1>5 DEF Crash
  <2>2. \A v \in Servers : Marking(handler', v) = {}  BY <2>1 DEF Marking
  <2>3. Cardinality({}) = 0  BY FS_EmptySet
  <2>4. ASSUME NEW v \in Servers
        PROVE  alarms'[v] + Mark(drifted', v) + Cardinality(Marking(handler', v)) <= changes'[v]
    <3>1. alarms[v] + Mark(drifted, v) + Cardinality(Marking(handler, v)) <= changes[v]
      BY <1>0 DEF Balance
    <3>2. /\ Cardinality(Marking(handler, v)) \in Nat /\ Mark(drifted, v) \in Nat
          /\ Mark({}, v) = 0 /\ alarms[v] \in Nat /\ changes[v] \in Nat
      BY MarkingFinite DEF Mark
    <3>3. /\ Cardinality(Marking(handler', v)) = 0 /\ Mark(drifted', v) = 0
          /\ alarms'[v] = alarms[v] /\ changes'[v] = changes[v]
      BY <3>2, <2>1, <2>2, <2>3
    <3>4. QED  BY <3>1, <3>2, <3>3
  <2>5. Balance(handler', drifted', alarms', changes')  BY <2>4 DEF Balance
  <2>6. QED  BY <2>1, <2>5, <1>b
<1>6. ASSUME NEW s \in Sessions, NEW v \in Versions, ListTools(s, v)  PROVE AlarmInv'
  <2>1. UNCHANGED <<handler, drifted, changes, alarms>>  BY <1>6 DEF ListTools, past
  <2>2. QED  BY <2>1, <1>1
<1>7. ASSUME NEW s \in Sessions, Connect(s) \/ MakeCall(s) \/ RecordFails(s)  PROVE AlarmInv'
  <2>1. UNCHANGED <<handler, drifted, changes, alarms>>
    BY <1>7 DEF Connect, MakeCall, RecordFails, past
  <2>2. QED  BY <2>1, <1>1
<1>8. CASE UNCHANGED vars
  <2>1. UNCHANGED <<handler, drifted, changes, alarms>>  BY <1>8 DEF vars, past
  <2>2. QED  BY <2>1, <1>1
<1>9. QED  BY <1>2, <1>3, <1>4, <1>5, <1>6, <1>7, <1>8 DEF Next, Handler

(* However many sessions list and call one server's tool, one change of it  *)
(* raises no more than one alarm.                                          *)
THEOREM AlarmsAreChanges == Spec => []OneAlarmPerChange
<1>1. Spec => []TypeOK  BY TypeCorrect
<1>2. AlarmInv => OneAlarmPerChange  BY DEF AlarmInv
<1>3. QED  BY <1>1, <1>2, InitAlarms, StepAlarms, PTL DEF Spec

-----------------------------------------------------------------------------
(* A report not yet taken, and the version the last one brings.             *)
Pending(q) == \E i \in 1..Len(q) : q[i].type = "tools"
LastIs(q, v) ==
  \A i \in 1..Len(q) :
    q[i].type = "tools" /\ (\A j \in 1..Len(q) : j > i => q[j].type # "tools") => q[i].version = v

(* Versions nobody has to be asked about, and a server whose change is      *)
(* marked or about to be.                                                  *)
Passed(v)  == reviewed[v] \cup escaped[v] \cup {None}
Noticed(v) == v \in drifted \/ \E s \in Sessions : ServerOf[s] = v /\ handler[s] = "marking"

PastTypeOK ==
  /\ reviewed \in [Servers -> SUBSET (Versions \cup {None})]
  /\ escaped \in [Servers -> SUBSET (Versions \cup {None})]

(* Only a session that is connected has a call on its way.                  *)
Connected ==
  \A s \in Sessions :
    /\ awaiting[s] => link[s] = "open"
    /\ link[s] = "new" => shown[s] = None /\ queue[s] = <<>>
ShownIsLast == \A s \in Sessions : link[s] = "open" => LastIs(queue[s], shown[s])

(* What is in the database, and what a client was shown and reported, was   *)
(* asked about or escaped, or the next ruling will be told of it.          *)
StoredIsNoticed == \A v \in Servers : digests[v] \in Passed(v) \/ Noticed(v)
ShownIsNoticed ==
  \A s \in Sessions :
    link[s] = "open" /\ ~Pending(queue[s])
      => shown[s] \in Passed(ServerOf[s]) \/ Noticed(ServerOf[s])

FlagInv == PastTypeOK /\ Connected /\ ShownIsLast /\ StoredIsNoticed /\ ShownIsNoticed

LEMMA EmptyIsDone == \A v : ~Pending(<<>>) /\ LastIs(<<>>, v)
<1>1. 1..Len(<<>>) = {}  OBVIOUS
<1>2. QED  BY <1>1 DEF Pending, LastIs

LEMMA MessageTypes ==
  /\ \A m \in Message : (m.type = "tools" /\ m.version \in Versions) \/ m = Call
  /\ Call.type = "decide"
  /\ \A v : List(v).type = "tools" /\ List(v).version = v
BY DEF Message, Call, List

(* A message is put at the end of a queue.                                  *)
LEMMA SentPending ==
  ASSUME NEW q \in Seq(Message), NEW m \in Message
  PROVE  /\ Pending(Append(q, m)) <=> Pending(q) \/ m.type = "tools"
         /\ m.type = "tools" => LastIs(Append(q, m), m.version)
         /\ \A v : m.type # "tools" /\ LastIs(q, v) => LastIs(Append(q, m), v)
<1> DEFINE t == Append(q, m)
<1>1. /\ Len(q) \in Nat /\ Len(t) = Len(q) + 1 /\ t[Len(q) + 1] = m
      /\ \A i \in 1..Len(q) : t[i] = q[i]
  OBVIOUS
<1> HIDE DEF t
<1>2. /\ \A i \in 1..Len(t) : i \in 1..Len(q) \/ i = Len(q) + 1
      /\ \A i \in 1..Len(q) : i \in 1..Len(t) /\ i < Len(q) + 1
      /\ Len(q) + 1 \in 1..Len(t)
  BY <1>1
<1>3. Pending(t) <=> Pending(q) \/ m.type = "tools"  BY <1>1, <1>2 DEF Pending
<1>4. m.type = "tools" => LastIs(t, m.version)
  <2> SUFFICES ASSUME m.type = "tools", NEW i \in 1..Len(t),
                      \A j \in 1..Len(t) : j > i => t[j].type # "tools"
               PROVE  t[i].version = m.version
    BY DEF LastIs
  <2>1. ~(Len(q) + 1 > i)  BY <1>1, <1>2
  <2>2. i = Len(q) + 1  BY <1>1, <1>2, <2>1
  <2>3. QED  BY <1>1, <2>2
<1>5. ASSUME NEW v, m.type # "tools", LastIs(q, v) PROVE LastIs(t, v)
  <2> SUFFICES ASSUME NEW i \in 1..Len(t), t[i].type = "tools",
                      \A j \in 1..Len(t) : j > i => t[j].type # "tools"
               PROVE  t[i].version = v
    BY DEF LastIs
  <2>1. i \in 1..Len(q) /\ t[i] = q[i]  BY <1>1, <1>2, <1>5
  <2>2. \A j \in 1..Len(q) : j > i => q[j].type # "tools"  BY <1>1, <1>2
  <2>3. QED  BY <1>5, <2>1, <2>2 DEF LastIs
<1>6. QED  BY <1>3, <1>4, <1>5 DEF t

(* The first message of a queue is taken.                                   *)
LEMMA TakenPending ==
  ASSUME NEW q \in Seq(Message), q # <<>>
  PROVE  /\ Pending(q) <=> Pending(Tail(q)) \/ Head(q).type = "tools"
         /\ \A v : LastIs(q, v) => LastIs(Tail(q), v)
         /\ \A v : LastIs(q, v) /\ Head(q).type = "tools" /\ ~Pending(Tail(q))
                     => Head(q).version = v
<1> DEFINE t == Tail(q)
<1>1. /\ Len(q) \in Nat \ {0} /\ Len(t) = Len(q) - 1 /\ Head(q) = q[1]
      /\ \A i \in 1..(Len(q) - 1) : t[i] = q[i + 1]
  OBVIOUS
<1> HIDE DEF t
<1>2. /\ \A i \in 1..Len(q) : i = 1 \/ (i - 1 \in 1..Len(t) /\ t[i - 1] = q[i])
      /\ \A i \in 1..Len(t) : i + 1 \in 1..Len(q) /\ t[i] = q[i + 1]
      /\ 1 \in 1..Len(q)
  BY <1>1
<1>3. Pending(q) <=> Pending(t) \/ Head(q).type = "tools"
  <2>1. Pending(q) => Pending(t) \/ q[1].type = "tools"  BY <1>2 DEF Pending
  <2>2. Pending(t) => Pending(q)  BY <1>2 DEF Pending
  <2>3. q[1].type = "tools" => Pending(q)  BY <1>2 DEF Pending
  <2>4. QED  BY <1>1, <2>1, <2>2, <2>3
<1>4. ASSUME NEW v, LastIs(q, v) PROVE LastIs(t, v)
  <2> SUFFICES ASSUME NEW i \in 1..Len(t), t[i].type = "tools",
                      \A j \in 1..Len(t) : j > i => t[j].type # "tools"
               PROVE  t[i].version = v
    BY DEF LastIs
  <2>1. i + 1 \in 1..Len(q) /\ q[i + 1].type = "tools"  BY <1>2
  <2>2. ASSUME NEW j \in 1..Len(q), j > i + 1 PROVE q[j].type # "tools"
    <3>1. j # 1 /\ j - 1 > i  BY <2>2
    <3>2. QED  BY <1>2, <3>1
  <2>3. q[i + 1].version = v  BY <1>4, <2>1, <2>2 DEF LastIs
  <2>4. QED  BY <1>2, <2>3
<1>5. ASSUME NEW v, LastIs(q, v), Head(q).type = "tools", ~Pending(t) PROVE Head(q).version = v
  <2>1. ASSUME NEW j \in 1..Len(q), j > 1 PROVE q[j].type # "tools"
    <3>1. \A i \in 1..Len(t) : t[i].type # "tools"  BY <1>5 DEF Pending
    <3>2. j # 1  BY <2>1
    <3>3. QED  BY <1>2, <3>1, <3>2
  <2>2. 1 \in 1..Len(q) /\ q[1].type = "tools"  BY <1>1, <1>2, <1>5
  <2>3. q[1].version = v  BY <1>5, <2>1, <2>2 DEF LastIs
  <2>4. QED  BY <1>1, <2>3
<1>6. QED  BY <1>3, <1>4, <1>5 DEF t

(* Nothing of what the conditions say of a server is touched.               *)
LEMMA VersionsUntouched ==
  ASSUME UNCHANGED <<handler, digests, drifted, reviewed, escaped>>
  PROVE  /\ \A v \in Servers : Passed(v)' = Passed(v) /\ (Noticed(v)' <=> Noticed(v))
         /\ PastTypeOK => PastTypeOK'
         /\ StoredIsNoticed => StoredIsNoticed'
<1>1. \A v \in Servers : Passed(v)' = Passed(v)  BY DEF Passed
<1>2. \A v \in Servers : Noticed(v)' <=> Noticed(v)  BY DEF Noticed
<1>3. StoredIsNoticed => StoredIsNoticed'  BY <1>1, <1>2 DEF StoredIsNoticed
<1>4. QED  BY <1>1, <1>2, <1>3 DEF PastTypeOK

(* No version is taken back, and no mark that matters.                      *)
LEMMA StillNoticed ==
  ASSUME TypeOK, FlagInv, NEW s \in Sessions,
         \A v \in Servers : Passed(v) \subseteq Passed(v)',
         \A v \in Servers : Noticed(v) => Noticed(v)',
         \A r \in Sessions \ {s} : queue'[r] = queue[r],
         link' = link, shown' = shown, awaiting'[s] => awaiting[s],
         link[s] = "new" => queue'[s] = queue[s],
         \A r \in Sessions \ {s} : awaiting'[r] = awaiting[r],
         LastIs(queue[s], shown[s]) => LastIs(queue'[s], shown[s]),
         ~Pending(queue'[s]) /\ link[s] = "open" =>
            shown[s] \in Passed(ServerOf[s])' \/ Noticed(ServerOf[s])'
  PROVE  Connected' /\ ShownIsLast' /\ ShownIsNoticed'
<1> USE DEF FlagInv
<1>1. Connected'  BY DEF Connected
<1>2. ShownIsLast'
  <2>1. ASSUME NEW r \in Sessions, link[r] = "open" PROVE LastIs(queue'[r], shown[r])
    BY <2>1 DEF ShownIsLast
  <2>2. QED  BY <2>1 DEF ShownIsLast, LastIs
<1>3. ShownIsNoticed'
  <2>1. ASSUME NEW r \in Sessions, link[r] = "open", ~Pending(queue'[r])
        PROVE  shown[r] \in Passed(ServerOf[r])' \/ Noticed(ServerOf[r])'
    <3>1. CASE r = s  BY <2>1, <3>1
    <3>2. CASE r # s
      <4>1. ServerOf[r] \in Servers  OBVIOUS
      <4>2. shown[r] \in Passed(ServerOf[r]) \/ Noticed(ServerOf[r])
        BY <2>1, <3>2 DEF ShownIsNoticed
      <4>3. QED  BY <4>1, <4>2
    <3>3. QED  BY <3>1, <3>2
  <2>2. QED  BY <2>1 DEF ShownIsNoticed
<1>4. QED  BY <1>1, <1>2, <1>3

LEMMA InitFlags == Init => FlagInv
<1> SUFFICES ASSUME Init PROVE FlagInv  OBVIOUS
<1>1. PastTypeOK  BY DEF Init, PastTypeOK
<1>2. Connected /\ ShownIsLast  BY DEF Init, Connected, ShownIsLast
<1>3. StoredIsNoticed  BY DEF Init, StoredIsNoticed, Passed
<1>4. ShownIsNoticed  BY DEF Init, ShownIsNoticed
<1>5. QED  BY <1>1, <1>2, <1>3, <1>4 DEF FlagInv

LEMMA SessionKeepsFlags ==
  ASSUME TypeOK, FlagInv, NEW s \in Sessions,
         Connect(s) \/ MakeCall(s) \/ \E v \in Versions : ListTools(s, v)
  PROVE  FlagInv'
<1> USE DEF FlagInv
<1>1. UNCHANGED <<handler, digests, drifted, reviewed, escaped>>
  BY DEF Connect, MakeCall, ListTools, past
<1>2. /\ PastTypeOK' /\ StoredIsNoticed'
      /\ \A v \in Servers : Passed(v)' = Passed(v) /\ (Noticed(v)' <=> Noticed(v))
  BY <1>1, VersionsUntouched
<1>3. \A r \in Sessions : queue[r] \in Seq(Message) /\ ServerOf[r] \in Servers  BY DEF TypeOK
<1>4. /\ link \in [Sessions -> {"new", "open", "lost"}] /\ queue \in [Sessions -> Seq(Message)]
      /\ awaiting \in [Sessions -> BOOLEAN] /\ shown \in [Sessions -> Versions \cup {None}]
  BY DEF TypeOK
<1>5. ASSUME NEW r \in Sessions, r # s,
             queue'[r] = queue[r], link'[r] = link[r], shown'[r] = shown[r], awaiting'[r] = awaiting[r]
      PROVE  /\ awaiting'[r] => link'[r] = "open"
             /\ link'[r] = "new" => shown'[r] = None /\ queue'[r] = <<>>
             /\ link'[r] = "open" => LastIs(queue'[r], shown'[r])
             /\ link'[r] = "open" /\ ~Pending(queue'[r])
                  => shown'[r] \in Passed(ServerOf[r])' \/ Noticed(ServerOf[r])'
  <2>1. /\ awaiting[r] => link[r] = "open"
        /\ link[r] = "new" => shown[r] = None /\ queue[r] = <<>>
    BY DEF Connected
  <2>2. link[r] = "open" => LastIs(queue[r], shown[r])  BY DEF ShownIsLast
  <2>3. link[r] = "open" /\ ~Pending(queue[r])
          => shown[r] \in Passed(ServerOf[r]) \/ Noticed(ServerOf[r])
    BY DEF ShownIsNoticed
  <2>4. QED  BY <1>2, <1>3, <1>5, <2>1, <2>2, <2>3
<1>6. /\ \A r \in Sessions \ {s} : /\ queue'[r] = queue[r] /\ link'[r] = link[r]
                                   /\ shown'[r] = shown[r] /\ awaiting'[r] = awaiting[r]
      /\ link'[s] = "open"
      /\ LastIs(queue'[s], shown'[s])
      /\ ~Pending(queue'[s]) => shown'[s] \in Passed(ServerOf[s])' \/ Noticed(ServerOf[s])'
  <2>1. CASE Connect(s)
    <3>1. /\ link[s] = "new" /\ link' = [link EXCEPT ![s] = "open"]
          /\ queue' = queue /\ awaiting' = awaiting /\ shown' = shown
      BY <2>1 DEF Connect
    <3>2. shown[s] = None /\ queue[s] = <<>>  BY <3>1 DEF Connected
    <3>3. None \in Passed(ServerOf[s])  BY DEF Passed
    <3>4. QED  BY <1>2, <1>3, <1>4, <3>1, <3>2, <3>3, EmptyIsDone
  <2>2. CASE MakeCall(s)
    <3>1. /\ link[s] = "open" /\ queue' = [queue EXCEPT ![s] = Append(queue[s], Call)]
          /\ awaiting' = [awaiting EXCEPT ![s] = TRUE] /\ link' = link /\ shown' = shown
      BY <2>2 DEF MakeCall, Send
    <3>2. Call \in Message /\ Call.type # "tools"  BY MessageTypes DEF Message
    <3>3. /\ Pending(Append(queue[s], Call)) <=> Pending(queue[s])
          /\ LastIs(queue[s], shown[s]) => LastIs(Append(queue[s], Call), shown[s])
      BY <1>3, <3>2, SentPending
    <3>4. LastIs(queue[s], shown[s])  BY <3>1 DEF ShownIsLast
    <3>5. ~Pending(queue[s]) => shown[s] \in Passed(ServerOf[s]) \/ Noticed(ServerOf[s])
      BY <3>1 DEF ShownIsNoticed
    <3>6. QED  BY <1>2, <1>3, <1>4, <3>1, <3>3, <3>4, <3>5
  <2>3. CASE \E v \in Versions : ListTools(s, v)
    <3>1. PICK v \in Versions : ListTools(s, v)  BY <2>3
    <3>2. /\ link[s] = "open" /\ queue' = [queue EXCEPT ![s] = Append(queue[s], List(v))]
          /\ shown' = [shown EXCEPT ![s] = v] /\ link' = link /\ awaiting' = awaiting
      BY <3>1 DEF ListTools, Send
    <3>3. List(v) \in Message /\ List(v).type = "tools" /\ List(v).version = v
      BY MessageTypes DEF List, Message
    <3>4. Pending(Append(queue[s], List(v))) /\ LastIs(Append(queue[s], List(v)), v)
      BY <1>3, <3>3, SentPending
    <3>5. QED  BY <1>4, <3>2, <3>4
  <2>4. QED  BY <2>1, <2>2, <2>3
<1>7. Connected'  BY <1>5, <1>6 DEF Connected
<1>8. ShownIsLast'  BY <1>5, <1>6 DEF ShownIsLast
<1>9. ShownIsNoticed'
  <2>1. \A r \in Sessions : link'[r] = "open" /\ ~Pending(queue'[r])
          => shown'[r] \in Passed(ServerOf[r])' \/ Noticed(ServerOf[r])'
    BY <1>5, <1>6
  <2>2. QED  BY <2>1 DEF ShownIsNoticed
<1>10. QED  BY <1>2, <1>7, <1>8, <1>9

LEMMA HandlerKeepsFlags ==
  ASSUME TypeOK, FlagInv, NEW s \in Sessions, Handler(s)
  PROVE  FlagInv'
<1> DEFINE v == ServerOf[s]
           h == Head(queue[s])
<1> USE DEF FlagInv
<1>1. /\ \A r \in Sessions : queue[r] \in Seq(Message) /\ ServerOf[r] \in Servers
      /\ link \in [Sessions -> {"new", "open", "lost"}] /\ queue \in [Sessions -> Seq(Message)]
      /\ awaiting \in [Sessions -> BOOLEAN] /\ shown \in [Sessions -> Versions \cup {None}]
      /\ handler \in [Sessions -> {"idle", "marking"}]
      /\ digests \in [Servers -> Versions \cup {None}]
      /\ reviewed \in [Servers -> SUBSET (Versions \cup {None})]
      /\ escaped \in [Servers -> SUBSET (Versions \cup {None})]
  BY DEF TypeOK, PastTypeOK
<1>2. ASSUME NEW type, Receives(s, type)
      PROVE  /\ handler[s] = "idle" /\ h.type = type
             /\ \A r \in Sessions \ {s} : queue'[r] = queue[r]
             /\ queue'[s] = Tail(queue[s]) /\ queue[s] # <<>>
             /\ LastIs(queue[s], shown[s]) => LastIs(queue'[s], shown[s])
             /\ type # "tools" => (Pending(queue'[s]) <=> Pending(queue[s]))
             /\ type = "tools" /\ LastIs(queue[s], shown[s]) /\ ~Pending(queue'[s])
                  => h.version = shown[s]
             /\ type = "tools" => h.version \in Versions
             /\ link[s] # "new"
  <2>1. /\ handler[s] = "idle" /\ h.type = type /\ queue[s] # <<>>
        /\ queue' = [queue EXCEPT ![s] = Tail(queue[s])]
    BY <1>2 DEF Receives
  <2>2. h \in Message  BY <1>1, <2>1
  <2>3. type = "tools" => h.version \in Versions  BY <2>1, <2>2, MessageTypes
  <2>4. queue'[s] = Tail(queue[s]) /\ \A r \in Sessions \ {s} : queue'[r] = queue[r]
    BY <1>1, <2>1
  <2>5. /\ LastIs(queue[s], shown[s]) => LastIs(Tail(queue[s]), shown[s])
        /\ Pending(queue[s]) <=> Pending(Tail(queue[s])) \/ h.type = "tools"
        /\ LastIs(queue[s], shown[s]) /\ h.type = "tools" /\ ~Pending(Tail(queue[s]))
             => h.version = shown[s]
    BY <1>1, <2>1, TakenPending
  <2>6. link[s] # "new"  BY <2>1 DEF Connected
  <2>7. QED  BY <2>1, <2>3, <2>4, <2>5, <2>6
<1>3. CASE RecordDescriptions(s)
  <2>1. /\ Receives(s, "tools") /\ digests' = [digests EXCEPT ![v] = h.version]
        /\ handler' = [handler EXCEPT ![s] = IF IsChange(digests[v], h.version)
                                             THEN "marking" ELSE "idle"]
        /\ reviewed' = [reviewed EXCEPT ![v] = IF digests[v] = None
                                               THEN reviewed[v] \cup {h.version} ELSE reviewed[v]]
        /\ escaped' = escaped /\ drifted' = drifted
        /\ link' = link /\ awaiting' = awaiting /\ shown' = shown
    BY <1>3 DEF RecordDescriptions
  <2>2. h.version \in Versions /\ handler[s] = "idle"  BY <1>2, <2>1
  <2> HIDE DEF h
  <2>3. PastTypeOK'  BY <1>1, <2>1, <2>2 DEF PastTypeOK
  <2>4. \A w \in Servers : Passed(w) \subseteq Passed(w)'  BY <1>1, <2>1 DEF Passed
  <2>5. \A w \in Servers : Noticed(w) => Noticed(w)'
    <3>1. \A r \in Sessions : handler[r] = "marking" => handler'[r] = "marking"
      BY <1>1, <2>1, <2>2
    <3>2. QED  BY <2>1, <3>1 DEF Noticed
  <2>6. h.version \in Passed(v)' \/ Noticed(v)'
    <3>1. CASE digests[v] = None
      <4>1. h.version \in reviewed'[v]  BY <1>1, <2>1, <3>1
      <4>2. QED  BY <4>1 DEF Passed
    <3>2. CASE digests[v] = h.version
      <4>1. h.version \in Passed(v) \/ Noticed(v)  BY <1>1, <3>2 DEF StoredIsNoticed
      <4>2. QED  BY <1>1, <2>4, <2>5, <4>1
    <3>3. CASE digests[v] # None /\ digests[v] # h.version
      <4>1. handler'[s] = "marking"  BY <1>1, <2>1, <3>3 DEF IsChange
      <4>2. QED  BY <4>1 DEF Noticed
    <3>4. QED  BY <3>1, <3>2, <3>3
  <2>7. StoredIsNoticed'
    <3>1. ASSUME NEW w \in Servers PROVE digests'[w] \in Passed(w)' \/ Noticed(w)'
      <4>1. CASE w = v  BY <1>1, <2>1, <2>6, <4>1
      <4>2. CASE w # v
        <5>1. digests'[w] = digests[w]  BY <1>1, <2>1, <4>2
        <5>2. QED  BY <2>4, <2>5, <5>1 DEF StoredIsNoticed
      <4>3. QED  BY <4>1, <4>2
    <3>2. QED  BY <3>1 DEF StoredIsNoticed
  <2>8. ~Pending(queue'[s]) /\ link[s] = "open" => shown[s] \in Passed(v)' \/ Noticed(v)'
    <3>1. link[s] = "open" => LastIs(queue[s], shown[s])  BY DEF ShownIsLast
    <3>2. QED  BY <1>2, <2>1, <2>6, <3>1 DEF h
  <2>9. Connected' /\ ShownIsLast' /\ ShownIsNoticed'
    BY <1>2, <2>1, <2>4, <2>5, <2>8, StillNoticed
  <2>10. QED  BY <2>3, <2>7, <2>9
<1>4. CASE RecordFails(s)
  <2>1. /\ Receives(s, "tools")
        /\ escaped' = [escaped EXCEPT ![v] = escaped[v] \cup {h.version}]
        /\ handler' = handler /\ digests' = digests /\ reviewed' = reviewed /\ drifted' = drifted
        /\ link' = link /\ awaiting' = awaiting /\ shown' = shown
    BY <1>4 DEF RecordFails
  <2>2. h.version \in Versions  BY <1>2, <2>1
  <2> HIDE DEF h
  <2>3. PastTypeOK'  BY <1>1, <2>1, <2>2 DEF PastTypeOK
  <2>4. \A w \in Servers : Passed(w) \subseteq Passed(w)'  BY <1>1, <2>1 DEF Passed
  <2>5. \A w \in Servers : Noticed(w) => Noticed(w)'  BY <2>1 DEF Noticed
  <2>6. h.version \in Passed(v)'
    <3>1. h.version \in escaped'[v]  BY <1>1, <2>1
    <3>2. QED  BY <3>1 DEF Passed
  <2>7. StoredIsNoticed'  BY <2>1, <2>4, <2>5 DEF StoredIsNoticed
  <2>8. ~Pending(queue'[s]) /\ link[s] = "open" => shown[s] \in Passed(v)' \/ Noticed(v)'
    <3>1. link[s] = "open" => LastIs(queue[s], shown[s])  BY DEF ShownIsLast
    <3>2. QED  BY <1>2, <2>1, <2>6, <3>1 DEF h
  <2>9. Connected' /\ ShownIsLast' /\ ShownIsNoticed'
    BY <1>2, <2>1, <2>4, <2>5, <2>8, StillNoticed
  <2>10. QED  BY <2>3, <2>7, <2>9
<1>5. CASE MarkDrift(s)
  <2>1. /\ handler' = [handler EXCEPT ![s] = "idle"] /\ drifted' = drifted \cup {v}
        /\ digests' = digests /\ reviewed' = reviewed /\ escaped' = escaped
        /\ link' = link /\ queue' = queue /\ awaiting' = awaiting /\ shown' = shown
    BY <1>5 DEF MarkDrift, session, past
  <2>2. \A w \in Servers : Passed(w) \subseteq Passed(w)'  BY <2>1 DEF Passed
  <2>3. ASSUME NEW w \in Servers, Noticed(w) PROVE Noticed(w)'
    <3>1. CASE w \in drifted'  BY <3>1 DEF Noticed
    <3>2. CASE w \notin drifted'
      <4>1. PICK r \in Sessions : ServerOf[r] = w /\ handler[r] = "marking"
        BY <2>1, <2>3, <3>2 DEF Noticed
      <4>2. r # s  BY <2>1, <3>2, <4>1
      <4>3. handler'[r] = "marking"  BY <1>1, <2>1, <4>1, <4>2
      <4>4. QED  BY <4>1, <4>3 DEF Noticed
    <3>3. QED  BY <3>1, <3>2
  <2>4. PastTypeOK'  BY <2>1 DEF PastTypeOK
  <2>5. StoredIsNoticed'  BY <2>1, <2>2, <2>3 DEF StoredIsNoticed
  <2>6. ~Pending(queue'[s]) /\ link[s] = "open" => shown[s] \in Passed(v)' \/ Noticed(v)'
    <3>1. ~Pending(queue[s]) /\ link[s] = "open" => shown[s] \in Passed(v) \/ Noticed(v)
      BY DEF ShownIsNoticed
    <3>2. QED  BY <1>1, <2>1, <2>2, <2>3, <3>1
  <2>7. Connected' /\ ShownIsLast' /\ ShownIsNoticed'
    BY <2>1, <2>2, <2>3, <2>6, StillNoticed
  <2>8. QED  BY <2>4, <2>5, <2>7
<1>6. CASE Rule(s)
  <2> DEFINE told == v \in drifted
             seen == IF told THEN reviewed[v] \cup {shown[s]} ELSE reviewed[v]
  <2>1. /\ Receives(s, "decide") /\ awaiting' = [awaiting EXCEPT ![s] = FALSE]
        /\ drifted' = IF told THEN drifted \ {v} ELSE drifted
        /\ reviewed' = [reviewed EXCEPT ![v] = seen]
        /\ escaped' = [escaped EXCEPT ![v] = IF told THEN (escaped[v] \cup OthersView(s)) \ seen
                                             ELSE escaped[v]]
        /\ handler' = handler /\ digests' = digests /\ link' = link /\ shown' = shown
    BY <1>6 DEF Rule, Consume
  <2>2. OthersView(s) \subseteq Versions \cup {None}
    BY <1>1 DEF OthersView
  <2>3. /\ reviewed'[v] = seen /\ \A w \in Servers \ {v} : reviewed'[w] = reviewed[w]
        /\ escaped'[v] = IF told THEN (escaped[v] \cup OthersView(s)) \ seen ELSE escaped[v]
        /\ \A w \in Servers \ {v} : escaped'[w] = escaped[w]
    BY <1>1, <2>1
  <2>4. PastTypeOK'
    <3>1. seen \subseteq Versions \cup {None}  BY <1>1
    <3>2. (IF told THEN (escaped[v] \cup OthersView(s)) \ seen ELSE escaped[v])
            \subseteq Versions \cup {None}
      BY <1>1, <2>2
    <3> HIDE DEF seen, told
    <3>3. QED  BY <1>1, <2>1, <3>1, <3>2 DEF PastTypeOK
  <2>5. \A w \in Servers : Passed(w) \subseteq Passed(w)'
    <3>1. Passed(v) \subseteq Passed(v)'  BY <2>3 DEF Passed
    <3>2. \A w \in Servers \ {v} : Passed(w)' = Passed(w)  BY <2>3 DEF Passed
    <3>3. QED  BY <3>1, <3>2
  <2>6. told => OthersView(s) \cup {shown[s]} \subseteq Passed(v)'
    BY <2>3 DEF Passed
  <2>7. \A w \in Servers : Noticed(w) => Noticed(w)' \/ (told /\ w = v)
    BY <2>1 DEF Noticed
  <2> HIDE DEF told, seen
  <2>8. StoredIsNoticed'
    <3>1. digests[v] \in OthersView(s)  BY DEF OthersView
    <3>2. ASSUME NEW w \in Servers PROVE digests[w] \in Passed(w)' \/ Noticed(w)'
      <4>1. CASE told /\ w = v  BY <2>6, <3>1, <4>1
      <4>2. CASE ~(told /\ w = v)  BY <2>5, <2>7, <4>2 DEF StoredIsNoticed
      <4>3. QED  BY <4>1, <4>2
    <3>3. QED  BY <2>1, <3>2 DEF StoredIsNoticed
  <2>9. Connected'
    <3>1. awaiting'[s] = FALSE /\ \A r \in Sessions \ {s} : awaiting'[r] = awaiting[r]
      BY <1>1, <2>1
    <3>2. /\ link[s] # "new"
          /\ \A r \in Sessions \ {s} : queue'[r] = queue[r]
      BY <1>2, <2>1
    <3>3. QED  BY <2>1, <3>1, <3>2 DEF Connected
  <2>10. \A r \in Sessions : /\ Pending(queue'[r]) <=> Pending(queue[r])
                             /\ LastIs(queue[r], shown[r]) => LastIs(queue'[r], shown[r])
    <3>1. /\ Pending(queue'[s]) <=> Pending(queue[s])
          /\ LastIs(queue[s], shown[s]) => LastIs(queue'[s], shown[s])
          /\ \A r \in Sessions \ {s} : queue'[r] = queue[r]
      BY <1>2, <2>1
    <3>2. QED  BY <3>1
  <2>11. ShownIsLast'  BY <2>1, <2>10 DEF ShownIsLast
  <2>12. ShownIsNoticed'
    <3>1. ASSUME NEW r \in Sessions, link[r] = "open", ~Pending(queue[r])
          PROVE  shown[r] \in Passed(ServerOf[r])' \/ Noticed(ServerOf[r])'
      <4>1. shown[r] \in Passed(ServerOf[r]) \/ Noticed(ServerOf[r])  BY <3>1 DEF ShownIsNoticed
      <4>2. CASE ~(told /\ ServerOf[r] = v)  BY <1>1, <2>5, <2>7, <4>1, <4>2
      <4>3. CASE told /\ ServerOf[r] = v
        <5>1. \A i \in DOMAIN queue[r] : queue[r][i].type # "tools"
          BY <1>1, <3>1 DEF Pending
        <5>2. r # s => shown[r] \in OthersView(s)  BY <4>3, <5>1 DEF OthersView
        <5>3. QED  BY <2>6, <4>3, <5>2
      <4>4. QED  BY <4>2, <4>3
    <3>2. QED  BY <2>1, <2>10, <3>1 DEF ShownIsNoticed
  <2>13. QED  BY <2>4, <2>8, <2>9, <2>11, <2>12
<1>7. QED  BY <1>3, <1>4, <1>5, <1>6 DEF Handler

LEMMA CrashKeepsFlags ==
  ASSUME TypeOK, FlagInv, Crash
  PROVE  FlagInv'
<1> USE DEF FlagInv
<1>1. /\ link' = [s \in Sessions |-> IF link[s] = "open" THEN "lost" ELSE link[s]]
      /\ queue' = [s \in Sessions |-> <<>>] /\ awaiting' = [s \in Sessions |-> FALSE]
      /\ escaped' = [v \in Servers |-> escaped[v] \cup ({digests[v]} \ reviewed[v])]
      /\ shown' = shown /\ digests' = digests /\ reviewed' = reviewed
  BY DEF Crash
<1>2. PastTypeOK'  BY <1>1 DEF PastTypeOK, TypeOK
<1>3. \A s \in Sessions : link'[s] # "open" /\ (link'[s] = "new" => link[s] = "new")  BY <1>1
<1>4. Connected'  BY <1>1, <1>3 DEF Connected
<1>5. ShownIsLast' /\ ShownIsNoticed'  BY <1>3 DEF ShownIsLast, ShownIsNoticed
<1>6. StoredIsNoticed'
  <2>1. \A v \in Servers : digests[v] \in reviewed[v] \cup escaped'[v]  BY <1>1
  <2>2. QED  BY <1>1, <2>1 DEF StoredIsNoticed, Passed
<1>7. QED  BY <1>2, <1>4, <1>5, <1>6

LEMMA StepFlags == TypeOK /\ FlagInv /\ [Next]_vars => FlagInv'
<1> SUFFICES ASSUME TypeOK, FlagInv, [Next]_vars  PROVE FlagInv'  OBVIOUS
<1>1. CASE UNCHANGED vars
  <2> USE DEF FlagInv
  <2>1. UNCHANGED <<handler, digests, drifted, reviewed, escaped>>
    BY <1>1 DEF vars, past
  <2>2. /\ PastTypeOK' /\ StoredIsNoticed'
        /\ \A v \in Servers : Passed(v)' = Passed(v) /\ (Noticed(v)' <=> Noticed(v))
    BY <2>1, VersionsUntouched
  <2>3. link' = link /\ queue' = queue /\ awaiting' = awaiting /\ shown' = shown
    BY <1>1 DEF vars, session
  <2>4. \A s \in Sessions : ServerOf[s] \in Servers  OBVIOUS
  <2>5. Connected' /\ ShownIsLast'  BY <2>3 DEF Connected, ShownIsLast
  <2>6. ShownIsNoticed'  BY <2>2, <2>3, <2>4 DEF ShownIsNoticed
  <2>7. QED  BY <2>2, <2>5, <2>6
<1>2. QED  BY <1>1, SessionKeepsFlags, HandlerKeepsFlags, CrashKeepsFlags DEF Next

CrashesCounted == crashes \in Nat
LEMMA CrashesAreCounted == Spec => []CrashesCounted
<1>1. Init => CrashesCounted  BY DEF Init, CrashesCounted
<1>2. CrashesCounted /\ [Next]_vars => CrashesCounted'
  <2>1. [Next]_vars => crashes' = crashes \/ crashes' = crashes + 1
    <3>1. Next => crashes' = crashes \/ crashes' = crashes + 1
      BY DEF Next, Connect, MakeCall, ListTools, Handler, RecordDescriptions, RecordFails,
             MarkDrift, Rule, Crash
    <3>2. UNCHANGED vars => crashes' = crashes  BY DEF vars
    <3>3. QED  BY <3>1, <3>2
  <2>2. QED  BY <2>1 DEF CrashesCounted
<1>3. QED  BY <1>1, <1>2, PTL DEF Spec

(* A ruling on a call to a tool whose new description nobody was asked      *)
(* about is told of the change, whatever other sessions list, call or lose  *)
(* (decide.rs:56-90, mod.rs:250-285, query.rs:84-91).                     *)
THEOREM ChangesAreFlagged == Spec => ChangeIsFlagged
<1>1. ASSUME TypeOK, FlagInv, CrashesCounted, [Next]_vars, NEW s \in Sessions, Ruling(s), Unreviewed(s)
      PROVE  flagged'
  <2>1. awaiting[s] /\ ~awaiting'[s] /\ crashes' = crashes /\ s \in Sessions
    BY <1>1 DEF Ruling
  <2>2. Rule(s)
    <3>1. awaiting' # awaiting  BY <2>1
    <3>2. ~Crash  BY <1>1, <2>1 DEF Crash, CrashesCounted
    <3>3. \A r : ~Connect(r) /\ ~RecordDescriptions(r) /\ ~RecordFails(r) /\ ~MarkDrift(r)
      BY <3>1 DEF Connect, RecordDescriptions, RecordFails, MarkDrift, session
    <3>4. \A r, v : ~ListTools(r, v)  BY <3>1 DEF ListTools
    <3>5. ~UNCHANGED vars  BY <3>1 DEF vars, session
    <3>6. ASSUME NEW r \in Sessions, MakeCall(r) \/ Rule(r), r # s  PROVE FALSE
      <4>1. \/ awaiting' = [awaiting EXCEPT ![r] = TRUE]
            \/ awaiting' = [awaiting EXCEPT ![r] = FALSE]
        BY <3>6 DEF MakeCall, Rule
      <4>2. awaiting'[s] = awaiting[s]  BY <1>1, <3>6, <4>1 DEF TypeOK
      <4>3. QED  BY <2>1, <4>2
    <3>7. ~MakeCall(s)  BY <2>1 DEF MakeCall
    <3>8. QED  BY <1>1, <3>2, <3>3, <3>4, <3>5, <3>6, <3>7 DEF Next, Handler
  <2>3. flagged' = (ServerOf[s] \in drifted) /\ Receives(s, "decide")  BY <2>2 DEF Rule
  <2>4. ~Pending(queue[s])
    <3>1. queue[s] \in Seq(Message) /\ queue[s] # <<>> /\ Head(queue[s]).type = "decide"
      BY <1>1, <2>3 DEF Receives, TypeOK
    <3>2. Head(queue[s]) = queue[s][1] /\ Len(queue[s]) \in Nat \ {0} /\ queue[s][1] \in Message
      BY <3>1
    <3>3. queue[s][1] = Call  BY <3>1, <3>2, MessageTypes
    <3>4. 1 \in 1..Len(queue[s]) /\ CallIsLast(queue[s], awaiting[s])  BY <1>1, <3>2 DEF TypeOK
    <3>5. 1 = Len(queue[s])  BY <3>3, <3>4 DEF CallIsLast
    <3>6. \A i \in 1..Len(queue[s]) : queue[s][i] = Call  BY <3>3, <3>5
    <3>7. QED  BY <3>6, MessageTypes DEF Pending
  <2>5. link[s] = "open"  BY <1>1, <2>1 DEF FlagInv, Connected
  <2>6. shown[s] \in Passed(ServerOf[s]) \/ Noticed(ServerOf[s])
    BY <1>1, <2>4, <2>5 DEF FlagInv, ShownIsNoticed
  <2>7. ServerOf[s] \in drifted
    BY <1>1, <2>6 DEF Unreviewed, Passed, Noticed
  <2>8. QED  BY <2>3, <2>7
<1>2. TypeOK /\ FlagInv /\ CrashesCounted /\ [Next]_vars =>
        [\A s \in Sessions : Ruling(s) /\ Unreviewed(s) => flagged']_vars
  BY <1>1
<1>3. Spec => []TypeOK  BY TypeCorrect
<1>4. QED  BY <1>2, <1>3, InitFlags, StepFlags, CrashesAreCounted, PTL DEF Spec, ChangeIsFlagged

-----------------------------------------------------------------------------
(* The policy file.                                                         *)
USE PolicyFileAssumption

Contents == Policies \cup {Missing, Empty, Unreadable}

PolicyTypes ==
  /\ file \in Contents /\ mtime \in Nat /\ text \in Contents
  /\ daemon \in {"down", "starting", "up"} /\ load \in {"idle", "reading", "parsing"}
  /\ loadedMtime \in Nat /\ stamp \in Nat /\ readAt \in Nat
  /\ pc \in [Writers -> {"idle", "read", "writing", "done", "refused", "lost"}]
  /\ draft \in [Writers -> Contents] /\ base \in [Writers -> Nat]
  /\ \A a \in Answers : pc[a] \in {"read", "writing"} => draft[a] \in Policies

(* The default and what differs from it by an override can be read.         *)
LEMMA DefaultIsPolicy == DefaultPolicy \in Policies
BY DEF DefaultPolicy, Policies

LEMMA ReadableIsPolicy == \A content \in Contents : Readable(content) <=> content \in Policies
BY DEF Contents, Readable

LEMMA MissingIsNotWritten ==
  /\ Missing \notin Policies /\ Missing # Empty /\ Missing # Unreadable
  /\ ~Readable(Empty) /\ ~Readable(Unreadable) /\ ~Readable(Missing)
BY DEF Readable

LEMMA EntryIsAdded ==
  ASSUME NEW policy \in Policies, NEW a \in Answers
  PROVE  LET new == WithEntry(policy, EntryOf[a])
         IN /\ new \in Policies /\ new.rules = policy.rules
            /\ \E n \in DOMAIN new.overrides : new.overrides[n] = EntryOf[a]
            /\ \A n \in DOMAIN policy.overrides :
                 n \in DOMAIN new.overrides /\ new.overrides[n] = policy.overrides[n]
<1> DEFINE new   == WithEntry(policy, EntryOf[a])
           longer == Append(policy.overrides, EntryOf[a])
<1>1. policy.overrides \in Seq(Override) /\ policy.rules \in Editions /\ EntryOf[a] \in Override
  BY DEF Policies
<1>2. /\ longer \in Seq(Override) /\ Len(longer) = Len(policy.overrides) + 1
      /\ \A i \in 1..Len(policy.overrides) : longer[i] = policy.overrides[i]
      /\ longer[Len(policy.overrides) + 1] = EntryOf[a]
  BY <1>1, AppendProperties
<1>3. Len(policy.overrides) \in Nat /\ DOMAIN policy.overrides = 1..Len(policy.overrides)
  BY <1>1
<1>4. new = [rules |-> policy.rules, overrides |-> longer]
  <2>1. \A E, O : policy \in [rules : E, overrides : O] =>
                  policy = [rules |-> policy.rules, overrides |-> policy.overrides]
    OBVIOUS
  <2>2. policy = [rules |-> policy.rules, overrides |-> policy.overrides]  BY <2>1 DEF Policies
  <2>3. new = [policy EXCEPT !.overrides = longer]  BY DEF WithEntry
  <2>4. \A r, o, l : [[rules |-> r, overrides |-> o] EXCEPT !.overrides = l]
                     = [rules |-> r, overrides |-> l]
    OBVIOUS
  <2> HIDE DEF new, longer
  <2>5. QED  BY <2>2, <2>3, <2>4
<1> HIDE DEF longer
<1>5. new \in Policies /\ new.rules = policy.rules /\ new.overrides = longer
  BY <1>1, <1>2, <1>4 DEF Policies
<1> HIDE DEF new
<1>6. DOMAIN longer = 1..(Len(policy.overrides) + 1)  BY <1>2, <1>3
<1>7. /\ Len(policy.overrides) + 1 \in DOMAIN longer
      /\ \A n \in DOMAIN policy.overrides : n \in DOMAIN longer
  BY <1>3, <1>6
<1>8. /\ \E n \in DOMAIN new.overrides : new.overrides[n] = EntryOf[a]
      /\ \A n \in DOMAIN policy.overrides :
           n \in DOMAIN new.overrides /\ new.overrides[n] = policy.overrides[n]
  BY <1>2, <1>3, <1>5, <1>7
<1>9. QED  BY <1>5, <1>8 DEF new

(* What an append and a save leave can be read.                             *)
LEMMA WrittenIsPolicy ==
  ASSUME PolicyTypes, NEW a \in Answers, AppendWrite(a)
  PROVE  /\ draft[a] \in Policies /\ file' \in Policies /\ file'.rules = draft[a].rules
         /\ \E n \in DOMAIN file'.overrides : file'.overrides[n] = EntryOf[a]
         /\ \A n \in DOMAIN draft[a].overrides :
              n \in DOMAIN file'.overrides /\ file'.overrides[n] = draft[a].overrides[n]
<1>1. draft[a] \in Policies  BY DEF PolicyTypes, AppendWrite
<1>2. file' = WithEntry(draft[a], EntryOf[a])  BY DEF AppendWrite, Write
<1>3. QED  BY <1>1, <1>2, EntryIsAdded

LEMMA SavedIsPolicy ==
  ASSUME PolicyTypes, NEW rules \in Editions, Save(rules)
  PROVE  /\ file' \in Policies /\ file'.rules = rules
         /\ Readable(draft[User]) => file'.overrides = draft[User].overrides
<1>1. draft[User] \in Contents  BY DEF PolicyTypes, Writers
<1>2. KeptOverrides \in Seq(Override)
  <2>1. CASE Readable(draft[User])
    BY <1>1, <2>1, ReadableIsPolicy DEF KeptOverrides, Policies
  <2>2. CASE ~Readable(draft[User])  BY <2>2 DEF KeptOverrides
  <2>3. QED  BY <2>1, <2>2
<1>3. file' = [rules |-> rules, overrides |-> KeptOverrides]  BY DEF Save, Write
<1>4. QED  BY <1>2, <1>3 DEF Policies, KeptOverrides

LEMMA PolicyInitType == PolicyInit => PolicyTypes
BY DefaultIsPolicy DEF PolicyInit, PolicyTypes, Contents, Writers

LEMMA PolicyStepType == PolicyTypes /\ [PolicyNext]_policyVars => PolicyTypes'
<1> SUFFICES ASSUME PolicyTypes, [PolicyNext]_policyVars PROVE PolicyTypes'  OBVIOUS
<1> USE DEF PolicyTypes
<1>1. CASE Load
  <2>1. CASE Start
    BY <2>1, DefaultIsPolicy DEF Start, Write, fileVars, inForceVars, writeVars, boundVars, histVars,
       Contents
  <2>2. CASE CheckMtime
    BY <2>2 DEF CheckMtime, fileVars, inForceVars, writeVars, boundVars, histVars
  <2>3. CASE ReadText
    BY <2>3 DEF ReadText, fileVars, inForceVars, writeVars, boundVars, histVars
  <2>4. CASE Adopt
    BY <2>4 DEF Adopt, Loaded, fileVars, writeVars, boundVars, histVars, Contents
  <2>5. CASE Keep
    BY <2>5 DEF Keep, Loaded, fileVars, writeVars, boundVars, histVars, Contents
  <2>6. QED  BY <1>1, <2>1, <2>2, <2>3, <2>4, <2>5 DEF Load
<1>2. ASSUME NEW a \in Answers, AppendRead(a)  PROVE PolicyTypes'
  BY <1>2, ReadableIsPolicy DEF AppendRead, fileVars, loadVars, inForceVars, boundVars, histVars,
     Writers
<1>3. ASSUME NEW a \in Answers, AppendWrite(a)  PROVE PolicyTypes'
  <2>1. file' \in Contents  BY <1>3, WrittenIsPolicy DEF Contents
  <2>2. QED
    BY <1>3, <2>1 DEF AppendWrite, Write, Forget, loadVars, inForceVars, boundVars, Writers, Contents
<1>4. ASSUME NEW w \in Writers, Truncate(w)  PROVE PolicyTypes'
  BY <1>4 DEF Truncate, Write, loadVars, inForceVars, boundVars, Contents
<1>5. CASE Edit
  BY <1>5 DEF Edit, fileVars, loadVars, inForceVars, histVars, Writers
<1>6. ASSUME NEW rules \in Editions, Save(rules)  PROVE PolicyTypes'
  <2>1. file' \in Contents  BY <1>6, SavedIsPolicy DEF Contents
  <2>2. QED
    BY <1>6, <2>1 DEF Save, Write, Forget, loadVars, inForceVars, boundVars, Writers, Contents
<1>7. CASE SaveMistake
  BY <1>7 DEF SaveMistake, Write, Forget, loadVars, inForceVars, boundVars, Writers, Contents
<1>8. CASE DaemonDies
  BY <1>8 DEF DaemonDies, Loaded, fileVars, inForceVars, Contents, Writers
<1>9. CASE UNCHANGED policyVars
  BY <1>9 DEF policyVars, fileVars, loadVars, inForceVars, writeVars
<1>10. QED
  BY <1>1, <1>2, <1>3, <1>4, <1>5, <1>6, <1>7, <1>8, <1>9 DEF PolicyNext

-----------------------------------------------------------------------------
(* A load goes forward in time: the modification time that made it begin,   *)
(* then that of the text, then the file's, which has the text of its own.   *)
Loading ==
  /\ loadedMtime <= mtime /\ stamp <= mtime /\ readAt <= mtime
  /\ load = "parsing" => stamp <= readAt /\ (readAt = mtime => text = file)

FreshInv == PolicyTypes /\ Loading /\ NotStale

(* A write makes what was loaded before older than the file.                *)
LEMMA WriteIsNews ==
  ASSUME FreshInv, PolicyTypes', mtime' = mtime + 1,
         UNCHANGED <<daemon, loadVars, inForceVars, slipped>>
  PROVE  FreshInv'
BY DEF FreshInv, PolicyTypes, Loading, NotStale, loadVars, inForceVars

LEMMA NoNews ==
  ASSUME FreshInv, PolicyTypes', UNCHANGED <<fileVars, daemon, loadVars, inForceVars, slipped>>
  PROVE  FreshInv'
BY DEF FreshInv, Loading, NotStale, fileVars, loadVars, inForceVars

LEMMA LoadIsFresh == ASSUME FreshInv, PolicyTypes', Load PROVE FreshInv'
<1> USE DEF FreshInv
<1>1. CASE Start
  BY <1>1 DEF Start, PolicyTypes, Write, Loading, NotStale, fileVars, inForceVars
<1>2. CASE CheckMtime
  BY <1>2 DEF CheckMtime, PolicyTypes, Loading, NotStale, fileVars, inForceVars
<1>3. CASE ReadText
  BY <1>3 DEF ReadText, PolicyTypes, Loading, NotStale, fileVars, inForceVars
<1>4. CASE Adopt
  <2>1. /\ memory' = text /\ loadedMtime' = mtime /\ slipped' = (slipped \/ mtime # readAt)
        /\ load = "parsing" /\ load' = "idle" /\ stamp' = 0 /\ readAt' = 0
        /\ file' = file /\ mtime' = mtime /\ Readable(text)
    BY <1>4 DEF Adopt, Loaded, Accepts, fileVars
  <2>2. Loading'  BY <2>1 DEF PolicyTypes, Loading
  <2>3. mtime = readAt => text = file  BY <2>1 DEF Loading
  <2>4. Readable(memory)' /\ (memory' = file' \/ slipped')
    BY <2>1, <2>3 DEF Readable
  <2>5. NotStale'  BY <2>4 DEF NotStale
  <2>6. QED  BY <2>2, <2>5
<1>5. CASE Keep
  <2>1. /\ memory' = memory /\ loadedMtime' = stamp /\ slipped' = slipped
        /\ load = "parsing" /\ load' = "idle" /\ stamp' = 0 /\ readAt' = 0
        /\ file' = file /\ mtime' = mtime /\ ~Readable(text)
        /\ daemon' = IF daemon = "starting" THEN "down" ELSE daemon
    BY <1>5 DEF Keep, Loaded, Accepts, fileVars
  <2>2. Loading'  BY <2>1 DEF PolicyTypes, Loading
  <2>3. stamp = mtime => text = file  BY <2>1 DEF PolicyTypes, Loading
  <2>4. daemon' = "up" => daemon = "up" /\ Readable(memory)  BY <2>1 DEF NotStale
  <2>5. loadedMtime' = mtime' => ~Readable(file')  BY <2>1, <2>3 DEF Readable
  <2>6. NotStale'  BY <2>1, <2>4, <2>5 DEF NotStale, Readable
  <2>7. QED  BY <2>2, <2>6
<1>6. QED  BY <1>1, <1>2, <1>3, <1>4, <1>5 DEF Load

LEMMA StepFresh == FreshInv /\ [PolicyNext]_policyVars => FreshInv'
<1> SUFFICES ASSUME FreshInv, [PolicyNext]_policyVars PROVE FreshInv'  OBVIOUS
<1>1. PolicyTypes'  BY PolicyStepType DEF FreshInv
<1>2. CASE Load  BY <1>1, <1>2, LoadIsFresh
<1>3. ASSUME NEW a \in Answers, AppendRead(a) \/ AppendWrite(a)  PROVE FreshInv'
  <2>1. CASE AppendRead(a)  BY <1>1, <2>1, NoNews DEF AppendRead
  <2>2. CASE AppendWrite(a)  BY <1>1, <2>2, WriteIsNews DEF AppendWrite, Write
  <2>3. QED  BY <1>3, <2>1, <2>2
<1>4. ASSUME NEW w \in Writers, Truncate(w)  PROVE FreshInv'
  BY <1>1, <1>4, WriteIsNews DEF Truncate, Write
<1>5. CASE Edit  BY <1>1, <1>5, NoNews DEF Edit
<1>6. CASE (\E rules \in Editions : Save(rules)) \/ SaveMistake
  BY <1>1, <1>6, WriteIsNews DEF Save, SaveMistake, Write
<1>7. CASE DaemonDies
  BY <1>1, <1>7 DEF DaemonDies, Loaded, FreshInv, PolicyTypes, Loading, NotStale, fileVars, inForceVars
<1>8. CASE UNCHANGED policyVars  BY <1>1, <1>8, NoNews DEF policyVars
<1>9. QED  BY <1>2, <1>3, <1>4, <1>5, <1>6, <1>7, <1>8 DEF PolicyNext

(* The policy in force is one that was in the file whole, and the file's if *)
(* its time is the one remembered, unless a write fell between the two reads *)
(* of a load: load_or_create, load and reload_if_changed.                   *)
THEOREM InForceIsTheFiles == PolicySpec => []NotStale
<1>1. PolicyInit => FreshInv
  <2>1. PolicyInit => Loading /\ NotStale  BY DEF PolicyInit, Loading, NotStale
  <2>2. QED  BY <2>1, PolicyInitType DEF FreshInv
<1>2. FreshInv /\ [PolicyNext]_policyVars => FreshInv'  BY StepFresh
<1>3. FreshInv => NotStale  BY DEF FreshInv
<1>4. QED  BY <1>1, <1>2, <1>3, PTL DEF PolicySpec

-----------------------------------------------------------------------------
(* What has the rules saved last and the entry of every permanent answer.   *)
HasEntry(content, a) == \E n \in DOMAIN content.overrides : content.overrides[n] = EntryOf[a]
Complete(content, rules, answers) ==
  content.rules = rules /\ \A a \in answers : HasEntry(content, a)

Done == {a \in Answers : pc[a] = "done"}
UnderWay(w) == pc[w] \in {"read", "writing"}

FileIsComplete == ~overlapped /\ Readable(file) => Complete(file, latest, Done)

(* As long as nothing overlapped, whoever builds on what the file is now    *)
(* builds on all there was to keep.                                        *)
DraftsAreComplete ==
  ~overlapped =>
    \A w \in Writers : UnderWay(w) /\ base[w] = mtime /\ Readable(draft[w]) =>
                       Complete(draft[w], latest, Done)

KeptInv ==
  /\ PolicyTypes /\ FileIsComplete /\ DraftsAreComplete
  /\ \A w \in Writers : base[w] <= mtime
  /\ file = Missing => latest = DefaultRules /\ Done = {}

LEMMA FileIsCompleteIs == NothingOverwritten <=> FileIsComplete
BY DEF NothingOverwritten, FileIsComplete, Complete, HasEntry, Done

(* A step that writes nothing, and has nobody begin or end a change.        *)
LEMMA NobodyWrites ==
  ASSUME KeptInv, PolicyTypes', UNCHANGED <<fileVars, writeVars, histVars>>
  PROVE  KeptInv'
<1>1. UNCHANGED <<file, mtime, pc, draft, base, latest, overlapped>>
  BY DEF fileVars, writeVars, histVars
<1>2. Done' = Done  BY <1>1 DEF Done
<1>3. FileIsComplete' /\ DraftsAreComplete'
  BY <1>1, <1>2 DEF KeptInv, FileIsComplete, DraftsAreComplete, UnderWay
<1>4. QED  BY <1>1, <1>2, <1>3 DEF KeptInv

LEMMA StartKeeps == ASSUME KeptInv, PolicyTypes', Start PROVE KeptInv'
<1>1. CASE file = Missing
  <2>1. /\ file' = DefaultPolicy /\ mtime' = mtime + 1
        /\ UNCHANGED <<pc, draft, base, latest, overlapped>>
    BY <1>1 DEF Start, Write, writeVars, histVars
  <2>2. latest = DefaultRules /\ Done = {} /\ Done' = Done
    BY <1>1, <2>1 DEF KeptInv, Done
  <2>3. \A w \in Writers : base'[w] <= mtime' /\ base'[w] # mtime'
    <3>1. mtime \in Nat /\ \A w \in Writers : base[w] \in Nat /\ base[w] <= mtime
      BY DEF KeptInv, PolicyTypes
    <3>2. QED  BY <2>1, <3>1
  <2>4. file' # Missing  BY <2>1, DefaultIsPolicy, MissingIsNotWritten
  <2>5. FileIsComplete'
    BY <2>1, <2>2 DEF FileIsComplete, Complete, DefaultPolicy
  <2>6. DraftsAreComplete'  BY <2>3 DEF DraftsAreComplete
  <2>7. QED  BY <2>3, <2>4, <2>5, <2>6 DEF KeptInv
<1>2. CASE file # Missing
  <2>1. UNCHANGED <<fileVars, writeVars, histVars>>  BY <1>2 DEF Start
  <2>2. QED  BY <2>1, NobodyWrites
<1>3. QED  BY <1>1, <1>2

(* To begin a change is to take what is in the file.                        *)
LEMMA BeginKeeps ==
  ASSUME KeptInv, PolicyTypes', NEW w \in Writers, pc[w] # "done",
         UNCHANGED <<fileVars, histVars>>,
         pc' = [pc EXCEPT ![w] = "read"],
         draft' = [draft EXCEPT ![w] = file], base' = [base EXCEPT ![w] = mtime]
  PROVE  KeptInv'
<1>1. UNCHANGED <<file, mtime, latest, overlapped>>  BY DEF fileVars, histVars
<1>2. /\ pc' [w] = "read" /\ draft'[w] = file /\ base'[w] = mtime
      /\ \A v \in Writers : v # w => pc'[v] = pc[v] /\ draft'[v] = draft[v] /\ base'[v] = base[v]
  BY DEF KeptInv, PolicyTypes
<1>3. Done' = Done  BY <1>2 DEF Done, Writers
<1>4. FileIsComplete'  BY <1>1, <1>3 DEF KeptInv, FileIsComplete
<1>5. DraftsAreComplete'
  <2>1. ASSUME ~overlapped, NEW v \in Writers, UnderWay(v)', base'[v] = mtime', Readable(draft'[v])
        PROVE  Complete(draft'[v], latest', Done')
    <3>1. CASE v = w
      BY <1>1, <1>2, <1>3, <2>1, <3>1 DEF KeptInv, FileIsComplete, Readable
    <3>2. CASE v # w
      BY <1>1, <1>2, <1>3, <2>1, <3>2 DEF KeptInv, DraftsAreComplete, UnderWay, Readable
    <3>3. QED  BY <3>1, <3>2
  <2>2. QED  BY <1>1, <2>1 DEF DraftsAreComplete, Readable
<1>6. \A v \in Writers : base'[v] <= mtime'
  BY <1>1, <1>2 DEF KeptInv, PolicyTypes
<1>7. QED  BY <1>1, <1>3, <1>4, <1>5, <1>6 DEF KeptInv

(* An answer whose append is refused, or lost with the daemon.              *)
LEMMA GivesUpKeeps ==
  ASSUME KeptInv, PolicyTypes', UNCHANGED <<fileVars, draft, base, latest>>,
         overlapped => overlapped', Done' = Done,
         \A w \in Writers : UnderWay(w)' => UnderWay(w)
  PROVE  KeptInv'
<1>1. UNCHANGED <<file, mtime, draft, base, latest>>  BY DEF fileVars
<1>2. FileIsComplete' /\ DraftsAreComplete'
  BY <1>1 DEF KeptInv, FileIsComplete, DraftsAreComplete
<1>3. QED  BY <1>1, <1>2 DEF KeptInv

(* Whoever writes makes what the others build on out of date: afterwards    *)
(* only the file itself is to be looked at, and its own draft.              *)
LEMMA WriteKeeps ==
  ASSUME KeptInv, PolicyTypes', NEW w \in Writers, mtime' = mtime + 1, file' # Missing,
         \A v \in Writers : v # w => base'[v] = base[v],
         base'[w] <= mtime',
         FileIsComplete',
         ~overlapped' /\ UnderWay(w)' /\ base'[w] = mtime' /\ Readable(draft'[w])
           => Complete(draft'[w], latest', Done')
  PROVE  KeptInv'
<1>1. mtime \in Nat /\ \A v \in Writers : base[v] \in Nat /\ base[v] <= mtime
  BY DEF KeptInv, PolicyTypes
<1>2. \A v \in Writers : v # w => base'[v] <= mtime' /\ base'[v] # mtime'
  BY <1>1
<1>3. DraftsAreComplete'  BY <1>2 DEF DraftsAreComplete
<1>4. QED  BY <1>2, <1>3 DEF KeptInv

LEMMA TruncateKeeps == ASSUME KeptInv, PolicyTypes', NEW w \in Writers, Truncate(w) PROVE KeptInv'
<1>1. /\ pc[w] = "read" /\ pc' = [pc EXCEPT ![w] = "writing"] /\ file' = Empty
      /\ mtime' = mtime + 1 /\ base' = [base EXCEPT ![w] = mtime'] /\ UNCHANGED <<draft, latest>>
      /\ overlapped' = (overlapped \/ base[w] # mtime)
  BY DEF Truncate, Write, Ignores
<1>2. /\ \A v \in Writers : v # w => base'[v] = base[v]
      /\ base'[w] = mtime' /\ pc'[w] = "writing" /\ mtime' \in Nat
  BY <1>1 DEF KeptInv, PolicyTypes
<1>3. Done' = Done  BY <1>1 DEF KeptInv, PolicyTypes, Done, Writers
<1>4. FileIsComplete' /\ file' # Missing
  BY <1>1, MissingIsNotWritten DEF FileIsComplete, Readable
<1>5. ASSUME ~overlapped', Readable(draft'[w])  PROVE Complete(draft'[w], latest', Done')
  <2>1. ~overlapped /\ base[w] = mtime  BY <1>1, <1>5
  <2>2. UnderWay(w) /\ Readable(draft[w])  BY <1>1, <1>5 DEF UnderWay, Readable
  <2>3. QED  BY <1>1, <1>3, <2>1, <2>2 DEF KeptInv, DraftsAreComplete
<1>6. QED  BY <1>1, <1>2, <1>4, <1>5, WriteKeeps

LEMMA AppendWriteKeeps ==
  ASSUME KeptInv, PolicyTypes', NEW a \in Answers, AppendWrite(a)
  PROVE  KeptInv'
<1>1. /\ pc[a] = "writing" /\ pc' = [pc EXCEPT ![a] = "done"]
      /\ mtime' = mtime + 1 /\ base' = [base EXCEPT ![a] = 0] /\ latest' = latest
      /\ overlapped' = (overlapped \/ base[a] # mtime)
  BY DEF AppendWrite, Write, Ignores, Forget
<1>2. /\ a \in Writers /\ \A v \in Writers : v # a => base'[v] = base[v]
      /\ base'[a] <= mtime' /\ pc'[a] = "done"
  BY <1>1 DEF KeptInv, PolicyTypes, Writers
<1>3. Done' = Done \cup {a}  BY <1>1 DEF KeptInv, PolicyTypes, Done, Writers
<1>4. /\ draft[a] \in Policies /\ file' \in Policies /\ file'.rules = draft[a].rules
      /\ \E n \in DOMAIN file'.overrides : file'.overrides[n] = EntryOf[a]
      /\ \A n \in DOMAIN draft[a].overrides :
           n \in DOMAIN file'.overrides /\ file'.overrides[n] = draft[a].overrides[n]
  BY WrittenIsPolicy DEF KeptInv
<1>5. file' # Missing  BY <1>4, MissingIsNotWritten
<1>6. FileIsComplete'
  <2>1. SUFFICES ASSUME ~overlapped' PROVE Complete(file', latest', Done')
    BY DEF FileIsComplete
  <2>2. UnderWay(a) /\ Readable(draft[a])
    BY <1>1, <1>4 DEF UnderWay, Readable
  <2>3. Complete(draft[a], latest, Done)
    BY <1>1, <1>2, <2>1, <2>2 DEF KeptInv, DraftsAreComplete
  <2>4. file'.rules = latest'  BY <1>1, <1>4, <2>3 DEF Complete
  <2>5. \A b \in Done' : HasEntry(file', b)
    BY <1>3, <1>4, <2>3 DEF Complete, HasEntry
  <2>6. QED  BY <2>4, <2>5 DEF Complete
<1>7. ~UnderWay(a)'  BY <1>2 DEF UnderWay
<1>8. QED  BY <1>1, <1>2, <1>5, <1>6, <1>7, WriteKeeps

LEMMA SaveKeeps ==
  ASSUME KeptInv, PolicyTypes', NEW rules \in Editions, Save(rules)
  PROVE  KeptInv'
<1>1. /\ pc[User] = "writing" /\ pc' = [pc EXCEPT ![User] = "idle"]
      /\ mtime' = mtime + 1 /\ base' = [base EXCEPT ![User] = 0] /\ latest' = rules
      /\ overlapped' = (overlapped \/ base[User] # mtime \/ ~Readable(draft[User]))
  BY DEF Save, Write, Ignores, Forget
<1>2. /\ User \in Writers /\ \A v \in Writers : v # User => base'[v] = base[v]
      /\ base'[User] <= mtime' /\ pc'[User] = "idle"
  BY <1>1 DEF KeptInv, PolicyTypes, Writers
<1>3. Done' = Done  BY <1>1 DEF KeptInv, PolicyTypes, Done, Writers
<1>4. /\ file' \in Policies /\ file'.rules = rules
      /\ Readable(draft[User]) => file'.overrides = draft[User].overrides
  BY SavedIsPolicy DEF KeptInv
<1>5. file' # Missing  BY <1>4, MissingIsNotWritten
<1>6. FileIsComplete'
  <2>1. SUFFICES ASSUME ~overlapped' PROVE Complete(file', latest', Done')
    BY DEF FileIsComplete
  <2>2. UnderWay(User)  BY <1>1 DEF UnderWay
  <2>3. Complete(draft[User], latest, Done)
    BY <1>1, <1>2, <2>1, <2>2 DEF KeptInv, DraftsAreComplete
  <2>4. file'.overrides = draft[User].overrides  BY <1>1, <1>4, <2>1
  <2>5. QED  BY <1>1, <1>3, <1>4, <2>3, <2>4 DEF Complete, HasEntry
<1>7. ~UnderWay(User)'  BY <1>2 DEF UnderWay
<1>8. QED  BY <1>1, <1>2, <1>5, <1>6, <1>7, WriteKeeps

LEMMA SaveMistakeKeeps == ASSUME KeptInv, PolicyTypes', SaveMistake PROVE KeptInv'
<1>1. /\ pc' = [pc EXCEPT ![User] = "idle"] /\ file' = Unreadable
      /\ mtime' = mtime + 1 /\ base' = [base EXCEPT ![User] = 0]
  BY DEF SaveMistake, Write, Forget
<1>2. /\ User \in Writers /\ \A v \in Writers : v # User => base'[v] = base[v]
      /\ base'[User] <= mtime' /\ pc'[User] = "idle"
  BY <1>1 DEF KeptInv, PolicyTypes, Writers
<1>3. FileIsComplete' /\ file' # Missing
  BY <1>1, MissingIsNotWritten DEF FileIsComplete, Readable
<1>4. ~UnderWay(User)'  BY <1>2 DEF UnderWay
<1>5. QED  BY <1>1, <1>2, <1>3, <1>4, WriteKeeps

LEMMA StepKept == KeptInv /\ [PolicyNext]_policyVars => KeptInv'
<1> SUFFICES ASSUME KeptInv, [PolicyNext]_policyVars PROVE KeptInv'  OBVIOUS
<1>1. PolicyTypes'  BY PolicyStepType DEF KeptInv
<1>2. CASE Load
  <2>1. CASE CheckMtime \/ ReadText \/ Adopt \/ Keep
    BY <1>1, <2>1, NobodyWrites DEF CheckMtime, ReadText, Adopt, Keep
  <2>2. QED  BY <1>1, <1>2, <2>1, StartKeeps DEF Load
<1>3. ASSUME NEW a \in Answers, AppendRead(a)  PROVE KeptInv'
  <2>1. a \in Writers /\ pc[a] = "idle"  BY <1>3 DEF AppendRead, Writers
  <2>2. CASE Readable(file)
    BY <1>1, <1>3, <2>1, <2>2, BeginKeeps DEF AppendRead
  <2>3. CASE ~Readable(file)
    <3>1. pc' = [pc EXCEPT ![a] = "refused"] /\ UNCHANGED <<fileVars, draft, base, latest, overlapped>>
      BY <1>3, <2>3 DEF AppendRead, histVars
    <3>2. Done' = Done  BY <2>1, <3>1 DEF KeptInv, PolicyTypes, Done, Writers
    <3>3. \A w \in Writers : UnderWay(w)' => UnderWay(w)
      BY <2>1, <3>1 DEF KeptInv, PolicyTypes, UnderWay
    <3>4. QED  BY <1>1, <3>1, <3>2, <3>3, GivesUpKeeps
  <2>4. QED  BY <2>2, <2>3
<1>4. ASSUME NEW a \in Answers, AppendWrite(a)  PROVE KeptInv'
  BY <1>1, <1>4, AppendWriteKeeps
<1>5. ASSUME NEW w \in Writers, Truncate(w)  PROVE KeptInv'
  BY <1>1, <1>5, TruncateKeeps
<1>6. CASE Edit
  <2>1. User \in Writers /\ pc[User] = "idle"  BY <1>6 DEF Edit, Writers
  <2>2. QED  BY <1>1, <1>6, <2>1, BeginKeeps DEF Edit
<1>7. CASE \E rules \in Editions : Save(rules)  BY <1>1, <1>7, SaveKeeps
<1>8. CASE SaveMistake  BY <1>1, <1>8, SaveMistakeKeeps
<1>9. CASE DaemonDies
  <2>1. /\ UNCHANGED <<fileVars, draft, base, latest>>
        /\ overlapped => overlapped'
        /\ pc' = [w \in Writers |->
                     IF w # User /\ pc[w] \in {"read", "writing"} THEN "lost" ELSE pc[w]]
    BY <1>9 DEF DaemonDies
  <2>2. Done' = Done  BY <2>1 DEF KeptInv, PolicyTypes, Done, Writers
  <2>3. \A w \in Writers : UnderWay(w)' => UnderWay(w)  BY <2>1 DEF UnderWay
  <2>4. QED  BY <1>1, <2>1, <2>2, <2>3, GivesUpKeeps
<1>10. CASE UNCHANGED policyVars  BY <1>1, <1>10, NobodyWrites DEF policyVars
<1>11. QED
  BY <1>2, <1>3, <1>4, <1>5, <1>6, <1>7, <1>8, <1>9, <1>10 DEF PolicyNext

(* No permanent answer and no save is lost to another writer, as long as no *)
(* two of them overlapped: append_override, and whoever edits the file.     *)
THEOREM NothingIsOverwritten == PolicySpec => []NothingOverwritten
<1>1. PolicyInit => KeptInv
  <2>1. ASSUME PolicyInit
        PROVE  /\ file \in {Missing, DefaultPolicy} /\ latest = DefaultRules /\ mtime = 1
               /\ \A w \in Writers : pc[w] = "idle" /\ base[w] = 0
    BY <2>1 DEF PolicyInit
  <2>2. PolicyInit => Done = {}  BY <2>1 DEF Done, Writers
  <2>3. PolicyInit => FileIsComplete
    BY <2>1, <2>2, MissingIsNotWritten DEF FileIsComplete, Complete, DefaultPolicy
  <2>4. PolicyInit => DraftsAreComplete  BY <2>1 DEF DraftsAreComplete, UnderWay
  <2>5. QED  BY <2>1, <2>2, <2>3, <2>4, PolicyInitType DEF KeptInv
<1>2. KeptInv /\ [PolicyNext]_policyVars => KeptInv'  BY StepKept
<1>3. KeptInv => NothingOverwritten  BY FileIsCompleteIs DEF KeptInv
<1>4. QED  BY <1>1, <1>2, <1>3, PTL DEF PolicySpec

-----------------------------------------------------------------------------
(* The first rule of those shipped that matches.                            *)
LEMMA FirstOfFive ==
  ASSUME NEW hits, hits \subseteq 1..5, 4 \in hits
  PROVE  /\ Min(hits) \in hits /\ Min(hits) \in 1..4
         /\ \A i \in hits : Min(hits) <= i
<1> DEFINE least == IF 1 \in hits THEN 1 ELSE IF 2 \in hits THEN 2 ELSE IF 3 \in hits THEN 3 ELSE 4
<1>1. least \in hits  OBVIOUS
<1>2. \A i \in 1..5 : i = 1 \/ i = 2 \/ i = 3 \/ i = 4 \/ i = 5  OBVIOUS
<1>3. \A i \in hits : least <= i  BY <1>2
<1> HIDE DEF least
<1>4. Min(hits) \in hits /\ \A i \in hits : Min(hits) <= i  BY <1>1, <1>3 DEF Min
<1> DEFINE first == Min(hits)
<1>5. first \in hits /\ first <= 4  BY <1>4
<1> HIDE DEF first
<1>6. first \in 1..4
  <2>1. first \in 1..5  BY <1>5
  <2>2. QED  BY <1>5, <2>1
<1>7. QED  BY <1>4, <1>6 DEF first

LEMMA DefaultMatches ==
  ASSUME NEW req
  PROVE  /\ DOMAIN DefaultRules = 1..5
         /\ RuleMatches(DefaultRules[1], req) <=> "secret_path" \in req.meets
         /\ RuleMatches(DefaultRules[2], req) <=> "secret" \in req.meets
         /\ RuleMatches(DefaultRules[3], req) <=> {"write", "outside"} \subseteq req.meets
         /\ RuleMatches(DefaultRules[4], req) <=> {"tainted", "outbound"} \subseteq req.meets
         /\ \A i \in 1..3 : DefaultRules[i].action = "ask"
         /\ DefaultRules[4].action = "deny"
<1>1. /\ DefaultRules[1] = PolicyRule({"secret_path"}, "ask")
      /\ DefaultRules[2] = PolicyRule({"secret"}, "ask")
      /\ DefaultRules[3] = PolicyRule({"write", "outside"}, "ask")
      /\ DefaultRules[4] = PolicyRule({"tainted", "outbound"}, "deny")
  BY DEF DefaultRules
<1>2. DOMAIN DefaultRules = 1..5  BY DEF DefaultRules
<1>3. \A when, action : /\ PolicyRule(when, action).when = when
                        /\ PolicyRule(when, action).action = action
  BY DEF PolicyRule
<1>4. \A i \in 1..3 : i = 1 \/ i = 2 \/ i = 3  OBVIOUS
<1>5. QED  BY <1>1, <1>2, <1>3, <1>4 DEF RuleMatches

(* Under the policy shipped what was read locally never leaves unasked,     *)
(* whatever else a call does: the order of the rules in policy/model.rs.    *)
THEOREM LeaksAreStopped == PolicySpec => []TaintNeverLeavesSilently
<1>1. ASSUME NEW req \in Requests, {"tainted", "outbound"} \subseteq req.meets
      PROVE  LET hidden == \/ {"secret_path", "secret"} \cap req.meets # {}
                           \/ {"write", "outside"} \subseteq req.meets
             IN Evaluate(DefaultPolicy, req) = IF hidden THEN "ask" ELSE "deny"
  <2> DEFINE hits == {i \in DOMAIN DefaultRules : RuleMatches(DefaultRules[i], req)}
  <2>1. OverrideSays(DefaultPolicy, req) = "none"
    <3>1. DefaultPolicy.overrides = <<>> /\ DOMAIN <<>> = {}  BY DEF DefaultPolicy
    <3>2. QED  BY <3>1 DEF OverrideSays, First
  <2>2. /\ hits \subseteq 1..5 /\ 4 \in hits
        /\ 1 \in hits <=> "secret_path" \in req.meets
        /\ 2 \in hits <=> "secret" \in req.meets
        /\ 3 \in hits <=> {"write", "outside"} \subseteq req.meets
    BY <1>1, DefaultMatches
  <2>3. RulesSay(DefaultPolicy, req) = DefaultRules[Min(hits)].action
    <3>1. DefaultPolicy.rules = DefaultRules /\ hits # {}  BY <2>2 DEF DefaultPolicy
    <3>2. QED  BY <3>1 DEF RulesSay, First
  <2> HIDE DEF hits
  <2>4. /\ Min(hits) \in hits /\ Min(hits) \in 1..4
        /\ \A i \in hits : Min(hits) <= i
    BY <2>2, FirstOfFive
  <2>5. CASE {1, 2, 3} \cap hits # {}
    <3>1. Min(hits) \in 1..3  BY <2>4, <2>5
    <3>2. RulesSay(DefaultPolicy, req) = "ask"  BY <2>3, <3>1, DefaultMatches
    <3>3. QED  BY <2>1, <2>2, <2>5, <3>2 DEF Evaluate
  <2>6. CASE {1, 2, 3} \cap hits = {}
    <3>1. Min(hits) = 4  BY <2>4, <2>6
    <3>2. RulesSay(DefaultPolicy, req) = "deny"  BY <2>3, <3>1, DefaultMatches
    <3>3. QED  BY <2>1, <2>2, <2>6, <3>2 DEF Evaluate
  <2>7. QED  BY <2>5, <2>6
<1>2. TaintNeverLeavesSilently  BY <1>1 DEF TaintNeverLeavesSilently
<1>3. QED  BY <1>2, PTL
=============================================================================
