---------------------------- MODULE DaemonProofs ----------------------------
(***************************************************************************)
(* Proofs, for any number of callers, interfaces, projects, tools and      *)
(* prompts, of the safety properties of the decision core.                 *)
(***************************************************************************)
EXTENDS DaemonProperties, FiniteSetTheorems, WellFoundedInduction, TLAPS

USE CallersAssumption, RulesAssumption, BoundsAssumption, UIsAssumption

-----------------------------------------------------------------------------
(* Lemmas about the pure operators. *)

(* The first of a nonempty set of positions exists. *)
LEMMA FirstPosition ==
  ASSUME NEW S \in SUBSET Nat, S # {}
  PROVE  \E i \in S : \A j \in S : i <= j
<1> DEFINE R == {p \in Nat \X Nat : p[1] < p[2]}
<1>1. IsWellFoundedOn(R, Nat)
  <2>1. R = OpToRel(<, Nat)  BY DEF OpToRel
  <2> HIDE DEF R
  <2>2. QED  BY <2>1, NatLessThanWellFounded
<1>2. PICK i \in S : \A j \in S : ~(<<j, i>> \in R)
  <2> HIDE DEF R
  <2>1. QED  BY <1>1, WFMin
<1>3. ASSUME NEW j \in S  PROVE i <= j
  <2>1. i \in Nat /\ j \in Nat /\ <<j, i>> \in Nat \X Nat  OBVIOUS
  <2>2. <<j, i>> \notin R  BY <1>2
  <2>3. ~(j < i)
    <3>1. <<j, i>>[1] = j /\ <<j, i>>[2] = i  OBVIOUS
    <3>2. QED  BY <2>1, <2>2, <3>1
  <2>4. QED  BY <2>1, <2>3
<1>4. QED  BY <1>3

(* What is remembered is the decision of a recorded override that matches.  *)
LEMMA RememberedIsRecorded ==
  ASSUME NEW ovs \in Seq(Override), NEW key, NEW tool,
         Remembered(ovs, key, tool) # "none"
  PROVE  \E n \in DOMAIN ovs :
           /\ Matches(ovs[n], key, tool)
           /\ Remembered(ovs, key, tool) = IF ovs[n].allow THEN "allow" ELSE "deny"
<1> DEFINE hits == {i \in DOMAIN ovs : Matches(ovs[i], key, tool)}
           first == CHOOSE i \in hits : \A j \in hits : i <= j
<1>1. hits # {}  BY DEF Remembered
<1>2. hits \in SUBSET Nat  OBVIOUS
<1>3. first \in hits  BY <1>1, <1>2, FirstPosition
<1>4. Remembered(ovs, key, tool) = IF ovs[first].allow THEN "allow" ELSE "deny"
  BY <1>1 DEF Remembered
<1>5. QED  BY <1>3, <1>4

LEMMA RememberedType ==
  ASSUME NEW ovs, NEW key, NEW tool
  PROVE  Remembered(ovs, key, tool) \in {"none", "allow", "deny"}
BY DEF Remembered

LEMMA EvaluateType ==
  ASSUME NEW p \in [rules : RuleSets, overrides : Seq(Override)],
         NEW key, NEW r \in Requests, NEW d \in BOOLEAN
  PROVE  Evaluate(p, key, r, d) \in Actions
BY RememberedType DEF Evaluate, Actions, Requests


LEMMA EffectiveUntilType ==
  ASSUME NEW c, NEW a \in Answers
  PROVE  EffectiveUntil(c, a) \in {"once", "session", "forever"}
BY DEF EffectiveUntil, Answers

LEMMA SettleType ==
  ASSUME told \in [Callers -> Verdict \cup {NoVerdict}],
         pc \in [Callers -> Steps],
         NEW c \in Callers, NEW o \in {"allow", "deny"}, NEW v \in Reasons,
         Settle(c, o, v)
  PROVE  told' \in [Callers -> Verdict \cup {NoVerdict}] /\ pc' \in [Callers -> Steps]
BY DEF Settle, Verdict, Steps

LEMMA BroadcastType ==
  ASSUME queue \in [UIs -> Seq(Message)], NEW m \in Message, Broadcast(m)
  PROVE  queue' \in [UIs -> Seq(Message)]
BY DEF Broadcast

LEMMA RecordType ==
  ASSUME overrides \in Seq(Override),
         file \in [rules : RuleSets, overrides : Seq(Override)],
         req \in [Callers -> Requests],
         NEW c \in Callers, NEW a \in Answers, RecordOverride(c, a)
  PROVE  /\ overrides' \in Seq(Override)
         /\ file' \in [rules : RuleSets, overrides : Seq(Override)]
<1>1. CASE req[c].tool = NoTool \/ EffectiveUntil(c, a) = "once"
  BY <1>1 DEF RecordOverride
<1>2. CASE ~(req[c].tool = NoTool \/ EffectiveUntil(c, a) = "once")
  <2> DEFINE ov == [key |-> KeyOf[c], tool |-> req[c].tool, allow |-> a.allow]
  <2>1. ov \in Override  BY <1>2 DEF Override, Requests, Answers
  <2>2. overrides' = Append(overrides, ov)  BY <1>2 DEF RecordOverride, Push
  <2>3. Append(file.overrides, ov) \in Seq(Override)  BY <2>1
  <2>4. file' \in {file, [file EXCEPT !.overrides = Append(file.overrides, ov)]}
    BY <1>2 DEF RecordOverride
  <2>5. overrides' \in Seq(Override)  BY <2>1, <2>2
  <2>6. file' \in [rules : RuleSets, overrides : Seq(Override)]
    <3> HIDE DEF ov
    <3>1. QED  BY <2>3, <2>4
  <2>7. QED  BY <2>5, <2>6
<1>3. QED  BY <1>1, <1>2

-----------------------------------------------------------------------------
(* A call between opening a prompt and being told has that prompt. *)
Holding(c) == pc[c] \in {"opened", "waiting", "elapsed"}
PromptHeld == \A c \in Callers : Holding(c) => prompt[c] \in PromptIds

(* Type correctness. *)

LEMMA InitType == Init => TypeOK
<1> SUFFICES ASSUME Init PROVE TypeOK  OBVIOUS
<1>1. file \in [rules : RuleSets, overrides : Seq(Override)]
  <2>1. <<>> \in Seq(Override)  OBVIOUS
  <2>2. file \in [rules : RuleSets, overrides : {<<>>}]  BY DEF Init
  <2>3. QED  BY <2>1, <2>2
<1>2. nextId \in 1..(MaxPrompts + 1)  BY DEF Init
<1>3. asked \in [PromptIds -> Prompt \cup {NoPrompt}]
      /\ answer \in [PromptIds -> Answers \cup {NoAnswer}]
  BY DEF Init
<1>4. told \in [Callers -> Verdict \cup {NoVerdict}]  BY DEF Init
<1>5. /\ queue \in [UIs -> Seq(Message)]
      /\ panels \in [UIs -> SUBSET PromptIds]
      /\ overrides \in Seq(Override)
  <2>1. <<>> \in Seq(Message) /\ <<>> \in Seq(Override) /\ {} \in SUBSET PromptIds
    OBVIOUS
  <2>2. QED  BY <2>1 DEF Init
<1>6. /\ pc \in [Callers -> Steps] /\ req \in [Callers -> Requests]
      /\ drift \in [Callers -> BOOLEAN] /\ action \in [Callers -> Actions]
      /\ prompt \in [Callers -> PromptIds \cup {None}]
  BY DEF Init, Steps, Actions
<1>7. QED  BY <1>1, <1>2, <1>3, <1>4, <1>5, <1>6 DEF Init, TypeOK

LEMMA StepType == TypeOK /\ PromptHeld /\ [Next]_vars => TypeOK'
<1> SUFFICES ASSUME TypeOK, PromptHeld, [Next]_vars  PROVE TypeOK'  OBVIOUS
<1> USE DEF TypeOK, Steps, Holding
<1>1. ASSUME NEW c \in Callers, NEW r \in Requests, DecideCall(c, r)
      PROVE  TypeOK'
  <2>1. Evaluate(file, KeyOf[c], r, <<ServerOf[c], r.tool>> \in drifted) \in Actions
    <3>1. (<<ServerOf[c], r.tool>> \in drifted) \in BOOLEAN  OBVIOUS
    <3>2. QED  BY <3>1, EvaluateType
  <2>2. action' \in [Callers -> Actions]  BY <1>1, <2>1 DEF DecideCall
  <2>3. QED  BY <1>1, <2>2 DEF DecideCall, stateVars, promptVars, uiVars, None
<1>2. ASSUME NEW c \in Callers, MatchOverride(c)  PROVE TypeOK'
  <2>1. Remembered(overrides, KeyOf[c], req[c].tool) \in {"none", "allow", "deny"}
    BY RememberedType
  <2>2. action[c] \in {"allow", "deny", "ask"}  BY DEF Actions
  <2>3. ASSUME NEW o \in {"allow", "deny"}, NEW v \in {"override", "policy"},
               Settle(c, o, v)
        PROVE  /\ told' \in [Callers -> Verdict \cup {NoVerdict}]
               /\ pc' \in [Callers -> Steps]
    BY <2>3, SettleType DEF Reasons
  <2>5. \/ \E o \in {"allow", "deny"}, v \in {"override", "policy"} : Settle(c, o, v)
        \/ pc' = [pc EXCEPT ![c] = "ask"] /\ UNCHANGED told
    BY <1>2, <2>1, <2>2 DEF MatchOverride
  <2>6. /\ told' \in [Callers -> Verdict \cup {NoVerdict}]
        /\ pc' \in [Callers -> Steps]
    BY <2>3, <2>5
  <2>4. QED  BY <1>2, <2>6 DEF MatchOverride, stateVars, promptVars, uiVars
<1>3. ASSUME NEW c \in Callers, RefuseNoInterface(c)  PROVE TypeOK'
  <2>1. told' \in [Callers -> Verdict \cup {NoVerdict}] /\ pc' \in [Callers -> Steps]
    BY <1>3, SettleType DEF RefuseNoInterface, Reasons
  <2>2. QED  BY <1>3, <2>1 DEF RefuseNoInterface, stateVars, promptVars, uiVars
<1>4. ASSUME NEW c \in Callers, OpenPrompt(c)  PROVE TypeOK'
  <2>1. nextId \in PromptIds /\ nextId' \in 1..(MaxPrompts + 1)
    BY <1>4 DEF OpenPrompt, TakeId, PromptIds
  <2>2. [key |-> KeyOf[c], tool |-> req[c].tool, forever_allowed |-> ForeverAllowed(c)]
          \in Prompt
    BY DEF Prompt, ForeverAllowed, Requests
  <2>3. QED  BY <1>4, <2>1, <2>2 DEF OpenPrompt, uiVars
<1>5. ASSUME NEW c \in Callers, SendPrompt(c)  PROVE TypeOK'
  <2>1. [type |-> "prompt", id |-> prompt[c]] \in Message
    BY <1>5 DEF Message, SendPrompt, PromptHeld
  <2>2. queue' \in [UIs -> Seq(Message)]  BY <1>5, <2>1, BroadcastType DEF SendPrompt
  <2>3. told' \in [Callers -> Verdict \cup {NoVerdict}] /\ pc' \in [Callers -> Steps]
    BY <1>5, SettleType DEF SendPrompt, Reasons
  <2>4. QED  BY <1>5, <2>2, <2>3 DEF SendPrompt, Forget
<1>6. ASSUME NEW c \in Callers, Elapse(c)  PROVE TypeOK'
  BY <1>6 DEF Elapse, stateVars, promptVars, uiVars
<1>7. ASSUME NEW c \in Callers, WithdrawPrompt(c)  PROVE TypeOK'
  <2>1. [type |-> "withdraw", id |-> prompt[c]] \in Message
    BY <1>7 DEF Message, WithdrawPrompt, PromptHeld
  <2>2. queue' \in [UIs -> Seq(Message)]  BY <1>7, <2>1, BroadcastType DEF WithdrawPrompt
  <2>3. told' \in [Callers -> Verdict \cup {NoVerdict}] /\ pc' \in [Callers -> Steps]
    BY <1>7, SettleType DEF WithdrawPrompt, Reasons
  <2>4. QED  BY <1>7, <2>2, <2>3 DEF WithdrawPrompt, Forget
<1>8. ASSUME NEW c \in Callers, TakeAnswer(c)  PROVE TypeOK'
  <2>1. answer[prompt[c]] \in Answers
    BY <1>8 DEF TakeAnswer, Unanswered, PromptHeld
  <2>2. /\ overrides' \in Seq(Override)
        /\ file' \in [rules : RuleSets, overrides : Seq(Override)]
    BY <1>8, <2>1, RecordType DEF TakeAnswer
  <2>3. told' \in [Callers -> Verdict \cup {NoVerdict}] /\ pc' \in [Callers -> Steps]
    BY <1>8, SettleType DEF TakeAnswer, Reasons
  <2>4. fate' \in [PromptIds -> {"open", "unsent", "expired", "granted", "refused"}]
    BY <1>8 DEF TakeAnswer
  <2>5. QED  BY <1>8, <2>2, <2>3, <2>4 DEF TakeAnswer, uiVars
<1>9. ASSUME NEW c \in Callers, Reply(c)  PROVE TypeOK'
  BY <1>9 DEF Reply, stateVars, promptVars, uiVars
<1>10. ASSUME NEW u \in UIs, HandlerStep(u)  PROVE TypeOK'
  <2>1. CASE CreateReceiver(u)
    BY <2>1 DEF CreateReceiver, stateVars, callVars, promptVars
  <2>2. CASE CountInterface(u)
    BY <2>2 DEF CountInterface, callVars, promptVars
  <2>3. CASE Forward(u)
    <3>1. ASSUME queue[u] # <<>>
          PROVE  Head(queue[u]) \in Message /\ Tail(queue[u]) \in Seq(Message)
      <4>1. queue[u] \in Seq(Message)  OBVIOUS
      <4> DEFINE q == queue[u]
      <4> HIDE DEF TypeOK, q
      <4>2. q \in Seq(Message) /\ q # <<>>  BY <3>1, <4>1 DEF q
      <4>3. Head(q) \in Message /\ Tail(q) \in Seq(Message)  BY <4>2
      <4>4. QED  BY <4>3 DEF q
    <3>2. queue' \in [UIs -> Seq(Message)]
      <4> DEFINE rest == Tail(queue[u])
      <4>1. \/ queue' = queue
            \/ queue[u] # <<>> /\ queue' = [queue EXCEPT ![u] = rest]
        BY <2>3 DEF Forward
      <4>2. queue \in [UIs -> Seq(Message)]  OBVIOUS
      <4>3. queue[u] # <<>> => rest \in Seq(Message)  BY <3>1
      <4> HIDE DEF TypeOK, rest
      <4>4. QED  BY <4>1, <4>2, <4>3
    <3>3. ASSUME queue[u] # <<>>  PROVE Head(queue[u]).id \in PromptIds
      BY <3>1, <3>3 DEF Message
    <3>4. panels' \in [UIs -> SUBSET PromptIds]
      <4> DEFINE id == Head(queue[u]).id
                 shown == panels[u] \cup {id}
                 closed == panels[u] \ {id}
      <4>1. \/ panels' = panels
            \/ panels' = [panels EXCEPT ![u] = shown]
            \/ panels' = [panels EXCEPT ![u] = closed]
        BY <2>3 DEF Forward
      <4>2. CASE panels' = panels  BY <4>2
      <4>3. CASE panels' = [panels EXCEPT ![u] = shown]
        <5>1. shown \in SUBSET PromptIds  BY <2>3, <3>3 DEF Forward
        <5> HIDE DEF shown
        <5>2. QED  BY <4>3, <5>1
      <4>4. CASE panels' = [panels EXCEPT ![u] = closed]
        <5>1. closed \in SUBSET PromptIds  OBVIOUS
        <5> HIDE DEF closed
        <5>2. QED  BY <4>4, <5>1
      <4>5. QED  BY <4>1, <4>2, <4>3, <4>4
    <3>5. QED  BY <2>3, <3>2, <3>4 DEF Forward, stateVars, callVars, promptVars
  <2>4. CASE HandlerEnds(u)
    BY <2>4 DEF HandlerEnds, Uncount, callVars, promptVars
  <2>5. CASE HandlerFails(u)
    BY <2>5 DEF HandlerFails, stateVars, callVars, promptVars
  <2>6. QED  BY <1>10, <2>1, <2>2, <2>3, <2>4, <2>5 DEF HandlerStep
<1>11. ASSUME NEW u \in UIs, Vanish(u)  PROVE TypeOK'
  BY <1>11 DEF Vanish, stateVars, callVars, promptVars
<1>12. ASSUME NEW u \in UIs, NEW i \in PromptIds, NEW a \in Answers, AnswerPrompt(u, i, a)
       PROVE  TypeOK'
  <2>1. panels' \in [UIs -> SUBSET PromptIds]
    <3> DEFINE rest == panels[u] \ {i}
    <3>1. rest \in SUBSET PromptIds  OBVIOUS
    <3>2. panels' = [panels EXCEPT ![u] = rest]  BY <1>12 DEF AnswerPrompt
    <3> HIDE DEF rest
    <3>3. QED  BY <3>1, <3>2
  <2>2. answer' \in [PromptIds -> Answers \cup {NoAnswer}]
    <3>1. answer \in [PromptIds -> Answers \cup {NoAnswer}]  OBVIOUS
    <3>2. answer' = answer \/ answer' = [answer EXCEPT ![i] = a]  BY <1>12 DEF AnswerPrompt
    <3> HIDE DEF TypeOK
    <3>3. QED  BY <3>1, <3>2
  <2>3. pending' \subseteq PromptIds  BY <1>12 DEF AnswerPrompt, Forget
  <2>4. QED  BY <1>12, <2>1, <2>2, <2>3 DEF AnswerPrompt, callVars
<1>13. ASSUME NEW s \in Servers, NEW t \in Tools, ReportDrift(s, t)  PROVE TypeOK'
  BY <1>13 DEF ReportDrift, stateVars, callVars, promptVars, uiVars
<1>14. ASSUME NEW rules \in RuleSets, EditPolicy(rules)  PROVE TypeOK'
  <2>1. file.overrides \in Seq(Override) /\ <<>> \in Seq(Override)  OBVIOUS
  <2>2. file' \in [rules : RuleSets, overrides : Seq(Override)]
    BY <1>14, <2>1 DEF EditPolicy
  <2>3. QED  BY <1>14, <2>2 DEF EditPolicy, stateVars, callVars, promptVars, uiVars
<1>15. CASE UNCHANGED vars
  BY <1>15 DEF vars, stateVars, callVars, promptVars, uiVars
<1>16. QED
  BY <1>1, <1>2, <1>3, <1>4, <1>5, <1>6, <1>7, <1>8, <1>9, <1>10, <1>11, <1>12, <1>13,
     <1>14, <1>15 DEF Next, CallStep

-----------------------------------------------------------------------------
(* The inductive invariant.                                                *)

(* Ids are handed out in order, and nothing has happened to those to come.  *)
IdsInOrder ==
  /\ \A c \in Callers : prompt[c] < nextId
  /\ \A i \in PromptIds : i >= nextId => answer[i] = NoAnswer /\ fate[i] = "open"

(* The prompt a call holds is its own, and has not ended. *)
HeldIsOwn ==
  \A c \in Callers : Holding(c) =>
    /\ prompt[c] \in PromptIds
    /\ fate[prompt[c]] = "open"
    /\ asked[prompt[c]] = [key |-> KeyOf[c], tool |-> req[c].tool,
                           forever_allowed |-> ForeverAllowed(c)]

(* What PendingAccounted needs, id by id. *)
PendingIsHeld ==
  \A i \in PromptIds :
    i \in pending <=> \E c \in Callers : Holding(c) /\ prompt[c] = i /\ answer[i] = NoAnswer

CallInv == TypeOK /\ IdsInOrder /\ HeldIsOwn /\ PendingIsHeld /\ OnePromptOneCall

LEMMA HeldHasType == HeldIsOwn => PromptHeld
BY DEF HeldIsOwn, PromptHeld

LEMMA InitCalls == Init => CallInv
<1> SUFFICES ASSUME Init PROVE CallInv  OBVIOUS
<1>1. IdsInOrder  BY DEF Init, IdsInOrder, PromptIds, None
<1>2. HeldIsOwn /\ PendingIsHeld  BY DEF Init, HeldIsOwn, PendingIsHeld, Holding
<1>3. OnePromptOneCall  BY DEF Init, OnePromptOneCall
<1>4. QED  BY InitType, <1>1, <1>2, <1>3 DEF CallInv

(* A step that touches no prompt keeps the invariant if it makes no call    *)
(* hold one it did not hold.                                               *)
LEMMA NoPromptTouched ==
  ASSUME CallInv, TypeOK',
         UNCHANGED <<pending, nextId, asked, answer, fate>>,
         \A c \in Callers : \/ ~Holding(c) /\ ~Holding(c)' /\ prompt[c]' \in {None, prompt[c]}
                            \/ /\ Holding(c) <=> Holding(c)'
                               /\ UNCHANGED <<prompt[c], req[c].tool>>
  PROVE  CallInv'
<1> USE DEF CallInv
<1>1. IdsInOrder'
  <2>1. \A c \in Callers : prompt[c]' < nextId'
    BY DEF IdsInOrder, None, TypeOK
  <2>2. QED  BY <2>1 DEF IdsInOrder
<1>2. HeldIsOwn'  BY DEF HeldIsOwn, ForeverAllowed
<1>3. PendingIsHeld'
  <2>1. \A c \in Callers : Holding(c) \/ Holding(c)' =>
          (Holding(c) <=> Holding(c)') /\ prompt[c]' = prompt[c]
    OBVIOUS
  <2>2. QED  BY <2>1 DEF PendingIsHeld
<1>4. OnePromptOneCall'  BY DEF OnePromptOneCall, None
<1>5. QED  BY <1>1, <1>2, <1>3, <1>4

(* A step of one call, or a call taken, leaves every other call as it was.  *)
LEMMA OwnStepOnly ==
  ASSUME TypeOK, NEW d \in Callers, CallStep(d) \/ \E r \in Requests : DecideCall(d, r),
         NEW c \in Callers, c # d
  PROVE  UNCHANGED <<pc[c], prompt[c], req[c], told[c], action[c]>>
<1>0. /\ pc \in [Callers -> Steps] /\ req \in [Callers -> Requests]
      /\ prompt \in [Callers -> PromptIds \cup {None}]
      /\ action \in [Callers -> Actions] /\ told \in [Callers -> Verdict \cup {NoVerdict}]
  BY DEF TypeOK
<1>1. CASE MatchOverride(d)  BY <1>0, <1>1 DEF MatchOverride, Settle
<1>2. CASE RefuseNoInterface(d)  BY <1>0, <1>2 DEF RefuseNoInterface, Settle
<1>3. CASE OpenPrompt(d)  BY <1>0, <1>3 DEF OpenPrompt
<1>4. CASE SendPrompt(d)  BY <1>0, <1>4 DEF SendPrompt, Settle
<1>5. CASE Elapse(d)  BY <1>0, <1>5 DEF Elapse
<1>6. CASE WithdrawPrompt(d)  BY <1>0, <1>6 DEF WithdrawPrompt, Settle
<1>7. CASE TakeAnswer(d)  BY <1>0, <1>7 DEF TakeAnswer, Settle
<1>8. CASE Reply(d)  BY <1>0, <1>8 DEF Reply
<1>9. CASE \E r \in Requests : DecideCall(d, r)
  BY <1>0, <1>9 DEF DecideCall
<1>10. QED  BY <1>1, <1>2, <1>3, <1>4, <1>5, <1>6, <1>7, <1>8, <1>9 DEF CallStep

LEMMA StepCalls == CallInv /\ [Next]_vars => CallInv'
<1> SUFFICES ASSUME CallInv, [Next]_vars  PROVE CallInv'  OBVIOUS
<1>0. TypeOK'  BY StepType, HeldHasType DEF CallInv
<1> USE DEF Holding
<1>t. TypeOK  BY DEF CallInv
<1>1. ASSUME NEW c \in Callers,
             (\E r \in Requests : DecideCall(c, r)) \/ MatchOverride(c)
               \/ RefuseNoInterface(c) \/ Elapse(c) \/ Reply(c)
      PROVE  CallInv'
  <2>1. UNCHANGED <<pending, nextId, asked, answer, fate>>
    BY <1>1 DEF DecideCall, MatchOverride, RefuseNoInterface, Elapse, Reply, stateVars,
                promptVars
  <2>2. ASSUME NEW d \in Callers, d # c
        PROVE  pc'[d] = pc[d] /\ prompt'[d] = prompt[d] /\ req'[d] = req[d]
    BY <1>1, <1>t, <2>2, OwnStepOnly DEF CallStep
  <2>3. \/ ~Holding(c) /\ ~Holding(c)' /\ prompt[c]' \in {None, prompt[c]}
        \/ Holding(c) /\ Holding(c)' /\ prompt[c]' = prompt[c] /\ req[c]' = req[c]
    <3>0. pc \in [Callers -> Steps] /\ prompt \in [Callers -> PromptIds \cup {None}]
      BY <1>t DEF TypeOK
    <3>1. CASE \E r \in Requests : DecideCall(c, r)  BY <3>0, <3>1 DEF DecideCall
    <3>2. CASE MatchOverride(c)
      <4>1. pc[c] = "ruled" /\ prompt' = prompt  BY <3>2 DEF MatchOverride
      <4>2. pc'[c] \in {"ask", "replying"}  BY <3>0, <3>2 DEF MatchOverride, Settle
      <4>3. QED  BY <4>1, <4>2
    <3>3. CASE RefuseNoInterface(c)  BY <3>0, <3>3 DEF RefuseNoInterface, Settle
    <3>4. CASE Elapse(c)  BY <3>0, <3>4 DEF Elapse
    <3>5. CASE Reply(c)  BY <3>0, <3>5 DEF Reply
    <3>6. QED  BY <1>1, <3>1, <3>2, <3>3, <3>4, <3>5
  <2>4. QED  BY <1>0, <2>1, <2>2, <2>3, NoPromptTouched
<1>2. ASSUME NEW c \in Callers, OpenPrompt(c)  PROVE CallInv'
  <2> DEFINE i == nextId
             shown == [key |-> KeyOf[c], tool |-> req[c].tool,
                       forever_allowed |-> ForeverAllowed(c)]
  <2>1. /\ i \in PromptIds /\ nextId' = i + 1
        /\ answer[i] = NoAnswer /\ fate[i] = "open" /\ i # None
    BY <1>2, <1>t DEF CallInv, IdsInOrder, TypeOK, OpenPrompt, TakeId, PromptIds, None
  <2>2. /\ prompt'[c] = i /\ pc'[c] = "opened" /\ asked'[i] = shown
        /\ \A d \in Callers : d # c => prompt'[d] = prompt[d] /\ pc'[d] = pc[d]
        /\ \A j \in PromptIds : j # i => asked'[j] = asked[j]
        /\ pending' = pending \cup {i}
        /\ UNCHANGED <<answer, fate, req>>
    BY <1>2, <1>t, <2>1 DEF OpenPrompt, TypeOK, promptVars
  <2>3. \A d \in Callers : prompt[d] # i
    BY <1>t, <2>1 DEF CallInv, IdsInOrder, TypeOK, PromptIds, None
  <2>4. IdsInOrder'
    <3>1. \A d \in Callers : prompt[d] \in Nat /\ prompt[d] < i
      BY <1>t DEF CallInv, IdsInOrder, TypeOK, PromptIds, None
    <3>2. \A d \in Callers : prompt'[d] = i \/ prompt'[d] = prompt[d]  BY <2>2
    <3>3. i \in Nat /\ nextId' = i + 1  BY <2>1 DEF PromptIds
    <3>4. \A j \in PromptIds : j >= i => answer'[j] = NoAnswer /\ fate'[j] = "open"
      BY <2>2 DEF CallInv, IdsInOrder
    <3> HIDE DEF i
    <3>5. \A d \in Callers : prompt'[d] < nextId'  BY <3>1, <3>2, <3>3
    <3>6. \A j \in PromptIds : j >= nextId' => j >= i  BY <3>3 DEF PromptIds
    <3>7. QED  BY <3>4, <3>5, <3>6 DEF IdsInOrder
  <2> HIDE DEF i
  <2>5. HeldIsOwn'
    <3> SUFFICES ASSUME NEW d \in Callers, Holding(d)'
                 PROVE  /\ prompt'[d] \in PromptIds
                        /\ fate'[prompt'[d]] = "open"
                        /\ asked'[prompt'[d]] = [key |-> KeyOf[d], tool |-> req'[d].tool,
                                                forever_allowed |-> ForeverAllowed(d)]
      BY DEF HeldIsOwn, ForeverAllowed
    <3>1. CASE d = c
      <4>1. prompt'[d] = i /\ fate' = fate /\ req' = req /\ asked'[i] = shown  BY <2>2, <3>1
      <4> HIDE DEF Holding
      <4>2. QED  BY <2>1, <3>1, <4>1
    <3>2. CASE d # c
      <4>1. prompt'[d] = prompt[d] /\ prompt[d] # i /\ Holding(d)  BY <2>2, <2>3, <3>2
      <4>2. /\ prompt[d] \in PromptIds
            /\ fate[prompt[d]] = "open"
            /\ asked[prompt[d]] = [key |-> KeyOf[d], tool |-> req[d].tool,
                                   forever_allowed |-> ForeverAllowed(d)]
        BY <4>1 DEF CallInv, HeldIsOwn
      <4>3. asked'[prompt[d]] = asked[prompt[d]] /\ fate' = fate /\ req' = req
        BY <2>2, <4>1, <4>2
      <4> HIDE DEF Holding
      <4>4. QED  BY <4>1, <4>2, <4>3
    <3>3. QED  BY <3>1, <3>2
  <2>6. PendingIsHeld'
    <3>1. pc[c] = "ask"  BY <1>2 DEF OpenPrompt
    <3>2. \A j \in PromptIds \ {i} : \A d \in Callers :
            Holding(d)' /\ prompt'[d] = j <=> Holding(d) /\ prompt[d] = j
      BY <2>2, <3>1
    <3>3. Holding(c)' /\ prompt'[c] = i /\ answer'[i] = NoAnswer  BY <2>1, <2>2
    <3>4. \A j \in PromptIds \ {i} : j \in pending' <=> j \in pending  BY <2>2
    <3>5. ASSUME NEW j \in PromptIds \ {i}
          PROVE  j \in pending' <=>
                   \E d \in Callers : Holding(d)' /\ prompt'[d] = j /\ answer'[j] = NoAnswer
      <4>1. j \in pending <=>
              \E d \in Callers : Holding(d) /\ prompt[d] = j /\ answer[j] = NoAnswer
        BY DEF CallInv, PendingIsHeld
      <4>2. answer'[j] = answer[j]  BY <2>2
      <4> HIDE DEF Holding
      <4>3. QED  BY <3>2, <3>4, <4>1, <4>2
    <3>6. i \in pending'  BY <2>2
    <3>7. QED  BY <3>3, <3>5, <3>6 DEF PendingIsHeld
  <2>7. OnePromptOneCall'
    <3>1. \A d \in Callers : prompt'[d] = IF d = c THEN i ELSE prompt[d]  BY <2>2
    <3> HIDE DEF Holding
    <3>2. QED  BY <2>3, <3>1 DEF CallInv, OnePromptOneCall
  <2>8. QED  BY <1>0, <2>4, <2>5, <2>6, <2>7 DEF CallInv
<1>3. ASSUME NEW c \in Callers, Holding(c), pc'[c] \in {"replying"},
             pc' = [pc EXCEPT ![c] = pc'[c]],
             UNCHANGED <<prompt, req, asked, answer, nextId>>,
             pending' = pending \ {prompt[c]},
             \A j \in PromptIds : j # prompt[c] => fate'[j] = fate[j]
      PROVE  CallInv'
  <2>1. prompt[c] \in PromptIds /\ prompt[c] < nextId
    BY <1>3 DEF CallInv, HeldIsOwn, IdsInOrder
  <2>2. ~Holding(c)' /\ \A d \in Callers : d # c => pc'[d] = pc[d]
    BY <1>3, <1>t DEF TypeOK
  <2>3. \A d \in Callers : d # c => prompt[d] # prompt[c]
    BY <2>1 DEF CallInv, OnePromptOneCall, None, PromptIds
  <2>4. IdsInOrder'
    <3>1. \A j \in PromptIds : j >= nextId => j # prompt[c]
      BY <2>1, <1>t DEF TypeOK, PromptIds
    <3>2. QED  BY <1>3, <3>1 DEF CallInv, IdsInOrder
  <2>5. HeldIsOwn'
    <3> SUFFICES ASSUME NEW d \in Callers, Holding(d)'
                 PROVE  /\ prompt'[d] \in PromptIds
                        /\ fate'[prompt'[d]] = "open"
                        /\ asked'[prompt'[d]] = [key |-> KeyOf[d], tool |-> req'[d].tool,
                                                forever_allowed |-> ForeverAllowed(d)]
      BY DEF HeldIsOwn, ForeverAllowed
    <3>1. d # c /\ Holding(d) /\ prompt[d] # prompt[c]  BY <2>2, <2>3
    <3>2. /\ prompt[d] \in PromptIds
          /\ fate[prompt[d]] = "open"
          /\ asked[prompt[d]] = [key |-> KeyOf[d], tool |-> req[d].tool,
                                 forever_allowed |-> ForeverAllowed(d)]
      BY <3>1 DEF CallInv, HeldIsOwn
    <3>3. fate'[prompt[d]] = fate[prompt[d]]  BY <1>3, <3>1, <3>2
    <3> HIDE DEF Holding
    <3>4. QED  BY <1>3, <3>2, <3>3
  <2>6. PendingIsHeld'
    <3>1. \A d \in Callers : Holding(d)' <=> d # c /\ Holding(d)
      BY <1>3, <2>2
    <3>2. \A d \in Callers : d # c => prompt[d] # prompt[c]  BY <2>3
    <3>3. \A j \in PromptIds :
            j \in pending <=> \E d \in Callers : Holding(d) /\ prompt[d] = j /\ answer[j] = NoAnswer
      BY DEF CallInv, PendingIsHeld
    <3> HIDE DEF Holding
    <3>4. \A j \in PromptIds :
            j \in pending' <=> \E d \in Callers : Holding(d)' /\ prompt[d] = j /\ answer[j] = NoAnswer
      BY <1>3, <3>1, <3>2, <3>3
    <3>5. QED  BY <1>3, <3>4 DEF PendingIsHeld
  <2>7. OnePromptOneCall'  BY <1>3 DEF CallInv, OnePromptOneCall
  <2>8. QED  BY <1>0, <2>4, <2>5, <2>6, <2>7 DEF CallInv
<1>4. ASSUME NEW c \in Callers, SendPrompt(c)  PROVE CallInv'
  <2>1. CASE \E u \in UIs : rx[u]
    <3>1. UNCHANGED <<pending, nextId, asked, answer, fate, prompt, req>>
      BY <1>4, <2>1 DEF SendPrompt
    <3>2. \A d \in Callers : Holding(d) <=> Holding(d)'
      BY <1>4, <2>1, <1>t DEF SendPrompt, TypeOK
    <3>3. QED  BY <1>0, <3>1, <3>2, NoPromptTouched
  <2>2. CASE ~\E u \in UIs : rx[u]
    BY <1>3, <1>4, <2>2, <1>t DEF SendPrompt, Settle, Forget, TypeOK
  <2>3. QED  BY <2>1, <2>2
<1>5. ASSUME NEW c \in Callers, WithdrawPrompt(c)  PROVE CallInv'
  BY <1>3, <1>5, <1>t DEF WithdrawPrompt, Settle, Forget, TypeOK
<1>6. ASSUME NEW c \in Callers, TakeAnswer(c)  PROVE CallInv'
  <2>1. prompt[c] \notin pending
    <3>1. ASSUME prompt[c] \in pending  PROVE answer[prompt[c]] = NoAnswer
      BY <1>t, <3>1 DEF CallInv, PendingIsHeld, TypeOK
    <3>2. QED  BY <1>6, <3>1 DEF TakeAnswer, Unanswered
  <2>2. pending' = pending \ {prompt[c]}  BY <1>6, <2>1 DEF TakeAnswer
  <2>3. \A j \in PromptIds : j # prompt[c] => fate'[j] = fate[j]
    BY <1>6, <1>t DEF TakeAnswer, TypeOK
  <2>4. Holding(c) /\ pc' = [pc EXCEPT ![c] = "replying"] /\ pc'[c] = "replying"
    BY <1>6, <1>t DEF TakeAnswer, Settle, TypeOK
  <2>5. UNCHANGED <<prompt, req, asked, answer, nextId>>  BY <1>6 DEF TakeAnswer
  <2>6. QED  BY <1>3, <2>2, <2>3, <2>4, <2>5
<1>7. ASSUME NEW u \in UIs, NEW i \in PromptIds, NEW a \in Answers, AnswerPrompt(u, i, a)
      PROVE  CallInv'
  <2>1. CASE i \notin pending
    <3>1. UNCHANGED <<pending, nextId, asked, answer, fate, prompt, req, pc>>
      BY <1>7, <2>1 DEF AnswerPrompt, callVars
    <3>2. QED  BY <1>0, <3>1, NoPromptTouched
  <2>2. CASE i \in pending
    <3>1. UNCHANGED <<nextId, asked, fate, prompt, req, pc>>
          /\ pending' = pending \ {i} /\ answer' = [answer EXCEPT ![i] = a]
      BY <1>7, <2>2 DEF AnswerPrompt, callVars, Forget
    <3>2. a # NoAnswer  BY DEF Answers, NoAnswer
    <3>3. \A j \in PromptIds : j # i => answer'[j] = answer[j]
          /\ answer'[i] = a
      BY <3>1, <1>t DEF TypeOK
    <3>4. i < nextId
      BY <2>2, <1>t DEF CallInv, PendingIsHeld, IdsInOrder
    <3>5. IdsInOrder'
      <4>1. \A j \in PromptIds : j >= nextId => j # i
        BY <3>4, <1>t DEF TypeOK, PromptIds
      <4>2. QED  BY <3>1, <3>3, <4>1 DEF CallInv, IdsInOrder
    <3>6. HeldIsOwn'  BY <3>1 DEF CallInv, HeldIsOwn, ForeverAllowed
    <3>7. PendingIsHeld'
      <4>1. answer'[i] # NoAnswer  BY <1>t, <3>1, <3>2 DEF TypeOK
      <4>2. QED  BY <3>1, <3>3, <4>1 DEF CallInv, PendingIsHeld
    <3>8. OnePromptOneCall'  BY <3>1 DEF CallInv, OnePromptOneCall
    <3>9. QED  BY <1>0, <3>5, <3>6, <3>7, <3>8 DEF CallInv
  <2>3. QED  BY <2>1, <2>2
<1>8. CASE \/ \E u \in UIs : HandlerStep(u) \/ Vanish(u)
           \/ \E s \in Servers, t \in Tools : ReportDrift(s, t)
           \/ \E rules \in RuleSets : EditPolicy(rules)
           \/ UNCHANGED vars
  <2>1. UNCHANGED <<pending, nextId, asked, answer, fate, prompt, req, pc>>
    BY <1>8 DEF HandlerStep, CreateReceiver, CountInterface, Forward, HandlerEnds,
                HandlerFails, Vanish, ReportDrift, EditPolicy, vars, stateVars, callVars,
                promptVars
  <2>2. QED  BY <1>0, <2>1, NoPromptTouched
<1>9. QED
  BY <1>1, <1>2, <1>4, <1>5, <1>6, <1>7, <1>8 DEF Next, CallStep

(* Every variable keeps its type in every run of the daemon. *)
THEOREM TypeCorrect == Spec => []TypeOK
<1>1. CallInv => TypeOK  BY DEF CallInv
<1>2. QED  BY InitCalls, StepCalls, <1>1, PTL DEF Spec

(* No answer can settle two calls: prompt ids are never shared. *)
THEOREM PromptsAreOwned == Spec => []OnePromptOneCall
<1>1. CallInv => OnePromptOneCall  BY DEF CallInv
<1>2. QED  BY InitCalls, StepCalls, <1>1, PTL DEF Spec

(* The pending table holds the prompts that can still be answered, no more. *)
THEOREM PendingIsExact == Spec => []PendingAccounted
<1>1. CallInv => PendingAccounted
  <2> SUFFICES ASSUME CallInv PROVE PendingAccounted  OBVIOUS
  <2>1. \A c \in Callers : Holding(c) => prompt[c] \in PromptIds
    BY DEF CallInv, HeldIsOwn
  <2>2. pending \subseteq PromptIds  BY DEF CallInv, TypeOK
  <2>3. QED  BY <2>1, <2>2 DEF CallInv, PendingIsHeld, PendingAccounted, Holding
<1>2. QED  BY InitCalls, StepCalls, <1>1, PTL DEF Spec

-----------------------------------------------------------------------------
(* Consent: nothing is allowed or remembered that a person did not say.    *)

ByUser(i) == fate[i] \in {"granted", "refused"}

(* A prompt that a person settled stays as it was settled.                 *)
LEMMA SettledForGood ==
  ASSUME CallInv, [Next]_vars, NEW i \in PromptIds, ByUser(i)
  PROVE  fate'[i] = fate[i] /\ asked'[i] = asked[i] /\ answer'[i] = answer[i]
<1> USE DEF ByUser
<1>t. TypeOK  BY DEF CallInv
<1>h. \A c \in Callers : Holding(c) => prompt[c] # i  BY DEF CallInv, HeldIsOwn
<1>1. ASSUME NEW c \in Callers, OpenPrompt(c)  PROVE UNCHANGED promptVars \/
               (UNCHANGED <<answer, fate>> /\ asked'[i] = asked[i])
  <2>1. i # nextId
    BY <1>1, <1>t DEF CallInv, IdsInOrder, OpenPrompt, TypeOK, PromptIds
  <2>2. nextId \in PromptIds /\ asked \in [PromptIds -> Prompt \cup {NoPrompt}]
    BY <1>1, <1>t DEF OpenPrompt, TakeId, TypeOK, PromptIds
  <2>3. QED  BY <1>1, <2>1, <2>2 DEF OpenPrompt
<1>2. ASSUME NEW c \in Callers, SendPrompt(c) \/ WithdrawPrompt(c) \/ TakeAnswer(c)
      PROVE  UNCHANGED <<asked, answer>> /\ fate'[i] = fate[i]
  <2>1. prompt[c] # i  BY <1>2, <1>h DEF SendPrompt, WithdrawPrompt, TakeAnswer, Holding
  <2>2. QED  BY <1>2, <1>t, <2>1 DEF SendPrompt, WithdrawPrompt, TakeAnswer, TypeOK
<1>3. ASSUME NEW u \in UIs, NEW j \in PromptIds, NEW a \in Answers, AnswerPrompt(u, j, a)
      PROVE  UNCHANGED <<asked, fate>> /\ answer'[i] = answer[i]
  <2>1. i \notin pending  BY <1>h DEF CallInv, PendingIsHeld
  <2>2. QED  BY <1>3, <1>t, <2>1 DEF AnswerPrompt, TypeOK
<1>4. CASE \/ \E c \in Callers : \/ MatchOverride(c) \/ RefuseNoInterface(c) \/ Elapse(c)
                               \/ Reply(c) \/ \E r \in Requests : DecideCall(c, r)
           \/ \E u \in UIs : HandlerStep(u) \/ Vanish(u)
           \/ \E s \in Servers, t \in Tools : ReportDrift(s, t)
           \/ \E rules \in RuleSets : EditPolicy(rules)
           \/ UNCHANGED vars
  <2>1. UNCHANGED promptVars
    BY <1>4 DEF MatchOverride, RefuseNoInterface, Elapse, Reply, DecideCall, HandlerStep,
                CreateReceiver, CountInterface, Forward, HandlerEnds, HandlerFails, Vanish,
                ReportDrift, EditPolicy, vars
  <2>2. QED  BY <2>1 DEF promptVars
<1>5. QED
  BY <1>1, <1>2, <1>3, <1>4 DEF Next, CallStep, promptVars

ConsentInv == CallInv /\ GrantsAreTheUsers /\ ForeverNeedsTrust /\ AllowIsEarned

LEMMA InitConsent == Init => ConsentInv
<1> SUFFICES ASSUME Init PROVE ConsentInv  OBVIOUS
<1>1. DOMAIN overrides = {} /\ DOMAIN file.overrides = {}
  <2>1. overrides = <<>> /\ file.overrides = <<>>  BY DEF Init
  <2>2. QED  BY <2>1
<1>2. \A c \in Callers : told[c].outcome = "none"  BY DEF Init, NoVerdict
<1>3. QED
  BY InitCalls, <1>1, <1>2 DEF ConsentInv, GrantsAreTheUsers, ForeverNeedsTrust, AllowIsEarned

(* How the prompt of an answer ends. *)
Ending(allow) == IF allow THEN "granted" ELSE "refused"

(* What the answer that is being taken says, once it is taken.             *)
LEMMA TakenAnswer ==
  ASSUME CallInv, NEW c \in Callers, TakeAnswer(c)
  PROVE  /\ prompt[c] \in PromptIds
         /\ answer[prompt[c]] \in Answers
         /\ fate'[prompt[c]] = Ending(answer[prompt[c]].allow)
         /\ asked'[prompt[c]].key = KeyOf[c]
         /\ asked'[prompt[c]].tool = req[c].tool
         /\ asked'[prompt[c]].forever_allowed = ForeverAllowed(c)
         /\ answer' = answer /\ req' = req
<1> USE DEF CallInv
<1>1. Holding(c)  BY DEF TakeAnswer, Holding
<1>2. prompt[c] \in PromptIds  BY <1>1 DEF HeldIsOwn
<1>3. answer[prompt[c]] \in Answers  BY <1>2 DEF TypeOK, TakeAnswer, Unanswered
<1>4. answer[prompt[c]].allow \in BOOLEAN  BY <1>3 DEF Answers
<1>5. fate'[prompt[c]] = Ending(answer[prompt[c]].allow)
  BY <1>2, <1>4 DEF Ending, TakeAnswer, TypeOK
<1>6. asked'[prompt[c]] = [key |-> KeyOf[c], tool |-> req[c].tool,
                           forever_allowed |-> ForeverAllowed(c)]
  BY <1>1 DEF HeldIsOwn, TakeAnswer
<1>7. QED  BY <1>2, <1>3, <1>5, <1>6 DEF TakeAnswer

LEMMA StepConsent == ConsentInv /\ [Next]_vars => ConsentInv'
<1> SUFFICES ASSUME ConsentInv, [Next]_vars  PROVE ConsentInv'  OBVIOUS
<1>t. CallInv /\ TypeOK /\ CallInv'  BY StepCalls DEF ConsentInv, CallInv
<1>s. ASSUME NEW i \in PromptIds, ByUser(i)
      PROVE  fate'[i] = fate[i] /\ asked'[i] = asked[i] /\ answer'[i] = answer[i]
  BY <1>t, <1>s, SettledForGood
<1>a. ASSUME NEW i \in PromptIds, NEW b, Answered(i, b)
      PROVE  fate'[i] = Ending(b) /\ asked'[i] = asked[i] /\ answer'[i] = answer[i]
  BY <1>s, <1>a DEF Answered, Ending, ByUser
<1>1. GrantsAreTheUsers'
  <2>1. CASE overrides' = overrides
    BY <1>a, <2>1 DEF ConsentInv, GrantsAreTheUsers, Answered, Ending
  <2>2. ASSUME NEW c \in Callers, TakeAnswer(c), overrides' # overrides
        PROVE  GrantsAreTheUsers'
    <3> DEFINE i == prompt[c]
               a == answer[i]
               ov == [key |-> KeyOf[c], tool |-> req[c].tool, allow |-> a.allow]
    <3>1. overrides' = Append(overrides, ov) /\ EffectiveUntil(c, a) # "once"
      BY <2>2 DEF TakeAnswer, RecordOverride, Push
    <3>2. a.until # "once"  BY <3>1 DEF EffectiveUntil
    <3>3. /\ i \in PromptIds /\ fate'[i] = Ending(a.allow) /\ answer' = answer
          /\ asked'[i].key = ov.key /\ asked'[i].tool = ov.tool /\ ov.allow = a.allow
      BY <1>t, <2>2, TakenAnswer
    <3>4. overrides \in Seq(Override)  BY <1>t DEF TypeOK
    <3> HIDE DEF ov
    <3>5. ASSUME NEW n \in DOMAIN overrides'
          PROVE  \E j \in PromptIds : /\ fate'[j] = Ending(overrides'[n].allow)
                                      /\ answer'[j].allow = overrides'[n].allow
                                      /\ answer'[j].until # "once"
                                      /\ asked'[j].key = overrides'[n].key
                                      /\ asked'[j].tool = overrides'[n].tool
      <4>1. CASE n = Len(overrides) + 1
        <5>1. overrides'[n] = ov  BY <3>1, <3>4, <4>1
        <5>2. QED  BY <3>2, <3>3, <5>1
      <4>2. CASE n # Len(overrides) + 1
        <5>1. n \in DOMAIN overrides /\ overrides'[n] = overrides[n]
          BY <3>1, <3>4, <4>2
        <5>2. QED  BY <5>1, <1>a DEF ConsentInv, GrantsAreTheUsers
      <4>3. QED  BY <4>1, <4>2
    <3>6. QED  BY <3>5 DEF GrantsAreTheUsers, Answered, Ending
  <2>3. overrides' = overrides \/ \E c \in Callers : TakeAnswer(c)
    BY DEF Next, CallStep, DecideCall, MatchOverride, RefuseNoInterface, OpenPrompt,
           SendPrompt, Elapse, WithdrawPrompt, Reply, HandlerStep, CreateReceiver,
           CountInterface, Forward, HandlerEnds, HandlerFails, Vanish, AnswerPrompt,
           ReportDrift, EditPolicy, vars, stateVars
  <2>4. QED  BY <2>1, <2>2, <2>3
<1>2. ForeverNeedsTrust'
  <2>1. CASE file'.overrides \in {file.overrides, <<>>}
    <3>1. CASE file'.overrides = file.overrides
      BY <1>a, <3>1 DEF ConsentInv, ForeverNeedsTrust, Answered, Ending
    <3>2. CASE file'.overrides = <<>>
      BY <3>2 DEF ForeverNeedsTrust
    <3>3. QED  BY <2>1, <3>1, <3>2
  <2>2. ASSUME NEW c \in Callers, TakeAnswer(c), file' # file
        PROVE  ForeverNeedsTrust'
    <3> DEFINE i == prompt[c]
               a == answer[i]
               ov == [key |-> KeyOf[c], tool |-> req[c].tool, allow |-> a.allow]
    <3>1. EffectiveUntil(c, a) = "forever"
          /\ file' = [file EXCEPT !.overrides = Append(file.overrides, ov)]
      BY <2>2 DEF TakeAnswer, RecordOverride
    <3>2. a.until = "forever" /\ ForeverAllowed(c)  BY <3>1 DEF EffectiveUntil
    <3>3. /\ i \in PromptIds /\ fate'[i] = Ending(a.allow) /\ answer' = answer
          /\ asked'[i].key = ov.key /\ asked'[i].tool = ov.tool /\ ov.allow = a.allow
          /\ asked'[i].forever_allowed = ForeverAllowed(c)
      BY <1>t, <2>2, TakenAnswer
    <3>4. file \in [rules : RuleSets, overrides : Seq(Override)]  BY <1>t DEF TypeOK
    <3> HIDE DEF ov
    <3>5. file'.overrides = Append(file.overrides, ov)  BY <3>1, <3>4
    <3> DEFINE old == file.overrides
               new == file'.overrides
    <3>6. old \in Seq(Override) /\ new = Append(old, ov)  BY <3>4, <3>5
    <3>7. ASSUME NEW n \in DOMAIN new
          PROVE  \E j \in PromptIds : /\ fate'[j] = Ending(new[n].allow)
                                      /\ asked'[j].forever_allowed
                                      /\ answer'[j].until = "forever"
                                      /\ asked'[j].key = new[n].key
                                      /\ asked'[j].tool = new[n].tool
      <4>0. \A m \in DOMAIN old :
              \E j \in PromptIds : /\ fate'[j] = Ending(old[m].allow)
                                   /\ asked'[j].forever_allowed
                                   /\ answer'[j].until = "forever"
                                   /\ asked'[j].key = old[m].key
                                   /\ asked'[j].tool = old[m].tool
        BY <1>a DEF ConsentInv, ForeverNeedsTrust
      <4> HIDE DEF old, new
      <4>1. CASE n = Len(old) + 1
        <5>1. new[n] = ov  BY <3>6, <4>1
        <5>2. QED  BY <3>2, <3>3, <5>1
      <4>2. CASE n # Len(old) + 1
        <5>1. n \in DOMAIN old /\ new[n] = old[n]  BY <3>6, <4>2
        <5>2. QED  BY <4>0, <5>1
      <4>3. QED  BY <4>1, <4>2
    <3>8. QED  BY <3>7 DEF ForeverNeedsTrust, Answered, Ending
  <2>3. \/ file' = file
        \/ file'.overrides \in {file.overrides, <<>>}
        \/ \E c \in Callers : TakeAnswer(c)
    BY DEF Next, CallStep, DecideCall, MatchOverride, RefuseNoInterface, OpenPrompt,
           SendPrompt, Elapse, WithdrawPrompt, Reply, HandlerStep, CreateReceiver,
           CountInterface, Forward, HandlerEnds, HandlerFails, Vanish, AnswerPrompt,
           ReportDrift, EditPolicy, vars
  <2>4. QED  BY <2>1, <2>2, <2>3
<1>3. AllowIsEarned'
  <2> SUFFICES ASSUME NEW c \in Callers, told'[c].outcome = "allow", action'[c] # "allow"
               PROVE  \E i \in PromptIds : /\ fate'[i] = Ending(TRUE)
                                           /\ asked'[i].key = KeyOf[c]
                                           /\ asked'[i].tool = req'[c].tool
    BY DEF AllowIsEarned, Answered, Ending
  <2>1. CASE told'[c] = told[c] /\ action'[c] = action[c] /\ req'[c] = req[c]
    <3>1. told[c].outcome = "allow" /\ action[c] # "allow"  BY <2>1
    <3>2. PICK i \in PromptIds : /\ Answered(i, TRUE)
                                 /\ asked[i].key = KeyOf[c] /\ asked[i].tool = req[c].tool
      BY <3>1 DEF ConsentInv, AllowIsEarned
    <3>3. QED  BY <1>a, <2>1, <3>2
  <2>2. CASE MatchOverride(c)
    <3> DEFINE ov == Remembered(overrides, KeyOf[c], req[c].tool)
    <3>1. UNCHANGED <<req, action, asked, fate, answer>>
      BY <2>2 DEF MatchOverride, promptVars
    <3>5. told'[c] \in {told[c], [outcome |-> ov, via |-> "override"],
                        [outcome |-> action[c], via |-> "policy"]}
          /\ (told'[c] = [outcome |-> ov, via |-> "override"] => ov # "none")
      BY <2>2, <1>t DEF MatchOverride, Settle, TypeOK
    <3>2. ov = "allow" \/ told'[c] = told[c]  BY <3>1, <3>5
    <3>3. CASE ov = "allow"
      <4>0. overrides \in Seq(Override)  BY <1>t DEF TypeOK
      <4>1. PICK n \in DOMAIN overrides : /\ Matches(overrides[n], KeyOf[c], req[c].tool)
                                          /\ ov = IF overrides[n].allow THEN "allow" ELSE "deny"
        BY <3>3, <4>0, RememberedIsRecorded
      <4>2. overrides[n] \in Override  BY <4>0, <4>1
      <4>3. overrides[n].allow = TRUE  BY <3>3, <4>1, <4>2 DEF Override
      <4>4. PICK i \in PromptIds : /\ Answered(i, TRUE)
                                   /\ asked[i].key = overrides[n].key
                                   /\ asked[i].tool = overrides[n].tool
        BY <4>1, <4>3 DEF ConsentInv, GrantsAreTheUsers
      <4>5. QED  BY <1>a, <3>1, <4>1, <4>4 DEF Matches
    <3>4. QED  BY <2>1, <3>1, <3>2, <3>3
  <2>3. CASE TakeAnswer(c)
    <3>1. /\ prompt[c] \in PromptIds
          /\ asked'[prompt[c]].key = KeyOf[c] /\ asked'[prompt[c]].tool = req'[c].tool
          /\ answer[prompt[c]] \in Answers
          /\ fate'[prompt[c]] = Ending(answer[prompt[c]].allow)
      BY <1>t, <2>3, TakenAnswer
    <3>2. answer[prompt[c]].allow = TRUE
      <4>1. told'[c].outcome = IF answer[prompt[c]].allow THEN "allow" ELSE "deny"
        BY <2>3, <1>t DEF TakeAnswer, Settle, TypeOK
      <4>2. QED  BY <3>1, <4>1 DEF Answers
    <3>3. QED  BY <3>1, <3>2
  <2>4. CASE \E r \in Requests : DecideCall(c, r)
    BY <2>4, <1>t DEF DecideCall, TypeOK, NoVerdict
  <2>5. CASE RefuseNoInterface(c) \/ SendPrompt(c) \/ WithdrawPrompt(c)
    <3>1. told'[c].outcome = "deny" \/ told' = told
      BY <2>5, <1>t DEF RefuseNoInterface, SendPrompt, WithdrawPrompt, Settle, TypeOK
    <3>2. UNCHANGED <<action, req>>
      BY <2>5 DEF RefuseNoInterface, SendPrompt, WithdrawPrompt
    <3>3. QED  BY <2>1, <3>1, <3>2
  <2>6. CASE \E d \in Callers \ {c} : CallStep(d) \/ \E r \in Requests : DecideCall(d, r)
    <3>1. PICK d \in Callers \ {c} : CallStep(d) \/ \E r \in Requests : DecideCall(d, r)
      BY <2>6
    <3>2. told'[c] = told[c] /\ action'[c] = action[c] /\ req'[c] = req[c]
      BY <3>1, <1>t, OwnStepOnly
    <3>3. QED  BY <2>1, <3>2
  <2>7. CASE OpenPrompt(c) \/ Elapse(c) \/ Reply(c)
    BY <2>1, <2>7 DEF OpenPrompt, Elapse, Reply
  <2>8. CASE \/ \E u \in UIs : HandlerStep(u) \/ Vanish(u)
             \/ \E u \in UIs, i \in PromptIds, a \in Answers : AnswerPrompt(u, i, a)
             \/ \E s \in Servers, t \in Tools : ReportDrift(s, t)
             \/ \E rules \in RuleSets : EditPolicy(rules)
             \/ UNCHANGED vars
    <3>1. UNCHANGED callVars
      BY <2>8 DEF HandlerStep, CreateReceiver, CountInterface, Forward, HandlerEnds,
                  HandlerFails, Vanish, AnswerPrompt, ReportDrift, EditPolicy, vars
    <3>2. QED  BY <2>1, <3>1 DEF callVars
  <2>9. QED
    BY <2>2, <2>3, <2>4, <2>5, <2>6, <2>7, <2>8 DEF Next, CallStep
<1>4. QED  BY <1>t, <1>1, <1>2, <1>3 DEF ConsentInv

(* Everything in the session's memory was said by a person, of that project *)
(* and tool, and was not meant for one call only.                          *)
THEOREM MemoryIsConsent == Spec => []GrantsAreTheUsers
<1>1. ConsentInv => GrantsAreTheUsers  BY DEF ConsentInv
<1>2. QED  BY InitConsent, StepConsent, <1>1, PTL DEF Spec

(* Everything written to the file was asked for as permanent on a prompt    *)
(* whose scope warranted it.                                               *)
THEOREM PermanentIsWarranted == Spec => []ForeverNeedsTrust
<1>1. ConsentInv => ForeverNeedsTrust  BY DEF ConsentInv
<1>2. QED  BY InitConsent, StepConsent, <1>1, PTL DEF Spec

(* A call the rules did not allow goes through only by a person's yes about *)
(* that project and tool.                                                  *)
THEOREM AllowedByConsent == Spec => []AllowIsEarned
<1>1. ConsentInv => AllowIsEarned  BY DEF ConsentInv
<1>2. QED  BY InitConsent, StepConsent, <1>1, PTL DEF Spec

-----------------------------------------------------------------------------
(* The refinement of Confirmation.                                         *)

(* No recorded decision is about a call that names no tool. *)
LEMMA NothingOfNoTool ==
  ASSUME NEW ovs \in Seq(Override), NEW key
  PROVE  Remembered(ovs, key, NoTool) = "none"
<1> SUFFICES ASSUME Remembered(ovs, key, NoTool) # "none"  PROVE FALSE  OBVIOUS
<1>1. PICK n \in DOMAIN ovs : Matches(ovs[n], key, NoTool)  BY RememberedIsRecorded
<1>2. ovs[n] \in Override  BY <1>1
<1>3. ovs[n].tool \in Tools  BY <1>2 DEF Override
<1>4. QED  BY <1>1, <1>3 DEF Matches

(* A decision recorded last changes what is remembered only where nothing   *)
(* was.                                                                    *)
LEMMA RememberedPushed ==
  ASSUME NEW ovs \in Seq(Override), NEW ov \in Override, NEW key, NEW tool
  PROVE  Remembered(Push(ovs, ov), key, tool) =
           IF Remembered(ovs, key, tool) # "none" THEN Remembered(ovs, key, tool)
           ELSE IF ~Matches(ov, key, tool) THEN "none"
           ELSE IF ov.allow THEN "allow" ELSE "deny"
<1> DEFINE more == Push(ovs, ov)
           old == {i \in DOMAIN ovs : Matches(ovs[i], key, tool)}
           new == {i \in DOMAIN more : Matches(more[i], key, tool)}
           last == Len(ovs) + 1
           first == CHOOSE i \in old : \A j \in old : i <= j
           head == CHOOSE i \in new : \A j \in new : i <= j
<1>1. /\ DOMAIN more = DOMAIN ovs \cup {last}
      /\ \A i \in DOMAIN ovs : more[i] = ovs[i] /\ i \in Nat /\ i < last
      /\ more[last] = ov
      /\ last \in Nat
  BY DEF Push
<1>2. /\ Remembered(ovs, key, tool) =
           IF old = {} THEN "none" ELSE IF ovs[first].allow THEN "allow" ELSE "deny"
      /\ Remembered(more, key, tool) =
           IF new = {} THEN "none" ELSE IF more[head].allow THEN "allow" ELSE "deny"
  BY DEF Remembered
<1>3. new = IF Matches(ov, key, tool) THEN old \cup {last} ELSE old
  <2> HIDE DEF more, last
  <2>1. QED  BY <1>1
<1>4. old \in SUBSET Nat /\ \A i \in old : i < last /\ more[i] = ovs[i]
  <2> HIDE DEF more, last
  <2>1. QED  BY <1>1
<1> HIDE DEF more, old, new, last
<1>4a. \A j \in new : j \in old \/ j = last  BY <1>3
<1>4b. old \subseteq new  BY <1>3
<1>5. CASE old # {}
  <2>1. /\ first \in old
        /\ \A j \in old : first <= j
    BY <1>4, <1>5, FirstPosition
  <2>2. head = first
    <3>1. first \in new /\ \A j \in new : first <= j
      <4>1. first \in Nat /\ first < last  BY <1>4, <2>1
      <4>2. first <= last  BY <4>1, <1>1
      <4> HIDE DEF first
      <4>3. first \in new  BY <1>4b, <2>1
      <4>4. QED  BY <1>4a, <2>1, <4>2, <4>3
    <3>2. new \in SUBSET Nat  BY <1>1, <1>3, <1>4
    <3>3. /\ head \in new
          /\ \A j \in new : head <= j
      BY <3>1, <3>2, FirstPosition
    <3>4. head \in Nat /\ first \in Nat  BY <3>1, <3>2, <3>3
    <3>5. head <= first /\ first <= head  BY <3>1, <3>3
    <3> HIDE DEF first, head
    <3>6. QED  BY <3>4, <3>5
  <2>3. new # {}  BY <1>3, <1>5
  <2> HIDE DEF first, head
  <2>4. more[first] = ovs[first]  BY <1>4, <2>1
  <2>5. Remembered(more, key, tool) = Remembered(ovs, key, tool)
    BY <1>2, <1>5, <2>2, <2>3, <2>4
  <2>6. Remembered(ovs, key, tool) # "none"  BY <1>2, <1>5
  <2>7. QED  BY <2>5, <2>6 DEF more
<1>6. CASE old = {} /\ Matches(ov, key, tool)
  <2>1. new = {last}  BY <1>3, <1>6
  <2>2. head = last  BY <1>1, <2>1
  <2> HIDE DEF first, head
  <2>3. Remembered(more, key, tool) = IF ov.allow THEN "allow" ELSE "deny"
    BY <1>1, <1>2, <2>1, <2>2
  <2>4. Remembered(ovs, key, tool) = "none"  BY <1>2, <1>6
  <2>5. QED  BY <1>6, <2>3, <2>4 DEF more
<1>7. CASE old = {} /\ ~Matches(ov, key, tool)
  <2> HIDE DEF first, head
  <2>1. QED  BY <1>2, <1>3, <1>7 DEF more
<1>8. QED  BY <1>5, <1>6, <1>7

(* A verdict that is ready is a yes or a no. *)
Verdicts == \A c \in Callers : pc[c] = "replying" => told[c].outcome \in {"allow", "deny"}

(* The state a promise is about. *)
PhaseMap  == [c \in Callers |-> Phase(c)]
ToolMap   == [c \in Callers |-> req[c].tool]
MemoryMap == [x \in Keys \X Tools |-> Remembered(overrides, x[1], x[2])]

Mapped == <<PhaseMap, ToolMap, action, MemoryMap>>

(* Where the step of one call leaves that call. *)
LEMMA Rephased ==
  ASSUME TypeOK, NEW c \in Callers,
         \A d \in Callers : d # c => UNCHANGED <<pc[d], told[d]>>
  PROVE  PhaseMap' = [PhaseMap EXCEPT ![c] = Phase(c)']
BY DEF PhaseMap, Phase

LEMMA SamePhases ==
  ASSUME UNCHANGED <<pc, told>>
  PROVE  PhaseMap' = PhaseMap
BY DEF PhaseMap, Phase

LEMMA PromiseInit == Init => Promise!Init
<1> SUFFICES ASSUME Init PROVE Promise!Init  OBVIOUS
<1>1. TypeOK  BY InitType
<1>2. PhaseMap = [c \in Callers |-> "idle"]  BY DEF Init, PhaseMap, Phase
<1>3. ToolMap \in [Callers -> Tools \cup {NoTool}]
  BY <1>1 DEF TypeOK, ToolMap, Requests
<1>4. action \in [Callers -> Promise!Words \cup {"ask"}]
  BY DEF Init, Promise!Words
<1>5. MemoryMap = [x \in Keys \X Tools |-> "none"]
  <2>1. overrides = <<>> /\ DOMAIN overrides = {}  BY DEF Init
  <2>2. \A key, tool : Remembered(overrides, key, tool) = "none"
    BY <2>1 DEF Remembered
  <2>3. QED  BY <2>2 DEF MemoryMap
<1>6. QED  BY <1>2, <1>3, <1>4, <1>5 DEF Promise!Init, PhaseMap, ToolMap, MemoryMap

(* What each step of a call makes of its phase. *)
LEMMA StepVerdicts == TypeOK /\ Verdicts /\ [Next]_vars => Verdicts'
<1> SUFFICES ASSUME TypeOK, Verdicts, [Next]_vars, NEW c \in Callers, pc'[c] = "replying"
             PROVE  told'[c].outcome \in {"allow", "deny"}
  BY DEF Verdicts
<1>t. /\ pc \in [Callers -> Steps] /\ action \in [Callers -> Actions]
      /\ told \in [Callers -> Verdict \cup {NoVerdict}]
  BY DEF TypeOK
<1>1. CASE pc'[c] = pc[c] /\ told'[c] = told[c]  BY <1>1 DEF Verdicts
<1>2. ASSUME NEW o \in {"allow", "deny"}, NEW v \in Reasons, Settle(c, o, v)
      PROVE  told'[c].outcome \in {"allow", "deny"}
  BY <1>t, <1>2 DEF Settle
<1>3. CASE MatchOverride(c)
  <2>1. Remembered(overrides, KeyOf[c], req[c].tool) \in {"none", "allow", "deny"}
    BY RememberedType
  <2>2. \/ \E o \in {"allow", "deny"}, v \in Reasons : Settle(c, o, v)
        \/ pc'[c] = "ask"
    BY <1>t, <1>3, <2>1 DEF MatchOverride, Reasons, Actions
  <2>3. QED  BY <1>2, <2>2
<1>4. CASE RefuseNoInterface(c) \/ WithdrawPrompt(c)
  BY <1>2, <1>4 DEF RefuseNoInterface, WithdrawPrompt, Reasons
<1>5. CASE SendPrompt(c)
  <2>1. pc'[c] = "waiting" \/ Settle(c, "deny", "unreachable")
    BY <1>t, <1>5 DEF SendPrompt
  <2>2. QED  BY <1>2, <2>1 DEF Reasons
<1>6. CASE TakeAnswer(c)
  <2>1. \E o \in {"allow", "deny"} : Settle(c, o, "user")  BY <1>6 DEF TakeAnswer
  <2>2. QED  BY <1>2, <2>1 DEF Reasons
<1>7. CASE (\E r \in Requests : DecideCall(c, r)) \/ OpenPrompt(c) \/ Elapse(c) \/ Reply(c)
  BY <1>t, <1>7 DEF DecideCall, OpenPrompt, Elapse, Reply
<1>8. CASE \E d \in Callers \ {c} : CallStep(d) \/ \E r \in Requests : DecideCall(d, r)
  BY <1>1, <1>8, OwnStepOnly
<1>9. CASE \/ \E u \in UIs : HandlerStep(u) \/ Vanish(u)
           \/ \E u \in UIs, i \in PromptIds, a \in Answers : AnswerPrompt(u, i, a)
           \/ \E s \in Servers, t \in Tools : ReportDrift(s, t)
           \/ \E rules \in RuleSets : EditPolicy(rules)
           \/ UNCHANGED vars
  <2>1. UNCHANGED callVars
    BY <1>9 DEF HandlerStep, CreateReceiver, CountInterface, Forward, HandlerEnds,
                HandlerFails, Vanish, AnswerPrompt, ReportDrift, EditPolicy, vars
  <2>2. QED  BY <1>1, <2>1 DEF callVars
<1>10. QED
  BY <1>3, <1>4, <1>5, <1>6, <1>7, <1>8, <1>9 DEF Next, CallStep

(* Every step is a step of a promise, or one it does not see. *)
LEMMA PromiseStep == CallInv /\ Verdicts /\ [Next]_vars => [Promise!Next]_(Promise!vars)
<1> SUFFICES ASSUME TypeOK, PromptHeld, Verdicts, [Next]_vars
             PROVE  Promise!Next \/ Mapped' = Mapped
  BY HeldHasType DEF CallInv, Mapped, PhaseMap, ToolMap, MemoryMap, Promise!vars
<1>t. /\ pc \in [Callers -> Steps] /\ req \in [Callers -> Requests]
      /\ action \in [Callers -> Actions] /\ overrides \in Seq(Override)
      /\ told \in [Callers -> Verdict \cup {NoVerdict}]
      /\ prompt \in [Callers -> PromptIds \cup {None}]
      /\ answer \in [PromptIds -> Answers \cup {NoAnswer}]
  BY DEF TypeOK
<1>1. ASSUME NEW c \in Callers, CallStep(c) \/ \E r \in Requests : DecideCall(c, r)
      PROVE  PhaseMap' = [PhaseMap EXCEPT ![c] = Phase(c)']
  BY <1>1, OwnStepOnly, Rephased
<1>2. ASSUME NEW c \in Callers, NEW r \in Requests, DecideCall(c, r)
      PROVE  Promise!Receive(c)
  <2>1. PhaseMap[c] = "idle"  BY <1>2 DEF PhaseMap, Phase, DecideCall
  <2>2. PhaseMap' = [PhaseMap EXCEPT ![c] = "ruled"]
    <3>1. Phase(c)' = "ruled"  BY <1>t, <1>2 DEF Phase, DecideCall
    <3>2. QED  BY <1>1, <1>2, <3>1
  <2>3. ToolMap' = [ToolMap EXCEPT ![c] = r.tool] /\ r.tool \in Tools \cup {NoTool}
    BY <1>t, <1>2 DEF ToolMap, DecideCall, Requests
  <2>4. \E a \in {"allow", "deny"} \cup {"ask"} : action' = [action EXCEPT ![c] = a]
    <3> DEFINE a == Evaluate(file, KeyOf[c], r, <<ServerOf[c], r.tool>> \in drifted)
    <3>0. (<<ServerOf[c], r.tool>> \in drifted) \in BOOLEAN  OBVIOUS
    <3>1. a \in Actions  BY <3>0, EvaluateType DEF TypeOK
    <3>2. action' = [action EXCEPT ![c] = a]  BY <1>2 DEF DecideCall
    <3> HIDE DEF a
    <3>3. QED  BY <3>1, <3>2 DEF Actions
  <2>5. MemoryMap' = MemoryMap  BY <1>2 DEF MemoryMap, DecideCall, stateVars
  <2>6. QED
    BY <2>1, <2>2, <2>3, <2>4, <2>5
    DEF PhaseMap, ToolMap, MemoryMap, Promise!Receive, Promise!Words
(* What the memory holds for a call is what the daemon remembers of it. *)
<1>3. ASSUME NEW c \in Callers
      PROVE  Promise!Said(c) = Remembered(overrides, KeyOf[c], req[c].tool)
  <2>1. ToolMap[c] = req[c].tool  BY DEF ToolMap
  <2>2. CASE req[c].tool = NoTool
    BY <1>t, <2>2, NothingOfNoTool DEF Promise!Said
  <2>3. CASE req[c].tool # NoTool
    <3>1. <<KeyOf[c], req[c].tool>> \in Keys \X Tools  BY <1>t, <2>3 DEF Requests
    <3>2. QED  BY <2>3, <3>1 DEF Promise!Said
  <2>4. QED  BY <2>2, <2>3
<1>4. ASSUME NEW c \in Callers, MatchOverride(c)  PROVE Promise!Recall(c)
  <2> DEFINE ov == Remembered(overrides, KeyOf[c], req[c].tool)
  <2>1. PhaseMap[c] = "ruled"  BY <1>4 DEF PhaseMap, Phase, MatchOverride
  <2>2. Phase(c)' = IF ov # "none" THEN ov
                    ELSE IF action[c] = "ask" THEN "asking" ELSE action[c]
    <3>1. pc'[c] = IF ov # "none" \/ action[c] # "ask" THEN "replying" ELSE "ask"
      BY <1>t, <1>4 DEF MatchOverride, Settle
    <3>2. ov # "none" => told'[c].outcome = ov  BY <1>t, <1>4 DEF MatchOverride, Settle
    <3>3. ov = "none" /\ action[c] # "ask" => told'[c].outcome = action[c]
      BY <1>t, <1>4 DEF MatchOverride, Settle
    <3> HIDE DEF ov
    <3>4. QED  BY <3>1, <3>2, <3>3 DEF Phase
  <2>3. UNCHANGED <<ToolMap, action, MemoryMap>>
    BY <1>4 DEF MatchOverride, ToolMap, MemoryMap, stateVars
  <2>4. PhaseMap' = [PhaseMap EXCEPT ![c] = Phase(c)']  BY <1>1, <1>4 DEF CallStep
  <2>5. Promise!Said(c) = ov  BY <1>3
  <2> HIDE DEF ov
  <2>6. QED
    BY <2>1, <2>2, <2>3, <2>4, <2>5 DEF PhaseMap, ToolMap, MemoryMap, Promise!Recall
<1>5. ASSUME NEW c \in Callers,
             \/ RefuseNoInterface(c)
             \/ SendPrompt(c) /\ Settle(c, "deny", "unreachable")
             \/ WithdrawPrompt(c)
      PROVE  Promise!Refuse(c)
  <2>1. PhaseMap[c] = "asking"
    BY <1>5 DEF PhaseMap, Phase, RefuseNoInterface, SendPrompt, WithdrawPrompt
  <2>2. Phase(c)' = "deny"
    BY <1>t, <1>5 DEF Phase, RefuseNoInterface, SendPrompt, WithdrawPrompt, Settle
  <2>3. UNCHANGED <<ToolMap, action, MemoryMap>>
    BY <1>5 DEF RefuseNoInterface, SendPrompt, WithdrawPrompt, ToolMap, MemoryMap,
                stateVars
  <2>4. PhaseMap' = [PhaseMap EXCEPT ![c] = Phase(c)']  BY <1>1, <1>5 DEF CallStep
  <2>5. QED
    BY <2>1, <2>2, <2>3, <2>4 DEF PhaseMap, ToolMap, MemoryMap, Promise!Refuse
<1>6. ASSUME NEW c \in Callers, Reply(c)  PROVE Promise!Finish(c)
  <2>1. PhaseMap[c] \in {"allow", "deny"}  BY <1>6 DEF PhaseMap, Phase, Reply, Verdicts
  <2>2. Phase(c)' = "idle"  BY <1>t, <1>6 DEF Phase, Reply
  <2>3. UNCHANGED <<ToolMap, action, MemoryMap>>
    BY <1>6 DEF Reply, ToolMap, MemoryMap, stateVars
  <2>4. PhaseMap' = [PhaseMap EXCEPT ![c] = Phase(c)']  BY <1>1, <1>6 DEF CallStep
  <2>5. QED
    BY <2>1, <2>2, <2>3, <2>4
    DEF PhaseMap, ToolMap, MemoryMap, Promise!Finish, Promise!Words
<1>7. ASSUME NEW c \in Callers,
             OpenPrompt(c) \/ (SendPrompt(c) /\ pc'[c] = "waiting") \/ Elapse(c)
      PROVE  Mapped' = Mapped
  <2>1. PhaseMap' = PhaseMap
    <3>1. Phase(c)' = PhaseMap[c]
      BY <1>t, <1>7 DEF Phase, PhaseMap, OpenPrompt, SendPrompt, Elapse
    <3>2. PhaseMap' = [PhaseMap EXCEPT ![c] = Phase(c)']  BY <1>1, <1>7 DEF CallStep
    <3>3. QED  BY <3>1, <3>2 DEF PhaseMap
  <2>2. UNCHANGED <<ToolMap, action, MemoryMap>>
    BY <1>7 DEF OpenPrompt, SendPrompt, Elapse, ToolMap, MemoryMap, stateVars
  <2>3. QED  BY <2>1, <2>2 DEF Mapped
<1>8. ASSUME NEW c \in Callers, TakeAnswer(c)
      PROVE  \E word \in {"allow", "deny"}, remember \in BOOLEAN :
               Promise!Confirm(c, word, remember)
  <2> DEFINE a == answer[prompt[c]]
             word == IF a.allow THEN "allow" ELSE "deny"
             tool == req[c].tool
             silent == tool = NoTool \/ EffectiveUntil(c, a) = "once"
             ov == [key |-> KeyOf[c], tool |-> tool, allow |-> a.allow]
             remember == ~silent
  <2>1. PhaseMap[c] = "asking"  BY <1>8 DEF PhaseMap, Phase, TakeAnswer
  <2>2. Phase(c)' = word  BY <1>t, <1>8 DEF Phase, TakeAnswer, Settle
  <2>3. PhaseMap' = [PhaseMap EXCEPT ![c] = Phase(c)']  BY <1>1, <1>8 DEF CallStep
  <2>4. UNCHANGED <<ToolMap, action>>  BY <1>8 DEF TakeAnswer, ToolMap
  <2>5. MemoryMap' = IF remember /\ tool # NoTool /\ Promise!Said(c) = "none"
                     THEN [MemoryMap EXCEPT ![<<KeyOf[c], tool>>] = word] ELSE MemoryMap
    <3>1. CASE silent
      <4>1. overrides' = overrides  BY <1>8, <3>1 DEF TakeAnswer, RecordOverride
      <4>2. QED  BY <3>1, <4>1 DEF MemoryMap
    <3>2. CASE ~silent
      <4>1. overrides' = Push(overrides, ov)
        BY <1>8, <3>2 DEF TakeAnswer, RecordOverride
      <4>2. tool \in Tools /\ KeyOf[c] \in Keys  BY <1>t, <3>2 DEF Requests
      <4>3. ov \in Override
        <5>1. prompt[c] \in PromptIds  BY <1>8 DEF PromptHeld, Holding, TakeAnswer
        <5>2. a \in Answers  BY <1>t, <1>8, <5>1 DEF TakeAnswer, Unanswered
        <5>3. a.allow \in BOOLEAN  BY <5>2 DEF Answers
        <5> HIDE DEF a
        <5>4. QED  BY <4>2, <5>3 DEF Override
      <4>4. Promise!Said(c) = Remembered(overrides, KeyOf[c], tool)  BY <1>3
      <4>5. \A key, t : Matches(ov, key, t) <=> key = KeyOf[c] /\ t = tool
        BY DEF Matches
      <4>6. word = IF ov.allow THEN "allow" ELSE "deny"  OBVIOUS
      <4> HIDE DEF ov, word, tool, a
      <4>7. ASSUME NEW x \in Keys \X Tools
            PROVE  Remembered(overrides', x[1], x[2]) =
                     IF /\ Remembered(overrides, KeyOf[c], tool) = "none"
                        /\ x = <<KeyOf[c], tool>>
                     THEN word ELSE Remembered(overrides, x[1], x[2])
        <5>1. x = <<KeyOf[c], tool>> <=> x[1] = KeyOf[c] /\ x[2] = tool  BY <4>2
        <5>2. Remembered(overrides', x[1], x[2]) =
                IF Remembered(overrides, x[1], x[2]) # "none"
                THEN Remembered(overrides, x[1], x[2])
                ELSE IF ~Matches(ov, x[1], x[2]) THEN "none" ELSE word
          BY <1>t, <4>1, <4>3, <4>6, RememberedPushed
        <5>3. QED  BY <4>5, <5>1, <5>2
      <4>8. <<KeyOf[c], tool>> \in Keys \X Tools  BY <4>2
      <4>9. MemoryMap' = [x \in Keys \X Tools |-> Remembered(overrides', x[1], x[2])]
        BY DEF MemoryMap
      <4>10. CASE Remembered(overrides, KeyOf[c], tool) = "none"
        <5>1. MemoryMap' = [MemoryMap EXCEPT ![<<KeyOf[c], tool>>] = word]
          BY <4>7, <4>8, <4>9, <4>10 DEF MemoryMap
        <5>2. QED  BY <3>2, <4>4, <4>10, <5>1
      <4>11. CASE Remembered(overrides, KeyOf[c], tool) # "none"
        <5>1. MemoryMap' = MemoryMap  BY <4>7, <4>9, <4>11 DEF MemoryMap
        <5>2. QED  BY <4>4, <4>11, <5>1
      <4>12. QED  BY <4>10, <4>11
    <3>3. QED  BY <3>1, <3>2
  <2>6. word \in {"allow", "deny"} /\ remember \in BOOLEAN  OBVIOUS
  <2>7. ToolMap[c] = tool  BY DEF ToolMap
  <2>8. Promise!Confirm(c, word, remember)
    <3> HIDE DEF word, tool, remember
    <3>1. QED
      BY <2>1, <2>2, <2>3, <2>4, <2>5, <2>7
      DEF PhaseMap, ToolMap, MemoryMap, Promise!Confirm
  <2> HIDE DEF word, remember
  <2>9. QED  BY <2>6, <2>8
<1>9. CASE \/ \E u \in UIs : HandlerStep(u) \/ Vanish(u)
           \/ \E u \in UIs, i \in PromptIds, a \in Answers : AnswerPrompt(u, i, a)
           \/ \E s \in Servers, t \in Tools : ReportDrift(s, t)
           \/ \E rules \in RuleSets : EditPolicy(rules)
           \/ UNCHANGED vars
  <2>1. UNCHANGED <<callVars, overrides>>
    BY <1>9 DEF HandlerStep, CreateReceiver, CountInterface, Forward, HandlerEnds,
                HandlerFails, Vanish, AnswerPrompt, ReportDrift, EditPolicy, vars,
                stateVars
  <2>2. PhaseMap' = PhaseMap  BY <2>1, SamePhases DEF callVars
  <2>3. QED  BY <2>1, <2>2 DEF Mapped, ToolMap, MemoryMap, callVars
<1>10. ASSUME NEW c \in Callers, SendPrompt(c)
       PROVE  Settle(c, "deny", "unreachable") \/ pc'[c] = "waiting"
  BY <1>t, <1>10 DEF SendPrompt
<1>11. ASSUME NEW c \in Callers, CallStep(c)  PROVE Promise!Next \/ Mapped' = Mapped
  <2>1. \/ Promise!Recall(c) \/ Promise!Refuse(c) \/ Promise!Finish(c)
        \/ \E word \in {"allow", "deny"}, remember \in BOOLEAN :
             Promise!Confirm(c, word, remember)
        \/ Mapped' = Mapped
    <3>1. CASE MatchOverride(c)  BY <1>4, <3>1
    <3>2. CASE RefuseNoInterface(c) \/ WithdrawPrompt(c)  BY <1>5, <3>2
    <3>3. CASE SendPrompt(c)  BY <1>5, <1>7, <1>10, <3>3
    <3>4. CASE OpenPrompt(c) \/ Elapse(c)  BY <1>7, <3>4
    <3>5. CASE TakeAnswer(c)  BY <1>8, <3>5
    <3>6. CASE Reply(c)  BY <1>6, <3>6
    <3>7. QED  BY <1>11, <3>1, <3>2, <3>3, <3>4, <3>5, <3>6 DEF CallStep
  <2>2. QED  BY <2>1 DEF Promise!Next, Promise!Words
<1>12. QED  BY <1>2, <1>9, <1>11 DEF Next, Promise!Next

(* Prompts, timers and interfaces do not change what a caller is promised:  *)
(* the daemon implements Confirmation.                                     *)
THEOREM KeepsItsPromise == Spec => ImplementsConfirmation
<1>1. Init => CallInv /\ Verdicts
  BY InitCalls DEF Init, Verdicts
<1>2. CallInv /\ Verdicts /\ [Next]_vars => (CallInv /\ Verdicts)'
  BY StepCalls, StepVerdicts DEF CallInv
<1>3. CallInv /\ Verdicts /\ [Next]_vars => [Promise!Next]_(Promise!vars)
  BY PromiseStep
<1>4. QED  BY PromiseInit, <1>1, <1>2, <1>3, PTL DEF Spec, ImplementsConfirmation, Promise!Spec

-----------------------------------------------------------------------------
(* What is on the screens.                                                 *)

Notice(i)       == [type |-> "prompt", id |-> i]
Withdrawal(i)   == [type |-> "withdraw", id |-> i]
Live(i)         == i \in pending \/ answer[i] # NoAnswer
Listening(u)    == rx[u] \/ Lagged(u)
Closing(u, i, n) == \E m \in DOMAIN queue[u] : m > n /\ queue[u][m] = Withdrawal(i)

(* Interface u hears what is sent, or lags; what it shows or is about to    *)
(* show was opened, and can be answered, or is about to be closed; and a    *)
(* prompt that has not been sent is neither shown nor on its way.           *)
Joined(u)   == conn[u] = "new" => queue[u] = <<>> /\ ~rx[u]
Hears(u)    == conn[u] \in {"joining", "subscribed"} /\ alive[u] => Listening(u)
ShownIs(u)  == \A i \in panels[u] : /\ alive[u] /\ Listening(u) /\ i < nextId
                                    /\ Lagged(u) \/ Live(i) \/ Closing(u, i, 0)
ComingIs(u) == \A n \in DOMAIN queue[u] : \A i \in PromptIds :
                 queue[u][n] = Notice(i) =>
                   /\ i < nextId
                   /\ ~rx[u] \/ Lagged(u) \/ Live(i) \/ Closing(u, i, n)
UnsentIs(u) == \A c \in Callers, i \in PromptIds : pc[c] = "opened" /\ prompt[c] = i =>
                 /\ i \notin panels[u]
                 /\ \A n \in DOMAIN queue[u] : queue[u][n] # Notice(i)

Screen(u) == Joined(u) /\ Hears(u) /\ ShownIs(u) /\ ComingIs(u) /\ UnsentIs(u)

ScreenInv == CallInv /\ \A u \in UIs : Screen(u)

LEMMA InitScreens == Init => ScreenInv
<1> SUFFICES ASSUME Init, NEW u \in UIs  PROVE Screen(u)
  BY InitCalls DEF ScreenInv
<1>1. /\ conn[u] = "new" /\ panels[u] = {} /\ queue[u] = <<>> /\ ~rx[u]
      /\ \A c \in Callers : pc[c] = "idle"
  BY DEF Init
<1>2. DOMAIN queue[u] = {}  BY <1>1
<1>3. QED
  BY <1>1, <1>2 DEF Screen, Joined, Hears, ShownIs, ComingIs, UnsentIs

(* A screen that receives nothing stays as it must be, if what it shows or  *)
(* is about to show can still be answered, and if what is opened is new.    *)
LEMMA ScreenStays ==
  ASSUME NEW u \in UIs, Screen(u), TypeOK, TypeOK',
         UNCHANGED <<rx[u], queue[u]>>, panels'[u] \subseteq panels[u],
         conn'[u] = "new" => conn[u] = "new",
         conn'[u] \in {"joining", "subscribed"} => conn[u] \in {"joining", "subscribed"},
         alive'[u] = alive[u] \/ (~alive'[u] /\ panels'[u] = {}),
         nextId <= nextId',
         rx[u] /\ ~Lagged(u) =>
           \A i \in PromptIds : Live(i) => \/ Live(i)'
                                           \/ \E c \in Callers : pc[c] = "opened" /\ prompt[c] = i,
         \A c \in Callers : pc'[c] = "opened" =>
           (pc[c] = "opened" /\ prompt'[c] = prompt[c]) \/ prompt'[c] = nextId
  PROVE  Screen(u)'
<1>t. /\ nextId \in Nat /\ nextId' \in Nat /\ panels[u] \in SUBSET PromptIds
      /\ queue[u] \in Seq(Message) /\ \A i \in PromptIds : i \in Nat
  BY DEF TypeOK, PromptIds
<1>s. Joined(u) /\ Hears(u) /\ ShownIs(u) /\ ComingIs(u) /\ UnsentIs(u)  BY DEF Screen
<1>q. queue'[u] = queue[u] /\ rx'[u] = rx[u]  OBVIOUS
<1>2. /\ Listening(u)' = Listening(u) /\ Lagged(u)' = Lagged(u)
      /\ \A i \in PromptIds, n \in Nat : Closing(u, i, n)' = Closing(u, i, n)
  BY <1>q DEF Listening, Lagged, Closing, Withdrawal
<1>1. Joined(u)' /\ Hears(u)'  BY <1>q, <1>s, <1>2 DEF Joined, Hears
<1>3. ASSUME NEW i \in PromptIds, i < nextId  PROVE i < nextId'
  BY <1>t, <1>3
<1>4. ShownIs(u)'
  <2> SUFFICES ASSUME NEW i \in panels'[u]
               PROVE  /\ alive'[u] /\ Listening(u) /\ i < nextId'
                      /\ Lagged(u) \/ Live(i)' \/ Closing(u, i, 0)
    BY <1>2, <1>t DEF ShownIs
  <2>1. /\ alive[u] /\ Listening(u) /\ i < nextId /\ i \in PromptIds
        /\ Lagged(u) \/ Live(i) \/ Closing(u, i, 0)
    BY <1>s, <1>t DEF ShownIs
  <2>2. ~\E c \in Callers : pc[c] = "opened" /\ prompt[c] = i
    BY <1>s, <2>1 DEF UnsentIs
  <2>3. alive'[u] /\ i < nextId'  BY <1>3, <2>1
  <2>4. Lagged(u) \/ Live(i)' \/ Closing(u, i, 0)
    BY <2>1, <2>2 DEF Listening
  <2>5. QED  BY <2>1, <2>3, <2>4
<1>5. ComingIs(u)'
  <2> SUFFICES ASSUME NEW n \in DOMAIN queue[u], NEW i \in PromptIds, queue[u][n] = Notice(i)
               PROVE  /\ i < nextId'
                      /\ ~rx[u] \/ Lagged(u) \/ Live(i)' \/ Closing(u, i, n)
    <3>1. \A m \in DOMAIN queue[u] : m \in Nat  BY <1>t
    <3>2. \A m \in DOMAIN queue[u] : \A j \in PromptIds : Closing(u, j, m)' = Closing(u, j, m)
      BY <1>2, <3>1
    <3>3. QED  BY <1>q, <1>2, <3>2 DEF ComingIs, Notice
  <2>1. i < nextId /\ (~rx[u] \/ Lagged(u) \/ Live(i) \/ Closing(u, i, n))
    BY <1>s DEF ComingIs
  <2>2. ~\E c \in Callers : pc[c] = "opened" /\ prompt[c] = i  BY <1>s DEF UnsentIs
  <2>3. QED  BY <1>3, <2>1, <2>2
<1>6. UnsentIs(u)'
  <2> SUFFICES ASSUME NEW c \in Callers, NEW i \in PromptIds, pc'[c] = "opened", prompt'[c] = i
               PROVE  /\ i \notin panels'[u]
                      /\ \A n \in DOMAIN queue[u] : queue[u][n] # Notice(i)
    BY <1>q DEF UnsentIs, Notice
  <2>1. CASE pc[c] = "opened" /\ prompt'[c] = prompt[c]  BY <1>s, <2>1 DEF UnsentIs
  <2>2. CASE i = nextId
    <3>1. ~(nextId < nextId)  BY <1>t
    <3>2. QED  BY <1>s, <2>2, <3>1 DEF ShownIs, ComingIs
  <2>3. QED  BY <2>1, <2>2
<1>7. QED  BY <1>1, <1>4, <1>5, <1>6 DEF Screen

(* A screen that is sent a prompt just opened, or the withdrawal of one     *)
(* that can no longer be answered, stays as it must be.                    *)
LEMMA ScreenHearsOf ==
  ASSUME NEW u \in UIs, Screen(u), TypeOK, NEW m \in Message,
         rx[u], queue'[u] = Append(queue[u], m),
         UNCHANGED <<rx[u], panels[u], conn[u], alive[u], nextId>>,
         \A i \in PromptIds : Live(i) => Live(i)' \/ m = Withdrawal(i),
         \A i \in PromptIds : m = Notice(i) => i < nextId /\ Live(i)',
         \A c \in Callers : pc'[c] = "opened" =>
           pc[c] = "opened" /\ prompt'[c] = prompt[c] /\ m # Notice(prompt[c])
  PROVE  Screen(u)'
<1> DEFINE last == Len(queue[u]) + 1
<1>t. /\ panels[u] \in SUBSET PromptIds /\ queue[u] \in Seq(Message)
      /\ \A i \in PromptIds : i \in Nat
  BY DEF TypeOK, PromptIds
<1>s. Joined(u) /\ Hears(u) /\ ShownIs(u) /\ ComingIs(u) /\ UnsentIs(u)  BY DEF Screen
<1>q. /\ DOMAIN queue'[u] = DOMAIN queue[u] \cup {last}
      /\ \A n \in DOMAIN queue[u] : queue'[u][n] = queue[u][n] /\ n \in Nat /\ n < last
      /\ queue'[u][last] = m /\ last \in Nat /\ 0 < last
      /\ Lagged(u) => Lagged(u)'
  BY <1>t DEF Lagged
<1> HIDE DEF last
<1>c. ASSUME NEW i \in PromptIds, NEW n \in Nat, n < last,
             Live(i) \/ Closing(u, i, n)
      PROVE  Live(i)' \/ Closing(u, i, n)'
  <2>1. CASE Closing(u, i, n)  BY <1>q, <2>1 DEF Closing, Withdrawal
  <2>2. CASE m = Withdrawal(i)  BY <1>q, <1>c, <2>2 DEF Closing, Withdrawal
  <2>3. QED  BY <1>c, <2>1, <2>2
<1>1. Joined(u)' /\ Hears(u)'
  <2>1. conn'[u] # "new" /\ rx'[u]  BY <1>s DEF Joined
  <2>2. QED  BY <2>1 DEF Joined, Hears, Listening
<1>2. ShownIs(u)'
  <2> SUFFICES ASSUME NEW i \in panels[u]
               PROVE  /\ alive[u] /\ i < nextId
                      /\ Lagged(u)' \/ Live(i)' \/ Closing(u, i, 0)'
    BY DEF ShownIs, Listening
  <2>1. /\ alive[u] /\ i < nextId /\ i \in PromptIds
        /\ Lagged(u) \/ Live(i) \/ Closing(u, i, 0)
    BY <1>s, <1>t DEF ShownIs
  <2>2. QED  BY <1>c, <1>q, <2>1
<1>3. ComingIs(u)'
  <2> SUFFICES ASSUME NEW n \in DOMAIN queue'[u], NEW i \in PromptIds,
                      queue'[u][n] = Notice(i)
               PROVE  i < nextId /\ (Lagged(u)' \/ Live(i)' \/ Closing(u, i, n)')
    BY DEF ComingIs, Notice
  <2>1. CASE n = last  BY <1>q, <2>1
  <2>2. CASE n \in DOMAIN queue[u]
    <3>1. i < nextId /\ (Lagged(u) \/ Live(i) \/ Closing(u, i, n))
      BY <1>q, <1>s, <2>2 DEF ComingIs
    <3>2. QED  BY <1>c, <1>q, <2>2, <3>1
  <2>3. QED  BY <1>q, <2>1, <2>2
<1>4. UnsentIs(u)'
  <2> SUFFICES ASSUME NEW c \in Callers, NEW i \in PromptIds, pc'[c] = "opened", prompt'[c] = i
               PROVE  /\ i \notin panels[u]
                      /\ \A n \in DOMAIN queue'[u] : queue'[u][n] # Notice(i)
    BY DEF UnsentIs, Notice
  <2>1. pc[c] = "opened" /\ prompt[c] = i /\ m # Notice(i)  OBVIOUS
  <2>2. QED  BY <1>q, <1>s, <2>1 DEF UnsentIs
<1>5. QED  BY <1>1, <1>2, <1>3, <1>4 DEF Screen

(* Every step leaves every screen as it must be. *)
LEMMA StepScreens == ScreenInv /\ [Next]_vars => ScreenInv'
<1> SUFFICES ASSUME ScreenInv, [Next]_vars, NEW u \in UIs  PROVE Screen(u)'
  BY StepCalls DEF ScreenInv
<1>t. /\ TypeOK /\ TypeOK' /\ Screen(u) /\ CallInv
  BY StepCalls DEF ScreenInv, CallInv
<1>v. /\ pc \in [Callers -> Steps] /\ prompt \in [Callers -> PromptIds \cup {None}]
      /\ conn \in [UIs -> {"new", "joining", "subscribed", "ended", "leaked"}]
      /\ alive \in [UIs -> BOOLEAN] /\ rx \in [UIs -> BOOLEAN]
      /\ queue \in [UIs -> Seq(Message)] /\ panels \in [UIs -> SUBSET PromptIds]
      /\ answer \in [PromptIds -> Answers \cup {NoAnswer}]
      /\ nextId \in Nat /\ \A i \in PromptIds : i \in Nat
  BY <1>t DEF TypeOK, PromptIds
(* A prompt that a call holds can be answered, and its id has been given.   *)
<1>h. ASSUME NEW c \in Callers, Holding(c)
      PROVE  prompt[c] \in PromptIds /\ prompt[c] < nextId /\ Live(prompt[c])
  <2>1. prompt[c] \in PromptIds /\ prompt[c] < nextId
    BY <1>t, <1>h DEF CallInv, HeldIsOwn, IdsInOrder
  <2>2. answer[prompt[c]] = NoAnswer => prompt[c] \in pending
    BY <1>t, <1>h, <2>1 DEF CallInv, PendingIsHeld
  <2>3. QED  BY <2>1, <2>2 DEF Live
<1>1. CASE \/ \E c \in Callers : \/ \E r \in Requests : DecideCall(c, r)
                                \/ MatchOverride(c) \/ RefuseNoInterface(c) \/ Elapse(c)
                                \/ TakeAnswer(c) \/ Reply(c)
           \/ \E s \in Servers, t \in Tools : ReportDrift(s, t)
           \/ \E rules \in RuleSets : EditPolicy(rules)
           \/ UNCHANGED vars
  <2>1. UNCHANGED <<uiVars, pending, nextId, answer>>
    BY <1>1 DEF DecideCall, MatchOverride, RefuseNoInterface, Elapse, TakeAnswer, Reply,
                ReportDrift, EditPolicy, vars, stateVars, promptVars
  <2>2. ASSUME NEW d \in Callers, pc'[d] = "opened"
        PROVE  pc[d] = "opened" /\ prompt'[d] = prompt[d]
    <3>1. CASE UNCHANGED callVars  BY <2>2, <3>1 DEF callVars
    <3>2. CASE \E c \in Callers : \E r \in Requests : DecideCall(c, r)
      <4>1. pc'[d] = pc[d] \/ pc'[d] = "ruled"  BY <1>v, <3>2 DEF DecideCall
      <4>2. PICK c \in Callers : \E r \in Requests : DecideCall(c, r)  BY <3>2
      <4>3. pc'[c] = "ruled"  BY <1>v, <4>2 DEF DecideCall
      <4>4. d # c  BY <2>2, <4>3
      <4>5. QED  BY <2>2, <1>t, <4>2, <4>4, OwnStepOnly
    <3>3. CASE \E c \in Callers : \/ MatchOverride(c) \/ RefuseNoInterface(c) \/ Elapse(c)
                                  \/ TakeAnswer(c) \/ Reply(c)
      <4>1. prompt' = prompt
        BY <3>3 DEF MatchOverride, RefuseNoInterface, Elapse, TakeAnswer, Reply
      <4>2. \E o \in {"ask", "replying", "elapsed", "idle"} : pc'[d] = pc[d] \/ pc'[d] = o
        BY <1>v, <3>3 DEF MatchOverride, RefuseNoInterface, Elapse, TakeAnswer, Reply, Settle
      <4>3. QED  BY <2>2, <4>1, <4>2
    <3>4. QED
      BY <1>1, <3>1, <3>2, <3>3 DEF ReportDrift, EditPolicy, vars
  <2>3. \A i \in PromptIds : Live(i) => Live(i)'  BY <2>1 DEF Live
  <2>4. nextId <= nextId'  BY <1>v, <2>1
  <2>5. QED  BY <1>t, <2>1, <2>2, <2>3, <2>4, ScreenStays DEF uiVars
<1>2. ASSUME NEW c \in Callers, OpenPrompt(c)  PROVE Screen(u)'
  <2>1. /\ UNCHANGED <<uiVars, answer>> /\ nextId <= nextId' /\ pending \subseteq pending'
    BY <1>2, <1>v DEF OpenPrompt, TakeId
  <2>2. \A d \in Callers : pc'[d] = "opened" =>
          (pc[d] = "opened" /\ prompt'[d] = prompt[d]) \/ prompt'[d] = nextId
    BY <1>2, <1>v DEF OpenPrompt
  <2>3. \A i \in PromptIds : Live(i) => Live(i)'  BY <2>1 DEF Live
  <2>4. QED  BY <1>t, <2>1, <2>2, <2>3, ScreenStays DEF uiVars
<1>3. ASSUME NEW c \in Callers, SendPrompt(c)  PROVE Screen(u)'
  <2>1. /\ pc[c] = "opened" /\ pc'[c] \in {"waiting", "replying"}
        /\ UNCHANGED <<prompt, nextId, answer, conn, alive, rx, panels>>
        /\ \A d \in Callers : d # c => pc'[d] = pc[d]
    BY <1>3, <1>v DEF SendPrompt, Settle
  <2>2. \A d \in Callers : pc'[d] = "opened" =>
          d # c /\ pc[d] = "opened" /\ prompt'[d] = prompt[d]
    BY <2>1
  <2>3. \A i \in PromptIds : Live(i) => Live(i)' \/ i = prompt[c]
    BY <1>3, <2>1 DEF Live, SendPrompt, Forget
  <2>4. nextId <= nextId'  BY <1>v, <2>1
  <2>5. CASE queue'[u] = queue[u]
    <3>1. \A i \in PromptIds : Live(i) =>
            Live(i)' \/ \E d \in Callers : pc[d] = "opened" /\ prompt[d] = i
      BY <2>1, <2>3
    <3>2. QED  BY <1>t, <2>1, <2>2, <2>4, <2>5, <3>1, ScreenStays
  <2>6. CASE queue'[u] # queue[u]
    <3>1. rx[u] /\ queue'[u] = Append(queue[u], Notice(prompt[c])) /\ UNCHANGED pending
      BY <1>3, <1>v, <2>6 DEF SendPrompt, Broadcast, Notice
    <3>2. prompt[c] \in PromptIds /\ prompt[c] < nextId /\ Live(prompt[c])
      BY <1>h, <2>1 DEF Holding
    <3>3. Notice(prompt[c]) \in Message  BY <3>2 DEF Notice, Message
    <3>4. \A i \in PromptIds : Live(i) => Live(i)'  BY <2>1, <3>1 DEF Live
    <3>5. \A i \in PromptIds : Notice(prompt[c]) = Notice(i) => i = prompt[c]
      BY DEF Notice
    <3>6. \A d \in Callers : pc'[d] = "opened" => Notice(prompt[c]) # Notice(prompt[d])
      <4>1. \A d \in Callers : d # c => prompt[d] # prompt[c]
        BY <1>t, <3>2 DEF CallInv, OnePromptOneCall, None, PromptIds
      <4>2. QED  BY <2>2, <4>1 DEF Notice
    <3>7. QED
      BY <1>t, <2>1, <2>2, <3>1, <3>2, <3>3, <3>4, <3>5, <3>6, ScreenHearsOf
  <2>7. QED  BY <2>5, <2>6
<1>4. ASSUME NEW c \in Callers, WithdrawPrompt(c)  PROVE Screen(u)'
  <2>1. /\ pc[c] = "elapsed" /\ pc'[c] = "replying"
        /\ UNCHANGED <<prompt, nextId, answer, conn, alive, rx, panels>>
        /\ \A d \in Callers : d # c => pc'[d] = pc[d]
    BY <1>4, <1>v DEF WithdrawPrompt, Settle
  <2>2. \A d \in Callers : pc'[d] = "opened" => pc[d] = "opened" /\ prompt'[d] = prompt[d]
    BY <2>1
  <2>3. \A i \in PromptIds : Live(i) => Live(i)' \/ i = prompt[c]
    BY <1>4, <2>1 DEF Live, WithdrawPrompt, Forget
  <2>4. nextId <= nextId'  BY <1>v, <2>1
  <2>5. CASE ~(rx[u] /\ ~Lagged(u))
    <3>1. queue'[u] = queue[u]
      <4>1. Len(queue[u]) \in Nat  BY <1>v
      <4>2. ~(rx[u] /\ Len(queue[u]) <= Capacity)  BY <2>5, <4>1 DEF Lagged
      <4>3. QED  BY <1>4, <4>2 DEF WithdrawPrompt, Broadcast
    <3>2. QED  BY <1>t, <2>1, <2>2, <2>4, <2>5, <3>1, ScreenStays
  <2>6. CASE rx[u] /\ ~Lagged(u)
    <3>1. queue'[u] = Append(queue[u], Withdrawal(prompt[c]))
      <4>1. Len(queue[u]) \in Nat  BY <1>v
      <4>2. rx[u] /\ Len(queue[u]) <= Capacity  BY <2>6, <4>1 DEF Lagged
      <4>3. QED  BY <1>4, <4>2 DEF WithdrawPrompt, Broadcast, Withdrawal
    <3>2. prompt[c] \in PromptIds  BY <1>h, <2>1 DEF Holding
    <3>3. Withdrawal(prompt[c]) \in Message  BY <3>2 DEF Withdrawal, Message
    <3>4. \A i \in PromptIds : Live(i) => Live(i)' \/ Withdrawal(prompt[c]) = Withdrawal(i)
      BY <2>3
    <3>5. \A i : Withdrawal(prompt[c]) # Notice(i)  BY DEF Withdrawal, Notice
    <3>6. QED
      BY <1>t, <2>1, <2>2, <2>6, <3>1, <3>3, <3>4, <3>5, ScreenHearsOf
  <2>7. QED  BY <2>5, <2>6
<1>5. ASSUME NEW v \in UIs,
             \/ CountInterface(v) \/ HandlerEnds(v) \/ HandlerFails(v) \/ Vanish(v)
             \/ \E i \in PromptIds, a \in Answers : AnswerPrompt(v, i, a)
      PROVE  Screen(u)'
  <2>0. UNCHANGED <<rx, queue, pc, prompt, nextId>>
    BY <1>5 DEF CountInterface, HandlerEnds, HandlerFails, Vanish, AnswerPrompt,
                callVars, stateVars
  <2>1. panels'[u] \subseteq panels[u]
    <3>1. CASE CountInterface(v) \/ HandlerEnds(v) \/ HandlerFails(v)
      BY <3>1 DEF CountInterface, HandlerEnds, HandlerFails
    <3>2. CASE Vanish(v)  BY <1>v, <3>2 DEF Vanish
    <3>3. CASE \E i \in PromptIds, a \in Answers : AnswerPrompt(v, i, a)
      <4>1. PICK i \in PromptIds : panels' = [panels EXCEPT ![v] = panels[v] \ {i}]
        BY <3>3 DEF AnswerPrompt
      <4>2. QED  BY <1>v, <4>1
    <3>4. QED  BY <1>5, <3>1, <3>2, <3>3
  <2>2. /\ conn'[u] = "new" => conn[u] = "new"
        /\ conn'[u] \in {"joining", "subscribed"} => conn[u] \in {"joining", "subscribed"}
    BY <1>5, <1>v DEF CountInterface, HandlerEnds, HandlerFails, Vanish, AnswerPrompt
  <2>3. alive'[u] = alive[u] \/ (~alive'[u] /\ panels'[u] = {})
    BY <1>5, <1>v DEF CountInterface, HandlerEnds, HandlerFails, Vanish, AnswerPrompt
  <2>4. \A i \in PromptIds : Live(i) => Live(i)'
    <3>1. CASE UNCHANGED <<pending, answer>>  BY <3>1 DEF Live
    <3>2. CASE \E i \in PromptIds, a \in Answers : AnswerPrompt(v, i, a)
      <4>1. PICK i \in PromptIds, a \in Answers : AnswerPrompt(v, i, a)  BY <3>2
      <4>2. a # NoAnswer  BY DEF Answers, NoAnswer
      <4>3. UNCHANGED <<pending, answer>>
            \/ (pending' = pending \ {i} /\ answer' = [answer EXCEPT ![i] = a])
        BY <4>1 DEF AnswerPrompt, Forget
      <4>4. CASE pending' = pending \ {i} /\ answer' = [answer EXCEPT ![i] = a]
        <5>1. \A j \in PromptIds : answer'[j] = IF j = i THEN a ELSE answer[j]
          BY <1>v, <4>4
        <5>2. QED  BY <4>2, <4>4, <5>1 DEF Live
      <4>5. QED  BY <3>1, <4>3, <4>4
    <3>3. QED
      BY <1>5, <3>1, <3>2 DEF CountInterface, HandlerEnds, HandlerFails, Vanish,
                              promptVars, stateVars
  <2>5. nextId <= nextId'  BY <1>v, <2>0
  <2>6. QED  BY <1>t, <2>0, <2>1, <2>2, <2>3, <2>4, <2>5, ScreenStays
<1>6. ASSUME NEW v \in UIs, CreateReceiver(v) \/ Forward(v), v # u  PROVE Screen(u)'
  <2>1. UNCHANGED <<rx[u], queue[u], panels[u], conn[u], alive[u], pc, prompt, nextId,
                    pending, answer>>
    BY <1>6, <1>v DEF CreateReceiver, Forward, callVars, stateVars, promptVars
  <2>2. nextId <= nextId' /\ \A i \in PromptIds : Live(i) => Live(i)'
    BY <1>v, <2>1 DEF Live
  <2>3. QED  BY <1>t, <2>1, <2>2, ScreenStays
<1>s. Joined(u) /\ Hears(u) /\ ShownIs(u) /\ ComingIs(u) /\ UnsentIs(u)
  BY <1>t DEF Screen
<1>7. ASSUME CreateReceiver(u)  PROVE Screen(u)'
  <2>1. /\ conn[u] = "new" /\ conn'[u] = "joining" /\ rx'[u] /\ queue[u] = <<>>
        /\ UNCHANGED <<queue, panels, alive, pc, prompt, nextId, pending, answer>>
    BY <1>7, <1>s, <1>v DEF CreateReceiver, Joined, callVars, stateVars, promptVars
  <2>2. Joined(u)' /\ Hears(u)' /\ Listening(u)'  BY <2>1 DEF Joined, Hears, Listening
  <2>3. ShownIs(u)'
    <3>1. \A i \in PromptIds : /\ Live(i)' = Live(i) /\ Lagged(u)' = Lagged(u)
                               /\ Closing(u, i, 0)' = Closing(u, i, 0)
      BY <2>1 DEF Live, Lagged, Closing, Withdrawal
    <3>2. QED  BY <1>s, <1>v, <2>1, <2>2, <3>1 DEF ShownIs
  <2>4. DOMAIN queue'[u] = {}  BY <2>1
  <2>5. ComingIs(u)'  BY <2>4 DEF ComingIs
  <2>6. UnsentIs(u)'  BY <1>s, <2>1, <2>4 DEF UnsentIs
  <2>7. QED  BY <2>2, <2>3, <2>5, <2>6 DEF Screen
<1>8. ASSUME Forward(u)  PROVE Screen(u)'
  <2>1. UNCHANGED <<conn, alive, pc, prompt, nextId, pending, answer>>
    BY <1>8 DEF Forward, callVars, stateVars, promptVars
  <2>2. \A i \in PromptIds : Live(i)' = Live(i)  BY <2>1 DEF Live
  <2>3. CASE Lagged(u) \/ ~alive[u]
    <3>1. UNCHANGED <<queue, panels>> /\ ~rx'[u]  BY <1>8, <1>v, <2>3 DEF Forward
    <3>2. /\ Lagged(u)' = Lagged(u)
          /\ \A i \in PromptIds, n \in Nat : Closing(u, i, n)' = Closing(u, i, n)
      BY <3>1 DEF Lagged, Closing, Withdrawal
    <3>3. Joined(u)' /\ Hears(u)'
      BY <1>s, <2>1, <2>3, <3>1, <3>2 DEF Joined, Hears, Listening
    <3>4. ShownIs(u)'
      BY <1>s, <1>v, <2>1, <2>2, <2>3, <3>1, <3>2 DEF ShownIs, Listening
    <3>5. ComingIs(u)'
      BY <1>s, <2>1, <3>1 DEF ComingIs, Notice
    <3>6. UnsentIs(u)'  BY <1>s, <2>1, <3>1 DEF UnsentIs, Notice
    <3>7. QED  BY <3>3, <3>4, <3>5, <3>6 DEF Screen
  <2>4. CASE ~Lagged(u) /\ alive[u]
    <3> DEFINE q == queue[u]
               rest == Tail(queue[u])
    <3>1. /\ rx[u] /\ rx' = rx /\ q # <<>> /\ q \in Seq(Message)
          /\ queue'[u] = rest /\ conn[u] # "new"
          /\ panels'[u] = IF Head(q).type = "prompt" THEN panels[u] \cup {Head(q).id}
                          ELSE panels[u] \ {Head(q).id}
      BY <1>8, <1>s, <1>v, <2>4 DEF Forward, Joined
    <3>2. /\ 1 \in DOMAIN q /\ q[1] = Head(q) /\ Head(q) \in Message
          /\ \A n \in DOMAIN rest : n \in Nat /\ n + 1 \in DOMAIN q /\ rest[n] = q[n + 1]
          /\ \A n \in DOMAIN q : n \in Nat /\ (n # 1 => n - 1 \in DOMAIN rest /\ rest[n - 1] = q[n])
      <4> HIDE DEF q
      <4>1. QED  BY <3>1 DEF q
    <3>3. Len(rest) <= Len(q) /\ ~Lagged(u)'
      <4>1. Len(q) \in Nat /\ Len(rest) = Len(q) - 1
        <5> HIDE DEF q
        <5>1. QED  BY <3>1 DEF q
      <4>2. Len(q) <= Capacity  BY <2>4, <4>1 DEF Lagged
      <4>3. Len(queue'[u]) <= Capacity  BY <3>1, <4>1, <4>2
      <4>4. QED  BY <3>1, <4>1, <4>3 DEF Lagged
    <3> HIDE DEF q, rest
    (* A withdrawal further back is one place nearer. *)
    <3>4. ASSUME NEW i \in PromptIds, NEW n \in Nat, Closing(u, i, n + 1)
          PROVE  Closing(u, i, n)'
      <4>1. PICK m \in DOMAIN q : m > n + 1 /\ q[m] = Withdrawal(i)
        BY <3>4 DEF Closing, q
      <4>2. m - 1 \in DOMAIN rest /\ rest[m - 1] = Withdrawal(i) /\ m - 1 > n
        BY <3>2, <4>1
      <4>3. QED  BY <3>1, <4>2 DEF Closing, Withdrawal
    <3>5. Joined(u)' /\ Hears(u)' /\ Listening(u)'
      BY <2>1, <3>1 DEF Joined, Hears, Listening
    <3>6. ComingIs(u)'
      <4> SUFFICES ASSUME NEW n \in DOMAIN rest, NEW i \in PromptIds, rest[n] = Notice(i)
                   PROVE  i < nextId /\ (Live(i) \/ Closing(u, i, n)')
        BY <2>1, <2>2, <3>1 DEF ComingIs, Notice
      <4>1. n \in Nat /\ n + 1 \in DOMAIN q /\ q[n + 1] = Notice(i)  BY <3>2
      <4>2. i < nextId /\ (Live(i) \/ Closing(u, i, n + 1))
        BY <1>s, <2>4, <3>1, <4>1 DEF ComingIs, q
      <4>3. QED  BY <3>4, <4>1, <4>2
    <3>7. ShownIs(u)'
      <4> SUFFICES ASSUME NEW i \in panels'[u]
                   PROVE  i < nextId /\ (Live(i) \/ Closing(u, i, 0)')
        BY <1>t, <2>1, <2>2, <2>4, <3>5 DEF ShownIs, TypeOK
      <4>1. CASE Head(q).type = "prompt" /\ i = Head(q).id
        <5>1. i \in PromptIds /\ q[1] = Notice(i)
          BY <3>2, <4>1 DEF Message, Notice
        <5>2. i < nextId /\ (Live(i) \/ Closing(u, i, 1))
          BY <1>s, <2>4, <3>1, <3>2, <5>1 DEF ComingIs, q
        <5>3. Closing(u, i, 0 + 1) => Closing(u, i, 0)'  BY <3>4, <5>1
        <5>4. QED  BY <5>2, <5>3
      <4>2. CASE i \in panels[u] /\ (Head(q).type = "prompt" \/ i # Head(q).id)
        <5>1. i \in PromptIds /\ i < nextId /\ (Live(i) \/ Closing(u, i, 0))
          BY <1>s, <1>v, <2>4, <4>2 DEF ShownIs
        <5>2. ASSUME Closing(u, i, 0)  PROVE Closing(u, i, 0)'
          <6>1. PICK m \in DOMAIN q : m > 0 /\ q[m] = Withdrawal(i)
            BY <5>2 DEF Closing, q
          <6>2. m # 1  BY <3>2, <4>2, <6>1 DEF Withdrawal
          <6>3. m - 1 \in DOMAIN rest /\ rest[m - 1] = Withdrawal(i) /\ m - 1 > 0
            BY <3>2, <6>1, <6>2
          <6>4. QED  BY <3>1, <6>3 DEF Closing, Withdrawal
        <5>3. QED  BY <5>1, <5>2
      <4>3. QED  BY <3>1, <4>1, <4>2
    <3>8. UnsentIs(u)'
      <4> SUFFICES ASSUME NEW c \in Callers, NEW i \in PromptIds, pc[c] = "opened",
                          prompt[c] = i
                   PROVE  /\ i \notin panels'[u]
                          /\ \A n \in DOMAIN rest : rest[n] # Notice(i)
        BY <2>1, <3>1 DEF UnsentIs, Notice
      <4>1. i \notin panels[u] /\ \A n \in DOMAIN q : q[n] # Notice(i)
        BY <1>s DEF UnsentIs, q
      <4>2. Head(q).type = "prompt" => Head(q).id # i
        BY <3>2, <4>1 DEF Message, Notice
      <4>3. QED  BY <3>1, <3>2, <4>1, <4>2
    <3>9. QED  BY <3>5, <3>6, <3>7, <3>8 DEF Screen
  <2>5. QED  BY <2>3, <2>4
<1>9. QED
  <2>1. CASE \E v \in UIs : HandlerStep(v)
    BY <1>5, <1>6, <1>7, <1>8, <2>1 DEF HandlerStep
  <2>2. CASE \E v \in UIs : Vanish(v) \/ \E i \in PromptIds, a \in Answers : AnswerPrompt(v, i, a)
    BY <1>5, <2>2
  <2>3. QED  BY <1>1, <1>2, <1>3, <1>4, <2>1, <2>2 DEF Next, CallStep

(* An interface that is counted and there is listening, or lags. *)
THEOREM CountedListen == Spec => []CountedIsListening
<1>1. ScreenInv => CountedIsListening
  BY DEF ScreenInv, Screen, Hears, Listening, CountedIsListening
<1>2. QED  BY InitScreens, StepScreens, <1>1, PTL DEF Spec

(* A panel on a screen can be answered, or is about to close, or its prompt *)
(* was answered elsewhere.                                                 *)
THEOREM PanelsAreLive == Spec => []PanelsFollowPending
<1>1. ScreenInv => PanelsFollowPending
  BY DEF ScreenInv, Screen, ShownIs, Live, Closing, Withdrawal, PanelsFollowPending
<1>2. QED  BY InitScreens, StepScreens, <1>1, PTL DEF Spec
=============================================================================
