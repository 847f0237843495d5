------------------------------- MODULE Daemon -------------------------------
(***************************************************************************)
(* The decision core of the daemon: daemon/decide.rs and the connection    *)
(* loop of daemon/mod.rs.                                                  *)
(*                                                                         *)
(* Callers are the connections of shims, hooks and proxies, each of which  *)
(* has one decide() in progress at a time.  UIs are the connections that   *)
(* subscribe to confirmation prompts; each is used once, a reconnection is *)
(* another member.  A decide() is cut at every point where it gives up a   *)
(* lock or awaits, because any other connection may run there.             *)
(*                                                                         *)
(* The policy file is a record of rules and permanent overrides; how it is *)
(* read and written on disk is the subject of PolicyFile.  The content of  *)
(* a call is the class of arguments the rules tell apart, so a taint match *)
(* or a secret is one of those classes.                                    *)
(***************************************************************************)
EXTENDS Naturals, Sequences, FiniteSets

CONSTANTS
  Callers,        (* connections that send Decide                           *)
  UIs,            (* connections that Subscribe                             *)
  Keys,           (* scope keys                                             *)
  Servers,        (* names upstream servers gave themselves                 *)
  Tools,          (* tool names                                             *)
  NoTool,         (* a method that names no tool                            *)
  Classes,        (* what the rules can tell apart in the arguments         *)
  RuleSets,       (* the rule lists the user may write                      *)
  KeyOf,          (* the scope key each caller sends                        *)
  ServerOf,       (* the server each caller fronts                          *)
  Trusted,        (* callers whose scope source is injected or roots        *)
  MaxPrompts,     (* bound: prompt ids handed out                           *)
  Capacity        (* PROMPT_CHANNEL, messages a receiver may lag behind     *)

Actions  == {"allow", "ask", "deny"}
Requests == [tool : Tools \cup {NoTool}, class : Classes]

ASSUME CallersAssumption ==
  /\ NoTool \notin Tools
  /\ KeyOf \in [Callers -> Keys]
  /\ ServerOf \in [Callers -> Servers]
  /\ Trusted \subseteq Callers
ASSUME RulesAssumption ==
  RuleSets \subseteq [Classes \X BOOLEAN -> Actions]
ASSUME BoundsAssumption ==
  /\ MaxPrompts \in Nat
  /\ Capacity \in Nat \ {0}
ASSUME UIsAssumption == IsFiniteSet(UIs)

PromptIds == 1..MaxPrompts
None      == 0                        \* no prompt: ids start at 1

Answers   == [allow : BOOLEAN, until : {"once", "session", "forever"}]
NoAnswer  == [allow |-> FALSE, until |-> "unanswered"]

Override  == [key : Keys, tool : Tools, allow : BOOLEAN]

(* Broadcast messages, and the part of a Prompt the properties need. *)
Message   == [type : {"prompt", "withdraw"}, id : PromptIds]
Prompt    == [key : Keys, tool : Tools \cup {NoTool}, forever_allowed : BOOLEAN]
NoPrompt  == [key |-> None]

Reasons   == {"override", "policy", "user", "no_interface", "unreachable", "timeout"}
Verdict   == [outcome : {"allow", "deny"}, via : Reasons]
NoVerdict == [outcome |-> "none", via |-> "none"]

(* Where a decide() can be between two of its steps. *)
Steps     == {"idle", "ruled", "ask", "opened", "waiting", "elapsed", "replying"}

VARIABLES
  file,          (* policy.yaml on disk                                     *)
  drifted,       (* <<server, tool>> whose advertisement changed            *)
  overrides,     (* State.session_overrides                                 *)
  pending,       (* ids in State.pending                                    *)
  subscribers,   (* State.subscribers                                       *)
  nextId,        (* next_prompt_id                                          *)
  pc,            (* where each caller's decide() stands                     *)
  req,           (* the request being decided                               *)
  drift,         (* request.drifted of that decide()                        *)
  action,        (* what evaluate() returned to it                          *)
  prompt,        (* the prompt it opened                                    *)
  told,          (* its verdict                                             *)
  asked,         (* the Prompt sent under each id                           *)
  answer,        (* what the Answer handler put in each oneshot             *)
  fate,          (* history: how each prompt ended                          *)
  conn,          (* the handler of each interface connection                *)
  alive,         (* is the application at the other end still there?        *)
  rx,            (* is the forwarder task still receiving?                  *)
  queue,         (* messages broadcast and not yet forwarded                *)
  panels         (* prompts the application is showing                      *)

callVars  == <<pc, req, drift, action, prompt, told>>
stateVars == <<overrides, pending, subscribers, nextId>>
promptVars == <<asked, answer, fate>>
uiVars    == <<conn, alive, rx, queue, panels>>
vars == <<file, drifted, stateVars, callVars, promptVars, uiVars>>

-----------------------------------------------------------------------------
(* Pure parts of the code. *)

(* Each operator whose name ends in Slip is a mistake that could be made in *)
(* the definition below it; PROJECT.json names the property that fails.     *)

MatchesSlip(ov, key, tool) == ov.key = key
Matches(ov, key, tool) == ov.key = key /\ ov.tool = tool

PushSlip(ovs, ov) == <<ov>> \o ovs
Push(ovs, ov) == Append(ovs, ov)

(* The first recorded decision for this scope and tool wins. *)
Remembered(ovs, key, tool) ==
  LET hits == {i \in DOMAIN ovs : Matches(ovs[i], key, tool)}
      first == CHOOSE i \in hits : \A j \in hits : i <= j
  IN IF hits = {} THEN "none"
     ELSE IF ovs[first].allow THEN "allow" ELSE "deny"

(* Policy::evaluate: the file's overrides, then its rules. *)
Evaluate(p, key, r, isDrifted) ==
  LET ov == Remembered(p.overrides, key, r.tool)
  IN IF ov # "none" THEN ov ELSE p.rules[<<r.class, isDrifted>>]

ForeverAllowed(c) == c \in Trusted

EffectiveUntilSlip(c, a) == a.until
EffectiveUntilSlip2(c, a) == IF ForeverAllowed(c) THEN a.until ELSE "session"

(* A forever the scope's provenance does not warrant becomes session. *)
EffectiveUntil(c, a) ==
  IF a.until = "forever" /\ ~ForeverAllowed(c) THEN "session" ELSE a.until

BroadcastSlip(m) ==
  queue' = [u \in UIs |-> IF rx[u] /\ m.type = "prompt" THEN Append(queue[u], m)
                          ELSE queue[u]]

(* broadcast::send: a receiver more than Capacity behind has lost messages, *)
(* and its next recv is an error; one message over the limit stands for it. *)
Broadcast(m) ==
  queue' = [u \in UIs |->
             IF rx[u] /\ Len(queue[u]) <= Capacity THEN Append(queue[u], m)
             ELSE queue[u]]

Lagged(u) == Len(queue[u]) > Capacity

Forget(i) == pending' = pending \ {i}

TakeId == nextId' = nextId + 1

Uncount == subscribers' = IF subscribers > 0 THEN subscribers - 1 ELSE 0

Unanswered(c) == answer[prompt[c]] = NoAnswer

-----------------------------------------------------------------------------
Init ==
  /\ file \in [rules : RuleSets, overrides : {<<>>}]
  /\ drifted = {}
  /\ overrides = <<>>
  /\ pending = {}
  /\ subscribers = 0
  /\ nextId = 1
  /\ pc = [c \in Callers |-> "idle"]
  /\ req \in [Callers -> Requests]
  /\ req = [c \in Callers |-> CHOOSE r \in Requests : TRUE]
  /\ drift = [c \in Callers |-> FALSE]
  /\ action = [c \in Callers |-> "allow"]
  /\ prompt = [c \in Callers |-> None]
  /\ told = [c \in Callers |-> NoVerdict]
  /\ asked = [i \in PromptIds |-> NoPrompt]
  /\ answer = [i \in PromptIds |-> NoAnswer]
  /\ fate = [i \in PromptIds |-> "open"]
  /\ conn = [u \in UIs |-> "new"]
  /\ alive = [u \in UIs |-> TRUE]
  /\ rx = [u \in UIs |-> FALSE]
  /\ queue = [u \in UIs |-> <<>>]
  /\ panels = [u \in UIs |-> {}]

(* The verdict is ready; the connection loop has still to write it. *)
Settle(c, outcome, via) ==
  /\ pc' = [pc EXCEPT ![c] = "replying"]
  /\ told' = [told EXCEPT ![c] = [outcome |-> outcome, via |-> via]]

-----------------------------------------------------------------------------
(* decide() and ask(), one step per lock held or await passed.             *)

(* Bound: a call is taken only while every call that may still ask, and it, *)
(* can have a prompt id of its own.                                         *)
RoomForPrompt ==
  nextId + Cardinality({d \in Callers : pc[d] \in {"ruled", "ask"}}) <= MaxPrompts

(* Under the policy lock: reload, look the drift up, evaluate, consume it.  *)
(* The reload comes first, so what is evaluated is what the file says; how  *)
(* a reload may miss a change is PolicyFile's subject.                      *)
DecideCall(c, r) ==
  LET mark == <<ServerOf[c], r.tool>>
      isDrifted == mark \in drifted
  IN /\ pc[c] = "idle"
     /\ RoomForPrompt
     /\ pc' = [pc EXCEPT ![c] = "ruled"]
     /\ req' = [req EXCEPT ![c] = r]
     /\ drift' = [drift EXCEPT ![c] = isDrifted]
     /\ action' = [action EXCEPT ![c] = Evaluate(file, KeyOf[c], r, isDrifted)]
     /\ drifted' = drifted \ {mark}
     /\ prompt' = [prompt EXCEPT ![c] = None]
     /\ told' = [told EXCEPT ![c] = NoVerdict]
     /\ UNCHANGED <<file, stateVars, promptVars, uiVars>>

(* A decision already made is not asked again, whatever the rules said. *)
MatchOverride(c) ==
  LET ov == Remembered(overrides, KeyOf[c], req[c].tool)
  IN /\ pc[c] = "ruled"
     /\ IF ov # "none" THEN Settle(c, ov, "override")
        ELSE IF action[c] # "ask" THEN Settle(c, action[c], "policy")
        ELSE pc' = [pc EXCEPT ![c] = "ask"] /\ UNCHANGED told
     /\ UNCHANGED <<file, drifted, stateVars, req, drift, action, prompt,
                    promptVars, uiVars>>

(* Without a counted interface the call is refused at once. *)
RefuseNoInterface(c) ==
  /\ pc[c] = "ask"
  /\ subscribers = 0
  /\ Settle(c, "deny", "no_interface")
  /\ UNCHANGED <<file, drifted, stateVars, req, drift, action, prompt,
                 promptVars, uiVars>>

OpenPrompt(c) ==
  /\ pc[c] = "ask"
  /\ subscribers > 0
  /\ nextId <= MaxPrompts
  /\ TakeId
  /\ pending' = pending \cup {nextId}
  /\ asked' = [asked EXCEPT ![nextId] =
                [key |-> KeyOf[c], tool |-> req[c].tool,
                 forever_allowed |-> ForeverAllowed(c)]]
  /\ prompt' = [prompt EXCEPT ![c] = nextId]
  /\ pc' = [pc EXCEPT ![c] = "opened"]
  /\ UNCHANGED <<file, drifted, overrides, subscribers, req, drift, action,
                 told, answer, fate, uiVars>>

(* The broadcast fails only when no receiver is left at all. *)
SendPrompt(c) ==
  /\ pc[c] = "opened"
  /\ IF \E u \in UIs : rx[u]
     THEN /\ Broadcast([type |-> "prompt", id |-> prompt[c]])
          /\ pc' = [pc EXCEPT ![c] = "waiting"]
          /\ UNCHANGED <<pending, told, fate>>
     ELSE /\ Forget(prompt[c])
          /\ fate' = [fate EXCEPT ![prompt[c]] = "unsent"]
          /\ Settle(c, "deny", "unreachable")
          /\ UNCHANGED queue
  /\ UNCHANGED <<file, drifted, overrides, subscribers, nextId, req, drift,
                 action, prompt, asked, answer, conn, alive, rx, panels>>

ElapseSlip(c) ==
  /\ pc[c] = "waiting"
  /\ subscribers = 0
  /\ Unanswered(c)
  /\ pc' = [pc EXCEPT ![c] = "elapsed"]
  /\ UNCHANGED <<file, drifted, stateVars, req, drift, action, prompt, told,
                 promptVars, uiVars>>

(* The timer fires while the oneshot is still empty. *)
Elapse(c) ==
  /\ pc[c] = "waiting"
  /\ Unanswered(c)
  /\ pc' = [pc EXCEPT ![c] = "elapsed"]
  /\ UNCHANGED <<file, drifted, stateVars, req, drift, action, prompt, told,
                 promptVars, uiVars>>

(* ... and only later is the prompt taken out of pending and withdrawn. *)
WithdrawPrompt(c) ==
  /\ pc[c] = "elapsed"
  /\ Forget(prompt[c])
  /\ fate' = [fate EXCEPT ![prompt[c]] = "expired"]
  /\ Broadcast([type |-> "withdraw", id |-> prompt[c]])
  /\ Settle(c, "deny", "timeout")
  /\ UNCHANGED <<file, drifted, overrides, subscribers, nextId, req, drift,
                 action, prompt, asked, answer, conn, alive, rx, panels>>

(* record_override: in memory first, then in the file, where the append may *)
(* fail with no more than a line in the log.                               *)
RecordOverride(c, a) ==
  LET until == EffectiveUntil(c, a)
      ov == [key |-> KeyOf[c], tool |-> req[c].tool, allow |-> a.allow]
  IN IF req[c].tool = NoTool \/ until = "once"
     THEN UNCHANGED <<overrides, file>>
     ELSE /\ overrides' = Push(overrides, ov)
          /\ \/ UNCHANGED file
             \/ /\ until = "forever"
                /\ file' = [file EXCEPT !.overrides = Append(@, ov)]

TakeAnswer(c) ==
  LET a == answer[prompt[c]]
  IN /\ pc[c] = "waiting"
     /\ ~Unanswered(c)
     /\ RecordOverride(c, a)
     /\ fate' = [fate EXCEPT ![prompt[c]] = IF a.allow THEN "granted" ELSE "refused"]
     /\ Settle(c, IF a.allow THEN "allow" ELSE "deny", "user")
     /\ UNCHANGED <<drifted, pending, subscribers, nextId, req, drift, action,
                    prompt, asked, answer, uiVars>>

(* The loop writes the verdict and reads its next line.  A caller that has  *)
(* gone changes nothing here: its decide() runs to its end all the same.    *)
Reply(c) ==
  /\ pc[c] = "replying"
  /\ pc' = [pc EXCEPT ![c] = "idle"]
  /\ UNCHANGED <<file, drifted, stateVars, req, drift, action, prompt, told,
                 promptVars, uiVars>>

-----------------------------------------------------------------------------
(* The interface's side of a connection.                                   *)

CreateReceiverSlip(u) ==
  /\ conn[u] = "new"
  /\ conn' = [conn EXCEPT ![u] = "joining"]
  /\ UNCHANGED <<file, drifted, stateVars, callVars, promptVars, alive, rx, queue, panels>>

(* Subscribe: the receiver first, the count second. *)
CreateReceiver(u) ==
  /\ conn[u] = "new"
  /\ conn' = [conn EXCEPT ![u] = "joining"]
  /\ rx' = [rx EXCEPT ![u] = TRUE]
  /\ UNCHANGED <<file, drifted, stateVars, callVars, promptVars, alive, queue,
                 panels>>

CountInterface(u) ==
  /\ conn[u] = "joining"
  /\ conn' = [conn EXCEPT ![u] = "subscribed"]
  /\ subscribers' = subscribers + 1
  /\ UNCHANGED <<file, drifted, overrides, pending, nextId, callVars, promptVars,
                 alive, rx, queue, panels>>

(* The forwarder ends on a lag error or on a failed write, silently. *)
Forward(u) ==
  /\ rx[u]
  /\ queue[u] # <<>>
  /\ IF Lagged(u) \/ ~alive[u]
     THEN /\ rx' = [rx EXCEPT ![u] = FALSE]
          /\ UNCHANGED <<queue, panels>>
     ELSE /\ queue' = [queue EXCEPT ![u] = Tail(@)]
          /\ panels' = [panels EXCEPT ![u] =
                         IF Head(queue[u]).type = "prompt"
                         THEN @ \cup {Head(queue[u]).id}
                         ELSE @ \ {Head(queue[u]).id}]
          /\ UNCHANGED rx
  /\ UNCHANGED <<file, drifted, stateVars, callVars, promptVars, conn, alive>>

(* An Answer is handled: late or early is decided by pending alone.  What  *)
(* goes into a oneshot whose receiver has been dropped is read by nobody.  *)
AnswerPrompt(u, i, a) ==
  /\ conn[u] = "subscribed"
  /\ alive[u]
  /\ i \in panels[u]
  /\ panels' = [panels EXCEPT ![u] = @ \ {i}]
  /\ IF i \in pending
     THEN /\ Forget(i)
          /\ answer' = [answer EXCEPT ![i] = a]
     ELSE UNCHANGED <<pending, answer>>
  /\ UNCHANGED <<file, drifted, overrides, subscribers, nextId, callVars, asked,
                 fate, conn, alive, rx, queue>>

(* The application goes away; its panels go with it. *)
Vanish(u) ==
  /\ alive[u]
  /\ conn[u] # "new"
  /\ alive' = [alive EXCEPT ![u] = FALSE]
  /\ panels' = [panels EXCEPT ![u] = {}]
  /\ UNCHANGED <<file, drifted, stateVars, callVars, promptVars, conn, rx, queue>>

(* The handler reads end of file and uncounts the interface.  The forwarder *)
(* is not told.                                                            *)
HandlerEnds(u) ==
  /\ conn[u] = "subscribed"
  /\ ~alive[u]
  /\ conn' = [conn EXCEPT ![u] = "ended"]
  /\ Uncount
  /\ UNCHANGED <<file, drifted, overrides, pending, nextId, callVars, promptVars,
                 alive, rx, queue, panels>>

(* A failed read, or a Status that cannot be written, leaves through `?`:  *)
(* the interface stays counted for as long as the daemon lives.            *)
HandlerFails(u) ==
  /\ conn[u] = "subscribed"
  /\ ~alive[u]
  /\ conn' = [conn EXCEPT ![u] = "leaked"]
  /\ UNCHANGED <<file, drifted, stateVars, callVars, promptVars, alive, rx, queue,
                 panels>>

-----------------------------------------------------------------------------
(* The rest of the environment.                                            *)

(* A Tools report in which the digest of a known tool is new. *)
ReportDrift(s, t) ==
  /\ drifted' = drifted \cup {<<s, t>>}
  /\ UNCHANGED <<file, stateVars, callVars, promptVars, uiVars>>

(* The user edits policy.yaml, keeping or dropping the permanent overrides. *)
EditPolicy(rules) ==
  /\ file' \in [rules : {rules}, overrides : {file.overrides, <<>>}]
  /\ UNCHANGED <<drifted, stateVars, callVars, promptVars, uiVars>>

-----------------------------------------------------------------------------
CallStep(c) ==
  \/ MatchOverride(c)
  \/ RefuseNoInterface(c)
  \/ OpenPrompt(c)
  \/ SendPrompt(c)
  \/ Elapse(c)
  \/ WithdrawPrompt(c)
  \/ TakeAnswer(c)
  \/ Reply(c)

HandlerStep(u) ==
  \/ CreateReceiver(u)
  \/ CountInterface(u)
  \/ Forward(u)
  \/ HandlerEnds(u)
  \/ HandlerFails(u)

Next ==
  \/ \E c \in Callers : CallStep(c)
  \/ \E c \in Callers, r \in Requests : DecideCall(c, r)
  \/ \E u \in UIs : HandlerStep(u)
  \/ \E u \in UIs : Vanish(u)
  \/ \E u \in UIs, i \in PromptIds, a \in Answers : AnswerPrompt(u, i, a)
  \/ \E s \in Servers, t \in Tools : ReportDrift(s, t)
  \/ \E rules \in RuleSets : EditPolicy(rules)

Spec == Init /\ [][Next]_vars

(* Tokio runs every ready task, and a timer that is due fires. *)
FairSpec ==
  /\ Spec
  /\ \A c \in Callers : WF_vars(CallStep(c))
  /\ \A u \in UIs : WF_vars(Forward(u))
=============================================================================
