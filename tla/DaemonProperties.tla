-------------------------- MODULE DaemonProperties --------------------------
(***************************************************************************)
(* What the decision core of the daemon must guarantee.                    *)
(***************************************************************************)
EXTENDS Daemon

(* Every variable has its type. *)
TypeOK ==
  /\ file \in [rules : RuleSets, overrides : Seq(Override)]
  /\ drifted \subseteq Servers \X Tools
  /\ overrides \in Seq(Override)
  /\ pending \subseteq PromptIds
  /\ subscribers \in Nat
  /\ nextId \in 1..(MaxPrompts + 1)
  /\ pc \in [Callers -> Steps]
  /\ req \in [Callers -> Requests]
  /\ drift \in [Callers -> BOOLEAN]
  /\ action \in [Callers -> Actions]
  /\ prompt \in [Callers -> PromptIds \cup {None}]
  /\ told \in [Callers -> Verdict \cup {NoVerdict}]
  /\ asked \in [PromptIds -> Prompt \cup {NoPrompt}]
  /\ answer \in [PromptIds -> Answers \cup {NoAnswer}]
  /\ fate \in [PromptIds -> {"open", "unsent", "expired", "granted", "refused"}]
  /\ conn \in [UIs -> {"new", "joining", "subscribed", "ended", "leaked"}]
  /\ alive \in [UIs -> BOOLEAN]
  /\ rx \in [UIs -> BOOLEAN]
  /\ queue \in [UIs -> Seq(Message)]
  /\ panels \in [UIs -> SUBSET PromptIds]

-----------------------------------------------------------------------------
(* Safety. *)

(* Prompt i got this answer in time, and its call was told so. *)
Answered(i, allow) == fate[i] = IF allow THEN "granted" ELSE "refused"

(* A call the rules did not allow is let through only if a person said yes  *)
(* to a prompt about that very project and tool, and that prompt had not    *)
(* expired (decide.rs:94-105 and 193-235).                                 *)
AllowIsEarned ==
  \A c \in Callers :
    told[c].outcome = "allow" /\ action[c] # "allow"
      => \E i \in PromptIds : /\ Answered(i, TRUE)
                              /\ asked[i].key = KeyOf[c]
                              /\ asked[i].tool = req[c].tool

(* Whatever is remembered was said by a person, in time, of that project    *)
(* and that tool, and was not meant for one call only (decide.rs:249-276). *)
GrantsAreTheUsers ==
  \A n \in DOMAIN overrides :
    \E i \in PromptIds : /\ Answered(i, overrides[n].allow)
                         /\ answer[i].allow = overrides[n].allow
                         /\ answer[i].until # "once"
                         /\ asked[i].key = overrides[n].key
                         /\ asked[i].tool = overrides[n].tool

(* What is written to policy.yaml was asked for as permanent, on a prompt   *)
(* whose scope had a provenance that warrants it: two callers may share a   *)
(* scope key and not its provenance (decide.rs:208-222, SPEC.md:280).      *)
ForeverNeedsTrust ==
  \A n \in DOMAIN file.overrides :
    \E i \in PromptIds : /\ Answered(i, file.overrides[n].allow)
                         /\ asked[i].forever_allowed
                         /\ answer[i].until = "forever"
                         /\ asked[i].key = file.overrides[n].key
                         /\ asked[i].tool = file.overrides[n].tool

(* An id is in `pending` exactly while a call can still be given an answer  *)
(* under it: none is leaked by a failed send or a timeout, and none is      *)
(* dropped under a call that waits (decide.rs:163-199, mod.rs:287-300).    *)
PendingAccounted ==
  pending = {prompt[c] : c \in {d \in Callers :
               /\ pc[d] \in {"opened", "waiting", "elapsed"}
               /\ answer[prompt[d]] = NoAnswer}}

(* A prompt belongs to one call: no answer can settle two (decide.rs:161).  *)
OnePromptOneCall ==
  \A c, d \in Callers :
    prompt[c] = prompt[d] /\ prompt[c] # None => c = d

(* An interface that is counted and still there is listening, unless it     *)
(* fell more than Capacity messages behind: a prompt judged answerable is   *)
(* not sent to nobody (mod.rs:215-222).                                    *)
CountedIsListening ==
  \A u \in UIs : conn[u] = "subscribed" /\ alive[u] => rx[u] \/ Lagged(u)

(* A panel on the screen is for a prompt that can still be answered, or it  *)
(* is about to be closed, or somebody has answered it on another screen     *)
(* (decide.rs:195-200).                                                    *)
PanelsFollowPending ==
  \A u \in UIs : \A i \in panels[u] :
    \/ i \in pending
    \/ answer[i] # NoAnswer
    \/ Lagged(u)
    \/ \E n \in DOMAIN queue[u] : queue[u][n] = [type |-> "withdraw", id |-> i]

(* The daemon implements Confirmation: prompts, timers and interfaces do    *)
(* not change what a caller is promised (decide.rs:24-276).                *)
Phase(c) == CASE pc[c] = "idle"     -> "idle"
              [] pc[c] = "ruled"    -> "ruled"
              [] pc[c] = "replying" -> told[c].outcome
              [] OTHER              -> "asking"

Promise == INSTANCE Confirmation WITH
  phase  <- [c \in Callers |-> Phase(c)],
  tool   <- [c \in Callers |-> req[c].tool],
  rule   <- action,
  memory <- [x \in Keys \X Tools |-> Remembered(overrides, x[1], x[2])]

ImplementsConfirmation == Promise!Spec

-----------------------------------------------------------------------------
(* Liveness, under FairSpec. *)

(* Every call taken is ruled on: a prompt nobody answers, an interface that *)
(* vanishes or a receiver that lags only delays it (decide.rs:193-206).    *)
EveryCallAnswered ==
  \A c \in Callers : pc[c] # "idle" ~> pc[c] = "idle"

=============================================================================
