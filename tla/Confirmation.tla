---------------------------- MODULE Confirmation ----------------------------
(***************************************************************************)
(* What the daemon promises the callers that ask it for verdicts, with no  *)
(* mention of sockets, prompts, timers or interfaces:                      *)
(*                                                                         *)
(*   - a call the rules settle gets what the rules said;                   *)
(*   - a call the rules want confirmed is let through only by a person     *)
(*     who says yes to it, or by what was said of its project and tool;    *)
(*   - what was said is remembered, and never changes.                     *)
(***************************************************************************)
EXTENDS Naturals

CONSTANTS
  Callers,     (* who asks, one call at a time each                         *)
  Keys,        (* projects                                                  *)
  Tools,
  NoTool,
  KeyOf        (* the project of each caller                                *)

VARIABLES
  phase,       (* where each call stands                                    *)
  tool,        (* the tool each call is about                               *)
  rule,        (* what the rules say of it                                  *)
  memory       (* what people have said, by project and tool                *)

vars == <<phase, tool, rule, memory>>

Words  == {"allow", "deny"}

Init ==
  /\ phase = [c \in Callers |-> "idle"]
  /\ tool \in [Callers -> Tools \cup {NoTool}]
  /\ rule \in [Callers -> Words \cup {"ask"}]
  /\ memory = [x \in Keys \X Tools |-> "none"]

Said(c) == IF tool[c] = NoTool THEN "none" ELSE memory[<<KeyOf[c], tool[c]>>]

Receive(c) ==
  /\ phase[c] = "idle"
  /\ phase' = [phase EXCEPT ![c] = "ruled"]
  /\ \E t \in Tools \cup {NoTool}, a \in Words \cup {"ask"} :
       /\ tool' = [tool EXCEPT ![c] = t]
       /\ rule' = [rule EXCEPT ![c] = a]
  /\ UNCHANGED memory

Recall(c) ==
  /\ phase[c] = "ruled"
  /\ phase' = [phase EXCEPT ![c] = IF Said(c) # "none" THEN Said(c)
                                   ELSE IF rule[c] = "ask" THEN "asking" ELSE rule[c]]
  /\ UNCHANGED <<tool, rule, memory>>

(* Nobody to ask, or no answer in time. *)
Refuse(c) ==
  /\ phase[c] = "asking"
  /\ phase' = [phase EXCEPT ![c] = "deny"]
  /\ UNCHANGED <<tool, rule, memory>>

(* Somebody answers, and may want it remembered; what is already in memory  *)
(* stays.                                                                  *)
Confirm(c, word, remember) ==
  /\ phase[c] = "asking"
  /\ phase' = [phase EXCEPT ![c] = word]
  /\ memory' = IF remember /\ tool[c] # NoTool /\ Said(c) = "none"
               THEN [memory EXCEPT ![<<KeyOf[c], tool[c]>>] = word]
               ELSE memory
  /\ UNCHANGED <<tool, rule>>

Finish(c) ==
  /\ phase[c] \in Words
  /\ phase' = [phase EXCEPT ![c] = "idle"]
  /\ UNCHANGED <<tool, rule, memory>>

Next ==
  \E c \in Callers :
    \/ Receive(c)
    \/ Recall(c)
    \/ Refuse(c)
    \/ \E word \in Words, remember \in BOOLEAN : Confirm(c, word, remember)
    \/ Finish(c)

Spec == Init /\ [][Next]_vars
=============================================================================
