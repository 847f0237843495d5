---------------------------- MODULE PolicyEngine ----------------------------
(***************************************************************************)
(* The rules of daemon/policy: which action a policy gives a request.      *)
(*                                                                         *)
(* A request is what the rules can tell of it: its project, its tool and   *)
(* the conditions of `When` it meets.  A policy is the user's rules and    *)
(* the overrides, each in the order of the file.                           *)
(***************************************************************************)
EXTENDS Integers, Sequences, FiniteSets, FiniteSetsExt

CONSTANTS
  Scopes,
  Tools,
  NoTool          (* a request whose method has no tool                     *)

ASSUME EngineAssumption == NoTool \notin Tools

Actions == {"allow", "ask", "deny"}

(* secret_path stands for the globs of secrets_paths, write for those of    *)
(* outside_project_write.                                                  *)
Conditions ==
  {"secret_path", "secret", "write", "outside", "tainted", "outbound", "drift"}

(* A request without a tool meets no condition about one. *)
Requests ==
  {r \in [scope : Scopes, tool : Tools \cup {NoTool}, meets : SUBSET Conditions] :
     r.tool = NoTool => r.meets \cap {"write", "outbound", "drift"} = {}}

(* An override names its tools by a glob. *)
Override == [scope : Scopes, tools : SUBSET (Tools \cup {NoTool}), action : Actions]

PolicyRule(when, action) == [when |-> when, action |-> action]

(* DEFAULT_POLICY_YAML *)
DefaultRules ==
  << PolicyRule({"secret_path"}, "ask"),
     PolicyRule({"secret"}, "ask"),
     PolicyRule({"write", "outside"}, "ask"),
     PolicyRule({"tainted", "outbound"}, "deny"),
     PolicyRule({"drift"}, "ask") >>

DefaultPolicy == [rules |-> DefaultRules, overrides |-> <<>>]

RuleMatchesSlip(rule, req) == rule.when \cap req.meets # {}

(* A rule without a condition matches nothing. *)
RuleMatches(rule, req) == rule.when # {} /\ rule.when \subseteq req.meets

OverrideMatches(ov, req) == ov.scope = req.scope /\ req.tool \in ov.tools

(* The first match wins. *)
First(seq, hits) == IF hits = {} THEN "none" ELSE seq[Min(hits)].action

OverrideSays(policy, req) ==
  LET ovs == policy.overrides IN First(ovs, {i \in DOMAIN ovs : OverrideMatches(ovs[i], req)})

RulesSay(policy, req) ==
  LET rules == policy.rules IN First(rules, {i \in DOMAIN rules : RuleMatches(rules[i], req)})

(* Policy::evaluate, with `default: allow`. *)
Evaluate(policy, req) ==
  LET override == OverrideSays(policy, req)
      rule     == RulesSay(policy, req)
  IN IF override # "none" THEN override ELSE IF rule # "none" THEN rule ELSE "allow"
=============================================================================
