-------------------------------- MODULE MCDisk --------------------------------
(***************************************************************************)
(* What mcpwall keeps or changes on disk, for TLC: the policy and the      *)
(* descriptions of tools, which are the daemon's, and the configuration    *)
(* files of the clients with the routes of the proxy.  They have no state  *)
(* in common, so that a behaviour is one of any.                           *)
(***************************************************************************)
EXTENDS PolicyFile, ToolDrift, Setup, TLC

CONSTANTS a1, a2, here, fetch, files, claude, project, settings

(* Two answers about one tool, and a user who may drop all rules but one. *)
TwoAnswers     == [a \in Answers |-> [scope |-> here, tools |-> {fetch},
                                  action |-> IF a = a1 THEN "allow" ELSE "deny"]]
OnlyExfil   == <<PolicyRule({"tainted", "outbound"}, "deny")>>
TwoEditions == {DefaultRules, OnlyExfil}

(* Sessions with servers of one name.  The sessions are interchangeable as  *)
(* well, but to compare every state under all the permutations is slower.  *)
OneServer       == [s \in Sessions |-> files]
Interchangeable == Permutations(Versions)

(* A global configuration, a project's and the hook's: one name at two urls, *)
(* in one file or in both, a command, and settings of the user's own.       *)
ByDiscovery == <<claude, project, settings>>
ByPath      == <<settings, claude, project>>
Entry(name, kind, target) == [name |-> name, kind |-> kind, target |-> target, via |-> FALSE]
FewEntries ==
  [f \in Files |->
     CASE f = claude   -> {Entry("a", "http", "u"), Entry("a", "http", "v")}
       [] f = project  -> {Entry("a", "http", "v"), Entry("b", "stdio", "u")}
       [] f = settings -> {Entry("x", "other", "u"), Entry("y", "other", "u")}]

VARIABLE part

EitherInit ==
  /\ PolicyInit /\ Init /\ SetupInit
  /\ part \in {"policy", "drift", "setup"}
  /\ part # "policy" => file = Missing

EitherNext ==
  /\ \/ part = "policy" /\ PolicyNext /\ UNCHANGED <<vars, setupVars>>
     \/ part = "drift" /\ Next /\ UNCHANGED <<policyVars, setupVars>>
     \/ part = "setup" /\ SetupNext /\ UNCHANGED <<policyVars, vars>>
  /\ UNCHANGED part

EitherSpec == EitherInit /\ [][EitherNext]_<<policyVars, vars, setupVars, part>>
===============================================================================
