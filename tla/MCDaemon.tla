------------------------------ MODULE MCDaemon ------------------------------
(***************************************************************************)
(* Instances of the daemon for TLC: two sessions at most, one tool, one    *)
(* server, and rules that reach every branch of decide().                  *)
(***************************************************************************)
EXTENDS DaemonProperties

CONSTANTS c1, c2, here, fs, risky

SameProject == [c \in {c1, c2} |-> here]
Alone       == [c \in {c1} |-> here]
OneServer   == [c \in Callers |-> fs]

AskAlways   == [f \in {risky} \X BOOLEAN |-> "ask"]
DenyAlways  == [f \in {risky} \X BOOLEAN |-> "deny"]

Asking      == {AskAlways}
AskOrBlock  == {AskAlways, DenyAlways}
=============================================================================
