------------------------------- MODULE MCShim -------------------------------
(***************************************************************************)
(* The parts of a shim, and of the proxy that stands in for one, for TLC.  *)
(* They have no state in common, so that a behaviour is one of any.        *)
(***************************************************************************)
EXTENDS SessionProperties, Journal, FrameSplitter, McpScanner, HttpProxy, Observer, TLC

CONSTANTS repo, link, away, home

(* Frames: an object of any two of these members, or a batch, cut off     *)
(* anywhere; the letter t is a method and x anything else.                  *)
Members == {
  <<"\"", "m", "\"", ":", "\"", "t", "\"">>,
  <<"\"", "m", "\"", " ", ":", " ", "\"", "x", "\"">>,
  <<"\"", "m", "\"", ":", "x">>,
  <<"\"", "m", "\"", ":", "\"", "\\", "\"", "\"">>,
  <<"\"", "x", "\"", ":", "\"", "m", "\"">>,
  <<"\"", "x", "\"", ":", "\"", "\\", "\"", "\"">>,
  <<"\"", "x", "\"", ":", "\"", "\\", "\\", "\"">>,
  <<"\"", "x", "\"", ":", "{", "\"", "m", "\"", ":", "\"", "x", "\"", "}">>}
WholeFrames ==
  {<<" ", "{">> \o a \o <<",">> \o b \o <<"}">> : a, b \in Members}
  \cup {<<"[", "{">> \o a : a \in Members}
ManyFrames == UNION {{SubSeq(f, 1, n) : n \in 0..Len(f)} : f \in WholeFrames}

(* Bodies: events with either ending, of one line or two, a comment longer  *)
(* than the buffer, lines without a text or a blank line, plain messages.   *)
Message(name) == <<"{", name, "}">>
Event(n)     == <<Data>> \o Message(n) \o <<NL, NL>>
EventCrLf(n) == <<Data>> \o Message(n) \o <<Ret, NL, Ret, NL>>
TwoLines(n, m) == <<Data>> \o Message(n) \o <<NL, Data>> \o Message(m) \o <<NL, NL>>
Comment      == <<":", "x", "x", "x", "x", "x", "x", "x", "x", "x", NL, NL>>
ManyBodies ==
  {Event("n") \o Event("o"), EventCrLf("n") \o EventCrLf("o"), Event("n") \o EventCrLf("o"),
   <<":", NL, NL>> \o Event("n"), Comment \o Event("n"), TwoLines("n", "o"),
   Event("n") \o <<Data>> \o Message("o"), Event("n") \o Message("o"),
   <<Data, NL, Data, Ret, NL, Data, "x", Ret, NL, NL>>, <<Data, "x", Ret, NL, NL, Data, "y", NL>>,
   Message("n"), Message("n") \o <<NL>>, Message("n") \o <<NL, NL>>, <<>>}

(* Two names of one directory, and a root that is no directory here. *)
OnePath == (repo :> home) @@ (link :> home) @@ (away :> Nowhere)

VARIABLE part

(* The parts with many initial states have one where they do not run. *)
NoScan == frame = <<>> /\ window = 0 /\ whole = TRUE /\ at = 1 /\ depth = 0 /\ scan = NoMethod
NoExchange ==
  /\ request = [routed |-> FALSE, post |-> FALSE, oversize |-> FALSE, decidable |-> FALSE, id |-> FALSE]
  /\ exchange = "over" /\ verdict = "none" /\ reply = "none" /\ upstream = FALSE
  /\ body = <<>> /\ relayed = 0 /\ buffer = <<>> /\ offered = <<>> /\ overran = FALSE

EitherInit ==
  /\ part \in {"relay", "journal", "splitter", "scanner", "http", "observer"}
  /\ Init /\ JournalInit /\ SplitterInit
  /\ IF part = "scanner" THEN ScannerInit ELSE NoScan
  /\ IF part = "http" THEN HttpInit ELSE NoExchange
  /\ ObserverInit
  /\ part # "observer" => injected = Nowhere /\ cwd = Nowhere

cutVars == <<splitterVars, scannerVars>>
EitherNext ==
  /\ \/ part = "relay" /\ Next /\ UNCHANGED <<journalVars, cutVars, httpVars, observerVars>>
     \/ part = "journal" /\ JournalNext /\ UNCHANGED <<vars, cutVars, httpVars, observerVars>>
     \/ part = "splitter" /\ SplitterNext
        /\ UNCHANGED <<vars, journalVars, scannerVars, httpVars, observerVars>>
     \/ part = "scanner" /\ ScannerNext
        /\ UNCHANGED <<vars, journalVars, splitterVars, httpVars, observerVars>>
     \/ part = "http" /\ HttpNext /\ UNCHANGED <<vars, journalVars, cutVars, observerVars>>
     \/ part = "observer" /\ ObserverNext /\ UNCHANGED <<vars, journalVars, cutVars, httpVars>>
  /\ UNCHANGED part

(* The fairness of FairSpec; the writer runs whenever the thread is free,   *)
(* and a verdict has a limit.                                              *)
EitherSpec ==
  /\ EitherInit
  /\ [][EitherNext]_<<vars, journalVars, cutVars, httpVars, observerVars, part>>
  /\ WF_vars(part = "relay" /\ Upward) /\ WF_vars(part = "relay" /\ Downward)
  /\ WF_vars(part = "relay" /\ Main)
  /\ WF_journalVars(part = "journal" /\ VerdictComes)
  /\ WF_journalVars(part = "journal" /\ Writer)
=============================================================================
