------------------------------ MODULE PolicyFile ------------------------------
(***************************************************************************)
(* policy.yaml and the copy of it in the daemon's memory.  The daemon      *)
(* loads it again when its modification time has changed, and appends the  *)
(* permanent decisions; the user edits it.  Whoever writes empties the     *)
(* file first, and nobody locks it.                                        *)
(*                                                                         *)
(* Calls share one lock for loading; the appends of two answers are not    *)
(* kept apart by any.  Every write gets a modification time of its own.    *)
(***************************************************************************)
EXTENDS PolicyEngine

CONSTANTS
  Answers,        (* the answers that are for ever                          *)
  EntryOf,        (* the override each of them makes                        *)
  Editions,       (* what the user may make of the rules                    *)
  Missing,        (* no file                                                *)
  Empty,          (* a file in the middle of a write                        *)
  Unreadable,     (* a file the user broke                                  *)
  MaxEdits,       (* bound: saves of the user                               *)
  MaxDeaths       (* bound: crashes of the daemon                           *)

User == "user"
Writers == Answers \cup {User}

(* What a file that can be read says. *)
Policies == [rules : Editions, overrides : Seq(Override)]

ASSUME PolicyFileAssumption ==
  /\ EntryOf \in [Answers -> Override] /\ User \notin Answers
  /\ DefaultRules \in Editions
  /\ {MaxEdits, MaxDeaths} \subseteq Nat
  /\ Missing \notin {Empty, Unreadable}
  /\ \A content \in {Missing, Empty, Unreadable} : content \notin Policies

VARIABLES
  file,           (* the content, a policy if it can be read                *)
  mtime,          (* its modification time                                  *)
  daemon,         (* "down", "starting", "up"                               *)
  memory,         (* the policy in force                                    *)
  loadedMtime,    (* the modification time remembered with it               *)
  load,           (* "idle", "reading", "parsing"                           *)
  stamp,          (* the modification time that made it load                *)
  text,           (* what was read                                          *)
  pc,             (* where each writer stands                               *)
  draft,          (* what it read                                           *)
  base,           (* the modification time of what it builds on             *)
  edits, deaths,
  latest,         (* history: the rules the user last saved                 *)
  readAt,         (* history: the modification time of the text read        *)
  slipped,        (* history: has a load ever straddled a write?            *)
  overlapped      (* history: has a write ever ignored another, or been cut? *)

fileVars   == <<file, mtime>>
loadVars   == <<load, stamp, text, readAt>>
inForceVars == <<memory, loadedMtime>>
writeVars  == <<pc, draft, base>>
boundVars  == <<edits, deaths>>
histVars   == <<latest, overlapped>>
policyVars == <<fileVars, daemon, loadVars, inForceVars, slipped, writeVars, boundVars, histVars>>

Readable(content) == content \notin {Missing, Empty, Unreadable}

PolicyInit ==
  /\ file \in {Missing, DefaultPolicy}
  /\ mtime = 1
  /\ daemon = "down"
  /\ memory = DefaultPolicy /\ loadedMtime = 0
  /\ load = "idle" /\ stamp = 0 /\ text = Missing
  /\ pc = [w \in Writers |-> "idle"]
  /\ draft = [w \in Writers |-> Missing]
  /\ base = [w \in Writers |-> 0]
  /\ edits = 0 /\ deaths = 0
  /\ latest = DefaultRules
  /\ readAt = 0 /\ slipped = FALSE /\ overlapped = FALSE

Write(content) ==
  /\ file' = content
  /\ mtime' = mtime + 1

-----------------------------------------------------------------------------
(* Loading. *)

(* load_or_create() *)
Start ==
  /\ daemon = "down"
  /\ IF file = Missing THEN Write(DefaultPolicy) ELSE UNCHANGED fileVars
  /\ daemon' = "starting"
  /\ load' = "reading"
  /\ UNCHANGED <<stamp, text, readAt, inForceVars, slipped, writeVars, boundVars, histVars>>

(* reload_if_changed(), at each call. *)
CheckMtime ==
  /\ daemon = "up" /\ load = "idle"
  /\ mtime # loadedMtime
  /\ stamp' = mtime
  /\ load' = "reading"
  /\ UNCHANGED <<fileVars, daemon, text, readAt, inForceVars, slipped, writeVars, boundVars,
                 histVars>>

ReadText ==
  /\ load = "reading"
  /\ text' = file
  /\ readAt' = mtime
  /\ load' = "parsing"
  /\ UNCHANGED <<fileVars, daemon, stamp, inForceVars, slipped, writeVars, boundVars, histVars>>

(* An empty text is refused, lest it be taken for a policy without rules. *)
Accepts(content) == Readable(content)

Loaded == load' = "idle" /\ stamp' = 0 /\ text' = Missing /\ readAt' = 0

(* The modification time is taken after the text. *)
Adopt ==
  /\ load = "parsing"
  /\ Accepts(text)
  /\ memory' = text
  /\ loadedMtime' = mtime
  /\ slipped' = (slipped \/ mtime # readAt)
  /\ daemon' = "up"
  /\ Loaded
  /\ UNCHANGED <<fileVars, writeVars, boundVars, histVars>>

KeepSlip ==
  /\ load = "parsing"
  /\ ~Accepts(text)
  /\ daemon' = IF daemon = "starting" THEN "down" ELSE daemon
  /\ loadedMtime' = mtime
  /\ Loaded
  /\ UNCHANGED <<fileVars, memory, slipped, writeVars, boundVars, histVars>>

(* The policy in force stays, and is not tried again before the next change; *)
(* a daemon that starts does not.                                          *)
Keep ==
  /\ load = "parsing"
  /\ ~Accepts(text)
  /\ daemon' = IF daemon = "starting" THEN "down" ELSE daemon
  /\ loadedMtime' = stamp
  /\ Loaded
  /\ UNCHANGED <<fileVars, memory, slipped, writeVars, boundVars, histVars>>

-----------------------------------------------------------------------------
(* append_override() *)

Ignores(w) == mtime # base[w]

Forget(w) ==
  /\ draft' = [draft EXCEPT ![w] = Missing]
  /\ base' = [base EXCEPT ![w] = 0]

AppendRead(a) ==
  /\ daemon = "up" /\ pc[a] = "idle"
  /\ IF Readable(file)
     THEN /\ pc' = [pc EXCEPT ![a] = "read"]
          /\ draft' = [draft EXCEPT ![a] = file]
          /\ base' = [base EXCEPT ![a] = mtime]
     ELSE /\ pc' = [pc EXCEPT ![a] = "refused"]
          /\ UNCHANGED <<draft, base>>
  /\ UNCHANGED <<fileVars, daemon, loadVars, inForceVars, slipped, boundVars, histVars>>

Truncate(w) ==
  /\ pc[w] = "read"
  /\ pc' = [pc EXCEPT ![w] = "writing"]
  /\ Write(Empty)
  /\ base' = [base EXCEPT ![w] = mtime']
  /\ overlapped' = (overlapped \/ Ignores(w))
  /\ UNCHANGED <<daemon, loadVars, inForceVars, slipped, draft, boundVars, latest>>

WithEntrySlip(policy, entry) == [policy EXCEPT !.overrides = <<entry>>]
WithEntry(policy, entry) == [policy EXCEPT !.overrides = Append(@, entry)]

AppendWrite(a) ==
  /\ pc[a] = "writing"
  /\ pc' = [pc EXCEPT ![a] = "done"]
  /\ Write(WithEntry(draft[a], EntryOf[a]))
  /\ overlapped' = (overlapped \/ Ignores(a))
  /\ Forget(a)
  /\ UNCHANGED <<daemon, loadVars, inForceVars, slipped, boundVars, latest>>

-----------------------------------------------------------------------------
(* The user, who keeps the overrides that were there. *)

Edit ==
  /\ pc[User] = "idle" /\ edits < MaxEdits
  /\ file # Missing
  /\ edits' = edits + 1
  /\ pc' = [pc EXCEPT ![User] = "read"]
  /\ draft' = [draft EXCEPT ![User] = file]
  /\ base' = [base EXCEPT ![User] = mtime]
  /\ UNCHANGED <<fileVars, daemon, loadVars, inForceVars, slipped, deaths, histVars>>

KeptOverrides == IF Readable(draft[User]) THEN draft[User].overrides ELSE <<>>

Save(rules) ==
  /\ pc[User] = "writing"
  /\ pc' = [pc EXCEPT ![User] = "idle"]
  /\ Write([rules |-> rules, overrides |-> KeptOverrides])
  /\ latest' = rules
  /\ overlapped' = (overlapped \/ Ignores(User) \/ ~Readable(draft[User]))
  /\ Forget(User)
  /\ UNCHANGED <<daemon, loadVars, inForceVars, slipped, boundVars>>

SaveMistake ==
  /\ pc[User] = "writing"
  /\ pc' = [pc EXCEPT ![User] = "idle"]
  /\ Write(Unreadable)
  /\ overlapped' = (overlapped \/ Ignores(User))
  /\ Forget(User)
  /\ UNCHANGED <<daemon, loadVars, inForceVars, slipped, boundVars, latest>>

(* Appends under way end with the daemon. *)
DaemonDies ==
  /\ daemon # "down" /\ deaths < MaxDeaths
  /\ deaths' = deaths + 1
  /\ daemon' = "down"
  /\ Loaded
  /\ pc' = [w \in Writers |->
              IF w # User /\ pc[w] \in {"read", "writing"} THEN "lost" ELSE pc[w]]
  /\ overlapped' = (overlapped \/ \E a \in Answers : pc[a] = "writing")
  /\ UNCHANGED <<fileVars, inForceVars, slipped, draft, base, edits, latest>>

-----------------------------------------------------------------------------
Load == Start \/ CheckMtime \/ ReadText \/ Adopt \/ Keep

PolicyNext ==
  \/ Load
  \/ \E a \in Answers : AppendRead(a) \/ AppendWrite(a)
  \/ \E w \in Writers : Truncate(w)
  \/ Edit
  \/ (\E rules \in Editions : Save(rules)) \/ SaveMistake
  \/ DaemonDies

PolicySpec == PolicyInit /\ [][PolicyNext]_policyVars

-----------------------------------------------------------------------------
(* What is in force was the whole file once: never what a write had only    *)
(* begun, nor what the user broke.  When the modification time says that    *)
(* nothing has changed, it is what the file says, if that can be read at    *)
(* all, unless a write fell between the two reads of a load                 *)
(* (policy/mod.rs:66-77 and 131-156).                                       *)
NotStale ==
  daemon = "up" =>
    /\ Readable(memory)
    /\ (load = "idle" /\ loadedMtime = mtime /\ Readable(file)) => (memory = file \/ slipped)

(* As long as no two writers overlapped and none was cut short, what the    *)
(* user saved last and every permanent decision since it was made are in    *)
(* the file (policy/mod.rs:344-376).                                       *)
NothingOverwritten ==
  ~overlapped /\ Readable(file) =>
    /\ file.rules = latest
    /\ \A a \in Answers : pc[a] = "done" => \E n \in DOMAIN file.overrides :
                                              file.overrides[n] = EntryOf[a]

-----------------------------------------------------------------------------
(* Under the policy shipped, what was read locally never leaves unasked: an *)
(* outbound call that carries it is denied, or asked about where one of the *)
(* three rules that ask and stand before that one applies too              *)
(* (policy/model.rs:196-250, README.md:51 and 57).                         *)
TaintNeverLeavesSilently ==
  daemon = "up" /\ memory = DefaultPolicy =>
    \A req \in Requests :
      {"tainted", "outbound"} \subseteq req.meets =>
        LET hidden == \/ {"secret_path", "secret"} \cap req.meets # {}
                      \/ {"write", "outside"} \subseteq req.meets
        IN Evaluate(memory, req) = IF hidden THEN "ask" ELSE "deny"
=============================================================================
