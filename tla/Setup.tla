-------------------------------- MODULE Setup --------------------------------
(***************************************************************************)
(* setup/mod.rs with cli/init.rs and the start of cli/proxy.rs: `init`     *)
(* rewrites the configuration files of the clients and writes the route    *)
(* table, `restore` copies the backups over them, and the HTTP proxy reads *)
(* the table once, when it starts.  The user and the clients edit the same *)
(* files, and nothing locks them.                                          *)
(*                                                                         *)
(* A file holds a set of entries, or is NoFile; the sections of one that   *)
(* has several are taken for one, in which a name stands once.  An entry    *)
(* is a command, an http url, or another url or setting.                   *)
(* std::fs::write truncates before it writes: a run cut short leaves the   *)
(* file it was at Torn.  That it may be Emptied matters for the hook's     *)
(* file, which is then read all the same.                                  *)
(***************************************************************************)
EXTENDS Naturals, Sequences, SequencesExt, Functions

CONSTANTS
  Discovered,     (* the files, in the order discover() finds them and      *)
                  (* plan_hook comes last                                   *)
  PathOrder,      (* the same files, in the order of their paths            *)
  HookFile,       (* ~/.claude/settings.json                                *)
  ProjectFiles,   (* the .mcp.json of projects: of --project or of the      *)
                  (* working directory, found by restore only in the latter *)
  Declares,       (* file |-> the entries a user may write in it            *)
  Names, Targets, (* of servers, and what they run or the url they are at   *)
  NoFile, Torn, Emptied, Down, NoRoute,
  MaxChanges, MaxStops,
  MaxBackups      (* bounds; the last, of backups of one file               *)

Files == ToSet(Discovered)
Kinds == {"stdio", "http", "other"}
Declarable == [name : Names, kind : Kinds, target : Targets, via : {FALSE}]
Hook  == [name |-> "hook", kind |-> "hook", target |-> NoRoute, via |-> TRUE]
Declared == UNION {Declares[f] : f \in Files}
Written == Declared \cup {[e EXCEPT !.via = TRUE] : e \in Declared} \cup {Hook}
Tables == [Names -> Targets \cup {NoRoute}]

ASSUME SetupAssumption ==
  /\ {Discovered, PathOrder} \subseteq Seq(Files) /\ ToSet(PathOrder) = Files
  /\ IsInjective(Discovered) /\ IsInjective(PathOrder)
  /\ HookFile \in Files /\ ProjectFiles \subseteq Files
  /\ \A f \in Files : Declares[f] \subseteq Declarable
  /\ \A e \in Declares[HookFile] : e.kind = "other"
  /\ \A c \in SUBSET Written : c \notin {NoFile, Torn, Emptied}
  /\ NoFile \notin {Torn, Emptied}
  /\ {MaxChanges, MaxStops, MaxBackups} \subseteq Nat

VARIABLES
  config,         (* file |-> its content                                   *)
  backups,        (* file |-> its backups, the oldest first                 *)
  routes,         (* routes.json: name |-> target                           *)
  proxy,          (* the table the running proxy has, Down if none runs     *)
  cli,            (* the mcpwall command that runs                          *)
  theirs,         (* history: what the user last wrote in a file            *)
  kept,           (* history: is that "new", "planned" by an init, "saved"  *)
                  (* by its backup                                          *)
  spoilt,         (* history: what befell the file or its backups           *)
  lost,           (* history: names whose route an init did not get to write *)
  shared,         (* history: names of several servers                      *)
  changed, stops

diskVars  == <<config, backups, routes>>
causeVars == <<theirs, kept, spoilt, lost>>
setupBounds == <<changed, stops>>
setupVars == <<diskVars, causeVars, setupBounds, proxy, cli, shared>>

Legible(c) == c \notin {NoFile, Torn, Emptied}
NoTable    == [n \in Names |-> NoRoute]
NoPlans    == [f \in {} |-> NoFile]
Idle       == [does |-> "nothing", plans |-> NoPlans, saved |-> FALSE, routed |-> FALSE, table |-> NoTable]

SetupInit ==
  /\ config = [f \in Files |-> NoFile]
  /\ backups = [f \in Files |-> <<>>]
  /\ routes = NoTable
  /\ proxy = Down
  /\ cli = Idle
  /\ theirs = [f \in Files |-> {}]
  /\ kept = [f \in Files |-> "new"]
  /\ spoilt = [f \in Files |-> {}]
  /\ lost = {} /\ shared = {}
  /\ changed = 0 /\ stops = 0

-----------------------------------------------------------------------------
(* wrap_entry and route_entry: a command or an http url is replaced, and    *)
(* the original is kept beside it; any other url is left uncovered.         *)
Wrap(e) == IF e.kind \in {"stdio", "http"} THEN [e EXCEPT !.via = TRUE] ELSE e

(* plan and plan_hook: what they read, or that they skip the file.  Of the  *)
(* settings, a file that is not there or is empty is one without settings.  *)
Before(f) == IF f = HookFile /\ config[f] \in {NoFile, Emptied} THEN {} ELSE config[f]

After(f, c) == IF f = HookFile THEN c \cup {Hook} ELSE {Wrap(e) : e \in c}

Plannable(f) == Legible(Before(f)) /\ After(f, Before(f)) # Before(f)

(* The plans are what was read of each file, and are followed in an order.  *)
Precedes(order, f, g) ==
  \E i, j \in DOMAIN order : i <= j /\ order[i] = f /\ order[j] = g

IsNext(f) ==
  /\ f \in DOMAIN cli.plans
  /\ \A g \in DOMAIN cli.plans :
       Precedes(IF cli.does = "init" THEN Discovered ELSE PathOrder, f, g)

PlansLeft(f) == Restrict(cli.plans, DOMAIN cli.plans \ {f})

(* The route of a url it replaces, beside the routes there are: of several  *)
(* of one name that of the last.                                           *)
Replaced(f, n) == {e \in Before(f) : e.kind = "http" /\ ~e.via /\ e.name = n}

RoutedSlip(n, found) ==
  LET last == {f \in found : \A g \in found : Precedes(Discovered, g, f)}
      new  == UNION {Replaced(f, n) : f \in last}
  IN IF new = {} THEN {routes[n]} ELSE {e.target : e \in new}

Routed(n, found) ==
  LET giving == {f \in found : Replaced(f, n) # {}}
      last   == {f \in giving : \A g \in giving : Precedes(Discovered, g, f)}
  IN IF giving = {} THEN {routes[n]} ELSE {e.target : e \in UNION {Replaced(f, n) : f \in last}}

(* init --apply.  An unreadable table ends it; the files are read, and if    *)
(* there is nothing to change it says so.  Where it runs and what it is     *)
(* given decide which projects it looks at.                                 *)
InitReads ==
  /\ cli.does = "nothing"
  /\ routes # Torn
  /\ \E projects \in SUBSET ProjectFiles :
       LET found == {f \in (Files \ ProjectFiles) \cup projects : Plannable(f)}
       IN  /\ found # {}
           /\ \E table \in Tables :
                /\ \A n \in Names : table[n] \in Routed(n, found)
                /\ cli' = [does   |-> "init",
                           plans  |-> [f \in found |-> Before(f)],
                           saved  |-> FALSE,
                           routed |-> \E f \in found, n \in Names : Replaced(f, n) # {},
                           table  |-> table]
           /\ kept' = [f \in Files |->
                         IF f \in found /\ kept[f] = "new" THEN "planned" ELSE kept[f]]
  /\ UNCHANGED <<diskVars, theirs, spoilt, lost, setupBounds, proxy>>

(* The table is written if the urls it replaced are any. *)
Proceed(f) ==
  IF DOMAIN cli.plans = {f} /\ ~cli.routed
    THEN Idle
    ELSE [cli EXCEPT !.plans = PlansLeft(f), !.saved = FALSE]

(* backup_path names a backup by the second: one of the same second is       *)
(* written over.                                                            *)
AddedSlip(f, c, sameSecond) ==
  backups' = [backups EXCEPT ![f] = IF @ = <<>> THEN <<c>> ELSE @]

Added(f, c, sameSecond) ==
  backups' = [backups EXCEPT ![f] = Append(IF sameSecond THEN Front(@) ELSE @, c)]

MayAdd(f, sameSecond) == IF sameSecond THEN backups[f] # <<>> ELSE Len(backups[f]) < MaxBackups

(* What is wrong with a backup, of a file that mcpwall had already written  *)
(* or that was emptied, or of the second of another.                       *)
Faults(f, sameSecond) ==
  (IF sameSecond THEN {"same second"} ELSE {})
  \cup (IF (\E e \in cli.plans[f] : e.via) \/ config[f] = Emptied
          THEN {"backup not theirs"} ELSE {})

(* apply: the backup is of what was read ... *)
BackUp ==
  /\ cli.does = "init" /\ ~cli.saved
  /\ \E f \in Files, sameSecond \in BOOLEAN :
       /\ IsNext(f) /\ MayAdd(f, sameSecond)
       /\ Added(f, cli.plans[f], sameSecond)
       /\ kept' = [kept EXCEPT ![f] = IF @ = "planned" THEN "saved" ELSE @]
       /\ spoilt' = [spoilt EXCEPT ![f] = @ \cup Faults(f, sameSecond)]
  /\ cli' = [cli EXCEPT !.saved = TRUE]
  /\ UNCHANGED <<config, routes, theirs, lost, setupBounds, proxy>>

(* ... and so is what is written, whatever the file holds by then. *)
WriteConfig ==
  /\ cli.does = "init" /\ cli.saved
  /\ \E f \in Files :
       /\ IsNext(f)
       /\ config' = [config EXCEPT ![f] = After(f, cli.plans[f])]
       /\ spoilt' = [spoilt EXCEPT ![f] = @ \cup (IF kept[f] = "new" THEN {"edited"} ELSE {})]
       /\ cli' = Proceed(f)
  /\ UNCHANGED <<backups, routes, theirs, kept, lost, setupBounds, proxy>>

(* The table that was read, with the new routes, last. *)
WriteRoutes ==
  /\ cli.does = "init" /\ DOMAIN cli.plans = {}
  /\ routes' = cli.table
  /\ lost' = {n \in lost : cli.table[n] = routes[n]}
  /\ cli' = Idle
  /\ UNCHANGED <<config, backups, theirs, kept, spoilt, setupBounds, proxy>>

-----------------------------------------------------------------------------
(* backups: the most recent is the last by name, which has the time in it. *)
LatestSlip(f) == Head(backups[f])
Latest(f)     == Last(backups[f])

(* restore looks in the home directory's places and in the one it runs in. *)
RestoreReads ==
  /\ cli.does = "nothing"
  /\ \E here \in {{}} \cup {{f} : f \in ProjectFiles} :
       LET found == {f \in (Files \ ProjectFiles) \cup here : backups[f] # <<>>}
       IN  /\ found # {}
           /\ cli' = [Idle EXCEPT !.does = "restore", !.plans = [f \in found |-> Latest(f)]]
  /\ UNCHANGED <<diskVars, causeVars, setupBounds, proxy>>

(* The backups stay where they are, and the routes in their table. *)
RestoreFile(f) ==
  /\ cli.does = "restore" /\ IsNext(f)
  /\ config' = [config EXCEPT ![f] = cli.plans[f]]
  /\ spoilt' = [spoilt EXCEPT ![f] =
       @ \cup (IF kept[f] = "new" THEN {"edited"} ELSE {})
         \cup (IF Legible(cli.plans[f]) THEN {} ELSE {"backup cut"})]
  /\ cli' = IF DOMAIN cli.plans = {f} THEN Idle ELSE [cli EXCEPT !.plans = PlansLeft(f)]
  /\ UNCHANGED <<backups, routes, theirs, kept, lost, setupBounds, proxy>>

-----------------------------------------------------------------------------
(* A command that is killed, or a disk that is full: the file it was to      *)
(* write next is as it was, or cut.  The routes of the urls it has replaced *)
(* and of those it may have are not written by a later run, which finds     *)
(* them Already there.                                                      *)
Cut(f) == IF f = HookFile THEN {Torn, Emptied} ELSE {Torn}

CutsBackup(f) ==
  /\ cli.does = "init" /\ ~cli.saved
  /\ \E cut \in Cut(f), sameSecond \in BOOLEAN : MayAdd(f, sameSecond) /\ Added(f, cut, sameSecond)
  /\ UNCHANGED <<config, routes>>

CutsConfig(f) ==
  /\ cli.does = "restore" \/ cli.saved
  /\ \E cut \in Cut(f) : config' = [config EXCEPT ![f] = cut]
  /\ UNCHANGED <<backups, routes>>

CutsRoutes == DOMAIN cli.plans = {} /\ routes' = Torn /\ UNCHANGED <<config, backups>>

IsCut ==
  /\ cli.does # "nothing" /\ stops < MaxStops
  /\ \/ UNCHANGED diskVars
     \/ \E f \in Files : IsNext(f) /\ (CutsBackup(f) \/ CutsConfig(f))
     \/ CutsRoutes
  /\ lost' = IF cli.does = "init"
               THEN lost \cup {n \in Names : cli.table[n] # routes[n]} ELSE lost
  /\ kept' = [f \in Files |-> IF kept[f] = "planned" THEN "new" ELSE kept[f]]
  /\ spoilt' = [f \in Files |->
       spoilt[f] \cup (IF Len(backups'[f]) = Len(backups[f]) /\ backups'[f] # backups[f]
                         THEN {"same second"} ELSE {})
                 \cup (IF config'[f] # config[f] /\ kept[f] = "new" THEN {"edited"} ELSE {})]
  /\ stops' = stops + 1
  /\ cli' = Idle
  /\ UNCHANGED <<theirs, changed, proxy>>

(* The user, or a client, adds a server, changes it or takes it out. *)
Edited(c, e, adds) == {x \in c : x.name # e.name} \cup IF adds THEN {e} ELSE {}

EditConfig ==
  /\ changed < MaxChanges
  /\ \E f \in Files : \E e \in Declares[f], adds \in BOOLEAN :
       LET was == IF config[f] = NoFile THEN {} ELSE config[f]
       IN  /\ config[f] \notin {Torn, Emptied}
           /\ Edited(was, e, adds) # was
           /\ config' = [config EXCEPT ![f] = Edited(was, e, adds)]
           /\ theirs' = [theirs EXCEPT ![f] = Edited(@, e, adds)]
           /\ kept' = [kept EXCEPT ![f] = "new"]
  /\ changed' = changed + 1
  /\ UNCHANGED <<backups, routes, spoilt, lost, stops, proxy, cli>>

(* cli/proxy.rs run: the table is read here and nowhere else; without one   *)
(* it listens all the same, and one it cannot read ends it.                 *)
ProxyStarts ==
  /\ proxy = Down /\ routes # Torn
  /\ proxy' = routes
  /\ UNCHANGED <<diskVars, causeVars, setupBounds, cli>>

ProxyDies ==
  /\ proxy # Down
  /\ proxy' = Down
  /\ UNCHANGED <<diskVars, causeVars, setupBounds, cli>>

-----------------------------------------------------------------------------
(* The urls a content has, and those of them that lead to the proxy. *)
Urls(c)       == IF Legible(c) THEN {e \in c : e.kind = "http"} ELSE {}
Redirected(c) == {e \in Urls(c) : e.via}

(* The urls of the files, and those that would be back in one if it were    *)
(* restored and that nothing would route anew.                             *)
Known ==
  (UNION {Urls(config[f]) : f \in Files})
  \cup (UNION {Redirected(c) : c \in UNION {ToSet(backups[f]) : f \in Files}})

Contested ==
  {n \in Names : \E e, x \in Known : {e.name, x.name} = {n} /\ e.target # x.target}

SetupNext ==
  /\ \/ InitReads \/ BackUp \/ WriteConfig \/ WriteRoutes
     \/ RestoreReads \/ \E f \in Files : RestoreFile(f)
     \/ IsCut \/ EditConfig \/ ProxyStarts \/ ProxyDies
  /\ shared' = shared \cup Contested'

SetupSpec == SetupInit /\ [][SetupNext]_setupVars

-----------------------------------------------------------------------------
(* What the user declared is in the file or in a backup of it whenever a    *)
(* command may be killed, as long as no write of mcpwall met an edit it had *)
(* not read, two backups did not share their second and none was restored   *)
(* that a run had cut.  It need not all be in one of them: an emptied file  *)
(* of settings is written anew, and edited.                                 *)
Own(c) == IF Legible(c) THEN {[e EXCEPT !.via = FALSE] : e \in c \ {Hook}} ELSE {}

NothingIsLost ==
  \A f \in Files :
     spoilt[f] \cap {"edited", "same second", "backup cut"} = {}
     => theirs[f] \subseteq UNION {Own(c) : c \in {config[f]} \cup ToSet(backups[f])}

(* `mcpwall restore` gives a file back as the user wrote it, with nothing   *)
(* of mcpwall in it, whatever runs were cut before: unless a backup was     *)
(* made of a file that mcpwall had already written, or the user wrote the   *)
(* file after its backup.                                                   *)
RestoreUndoes ==
  [][\A f \in Files :
       (RestoreFile(f) /\ kept[f] = "saved" /\ spoilt'[f] = {}) => config'[f] = theirs[f]]_setupVars

(* Between two commands, a url that leads to the proxy has a route on disk  *)
(* to the server it stood for: unless the run that replaced it was cut      *)
(* before its last write, or its name was that of different servers, in two *)
(* files or in one and a backup that leads to the proxy already.            *)
RoutedToItsServer ==
  (cli.does = "nothing" /\ routes # Torn)
  => \A f \in Files : \A e \in Redirected(config[f]) :
       e.name \notin lost \cup shared => routes[e.name] = e.target

(* The claim of cli/init.rs:130-132 and of Views.swift:525: once init is    *)
(* done and its table written, the proxy knows the routes of the urls that  *)
(* lead to it.                                                              *)
ProxyKnowsTheRoutes ==
  (cli.does = "nothing" /\ proxy # Down)
  => \A f \in Files : \A e \in Redirected(config[f]) :
       e.name \notin lost \cup shared => proxy[e.name] = e.target
==============================================================================
