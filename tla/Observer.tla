------------------------------ MODULE Observer ------------------------------
(***************************************************************************)
(* transport/observer.rs and protocol/scope.rs: what a shim learns of its  *)
(* session from the frames that go by, and the project it files the        *)
(* session under; cli/wrap.rs tells the daemon once, when it connects.     *)
(***************************************************************************)
EXTENDS Naturals, FiniteSets

CONSTANTS
  Roots,              (* what a client may name as roots: uris              *)
  Paths,              (* canonical paths                                    *)
  PathOf,             (* the canonical path of a uri, or Nowhere: several   *)
                      (* uris may name one, and some none                   *)
  Nowhere, NoHello,
  Servers,            (* what a server calls itself                         *)
  Ids,                (* the identifiers either side numbers its requests by *)
  MaxFrames           (* bound: frames of a session                         *)

ASSUME ObserverAssumption ==
  /\ PathOf \in [Roots -> Paths \cup {Nowhere}] /\ Nowhere \notin Paths
  /\ MaxFrames \in Nat

VARIABLES
  injected, cwd,      (* the links of ScopeResolver: two are known at start *)
  roots,
  filed,              (* the SessionRow of the journal                      *)
  initialize_id,
  announced,          (* the scope the daemon was given                     *)
  used,               (* history: identifiers of the client's requests      *)
  pendingIds,         (* its requests without a response yet                *)
  rootsAsked,         (* the server's roots/list requests without one       *)
  told,               (* history: the paths the client last gave as roots   *)
  hello,              (* history: what the server answered to initialize    *)
  frameCount

resolverVars == <<injected, cwd, roots>>
trafficVars  == <<used, pendingIds, rootsAsked, told, hello, frameCount>>
observerVars == <<resolverVars, filed, initialize_id, announced, trafficVars>>

(* Scope::new and resolve: the most trustworthy link there is. *)
ScopeOf(source, paths) ==
  IF paths = {} THEN [source |-> "unknown", paths |-> {}] ELSE [source |-> source, paths |-> paths]

ResolveScope(inj, rts, dir) ==
  IF inj # Nowhere THEN ScopeOf("injected", {inj})
  ELSE IF rts # {} THEN ScopeOf("roots", rts)
  ELSE ScopeOf("cwd", {dir} \ {Nowhere})

(* JournalObserver::new, then wrap.rs connects. *)
ObserverInit ==
  /\ injected \in Paths \cup {Nowhere} /\ cwd \in Paths \cup {Nowhere}
  /\ roots = {}
  /\ filed = [scope |-> ResolveScope(injected, {}, cwd), server |-> NoHello]
  /\ initialize_id = {}
  /\ announced = ResolveScope(injected, {}, cwd)
  /\ used = {} /\ pendingIds = {} /\ rootsAsked = {} /\ told = {} /\ hello = NoHello
  /\ frameCount = 0

-----------------------------------------------------------------------------
(* A frame: its direction, its method if the scan found one, its identifier *)
(* and the part of its result that is looked at.                            *)
Frame(dir, method, id, result) == [dir |-> dir, method |-> method, id |-> id, result |-> result]
NoResult == [kind |-> "none"]

Given(uris) == {PathOf[u] : u \in uris} \ {Nowhere}

(* observe_semantics: the id of initialize, the answer it is given, and the *)
(* roots, which travel upwards since it is the server that asks.            *)
IsRoots(f) ==
  /\ f.dir = "to_server" /\ f.method = "none"
  /\ f.result.kind = "roots" /\ Given(f.result.roots) # {}

IsHelloSlip(f) ==
  /\ f.dir = "to_client" /\ f.method = "none"
  /\ initialize_id # {} /\ f.result.kind \in {"hello", "other"}

IsHello(f) ==
  /\ f.dir = "to_client" /\ f.method = "none"
  /\ f.id \in initialize_id /\ f.result.kind \in {"hello", "other"}

ObserveSemantics(f) ==
  /\ initialize_id' = IF f.dir = "to_server" /\ f.method = "initialize" THEN {f.id}
                      ELSE initialize_id
  /\ roots' = IF IsRoots(f) THEN Given(f.result.roots) ELSE roots
  /\ filed' = IF IsRoots(f)
              THEN [filed EXCEPT !.scope = ResolveScope(injected, Given(f.result.roots), cwd)]
              ELSE IF IsHello(f)
              THEN [filed EXCEPT !.server = IF f.result.kind = "hello" THEN f.result.name ELSE NoHello]
              ELSE filed

(* on_frame: a frame without a method is looked into on its way down only.  *)
(* One that cannot be scanned is on its way up too, and is no message then. *)
IsObserved(f) == f.method # "none" \/ f.dir = "to_client"

FrameGoesBy(f) ==
  /\ IF IsObserved(f) THEN ObserveSemantics(f) ELSE UNCHANGED <<filed, roots, initialize_id>>
  /\ frameCount < MaxFrames /\ frameCount' = frameCount + 1
  /\ UNCHANGED <<injected, cwd, announced>>

-----------------------------------------------------------------------------
(* The client and the server.  Each numbers its own requests, and uses an   *)
(* identifier once, as the protocol requires.                              *)

ClientRequests(id, method) ==
  /\ id \notin used /\ used' = used \cup {id}
  /\ method = "initialize" => \A p \in pendingIds : p.method # method
  /\ FrameGoesBy(Frame("to_server", method, id, NoResult))
  /\ pendingIds' = pendingIds \cup {[id |-> id, method |-> method]}
  /\ UNCHANGED <<rootsAsked, told, hello>>

(* Responses come in any order, and may be errors: a client whose handshake *)
(* has failed may try again.                                               *)
ServerResponds(p, result) ==
  /\ FrameGoesBy(Frame("to_client", "none", p.id, result))
  /\ result.kind = "error" \/ (result.kind = "hello" <=> p.method = "initialize")
  /\ pendingIds' = pendingIds \ {p}
  /\ hello' = IF result.kind = "hello" THEN result.name ELSE hello
  /\ UNCHANGED <<used, rootsAsked, told>>

ServerAsksRoots(id) ==
  /\ id \notin rootsAsked
  /\ FrameGoesBy(Frame("to_client", "roots/list", id, NoResult))
  /\ rootsAsked' = rootsAsked \cup {id}
  /\ UNCHANGED <<used, pendingIds, told, hello>>

ClientGivesRoots(id, uris) ==
  /\ id \in rootsAsked
  /\ FrameGoesBy(Frame("to_server", "none", id, [kind |-> "roots", roots |-> uris]))
  /\ rootsAsked' = rootsAsked \ {id}
  /\ told' = Given(uris)
  /\ UNCHANGED <<used, pendingIds, hello>>

ObserverNext ==
  \/ \E id \in Ids, method \in {"initialize", "tools/call"} : ClientRequests(id, method)
  \/ \E p \in pendingIds :
       \E result \in {[kind |-> "error"], [kind |-> "other"]}
                      \cup [kind : {"hello"}, name : Servers] : ServerResponds(p, result)
  \/ \E id \in Ids : ServerAsksRoots(id)
  \/ \E id \in Ids, uris \in SUBSET Roots : ClientGivesRoots(id, uris)

ObserverSpec == ObserverInit /\ [][ObserverNext]_observerVars

-----------------------------------------------------------------------------
(* The journal names the server by the handshake, among responses in any    *)
(* order and requests of both sides with the same identifiers               *)
(* (observer.rs:118-131).                                                  *)
SessionNamesItsServer == filed.server = hello

(* SPEC.md:286, scope.rs:177-181: the scope "may rise in trustworthiness    *)
(* during a session", once roots/list has been answered.                    *)
ScopeRises == told # {} /\ injected = Nowhere => filed.scope.source = "roots"
=============================================================================
