---------------------------- MODULE TaintTracking ----------------------------
(***************************************************************************)
(* How the daemon comes to know which local data the agent was given, and  *)
(* what of it is known when a call is ruled on: note_if_local_read and     *)
(* observe_response of ipc/client.rs, the hook's report, and the store of  *)
(* protocol/taint.rs.                                                      *)
(*                                                                         *)
(* A client here is one talking to one upstream server.  Its traffic       *)
(* passes a shim of its own or, with others, the HTTP proxy: a link is the *)
(* DaemonClient it passes through, with its table of reads in flight and   *)
(* its connection.  How a link fails is ShimLink's subject: one whose      *)
(* daemon died asks nobody any more, and the store died with it.           *)
(*                                                                         *)
(* What is read stands for its fingerprint, which is compared whole; every *)
(* answer is long enough to have one.  Whether a rule looks at what is     *)
(* known is the policy's business.                                         *)
(***************************************************************************)
EXTENDS Naturals, Sequences, FiniteSets

CONSTANTS
  Clients,
  Links,
  Wirings,       (* the links the clients may be on                         *)
  Files,         (* what can be read, and stands for its content            *)
  Noise,         (* any other content: an error, a server's own question    *)
  Nothing,
  MaxInflight,   (* MAX_INFLIGHT_READS                                      *)
  TTL,
  MaxTime,       (* bound: the clock                                        *)
  MaxIds,        (* bound: calls of a client, which numbers them            *)
  MaxMade,       (* bound: calls of all clients                             *)
  MaxAsks,       (* bound: requests made by servers                         *)
  MaxHooks       (* bound: built-in tools that read                         *)

ASSUME ContentAssumption == Nothing \notin Files \cup {Noise} /\ Noise \notin Files
ASSUME WiringAssumption == Wirings \subseteq [Clients -> Links]
ASSUME TaintBounds ==
  /\ {MaxInflight, TTL} \subseteq Nat \ {0}
  /\ {MaxTime, MaxIds, MaxMade, MaxAsks, MaxHooks} \subseteq Nat

Ids    == 1..MaxIds
Bodies == Files \cup {Noise}

(* A call reads a file, or carries the content of one out. *)
NoCall == [id |-> 0, reads |-> Nothing, carries |-> Nothing]

(* What goes down a connection, in order. *)
Report(s, b, origin) == [type |-> "taint", by |-> s, body |-> b, origin |-> origin]
Decide(s)            == [type |-> "decide", by |-> s]

Clean == [at |-> Nothing, origin |-> Nothing]

VARIABLES
  linkOf,      (* the link of each client                                   *)
  used,        (* identifiers each client has used                          *)
  call,        (* the call of each client that awaits its verdict           *)
  unanswered,  (* <<id, read>>: calls the server of each client works on    *)
  inflight,    (* inflight_reads of each link: identifiers to origins       *)
  connection,  (* the connection of each link                               *)
  posted,      (* reports of hooks on their way, each on a connection       *)
  store,       (* TaintStore                                                *)
  tainted,     (* what the last ruling was told of what the call carries    *)
  now,
  made, asks, hooks,                                 (* counters of bounds *)
  held,        (* history: when the agent was last given each file          *)
  robbed,      (* history: <<s, id>> whose entry something else took        *)
  unseen,      (* history: files given last without a report                *)
  answered,    (* history: <<body, file>> answered to a read of the file    *)
  mixed        (* history: <<body, file>> recorded under an identifier that *)
               (* was another's as well                                     *)

shim   == <<linkOf, used, call, unanswered, inflight>>
bounds == <<now, made, asks, hooks>>
taintPast   == <<held, robbed, unseen, answered, mixed>>
taintVars == <<shim, connection, posted, store, tainted, bounds, taintPast>>

-----------------------------------------------------------------------------
TaintInit ==
  /\ linkOf \in Wirings
  /\ used = [s \in Clients |-> 0]
  /\ call = [s \in Clients |-> NoCall]
  /\ unanswered = [s \in Clients |-> {}]
  /\ inflight = [l \in Links |-> {}]
  /\ connection = [l \in Links |-> <<>>]
  /\ posted = {}
  /\ store = [b \in Bodies |-> Clean]
  /\ tainted = Nothing
  /\ now = 0 /\ made = 0 /\ asks = 0 /\ hooks = 0
  /\ held = [f \in Files |-> Nothing]
  /\ robbed = {} /\ unseen = {} /\ answered = {} /\ mixed = {}

-----------------------------------------------------------------------------
(* The link.                                                               *)

Mates(l) == {s \in Clients : linkOf[s] = l}

(* Reads of client s whose answer may still come.  *)
Awaited(s) == {r[1] : r \in {x \in unanswered[s] : x[2] # Nothing}}
              \cup (IF call[s].reads # Nothing THEN {call[s].id} ELSE {})

Enqueue(l, m) == connection' = [connection EXCEPT ![l] = Append(@, m)]

EntriesOfSlip(l, id) == inflight[l]
EntriesOf(l, id) == {e \in inflight[l] : e[1] = id}

NoteReadSlip(l, id, f) == {<<id, f>>}

(* note_if_local_read: the whole table is dropped when it is full. *)
NoteRead(l, id, f) ==
  IF Cardinality(inflight[l]) >= MaxInflight THEN {<<id, f>>}
  ELSE (inflight[l] \ EntriesOf(l, id)) \cup {<<id, f>>}

(* decide(): the read is noted before anybody rules on it, and nothing      *)
(* takes the note away when the call is refused.                           *)
CallTool(s, reads, carries) ==
  LET l == linkOf[s]
      id == used[s] + 1
      full == Cardinality(inflight[l]) >= MaxInflight
  IN /\ call[s] = NoCall
     /\ id <= MaxIds /\ made < MaxMade
     /\ made' = made + 1
     /\ used' = [used EXCEPT ![s] = id]
     /\ call' = [call EXCEPT ![s] = [id |-> id, reads |-> reads, carries |-> carries]]
     /\ Enqueue(l, Decide(s))
     /\ IF reads = Nothing THEN UNCHANGED <<inflight, robbed>>
        ELSE /\ inflight' = [inflight EXCEPT ![l] = NoteRead(l, id, reads)]
             /\ robbed' = IF ~full THEN robbed
                          ELSE robbed \cup {r \in Mates(l) \X Ids : r[2] \in Awaited(r[1])}
     /\ UNCHANGED <<linkOf, unanswered, posted, store, tainted, now, asks, hooks,
                    held, unseen, answered, mixed>>

(* observe_response: whatever bears the identifier of a read in flight is   *)
(* taken for its answer, and reported before the client is given it.       *)
Observe(s, id, body) ==
  LET l == linkOf[s]
  IN IF EntriesOf(l, id) = {} THEN UNCHANGED <<inflight, connection>>
     ELSE \E e \in EntriesOf(l, id) :
            /\ inflight' = [inflight EXCEPT ![l] = @ \ {e}]
            /\ Enqueue(l, Report(s, body, e[2]))

(* The server answers a call: a read with the file, any with what is not.  *)
Respond(s, asked, body) ==
  LET l == linkOf[s]
      id == asked[1]
      namesakes == {r \in Mates(l) \ {s} : used[r] >= id}
      deprived == {<<r, id>> : r \in {x \in namesakes : id \in Awaited(x)}}
  IN /\ call[s] = NoCall
     /\ unanswered' = [unanswered EXCEPT ![s] = @ \ {asked}]
     /\ Observe(s, id, body)
     /\ answered' = answered \cup {<<body, asked[2]>>}
     /\ robbed' = (IF EntriesOf(l, id) = {} THEN robbed ELSE robbed \cup deprived) \ {<<s, id>>}
     /\ mixed' = IF namesakes = {} THEN mixed
                 ELSE mixed \cup {<<body, e[2]>> : e \in EntriesOf(l, id)}
     /\ IF body \in Files
        THEN /\ held' = [held EXCEPT ![body] = now]
             /\ unseen' = IF <<s, id>> \in robbed THEN unseen \cup {body} ELSE unseen \ {body}
        ELSE UNCHANGED <<held, unseen>>
     /\ UNCHANGED <<linkOf, used, call, posted, store, tainted, bounds>>

(* The server asks something of the client, under an identifier of its own. *)
ServerAsks(s, id) ==
  LET l == linkOf[s]
  IN /\ call[s] = NoCall
     /\ asks < MaxAsks
     /\ asks' = asks + 1
     /\ Observe(s, id, Noise)
     /\ robbed' = IF EntriesOf(l, id) = {} THEN robbed
                  ELSE robbed \cup {<<r, id>> : r \in {x \in Mates(l) : id \in Awaited(x)}}
     /\ mixed' = mixed \cup {<<Noise, e[2]>> : e \in EntriesOf(l, id)}
     /\ UNCHANGED <<linkOf, used, call, unanswered, posted, store, tainted,
                    now, made, hooks, held, unseen, answered>>

(* PostToolUse: a process of its own reports what a built-in tool read, and *)
(* waits until the report is written, or for so long.                      *)
HookReads(f) ==
  /\ hooks < MaxHooks
  /\ hooks' = hooks + 1
  /\ held' = [held EXCEPT ![f] = now]
  /\ answered' = answered \cup {<<f, f>>}
  /\ \/ posted' = posted \cup {f} /\ unseen' = unseen \ {f}
     \/ unseen' = unseen \cup {f} /\ UNCHANGED posted
  /\ UNCHANGED <<shim, connection, store, tainted, now, made, asks, robbed, mixed>>

-----------------------------------------------------------------------------
(* The daemon: one handler for each connection, which takes its messages   *)
(* one at a time.                                                          *)

Fresh(o) == o # Clean /\ now - o.at < TTL

(* TaintStore::record: what has expired goes, and the latest read counts. *)
Recorded(b, origin) ==
  [x \in Bodies |-> IF x = b THEN [at |-> now, origin |-> origin]
                    ELSE IF Fresh(store[x]) THEN store[x] ELSE Clean]

(* TaintStore::overlap: where the content came from, if that is recent. *)
Overlap(b) == IF b # Nothing /\ Fresh(store[b]) THEN store[b].origin ELSE Nothing

Takes(l, type) ==
  /\ connection[l] # <<>> /\ Head(connection[l]).type = type
  /\ connection' = [connection EXCEPT ![l] = Tail(@)]

TakeReport(l) ==
  /\ Takes(l, "taint")
  /\ store' = Recorded(Head(connection[l]).body, Head(connection[l]).origin)
  /\ UNCHANGED <<shim, posted, tainted, bounds, taintPast>>

TakePosted(f) ==
  /\ f \in posted
  /\ posted' = posted \ {f}
  /\ store' = Recorded(f, f)
  /\ UNCHANGED <<shim, connection, tainted, bounds, taintPast>>

(* The call is ruled on, knowing what it carries, and then reaches the      *)
(* server or is refused.                                                   *)
RuleOn(l, allowed) ==
  LET s == Head(connection[l]).by
      c == call[s]
  IN /\ Takes(l, "decide")
     /\ tainted' = Overlap(c.carries)
     /\ call' = [call EXCEPT ![s] = NoCall]
     /\ unanswered' = [unanswered EXCEPT ![s] =
                         IF allowed THEN @ \cup {<<c.id, c.reads>>} ELSE @]
     /\ UNCHANGED <<linkOf, used, inflight, posted, store, bounds, taintPast>>

Tick ==
  /\ now < MaxTime
  /\ now' = now + 1
  /\ UNCHANGED <<shim, connection, posted, store, tainted, made, asks, hooks, taintPast>>

Traffic(s) ==
  \/ \E f \in Files : CallTool(s, f, Nothing)
  \/ \E f \in {g \in Files : held[g] # Nothing} : CallTool(s, Nothing, f)
  \/ \E asked \in unanswered[s] : \E body \in {asked[2], Noise} \ {Nothing} :
       Respond(s, asked, body)
  \/ \E id \in Ids : ServerAsks(s, id)

TaintHandler(l) ==
  \/ TakeReport(l)
  \/ \E allowed \in BOOLEAN : RuleOn(l, allowed)

TaintNext ==
  \/ \E l \in Links : TaintHandler(l)
  \/ \E s \in Clients : Traffic(s)
  \/ \E f \in Files : HookReads(f) \/ TakePosted(f)
  \/ Tick

TaintSpec == TaintInit /\ [][TaintNext]_taintVars

-----------------------------------------------------------------------------
(* Another client's report of this content has not been taken yet. *)
OnItsWay(s, f) ==
  \/ f \in posted
  \/ \E l \in Links : \E i \in DOMAIN connection[l] :
       /\ connection[l][i].type = "taint"
       /\ connection[l][i].by # s /\ connection[l][i].body = f

(* The agent was given this file less than TTL ago, and the daemon can know *)
(* it: the answer's identifier was not taken by another message nor dropped *)
(* with a full table, no hook gave up its report, and the report is not     *)
(* still on another connection.                                            *)
Known(s, f) == /\ held[f] # Nothing
               /\ now - held[f] < TTL
               /\ f \notin unseen
               /\ ~OnItsWay(s, f)

IsRuled(s) == call[s] # NoCall /\ call'[s] = NoCall

(* What was read a short while ago and is known is seen when it leaves, by  *)
(* whichever client (client.rs:448, decide.rs:43-52, taint.rs:191).       *)
LeakIsSeen ==
  [][\A s \in Clients :
       IsRuled(s) /\ call[s].carries # Nothing /\ Known(s, call[s].carries)
         => tainted' # Nothing]_taintVars

(* What is taken for local data came in answer to a read of the file it is  *)
(* said to come of, unless the identifier was another's as well: of a       *)
(* server's own request, or of another client of the same proxy            *)
(* (client.rs:429-440).                                                    *)
TaintIsReal ==
  \A b \in Bodies : store[b] # Clean => <<b, store[b].origin>> \in answered \cup mixed
=============================================================================
