----------------------------- MODULE PromptPanels -----------------------------
(***************************************************************************)
(* The application as an interface of the daemon: DaemonConnection.swift,  *)
(* DecisionPanel.swift and what AppDelegate.swift does with a message.     *)
(*                                                                         *)
(* Three threads share the connection.  The read loop opens it, reads it   *)
(* and opens it again; a queue of its own writes answers and requests for  *)
(* the status; the main thread shows the panels, and takes messages and    *)
(* clicks in the order they come.                                          *)
(*                                                                         *)
(* Daemons come one after the other, and each numbers its prompts from     *)
(* one.  A prompt is the daemon that asks and its number; what crosses the *)
(* socket is the number.                                                   *)
(***************************************************************************)
EXTENDS Naturals, Sequences, SequencesExt

CONSTANTS
  MaxDaemons,     (* bound: daemons that serve, one after the other         *)
  MaxAsked,       (* bound: prompts of each                                 *)
  MaxStatus,      (* bound: requests for the status; the timer's period is  *)
                  (* longer than that of the attempts to connect            *)
  MaxSockets      (* bound: connections, more than the others allow         *)

ASSUME PanelsAssumption == {MaxDaemons, MaxAsked, MaxStatus, MaxSockets} \subseteq Nat \ {0}

(* What the write queue is given: an answer by the panel it was given on,   *)
(* or a request for the status.                                            *)
Status  == [daemon |-> 0, id |-> 0]
NoWrite == [socket |-> 0, send |-> Status]

(* ServerMessage, and the notice that the connection was lost. *)
Ask(p)        == [type |-> "prompt", prompt |-> p]
Withdrawal(p) == [type |-> "withdraw", prompt |-> p]
Lost          == [type |-> "lost", prompt |-> Status]

VARIABLES
  running,      (* is the application there?                                *)
  serving,      (* the daemon that serves, 0 if none does                   *)
  born,         (* daemons so far                                           *)
  numbered,     (* prompts it has numbered                                  *)
  open,         (* its prompts without an answer: [id, on], the number and  *)
                (* the connection it was sent on, 0 if none                 *)
  reader,       (* the read loop: sleeping, greeting, reading               *)
  fd,           (* the connection, 0 if none                                *)
  source,       (* the daemon at its other end                              *)
  spoiled,      (* was anything written before the hello?                   *)
  wire,         (* messages sent on it and not yet read                     *)
  sockets,      (* connections so far                                       *)
  connected,    (* isConnected                                              *)
  mainQueue,
  panels,       (* the prompts of the panels on screen                      *)
  sends,        (* the write queue                                          *)
  writing,      (* the block it runs, with the fd it has read               *)
  statuses,
  applied,      (* history: <<shown, meant>> of answers daemons took        *)
  late          (* history: was a queue ever behind a whole reconnection?   *)

daemonVars == <<serving, born, numbered, open>>
socketIO   == <<reader, fd, source, spoiled, sockets, connected>>
queues     == <<sends, writing, statuses>>
panelVars  == <<running, daemonVars, socketIO, wire, mainQueue, panels, queues, applied, late>>

PanelInit ==
  /\ running = TRUE
  /\ serving = 0 /\ born = 0 /\ numbered = 0 /\ open = {}
  /\ reader = "sleeping" /\ fd = 0 /\ source = 0 /\ spoiled = FALSE /\ wire = <<>> /\ sockets = 0
  /\ connected = FALSE /\ mainQueue = <<>> /\ panels = {}
  /\ sends = <<>> /\ writing = NoWrite /\ statuses = 0
  /\ applied = {} /\ late = FALSE

-----------------------------------------------------------------------------
(* The daemon, as Daemon has it. *)

Hears == fd # 0 /\ reader = "reading" /\ source = serving

Serve ==
  /\ serving = 0 /\ born < MaxDaemons
  /\ serving' = born + 1 /\ born' = born + 1
  /\ numbered' = 0 /\ open' = {}
  /\ UNCHANGED <<running, socketIO, wire, mainQueue, panels, queues, applied, late>>

Perish ==
  /\ serving # 0
  /\ serving' = 0
  /\ UNCHANGED <<running, born, numbered, open, socketIO, wire, mainQueue, panels, queues,
                 applied, late>>

AskUser ==
  /\ serving # 0 /\ numbered < MaxAsked
  /\ numbered' = numbered + 1
  /\ open' = open \cup {[id |-> numbered + 1, on |-> IF Hears THEN fd ELSE 0]}
  /\ wire' = IF Hears THEN Append(wire, Ask([daemon |-> serving, id |-> numbered + 1]))
             ELSE wire
  /\ UNCHANGED <<running, serving, born, socketIO, mainQueue, panels, queues, applied, late>>

Expire(o) ==
  /\ serving # 0 /\ o \in open
  /\ open' = open \ {o}
  /\ wire' = IF Hears THEN Append(wire, Withdrawal([daemon |-> serving, id |-> o.id])) ELSE wire
  /\ UNCHANGED <<running, serving, born, numbered, socketIO, mainQueue, panels, queues,
                 applied, late>>

-----------------------------------------------------------------------------
(* The read loop. *)

CloseConnectionSlip ==
  /\ fd' = 0
  /\ connected' = FALSE
  /\ UNCHANGED mainQueue

(* closeConnection(): whoever calls it closes the connection there is; its  *)
(* loss is told once.                                                      *)
CloseConnection ==
  /\ fd' = 0
  /\ connected' = FALSE
  /\ mainQueue' = IF connected THEN Append(mainQueue, Lost) ELSE mainQueue

(* A second after the last one, if somebody listens.  The connection is     *)
(* published before the hello is written.                                  *)
Connect ==
  /\ running /\ reader = "sleeping"
  /\ serving # 0 /\ sockets < MaxSockets
  /\ sockets' = sockets + 1
  /\ fd' = sockets + 1
  /\ source' = serving
  /\ spoiled' = FALSE /\ wire' = <<>>
  /\ reader' = "greeting"
  /\ late' = \/ late
             \/ \E n \in DOMAIN mainQueue : mainQueue[n] = Lost
             \/ \E n \in DOMAIN sends : sends[n] # Status
             \/ writing # NoWrite
  /\ UNCHANGED <<running, daemonVars, connected, mainQueue, panels, queues, applied>>

(* The daemon closes on whoever does not begin with a hello. *)
PeerGone == source # serving \/ spoiled

(* Hello, its answer, and the subscription. *)
Greet ==
  /\ running /\ reader = "greeting"
  /\ fd # 0 /\ ~PeerGone
  /\ reader' = "reading"
  /\ connected' = TRUE
  /\ UNCHANGED <<running, daemonVars, fd, source, spoiled, sockets, wire, mainQueue, panels,
                 queues, applied, late>>

GreetingFails ==
  /\ running /\ reader = "greeting"
  /\ fd = 0 \/ PeerGone
  /\ CloseConnection
  /\ reader' = "sleeping"
  /\ UNCHANGED <<running, daemonVars, source, spoiled, sockets, wire, panels, queues, applied,
                 late>>

ReadMessage ==
  /\ running /\ reader = "reading"
  /\ wire # <<>>
  /\ mainQueue' = Append(mainQueue, Head(wire))
  /\ wire' = Tail(wire)
  /\ UNCHANGED <<running, daemonVars, socketIO, panels, queues, applied, late>>

NothingToReadSlip == wire = <<>> /\ source # serving
(* readLine() returns nil: the end of the stream, or a connection the write *)
(* queue has closed, of which only what was buffered is read.              *)
NothingToRead == fd = 0 \/ (wire = <<>> /\ source # serving)

ReadEnds ==
  /\ running /\ reader = "reading"
  /\ NothingToRead
  /\ CloseConnection
  /\ reader' = "sleeping"
  /\ wire' = <<>>
  /\ UNCHANGED <<running, daemonVars, source, spoiled, sockets, panels, queues, applied, late>>

-----------------------------------------------------------------------------
(* The main thread. *)

(* One window per number. *)
Present(p) == IF \E q \in panels : q.id = p.id THEN panels ELSE panels \cup {p}

Dismiss(p) == {q \in panels : q.id # p.id}

HandledSlip(m) ==
  CASE m.type = "prompt"   -> Present(m.prompt)
    [] m.type = "withdraw" -> Dismiss(m.prompt)
    [] m.type = "lost"     -> panels

Handled(m) ==
  CASE m.type = "prompt"   -> Present(m.prompt)
    [] m.type = "withdraw" -> Dismiss(m.prompt)
    [] m.type = "lost"     -> {}

HandleMessage ==
  /\ running
  /\ mainQueue # <<>>
  /\ panels' = Handled(Head(mainQueue))
  /\ mainQueue' = Tail(mainQueue)
  /\ UNCHANGED <<running, daemonVars, socketIO, wire, queues, applied, late>>

Click(p) ==
  /\ running
  /\ p \in panels
  /\ panels' = Dismiss(p)
  /\ sends' = Append(sends, p)
  /\ UNCHANGED <<running, daemonVars, socketIO, wire, mainQueue, writing, statuses, applied,
                 late>>

RequestStatus ==
  /\ running
  /\ statuses < MaxStatus
  /\ statuses' = statuses + 1
  /\ sends' = Append(sends, Status)
  /\ UNCHANGED <<running, daemonVars, socketIO, wire, mainQueue, panels, writing, applied, late>>

-----------------------------------------------------------------------------
(* The write queue. *)

(* A block reads fd, and drops what it was given when there is none. *)
TakeSend ==
  /\ running
  /\ writing = NoWrite /\ sends # <<>>
  /\ sends' = Tail(sends)
  /\ writing' = IF fd = 0 THEN NoWrite ELSE [socket |-> fd, send |-> Head(sends)]
  /\ UNCHANGED <<running, daemonVars, socketIO, wire, mainQueue, panels, statuses, applied, late>>

(* The daemon takes an answer to a prompt that is open. *)
Delivered(p) ==
  LET meant == {o \in open : o.id = p.id}
  IN /\ open' = open \ meant
     /\ applied' = applied \cup {<<p, [daemon |-> serving, id |-> o.id]>> : o \in meant}

(* The write goes to the connection that has the number now: the one whose  *)
(* fd was read, or a later one.  Until there is a hello from the daemon,    *)
(* what arrives may come before the application's own.                     *)
WriteArrives ==
  /\ running /\ writing # NoWrite
  /\ fd # 0 /\ ~PeerGone
  /\ writing' = NoWrite
  /\ \/ reader = "greeting" /\ spoiled' = TRUE /\ UNCHANGED <<open, applied>>
     \/ Delivered(writing.send) /\ UNCHANGED spoiled
  /\ UNCHANGED <<running, serving, born, numbered, reader, fd, source, sockets, connected, wire,
                 mainQueue, panels, sends, statuses, late>>

(* No such number any more: closeConnection(). *)
WriteFails ==
  /\ running /\ writing # NoWrite
  /\ fd # writing.socket
  /\ writing' = NoWrite
  /\ CloseConnection
  /\ UNCHANGED <<running, daemonVars, reader, source, spoiled, sockets, wire, panels, sends,
                 statuses, applied, late>>

(* SIGPIPE: nothing in the application ignores it.  Either queue may be the *)
(* one that writes.                                                        *)
WriteKills ==
  /\ running
  /\ writing # NoWrite \/ reader = "greeting"
  /\ fd # 0 /\ PeerGone
  /\ running' = FALSE
  /\ UNCHANGED <<daemonVars, socketIO, wire, mainQueue, panels, queues, applied, late>>

-----------------------------------------------------------------------------
Quit ==
  /\ running
  /\ running' = FALSE
  /\ UNCHANGED <<daemonVars, socketIO, wire, mainQueue, panels, queues, applied, late>>

(* Another application finds nothing of the last one. *)
Reopen ==
  /\ ~running
  /\ running' = TRUE
  /\ serving' = 0 /\ born' = 0 /\ numbered' = 0 /\ open' = {}
  /\ reader' = "sleeping" /\ fd' = 0 /\ source' = 0 /\ spoiled' = FALSE /\ wire' = <<>>
  /\ sockets' = 0 /\ connected' = FALSE /\ mainQueue' = <<>> /\ panels' = {}
  /\ sends' = <<>> /\ writing' = NoWrite /\ statuses' = 0
  /\ applied' = {} /\ late' = FALSE

ReadLoop == Connect \/ Greet \/ GreetingFails \/ ReadMessage \/ ReadEnds
WriteQueue == TakeSend \/ WriteArrives \/ WriteFails \/ WriteKills

PanelNext ==
  \/ Serve \/ Perish \/ AskUser \/ \E o \in open : Expire(o)
  \/ ReadLoop
  \/ HandleMessage \/ RequestStatus \/ \E p \in panels : Click(p)
  \/ WriteQueue
  \/ Quit \/ Reopen

PanelSpec == PanelInit /\ [][PanelNext]_panelVars

-----------------------------------------------------------------------------
(* An answer reaches the daemon that asked, about the prompt on the panel   *)
(* it was given on, although all that is sent is a number each daemon gives *)
(* again - unless the main thread or the write queue was still busy with a  *)
(* lost connection when the next one was opened, a second later            *)
(* (DaemonConnection.swift:110-137, daemon/mod.rs:287-300).                *)
AnswersGoWhereShown == ~late => \A a \in applied : a[1] = a[2]

(* What the panels show is what can be answered, but for messages under way *)
(* (DecisionPanel.swift:18-75, AppDelegate.swift:79-83 and 286-300).       *)
Coming(m) == m \in ToSet(mainQueue) \/ m \in ToSet(wire)
OnItsWayBack(p) == p \in ToSet(sends) \/ writing.send = p
Asks(p) == p.daemon = serving /\ \E o \in open : o.id = p.id
PanelsMirrorOpen ==
  running /\ ~late =>
    /\ \A p \in panels :
         \/ Lost \in ToSet(mainQueue)
         \/ fd # 0 /\ source = p.daemon /\ (source = serving => Asks(p) \/ Coming(Withdrawal(p)))
    /\ \A o \in open :
         LET p == [daemon |-> serving, id |-> o.id]
         IN fd # 0 /\ o.on = fd /\ source = serving
              => p \in panels \/ Coming(Ask(p)) \/ OnItsWayBack(p)

(* An application finds the daemon that serves, whatever became of earlier  *)
(* attempts: of one spoiled by the timer, which writes before the hello, or *)
(* of a daemon that died (DaemonConnection.swift:139-235).                 *)
Reconnects ==
  running /\ serving # 0 ~> connected \/ serving = 0 \/ ~running
=============================================================================
