# mcpwall in TLA+

mcpwall is a firewall for the Model Context Protocol. A *shim* (or an HTTP
proxy, or a hook) sits between an AI agent and an MCP server and asks a local
*daemon* for a verdict on each call; the daemon evaluates `policy.yaml` and,
where the rules say so, asks a person through a menu-bar *application*. This
directory holds models of that program, checked with TLC, and proofs checked
with TLAPS. Before any of it, `init` rewrites the configuration files of the
agents' clients so that their calls come by, and `restore` undoes it.

Sources are named relative to `src/core/mcpwall/src/` unless they start with
`app/`.

## The system's parts

| Part | State | Operations | What is hard | Correct when |
|---|---|---|---|---|
| Daemon, decisions (`daemon/decide.rs`, `daemon/mod.rs`) | session overrides, pending prompts, subscriber count, prompt ids, change marks, the broadcast channel | Decide, Subscribe, Answer, Tools, end of a connection | every connection is a task; locks are taken and released between steps; a timer races the answer | an allow is earned, a grant is a person's, pending is exact, every call is answered |
| Daemon, socket (`daemon/mod.rs` serve, run) | the socket file, the listener | start, accept, stop | two daemons started together, a socket left by a dead one | at most one daemon serves, and the one that serves can be reached |
| Policy file (`daemon/policy/mod.rs`) | `policy.yaml`, the copy in memory, its mtime | load, reload, append an override | an editor, a reader and a writer with no lock between them | the rules in force are the last valid ones; no permanent decision is lost |
| Policy engine (`daemon/policy/`) | none | evaluate | first match wins; empty conditions; globs that fail to compile | overrides first, rules in order, a rule with a broken glob does not widen |
| Verdict link of the shim (`ipc/client.rs`) | connection, `degraded`, inflight reads, server name | decide, observe a response, report taint or tools | one request in flight at a time, replies paired by order, a deadline | a verdict is for the call that asked; nobody waits for ever; a lost daemon opens the gate, never hangs it |
| Relay (`transport/stdio.rs`, `transport/session.rs`) | two pumps, a child process | relay, deny, end, kill | either side may close first; the child may ignore a signal | every frame is relayed once and in order or denied; the session ends; no orphan |
| Frame splitter (`protocol/frame.rs`) | a buffer and a read position | push, next frame, finish | frames cut anywhere, too long, batched | the concatenation of what comes out is what went in |
| MCP scanner (`protocol/mcp.rs`) | none | method, tool, values of a frame | decides on bytes what a JSON parser would say | agrees with the parser, and when in doubt says so |
| Observer (`transport/observer.rs`) and scope (`protocol/scope.rs`) | roots, provenance | on frame, resolve | a scope that changes in mid-session | a permanent permission only on a warranted scope |
| Taint store (`protocol/taint.rs`) | fingerprints with a time | record, overlap, prune | expiry, a bounded store, sessions that share it | a read that is fresh and leaves is seen |
| Drift (`protocol/drift.rs`, `journal/query.rs`) | one digest per server and tool | record descriptions | two reports at once | a change is reported once |
| Journal (`journal/`) | a bounded channel, a batch, a database | log, flush, write a batch | a full channel, a failing batch, shutdown | decisions are not dropped for traffic; what is counted as written is written |
| HTTP proxy (`transport/http.rs`) | routes, one verdict link for all clients | forward, deny | concurrent requests on a link made for one | a denied request never reaches the server |
| Hook (`hook.rs`) | none | one verdict per process | exit codes | fails open, and says so |
| Setup (`setup/mod.rs`, `cli/init.rs`) | client configurations, backups, routes | plan, apply, restore | being run twice; a crash between two writes | restore gives back what was there |
| Application (`app/Sources/mcpwall/`) | supervisor, connection, panel queue | supervise, connect, show, answer | a daemon that dies at once, a prompt withdrawn while shown | a bounded restart rate; an answer goes to the prompt on screen |

## How the parts interact

```
 init, restore (Setup) -- configuration files, routes.json
                              |
 agent (MCP client) ----------+                        person
   |  stdio                   |  HTTP                    |
 shim: splitter, scanner   proxy: exchange             application: panels (PromptPanels),
   |   (FrameSplitter,        |   (HttpProxy)            |           supervisor (Supervisor)
   |    McpScanner), relay    |                          |
   |   (Session), observer    |                          |
   |   (Observer), journal    |                          |
   |   (Journal)              |                          |
   +-- verdict link (ShimLink), answers (TaintTracking, ToolDrift)
   |                          |                          |
 MCP server               MCP server      Unix socket (DaemonSocket)
                                                         |
                                    daemon: decisions and prompts (Daemon)
                                            rules (PolicyEngine), policy.yaml (PolicyFile)
                                            taint store, drift marks, journal
```

A call travels down the left: the splitter cuts it from the stream, the scanner
finds its method, the relay asks over the link, the daemon rules on it with what
it knows of earlier reads and changed tools, perhaps after a person was asked,
and the relay passes the message on or answers in the server's place. Every
arrow is asynchronous, and every model takes one arrow or one box apart while
the others are free to do whatever they can do.

## Modules

Each module's variables are the fields of the code's structures under the
code's names where TLA+ allows, plus history variables, marked as such, that
only the properties read. An action is the code between two points at which
somebody else may run: an `await`, a lock given up, a system call, a message
sent. An operator whose name ends in `Slip` is a mistake that could be made in
the operator after it; nothing uses it, and every property of a passing run is
violated when the right one of them takes its original's place.

| Module | Models | State and actions |
|---|---|---|
| `Confirmation` | what the daemon promises a caller | where each call stands, what was said of each project and tool |
| `Daemon`, `DaemonProperties` | `daemon/decide.rs`, `daemon/mod.rs` | `DecideCall`, `MatchOverride`, `OpenPrompt`, `SendPrompt`, `Elapse`, `WithdrawPrompt`, `RecordOverride`, `TakeAnswer`, `Reply` are `decide()` and `ask()` cut at their locks and awaits; `CreateReceiver`, `CountInterface`, `Forward`, `AnswerPrompt`, `HandlerEnds`, `HandlerFails` the connection of an interface; `ReportDrift` that of a shim; `Vanish` and `EditPolicy` the world |
| `DaemonSocket` | `serve()` and `run()` of `daemon/mod.rs` | a process's step from start to exit, the name in the directory, who listens |
| `Supervisor` (extends it) | `DaemonSupervisor.swift`, `AppDelegate.swift` | launch, the termination handler, the count of restarts, `stop()`, a crash of the application |
| `PromptPanels` | `DaemonConnection.swift`, `DecisionPanel.swift`, the messages in `AppDelegate.swift` | the read loop (`Connect`, `Greet`, `ReadMessage`, `ReadEnds`), the queue that writes (`TakeSend`, `WriteArrives`, `WriteFails`, `WriteKills`), the main thread (`HandleMessage`, `Click`, `RequestStatus`); daemons that come and go, each numbering its prompts from one |
| `ShimLink` | `ipc/client.rs`, the loop of `daemon/mod.rs` | the threads blocked in `decide()`, the channel, the IPC thread, the two directions of the wire, the timers of both ends, a daemon that is stuck, slow or dead |
| `Session`, `SessionProperties` | `transport/session.rs`, `transport/stdio.rs`, `cli/wrap.rs`, the end of `cli/mod.rs` | two pumps on one thread, four pipes that fill up, the channel of block responses, the stages of a shutdown |
| `Journal` | `journal/mod.rs`, `journal/writer.rs`, `transport/observer.rs`, the end of `cli/wrap.rs` | the two channels, the batch, the writer (`TakeDecision`, `TakeVolume`, `LingerOver`), the tables, a statement that fails |
| `PolicyEngine` | `Policy::evaluate`, the shipped policy | no state |
| `PolicyFile` (extends it) | `load_or_create`, `load`, `reload_if_changed`, `append_override` | the file, its time, the copy in memory, the stages of a load, of an append and of a save by the user |
| `TaintTracking` | `note_if_local_read`, `observe_response`, the hook's report, `protocol/taint.rs` | reads in flight on each link, the connections, the store with its times, what the agent holds |
| `ToolDrift` | `observe_response`, `record_descriptions`, the marks | what each session was shown, the database, the marks in memory, the handlers |
| `FrameSplitter` | `protocol/frame.rs` | the buffer with its two indices; `Push` a read, `TakeLine` and `WaitForMore` the rounds of `next_frame`, `Finish` |
| `McpScanner` | `scan_method`, `scan_within`, `read_string` of `protocol/mcp.rs` | the position, the depth and the pass; one byte or one string a step |
| `Observer` | `transport/observer.rs`, `protocol/scope.rs`, the connection in `cli/wrap.rs` | the links of the scope, the session's row; the requests and responses of both sides |
| `HttpProxy` | `transport/http.rs` | one exchange: `Arrive`, `HandleFails`, `Judge`, `Forwarded`, `RelayChunk`, the buffer of `observe_stream` |
| `Setup` | `setup/mod.rs`, `cli/init.rs`, the start of `cli/proxy.rs` | files, backups, routes, the table the proxy has; `InitReads`, `BackUp`, `WriteConfig`, `WriteRoutes`, `RestoreReads`, `RestoreFile` cut at every write, `IsCut`, `EditConfig` |
| `MCDaemon`, `MCTaintTracking` | instances of `Daemon` and `TaintTracking` for TLC | |
| `MCDaemonClients` | `Supervisor`, `PromptPanels`, `ShimLink` for TLC | parts that share no state: a behaviour is one of any, chosen at the start |
| `MCShim` | `Session`, `Journal`, `FrameSplitter`, `McpScanner`, `HttpProxy`, `Observer` for TLC | likewise |
| `MCDisk` | `PolicyFile`, `ToolDrift`, `Setup` for TLC | likewise |
| `ApplicationProofs`, `DaemonProofs`, `DaemonFilesProofs`, `ParsingProofs`, `SessionProofs`, `SetupProofs`, `ShimLinkProofs`, `TaintTrackingProofs` | the theorems, by component | |

### Abstractions

* **Daemon.** A call's content is the class of arguments the rules tell apart,
  and the rules are any function of that class and of whether the tool has
  changed. `policy.yaml` is read and written in one step here; `PolicyFile`
  takes that step apart. Timers fire at any time after they are set.
* **Supervisor.** The delay before a restart has no length: a timer only fires
  later. "A minute of running" is an event that may happen to a daemon that
  serves.
* **ShimLink.** Time is a `Tick` counted by every running timer. Work that takes
  no time comes before it, a line takes at most `Transit` to be read, and
  `2 * Transit < Margin`: the thirty seconds of `TIMEOUT_MARGIN` are longer than
  the way there and back. Which call a verdict is about is a history variable;
  the reply itself carries nothing of the kind.
* **Session.** A message is whole, as `FrameSplitter` cuts it; the last of an output
  that ended may lack its newline (`DownFinish`). The client may close its end of
  stdout at any time (`ClientHangsUp`), and the server its stdin or its stdout while
  it lives (`ServerShuts`): a write to a closed end fails and ends the pump that
  made it, with what it had in hand (`UpFails`, `DownFails`, `DownBreaks`), and the
  end of stdout ends the other one (`DownEof`). A pump reads as long as the pipe
  can be read; reads that fail are left out, and so are children of the server's
  own that hold its stdout open after it. What the client has not read when it
  hangs up stays in its pipe, which nobody reads any more.
* **PromptPanels.** A prompt is the daemon that asks and its number; only the
  number crosses the socket. A connection that is read is subscribed. What a
  write to a connection the daemon has closed does is
  what the system does: it raises SIGPIPE, which the application does not ignore.
* **Journal.** An entry is its number and whether it is a decision; the row of
  the session is how often it was added to. A statement fails, at most
  `MaxFailures` times, at any point, as one does that finds the database busy.
* **PolicyFile.** A write is a truncation followed by all of the content, but for
  that of the shipped policy by a daemon that finds none (`Start`), which is one
  step: a crash inside that one, which leaves an empty file that the next start
  refuses, is left out. A read
  is atomic; no two writes have one modification time. What the user saves is
  one of a few editions or a text that does not parse. Globs, paths and values
  are the conditions a request meets.
* **TaintTracking.** What is read stands for its fingerprints; the comparison is
  of all or nothing, and every content is long enough to have one. A client has
  one call at a time awaiting its verdict and any number awaiting their answer.
  A link's failure is left to `ShimLink`.
* **FrameSplitter.** A byte is a newline, a carriage return or another one. A
  read returns at least one byte and at most `MaxRead`.
* **McpScanner.** A byte is a character; the letter `m` stands for the word
  `method`, which the code compares as a whole. What the scan should find is
  defined on positions of the frame, by what each byte leaves open.
* **Observer.** What `roots/list` answers is a set of uris, and which paths they
  name is a function of the instance, of which several uris may share a value
  and some have none. A frame of the client's that cannot be scanned is looked into
  by the code and is no frame here: it does not parse, so nothing comes of it. Each side uses an identifier once, as the protocol asks.
* **HttpProxy.** A token stands for `data: `; a message is a name in braces with
  blanks anywhere, and a fragment of one is no JSON. What is offered is parsed
  later, by the observer. What should be offered is defined on positions of the
  body and on how much of it went by, so that no chunk comes into it.
* **Setup.** A file is a set of entries: a server started by a command, one at a
  url, or another url or setting. An edit is one server or setting added,
  changed or taken out, of a file that can be read. A write that is cut leaves
  the file unreadable or empty.
* **ToolDrift.** A digest is the version it is of, and a server has one tool.

## What the runs check

| Run | Question | Shows |
|---|---|---|
| `daemon_same_project` | two callers of one project, one of them of weak provenance, one tool, one screen, two prompts | `AllowIsEarned`, `GrantsAreTheUsers`, `ForeverNeedsTrust`: nothing passes, is remembered or is written that a person did not grant; `ImplementsConfirmation`: the daemon refines `Confirmation` |
| `daemon_two_screens` | one caller, two screens that come, go, fail and fall behind (the channel holds one message) | `CountedIsListening`, `PanelsFollowPending`; `EveryCallAnswered` under fairness |
| `daemon_clients` | the application's supervisor: two processes at a time, three restarts, failures anywhere | `ServingIsReachable`, `NoneOutlives` until the application first crashes; `ExitIsRepaired` under fairness |
| | its connection: two daemons one after the other, a prompt of each, two requests of the timer | `AnswersGoWhereShown`: an answer is to the prompt it was given on; `PanelsMirrorOpen`: panels are what can be answered; `Reconnects` under fairness |
| | two callers on one link, two values of `ask_timeout`, a report | `VerdictMatches`, `GivenUpForCause`, `ReportsComeFirst`; `DeathReleases` under fairness |
| `shim` | the relay: two messages of the client or notifications of the server, pipes of one message, every end closed at any time | `UpwardIsFaithful`, `DownwardIsFaithful`, `DenialsAreTold`; `NoOrphan`, `CloseIsSeen`, `ShimEnds` under fairness |
| | the journal: four entries, a handshake, one failure | `EntriesAreAccounted`: what a flush that returned has written, and that `dropped()` is exact; `EntriesAreWritten` under fairness |
| | the splitter: every stream of seven bytes in every cut, a ceiling of two | `CutIsOfTheStream`: the frames, errors and counters are those of the lines of the stream; `ResidualIsBounded` |
| | the scanner: 72 frames and every prefix of theirs, through twelve windows | `MethodIsOfTheFrame`: what it finds is what the frame's strings and punctuation say |
| | one exchange of the proxy: fourteen bodies in every cut | `HeardIsSaid`: what is observed is what the server said, each line of it once and in order, and nothing else |
| | the observer: three roots, of which two are one directory; three identifiers, seven frames | `SessionNamesItsServer` |
| `disk` | the policy: two permanent answers, one save, one crash | `NotStale`, `NothingOverwritten`, `TaintNeverLeavesSilently` |
| | the tools: three sessions of one server, three versions, four lists, two calls, one crash | `OneAlarmPerChange`, `ChangeIsFlagged` |
| | the set-up: a global file, a project's and the hook's, two edits, one command cut short, any number of `init` and `restore` up to two backups of a file | `NothingIsLost`, `RestoreUndoes`, `RoutedToItsServer` |
| `taint` | two sessions, on a link each or on one; two files, three calls, one request of a server's, one hook, a clock of two instants | `TaintIsReal`, `LeakIsSeen` |
| `supervisor_two` | finding | `OneServes` is violated after a crash of the application |
| `link_queued` | finding | `AskNeverDecays` is violated when two callers share a link |
| `session_upstream_dies` | finding | `ServerDeathEndsShim` is violated |
| `http_no_id` | finding | `DeniedIsDropped` is violated |
| `observer_roots` | finding | `ScopeRises` is violated |
| `setup_routes` | finding | `ProxyKnowsTheRoutes` is violated |

Several properties hold but for causes they name; each cause was taken out in
turn, and TLC then finds the property violated. They are the places where the
code does less than one might think:

* `NotStale`: a save between the read of the text and that of its modification
  time stays unread until the next save (`daemon/policy/mod.rs:94-96`).
* `NothingOverwritten`: writers that overlap lose one of the two changes, and a
  crash inside a write leaves an empty file.
* `TaintNeverLeavesSilently`: three of the shipped rules that ask come before
  the one that denies, and hide it.
* `GivenUpForCause`: a longer `ask_timeout` reloaded during a session is not
  known to the shims already connected.
* `PanelsFollowPending`: a prompt answered on one screen stays on the others.
* `CloseIsSeen`, `ShimEnds`: a pump stuck in a write to a peer
  that does not read.
* `DownwardIsFaithful`, `DenialsAreTold`: once a write to the client failed, what
  the server wrote and the block responses not yet written are dropped with the
  pump. And a call may be denied when that pump takes no more responses: nothing
  tells the client. The comment at the send has it that then "the session is
  closing, there is nobody left to read the response" (`stdio.rs:281-283`), which
  is so when the client hung up, but not when a server that lives has closed its
  stdout, nor quite when it has ended and one more call comes in (`unheard`).
* `AnswersGoWhereShown`, `PanelsMirrorOpen`: the main thread or the queue that
  writes still busy with a lost connection when the next one is opened, a
  second later: an answer may then be taken for one to the next daemon's prompt
  of that number. The variable `late` notes it; it is set by nothing else.
* `EntriesAreAccounted`: entries that are no decisions may still be in their channel
  when `flush()` returns, although it is described as waiting for everything
  submitted (`journal/mod.rs:176-182`), since it travels on the other channel.
  A transaction that fails takes what it held with it, decisions too, and
  `dropped()` does not count it (`writer.rs:106`); the insert of the session's
  row is one of them, and every later batch then breaks the foreign key.
* `LeakIsSeen`: an identifier taken by a request of the server's own (where
  `ipc/client.rs:429` has "only responses" in mind) or by another client of the
  proxy; the table of reads in flight dropped whole, the newest with the oldest;
  a hook that gave up its report; a report on its way on another connection.
* `ChangeIsFlagged`: a report whose transaction failed, a mark lost with its
  daemon, consumed by a session that has another version in view, or not set yet.
* `HeardIsSaid`: a response over the ceiling, whose buffer is thrown away with
  what it still held (`overran`); and a body that has both a plain message, at its
  beginning or after a blank line, and a blank line or a second message, of which
  what is offered does depend on the chunks. A message on several `data:` lines is
  offered line by line, as the property has it; a blank line is two endings of one
  kind, as in `find_event_end`, and what stands before `\n\r\n` is not complete.
* `NothingIsLost`, `RestoreUndoes`: `apply` writes what it planned from what it
  read before, over an edit made meanwhile; `restore` puts back the backup over
  what was edited since; a backup is named by the second, and one of the same
  second is written over; a backup that was cut is the latest all the same; and
  once a server was added to a file already set up, the next `init` backs up a
  file with mcpwall in it, which is what `restore` then gives back although
  `setup/mod.rs:8` has it that the backup is the file as it was.
* `RoutedToItsServer`: routes are written last, of what a run replaced: those of a
  run cut before that are not made up for by the next one, which finds the urls
  already replaced; and the table is by name alone, which two files may share, or
  a file and the backup that a restore puts in place of another.

### Bounds, and why they are enough

Every bound is a constant of the module whose name starts with `Max`, or is
explained here. Two callers, answers, sessions or processes are enough for every
interleaving of two; the code relates no three of them, except that a mark can
be set by one session, taken by a second and missed by a third, which is why
there are three sessions with one tool. `MaxMessages = 2` is of both peers together: two
messages of one have an order to be kept, a call and a notification meet on the
stream to the client, and the answers come on top. `Capacity = 1` and `PipeCap = 1` make full queues the common
case; `MaxInflight = 2` does so for the table of 256 entries, `MaxIds = 2` for
identifiers that coincide, and `TTL = 1` for what expires. `MaxRestarts = 3`
stands for 10, so that giving up is reached. `MaxSockets` is more than two
daemons and two spoiled greetings can use up, and never reached.
`VolumeCapacity = 1` and `BatchMax = 2` stand for 4096 and 256: both a full
channel and a batch that stays short happen. In `daemon_same_project` two prompts
are one for each caller, or two of one; the theorems below have no bound.

`MaxFrameBytes = 2` makes lines under, at and over the ceiling; `CompactThreshold
= 2` stands for 65536, so that the buffer is compacted in the middle, at its end
and not at all; a read of five bytes can end a long line, hold a whole one and
begin a third, and seven bytes allow two such reads. A window of the scanner ends
at every byte of its frames, the longest of which is longer than the longest
window, and the members of a frame are the ways in which the word may stand where
it is not the key: nested, as a value, in an escape, and twice. `MaxHeld = 8` is
longer than any event and shorter than one of the bodies. Seven frames are two
handshakes, one of which failed, with a round of roots in between. Two edits are
one before a set-up and one after, to each of two settings of the hook's file or to
a server; one run cut short is enough for what the next
finds; a third backup of a file would only repeat the second. Symmetry is used
where it is cheaper than what it saves, over files in `taint` and over versions
in `disk`.

`CHECK_DEADLOCK FALSE` is set where a system stops by design: callers with a
bounded number of calls, a session that has ended, a stream at its bound, a
daemon that cannot read its policy.

### Fairness

`MCDaemonClients` and `MCShim` state the fairness of their parts as the parts'
own specifications do, each for the behaviours that are of that part. Scanner,
splitter, observer, proxy and set-up have safety properties only: each of their
steps is another's read or write, and nobody owes it.

* `Daemon`: the tokio executor runs every task that is ready: weak fairness of
  each caller's steps, the timer of its prompt among them, and of each
  forwarder. Nobody is obliged to answer, to connect or to leave.
* `Supervisor`: a running daemon takes its next step, and the serial queue runs
  what is on it. Nothing is asked of the user.
* `PromptPanels`: the read loop runs. The other queues may be stuck.
* `Journal`: the writer runs when the thread is free, and a verdict has a limit.
* `ShimLink`: the threads of the shim run. Nothing is asked of the daemon.
* `Session`: weak fairness of each task of the runtime, the two pumps (`Upward`,
  `Downward`) and `session::run` with its timers (`Main`); `decide()` returns, since
  its wait has a limit. Nothing is asked of client or server.

## Findings

1. **Two daemons can serve** (`supervisor_two`). `run()` removes the socket file
   on every way out, also after giving up because another daemon answered.
2. **An ask can become an allow by the clock** (`link_queued`). The shim's limit
   runs while a request waits behind another's prompt on a shared link.
3. **The shim stays when its server has died** (`session_upstream_dies`). The
   runtime is dropped before `exit()` and waits for the read of stdin.
4. **A denied call without an identifier is forwarded** (`http_no_id`). The proxy
   takes "there is no refusal to send" for "allowed" (`transport/http.rs:301`),
   where the relay of stdio drops the call and `mcp.rs:397-399` says so.
5. **The roots of a session are never observed** (`observer_roots`). They are in a
   response of the client's, and only those of the server are looked into
   (`transport/observer.rs:161`): a scope never rises to "roots".
6. **A running proxy does not know new routes** (`setup_routes`). The table is
   read when the proxy starts, and the application starts it before set-up.

Met while modelling, and not stated by a run, since no line of the repository
promises otherwise of the program as a whole or since the cause is a single line:

* A tool that changed is let through without being asked about when the session
  has an override for it: `decide()` consults overrides before what the rules
  made of the change, and has consumed the mark by then (`README.md:55` of the
  repository promises an ask).
* `DaemonConnection.swift:288-289` says that `SO_NOSIGPIPE` is set; it is not, and
  a write to a daemon that died ends the application (`WriteKills`).
* `writer_loop` never ends by itself: its ticker keeps the `select!` from its
  `else`, so that the code after the loop (`writer.rs:67`) is never reached and
  the end of every session waits its full two seconds (`GraceOver`).
* The connection of the application is published before its hello is written: a
  status the timer asks for may come first, and the daemon then drops the
  connection (`spoiled`). `Reconnects` shows that the application recovers.

## What is proved

TLAPS proves, for every value of the constants that meets the modules' named
assumptions, and with no bound on what the runs bound:

* `DaemonProofs`. `CallInv` strengthens `TypeOK`: ids below `nextId` are the only
  ones in use, a call that holds a prompt holds one of its own with its own
  project and tool in it, and `pending` has only held prompts. From it
  `TypeCorrect`, `PromptsAreOwned` and `PendingIsExact`. `ConsentInv` adds the
  three statements about consent; they are inductive together, because an allow
  by an override rests on `GrantsAreTheUsers`, one by the written policy on
  `ForeverNeedsTrust`, and each rests on fates being settled for good
  (`SettledForGood`). From it `MemoryIsConsent`, `PermanentIsWarranted`,
  `AllowedByConsent`. The lemmas about `Remembered` say that whatever is found
  was recorded. `KeepsItsPromise` is the refinement of `Confirmation`: every step
  is mapped to a step of a promise or to none; `RememberedPushed` says that a
  decision recorded last changes what is remembered only where nothing was.
  `ScreenInv` says of each interface where the prompts it shows and is about to
  be shown stand: what comes out of its queue can be answered, or its withdrawal
  is further back in the same queue; a prompt not yet sent is on no screen; and
  who has stopped hearing lags. From it `CountedListen` and `PanelsAreLive`.
* `ApplicationProofs`, of `Supervisor`: `Inv` says that the application's child is the
  only process running, that the name in the directory and the listeners follow
  its step, and which states of the application have a child at all; it is
  inductive as long as no application crashed. `CInv` carries types over a crash.
  From them `TypeCorrect`, `Reachable`, `NobodyLeft`, and `NotBlocked`, an action
  property: what a dead daemon left behind never keeps the next one from binding.
  Of `PromptPanels`: `PanelInv` follows every prompt of the daemon at the other
  end. As long as nothing was late (`late`), a prompt is in one place only, coming,
  shown, answered or answering; what is shown can be answered or its withdrawal
  is further back in the same stream; and the loss of a connection is the last
  thing the main thread is told of it. From it `AnswersReachWhoAsked` and
  `PanelsMirror`.
* `ShimLinkProofs`. Replies carry no identifier, so that a verdict goes to its own
  call rests on there never being two requests under way: `OneUnderWay` says that
  of the line out, the daemon's question and the line back at most one is
  occupied, by the call the IPC thread wrote last, and none when it is idle. From
  it `Paired`. `OrderInv` takes the wire and the channel as one pipe and says that
  a function counting the reports along it exists, with which what is recorded and
  what is in front of a call make up what had been reported when it was made
  (`Balance`). From it `ReportsAreAhead`, an action property. `PatienceInv` relates
  the timers: while nothing failed, `ask_timeout` was not raised and no two callers
  overlapped, what the reader has waited is no more than the line's way there, the
  person's time to answer and the way back (`InTime`), which `Margin` exceeds by
  `2 * Transit < Margin`. From it `GivenUpIsExplained`.
* `DaemonFilesProofs`, of `ToolDrift`: `CallIsLast`, part of `TypeOK`: a client that
  awaits a verdict has sent nothing after its call, so that what the daemon reads
  next from it is its reports in order and then the call. `TypeCorrect` is the type
  invariant with it. `AlarmsAreChanges` balances what was raised against what
  changed: the alarms raised, the mark if it is set, and the handlers between
  their transaction and their mark never outnumber the changes recorded
  (`Marking` counts the last over the finite set of sessions). `FlagInv` says that
  what the database holds, and what a client was shown and has reported, was
  reviewed, escaped, or is marked or about to be. From it `ChangesAreFlagged`, an
  action property.
  Of `PolicyFile`: `Loading`: the modification time that made a load begin, then
  that of the text, then the file's go forward, and a text of the file's time is
  the file. From it `InForceIsTheFiles`. `KeptInv`: as long as nothing overlapped,
  whoever builds on what the file is now has in its draft everything there is to
  keep (`DraftsAreComplete`), since every write makes the other drafts out of date
  (`WriteKeeps`). From it `NothingIsOverwritten`. `LeaksAreStopped` evaluates the
  shipped rules for any request. These are why `PolicyFile` assumes that the three
  contents which cannot be read are no policies.
* `TaintTrackingProofs`. `TaintInv`: a client numbers its own calls; a note of a read
  in flight is of a call that somebody on the link made, and is there unless it was
  taken or dropped (`Noted`); what is reported came in answer to a read; and what
  the agent was given is recorded, about to be, or too old (`HeldIsKnown`). From it
  `StoreIsReal`: nothing is held against a file that was not read; and, since a
  client that awaits a verdict has sent nothing after its call, `LeaksAreSeen`, an
  action property.
* `SessionProofs`, of `Session`: `SessionInv` adds to types what each end holds:
  `InOrder`, the pipe from the client has the last messages sent, the pump the one
  before, and all that was denied came before that; `Open`, the channel of block
  responses has a reader unless a write to a client that hung up failed or the
  output of the server is over, and it is empty once the reader is gone. From it `RelayedFaithfully`: what
  the server is given is exactly what was taken and not denied, in order and once;
  and `DenialsAnswered`: a denial that was sent is written or still to be, unless a
  write to the client failed. Reading moves a message from one sequence to another
  without changing what they make together (`MovedOver`), and what is written
  downwards is followed as a set (`WrittenIs`). `RelayInv` counts the relayed
  messages up to each position of what was written (`Relayed`): the k-th relayed
  message is the k-th the server emitted, and what is left is still in the pipe;
  `Emptied`, that a pump which returned without an error left nothing, there or in
  the channel. From it `PassedOnFaithfully`.
  Of `Journal`: `JournalInv` accounts for every entry logged: it is in a channel, in
  the batch, in the table or was reported lost, and those that are nowhere are as
  many as `dropped` counts; decisions are never among them; the flush is the last
  thing the writer is told; and while no write failed the table has the session's
  row as it was updated last. From it `EntriesAreTraced`.
* `ParsingProofs`, of `Observer`: `KeptIsOfHandshake`: the identifier that is kept is
  that of the handshake under way or of one that is over, and of no other request
  without a response; an identifier is not used again by who numbers with it. From
  it `ServerIsNamed`.
  Of `FrameSplitter`: `SplitterInv`: the two indices are in order and inside the
  buffer, what was searched has no newline, and what is left is no more than the
  ceiling. From it `MemoryIsBounded` and `OneLineEach`. `CutInv`: what is held is the
  end of the stream (`Held`), and what was surfaced and counted is the cut of what
  lies before it, or, of a line that is being dropped, the error and the counters as
  if the line ended there (`SoFar`). That a run of bytes without a newline only
  lengthens the line in progress is an induction over its length, which
  `Induction` has of the well-foundedness of `<` on the naturals, for a set
  instead of a predicate; that the function which cuts a stream exists is another.
  From it `StreamIsCut`, which is `CutIsOfTheStream`.
  Of `McpScanner`: `ScanInv`: the window ends inside the frame; where the scan stands
  the frame reads as its state says, the root object open at `depth` and no string
  (`Scanned`); and a method key it went past has its colon beyond the window, with
  only spaces in between. That `ClosingQuote` finds the end of a string, by an
  induction over what is left of the frame, is what lets the scan go over a string
  in one step. From it `MethodIsFound`: what is said of a frame through a window is
  what the positions of its own strings, brackets and colons say.
  Of `HttpProxy`: `HeardInv`. What two parts of a response say, if they meet between
  two lines, is what they say together (`SplitBetweenLines`), and of what is looked at
  the events are taken up to a blank line after which there is none (`EventsAre`);
  both are inductions over the bytes. The invariant says that up to the last blank
  line that went by everything was offered, and that what is kept is exactly what
  followed. A third induction (`SplittingTells`) has it that what is split off of a
  body is, byte by byte, the texts of the lines it is made of, and `SaidIsOffered`
  that those are the lines with a blank line after them, because none that begins
  in what is kept can be complete. Of a plain body, a message uses up the three
  bytes that are not blank, so that nothing after it is a message (`PlainIsOne`).
  From it `ResponseIsHeard`, which is `HeardIsSaid`.
  And `DeniedIsNotForwarded`: what the run `http_no_id` finds is of calls without an
  identifier only.
* `SetupProofs`. `SetupInv` follows the command between its writes. `Planning`: what
  it read of a file is what the file still holds, unless somebody wrote it since,
  and a file is "planned" only until its backup is there. `Nowhere`: the user's
  entries are in the file or its backups, and in the backups alone once one was
  made of what the user wrote, so that the write that follows may be cut anywhere.
  `Undo`: that backup is the last, and is what the user wrote or was itself cut.
  `Routes`: during a run a url that leads to the proxy, and one that is about to,
  has its target in the table to be written; between runs, in the one on disk.
  `After` and an edit change what a content has of the user's exactly as much as
  they should (`AfterIs`, `EditedIs`). From it `TheirsIsKept`, `UrlsAreRouted`, and
  `RestoreGivesBack`, an action property.

  Two of the three were narrower than they read before they were proved, and
  larger bounds showed where: a settings file that was emptied by a cut, set up
  and edited has what the user declared partly in itself and partly in a backup,
  so that `NothingIsLost` is of each entry and not of one content that has them
  all; and a backup made of a file already set up brings a url that leads to the
  proxy back after its name was given to another server, which `RoutedToItsServer`
  now counts among the names that several servers share.

Assumptions: each module's `ASSUME`s, all evaluated by TLC in the runs, say
that the constants have the types they are meant to have and that the empty
values are none of the real ones. `TimersAssumption` of `ShimLink` keeps callers
apart from the names of the other timers, and `SetupAssumption` has the hook's
file hold settings and no servers, as `plan_hook` takes it.

Only model-checked: everything about fairness, since liveness is outside what the
prover does here (`EveryCallAnswered`, `ExitIsRepaired`, `Reconnects`,
`DeathReleases`, `NoOrphan`, `CloseIsSeen`, `ShimEnds`, `EntriesAreWritten`). Every
invariant and every action property of a passing run is proved.

`HeardIsSaid` was narrower before it was proved: it compared the names in what was
offered with those in the lines of the body, which is false of a data line that
holds no message, and it gave up on a message on several lines. It is now of every
line of every body.

## What is not modelled

* The command line (`main.rs`, `cli/mod.rs` but for its end), and queries that only
  read the journal. The shapes of the hook's payloads and its answers, which are
  a table from one to the other without state.
* Globs, the extraction of paths and values, the recognition of secrets
  (`daemon/policy/`), and how a text becomes fingerprints (`protocol/taint.rs`):
  functions of text, of which the models take the result as an input.
* The table of methods and their dispositions (`protocol/mcp.rs`), as `Session`
  takes it as an input too; HTTP headers and how a path is joined to an upstream.
* What a journal entry says; the permissions of files and sockets; the diff that
  `init` shows, the address the user may have moved the proxy to; the
  application's views.

## Plan

The order was that of importance: first the part that holds the decisions, then
the paths by which a verdict reaches the call it is about, then what the daemon
knows when it rules, then the pure algorithms.

Done: `Daemon` with `Confirmation`, `DaemonSocket` and `Supervisor`, `ShimLink`,
`Session`, `PolicyEngine` and `PolicyFile`, `TaintTracking`, `ToolDrift`,
`PromptPanels`, `Journal`, `FrameSplitter`, `McpScanner`, `HttpProxy`, `Observer`,
`Setup`; the proofs above.

To do: the fail-open returns of the hook, and the classification of its tools,
should they come to have state.
