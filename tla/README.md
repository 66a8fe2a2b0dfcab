# yolo in TLA+

A verification development for `yolo`, a terminal client and core server for
coding agents written in Go. It holds TLA+ models of the server's concurrent
core, of what server and command line keep on disk, and of the two clients
(`yolo run` and the interface); TLC configurations that check them on small
instances; and proofs that TLAPS checks for every instance. Paths below are
relative to `src/`.

## The system

One process holds an HTTP server, the session engine and a database; clients
(the interface, `yolo run`) talk to it over REST and one server-sent-event
stream. The interface may run its server in its own process.

| part | source | state | operations | what is hard about it |
|---|---|---|---|---|
| permission service | `internal/permission` | `pending` map under a mutex, one-slot channel per entry, `permission` rows | Ask (blocks a tool call), Reply (with the sweeps `autoAllow`, `cascade`), abort of the asking turn | replies, sweeps and aborts race over one entry; row, event and delivery are separate steps that may fail |
| turn lifecycle | `internal/session/engine.go`, `title.go` | `busy`, `turnDone`, `deleted`, `titleCtx` under `Engine.mu`; one goroutine per turn and per title | Send, runTurn, publish, Abort, WaitIdle, Close, Shutdown, title side-call | two Sends, a Send and a DELETE, an abort and the next turn; check-then-publish; what Shutdown waits for |
| rounds and tools | `internal/session/round.go`, `tool_exec.go`, `policy.go` | part states, tool budget, doom history, in-memory history, message and part rows | one request per round, retries with backoff, deltas, tool calls behind three permission gates | an abort between any two steps; failing statements; parts left running; what a reload shows |
| shell commands | `internal/session/shell.go`, `internal/tool/shell.go`, `bash.go` | one persistent bash per session behind `Shell.mu`; `shellAbort`, `shells` of the engine | POST shell, the bash tool, timeout, kill by Close and Shutdown | marker lines, background jobs, a killed bash whose output is still read, one cancel for several commands |
| prompts, history | `internal/session/history.go`, `prompt.go` | none | message mapping | pairing of tool calls and results after cancelled rounds |
| LLM drivers | `internal/llm` | accumulators of one stream | frames to parts, requests | fragments of several calls, early ends, cancelled streams that look finished |
| bus, SSE, client stream | `internal/bus`, `internal/server/sse.go`, `internal/client/event.go` | bounded subscriber channels | publish, subscribe, reconnect, resync ping | lost events: before subscribing, on overflow, while reconnecting |
| HTTP server | `internal/server` | boot-lifetime copy of the keys, patch locks | handlers around engine, permission service, files and storage | the order of their steps |
| storage | `internal/storage` | SQLite | DAOs, migrations | order of rows, upserts, a boot killed between migrations, two boots at once |
| tools | `internal/tool` | the files of the project; locks of `edit` | edit, write, read, ... | two sessions or processes on one file; a lock per name, in one process |
| `yolo run` | `cmd/yolo/run.go` | event loop | send, answer asks, leave on idle | idle missed before subscribing or while reconnecting |
| interface | `internal/tui` | store, routes, dialogs, permission queue, prompt, session picker, key bindings | single-threaded update loop; commands answered later | answers that race events, keys and one another |
| configuration, profiles, credentials | `internal/config`, `internal/auth` | files | read-modify-write, active marker | a torn file, two processes, a patch between another's read and write |
| providers | `internal/provider` | registry, cached catalogue | gather at start, refresh, list | outages, useless answers, a list that differs from what a turn resolves |
| process | `cmd/yolo/main.go`, `internal/log`, `internal/tui/theme/kv.go` | data directory: database, log, key-value file | boot, drain, forced exit | kills at any step, a writer goroutine that is closed, files that cannot be written, renamed or opened |

Interactions: a handler calls `Engine.Send`, which claims the session and
spawns the turn; the turn's rounds map the history, stream from a driver, call
tools, and block in `permission.Service.Ask`; every change is stored and then
published on the bus; clients answer asks with POST reply, abort, rename or
delete sessions, patch the configuration; the interface folds the events into
its store and asks again for everything after a broken stream; `main` calls
`Engine.Shutdown` before it stops the listener.

`PROJECT.json` lists each component with its status and each hazard of this
code at its line, with the properties that watch it.

## Modules

| module | models | composed with |
|---|---|---|
| `Permission` | the permission service | refines `PermissionContract` |
| `PermissionContract` | what Ask promises its callers, without map, lock, table or bus | |
| `PermissionProofs` | TLAPS proofs about `Permission` | extends it |
| `Engine` | turn lifecycle, with the handlers for send, abort, DELETE, rename, and Shutdown | a round is a stream of events that ends in one of its ways |
| `EngineProofs` | TLAPS proofs about `Engine` | extends it |
| `Round` | the rounds of one turn: streaming, retries, tool gates, parts in the store and on the wire | an ask is an answer of `Permission`; a stream is what `Driver` sends |
| `RoundProofs` | TLAPS proofs about `Round` | extends it |
| `EventStream` | bus subscriber, `GET /event`, the client's reader with its reconnects | a component: who extends it publishes and consumes |
| `RunCommand` | `yolo run` from its send to its exit code | extends `EventStream`; a turn is what `Engine` leaves of it for a client |
| `RunCommandProofs` | TLAPS proofs about `RunCommand` | extends it |
| `ShellSessions` | the shell of a session: user commands, bash calls, bash itself, Close and Shutdown | |
| `LiveProofs` | TLAPS proofs about `ShellSessions` and `TuiApp` | extends both |
| `Driver` | one streamed completion in either wire format | |
| `Request` | stored history to messages to the two wire formats | histories are those `Round` can leave |
| `ModelProofs` | TLAPS proofs about `Driver` and `Request` | extends `ModelParts` |
| `FileTools` | `edit` and `write` calls on shared files | |
| `DataDir` | boots, migrations, log rotation, key-value file, drain, with kills | |
| `DataDirProofs` | TLAPS proofs about the modules of `ServerParts` | extends it |
| `Profiles` | the profile directory under several processes that may die | |
| `Settings` | configuration layers under concurrent patches; auth.json | |
| `Catalogue` | the providers a server gathers and lists | |
| `TuiApp` | the update loop of the interface: routes, events, late answers, asks, dialogs, outages | messages are `StoreFold`'s |
| `StoreFold` | the fold of message events and listings into the store, with its index and shadow text | refines `Transcript` |
| `Transcript` | what the store promises of the messages it shows | |
| `Prompt` | input line, slash menu, mention picker, history, sends | |
| `SessionPicker` | the select dialog over the sessions, with its delete key | |
| `Keymap` | key bindings and the leader | |
| `TuiProofs` | TLAPS proofs about `StoreFold` and the modules of `ClientParts` | extends both |
| `ServerParts` | what is on disk: `DataDir`, and instances of `Profiles`, `FileTools`, `Catalogue` and `Settings`, with the assumptions on their constants | extends the first |
| `ModelParts` | instances of `Driver` and `Request`, with the assumption on the frames | |
| `ClientParts` | instances of `Prompt`, `SessionPicker` and `Keymap`, with the assumptions on their constants | |
| `MCPermission`, `MCEngine`, `MCRound`, `MCRunCommand` | instances for TLC | one module each |
| `MCLive` | `ShellSessions` and `TuiApp` | each behaviour is one of them |
| `MCData` | `ServerParts`, `ModelParts`, `StoreFold` and `ClientParts`: eleven modules whose questions are about safety alone | each behaviour is one of them |

`MCLive` and `MCData` do not compose: their modules share no state. The
variable `part`, chosen in `Init`, says which of them a behaviour exercises;
the others stand still in one initial state. The `...Parts` modules give the
instances and their properties one name each, for the run and for the proofs:
what `Data` checks and what `DataDirProofs`, `ModelProofs` and `TuiProofs`
state is the same definition, and TLC evaluates the `ASSUME`s the proofs rest
on. The configurations that ask one question set `Parts` to the part it is
about.

### How they correspond to the code

*Atomicity.* Each critical section of a Go mutex is one action, and so is each
database statement, each publish and each file operation (`os.WriteFile` is
two: it truncates, then writes); whatever the code does between two of them
touches only the goroutine's locals and is folded into the next action. The
interface's loop handles one message at a time: one message is one action.

*Permission.* A request is a goroutine in Ask (`pc`); its branch order is
`Decide` (rules, then the session's always rules), `PersistDecided` for a
decisive verdict, or `Register`, `PersistPending` (or its rollback
`PersistPendingFails`), `PublishAsked`, and then the select: `Receive` or
`CtxDone`. A replier is a goroutine in Reply: `ReplyLookup`, its resolve,
`Snapshot`, one resolve per swept entry (`Sweep`), `ReplyReturn`. `resolve`
is shared by all three callers as a `job` of its process: `Claim`, `Store`,
`Publish`, `Deliver`. Rule lists are abstracted to a verdict per resource.
`said` and `owed` are history variables.

*Engine.* `busy[s]` stands for the maps `busy` and `turnDone`, which the code
writes together. A publish is two steps, the suppression check (`Offer`) and
the bus (`Emit`), because the code releases the lock between them. The 2 s and
5 s bounds of the abort handler, `settleAndClose` and Shutdown may expire at
any time. `scenario` says what the environment may do in one behaviour (which
sessions clients delete or rename, whether they abort, whether the process
exits, whether statements fail): it is chosen in `Init` from the constant
`Scenarios` and never changes. `surfaced`, `stray` and `replaced` are history
variables. Neither the code nor the model refuses a send after Shutdown has
collected its cancels: such a turn may be waited for, but it is not among those
`ShutdownDrains` speaks of.

*Round.* One goroutine and its environment. Text is counted in deltas, tool
calls are told apart by what `callKeyHash` hashes, parts carry the
`time_created` the code stores. A tool may panic. The connected client is
`wire`, updated as the interface's store does. `setting` is chosen in `Init`:
how many deltas and calls a turn may have and whether statements fail.
`reached` is a history variable.

*Event stream and run command.* Two processes and a network between them: the
handler (`Accept`, `Subscribe`, `WriteFrame`, `HangUp`) and the client's
reader (`ReadFrame`, `ReadEnd`, `Redial`); `Break` is the network. The
subscriber's channel, the frames under way and the client's channel are FIFO
queues with the capacities of the code. A subscriber that is full is dropped
with the event it had no room for. The reader drops a ping into a channel of
one slot at each lost connection, before its backoff. The command is its
select loop: `TakeEvent`, `TakePing` (which asks for the session's status),
`Timeout`, `Interrupt`, and the settle read. The requests the loop makes itself
may fail or never be answered (`MayGoMute`), and while it waits it takes nothing
else; the row of a turn's error may not be stored, and a turn may end badly
without one (`StoreMayFail`). The turn publishes content, asks,
an error and idle as `Engine` and `Round` do, and gives the busy flag back
only after idle; another client may hold the session before. `timed` is a
choice made once (whether `--timeout` was given); `settled`, `left` and
`missed` are history variables. The abort that a timeout or a signal sends is
the action `TurnAborted`, which need not happen: so the signal that comes
before the command knows it has something to abort is covered too.

*Shell sessions.* A goroutine per command, bash, and one closer (a DELETE or a
Shutdown). The commands take `Shell.mu` one after the other; bash prints,
leaves jobs behind, dies, eats its marker, or prints a partial line before it
(`Endings`). A line of output is who printed it, so that output which reaches
the wrong command is seen. Bash processes are numbered: a killed one may still
run while the next has been spawned.

*Driver and Request.* A driver handles one frame of the stream per step;
`Frames` gives the frames a server may write in either format, and they may
come in any order, end early, break off, or be cut by a cancelled context,
after which each part is or is not handed on. Pieces of text and of arguments
are named by the number of their frame. A request is a function of the stored
history; the history grows part by part as turns write it. The texts of the
`instructions` files, which follow the system's, are left out.

*What is on disk.* `DataDir` has the boot of `main` in its order, the
migrations in their transactions, the rotating log and the key-value file with
its queue of one trigger and its writer; `Kill` takes a process at any step.
`start.fails` says which of the two files may fail in a behaviour: a write of
the key-value file then may leave it as it was (`Written`), and a line of the
log may find that the file cannot be written, renamed or opened again
(`LogFails`, `NotRotated`, `RotatedAway`). `Profiles` has the file operations
of `yolo profile` and of a starting server, `Settings` the handlers that patch
one file or set keys, `Catalogue` the starts of a server with the answers the
network gives, `FileTools` the calls of sessions on files (read, truncate,
fill); a call belongs to a process, and the lock of an edit to a name in that
process (`LockOf`). In `Profiles`, `overlapped` and `disturbed` say whether
commands ran at once or were cut off; `pure`, `stored` and `latest`
(`Catalogue`), `made` (`FileTools`), `missed` and `overdue` (`DataDir`) are
history variables too.

*The interface.* `TuiApp` has the server as far as the interface sees it (an
ask is registered, stored and published, or taken back; a reply claims it,
writes the row and publishes: the two may cross), the event stream, the
commands in flight (each answered in any order, or failing) and one action per
key. Dialogs are a stack of kinds. `lost` collects the commands that `emit`
builds and nothing runs. `StoreFold` keeps messages as lists of parts, the
index of places and the shadow text a delta is appended to. `Prompt` is a line
of tokens with the cursor at its end, `SessionPicker` a list of rows with its
filter, window and delete key, `Keymap` the bindings with the leader's
generation and its timers. A line that is cleared goes into the history when it
has `DraftRetentionMin` tokens (the code's twenty characters). `mine`, `lost`
and `edited` (`Prompt`), `lastLeader` and `clock` (`Keymap`) are history
variables.

In each model some definitions that nothing uses stand before the one they
vary (`ClaimsAnyway` before `Claims`): each is a plausible bug, and with it in
place of the original the property named in `PROJECT.json` fails.

## Runs

| run | instance | shows |
|---|---|---|
| `PermissionRace` | 2 requests of one turn, 2 repliers, statements may fail | `OneSettler`, `GrantsAreTraceable`, `AnswersAgree`, refinement of `PermissionContract` (`ImplementsContract`) |
| `PermissionLive` | 2 turns asking at once, 1 replier, statements may fail, fairness | `SweepIsComplete`, and `CallersReturn`: asks and replies return |
| `PermissionStranded` | 2 requests, 1 replier, no failures | finding: `NoStrandedRow` fails |
| `EngineTurns` | 2 sends to one session, in one of two scenarios: an abort handler and a DELETE; or a rename, Shutdown and failing statements | `FlagMatchesTurn`, `StatusAlternates`, `NoStuckBusy`, `ErrorsSurface`, `AbortSettles`, `TitleStaysCancellable`, `ShutdownDrains` |
| `EngineLive` | 2 sends, DELETE, fairness | `AbortedTurnEnds`, `DeletedSessionEnds` |
| `EngineLate` | 2 sends, DELETE, safety | finding: `NothingAfterDelete` fails |
| `RoundTurn` | 2 rounds, 2 stream attempts; 3 tool calls, or 2 deltas, or statements that fail; fairness | `RoundsSettle`, `HistoryIsStored`, `NoSilentLoop`, `AbortStopsTools`, `FinalIsFinal`, `AbortEndsTurn` |
| `RunFollow` | every buffer of size 1, 2 broken connections, 2 content events and 1 ask, requests that fail or are never answered, errors that are not stored, another client's turn and abort, fairness | `LeavesAfterTurn`, `ErrorReported`, `RunEnds` |
| `RunResync` | subscriber buffer 2, 1 broken connection | finding: `LostIdleEndsRun` fails |
| `Live` | shell: a user's command with a background job, a bash call, every ending, DELETE or Shutdown; interface: 2 sessions, 1 ask, 2 keys, 2 commands in flight, one outage; fairness | `KilledStaysSilent`, `ShellSettles`; `AsksAreParked`, `OutageEnds` |
| `Data` | the eleven parts of `MCData` | `StreamAgrees` (Driver), `RequestsAreSendable` (Request), `SchemaMatchesVersion` and `FilesHold` (DataDir), `MarkerUsable` (Profiles), `EditsAreKept` (FileTools), `CatalogueOutlivesOutage` (Catalogue), `PatchesShow` (Settings), `WalkKeepsDraft` (Prompt), `LeaderWindow` (Keymap), `ImplementsTranscript` (StoreFold), `EventsKeepTheSelection` (SessionPicker) |
| `DataUpgrade` | two boots at once on a directory of schema 1 | finding: `SchemaMatchesVersion` fails |

What the properties of a run promise is said where each is defined.

*Further configurations.* Each of these states what a comment, a document or
the code's intent promises, and ends in a counterexample in well under a
minute. They are kept to reproduce a finding and belong to no run above; run
one with `tlc -config RoundOrder.cfg MCRound`.  `DataFindings` checks the
component that its constant `Parts` names, the one in the table.

| configuration | module | property | finding |
|---|---|---|---|
| `RoundOrder` | `MCRound` | `EarliestFirst` | 3 |
| `RunExit` | `MCRunCommand` | `CleanTurnExitsZero` | 5 |
| `ShellClose` | `MCLive` | `CloseKillsRunning` | 7 |
| `ShellTimeout` | `MCLive` | `TimeoutMeansRunning` | 8 |
| `DataFindings`, tools | `MCData` | `CallsAreKept` | 9 |
| `DataFindings`, catalogue | `MCData` | `GarbageIsNoAnswer` | 10 |
| `DataFindings`, catalogue | `MCData` | `ListedResolves` | 12 |
| `TuiAsk` | `MCLive` | `AskIsSeen` | 14 |
| `DataFindings`, picker | `MCData` | `ArmedRowSaysSo` | 15 |
| `DataFindings`, prompt | `MCData` | `OnlyEditsHold` | 18 |
| `DataFindings`, profiles | `MCData` | `NamesDiffer` | 20 |
| `DataFindings`, settings | `MCData` | `KeysPersist` | 21 |
| `DataFindings`, tools | `MCData` | `NamedEditsAreKept` | 9 |
| `RunMute` | `MCRunCommand` | `TimeoutBoundsRun` | 23 |
| `RunQuiet` | `MCRunCommand` | `FailureIsNoSuccess` | 24 |
| `TuiCrossed` | `MCLive` | `AsksAreLive` | 25 |
| `EngineTurns` with this invariant | `MCEngine` | `EveryTitleTracked` | 26 |
| `DataFindings`, directory | `MCData` | `ClosedIsSaved`, `LogStaysSmall` | 27 |
| `DataFindings`, prompt | `MCData` | `PickKeepsDraft` | 28 |

*Bounds and why they suffice.* A permission race is between two settlers of
one request, or a sweep of one request and a reply to another: two of each
cover every pair, and the two requests' patterns are chosen so that one covers
the other wholly and the other only in part. A session is owned by one turn;
its races are between that turn, its successor, and one abort, DELETE or
Shutdown: two sends give both, and each turn may have a title. The doom gate
looks at two earlier calls: three calls in two rounds put the third on either
side of a round's end. `MaxRounds`, `MaxToolSteps` and `MaxAttempts` are the
code's own limits made small, so that each of them is reached; the deltas
bound the text. Of the stream's buffers only their fullness matters, and
whether more than one can be full at once: with one slot each, two content
events, an ask, an error and an idle overflow all of them; a second broken
connection is what may fall between the first drop and its resync.

A shell's output can reach a command from at most one killed predecessor and
its jobs: one command of either kind, with one line each, is a predecessor
and a successor, and the user's command may leave a job. In the interface an
answer is late by what the loop did meanwhile: two keys are enough to leave a
session, open a dialog or answer the ask, with two sessions and two answers to
confuse. `TuiAsk` needs four.

A stream of four frames holds two calls in three fragments and an end; three
messages of two parts a cancelled round between two prompts. The data directory
is of three ages, boots twice and has a queue of one for the code's 1024, so
that a trigger finds it full; three lines of log overfill a file that may hold
one. Nothing fails in a new directory; in one of schema 1 the key-value file
may and the log is left alone, in one of the newest schema the other way round.
The line that is kept when it is cleared has two tokens. Three commands on
profiles are a command, the one it races, and a start that finds what they
left; three ids and two names include the id `default`. Three calls on files
are one more than a race needs, so that the lock is waited for twice. Three
starts are one that stores, one that finds the file old and one that finds an
outage. Patches are of two files and the same file twice, keys are set, removed
and set by a tool. Two messages with three parts let an index point at the
wrong part of the right message and at the wrong message; two deltas each show
order. Five keys walk a history of two entries out and back with an edit. Three
sessions over two days have a header between them, and the terminal has one row
or three. Seven ticks and a leader that waits three let three timers overlap.

*Deadlock* is not checked: every program here stops (asks return, turns end,
commands are done, bounds are used up).

*Fairness.* Weak fairness for every goroutine that can go on: that is the Go
scheduler's promise. Nothing is assumed of users, of the model or of a tool,
with one exception: a stream or a tool whose context is cancelled returns in
the end (strong fairness where a flood of deltas could hide it again and
again: Go's select chooses at random among ready cases). Of timers, the run's
`--timeout` fires when the loop gets to it (the second half of `RunEnds`, which
supposes that its requests are answered, if only by a failure; finding 23 is
what happens when they are not), and so does a shell
command's (`ShellSettles`: bash may never answer). Nothing is assumed of bash.
In the interface the loop takes messages, the commands it started and the
server's answers to them come (a failure is an answer), and a lost stream is
dialled again. The network need not break.

## Proofs

`PermissionProofs` proves, for every set of requests, repliers, turns and
rules, and whether or not statements fail: `TypeSafety`, `OneSettlerSafety`,
`SettledOnceSafety`, `AlwaysIsExplicitSafety`, `GrantsAreTraceableSafety`,
`AnswersAgreeSafety`, `SweepIsCompleteSafety`, and that the service implements
its contract, `ContractImplemented`. The only assumption is
`PermissionAssumption`, the types of the constants.

*One settler.* `OneSettler` alone is not inductive: that nobody settles a
parked request must be known of the claim too, and of requests that were never
registered. `SettleInv` adds where a parked entry's asker stands (`ParkedInv`),
that a request which is new or undecided is neither parked nor being resolved,
and has no reply (`FreshInv`), and that settlers exclude each other and the
parked state (`SettlerInv`). The one case with content is `Claim`: the entry
leaves the map in the same step in which a process becomes its settler, so
there is none before.

*Traceable grants.* The allow travels: from the client's answer into a job,
from the job into the row and the channel, from the channel to the asker, and
from an always row into later decisions. `GrantInv` states traceability at
each of these places (`LocalInv` for decisions, rows and channels, `JobInv` for
jobs, `SweepInv` for what a sweep has still to do) together with
`AlwaysIsExplicit`, on which the always rules rest.

*One answer.* `AgreeInv` follows the answer from the job that carries it to
the row, the event and the channel (`CarriedInv`), says that an undecided
request has none of them (`UndecidedInv`), that what Ask returned came from
there (`ReturnedInv`), and that an asker that waits is parked, answered or
being settled (`WaitingInv`). From it every step of the service is a step of
`PermissionContract` or leaves what its callers see.

*Complete sweeps.* `OwedInv`: a request that leaves the map never comes back,
so what an answer owed at its lookup and what is still parked at its snapshot
is in the snapshot, and a sweep that runs has it on its list or in hand.

`EngineProofs` proves, for every set of sessions, sends, abort handlers and
scenarios, the types and all that the run `EngineTurns` checks: turns and what
clients see of them, what an abort and a Shutdown promise, and that the cancel
of a title stays tracked until a later title of the session replaces it. The
only assumption is `EngineAssumption`, the types of the constants.

*One turn per session.* `FlagInv` adds to `FlagMatchesTurn` that a closed done
channel belongs to a turn that is over (a claim would otherwise reopen it) and
that a session's owner is a turn of that session. Turns only ever go from
holding to over, so a turn that once had begun is over as soon as the flag is
not its own: this is what the next two arguments rest on.

*Abort and Shutdown.* The abort handler looks twice: it cancels the owner, and
then waits on the channel of whoever owns the session by then. `AbortInv` says
that this is its target or the target is over already. `StopInv` says that all
Shutdown collected had begun, that they are over once a scan finds no owner,
and that a turn that is over starts no title, so waiting for the titles after
the turns is enough.

*What clients see.* `StatusInv` gives, for every place a turn can be at, what
its session is shown as, with the event it is about to publish; a session
nobody owns is shown idle. Deleted sessions are excepted, their events are
suppressed. `SurfaceInv` does the same for the error, with `RowGone`: a session
is marked deleted after its row has gone, so that an error is suppressed only
where nobody can ask for it.

`RoundProofs` proves, for every set of calls, setting and bound, all five
safety properties of a turn's rounds. The only assumption is `RoundAssumption`.
`RoundInv` says where a part may still change: the text a stream has open
(`OpenInv`) and the part of the call in hand (`ShownInv`), each on the wire
under the id the turn remembers; all else is finished (`SettledInv`), and store
and wire hold the same parts up to those two (`PartsInv`). With it
`HistoryInv`, what the kept history is after the rounds that are over,
`DoomInv`, that the list the doom gate looks at is the list of the calls that
came to it, and `LateInv`. What a step does to the two lists is a matter of
`Upsert`; those lemmas come first. `TypeOK` of `Round` is not proved: the types
needed are in `Shape`, and a listing is left out because the order of a sort is
an induction over its data.

`RunCommandProofs` proves the types, `LeavesAfterTurn` and `ErrorReported` for
any buffer sizes and any number of drops, events and asks, from
`StreamAssumption` and `RunAssumption`. `ErrorReported` speaks of errors that
were stored: what leaves none is finding 24. The subscription begins after the
send on a fresh connection (`FollowInv`), so as long as the run's turn is on
there is no idle in any of the three queues between the bus and the loop
(`OwnTurnInv`).

`LiveProofs` proves `KilledStaysSilent` for every set of commands, from
`ShellAssumption`. `SilenceInv`: whoever may still be heard in the bash process
(what it runs, its background jobs, the authors of unread lines) is the command
that holds the mutex or one that ended well; a killed command takes the process
with it.

*Asks* (`LiveProofs`). `AsksAreParked` of `TuiApp` for any sessions and asks,
without an assumption: an ask on screen is parked or being settled, or its
`replied` event is under way, or that was published before its `asked` event
(`crossed`, finding 25). `ParkedInv` adds that an ask is queued once, that a
stream without a break is connected, and the same of an `asked` event under way,
with the `replied` event behind it.

`DataDirProofs` proves the types, `FilesHold` and `SchemaMatchesVersion` for
every set of processes, migrations and limits. The assumptions, `DataAssumption`,
are types, a log limit of at least one line and a `None` that is no value. A write
of the key-value file or a rotation of the log may fail: `FilesHold` then says
what is left of its promise, that the values are saved unless the last write
failed, and that the log is past its limit only until a rotation succeeds
(finding 27 is what it cannot promise). What
a process knows of the shared files is true: the version it read is the
database's (`VersionInv`), the size it believes of the log is the file's
(`LogInv`), the snapshot a closing store writes is its last value (`StoreInv`).
This holds of processes that run one at a time, as `FilesHold` says itself.
`SchemaMatchesVersion` is proved under that condition, or if no migration may
be applied twice: a version that was read is then a lower bound, and a second
process that is late fails. Outside of it the property is false, which is
finding 6 (`DataUpgrade`). So the theorem says which change would repair it.

*Catalogue* (`DataDirProofs`). `CatalogueOutlivesOutage` for any outages,
configurations and numbers of starts, without an assumption on the constants,
but for networks that give catalogues or nothing and a file that can be written,
as the property says itself (finding 10): as long as every fetched text was a
catalogue and was stored, the file holds the last one a
start found (`KnownInv`), whichever of the two `Load` takes.

*Profiles* (`DataDirProofs`). `MarkerUsable` for any profiles, names and
processes. `ProfileAssumption`: `Default` is an id, and `NameRank` orders ids and
names like the strings they are, no two alike; from it comes that the `First`
that List sorts to the front exists. `LoneInv`: a command that has run alone
runs alone still, and where nothing is disturbed only such commands run.
`ReadyInv` then says of each of its steps what it counts on: that the profile
it will mark is there, that the marker does not name the profile it removes.
A start counts on none of it before its first step, which is why it repairs.

*Edits* (`DataDirProofs`). `EditsAreKept` for any calls, texts and files. First
`EditsAreAlone`: if all calls are edits of one process and no file is edited
under two names, one edit at a time holds a name (`OneHolds`), what it has read
is what the file holds when it is cut (`ReadsAreFresh`), and then the file
holds exactly what it has made of that (`EditsFill`, from `CutsAreBare`).
`SerialInv` then carries the order itself: the edits that succeeded, in the
order they filled, each accepted by the disk the ones before it leave
(`SerialSoFar`), and the last of these disks differs from the real one in the
files that are cut and nowhere else; for a cut file it has what the cutting
edit was made for (`AgreesWith`). A failed write leaves its file cut and ends
the claim. `TextAssumption` gives the types of texts.

*Patches* (`DataDirProofs`). `PatchesShow` for any fields, entries and patches,
at any number of crashes. First `AckedPatchesStay`, its part for one layer: a
field that a patch was answered for stays in the layer until a later patch of
it is answered, as long as the file is whole (`AckedStays`), and one patch at a
time is between its read and the end of its write (`OnePatches`). The invariant
needs `HeldInv`: what the holder of `configWriteMu` will write has everything
that was answered, but for its own field. `PathInv` says the same of the
entries of `instructions`, which are never lost. What `LoadAt` makes of the
layers (`LayerShows`) is an induction over them: a field is kept until a higher
layer sets it, an entry always, since `ConcatDedupe` keeps every entry of both
lists (`Deduped`, an induction along the two). `PatchAssumption` says that a
patch sets a field of a layer.

*Requests* (`ModelProofs`). `RequestsAreSendable` for any models and any
number of messages and parts, without an assumption. The only invariant of the
steps is `HistoryInv`: the parts of the history, one message after the other,
are numbered by their places, so that no call is stored twice (`Loaded`). The
rest is about the translation of one history. Each stored message becomes a
turn whose calls it answers itself (`UserTurned`, `ReplyTurned`); turns put
one after the other, behind the system's texts, are a dialogue (`TurnsTalk`,
`Opened`); a message is the same in both forms once heard (`SpokenAlike`), and
so is a request (`Wired`); and where a block stands tells which call or answer
it is (`CallAt`, `ResultAt`), which gives the three claims (`CallAnswered`,
`ResultCalled`, `ResultOnce`). What `FlattenSeq` and the recursive functions of
the module compute is itself proved, by inductions along the sequence (`Flat`,
`Kept`, `PutsAll`).

*Streams* (`ModelProofs`). `StreamAgrees` of `Driver` for any frames, as many
as a server likes to send, under `FrameAssumption`: what the drivers read of a
frame has its type, and each frame is of a kind they know or of another kind
(which they ignore). The property reads a response off all of its frames at
once: a call's latest id and name over all fragments of its index, a block from
its latest start on. The driver does it frame by frame, so the invariant is
that what it keeps is at any time that reading of the frames so far (`Knows`,
in `StreamInv`): the OpenAI driver's calls are those the fragments tell
(`Told`), the Anthropic driver's blocks those that have a start (`Blocks`), the
pending reason the latest (`FinishIs`). What the lemmas show is how each part
of the reading grows with one more frame (`ToldGrows`, `BlocksBegin`,
`BlocksFill`, `FinishGrows`), and that a later frame changes nothing an earlier
one said (`SpokenStays`), so that what was sent stays right (`SpokeGrows`).
After an abort, what is kept of the parts of a frame is in order among
themselves (`ThinsOrder`) and with all before (`OrderCat`), since the pieces of
a frame bear its number.

`TuiProofs` proves that `StoreFold` implements `Transcript`
(`TranscriptImplemented`), for every set of parts, any listings and texts of
any length. `StoreAssumption` says that the ids in a listing are unique (they
are keys of the database), that no field is called "none", and that `Absent` is
neither a content nor an entry of the index. The invariant `FoldInv`: ids stay
unique, and every entry of the index names the place of its part, with a shadow
that is what the part reads there. So the index is never stale here, the check
of `applyDelta` is not even needed as long as `ForgetParts` comes with each
hydration, and the shadow may be appended to in place of the text. `Wrote` and
`Carried` say what a write and a removal leave of all other parts.

*Leader* (`TuiProofs`). `LeaderWindow` of `Keymap` for any bindings and a
timeout that is a natural number. `LeaderInv`: no timer is overdue, one of the
present generation is due a timeout after the last press (`TicksInv`), and a
pending leader has such a timer (`PendingInv`). So a timer of an earlier press
never ends a later one, although it cannot be cancelled.

*Selection.* `EventsKeepTheSelection` of `SessionPicker` for any finite set of
sessions. Only an event that arrives shortens the queue, and the rows it builds
hold the selected session at the place `SelectInSeq` finds. How the rows are
sorted does not matter.

*Walk.* `WalkKeepsDraft` of `Prompt` for any commands, files and length of the
history: of walks that go back to the present, not of one that is ended at an
entry (`lost`), by a clear, the answer to a send or the pick of a mention (the
last is finding 28). It is inductive once `LineTypes` says that the line to
bring back has no newline, which the input would take from it.
`PromptAssumption`: nothing typed or picked has one; a path with a newline in
its name is left out.

TLC checked each inductive invariant on an instance before it was proved.

`SettledOnce`, `AlwaysIsExplicit` and the `TypeOK`s of `Permission`, `Engine`,
`RunCommand` and `DataDir` are proved and so are not among the runs'
properties; the other `TypeOK`s hold in the instances above.

Where a proof needs an induction over data (a list, a stream, the layers of
the configuration) it is one by hand: of the indices at which a statement fails
the least is taken (`Least`, from the well-foundedness of `<`), and `Induct`
says what follows for a set of indices. That a recursive function has the
values its definition gives is itself such an induction (`Recursion`).

Only model-checked: liveness (`CallersReturn`, `AbortedTurnEnds`, `AbortEndsTurn`,
`DeletedSessionEnds`, `RunEnds`, `ShellSettles`, `OutageEnds`: it is out of the
prover's reach like `ENABLED`), and the findings, which are counterexamples.
No module declares a `RECURSIVE` operator.

## Findings

The numbers are those of the table above; `PROJECT.json` quotes the lines.

1. *Stranded permission row* (`PermissionStranded`): a reply between
   `Register` and `PersistPending` leaves the row without a response for ever.
2. *Events after session.deleted* (`EngineLate`): the suppression check and
   the publish are not one step, and Close does not wait for the turn.
3. *Part order* (`RoundOrder`): tool parts are stored without a creation time
   and are listed before the text that came first.
4. *Run that never ends* (`RunResync`): the status is asked for at the drop,
   not after the new subscription; a turn that ends in between is never
   noticed, and a run without `--timeout` waits for ever.
5. *Exit code of an earlier turn* (`RunExit`): the settle read counts the
   errors of every message of the session, so a run that continues a session
   whose earlier turn failed exits 1 after a clean turn.
6. *Two boots after an upgrade* (`DataUpgrade`): the version is read outside
   the transactions, so one process may record an older version over a newer
   one, and every later start fails.
7. *Shell command nobody can cancel* (`ShellClose`): a second command
   overwrites the stored cancel of the first.
8. *Timeout of a finished command* (`ShellTimeout`): what a command leaves on
   stdin may eat its marker; it is then waited for and reported as timed out.
9. *Lost edits*: the lock of an edit belongs to a name in one process, not to a
   file, and write takes none.
10. *Useless catalogue answer*: whatever a status 200
    carries replaces the stored catalogue.
11. *Provider without models* (`Catalogue`, `Parses`): an answer without the
    key `opencode` adds the provider that a comment says is left out.
12. *Listed but unknown*: providers are listed against the
    configuration of now and resolved against that of the start.
13. *Commands that are built and never run* (`TuiApp`, `lost`): what `emit`
    returns to a callback is dropped.
14. *A pending ask without its dialog* (`TuiAsk`).
15. *An armed row that does not say so*.
16. *A late hydration* replaces the messages of another session, or quits.
17. *Text typed while a send is under way* is cleared by its answer.
18. *A history entry of several lines* stops the walk.
19. *The frecency entries* are changed while the writer goroutine reads them.
20. *Two profiles of one name*.
21. *Keys overwritten*: the file is written after the lock was
    given back, from a copy made at the start.
22. *Tool descriptions* promise a check, reading before editing, that neither
    tool makes.
23. *A timeout that does not fire* (`RunMute`): the select loop of `yolo run`
    waits without a deadline for the answers to its own requests.
24. *A failed turn, exit code 0* (`RunQuiet`): a turn that fails before its
    first round, or uses up its rounds, leaves no error anywhere.
25. *A dead ask on screen* (`TuiCrossed`): `permission.replied` may be published
    before `permission.asked`.
26. *A title nobody can cancel*: a second title of a session replaces the
    tracked cancel of the first.
27. *Failed writes*: the key-value file loses its last values when the write of
    its close fails, and the log grows on when its rename fails.
28. *A mention picked over a history entry* loses the line the walk started
    from.

## Not modelled

See the components with status `not_modelled` or `partly` in `PROJECT.json`:
rendering, themes, prompt texts, flag parsing, HTTP routing, JSON and SSE
syntax, read-only tools and handlers, the forms of dialogs. They keep no state
that two steps could disagree about, or have one that another module holds.

Known hazards without a property that holds: a generated title overwrites a
rename made during the side-call (`title.go:86`; `TitleWrite` and `Rename` are
actions of `Engine`, but the code promises nothing), and a second shell
command overwrites the cancel of the first (finding 7). Others are of the same
kind and are kept here instead: a send accepted while `Shutdown` runs starts a
turn that is cut off at the exit (`main.go:810`); idle is published before the
flag is released, so that a send at once on idle may be refused
(`engine.go:648`); a synthetic note after an abort is shown but not
stored (`round.go:420`); a reject cascades to asks of another turn of the
session that its user has not seen; two interfaces on one directory overwrite
each other's key-value file, and two processes rotate one log.

What some properties leave unwatched: `MarkerUsable` excuses commands of two
processes that overlap; `PatchesShow` is about one server, not a second one or
an editor on the same file; `CatalogueOutlivesOutage` assumes that the file
could be written; `NoStuckBusy` excepts deleted sessions, which
`DeletedSessionEnds` covers instead.

The data race of finding 19 and the caps on a command's output are left out of
the models.

Still to prove: the types of `ShellSessions` and of the modules of the
interface.
