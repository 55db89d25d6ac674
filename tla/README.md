# HyprPilot in TLA+

HyprPilot drives the Hyprland compositor for command lines and agents. A daemon
(`hyprpilot-daemon`) serves requests over a Unix socket; it asks Hyprland over a
control socket (one connection per call), listens to Hyprland's event socket,
remembers how to undo some operations, keeps a model of the desktop, runs user
rules on events, and saves and restores snapshots of the layout. A command line
and an MCP server are clients of the daemon.

This directory holds TLA+ modules for the parts of it that keep state, the TLC
configurations that check them, and machine-checked proofs about eight of them.
Line numbers refer to `src/crates/`.

## 1. Inventory

| part | state it keeps | operations | hard about it | what makes it correct |
|---|---|---|---|---|
| undo stack (`daemon/undo.rs`) | a bounded deque, `undo.json` and its temporary file | push, pop, load at start | crash between any two file steps; failing disk; the bound | file never torn, a restart loses nothing and replays nothing, newest first |
| recorded operations (`daemon/server.rs` 647-722, 744-763) | per request: what was read before the dispatch | kill, close, move to workspace, undo | a handler awaits Hyprland two or three times; other clients and the user act in between; late answers | an entry per effect, entries say what really happened, undo unwinds |
| daemon lifecycle (`daemon/server.rs` 56-235) | the socket path, a `Notify` shared by main and engine | start, Shutdown, signals, drain, exit | several daemons on one path; who consumes a wake-up; stale sockets | one reachable daemon; who is told to stop, stops |
| state cache (`daemon/cache.rs`) | a value, a dirty flag and an age per query | read, refill, apply an event, seed | no lock between question and write; seed before subscription; lost events | bounded staleness, eventually current |
| snapshots (`core/snapshot.rs`, `daemon/server.rs` 780-883) | JSON files; nothing in memory | save, load, list, diff, restore, delete | matching after windows come and go; a plan applied while the user works; each dispatch may fail; one temporary file per name for all savers | the layout comes back and can be taken back, a file is kept whole |
| rules engine (`daemon/engine.rs`, `rules.rs`, `actions.rs`) | compiled rules, a reentrance counter with delayed decrements | event, first match, actions | echoes of its own actions; events dropped while inhibited; shutdown during actions | no self-triggered loop, engine ends on shutdown |
| request dispatch (`daemon/server.rs`, `protocol.rs`, `client.rs`) | input gate, lazily opened a11y connection | one handler per request | reconnection after an error | refusals before effects |
| control socket, events (`core/ipc.rs`, `dispatch.rs`, `events.rs`, `selector.rs`) | none; a line reader for events | query, dispatch, next event | timeouts with the effect done; an unreadable line ends a stream | an answer is never taken for another's |
| MCP bridge (`mcp/`) | capability profile, one daemon connection | 52 tools, forward | four checks in three places; reconnection after errors; tools of several requests | nothing mutates unless all gates agree, no tool does more than its groups, no request is sent twice, a click lands on what was found |
| input (`input/`) | a thread with the Wayland connection: outputs, a time counter, a channel of commands; a `ydotool` process per chord | type, press, move, click | stale outputs, a broken connection, choice of backend, logical and device coordinates; chords of several clients on one virtual keyboard | the pointer goes where the caller said, a chord arrives with its own modifiers, no key stays down |
| bind lookup (`daemon/binds.rs`) | none | find a bind for a chord, run it | spellings of keys and masks | what runs is what the press would run |
| vision (`vision/`) | none | capture, OCR, word search | rows, confidences, words split by tesseract | what stands on the page is found, a match can be clicked |
| accessibility (`a11y/`, `daemon/server.rs` 508-599) | one cached bus connection behind a mutex | tree and find over a bounded walk | a bus that restarts, trees that change or contain themselves, connecting under the mutex | document order within the bounds, one connection, every request answered |
| command line, packaging | none | formatting | nothing concurrent | - |

How they interact. Each client connection is a task; requests of one connection
are handled one after the other, those of different connections interleave at
every `await`. Handlers share the undo stack (a mutex, held for one push or pop
with its file write), the cache (a lock, held for one read or write, never
across an `await`) and the `Notify`. Cache and engine each have an event-socket
subscription of their own. Hyprland, the user and other programs change the
desktop at any time.

## 2. Modules

| module | models | kind |
|---|---|---|
| `DurableStack` | what the undo stack promises: a bounded LIFO history, each entry taken back once | abstract specification |
| `UndoStack` | `undo.rs`: deque, `undo.json.tmp`, `undo.json`, every step of `write`, failures, crashes and restarts | detailed; implements `DurableStack` |
| `UndoStackProofs` | six theorems about `UndoStack` | proofs |
| `Hyprland` | workspace of each window and the focus; the dispatchers the recorded operations use | environment |
| `UndoDaemon` | the recorded handlers and `undo` of `server.rs` over `Hyprland` and `DurableStack` | composition |
| `UndoDaemonProofs` | five theorems about `UndoDaemon` | proofs |
| `DaemonLifecycle` | `run()` of `server.rs` and of `engine.rs`, tokio's `Notify`, several processes | detailed |
| `StateCache` | `cache.rs`, the control-socket queries it makes, the event stream | detailed |
| `StateCacheProofs` | two theorems about `StateCache` | proofs |
| `SnapshotDiff` | `match_live_window`, `diff_against` | pure operators |
| `SnapshotRestore` | the snapshot handlers, `capture`, `apply_diff`, over the desktop they change | composition |
| `RulesEngine` | `engine.rs`, `rules.rs`, `actions.rs`: compilation, first match, the actions of a rule, the reentrance guard and its delayed decrements, against echoes and user events | detailed |
| `RulesEngineProofs` | three theorems about `RulesEngine` | proofs |
| `VirtualPointer` | the worker of `virtual_pointer.rs`, its channel and roundtrips, and the conversion of coordinates | detailed |
| `McpBridge` | `mcp/`: profile, dry run, plan of requests, connection to the daemon; the input handlers and `run_bind` of `server.rs`; a command line; over `VirtualPointer` | composition |
| `McpBridgeProofs` | four theorems about `McpBridge` | proofs |
| `Accessibility` | the a11y handlers of `server.rs`, their connection and mutex, `find_app`, `walk` and the filter of `a11y/`; bus and applications | detailed |
| `DaemonProofs` | eight theorems about `DaemonLifecycle`, `SnapshotRestore` and `Accessibility`, which share no state | proofs |
| `ToolTable` | the registry, the arguments and `dispatch` of every tool, what the daemon changes for every request | tables |
| `AgentCalls` | the profile and its loading, tools/call over `ToolTable`, the undo stack shared with other clients | detailed |
| `Keyboard` | `keys.rs`, `press_keys`, `binds.rs`, `ydotool`'s events in the kernel and Hyprland's binds | detailed |
| `TextSearch` | `parse_tsv`, boxes, `find_word_runs` | pure operators |
| `SnapshotFiles` | names, `save`, `load`, `delete`, `list` of `snapshot.rs` by several handlers | detailed |
| `Selectors` | `encode` and `parse` of windows and workspaces | pure operators |
| `AgentSurface` | the six above, one at a time | composition |
| `AgentSurfaceProofs` | eight theorems about `AgentSurface` | proofs |
| `SequenceLemmas` | what recursive functions and the joins of sequences are, for the other proofs | lemmas |
| `MC*` | finite instances | model checking |

Composition: `UndoDaemon` uses `DurableStack` in place of the real stack
(`Stack == INSTANCE DurableStack`), which is sound because `UndoStack` implements
it and both are used only under the mutex; it shares `place` and `focus` with
`Hyprland`. `SnapshotRestore` extends `SnapshotDiff`, and `McpBridge` extends `VirtualPointer`.
`AgentSurface` puts parts that share no state into one specification, and explores one of
them per behaviour. `McpBridge` and `AgentCalls` look at the bridge from two sides:
the first has one tool of each kind that is forwarded alike, with every failure of
the way; the second has every tool and argument, and calls that take one step.

Definitions introduced by a comment `Faulty variant` are not part of a
specification. Each is an operation with a plausible bug, and shows that a
property would notice it.

### How state and actions correspond to the code

*UndoStack.* `entries` is the `VecDeque`, oldest first. `op` is the push or pop
that holds the mutex and how far `persist` got: `Push`/`Pop` change memory,
`OpenTmp` is the truncation inside `fs::write`, `FillTmp` its completion, `Rename`
the rename, after which the mutex is released and a pop hands out its entry
(`given`). `PersistFails` is any of these failing, which `persist` logs and
swallows. `Crash` may come between any two steps; `Start` is
`enable_persistence`. A file is missing, torn, or a complete document. Entries
carry a time stamp and a description, so each push is taken to be of a new entry
(`known`).

*UndoDaemon.* `req[c]` is the local state of the handler of client `c`: `pc`, the
request, what it `seen` before its dispatch, the `effect` of the dispatch (a
history: which window moved, from where, at which `clock`, and the whole layout
before), and the entry an undo `held`. One action per await. `Dispatch(c, FALSE)` is a
dispatch that took effect but was answered after the 2 s of `send_raw`.

*DaemonLifecycle.* `pc[d]` walks through `run()`; `sock` is the process whose
listener the socket path names. `notify[d]` is a `Notify`: a permit, the queue of
waiters, the woken ones. The `select!` of `signal_loop` and that of the engine
are its waiters; a `select!` that ends by its other branch drops its wait, which
passes a wake-up on. A daemon with an empty rules file waits in the same way,
without events.

*StateCache.* Hyprland's changes form `log`; a value read when the log had `n`
entries is the number `n`. `cell` is `Inner`; `req` a query without the lock;
`stage` is where the cache task is in `seed()` and `run()`; `pos` is how much of
the log it was told of. Ages are in ticks and cut off where no property can
tell them apart. `binds` behaves as the other cells; `version` never changes in a session.

*SnapshotRestore.* `live` gives each open window its workspace, floating and
pinned state, fullscreen mode, place and size;
`store` the snapshot files; `job` the restore in progress with its remaining
actions. `RestoreLoad`, `SavePre`, `Plan`, one `Apply` per dispatch, `Answer` follow
`snapshot_restore`; `RepositionFloating` is two dispatches, the second of which is sent only if the
first succeeded (`Rest`). `trail` remembers what the last restore found, for `Reversible`, until
the desktop changes or the snapshot it answered with is written over.

*SnapshotFiles.* A file is the number of the save that wrote it, or torn; `json` and
`tmp` say which file a name and its temporary name are. `Open`, `Write`, `Rename` are
`fs::write` and the rename; a handler holds the file it has opened, whatever becomes of its name.

*Accessibility.* `req[c]` is a handler: waiting for the mutex (`conn`), connecting
under it, or at a call of the library; `stack` and `out` are the walk's. `bus.gen` numbers the incarnations of
the bus, and a connection is the incarnation it was made to; `calm` says that neither bus
nor tree has changed since the walk began. A pid stands for the focused window's or the caller's.

*ToolTable, AgentCalls.* `Registry`, `Required`, `Optional`, `Accepted` and `Requests` are
`tools.rs` as tables: what a call becomes (a request, a preview, an error) given which
arguments are there and which parse. `Does` gives each request the changes its arm of `handle_request`
makes. `recorded` is the undo stack by the kind of its entries.

*Keyboard.* A chord is its tokens; `Parses` and `Combo` are `KeyCombo::parse`, `Encode` the
`code:1`/`code:0` list for `ydotool`. A handler's events enter `down` one at a time; a key going
down is what Hyprland compares with its binds (`heard`), with the modifiers that are down then.

*TextSearch, Selectors.* Pure: a page is a sequence of lines of tesseract's table, and a
name in Hyprland's grammar is the prefix that decides how it is read, with what follows it.

*RulesEngine.* `rules` is the compiled `rules.toml`: kinds of event, an optional
class, verbs with the kind of their argument (`Parses` is `Action::parse`).
`engine` is the engine task: reading (`idle`) or in the middle of the actions of
a rule (`acting`, with the current `step`). `depth` is
`ReentranceGuard::depth`; `decays` are the detached tasks that a dropped
`BumpGuard` spawns, by age. `inbox` is the socket with the engine's line reader,
`flight` what Hyprland has yet to announce. An action is two steps, the effect
in Hyprland and the end of the dispatch (`Effect`, `ActionEnds`); the second
without the first is a rejection, a timeout, or a selector that finds nothing.
Each event carries its `origin` and its age, a history no guard reads. A rule
that asks for a field its event lacks never matches, as in `matches`.
`rules_list` and `rules_validate` only read the file and are left out.

*VirtualPointer.* `known` is `State::outputs`, `inbox` the `mpsc` channel, `cmd[c]`
the command of a client with its `oneshot`, `sent` the command whose roundtrip is under way.
`Take` computes extents and sends; `Roundtrip` is the compositor processing it,
and only then are events of outputs read: `dispatch_pending` reads nothing from the
socket. Coordinates are one-dimensional, and a scale is counted in halves.

*McpBridge.* `call` is the tools/call in progress: `todo` are its remaining stages
as `dispatch` and the composite handlers order them (`Plan`), `x` what one stage
hands the next, `done` and `calm` a history: the effects it has had, and whether
the desktop has stood still since the element was found. `conn` is `Server::daemon`; it is
`stale` when the peer is gone. `handler[c]` is the handler of a connection in the daemon. `Call` is
`handle_call_tool`, `Scan` is `scan_for_matches`, `Ask`, `Receive` and `Lost` are `call_daemon`
and what each caller does with its result. `Registry` has one tool of each kind that is handled
alike: its group, whether it mutates, whether it has a `dry_run`.

## 3. Runs

| run | shows | result |
|---|---|---|
| `undo_stack` | crashes and failing writes at every step: `FileIntact`; until the first failure `MirrorsMemory`, `UndoneOnce`, `ImplementsDurableStack` | holds |
| `undo_daemon` | two clients, all operations, user, faults, a crash; or one client and a user who waits: `OneEntryPerEffect`, `EntryTruthful`, `TopIsLatest`, `UndoUnwinds`, `EveryRequestAnswered` | holds |
| `undo_special_workspace` | a move off a scratchpad and its undo: `UndoUnwinds` | violated |
| `daemon_lifecycle` | three daemons with engines, crashes, stops: `OneDaemon`, `ServingIsReachable`, `ShutdownReachesOne`, `SignalHonoured` | holds |
| `daemon_stop_with_engine` | `ShutdownHonoured` with a rules engine | violated |
| `state_cache` | `HitsAreRecent`, `OnlyRacesEscape`, `EventuallyCurrent` | holds |
| `snapshot_restore` | user, faults, restores of restores: `LayoutRestored`, `FocusRestored`, `Reversible` | holds |
| `rules_engine` | rules that answer each other, failing actions, a user: `EchoesFireNothing`, `GuardBalanced`, `DropsHaveACause`, `EngineHearsAgain` | holds |
| `mcp_bridge` | twelve kinds of tools, two profiles, a command line at the same pointer, restarts: `BothGatesAgree`, `AtMostOnce`, `RestartCostsOneCall`, `ClickLandsOnTarget`, `EveryCallAnswered` | holds |
| `mcp_click_region` | `click_text` on a region that does not start at the origin: `ClickTextLands` | violated |
| `accessibility` | two clients, three requests, a bus that restarts, trees that change: `WalkIsPreorder`, `WalkBounded`, `ConnectsOnce`, `EveryRequestAnswered` | holds |
| `agent_surface` | every tool under five profiles (`PrivilegeIsGranted`, `OnlyAskedForChanges`); chords (`ChordIsWhole`, `NothingStaysDown`, `RunBindIsThePress`); words on a page (`TextIsFound`); snapshot files (`SavedIsKept`); names (`NamesSurvive`) | holds |

Each stateful module also states the types of its variables in `TypeOK`. The runs do not check it,
since an ill-typed value shows in the other properties; that of `UndoStack` is proved.

### Bounds, and why they are enough

* Undo stack: capacity 2 (the code: 64) and five entries, so that the ring drops
  entries, refills after pops and is loaded from a file longer than the
  capacity; the number of crashes and failures is not bounded. The theorems cover every capacity.
* Recorded operations: two scenarios, one chosen at the start. `Busy`: two clients, two windows, two
  workspaces, three requests, one user action, one crash: enough for any two handlers to
  interleave at every await with a disturbance; a third client only adds another
  interleaving of the same pairs. `Calm`: one client, five requests, for stacks that overflow.
  `EntryTruthful`, `TopIsLatest` and `UndoUnwinds` speak of the second.
* Lifecycle: three daemons, so that one can crash, one take over and one be
  refused; a process is launched once, so the state space is finite without a
  further bound. One Shutdown request each.
* Cache: a reader and the task, two cells of which one has its titles patched,
  two changes, `MAX_AGE` of two ticks and queries of one. Errors need one query and one or two
  events. The theorem covers any number of everything.
* Snapshots: three addresses in two processes and two identities, two of the
  windows open at first; three user actions and restores together, two possible seconds, so
  that a restore and the one that takes it back share a second or not.
  Two open windows suffice for every branch of the matching (its candidates
  are one or more than one), three addresses for a window that returns.
* Rules engine: five files (an empty one, one that does not compile, rules that
  trigger each other, a predicate on a class, a rule of two actions), two user events, a decay
  of two ticks, echoes up to one tick late, actions of up to one tick. What
  matters is their order - echoes sooner than the decay, actions that may outlast an
  echo - and that two events fit between any two steps. The theorems cover every
  file and every duration.
* MCP bridge: a laptop at scale 1.5 whose width is odd (so that conversions round), and the same
  desk docked, with two outputs at scale 1; a button of two pixels at two places, which must be hit; two
  acts of anybody else, which allows a change and a restart, or two restarts, around any
  request; two profiles, one of them with a deny and an allow list. The region run has one output
  at scale 1, so that nothing but the doubled origin can be to blame.
* Accessibility: two clients, so that one waits for the mutex or drops what the other has made; three
  requests and one restart of the bus, so that a connection of either incarnation is found cached; a tree with a null
  child, one below `MaxDepth` = 2, and one that contains itself; caps that cut (1) and that do not always (4).
* Agent surface: all tools with all, one too few, or one unknown argument, and each that fails to parse; the
  three files, the two built-in profiles; entries of the undo stack up to two, since the
  property is about the kinds of entries. Eight chords that share modifiers, pressed by two hands, three times.
  Pages of up to four lines out of nine, which are of every kind `parse_tsv` tells apart. Three savers, four
  saves, names at the limit of their length. Every kind of reference with small numbers of either sign.

### Fairness

* `UndoDaemon`: weak fairness of the timer of `send_raw` (2 s, ipc.rs 118) and of
  the steps that do not leave the daemon. Nothing is assumed of Hyprland.
* `DaemonLifecycle`: weak fairness of main's steps (the runtime polls ready
  tasks; the drain has a timer), of the engine entering its `select!`, and strong
  fairness of the engine taking a wake-up: `select!` polls its branches in
  random order, so a wake-up is not passed over for ever. Events need not come.
* `StateCache`: time passes, and a query ends by its timer. Hyprland need not answer and the
  event stream may die.
* `RulesEngine`: ready tasks run, timers fire, time passes; Hyprland announces an
  echo within `Lag`. The user need not do anything, and the engine may be stopped.
* `Accessibility`: handlers run and their calls to the bus end, with an answer or an error; tokio's
  mutex is fair, so who waits for it gets it (strong fairness of `Take` and `Drop`).
* `McpBridge`: the server, the handlers and the worker are scheduled. Requests have no timeout, so
  this rests on each handler ending: Hyprland's answers by the timer of `send_raw`,
  the compositor's roundtrip by an answer or the end of the connection, and - an
  assumption nothing in the code bounds - `wtype`, `ydotool`, `grim`, `tesseract` and the
  accessibility bus.

Deadlock is not checked where the system may stop: a daemon that exits, and
models whose budget of requests is used up.

## 4. Proofs

`UndoStackProofs` proves, for every capacity, set of entries and initial file:

* `TypeCorrect`, `CapacityRespected`, `FileNeverTorn` - whatever the disk does;
* `NothingUndoneTwice`, `RestartLosesNothing` - until a write has failed (the history `failed`);
* `StackImplementsHistory` - until then, the refinement of `DurableStack`: `hist` is what a
  restart would load, `undone` is what was handed out, `Rename` is the step at
  which an operation takes effect, everything else stutters.

None of the invariants is inductive alone: what the file will hold after
`Rename` depends on what the temporary file holds, and that on how far the
operation is. The inductive invariant adds that a `written` temporary file is
the document of `entries`, that in the middle of an operation the file still
restores to the stack before it, and that entries are distinct and known.

`StateCacheProofs` proves `HitsStayRecent`: `HitsAreRecent` for any number of
readers, cells and changes and every `MAX_AGE` and timeout. The inductive
invariant (`Recent`) adds what an answer under way knows: it misses only changes
younger than the query is old, so that after `Write` the value misses nothing older
than its age plus one query. `OnlyTwoRacesEscape` proves `OnlyRacesEscape`, step by step: the
same invariant, with the stream having delivered no more than has happened, leaves two steps after which a cell is clean and misses a
delivered change: the write of an answer older than the change, and the subscription, which skips what came before it.

`RulesEngineProofs` proves `GuardAlwaysBalanced`, and `NoRuleFeedsARule`:
if every echo comes sooner than the decay, no rule is ever fired by one, for
every rules file, decay and action timeout and any number of events. The invariant
follows an echo from its effect to its reading: while it is on its way, a rule is running
or a decrement is scheduled that is no older than the echo, so the guard is up
when it is announced; and the engine reads it before time goes on, so the guard is
still up when it is read. `NothingElseIsDropped` proves `DropsHaveACause` for every decay but zero: the
invariant follows how long ago the last rule fired and ended, beside the ages of what is scheduled
and of what waits to be read. A decay of zero is left out because a rule could then
end in the instant it fired, and a later one swallow the events that waited meanwhile.

`UndoDaemonProofs` proves `TypeCorrect`, and `NothingRecordedTwice`: `OneEntryPerEffect` for any windows,
workspaces and clients. The invariant says that each effect is older than the
clock, and that one place at most remembers it: the stack, an undo that has taken it, or the handler that is about to record it.
The other three speak of one client, like the properties:

* `EntriesAreTrue` (`EntryTruthful`), `LatestIsUndone` (`TopIsLatest`) - whatever fails, times out or dies: entries are in the order of
  their effects (`InOrderOfEffects`), and what the handler in progress will record or put back is newer than all of them; with a user
  who waits, what it has read before its dispatch is still so when it dispatches (`QuietInv`);
* `MovesUnwind` (`UndoUnwinds`) - the stack is a chain: from the desktop at hand each entry leads to the layout
  the next one was recorded in (`Chain`); while an undo is under way the chain starts at the layout it is
  about to bring back (`Restores`). Its hypothesis `Unsigned`, that no workspace has a number below one, is what
  `undo_special_workspace` violates.

`DaemonProofs` proves `OneListens` and `ServersAreReachable` for any number of daemons, provided that no launch
overlaps another's start or stop (`Overlap = {}`). The invariant adds that whoever holds a
listener is the one the path names, and that nobody is woken before a client has asked: a daemon
that leaves its `select!` then implies that none is starting, so the path it removes is its own.

Of restores it proves, for any windows, processes, identities and snapshots, finitely many windows being open:

* `LayoutIsRestored` (`LayoutRestored`) - the matching takes no window twice (`MatchingIsInjective`), and the plan of a diff is
  for the windows it matched and in the order of the ranks (`PlanFor`). While it is carried out it stays on course
  (`OnCourse`): whatever of a matched window does not agree with the snapshot yet is covered by an action that is still to
  come, and each action still to come makes its window agree. Place and size take effect on a window that floats,
  so the order is part of it, and the second half of `RepositionFloating` takes the place of the first in the plan;
* `FocusIsRestored` (`FocusRestored`) - an action that gives the focus back is still to come, or the window has it, or it had it
  before and the restore has moved it away (`FocusOnCourse`);
* `RestoreIsReversible` (`Reversible`) - what is saved on the way shows the desktop that was found (`SavedShows`), what `trail`
  points to still shows it (`TrailShows`), and so does the target of the restore that takes it back (`OriginShows`). With
  the same windows open, each is matched to itself, and on-course windows that all agree are the desktop of then.

Alone, none of them says what is left to do, or what a file holds that is to be restored later; `RestoreInv` is their
strengthening. Its proof is where `Reversible` was found to need its exception (section 5).

Of the accessibility tree it proves `OneConnection` (`ConnectsOnce`), `WalkStaysBounded` (`WalkBounded`) and
`WalkInDocumentOrder` (`WalkIsPreorder`) for any number of clients and trees. For the first, connections made and
drops still to come are at most the failures taken for absence, plus
the one that is cached; who connects under the mutex has found none. For the second, the depths on the stack do
not decrease towards its top, and none is more than one below the element listed last. For the third (`OrderInv`), a walk nothing has
disturbed still reaches the bus, and what it has listed, followed by what its stack stands for from the top down, is the preorder;
children pushed in reverse stand for what the preorder has behind their parent (`KidsAre`).

`AgentSurfaceProofs` proves, of the parts of `AgentSurface`, for any profiles, chords, binds, writers, pages, names and references:

* `PrivilegeHolds` (`PrivilegeIsGranted`), `ChangesAreAskedFor` (`OnlyAskedForChanges`) - tool by tool, what a request changes is what its
  tool's groups are for (`BringsWhatItMay`); an undo brings about what an entry of the stack is of, and the
  agent's own entries are of what its profile grants (`ClosesAreGranted`);
* `NothingIsLeftDown` (`NothingStaysDown`) - a key that is down is owed a release by some chord under way
  (`Owed`), since in what is left of a chord every press is followed by its release (`Paired`);
* `ChordsArriveWhole` (`ChordIsWhole`) - while a chord is alone, what is down is what its own events so far have
  put down (`AloneIsWhole`), and before its key that is its modifiers;
* `PickedBindFires` (`RunBindIsThePress`) - under `PlainBinds`: the masks of all binds have none but the four modifiers.
  It cannot be left out: `decode_mods` drops the other bits, and then the bind may be another (section 5);
* `SnapshotsAreKept` (`SavedIsKept`) - the files of different names are apart, a save that overlaps no other of its
  name has its temporary file for itself, and no handler has a kept snapshot's file open;
* `TextIsAlwaysFound` (`TextIsFound`) - words of the table that stand next to each other do so among the words kept
  (`WordsStayTogether`), and every run of them that spells the query is found (`RunsAreFound`). Each word of a run shares a height with the
  one before, so their boxes leave no gap, every height of the box around them is one of theirs, and so is its centre (`RunClickable`).
  It rests on words being at least one pixel high, as `tesseract` reports them (`PagesAssumption`): a word without a height has no
  place to click, and `parse_tsv` does not look;
* `NamesComeBack` (`NamesSurvive`) - by the kinds of references; no two encodings share their prefix.

`McpBridgeProofs` proves, for any profiles, layouts and number of acts of others:

* `NothingHappensTwice` (`AtMostOnce`) - a plan has different stages (`PlanIsOnceEach`); what a call has yet
  to do has not been done, and the stage that is out is at one place: the request, the channel, or with the worker;
* `RestraintHolds` (`BothGatesAgree`) - the profile allows the call in progress, every effect still in its
  plan is one its tool may have, and the daemon that has the request is up, knows the agent's `dry_run`, and has
  a pointer if the command has gone to the worker;
* `RestartsAreCheap` (`RestartCostsOneCall`) - a connection or daemon that will not answer has broken
  since the last request;
* `ClicksLand` (`ClickLandsOnTarget`) - under `ScalesUp`: no output is scaled below one, where pixels of the element share
  a device pixel and rounding may miss them. At each stage of a call that is still calm, what it has seen and what it
  heads for, in the request, the channel or on the wire, is the middle of the element, and the button is not pressed before
  the pointer has arrived (`ClickInv`); scaling to the image and back is exact (`ThereAndBack`), and what reaches the
  device is less than a pixel from there (`MiddleIsHit`).

`SequenceLemmas` has what these proofs keep needing: that the function defined by a first value and a step exists
(`StepsExist`), proved without an induction theorem, from the least number that a set lacks (`UpTo`); and from it what
`FlattenSeq` is, step by step, what is in it and where (`FlattenSteps`, `FlattenRange`, `FlattenPlaces`). In this way
what the preorder, the box of a run and the joins are is proved although they are recursive.

The assumptions are `UndoStackAssumption`, `CacheAssumption`, `RulesAssumption`, `UndoDaemonAssumption` (a window that
is gone is on no workspace, and nobody's focus is no window), `SnapshotAssumption` (types, and finitely many windows), `AgentAssumption`,
`KeyAssumption`, `PagesAssumption` and `NamesAssumption` (the types of profiles, chords,
binds, pages and references; words have a height), `LifecycleAssumption`, `BridgeAssumption`, `LayoutAssumption` (finitely many outputs, the focused one
among them, placed from zero on), `ToolsAssumption` (an unknown tool is
refused before anything else) and `TreeAssumption`; TLC evaluates them on the runs' constants. The hypotheses of single
theorems, `Overlap = {}`, `EchoesInTime`, `Decay # 0`, `Unsigned`, `PlainBinds` and `ScalesUp`, hold of the passing runs too.

Every invariant of a passing run is proved. What remains with TLC is liveness (`EveryRequestAnswered`, `ShutdownReachesOne`, `SignalHonoured`,
`EventuallyCurrent`, `EngineHearsAgain`, `EveryCallAnswered`), which the prover cannot do.

## 5. Where the code and what it says part ways

Shown by a run:

1. With a rules file, `hyprpilot daemon stop` may stop the rules engine instead
   of the daemon (`daemon_stop_with_engine`).
2. A move off a special (or named) workspace is recorded with its negative number, which Hyprland reads as
   a step back: its undo puts the window elsewhere (`undo_special_workspace`).
3. `click_text` adds the origin of its region twice and clicks beside the text
   it found; without a region, or on one at the origin, it hits (`mcp_click_region`).

Stated as exceptions of a property that holds, so that the run shows there is no other:

* a cached value can be clean and miss a recognised change: an answer is
  written over the dirty flag, or the change fell between seed and
  subscription (`OnlyRacesEscape`);
* the focus is not restored when the restore itself takes it away, because the
  plan is computed before its actions run (`FocusRestored`);
* a restore can be taken back (server.rs:844 "so the operation is reversible") unless another restore of the same second
  has written over the snapshot it answered with: snapshots of restores are named by the second (`trail` in `Reversible`);
* a child that a node still lists although it is gone may appear in a walk or not, as its opening goes (`Complete` in
  `WalkIsPreorder`);
* `snapshot_save` and `snapshot_delete` are registered as mutating but have no `dry_run`
  (tools.rs:1312-1337), which mcp/lib.rs:25 and README.md:109-111 say every mutating tool has
  (`hasDry` in `BothGatesAgree`, `TakesDryRun` in `OnlyAskedForChanges`);
* an undo under a profile without `process` starts a program again, if a window was closed
  (`PrivilegeIsGranted`);
* a profile whose file cannot be read counts as `default_safe`, also when the file would grant less (`Granted`);
* two saves of one name share a temporary file, and can leave a torn snapshot behind a successful answer;
  nor is there the `fsync` of the comment at snapshot.rs:729 (`kept` in `SavedIsKept`);
* two chords pressed at once mix their modifiers (`heard.alone` in `ChordIsWhole`);
* a late "unavailable" drops a connection that is good (`unavail` in `ConnectsOnce`), while a bus that
  is dead is reported as `Bus`, which does not drop it, against the comment at server.rs:519-520;
* `ClickLandsOnTarget` leaves out the ways in which a click misses: outputs that changed while the
  worker was idle, whose events it reads only after it has sent the next move (the comment at
  virtual_pointer.rs:279 says before), or that were plugged in after its start; two outputs of the
  same scale other than one, which server.rs:467 calls exact (`Exact`); monitors that could not be
  read, which count as a scale of one; and `ydotool`, whose moves are subject to acceleration.

Seen with other constants of the same modules, without a run of their own:

* with an output at a scale of one half, `ClickLandsOnTarget` fails for an element of two pixels (`ScalesUp`);
* with two clients `TopIsLatest` fails: entries are pushed in the order of the mutex;
* with a user who does not wait (`Polite = FALSE`) `EntryTruthful` fails: a move is recorded for
  the window that was active before the dispatch;
* `AddressFirst` fails when two windows share a process and one of them is closed: its entry takes
  the other by pid, which a later entry names by address;
* with overlapping starts (`Overlap = {"start"}`) `OneDaemon` fails; with a start during
  another's stop (`{"stop"}`) `ServingIsReachable` fails, because the exiting
  daemon removes the path whatever it names;
* a rule on `openwindow` that runs `exec` fires itself again if the program opens its window
  later than the decay of 100 ms (`EchoesFireNothing` with a `Lag` above `Decay`);
* `ReadsAreLive` of `StateCache` fails: README.md:298 says "We do not cache.", which
  the daemon's read path no longer follows.

Read off definitions, and no property's business:

* keys.rs:15-17 lists `meta` among the names of super; `Modifier::parse` makes it alt (`ModifierOf`), and
  a displayed combo says `logo+`, which does not parse;
* `super+enter` fires a bind on `Return` when pressed, but `run_bind` finds none (`MatchesKey` folds no aliases);
* the bits of a bind's mask other than the four modifiers are dropped, so `run_bind` may run a bind that needs caps lock;
* ocr.rs:229 says intermediate words are not skipped; those of low confidence are, before the search;
* `close_window` by class or title is recorded only if that is the whole class or title, where Hyprland takes
  a regular expression;
* the dry run of `undo` is said to report the entry (tools.rs:906), and does not look at it;
* the command line's `click-text` does not divide by the scale of the output.

## 6. Not modelled

Environment assumptions: one capture's queries see one state of the desktop;
a tiled window is never exactly where a floating one was saved; every window has a
process and a class; power loss is left out (`write` does not `fsync`); Hyprland's choice of the next
focus is free; a rule's dispatch that times out takes effect before the timeout or never;
the monitors the daemon answers with are current when `McpBridge` asks (how stale a hit may be is
`HitsAreRecent`); the keys of one request are one effect in `McpBridge`, and events of their own in `Keyboard`.

Left out, with the reason:

* The command line, packaging: no state. Its requests appear as another client.
* Parsing of event lines and of Hyprland's JSON, JSON-RPC framing, schemas, the wording of previews and errors: pure
  conversions of text that no property here is about.
* `grim`, `tesseract`, `wtype`, the compositor: external; what the code makes of their answers is modelled.
* `libei`: a stub that refuses every call.
* Restarts of Hyprland itself, after which addresses in `undo.json` are of an earlier session, and the desktop
  behind the rules engine's actions: the two hazards without a property.
* Two restores of snapshots at once: a handler per client would double `SnapshotRestore`; each then disturbs the
  other, about which no property promises anything.
