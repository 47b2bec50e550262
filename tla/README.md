# A verification project for beadstui

`bt` (beadstui) is a terminal user interface over an issue tracker, `bd`. It loads issues
from a file, a Dolt server or an embedded database in the background, analyses them in two
phases, and keeps what the user sees up to date while files change, servers come and go,
and other instances run beside it. It also writes: claims and edits go to `bd` and come
back with a reload. This directory holds TLA+ modules of the parts that decide what the
user sees and what reaches the tracker, the TLC runs that check them, and theorems about
them that TLAPS checks. Every definition is translated from the Go code; `PROJECT.json`
gives the lines each one stands for.

Run a check with `tlc -workers 2 -config worker.cfg MCBackgroundWorker.tla`, a proof with
`tlapm WorkerProofs.tla`.

## 1. The system

### Parts that are modelled

| Part | State it keeps | Operations | What makes it correct |
| --- | --- | --- | --- |
| Snapshot worker, `pkg/ui/background_worker.go` | one record behind `w.mu`: `state`, `dirty`, `generation`, `lastHash`, `forceNext`, `currentRecipe`, `snapshot`; the process loop and its cancel function; `msgCh` | `Start`, `Stop`, `TriggerRefresh`, `ForceRefresh`, `SetRecipe`, `process`/`buildSnapshot`, `processLoop`, watchdog with `attemptRecovery`, `runPhase2Analysis`, `send` | one current builder; no lost wake-up; the dedup hash agrees with what is shown; published versions never regress; every loop can be cancelled; Stop ends everything |
| Dolt poll loop, same file | `lastModified`, first-poll flag, `consecutiveFails` | a poll: read MAX(updated_at), compare, trigger, report; reconnect on the third failure | a change it noticed is shown; the reported connection is the real one |
| Delivery, `pkg/ui/model.go`, `model_update_data.go`, `model_update_analysis.go` | `m.data.snapshot`, its `Phase2Ready`, `doltConnected`, the commands under way, open modals | `WaitForBackgroundWorkerMsgCmd`, `WaitForPhase2Cmd` and the handlers of their messages | what is published arrives, in order; Phase 2 results reach only their snapshot; pooled issues are returned only when unused |
| File watcher, `pkg/watcher` | `started`, `ctx`, `lastMtime`, `lastContentHash`; a debouncer's `seq` and timer; `changeCh` | `Start`, `Stop`, `watchFsnotify`, `watchPolling`, `notifyChange`, `Debouncer.Trigger`/`Cancel` | no change of the file stays unseen, whatever overlaps |
| Instance lock, `pkg/instance` | the lock file, a legacy lock file, `isFirst` | `NewLock`, `checkStale`, `Release`, migration | at most one first instance, which keeps its file; nobody alone is refused |
| Dolt server control, `internal/doltctl` | PID and port files, each instance's `ServerState` | `EnsureServer`, `StopIfOwned`, `UpdateAfterReconnect`, called by the start, the poll loop and the exit of `cmd/bt` | an instance stops only a server it started, forgets none it started as long as it exits by Stop, and is served again |
| Embedded snapshot cache, `internal/datasource/embedded.go`, `embedded_cache.go` | a snapshot file keyed by the hash of the manifest | `LoadIssues`: key, lookup, `bd export` with retries, write by rename | a load returns what the tracker had while it ran |
| Temporal cache loop, `pkg/analysis/temporal.go`, `pkg/ui/temporal_worker.go` | the days in the cache, a circuit breaker | `Populate`: ask for the days of a window, evict the oldest | recent days are kept; the breaker trips only when nothing is known |
| Pending writes, `pkg/ui/claim.go`, `field_edit.go`, `longform_edit.go`, `internal/bdexec` | a marker per issue, drafts, edit files, the commands that run | claim, edit, escape, editor, commit, result, settlement by a reload | no long text is lost; `bd` gets what was committed; every marker ends once a reload that looks at markers shows the write |
| User interface views, `pkg/ui/model_update_input.go` and the `*_keys.go` | view, modal, focus, search lines, list filter | who takes a key, and what it does | esc leads home; what is typed stays text; the focus fits the modal |
| Filters, `pkg/ui/model_filter.go` and its callers | status filter, label, recipe, query, projects, wisps; the rows of list, board, graph, epics | keys, pickers, snapshots, reloads, end of Phase 2 | what is shown is what the filters select in the data of now |
| Tree, history, board, `pkg/ui/tree.go`, `history.go`, `board.go` | rows, cursors, fold state, searches | their keys, clicks, loads and reloads | what is listed is current; cursors are on something; selections survive |
| Graph analysis, `pkg/analysis` | none but the loops' own | actionable issues, blocker chains, cascades, cycles, orders, cores, tracks | each result is what its definition says |

How they meet: the watcher puts a token in `changeCh`; the process loop turns it into
`TriggerRefresh`; that starts `process()` in a goroutine or sets `dirty`; `process()` loads,
compares hashes, builds, publishes `w.snapshot` in a second critical section, and only then,
outside the lock, sends `SnapshotReadyMsg`. The bubbletea program reads `msgCh` through a
command that waits for one message; the handler must issue the next such command. Two other
goroutines report Phase 2 of the analysis, one of the worker (`Phase2UpdateMsg`) and one
command of the user interface (`Phase2ReadyMsg`). For a Dolt source the poll loop takes the
watcher's place, and calls `EnsureServer` at its third failure; for an embedded one each
load goes through the snapshot cache. A snapshot that is shown, and a reload of a data
source, settles the markers of pending writes and fills the views again under the filters in
force; the reload of a file without a worker fills the views and leaves the markers, until a
slow one starts a worker. Ctrl+R and recipe changes call the worker from the event loop; the
watchdog calls it from its own goroutine and, after too many recoveries, stops it.

The hard behaviours are therefore: requests that arrive during a build; a build superseded
by a recovery that finishes arbitrarily later; state read in one critical section and used in
another; a Stop between the steps of a Start or a recovery; a bounded channel that drops its
oldest message; two messages about one snapshot on two ways; a deferred message; timers that
have fired when they are cancelled; callbacks that overlap; file system calls and servers of
several processes that interleave, with crashes; a command whose answer comes late; ten
paths that fill the same rows; long sequences of keys. `PROJECT.json` lists them as hazards,
each at its line, with the properties that would catch it going wrong.

### Parts left aside

| Part | Why |
| --- | --- |
| Analysis cache, `pkg/analysis/cache.go` | a memory cache with a time to live and a disk cache under a file lock; a candidate for a module |
| Activity events, `pkg/ui/events` | a bounded ring with write-through persistence; a candidate |
| History correlation, session search, updater, hooks | caches and one-shot procedures around git and external programs; the updater is a candidate |
| Snapshot building, data sources, loader, adapters | pure functions and reads: the worker's load and seal actions stand for them. What the pool promises about returned issues is a property of `WorkerUI` |
| Scores over floating point numbers (PageRank, betweenness, triage, search) | numerical, no state |
| Query language, recipes, projects, workspaces, drift, exports, tail, command line, data model | sequential code that reads once and prints, or mappings with no state of their own |

In the models a *version* stands for the data themselves: loading yields the current version
of the source, analysing it yields a snapshot of that version.

## 2. The modules

| Module | Models | Used by |
| --- | --- | --- |
| `BackgroundWorker` | the snapshot worker over a source with a file watcher | `MCBackgroundWorker`, `WorkerUI`, `DoltPoll` |
| `LatestValue` | the worker's promise to its readers, in five lines of behaviour | `BackgroundWorker` (`Promise == INSTANCE ... WITH`) |
| `DoltPoll` | the poll loop, on top of the worker's variables and `TriggerRefresh` | `WorkerUI` |
| `WorkerUI` | worker or worker with poll loop, composed with the user interface that reads it | `MCWorkerUI`, `WorkerProofs` |
| `Watcher` | the watcher, its debouncer, the file and the watcher's consumer | `MCWatcher`, `WatcherProofs` |
| `InstanceLock` | the lock protocol of several processes | `MCInstanceLock`, `InstanceLockProofs` |
| `DoltServer` | instances that start, share, reconnect to and stop a server | `Backends` |
| `EmbeddedCache` | loads of an embedded project through the snapshot file | `Backends` |
| `TemporalCache` | the days of the shared server | `Backends` |
| `Backends` | the three ways to the data, one of which a session takes | `MCBackends`, `BackendsProofs` |
| `PendingWrites` | modal flow, drafts, commands of bd, markers, reloads | `MCPendingWrites`, `PendingWritesProofs` |
| `Navigation` | which handler takes a key, and what it does | `MCNavigation` |
| `Filters` | every path that fills list, board, graph and epics | `MCFilters`, `FiltersProofs` |
| `Listing` | sets in an order and what is left of a list, for the views | `TreeView`, `HistoryView`, `BoardView` |
| `TreeView`, `HistoryView`, `BoardView` | the views with a selection of their own | `Views` |
| `Views` | a session in one of the three | `MCViews`, `ViewsProofs` |
| `IssueGraph` | three loops over the issues, step by step | `MCGraph`, `IssueGraphProofs` |
| `GraphAlgorithms` | cycles, orders, cores, cut vertices and tracks as operators | `MCGraph` |
| `...Proofs` | theorems | |

### BackgroundWorker

One action is one critical section of `w.mu` with the calls that follow it until the next
one, so actions of goroutines interleave exactly where the code lets go of the lock.

| Actions | Code |
| --- | --- |
| `StartLock`, `StartWatcher`, `StartLoop`, `StartTrigger` | `Start()` and the `TriggerRefresh` of `StartBackgroundWorkerCmd` |
| `Stop`, `StopCancel` | `Stop()`: the section that decides, then the cancelled context and the stopped watcher |
| `LoopToken`, `LoopExit` | the select of `processLoop` |
| `Recover`, `RecoverGiveUp`, `RecoverCancelLoop`, `RecoverWatcher`, `RecoverRestart`, `RecoverRefresh` | `checkHealth` and `attemptRecovery` |
| `UserRefresh`, `SetRecipe` | `ForceRefresh` and `SetRecipe` called from the user interface |
| `ProcessJoin`, `ProcessBegin` | the first critical section of `process()` |
| `BuildLoad`, `BuildFail`, `BuildDedup`, `BuildSeal` | `buildSnapshot` |
| `ProcessDiscard`, `ProcessCommit`, `ProcessNotify` | the last critical section of `process()` and what follows it |
| `Phase2Done`, `Phase2Check`, `Phase2Notify` | `runPhase2Analysis` |
| `FileChange`, `WatcherNotify` | the source and its watcher, seen from the worker; `Watcher` has the detail |

`spawned` counts `process()` goroutines that have not taken the lock; `proc` holds those
that have, with their locals, each forgotten after its last use. `Push` and `Send` are
`send()` with its overflow. Contents are versions 1, 2, ...; a content's hash is its
version, 0 the empty hash.

Simplifications, each of which leaves the interleavings as they are: the section that
captures the recipe is merged with the load that follows it (nothing between them depends on
what others do in between); the sections of `recordError` and of the hash update at the end
of `buildSnapshot` are merged; `Stop`'s cancellation of the context and the watcher's stop
are one step; the recovery's wait for the old loop is bounded by a timeout in the code, so it
delays nothing here. Time is not modelled: the watchdog may find its deadline passed at any
moment, which contains all the moments it really can. `TemporalCacheReadyMsg` only logs and
is left out.

### DoltPoll and WorkerUI

`PollBaseline`, `PollSame` and `PollChanged` are the outcomes of a poll that succeeds,
`PollFails` of one that does not, reconnect included; `PollRestored` and `PollVerified` are
the messages after it. A version stands for its modification time, and the server is external.

In `WorkerUI` a *chain* is a waiting command and its successors: `Receive` is the command,
`HandleReady`, `HandleOther`, `HandleConnection` and `HandlePhase2Update` are the handlers
of what it returned, each of which issues the next command. A snapshot deferred by a modal
stays with its chain (the code re-emits it every 200 ms and reads nothing else meanwhile).
`HandlePhase2Ready` is the end of a `WaitForPhase2Cmd` with its handler. `ForceRefreshKey`
(Ctrl+R) and `StartStep` (a failing Start) add a chain, as the code does. The variable
`mishaps` is history: what happened so far that can damage the delivery. The properties are
stated for behaviours without them, so that the exact excuses are in the formulas; the
constant `Followed` cuts off behaviours past a mishap where no property speaks of them.
`Kinds` names the messages an instance follows; leaving one out is sound since no message
acts on the worker. Stop and recovery are left to `BackgroundWorker`.

### Watcher

`Trigger` and `Cancel` are the debouncer's; `TimerFires` is a timer going off, `TimerRuns`
its function taking the lock and comparing `seq`. `LoopBegin`, `LoopExit`, `FsEvent`,
`PollStat`, `PollCompare` and `PollTrigger` are `watchFsnotify` and `watchPolling`, which
read `w.ctx` anew in each round. `CallbackCheck`, `CallbackRead`, `CallbackCompare` and
`CallbackSignal` are `notifyChange`. The file (`Write`, `Touch`, `Remove`, `Replace`) and the
consumer (`TakeToken`, and `Reload`, the refresh it requests after each `Start`) are
environment. The mode (fsnotify or polling, content comparison or not) is chosen at the
beginning and kept. Two callbacks may be under way; a third waits for a slot.

### InstanceLock

Each action is one file system call with the decision after it; `End` is the end of a
process at any of them. `TakeOver` is the write of a temporary file and its rename,
`TakeOverFails` to `TakeOverAgainFails` the fallback for Windows. `staleLockMu` is inert
here, each process calling `NewLock` once. `judged` is what `checkStale` has read. `company`
and `late` are history: who ran beside somebody, and whether a lock file was taken away from
a live instance that had claimed it. A PID is its process; reuse of PIDs and permissions are
not modelled.

### DoltServer, EmbeddedCache, TemporalCache, Backends

`DoltServer`: `main[i]` is where the main goroutine of an instance is, `ensure[i]` where its
call of `EnsureServer` is, `got[i]` what that call will return and `handle[i]` its
`ServerState`. `LaunchServed` to `LaunchLoad` are the start; `LaunchExits` is every exit
between the load that served it and the user interface (a wrong recipe, query or flag, an
empty list, a flag or a command that needs no user interface), `TUIFails` the exit after an
error of the user interface, neither of which calls Stop; `EnsureAttach` to
`EnsureTimesOut` are `EnsureServer`, each run of bd a step of its own; `PollFailed` and
`Reconnected` are the poll loop and `UpdateAfterReconnect`; `StopNotOwned`, `StopCheck` and
`BdStops` are `StopIfOwned`, whose look at the PID file and command are two steps; `Crash`,
`ServerDies` and `OtherStarts` are what may happen beside. bd is external: its start leaves a
running server alone, its stop stops the one the PID file names. The field `adopted` and the
variable `mishaps` are history: that bd told an instance of another's server as if it had
started it, that a server was replaced between look and command, that a server may have been
left behind: by a crash, an exit other than by Stop, a command that failed, a server that
was too slow, or an exit during a reconnect.

`EmbeddedCache`: `ReadKey` is the manifest's hash, taken first, `ReadSnapshot` the lookup,
`Export` and `ExportFails` the attempts, `WriteSnapshot`, `RemoveSnapshot` (Windows) and
`WriteFails` the temporary file and rename. `Commit` and `BringBack` are the tracker's.
`since` is history: the versions the data had since a load was called; `rewound`: that an
earlier manifest was brought back.

`TemporalCache`: `Sweep` begins `Populate` with the days of `Window`, the oldest first;
`AskLoaded` and `AskFailed` are one query, `EndSweep` the eviction and the circuit breaker;
`DaysPass` is time. `Backends` fixes one of the three modes for a session (`OfServer`,
`OfEmbedded`, `OfGlobal`).

### PendingWrites

The modal flow is `Request`, `Open`, `Type`, `Escape` (twice when something was typed),
`Escalate` and `EditorFinished` (`$EDITOR`), and the commits, which share `Dispatch`: refuse,
or set the marker with its target and start a command. `BdRuns` is bd, which succeeds, fails
or is given up on, having written or not; `Result` is `handleWriteResult`. `feed` says how
reloads come. From a worker or a data source (`"steady"`), `Load` and `Reload` are a load and
its arrival, with `Settle` as `settlePendingWrites`; it waits while a modal is open. Over a
file without a worker (`"file"`), `FileReload` is `handleFileChanged`, which reads and shows
in one step and looks at no marker; a slow one starts a worker, whose first snapshot
(`"first"`) does not wait for a modal. `Feeds` says with which a session begins. A text is a
number; the value of a field is a set of texts, so that notes and comments can be added to.
An edit file belongs to an issue and a field, and reaches the commands that have not read it
yet (`Saved`). `owed` is history: the long text last committed that bd does not have yet;
`disturbed`: issues a modal was opened for while a command of theirs was under way, or whose
command is said to have failed and had written; `overdue`: issues whose marker went for its
age alone. The last two are the excuses in the properties, since the code does not hold them
there (findings).

### Navigation, Filters and the views

`Navigation` keeps the Model as a record `m`; `Press(k, m)` is the set of what it may be
after a key. `Takes(n, k, x)` says whether the n-th of the thirteen handlers of
`handleKeyPress` takes a key, `Owner` is the first that does, `Handled` what it does, and
`Tail` the end of `Update`, where a key may still reach the list. Clicks, resizes and
messages are actions of their own.

`Filters` has one operator per path that fills rows (`SnapshotItems`, `applyFilter`,
`applyRecipe`, `Shows` and so on); a row is an issue with the status it had when it was
taken, so that stale rows can be told. `by` says which path filled the list last.

`TreeView`, `HistoryView` and `BoardView` each keep the code's model as a record (rows,
cursor, window, fold state, search) with one operator per method; `Views` runs one of them
in a session. A listing is `InOrder(S, R)`: the elements of the set `S` in the order that the
pairs of `R` say, which is what the code's sorts and walks produce. `NodesFrom` says which
paths of issues `buildNode` makes a node for, in place of its recursion: only the last issue
of a path may be one met before.

### IssueGraph and GraphAlgorithms

`IssueGraph` is `GetActionableIssues`, `GetBlockerChain` and `countTransitiveUnblocks`, one
action per round of a loop; where a map or a queue decides who comes first, any may.
`GraphAlgorithms` has `FindCyclesSafe`, `WouldCreateCycle`, the topological order, heights,
slack, core numbers, articulation points and tracks as the code computes them, with stacks,
bins and low points; `MCGraph` states what each must be and compares.

## 3. What the runs check

| Run | Module | Properties | What it shows |
| --- | --- | --- | --- |
| `worker` | `MCBackgroundWorker` | `SingleBuilder`, `FreshWhenQuiet`, `HashIsShown`, `LoopOwned`, `KeepsPromise` | safety of the worker under every interleaving of Start, Stop, recovery, refreshes, recipe changes and file changes, and that it implements `LatestValue` |
| `worker_live` | same | `EventuallyFresh`, `StopSettles` | with failures, a change is shown in the end or its load failed; Stop ends every goroutine, waits for Phase 2 included |
| `ui` | `MCWorkerUI` | `ChangesShown`, `Delivered`, `ConnectionHonest`, `PoolSafe`, `UINeverRegresses` | delivery from both kinds of source to the user, with a failing load, analysis or server in between |
| `ui_phase2` | same | `AppliedOwn`, `EventuallyReady` | Phase 2 results go to their own snapshot, and each snapshot looked at becomes ready |
| `watcher` | `MCWatcher` | `NothingLost`, `EventuallySeen` | no settled watcher leaves content unseen, in all four modes, and a change is seen in the end |
| `lock` | `MCInstanceLock` | `OneFirstUnlessLate`, `HolderKeepsLock`, `AloneIsFirst` | the lock with crashes and failing operations |
| `backends` | `MCBackends` | `NoServerLeft`, `StopsOnlyOwn`, `EventuallyServed`, `LoadsPresent`, `RecentDaysKept` | a server shared by two instances, a snapshot cache shared by two loads, sweeps over days |
| `writes` | `MCPendingWrites` | `CommittedKept`, `WritesCommitted`, `SettledWhenQuiet` | claims and edits of two issues with two commands that may fail, come late or be given up on, first over a file whose reloads leave the markers, then with a worker that a slow reload starts |
| `navigation` | `MCNavigation` | `EscLeadsHome`, `TypingStays`, `FocusFits` | every state of views, modals, focus and searches that keys, clicks and messages reach |
| `graph` | `MCGraph` | `ActionableIsFree`, `ChainExplains`, `CascadeComplete`, `AlgorithmsAgree` | the graph algorithms on every graph of the sizes below |
| `filters` | `MCFilters` | `ViewsHonest`, `ScopeKept` | filters changed in any order while snapshots, reloads and Phase 2 arrive |
| `views` | `MCViews` | `ShowsCurrent`, `FoldingSaved`, `CursorsFit`, `SelectionKept` | tree, history and board under keys, clicks, filters, searches, loads and reloads |

`CHECK_DEADLOCK FALSE` is in the configurations because the models do stop: the changes,
requests and faults of a behaviour are bounded, a stopped worker has nothing left to do, an
instance that released its lock is through, a program the user has left takes no key.

Each property has a mutant in `PROJECT.json`: a variant of one definition (next to it,
"Variant:") with a plausible mistake, under which that property fails; where a property is
about several modules or paths, each has one.

### Bounds

* Worker: `Proc` = two slots: a superseded or finishing `process()` beside a current one. A
  third would only repeat the roles of the second. `worker_live` has one slot and follows
  Phase 2 instead: there a new `process()` waits until the superseded one has finished. Two
  recipes in `worker`, so that a recipe change meets everything else. `MaxRecoveries` = 1 (3
  in the code): one recovery that succeeds and one that gives up. `MaxContent` = 2: an old
  and a new version; regressions and lost changes need no third. `MaxStimuli` = 1 and
  `MaxFaults` = 1 where they are not 0: one request in the middle of anything, one failure
  of load, analysis, watcher or server. Requests meet Stop and recovery in `worker`,
  failures meet them in `worker_live`, and requests meet failures in `ui`, whose worker is
  neither stopped nor recovered. `ChanCap` = 2 in `WorkerUI` (8 in the code), so that the
  channel can be full while one message waits behind another; 1 in the worker's own runs,
  which follow no message.
* `Watcher`: two changes, two lives, two goroutines, two callbacks: those of a first life can
  meet the second.
* `InstanceLock`: three instances, so that two take over while a third creates; two faults,
  for the fallback that fails as well.
* `Backends`: two instances and two ports, so that a server is replaced under an instance;
  two loads, two attempts each, three versions of the data (one before the key, one before
  the export, one after); a limit of three days under a window of four, over six days.
* `PendingWrites`: two issues, two commands, two edits or claims, one change of others: a
  second edit can meet the first write everywhere. Fields of every kind: one line, a text
  read from a file, notes that are added to, comments. `Feeds` is `{"file"}`: the first
  reload may start a worker and its first snapshot be shown before anything is written, so
  that this session contains the ones that begin with a worker. A change of others is a
  claim, of the issue that is edited or of the other, or takes an issue away. The excuse
  `overdue` of `SettledWhenQuiet` needs three edits, and no behaviour of this run uses it;
  see section 4.
* `Navigation`: every state; left out are keys whose view or modal differs from another one's
  by less than the properties tell apart.
* `IssueGraph`: every graph of four issues and every acyclic one of five; up to three
  dependencies among open, closed and missing issues; up to three parents beside a blocker;
  `MaxDepth` = 3 (50 in the code), so that the limit is reached.
* `Filters`: three issues over two projects, one a wisp, one blocked; two states of the
  source, one change. Views: a tree of four issues that a reload makes a branch, histories
  of four beads and three commits, a board of three cards that becomes one of four.

The theorems of section 4 hold for all values of the constants.

### Fairness

* `FairSpec` of the worker: weak fairness of all steps of running goroutines and timers
  *together* (`Internal`). The Go scheduler gives more, fairness to each. Requests, file
  changes, missed deadlines, Start and Stop are never obliged to happen.
* `FairUISpec`: the goroutines of Phase 2 and the command that waits for it are scheduled.
  This assumes that the analysis ends, which its own timeouts ensure.
* `Watcher`: each goroutine is scheduled, timers, callbacks and the consumer go on and a
  replacement of the file is completed, and a poller finds a newer modification time in the
  end.
* `FairSpec` of `Backends`: each instance goes on (`Progress`), since its goroutines are
  scheduled and the commands it waits for have time limits. Servers need not die nor users
  quit.

## 4. What is proved

TLAPS checks the following for all values of the constants; nothing is assumed but the named
assumptions of the modules (finite sets of goroutines, instances, issues and beads, bounds
that are natural numbers, recipes not named like a status filter, fields of disjoint kinds and
the like), which TLC evaluates in every run.

| Module | Theorems | Property |
| --- | --- | --- |
| `WorkerProofs` | `TypeCorrect`; `OneBuilder`, `NoOrphanLoop`, `HashNeverAhead`, `NoLostWakeUp`, `Refinement` | `SingleBuilder`, `LoopOwned`, `HashIsShown`, `FreshWhenQuiet`, `KeepsPromise` |
| | `EveryChangeShown`, `LastIsDelivered`, `LostIsTold`, `ScreenForward`, `PoolNeverEarly`, `MetricsOwn` | `ChangesShown`, `Delivered`, `ConnectionHonest`, `UINeverRegresses`, `PoolSafe`, `AppliedOwn` |
| `WatcherProofs` | `TypeCorrect`; `NoChangeLost` | `NothingLost` |
| `InstanceLockProofs` | `TypeCorrect`; `HolderOwnsLock`, `AtMostOneFirst`, `FirstWhenAlone` | `HolderKeepsLock`, `OneFirstUnlessLate`, `AloneIsFirst` |
| `BackendsProofs` | `ServerTypeCorrect`; `OnlyOwnStopped`, `NoServerForgotten`, `LoadsArePresent`, `CoveredDaysKept` | `StopsOnlyOwn`, `NoServerLeft`, `LoadsPresent`, `RecentDaysKept` |
| `PendingWritesProofs` | `NoTextLost`, `CommitIsWritten`, `MarkersEnd` | `CommittedKept`, `WritesCommitted`, `SettledWhenQuiet` |
| `IssueGraphProofs` | `ActionableIssuesAreFree`, `ChainIsExplanation`, `CascadeIsComplete` | `ActionableIsFree`, `ChainExplains`, `CascadeComplete` |
| `FiltersProofs` | `ScopeIsKept`, `ViewsAreHonest` | `ScopeKept`, `ViewsHonest` |
| `ViewsProofs` | `InvHolds`; `WhatIsShown`, `CursorsStay`, `FoldingIsSaved`, `SelectionStays` | `ShowsCurrent`, `CursorsFit`, `FoldingSaved`, `SelectionKept` |

Each rests on an inductive invariant; a lemma `...Next`, `...Kept` or `...Keeps` has one step
per action, and where an action can disturb several parts, one per part.

**The worker.** `IInv == TypeOK /\ Control /\ Loopless /\ LoopOwned /\ Builders /\ Ordered`.

* `TypeOK` alone is not inductive: `generation` and the loop numbers stay in range only
  because recoveries do not overlap, none begins before Start is through, and past the limit
  the worker is stopping or stopped: `Control`.
* `LoopOwned` needs `Loopless`: nothing runs before Start reaches its loop, and no
  cancel function is in `w.loopCancel` while a recovery replaces the loop, so that
  `startLoop` never overwrites the only handle of a live one.
* `SingleBuilder` needs that no `process()` carries a generation newer than the worker's
  (`NoFutureProc`): otherwise a recovery could make an old one current again.
* That published versions never regress needs `Ordered`: what the current `process()` holds
  is at least as new as what is shown. A superseded one may hold less, and is discarded.

`PromiseStep` maps every step to `LatestValue`: `FileChange` to `Change`, `ProcessCommit` to
`Publish`, `Stop` and a failing recovery to `Close`, the others to stuttering.

`FInv == IInv /\ Attended /\ HashTracked /\ Tracked` is about a worker that has not
recovered. `FreshWhenQuiet` says nothing of a busy worker, so `Tracked` names at every
moment who carries the obligation of a change: a pending event, a token, a `process()` that
was spawned, `dirty` or a rerun (`Wanted`), or else the running `process()`, whose locals
lead to the newest version on the screen (`Brings`). That the watcher is there to begin with
is `Attended`; that the deduplication drops no such build is `HashTracked`: the remembered
hash is that of the snapshot about to be committed, or of the one shown.

**Worker, poll loop and user interface.** `UInv == WInv /\ Ids /\ Announced /\ Applied /\
Orderly` builds on the worker's invariant; TLC checked it on the instance of `ui`, and with
all mishaps followed, before it was proved.

* `WInv` is `IInv` and `HashTracked` of a worker nobody stops or recovers, with the types of
  the poll loop. A Dolt source has no watcher: there somebody carries the version the last
  poll noticed (`Changes`, `TrackedTo`) instead of the newest one.
* `Ids`: snapshots are numbered as they are built, the sealed ones are newer than the one
  published, and a published one that nobody has announced belongs to one `process()`.
* `Announced`: what is in the channel, in a chain or on the screen was published and is no
  longer waiting to be announced. With it `Orderly` says that, with one chain and nothing
  overtaken, the snapshots in channel, chain and screen are in ascending order, and that
  what was recycled is behind the screen. This gives `PoolNeverEarly` and `ScreenForward`.
* For `LastIsDelivered`, `Shipped` names where the last published snapshot is while nothing
  has gone wrong: on the screen, with the `process()` about to announce it, in the channel,
  or in the chain. For `LostIsTold`, `Honest` says that while polls fail every message that
  says the server answers has the news that it is lost behind it (`Sobering`).

Each action is first reduced to what it does to the parts the invariant speaks of:
`WorkerKinds`, `UIKinds` and `PollKinds` say that a step builds, publishes, announces or only
chatters, and the invariant is proved of these. Two theorems have a hypothesis,
`"ready" \in Kinds` and `"lost" \in Kinds`: `Kinds` bounds which messages an instance
follows, the code sends all of them, and the instance of `ui` has both. Without the
hypothesis a message nobody follows would count as lost.

**The watcher.** `IInv == TypeOK /\ Bounded /\ Timed /\ Reading /\ BaselineShown /\ Carried`.
As above, `Carried` names who carries content the consumer has not seen: a token, a reload,
an event, an armed or fired timer, a callback (one past its reading only if it read the
present content), or the next poll. A callback signals nothing if the hash it read is the
baseline, so `BaselineShown` says that content whose hash is the baseline has been seen or is
signalled; `Timed` that the only timer armed is that of the last `seq`, so that a timer
which finds itself outdated has a successor.

**The lock.** `IInv` adds to the types that a file naming an instance was made by it
(`SelfNamed`, so that `Verify` reads what `TakeOver` wrote) and that a live instance between
creating the file and releasing it finds its file in place unless `late` (`Claimed`, which
speaks also of an instance that has created its file and not written it yet, where the
properties do not). `AloneIsFirst` is about an instance that never had company: `AInv` says
that all others are dead or have not begun (`OthersAbsent`), that the lock names nobody who
has not taken it (`NamedBegun`), that the legacy lock is gone past the migration
(`Migrated`), and, without faults, that a lock it finds stale is stale (`Undisturbed`) and
that it ends as the first or at a file nobody has finished (`Ended`).

**The Dolt server.** `Remembers == Typed /\ Working /\ Launching /\ OwnStarted /\ StillOwn /\
Current /\ Held`. Process numbers are drawn so that a new one is one nobody remembers;
`FreePid` shows by counting that there always is one. Then what an instance owns under a
server's number is a server it started (`OwnStarted`), and stays so between the look at the
PID file and the command unless the server was replaced (`StillOwn`); a running server is
held by its starter, in its `ServerState` or in the answer `EnsureServer` is about to give
(`Held`, `Current`), until a mishap. The exits that skip Stop are such mishaps, counted only
when the instance owns the running server: `NoServerForgotten` says that they and the others
listed are all the ways a server stays; `StoppedOnExit`, which is violated, that these need
no failure at all (section 5).

**The caches.** `InOrder`: unless an earlier manifest was brought back, the versions since
the call are exactly those from the key to the present, and the snapshot file is as new as
its key or newer, since it is exported after the key is read; so a hit is of a moment since
the call. The days: `Covered` keeps the cache inside the window the last sweep ended at, so
that fewer days than the limit lie after a covered one, and the eviction, by counting, keeps it.

**Pending writes.** `WInv == WTypes /\ Whole /\ Turns(i) /\ Marks(i)` for each issue `i` that
is not disturbed. `Turns`: its flows take turns, one command at a time and none while a modal
is open for it, so the result of a command retires its own draft, and its file has its text.
`Marks`: while a command runs the row waits for what the command will make of the field;
once it has succeeded, what the row waits for is in the tracker and will be read or shown
(`Arrived`; over a file without a worker it may be shown already, with the marker left). A
`FileReload` leaves markers as they are (`FileReloadKeeps`), and one that starts a worker
makes a read due, so that its first snapshot settles them. That is why `SettledWhenQuiet`
can be proved of every session that is not, or no longer, over a file alone.
The first attempt at `MarkersEnd` failed, and for a good reason: notes are added to those
shown, and these may lack an earlier addition whose marker went for its age before a reload
showed it. The row then waits for a text that no reload will ever show. TLC finds this with
`MaxEdits` = 3 (notes as the only field suffice, in place of the bound of two in `writes`);
it is a finding, and the excuse `overdue` of the property.

**The graph loops.** Each invariant relates what a loop has found so far to *every* set that
is closed under the rule (issues that hand down, explain, or free), so that the result is the
least one, and to what is still queued, so that nothing is missing at the end. For
the chain, depths in the queue are at least those of the entries and differ by at most one
along a dependency, so that each issue is listed at its distance.

**The filters.** `ViewsHonest` compares rows with the filters of now, whatever filled them and
whatever has changed since, so it is not inductive. The invariant says instead, for each way
to fill rows, which issues it took (`Given`); a path that changes filters or data without
filling again must leave what `Given` says of the way that filled last. `ViewsHonest` follows
because what each way takes is what the filters select, if the way was able to
(`Capable`). A snapshot may have been built for a recipe that has been dropped meanwhile: the
worker's part says that another build is then owed. `ScopeKept` needs only that every way to
fill keeps to the selected projects.

**The views.** `Inv == TreeInv /\ HistoryInv /\ BoardInv`, each of which its own steps keep
while the others rest.

* Finding a selected issue, bead or card again in a new list rests on the list having each
  element once. `Ranks` and the lemmas after it show this of `InOrder`, for any finite set and any
  strict total order, by counting what comes before an element; `ThinnedLists` shows it of
  what filters leave. That the orders of the code are such orders is proved of each
  (most commits, then most events, then the name; a path before those below it).
* `TreeInv` adds to `TreeIsCurrent` what the hash is worth by which a refresh decides whether
  to build (`HashHolds`): the tree of a hash is that of its data or a project's, which is why
  the property has the excuse `Overlooked` for a refresh. `SavedIn` is `FoldingSaved`, kept
  because every key that folds saves what is open, and every tree that is built loads it.
  `Follows` says of any window from the height the tree was given upwards what `CursorFollows`
  says of that of now. A child is shown only below a parent that is (`ParentShown`), so that
  jumping to a parent always finds a row.
* `HistoryInv` lets the lists be anything while a search goes on, except that in git mode all
  commits of the report stay (`GitFits`): ending the search then brings the rest back from
  the report and the filters.
* `BoardInv` is about every board, shown or not: reloads reach one that is not, and an open
  search is brought to the cards of now by each of them.

`SelectionKept` is an action property: each of its three parts is proved of the one step that
can replace the rows, from the invariant before it.

### Only model-checked

* Liveness (`EventuallyFresh`, `StopSettles`, `EventuallyReady`, `EventuallySeen`,
  `EventuallyServed`): fairness and `ENABLED` are out of the prover's reach.
* `GraphAlgorithms` (`AlgorithmsAgree`): recursive operators and folds, whose results for
  every input would need an induction over data.
* `Navigation` (`EscLeadsHome`, `TypingStays`, `FocusFits`): its state is a record of modes
  from sets that no constant enlarges, which TLC explores in full, so a proof would say no
  more than the run does.

## 5. Findings

`PROJECT.json` lists each with the line it contradicts. Where a property would state what
the code or its documentation means to hold, and it does not, the operator is in the module
and can be checked with the constants of a run of that module; the properties of the passing
runs are stated with the exact excuse in place of it.

| Operator | Module | What TLC shows |
| --- | --- | --- |
| `StoppedOnExit` | `DoltServer` | a server that `bt` started stays when it exits between its load and the user interface |
| `MarkersSettled` | `PendingWrites` | the reload of a file without a worker settles no marker and times none out; further writes to the issue are refused |
| `RecipeWhenQuiet` | `BackgroundWorker` | a build that captured the old recipe clears the `forceNext` of `SetRecipe`; the rerun is deduplicated and the settled worker keeps the old recipe |
| `FreshAfterRecovery` | `BackgroundWorker` | a superseded build still writes `lastHash`; the recovery's own build is deduplicated against a snapshot that was dropped |
| `WatcherOffAfterStop` | `BackgroundWorker` | a recovery that runs beside Stop starts the watcher again |
| `Phase2Applied` | `WorkerUI` | `Phase2UpdateMsg` before `Phase2ReadyMsg` marks the snapshot ready and nothing applies the results |
| `VerifiedIsCurrent` | `WorkerUI` | the first poll takes a change after the initial load as its baseline and reports the data verified |
| `NothingDropped` | `WorkerUI` | behind a long-open modal the channel overflows and drops snapshots |
| `BaselineCurrent` | `Watcher` | of two callbacks that overlap, the one that read first may compare last |
| `OneFirst` | `InstanceLock` | an instance that judged the lock stale before another took it over renames over it, and both are first |
| `FilterSurvivesReload` | `Filters` | a snapshot of the worker empties the list under a query or a status its switch does not know |
| `SuggestedEdgeExists` | `MCGraph` | the dependency a cycle warning offers to remove may not exist |
| `ClickHits` | `TreeView` | a click may select the row below the one under the pointer |
| `SearchNarrows`, `RelatedFits`, `SearchKeepsFilters` | `HistoryView` | what a search without a hit, a regrouping and a threshold make of each other |
| `TypingGoesOn` | `BoardView` | a snapshot ends a search that is being typed |

The others are visible in the history variables (`disturbed`, `overdue`, `adopted`,
`replaced`, `rewound`, `late`, `mishaps`) or in what an action does. They are why
`FreshWhenQuiet` and `HashIsShown` speak of workers that have not recovered, and why the
lock's properties excuse `late`.

## 6. Plan

Open, most important first:

1. `AnalysisCache`: time to live, eviction and the disk lock.
2. `EventRing`: wrap-around, persistence and truncation, against a reference definition.
3. The updater: download, replacement and rollback with crashes in between.
4. A composition of `Watcher` with the worker, in place of `FileChange` and `WatcherNotify`,
   with `NoChangeLost` as the lemma that replaces them.
5. The detail pane and the expanded card of the board, with the scroll offsets of the history.
