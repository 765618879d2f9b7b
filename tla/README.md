# A TLA+ model of DexRx

DexRx computes a graph of nodes reactively: every node is an RxJS
`BehaviorSubject`, a node with inputs recomputes when one of them emits, and an
engine adds, updates and removes nodes, and starts, pauses, resumes, stops and
destroys the whole. This directory holds TLA+ modules of its core, TLC
configurations that check them on small instances, and proofs for instances of
any size. Paths below are relative to `src/lib/dexrx/src/`.

## The system

| Component | State | Operations | Modelled in |
|---|---|---|---|
| Engine, registries and lifecycle (`engine/engine.ts`) | the maps of definitions, subjects, wrappers, destructors and subscriptions; the state; deferred updates | addNode, updateNode, removeNode, start, pause, resume, stop, destroy | `EngineLifecycle`, `EngineContract` |
| Engine, dataflow (`engine/engine.ts`, `engine/node.ts`) | values, RxJS pipelines, `activeObservableNodes`, `pendingSkipComputationHooks` | computations, errors, skips, completion | `Dataflow` |
| Cycle detection (`engine/engine.ts:271`) | none | detectCycle | `GraphDefs` |
| Stabilization (`graph/graph.ts:795`) | a poll, a hook handler, a timeout | waitForStabilization, used by execute and run | `Dataflow` |
| Node worker pool (`utils/execution/node-worker-context.ts`) | workers, pending tasks, tasks per worker | execute, message and error handlers, terminate, waitForTermination | `NodeWorkerPool`, `TaskContract` |
| Executable graph (`graph/graph.ts`) | its engine, subscriptions, two flags | execute, run, stop, importState, updateGraph, updateNode, destroy | `ExecutableGraph` |
| Engine snapshots (`engine/engine.ts:2046-2439`) | a snapshot | exportState, importState | `EngineImport`, `ImportContract` |
| Web Worker pool (`utils/execution/web-worker-context.ts`) | a queue of tasks, workers, registered plugins | initialize, execute, registerPlugin, handlers, destroy | `WebWorkerPool`, `TaskContract` |
| Node cache (`engine/node-cache.ts`) | entries with TTL and access times, options per node | get, set, eviction, invalidation, clean-up | `NodeCache` |
| Memory cache (`providers/memory/cache.ts`) | entries with TTL | get, set, eviction | not modelled |
| Graph operators (`operators/`) | none | pure builders, topologicalSort | `GraphAlgorithms` (topologicalSort) |
| Hook manager, plugin registry, main-thread context, other memory providers, logging, input guard, environment | one map or none | | not modelled: no behaviour of their own beyond a map or a format |

How they interact. `ExecutableGraph` owns an engine, subscribes to its nodes and
polls its statistics until no task is active. The engine calls a node wrapper,
which calls the plugin or an execution context (main thread, Web Workers, Node.js
workers). Values travel between nodes by `subject.next`, synchronously, except
that a pipeline resolves its inputs with `Promise.all`, which costs one microtask.
Skips travel as exceptions (`SkipInputException`) to `handleComputeError`, which
may pause the engine from inside a computation, and then as a
NODE_SKIP_COMPUTATION hook to the waiting graph.

What is hard here. Everything runs on one thread, but calls nest (a computation
pauses the engine that is subscribing it) and timers, microtasks and worker
messages interleave between calls. `PROJECT.json` lists the hazards one by one.

## The modules

`GraphDefs` has the definitions of nodes and the cycle check, twice: as reachability
(`DetectCycle`, which the other modules use), and as the search it is in the code, whose
set of visited nodes is copied at each call (`Search`, a function of the path and the
node). `GraphAlgorithms` has topologicalSort, a recursive function of the path, the node and
what is sorted so far that throws on a node of its own path, and the reordering of
importGraph. Both are compared with reachability on every graph the engine reaches, with one
more edge put in; `EngineLifecycle` extends them for that.

`EngineLifecycle` has one action per public call and one per iteration of the
loops that a call runs over the nodes. JavaScript runs a call to completion, so
what remains of a loop is in the variable `todo` and no other call starts while it
is not empty; the iterations are steps because a computation in one of them can
pause the engine or throw. A call that throws before it changes anything is not an
action. Correspondence: `defs`, `subjects`, `wrappers`, `destructors`,
`subscriptions` are the maps of the same names (`engine.ts:113-151`); `order` is the
insertion order of the map of definitions; `deferred` is `nodesToUpdateOnResume`;
`timers` are the 10 ms timers of resumeAllSubscriptions (1712-1718) with the updates
they captured. `leaked` has no variable in the code: it holds subscriptions that
were overwritten while live. A subscription remembers which inputs it is `wired` to,
and which of those subjects completed or were replaced (`dead`). Values are not in
this module. `pausedSubscriptions` is not either: its entries are closed
subscriptions that nothing reads. A source whose Observable completed still counts as
subscribed. Handlers of hooks are assumed not to call the engine.

`EngineContract` is the abstract engine, in two variables: the phase of its life and
its graph. `EngineLifecycle` implements it with `state` and `defs` (`KeepsContract`);
calls that change several nodes are several steps of it, with an acyclic graph between
any two. `ImportContract` adds imports to it and one variable, the import under way: the
phase in which it found the engine, and the phase and the definitions of its snapshot. An
import ends in the snapshot's phase if all the snapshot's nodes are in (`Finish`), and in
the phase it found if some are not (`Fail`); no other end is allowed. `EngineImport`
implements that as long as no call has overlapped an import (`ImportKeepsContract`), its
own record of the import under way being the variable (`Underway`).

`EngineImport` extends `EngineLifecycle` by snapshots. `importing` holds what
importState keeps across its await (the nodes still to restore, the snapshot, the state
before) and whether it waits; if it does, any action of `EngineLifecycle` may run. The
code waits only for `cacheProvider.importNodeCache`, which the interface of cache
providers declares and none in the repository has. `overlaps` counts the calls that ran
meanwhile and `unsubscribed` is history: a failed import has put "running" back over
nodes it has left. `BeginImport` takes a snapshot just exported (`Exported`) or one from
elsewhere, and clears the engine in the same step as the code does. The options are
constants, so `preserveOptions = false` (2203-2205), which takes over those of the snapshot,
is left out. Nodes are restored
without the cycle check and without subscriptions. Values and cached data are left out:
at that point nobody listens to the new subjects.

`Dataflow` fixes the graph and follows values through it. `queue[m]` holds the
resolved inputs waiting for the microtask of pipeline m, `jobs[m]` its computations
in flight, `open` the sources that have not completed; `active` and `pending` are
`activeObservableNodes` and `pendingSkipComputationHooks`; `outcome` is what the last
`waitForStabilization` returned. A value is one of `init`, `skip`, `null` (the value
of a failed computation) and `ok`. `fresh`, and the bit `latest` of an item of `queue`
or `jobs`, are history: they say whether a value was computed from what the inputs
show now. No guard reads them. A source that is subscribed may emit inside its own
subscribe call, in the middle of the loop of recreateNodeSubscriptions (`Turn`).
Debounce, throttle and distinct are left out; so are updates that change inputs
and a source that skips inside its own subscribe call, in the middle of the loop, both of
which `EngineLifecycle` has. A computation ends with one value: a plugin may also return an
Observable of several values, or of none, and what then follows is not modelled.

`NodeWorkerPool` models the main thread of the pool, and its workers as an
environment that answers a task, fails with an `error` event, or (`MayExit`) ends
without one. `load` is `pendingTasksByWorker`, by position in `workers` as in the
code; `status[t]` is the promise of task t; `inbox` and `outbox` are the message
ports. `alive` and `created` belong to the workers. waitForTermination
(`WaitForTermination`) ends the threads itself and tells the pool nothing: the workers stay
in its list, and it posts them more tasks. Whoever ends a thread so, it is in `ended`, a
history variable that the properties name as an exception. The engine's destroy calls it
right after terminate (`engine.ts:1031-1038`), which has emptied the list by then, so it waits
for nobody there. `Answer` is the script of 168-269, of which the answer is kept and the
computation is not.

`WebWorkerPool` models the pool of browser workers, which is another design: tasks go
round robin by number, an entry of `taskQueue` stands for both the promise and its
timer, an error event rejects all tasks and takes its worker from the pool without
terminating it, and plugins are announced to the workers of the moment. The public
initialize() may be called again (`Initialize`): it adds the workers of a new pool to those
there are, also after destroy, and tells them of no plugin. `answers` and `erred` are events
the main thread has not handled; `inbox`, `alive` and `knows` belong to the workers. Task
numbers begin at 0 as in the code, where the answer to number 0 is taken for one without a
number.

`TaskContract` is what both pools promise their callers: a call is settled at most once
and resolved only with its own result. Each pool implements it (`KeepsContract`).
`SequenceFacts` has lemmas about sequences (what Tail, Append and the removal of one item
leave, and in which order) that the other proofs use.

`ExecutableGraph` models which engine a graph has and whether `isRunning`, the
handlers and the definition agree with it. An engine is its EngineState (`estate`) and
the definition it holds (`content`), `Partial` if its nodes are of no one definition, as
after a failed import, with a flag for updates it has deferred (`late`); `engine` is
`this.engine`, `handlers` the engine that `activeSubscriptions` listen to, `waiting` a
poll of `waitForStabilization`, `importing` an importState before its await has ended.
Calls that throw before they change anything are not actions. A definition is
`Refused` if a plugin is missing, so that importGraph and importState throw
half-way; `Malformed` nodes fail the checks of updateGraph. The engine's importState
counts as one step: no cache provider of the repository has an importNodeCache to wait
for. updateNode changes both the engine and the definition, or, if the engine is
paused, only the definition; what the timer then makes of the engine (`LateUpdates`) is any
of the definitions, for calls in between may have changed its nodes. `used` is history: it
records what callers did out of the ordinary, from a fixed list (`Habit`), and each property
names the habits under which it is not claimed. TLC refutes it if one of them is left out, so the list is part of what is shown:
observeNode before run() loses the handlers, getStats or exportState before run() make
it throw, updateNode of a paused graph shows nodes its engine does not have (yet),
destroy() during execute() brings an engine back, and a call during
importState leaves an engine running out of reach.

`NodeCache` is the built-in cache. `cache` merges the two levels of maps of the code
into one, by node and key; `options` holds what is in force for a node after the
defaults; `peak` is history, the largest limit a node has had since it was last given
one while empty. A key stands for the inputs and configuration of a computation. The
engine writes by precomputeNode only (`Precompute`), and never reads: `Get` is for the
other callers of a cache. Removing a node leaves its entries in the cache, so nodes are
a constant. Values and statistics are left out.

The modules named `...Proofs` hold the theorems; the `MC` modules hold the instances.

## The runs

Each mutant in `PROJECT.json` is a plausible slip in one modelled definition that makes its
property fail, so that each property is known to depend on the code.

| Run | Instance | What it shows |
|---|---|---|
| `lifecycle` (`MCEngineImport`) | 2 nodes, definitions that close a cycle, an unknown plugin, two snapshots from elsewhere and those of the engine itself, ASYNC, one timer, one call that overlaps an import | The maps agree in every state, also in the middle of a turn or an import (`RegistriesAgree`), the engine implements `ImportContract` (`ImportKeepsContract`): no cycle is accepted, also by importState, which does not look for one, an import that put in its whole snapshot ends in the state the snapshot names, and any other in the state it found; a running engine at rest has subscribed all nodes with inputs (`ImportedIsSubscribed`), and deferred updates are not lost before their timer has them, but by an import (`DeferredHandedOver`) |
| `lifecycle_ordered` | 3 nodes that callers add after their inputs, ASYNC, no skip while a source is being subscribed | A paused engine is silent (`QuietUnlessRunning`), nobody listens to a removed subject (`NoDeadInput`), a deferred update takes effect (`DueUpdateApplied`); detectCycle finds exactly the cycles (`SearchDecides`), topologicalSort puts inputs first (`SortPutsInputsFirst`) |
| `dataflow_sync` | 2 sources, 1 slow operational node, backlog 2 | A deferred hook has a computation that will emit it (`HookHasWaker`) and is emitted (`DeferredHookEmitted`); a node comes to show an older result for good only by the answer of a slow plugin that its answer to newer inputs overtook (`OnlyOldAnswersHide`) |
| `dataflow_async` | a diamond of 3 nodes, updates, backlog 2 | When no inputs wait to be computed from, the value of every node whose plugin answers at once follows from those its inputs have (`QuietMeansConsistent`); only updateNode leaves a deferred hook with no active node to wait for (`OnlyUpdatesStrand`); with plugins that answer at once execute() ends only when nothing is being computed (`StabilizedMeansDone`) |
| `pool` | 3 workers of which 2 at a time, 3 tasks | The count per worker is exact (`LoadIsPending`), no pending task is forgotten (`PendingIsUnderWay`), every task is settled without its timeout (`SettledWithoutTimeout`), the last two unless its worker ended without an error event, by itself or by waitForTermination; and the pool implements `TaskContract` (`KeepsContract`) |
| `web_pool` | 3 workers, of which up to 2 at the start and the rest to replace them or to join by a second initialize, 3 tasks, 1 plugin | Every awaited promise has its entry and only tasks that could not be posted leave one behind (`QueueAgrees`); no task but the number 0 is forgotten or needs its timeout (`PendingIsUnderWay`, `SettledWithoutTimeout`); only workers that raised an error run outside the pool (`StraysHadErrors`), and none joins after destroy but by initialize (`DestroyedIsEmpty`); the first workers know every plugin, and an older worker what a younger one knows (`RegisteredIsKnown`); the pool implements `TaskContract` (`KeepsContract`) |
| `graph` | 3 engines, 3 definitions of which one is refused | No engine runs out of the graph's reach (`NoOrphan`), `isRunning` tells the truth (`FlagAgrees`), the handlers listen to the engine that runs (`HandlersAttached`), which computes the graph's definition (`RunsDefinition`), and a destroyed graph runs nothing (`DestroyedRunsNothing`), each but for the habits it names |
| `cache` | 2 nodes, 2 keys, 3 entries, limits per node of 3, 1 and 0 | The limits hold however they change (`WithinGlobalLimit`, `WithinNodeLimit`: a lower limit is not enforced at once, and a limit of 0 keeps one entry), a write costs at most one entry, which none of the same node outlives that was used less recently (`EvictsLeastRecent`) |

Four runs find a disagreement between the code and its own words:

| Run | The words | What the code does |
|---|---|---|
| `remove_while_paused` | "If engine is paused, save update for application on resume" (`engine.ts:674`) | b reads a; while paused, b is updated, then a removed: the update is replaced by b's old definition without a. Without removals (`Preserve = {}` in the configuration) TLC finds another way to the same violation: an engine that is paused again before the 10 ms timer of its last resume has fired, and is given a newer update, has it replaced by the older one of the timer (`engine.ts:1713`) |
| `overlap` | "no active tasks ... the main indicator that graph has completed all computations" (`graph.ts:921`) | Two computations of one node overlap; the first to end removes the node from the active set |
| `stuck_hook` | "ASYNC_EXEC_MODE: complete stabilization immediately on SKIP_COMPUTATION" (`graph.ts:845`) | pause() closes a source but leaves it in the active set; the deferred hook is never emitted |
| `graph_import` | "For long-running graphs: pauses graph, imports state, then resumes" (`graph.ts:614`) | Every snapshot has the state INITIALIZED, so the resume at the end throws and the graph stays stopped with `isRunning` set |

### Bounds

`MaxTimers` = 1: batches of deferred updates wait for 10 ms each; one batch, and a
second resume only after it, already meets pauses, removals and newer updates in
between; in `lifecycle`, of that batch and what is deferred meanwhile one has a single
update (`ThreeUpdates`). `MaxBacklog` = 2: two computations of one node are enough to
overlap and to overtake each other. Two nodes suffice for a cycle, for a dependent and its input and
for a loop of two iterations; `lifecycle_ordered` has three so that one removal
reaches two dependents and a batch has several updates. `MaxOverlaps` = 1: one call that
runs while an import waits already adds, removes, starts or destroys under it, and no
property but the agreement of the maps is claimed after one; nothing is explored behind
the end of such an import (`BeforeOverlapEnds`). One import runs at a time. Three tasks on
two workers put two tasks on one worker, and the third worker lets one crash be repaired and
a further one not; in the Web pool it may also be what a second initialize adds. One plugin
can be registered before and after a repair. In `graph`, nothing is explored behind a call that overlapped an import
(`BeforeOverlaps`), after which only the types are claimed. Three engines are one
that is stopped, one that replaces it and one more after an import or an update.
In the cache, two nodes of two keys can exceed the limit of three entries, an
entry written at time 1 is used at 2 and expired at 3, and one hit tells an entry from
another of the same time.
Symmetry is used for `ExecutableGraph` and `NodeCache`, which have no liveness properties.
Deadlock is not checked: an engine that is destroyed, or a pool whose tasks are all
settled, may stop for good.

### Fairness

`EngineLifecycle`: a turn ends (JavaScript runs to completion), and a timer that is
due again and again fires (strong fairness, for other turns run in between). Callers
owe nothing. `EngineImport`, `ExecutableGraph` and `NodeCache` assume none. `Dataflow`: loops and microtasks run,
sources end, slow plugins answer, the poll continues; the timeout owes nothing.
`NodeWorkerPool`: the event loop
delivers events and a running worker answers its tasks; crashes, exits and timers owe
nothing. `WebWorkerPool` assumes the same: a worker's script that fails to load answers
nothing in the browser, but it does raise the error event that settles its tasks.

### Known weaknesses that the properties name as exceptions

These were met while modelling. Each is in the model, and a property would be false of it; the
property says so and claims the rest. No run is given to them: for most, the code's comments
say no more than the code does.

| Where | What the code does | Stated in |
|---|---|---|
| `web-worker-context.ts:95` | The answer to the first task of a pool, number 0, is thrown away, and its timer settles it | `PendingIsUnderWay`, `SettledWithoutTimeout` of `WebWorkerPool` claim nothing of number 0 |
| `web-worker-context.ts:135` | "Reject all tasks related to this worker": every task of the pool is rejected, as in `node-worker-context.ts:374`, "Reject all tasks of this worker" | `HitByError`, `RejectOnCrash` |
| `web-worker-context.ts:152` | A worker that raised an error is taken from the pool and never terminated | `StraysHadErrors` claims the others are |
| `web-worker-context.ts:391` | A worker made to replace another is told of no plugin registered before | `RegisteredIsKnown` |
| `node-worker-context.ts:400` | The late error event of a worker that terminate ended creates a worker in a terminated pool | `Recreate` does not ask for `terminated` |
| `node-worker-context.ts:583` | waitForTermination leaves the workers it ended in the pool; called after terminate it waits for no worker | `WaitForTermination`, `ended` |
| `engine.ts:1726` | A source that skips inside its own subscription pauses the engine, and the loop goes on subscribing it | `QuietUnlessRunning` is claimed without such sources |
| `engine.ts:2327` | A failed import says "running" again over nodes it left unsubscribed | `ImportedIsSubscribed` names it (`unsubscribed`) |
| `graph.ts:158, 404, 674, 717, 918, 1410` | The habits of callers that `ExecutableGraph` lists | each property of `ExecutableGraph` |

## What is proved

All theorems hold for any constants that meet the assumptions `LifecycleAssumption`,
`DataflowAssumption`, `SnapshotAssumption`, `PoolAssumption`, `WebPoolAssumption`,
`GraphAssumption` and `CacheAssumption`, which give the constants their types and say that
the first workers of a pool are distinct, that every node is subscribed in turn, and that
no snapshot has a cycle (those an engine exports have none: this is the theorem
`Acyclicity`). Some theorems have a hypothesis more, named with them below, together with
the behaviour of the code that makes the property false without it. No theorem bounds the
number of nodes, tasks, workers, engines, updates or emissions.

### The engine (`EngineLifecycleProofs`, `EngineImportProofs`)

* `TypeCorrect`: `TypeOK`.
* `Acyclicity`: `AcyclicDefs`. It rests on the lemmas that a graph that was acyclic stays
  so when the definition of n changes and n is not reachable from its own new inputs, and
  that it stays so when inputs or nodes are taken away. `AcyclicDefs` needs no
  strengthening except the types.
* `Registries`: `RegistriesAgree`, from `TypeOK` and itself. It is already the
  strengthened form: that a subscription is one for the current definition follows only
  with the clause that its wrapper is.
* `ContractKept`: `KeepsContract`, each step of the engine being one of `EngineContract`
  or none. It needs the types and `AcyclicDefs`.
* `RunningSubscribed`: `RunningMeansSubscribed`, without hypotheses. In the middle of
  a turn a node may be unsubscribed because the loop of a start, a resume or a batch of
  updates has still to come to it (`Pending`); the invariant (`ServedInv`) allows for that,
  and rests on `RegistriesAgree` and on what a turn under way can be.
* `SilentUnlessRunning`: `QuietUnlessRunning`, if no source skips inside its own
  subscription in ASYNC mode (`NoSyncPause`). Such a skip pauses the engine in the middle
  of recreateNodeSubscriptions, and the loop goes on subscribing a paused engine.
* `NobodyDeaf`: `NoDeadInput`, under `NoSyncPause` and `CleanRemovals`: every plugin is
  known and no subject is preserved. The update that removeNode makes of a reader is
  refused if the reader's plugin is unknown, which ends the loop with the other readers
  still subscribed to the removed subject; and a preserved subject outlives its node, so
  that adding the node again replaces it under its listeners. The invariant (`HeardInv`)
  follows a removal through its loop: who still listens to the removed subject is still
  to be updated.
* `NothingForgotten`: `DeferredHandedOver`, step by step: each action replaces an entry of
  `deferred`, hands all of them to a timer, or clears them with the nodes.
* `SearchIsExact`: `SearchDecides`, if the nodes are finitely many. `Search`
  is a function defined by an equation over paths. Reachability relative to a path
  (`Finds`) solves that equation, so the function exists; and as a path grows until no node
  is off it, which a least counterexample in the number of those nodes turns into a
  contradiction, it is the only solution.
* `SortIsRight`: `SortPutsInputsFirst`, if the nodes are finitely many. The recursion of
  topologicalSort ends because a path never holds a node twice: the visitor of a path is
  defined by those of longer paths, which the argument above turns into a function. A visit is
  shown to do what its caller relies on (`VisitsWell`) for every path from the longest down:
  it finds a part of the nodes sorted, none of it on the path (`Ready`), and adds to it or has
  met its own path, which is a cycle (`Added`). Each node goes in after its inputs, and moving
  the sources to the front takes none of them behind its readers.
* `ImportTypes`, `ImportAcyclicity`, `ImportRegistries`, `ImportForgetsNothing`:
  `ImportTypeOK`, no cycles, `RegistriesAgree`, `DeferredHandedOver` with imports. The steps of `EngineLifecycle` are covered by its own step lemmas. For the
  cycles the invariant adds that, as long as nothing has overlapped an import, the nodes
  are those of the snapshot that are not still to come; a part of an acyclic graph is
  acyclic.
* `ImportContractKept`: `ImportKeepsContract`, step by step: an import clears the engine in the
  step that begins it, and each node is put where none was. The strengthening (`Restored`) says
  that the nodes of the engine are those of the snapshot that are not still to come; so an
  import that has none to come has put in the whole snapshot and must end in the state it
  names, and one that stops at a node has not, and must end in the state it found. It is also
  why no cycle is closed, as in `ImportAcyclicity`.
* `ImportSubscribes`: `ImportedIsSubscribed`. An engine is not running while it is imported
  into, until the last step, which starts the loop that subscribes.

### The values (`DataflowProofs`)

* `TypeCorrect`: `TypeOK`.
* `OnlyUpdatesStrandHooks`: `OnlyUpdatesStrand`, over all actions but updateNode: each that takes
  a node out of the active set releases the hooks if it was the last.
* `HooksWake`: `HookHasWaker`, if there are no updates and no source throws when it is
  subscribed. Of two invariants, `ActiveInv` says what an active node of a running
  engine is: an open source, a computing pipeline, a source the loop has still to subscribe,
  or one of `MayThrow`; and `HookInv` that a hook waits only for an active set that is not
  empty. An update can take the last active node out of the set
  without emitting the hooks (`engine.ts:913`); a source that was active when the engine
  paused and throws when it is subscribed again is never taken out. `WakerFound` is the
  statement with that second exception in it instead of excluded.
* `OnlyOldAnswers`: `OnlyOldAnswersHide`, with slow plugins and without hypotheses. A node
  `Follows` its inputs if it shows what follows from them, has them in its queue, computes
  from them, or lacks one. The invariant (`QueueInv`) says that a queue ends with the latest
  inputs; then each action that changes an input leaves a wakeup behind it, and each that
  takes a wakeup or a job passes it on.
* `QuietConsistent`: `QuietMeansConsistent`, without hypotheses: it claims nothing of slow
  plugins, whose answers overtake each other (`engine.ts:1846`), but they may be anywhere in
  the graph. By `OnlyOldAnswers` a pipeline with a fast plugin follows its inputs from its
  subscription on, and `LoopInv` says that a running engine has subscribed every pipeline the
  loop does not have still to come to.
* `DoneWhenStabilized`: `StabilizedMeansDone`, if every plugin answers at once; the run
  `overlap` refutes it with slow ones. `SourcesDoneWhenStabilized` is what remains
  without the hypothesis: no source is open.

### The pools (`NodeWorkerPoolProofs`, `WebWorkerPoolProofs`)

* `NodeWorkerPoolProofs!TypeCorrect`: `TypeOK`.
* `NodeWorkerPoolProofs!CountCorrect`: `LoadIsPending`. By itself it is not inductive:
  an answer is subtracted from the worker that sent it, and only `PostedIsHeld` says
  that this is where the task was counted. A crash re-indexes the pool and forgets all
  counts, which is right because it has rejected every pending task first.
* `NodeWorkerPoolProofs!NothingForgotten`: `PendingIsUnderWay`, from the types, the count and
  the fact that a worker that stopped has its error event under way or is in `ended`.
* `WebWorkerPoolProofs!TypeCorrect`, `QueueCorrect`, `NothingForgotten`: `TypeOK`, `QueueAgrees`,
  `PendingIsUnderWay`. The invariant adds that workers are in the pool once, that those of
  the pool run, and that numbers not given out yet occur nowhere. A second initialize appends
  only workers that were never created, which keeps all of it.
* `WebWorkerPoolProofs!NothingLeft`, `NothingComesBack`: `StraysHadErrors`, `DestroyedIsEmpty`,
  from one more invariant, for a worker re-created after destroy would break both.
* `WebWorkerPoolProofs!PluginsAnnounced`: `RegisteredIsKnown`. The invariant adds that no worker
  is in the pool twice and that one still to be created has been told of nothing; a worker
  that replaces another takes the last place of the pool, so removals keep the order.
* `NodeWorkerPoolProofs!ContractKept`, `WebWorkerPoolProofs!ContractKept`: `KeepsContract` of
  either pool, a step of which is a step of `TaskContract` or none.

### The graph and the cache (`ExecutableGraphProofs`, `NodeCacheProofs`)

* `ExecutableGraphProofs!TypeCorrect`: `TypeOK`.
* `ExecutableGraphProofs!NoOrphanEver`: `NoOrphan`. The strengthening `ImportKept` says
  that an import which no call has overlapped ends with the engine the graph still
  has; without it the last step of importState could replace a running engine.
* `ExecutableGraphProofs!FlagTrue`, `HandlersListen`, `DestroyedIsIdle`, `DefinitionRuns`:
  `FlagAgrees`, `HandlersAttached`, `DestroyedRunsNothing`, `RunsDefinition`. None is
  inductive. The flag needs that an import under way resumes nothing and that execute()
  waits for an engine that is there; the handlers, that a graph which says it runs has an
  engine that is not destroyed; the definition, what an engine holds that has yet to be
  started (the graph's definition, or a part that the habit "retry" would start) and what
  an import has put into it before the graph shows it.
* `ExecutableGraphProofs!ImportStopsGraph`: what the run `graph_import` finds once is so of
  every import. Between the two halves of importState nothing but a call changes its engine,
  so if no call overlapped, the engine ends initialized, as every snapshot says, and never
  running (`ImportNeverResumes`).
* `NodeCacheProofs!TypeCorrect`, `GlobalLimit`, `NodeLimit`: `TypeOK`, `WithinGlobalLimit`,
  `WithinNodeLimit`. The invariant adds that the
  cache is finite and that no limit in force exceeds `peak`. The argument is that a
  full node or cache has a least recently used entry, so that an eviction does remove one.
* `NodeCacheProofs!EldestEvicted`: `EvictsLeastRecent`, from the same invariant: a node that
  removed an entry has made the cache smaller than its limit, so only one of the two evictions
  of a write removes anything, and it chose from the cache as it was before the write.

### Only model-checked

* Liveness (`DueUpdateApplied`, `DeferredHookEmitted`, `SettledWithoutTimeout` of both pools),
  which is outside what the proof system can do.
* The four disagreements of the last table, which are counterexamples.

## Not modelled

* Memory cache and the other memory providers: one map or list each, which no step of
  another actor reaches and nothing in the engine depends on.
* Values, cached data and statistics in snapshots; statistics everywhere.
* Imports with `preserveOptions = false`.
* Computations that answer with an Observable of several values or of none; a source that
  skips inside its own subscription, in `Dataflow` (`EngineLifecycle` has it).
* The conflict strategies of the engine's importGraph: `ExecutableGraph` has importGraph as
  one step into an empty engine, which is how the graph uses it.
* Which tasks are worth a Web Worker (shouldParallelizeTask): a call for another task throws.
* debounceTime, throttleTime, distinctValues; updates that change inputs while values
  travel (`EngineLifecycle` has them without values).
* The graph operators but topologicalSort, the hook manager and the plugin registry, the
  main-thread context, logging, input guard and environment: pure functions, a map, or
  a format.

## Left to do

1. What the callers of an import that a call overlapped may still rely on, other than the
   agreement of the maps; the code orders nothing there.
2. `ExecutableGraph` over `EngineContract` instead of the engine states of its own.
3. Imports in `Dataflow`: what the new nodes of a snapshot show before they are subscribed.
