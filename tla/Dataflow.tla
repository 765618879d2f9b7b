------------------------------ MODULE Dataflow ------------------------------
(***************************************************************************)
(* How values flow through a fixed graph of a ReactiveGraphEngine, and how *)
(* the engine knows that it has finished: the pipelines RxJS runs for each *)
(* node, the set `activeObservableNodes`, the NODE_SKIP_COMPUTATION hooks  *)
(* that wait for it to become empty, and the waitForStabilization of       *)
(* graph.ts that polls it.                                                 *)
(*                                                                         *)
(* A node without inputs (a source) computes when it is subscribed and may *)
(* emit any number of values before it completes.  A pipeline computes one *)
(* microtask after one of its inputs emitted.  The engine does not look    *)
(* into a value, except to see whether it is INIT_NODE_EXEC or             *)
(* SKIP_NODE_EXEC.  Whether a value was computed from the values its       *)
(* inputs have now is recorded beside it (`latest`, `fresh`): the code     *)
(* does not know it.                                                       *)
(*                                                                         *)
(* Left out: a computation whose Observable emits several values or none   *)
(* (here it answers once), and a source that ends in SkipInputException    *)
(* inside its own subscription, in the loop of recreateNodeSubscriptions   *)
(* (SyncSkip of EngineLifecycle has it, without values).                   *)
(***************************************************************************)
EXTENDS Naturals, Sequences, SequencesExt

CONSTANTS
    Node,
    Inputs,        \* Inputs[n]: the inputs of n, without cycles
    Order,         \* the nodes, in the order they were added
    Operational,   \* nodes whose category is operational
    MayThrow,      \* sources whose compute may throw when it is called
    Slow,          \* pipelines whose plugin answers later (a Promise, a worker)
    Subscribed,    \* nodes with isSubscribed, which execute() waits for
    AsyncMode,     \* dataNodesExecutionMode = ASYNC_EXEC_MODE
    Updates,       \* TRUE if callers update nodes while the engine runs
    MaxBacklog     \* bound: computations of one node waiting or in flight

Source == {n \in Node : Inputs[n] = {}}
Pipeline == Node \ Source

ASSUME DataflowAssumption ==
    /\ Inputs \in [Node -> SUBSET Node]
    /\ Order \in Seq(Node) /\ Range(Order) = Node
    /\ Operational \subseteq Pipeline
    /\ MayThrow \subseteq Source
    /\ Slow \subseteq Pipeline
    /\ Subscribed \subseteq Node
    /\ {AsyncMode, Updates} \subseteq BOOLEAN
    /\ MaxBacklog \in Nat

VARIABLES
    state,        \* EngineState
    todo,         \* what is left of the loop of recreateNodeSubscriptions
    value,        \* the value of each BehaviorSubject
    subscribed,   \* nodes whose subscription is open
    open,         \* sources whose Observable has not completed
    queue,        \* inputs of a pipeline that wait for their microtask
    jobs,         \* computations in flight
    active,       \* activeObservableNodes
    pending,      \* pendingSkipComputationHooks
    outcome,      \* of the last waitForStabilization
    fresh         \* nodes computed from the values their inputs have now

flow == <<value, subscribed, open, queue, jobs, fresh>>
hooks == <<active, pending, outcome>>
vars == <<state, todo, flow, hooks>>

Value == {"init", "ok", "skip", "null"}
Wakeup == [skip : BOOLEAN, latest : BOOLEAN]   \* resolved inputs of a pipeline
Job == [latest : BOOLEAN]

TypeOK ==
    /\ state \in {"initialized", "running", "paused", "destroyed"}
    /\ todo \in Seq(Node)
    /\ value \in [Node -> Value]
    /\ subscribed \subseteq Node
    /\ open \subseteq Source
    /\ queue \in [Node -> Seq(Wakeup)]
    /\ jobs \in [Node -> Seq(Job)]
    /\ active \subseteq Node
    /\ pending \subseteq Node
    /\ outcome \in {"none", "waiting", "stabilized", "skipped", "timeout"}
    /\ fresh \subseteq Node

-----------------------------------------------------------------------------
(* Values *)

Nothing == [n \in Node |-> <<>>]

Readers(n) == {m \in Node : n \in Inputs[m]}

HasRoom(n) == \A m \in Readers(n) : Len(queue[m]) + Len(jobs[m]) < MaxBacklog

Outdated(s) == [k \in DOMAIN s |-> [s[k] EXCEPT !.latest = FALSE]]

\* combineLatest and skipWhile: nothing until every input has a value.
Wakeups(m, v) ==
    IF \E i \in Inputs[m] : v[i] = "init" THEN <<>>
    ELSE <<[skip |-> \E i \in Inputs[m] : v[i] = "skip", latest |-> TRUE]>>

\* subject.next(v) of node n, when q and j are waiting and in flight: every open
\* pipeline that reads n gets its inputs anew.
Emit(n, v, latest, q, j) ==
    /\ HasRoom(n)
    /\ value' = [value EXCEPT ![n] = v]
    /\ queue' = [m \in Node |->
           IF n \notin Inputs[m] THEN q[m]
           ELSE Outdated(q[m]) \o (IF m \in subscribed THEN Wakeups(m, value') ELSE <<>>)]
    /\ jobs' = [m \in Node |-> IF n \in Inputs[m] THEN Outdated(j[m]) ELSE j[m]]
    /\ fresh' = (fresh \ (Readers(n) \cup {n})) \cup {k \in {n} : latest}

-----------------------------------------------------------------------------
(* The active set and the skip hooks *)

\* NODE_SKIP_COMPUTATION reaches the handler of a waitForStabilization.
Announce(emitted) ==
    outcome' = IF emitted /\ AsyncMode /\ outcome = "waiting" THEN "skipped" ELSE outcome

\* activeObservableNodes.delete, then checkAndEmitPendingSkipComputationHooks.
DeleteOnly(left, hooked) ==                                     \* mutant
    active' = left /\ pending' = hooked /\ UNCHANGED outcome
Release(left, hooked) ==
    /\ active' = left
    /\ pending' = IF left = {} THEN {} ELSE hooked
    /\ Announce(left = {} /\ hooked # {})

\* emitSkipComputationHookIfReady.
Skipped(n) ==
    /\ pending' = IF active = {} THEN pending ELSE pending \cup {n}
    /\ Announce(active = {})
    /\ UNCHANGED active

\* Every subscription is closed.  A computation in flight is finalized and leaves
\* the active set; a source does not.
Working == {n \in Node : jobs[n] # <<>>}

CloseAll == subscribed' = {} /\ open' = {} /\ queue' = Nothing /\ jobs' = Nothing

Finalize ==
    IF Working # {} THEN Release(active \ Working, pending)
    ELSE UNCHANGED <<active, pending, outcome>>

\* handleComputeError for a SkipInputException in ASYNC mode: pause, then the hook.
PauseOnSkip(n) ==
    LET left == active \ Working
        kept == IF Working # {} /\ left = {} THEN {} ELSE pending
    IN  /\ state' = "paused"
        /\ CloseAll
        /\ active' = left
        /\ pending' = IF left = {} THEN kept ELSE kept \cup {n}
        /\ Announce(left = {})

-----------------------------------------------------------------------------
(* Subscribing *)

\* A source's compute returns its Observable, or throws.
OpenSource(n, a, q, j) ==
    \/ /\ open' = open \cup {n}
       /\ subscribed' = subscribed \cup {n}
       /\ active' = a \cup {n}
       /\ queue' = q /\ jobs' = j
       /\ fresh' = fresh
       /\ UNCHANGED value
    \/ /\ n \in MayThrow
       /\ open' = open \ {n}
       /\ subscribed' = subscribed \ {n}
       /\ active' = a
       /\ Emit(n, "null", TRUE, q, j)

\* A pipeline is given the current values of its inputs at once.
NoInitialValue(n, a, q, j) ==                                   \* mutant
    /\ subscribed' = subscribed \cup {n}
    /\ queue' = [q EXCEPT ![n] = <<>>]
    /\ jobs' = j
    /\ active' = a
    /\ UNCHANGED <<open, value>>
    /\ fresh' = fresh \ {n}
OpenPipeline(n, a, q, j) ==
    /\ subscribed' = subscribed \cup {n}
    /\ queue' = [q EXCEPT ![n] = Wakeups(n, value)]
    /\ jobs' = j
    /\ active' = a
    /\ UNCHANGED <<open, value>>
    /\ fresh' = fresh \ {n}

OpenNode(n, a, q, j) ==
    \/ n \in Source /\ OpenSource(n, a, q, j)
    \/ n \in Pipeline /\ OpenPipeline(n, a, q, j)

\* One iteration of recreateNodeSubscriptions.
SubscribeStep ==
    /\ todo # <<>>
    /\ OpenNode(Head(todo), active, queue, jobs)
    /\ todo' = Tail(todo)
    /\ UNCHANGED <<state, pending, outcome>>

\* What a source does within its own subscribe call happens inside the loop; all
\* else waits for the end of it.
Turn(n) ==
    \/ todo = <<>>
    \/ n = Order[Len(Order) - Len(todo)]

-----------------------------------------------------------------------------
(* Sources *)

SourceEmits(n, v) ==
    /\ n \in open
    /\ Turn(n)
    /\ v \in {"ok", "skip"}
    /\ Emit(n, v, TRUE, queue, jobs)
    /\ UNCHANGED <<state, todo, subscribed, open, hooks>>

CompletesUnnoticed(n) ==                                        \* mutant
    /\ n \in open
    /\ Turn(n)
    /\ open' = open \ {n}
    /\ UNCHANGED <<state, todo, value, subscribed, queue, jobs, fresh, hooks>>
SourceCompletes(n) ==
    /\ n \in open
    /\ Turn(n)
    /\ open' = open \ {n}
    /\ Release(active \ {n}, pending)
    /\ UNCHANGED <<state, todo, value, subscribed, queue, jobs, fresh>>

SourceFails(n) ==
    /\ n \in open
    /\ Turn(n)
    /\ open' = open \ {n}
    /\ Emit(n, "null", TRUE, queue, jobs)
    /\ Release(active \ {n}, pending)
    /\ UNCHANGED <<state, todo, subscribed>>

\* The Observable of a source ends in SkipInputException.  The hook is deferred,
\* for the source itself is still active, until it is deleted.
SourceSkips(n) ==
    /\ n \in open
    /\ todo = <<>>
    /\ IF AsyncMode
       THEN LET left == active \ Working
            IN  /\ state' = "paused"
                /\ CloseAll
                /\ value' = [value EXCEPT ![n] = "null"]
                /\ fresh' = (fresh \ Readers(n)) \cup {n}
                /\ Release(left \ {n}, pending \cup {n})
       ELSE /\ open' = open \ {n}
            /\ Emit(n, "null", TRUE, queue, jobs)
            /\ Release(active \ {n}, pending \cup {n})
            /\ UNCHANGED <<state, subscribed>>
    /\ UNCHANGED todo

-----------------------------------------------------------------------------
(* Pipelines *)

\* An operational node with a skipped input throws SkipInputException.
ComputeSkips(m) ==
    /\ m \in Operational /\ Head(queue[m]).skip
    /\ IF AsyncMode
       THEN PauseOnSkip(m) /\ UNCHANGED <<value, fresh>>
       ELSE /\ Skipped(m)
            /\ Emit(m, "null", Head(queue[m]).latest,
                    [queue EXCEPT ![m] = Tail(@)], jobs)
            /\ UNCHANGED <<state, subscribed, open>>

ComputeThrows(m) ==
    /\ Emit(m, "null", Head(queue[m]).latest, [queue EXCEPT ![m] = Tail(@)], jobs)
    /\ UNCHANGED <<state, subscribed, open, hooks>>

\* The plugin answers, or its Observable fails, within compute: the node is active
\* only for that long.
ComputeNow(m, v) ==
    /\ m \notin Slow
    /\ v \in {"ok", "skip", "null"}
    /\ Emit(m, v, Head(queue[m]).latest, [queue EXCEPT ![m] = Tail(@)], jobs)
    /\ Release(active \ {m}, pending)
    /\ UNCHANGED <<state, subscribed, open>>

ComputeUnlessBusy(m) ==                                         \* mutant
    /\ m \in Slow
    /\ queue' = [queue EXCEPT ![m] = Tail(@)]
    /\ jobs' = IF jobs[m] # <<>> THEN jobs
               ELSE [jobs EXCEPT ![m] = <<[latest |-> Head(queue[m]).latest]>>]
    /\ active' = active \cup {m}
    /\ UNCHANGED <<state, value, subscribed, open, fresh, pending, outcome>>
ComputeLater(m) ==
    /\ m \in Slow
    /\ queue' = [queue EXCEPT ![m] = Tail(@)]
    /\ jobs' = [jobs EXCEPT ![m] = Append(@, [latest |-> Head(queue[m]).latest])]
    /\ active' = active \cup {m}
    /\ UNCHANGED <<state, value, subscribed, open, fresh, pending, outcome>>

\* One emission of the inputs pipeline is computed.  Emissions wait in order, and
\* any number of computations of one node may be in flight (mergeMap).
Compute(m) ==
    /\ todo = <<>>
    /\ queue[m] # <<>>
    /\ \/ ComputeSkips(m)
       \/ /\ m \in Operational => ~Head(queue[m]).skip
          /\ \/ ComputeThrows(m)
             \/ \E v \in Value : ComputeNow(m, v)
             \/ ComputeLater(m)
    /\ UNCHANGED todo

\* A computation in flight answers, or fails, and is finalized.  They answer in
\* any order.
JobEnds(m, k, v) ==
    /\ todo = <<>>
    /\ v \in {"ok", "skip", "null"}
    /\ Emit(m, v, jobs[m][k].latest, queue, [jobs EXCEPT ![m] = RemoveAt(@, k)])
    /\ Release(active \ {m}, pending)
    /\ UNCHANGED <<state, todo, subscribed, open>>

\* It ends in SkipInputException.
JobSkips(m, k) ==
    /\ todo = <<>>
    /\ IF AsyncMode
       THEN PauseOnSkip(m) /\ UNCHANGED <<value, fresh>>
       ELSE /\ Emit(m, "null", jobs[m][k].latest, queue,
                    [jobs EXCEPT ![m] = RemoveAt(@, k)])
            /\ Release(active \ {m},
                       IF active = {} THEN pending ELSE pending \cup {m})
            /\ UNCHANGED <<state, subscribed, open>>
    /\ UNCHANGED todo

-----------------------------------------------------------------------------
(* Callers *)

Start ==
    /\ todo = <<>>
    /\ state \in {"initialized", "paused"}
    /\ state' = "running"
    /\ todo' = Order
    /\ UNCHANGED <<flow, hooks>>

PauseForgotten ==                                               \* mutant
    /\ todo = <<>>
    /\ state = "running"
    /\ state' = "pausing"
    /\ CloseAll
    /\ Finalize
    /\ UNCHANGED <<todo, value, fresh>>
Pause ==
    /\ todo = <<>>
    /\ state = "running"
    /\ state' = "paused"
    /\ CloseAll
    /\ Finalize
    /\ UNCHANGED <<todo, value, fresh>>

Stop ==
    /\ todo = <<>>
    /\ state # "destroyed"
    /\ state' = "destroyed"
    /\ CloseAll
    /\ active' = {}
    /\ pending' = {}
    /\ Announce(Working # {} /\ active \subseteq Working /\ pending # {})
    /\ UNCHANGED <<todo, value, fresh>>

\* updateNode with another definition of the same inputs: cleanupNode deletes n
\* from the active set without a check for deferred hooks.
UpdateNode(n) ==
    /\ Updates
    /\ todo = <<>>
    /\ state = "running"
    /\ LET checked == jobs[n] # <<>> /\ active \subseteq {n}
       IN  /\ pending' = IF checked THEN {} ELSE pending \ {n}
           /\ Announce(checked /\ pending # {})
    /\ OpenNode(n, active \ {n}, [queue EXCEPT ![n] = <<>>], [jobs EXCEPT ![n] = <<>>])
    /\ UNCHANGED <<state, todo>>

\* waitForStabilization: a poll every checkInterval, in a macrotask of its own.
Wait ==
    /\ todo = <<>>
    /\ state = "running"
    /\ outcome # "waiting"
    /\ outcome' = "waiting"
    /\ UNCHANGED <<state, todo, flow, active, pending>>

ValuesOnly == \A n \in Subscribed : value[n] # "init"           \* mutant
Stabilized ==
    /\ active = {}
    /\ \A n \in Subscribed : value[n] # "init"

StabilityCheck ==
    /\ todo = <<>>
    /\ outcome = "waiting"
    /\ queue = Nothing
    /\ Stabilized
    /\ outcome' = "stabilized"
    /\ UNCHANGED <<state, todo, flow, active, pending>>

Timeout ==
    /\ todo = <<>>
    /\ outcome = "waiting"
    /\ queue = Nothing
    /\ outcome' = "timeout"
    /\ UNCHANGED <<state, todo, flow, active, pending>>

-----------------------------------------------------------------------------

Init ==
    /\ state = "initialized"
    /\ todo = <<>>
    /\ value = [n \in Node |-> "init"]
    /\ subscribed = {}
    /\ open = {}
    /\ queue = Nothing
    /\ jobs = Nothing
    /\ active = {}
    /\ pending = {}
    /\ outcome = "none"
    /\ fresh = {}

SourceEnds(n) == SourceCompletes(n) \/ SourceFails(n) \/ SourceSkips(n)

JobStep(m) ==
    \E k \in DOMAIN jobs[m] : JobSkips(m, k) \/ \E v \in Value : JobEnds(m, k, v)

Next ==
    \/ SubscribeStep
    \/ \E n \in Node : \E v \in Value : SourceEmits(n, v)
    \/ \E n \in Node : SourceEnds(n)
    \/ \E m \in Node : Compute(m) \/ JobStep(m)
    \/ \E n \in Node : UpdateNode(n)
    \/ Start \/ Pause \/ Stop
    \/ Wait \/ StabilityCheck \/ Timeout

\* The event loop runs every turn and every microtask, sources complete, slow
\* plugins answer, the poll goes on; no caller has to do anything.
Fairness ==
    /\ WF_vars(SubscribeStep)
    /\ WF_vars(StabilityCheck)
    /\ \A n \in Node : WF_vars(SourceEnds(n)) /\ WF_vars(Compute(n)) /\ WF_vars(JobStep(n))

Spec == Init /\ [][Next]_vars /\ Fairness

-----------------------------------------------------------------------------
(* Properties *)

\* While the engine runs, a NODE_SKIP_COMPUTATION hook that was deferred because a
\* node was active has an active node that is still computing, whose end will emit
\* it (engine.ts:2441-2483).
HookHasWaker ==
    pending # {} /\ state = "running" /\ todo = <<>> =>
        active \cap (open \cup Working) # {}

\* Nothing leaves a deferred hook without an active node to wait for but updateNode, whose
\* cleanupNode deletes the node from the active set without a look at the hooks
\* (engine.ts:913).
OnlyUpdatesStrand ==
    [][(pending # {} => active # {}) =>
          (pending' # {} => active' # {}) \/ \E n \in Node : UpdateNode(n)]_vars

\* When nothing waits for its turn in a running engine, every node whose plugin answers
\* at once shows what it computed from the values its inputs have now, whatever was
\* interrupted by a pause, an update or an input that changed while its inputs were
\* waiting, and whatever slow plugins do around it.
QuietMeansConsistent ==
    state = "running" /\ todo = <<>> /\ queue = Nothing =>
        \A m \in Pipeline \ Slow :
            m \in fresh \/ \E i \in Inputs[m] : value[i] = "init"

\* A pipeline follows its inputs: it shows what it computed from the values they have
\* now, or it is about to.
Follows(m) ==
    \/ m \in fresh
    \/ queue[m] # <<>>
    \/ \E k \in DOMAIN jobs[m] : jobs[m][k].latest
    \/ \E i \in Inputs[m] : value[i] = "init"

OldAnswer(m) ==
    \E k \in DOMAIN jobs[m] :
        /\ ~jobs[m][k].latest
        /\ JobSkips(m, k) \/ \E v \in Value : JobEnds(m, k, v)

\* A subscribed pipeline begins and goes on to follow its inputs; nothing makes it show
\* an older result for good but a slow plugin's answer to older inputs that arrives
\* after its answer to newer ones (mergeMap, engine.ts:1846).
OnlyOldAnswersHide ==
    [][\A m \in Pipeline \cap subscribed' :
          Follows(m) \/ m \notin subscribed => Follows(m)' \/ OldAnswer(m)]_vars

\* "No active tasks (primary condition): the main indicator that graph has
\* completed all computations" (graph.ts:921-922): execute() never reports a
\* stabilized graph while something is still being computed.
StabilizedMeansDone ==
    [][outcome' = "stabilized" => jobs = Nothing /\ open = {}]_outcome

\* A deferred hook is emitted, unless the engine is paused or stopped meanwhile.
DeferredHookEmitted == pending # {} ~> pending = {} \/ state # "running"

\* "ASYNC_EXEC_MODE: complete stabilization immediately on SKIP_COMPUTATION"
\* (graph.ts:845): an execute() during which a skip was detected ends by it.
SkipEndsWait ==
    AsyncMode /\ outcome = "waiting" /\ pending # {} ~>
        outcome = "skipped" \/ state = "destroyed"
=============================================================================
