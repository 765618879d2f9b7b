-------------------------- MODULE EngineLifecycle --------------------------
(***************************************************************************)
(* The lifecycle and the registries of ReactiveGraphEngine                 *)
(* (src/lib/dexrx/src/engine/engine.ts): which nodes are defined, which    *)
(* have a wrapper, a subject, a destructor and a live subscription, what   *)
(* start, pause, resume, stop and destroy do to them, and what becomes of  *)
(* the updates that are deferred while the engine is paused.               *)
(*                                                                         *)
(* JavaScript runs a call to completion.  A call whose effect is a loop    *)
(* over the nodes is a turn: it leaves the iterations still to run in      *)
(* `todo`, one step of the turn runs one iteration, an exception empties   *)
(* `todo`, and no other call starts before the turn is over.               *)
(***************************************************************************)
EXTENDS GraphAlgorithms

CONSTANTS
    BadConfig,     \* configurations for which the plugin is not registered
    Callable,      \* Callable[n]: the definitions callers pass for node n
    Preserve,      \* the values callers pass for removeNode's preserveSubject
    KnownInputs,   \* TRUE if callers only name inputs that are defined
    AsyncMode,     \* dataNodesExecutionMode = ASYNC_EXEC_MODE
    SyncSkip,      \* TRUE if a source may raise SkipInputException in compute
    Resources,     \* what the constructor acquired: timers, execution context
    MaxTimers      \* bound: batches of deferred updates waiting for a timer

ASSUME LifecycleAssumption ==
    /\ BadConfig \subseteq Config
    /\ Callable \in [Node -> SUBSET Def]
    /\ Preserve \subseteq BOOLEAN
    /\ {KnownInputs, AsyncMode, SyncSkip} \subseteq BOOLEAN
    /\ Resources \subseteq {"statLogging", "cacheCleanup", "executionContext"}
    /\ MaxTimers \in Nat

VARIABLES
    state,           \* EngineState
    defs,            \* Map of definitions, NoDef where there is none
    order,           \* the insertion order of that Map
    subjects,        \* nodes with a BehaviorSubject
    wrappers,        \* the definition each NodeWrapper was created from
    destructors,     \* nodes with a destroy$ of their own
    subscriptions,   \* the registered subscription of each node
    leaked,          \* live subscriptions that no map refers to any more
    deferred,        \* nodesToUpdateOnResume, in its insertion order
    timers,          \* batches of deferred updates, each waiting for 10 ms
    resources,       \* what has not been released
    todo             \* the rest of the running turn

registries == <<defs, order, subjects, wrappers, destructors>>
vars == <<state, defs, order, subjects, wrappers, destructors, subscriptions,
          leaked, deferred, timers, resources, todo>>

-----------------------------------------------------------------------------
(* Types *)

State == {"initialized", "running", "paused", "destroyed"}

\* A subscription is made for a definition.  It is wired to the registered
\* subject of some of its inputs and has outlived the subject of others; an
\* input that had none when it was made got a private one that never emits.
Subscription == [def : Def \cup {NoDef}, wired : SUBSET Node, dead : SUBSET Node]
NoSubscription == [def |-> NoDef, wired |-> {}, dead |-> {}]

UpdateItem == [op : {"update"}, id : Node, def : Def]
DetachItem == [op : {"detach"}, id : Node, input : Node]
SubscribeItem == [op : {"subscribe"}, id : Node]
FinishItem == [op : {"finish"}]
Item == UpdateItem \cup DetachItem \cup SubscribeItem \cup FinishItem

TypeOK ==
    /\ state \in State
    /\ defs \in [Node -> Def \cup {NoDef}]
    /\ order \in Seq(Node)
    /\ subjects \subseteq Node
    /\ wrappers \in [Node -> Def \cup {NoDef}]
    /\ destructors \subseteq Node
    /\ subscriptions \in [Node -> Subscription]
    /\ leaked \subseteq Node \X {"source", "pipeline"}
    /\ deferred \in Seq(UpdateItem)
    /\ timers \in Seq(Seq(UpdateItem))
    /\ resources \subseteq Resources
    /\ todo \in Seq(Item)

-----------------------------------------------------------------------------
(* Helpers *)

Idle == todo = <<>>

Live(n) == subscriptions[n] # NoSubscription

Defined(n) == defs[n] # NoDef

NobodySubscribed == [n \in Node |-> NoSubscription]

\* The registered subject of i is completed or replaced: whoever was wired to it
\* listens to a subject that never emits again.
Unwire(subs, i) ==
    [n \in Node |-> [def |-> subs[n].def,
                     wired |-> subs[n].wired \ {i},
                     dead |-> subs[n].dead \cup (subs[n].wired \cap {i})]]

\* What cleanupNode leaves of the subscriptions and of the wrappers.
CleanedSubscriptions(n) == [subscriptions EXCEPT ![n] = NoSubscription]

KeepWrapper(n) == wrappers                                   \* mutant
CleanedWrappers(n) == [wrappers EXCEPT ![n] = NoDef]

\* Map.set on a Map kept as a sequence of entries.
SingleEntry(entries, e) == <<e>>                             \* mutant
SetEntry(entries, e) ==
    IF \E k \in DOMAIN entries : entries[k].id = e.id
    THEN [k \in DOMAIN entries |-> IF entries[k].id = e.id THEN e ELSE entries[k]]
    ELSE Append(entries, e)

DeferredIds == {deferred[k].id : k \in DOMAIN deferred}

Kind(d) == IF d.inputs = {} THEN "source" ELSE "pipeline"

\* pauseAllSubscriptions or cancelAllSubscriptions: the registered ones are closed.
\* Closed subscriptions are remembered by a paused engine but never used again.
Silence == subscriptions' = NobodySubscribed

\* pause(), also called by handleComputeError in ASYNC mode.
PauseIntoStopping == state' = "stopping" /\ Silence          \* mutant
PauseStateOnly == state' = "paused" /\ UNCHANGED subscriptions  \* mutant
PauseEngine == state' = "paused" /\ Silence

\* Subscribing n to the inputs of d.  With inputs, the pipeline only computes in
\* a later turn.  Without, the plugin computes here and now: it returns an
\* Observable, or throws, and a SkipInputException thrown in ASYNC mode pauses a
\* running engine in the middle of whatever it was doing.
Connect(n, d, subs, subjs) ==
    /\ subscriptions' = [subs EXCEPT ![n] = [def |-> d,
                                            wired |-> d.inputs \cap subjs,
                                            dead |-> {}]]
    /\ UNCHANGED state

ComputeThrows(d, subs) ==
    /\ d.inputs = {}
    /\ \/ /\ subscriptions' = subs
          /\ UNCHANGED state
       \/ /\ AsyncMode /\ SyncSkip
          /\ state = "running"
          /\ PauseEngine

Subscribe(n, d, subs, subjs) == Connect(n, d, subs, subjs) \/ ComputeThrows(d, subs)

\* The definition a caller passes.
Argument(n) == {d \in Callable[n] : KnownInputs => \A i \in d.inputs : Defined(i)}

-----------------------------------------------------------------------------
(* Adding, updating and removing nodes *)

\* addNode.  A call that would close a cycle puts its definition in and takes it
\* out again.  An unknown plugin throws after the definition went in.
AddNode(n, d) ==
    /\ Idle
    /\ state # "destroyed"
    /\ ~Defined(n)
    /\ ~DetectCycle([defs EXCEPT ![n] = d], n)
    /\ defs' = [defs EXCEPT ![n] = d]
    /\ order' = Append(order, n)
    /\ IF d.config \in BadConfig
       THEN UNCHANGED <<state, subjects, wrappers, destructors, subscriptions>>
       ELSE /\ subjects' = subjects \cup {n}
            /\ wrappers' = [wrappers EXCEPT ![n] = d]
            /\ destructors' = destructors \cup {n}
            /\ IF state = "running"
               THEN Subscribe(n, d, Unwire(subscriptions, n), subjects \cup {n})
               ELSE /\ subscriptions' = Unwire(subscriptions, n)
                    /\ UNCHANGED state
    /\ UNCHANGED <<leaked, deferred, timers, resources, todo>>

\* The checks that make updateNode throw before it changed anything.
UnknownNode(n, d) == n \notin subjects \/ ~Defined(n)        \* mutant
UpdateRefused(n, d) ==
    \/ n \notin subjects
    \/ ~Defined(n)
    \/ DetectCycle([defs EXCEPT ![n] = d], n)

\* The part of updateNode after its checks: cleanupNode(id, true), then a new
\* wrapper, destructor and, if the engine runs, subscription.
ReplaceNode(n, d) ==
    /\ defs' = [defs EXCEPT ![n] = d]
    /\ IF d.config \in BadConfig
       THEN /\ wrappers' = CleanedWrappers(n)
            /\ destructors' = destructors \ {n}
            /\ subscriptions' = CleanedSubscriptions(n)
            /\ UNCHANGED state
       ELSE /\ wrappers' = [wrappers EXCEPT ![n] = d]
            /\ destructors' = destructors \cup {n}
            /\ IF state = "running"
               THEN Subscribe(n, d, CleanedSubscriptions(n), subjects)
               ELSE /\ subscriptions' = CleanedSubscriptions(n)
                    /\ UNCHANGED state
    /\ UNCHANGED <<order, subjects>>

\* updateNode while the engine is paused.
DeferUpdate(n, d) ==
    /\ state = "paused"
    /\ deferred' = SetEntry(deferred, [op |-> "update", id |-> n, def |-> d])
    /\ UNCHANGED <<registries, state, subscriptions>>

\* updateNode, as a caller makes the call.
UpdateNode(n, d) ==
    /\ Idle
    /\ \/ DeferUpdate(n, d)
       \/ /\ state \in {"initialized", "running"}
          /\ ~UpdateRefused(n, d)
          /\ ReplaceNode(n, d)
          /\ UNCHANGED deferred
    /\ UNCHANGED <<leaked, timers, resources, todo>>

\* removeNode's loop over the definitions that are left.
DetachFirst(rest, n) ==                                      \* mutant
    [k \in DOMAIN rest \cap {1} |-> [op |-> "detach", id |-> rest[k], input |-> n]]
DetachAll(rest, n) ==
    [k \in DOMAIN rest |-> [op |-> "detach", id |-> rest[k], input |-> n]]

\* removeNode, in any state.  It cleans n up, deletes its definition and then
\* walks the other definitions to take n out of their inputs.
RemoveNode(n, preserveSubject) ==
    /\ Idle
    /\ defs' = [defs EXCEPT ![n] = NoDef]
    /\ wrappers' = CleanedWrappers(n)
    /\ destructors' = destructors \ {n}
    /\ IF preserveSubject
       THEN /\ subscriptions' = CleanedSubscriptions(n)
            /\ UNCHANGED subjects
       ELSE /\ subscriptions' = Unwire(CleanedSubscriptions(n), n)
            /\ subjects' = subjects \ {n}
    /\ \/ /\ ~Defined(n)
          /\ todo' = DetachAll(order, n)
          /\ UNCHANGED order
       \/ \E k \in DOMAIN order :
              /\ order[k] = n
              /\ order' = RemoveAt(order, k)
              /\ todo' = DetachAll(RemoveAt(order, k), n)
    /\ UNCHANGED <<state, leaked, deferred, timers, resources>>

-----------------------------------------------------------------------------
(* Lifecycle calls *)

\* recreateNodeSubscriptions over every definition, and what follows the loop
\* when the engine comes back from a pause.
RestoreNothing(fromPause) ==                                 \* mutant
    todo' = IF fromPause THEN <<[op |-> "finish"]>>
            ELSE [k \in DOMAIN order |-> [op |-> "subscribe", id |-> order[k]]]
RestoreSubscriptions(fromPause) ==
    todo' = [k \in DOMAIN order |-> [op |-> "subscribe", id |-> order[k]]]
            \o (IF fromPause THEN <<[op |-> "finish"]>> ELSE <<>>)

RoomForTimer == deferred # <<>> => Len(timers) < MaxTimers

Start ==
    /\ Idle
    /\ state \in {"initialized", "paused"}
    /\ state = "paused" => RoomForTimer
    /\ state' = "running"
    /\ RestoreSubscriptions(state = "paused")
    /\ UNCHANGED <<registries, subscriptions, leaked, deferred, timers, resources>>

Resume ==
    /\ Idle
    /\ state = "paused"
    /\ RoomForTimer
    /\ state' = "running"
    /\ RestoreSubscriptions(TRUE)
    /\ UNCHANGED <<registries, subscriptions, leaked, deferred, timers, resources>>

Pause ==
    /\ Idle
    /\ state = "running"
    /\ PauseEngine
    /\ UNCHANGED <<registries, leaked, deferred, timers, resources, todo>>

\* A computation of n ends in SkipInputException: handleComputeError pauses the
\* engine in ASYNC mode.
ComputeSkips(n) ==
    /\ Idle
    /\ AsyncMode
    /\ state = "running"
    /\ Live(n) \/ \E kind \in {"source", "pipeline"} : <<n, kind>> \in leaked
    /\ PauseEngine
    /\ UNCHANGED <<registries, leaked, deferred, timers, resources, todo>>

\* stop.  The definitions, the deferred updates, the cache timer and the
\* execution context stay.
Stop ==
    /\ Idle
    /\ state # "destroyed"
    /\ state' = "destroyed"
    /\ Silence
    /\ resources' = resources \ {"statLogging"}
    /\ UNCHANGED <<registries, leaked, deferred, timers, todo>>

\* destroy.  The global destroy$ ends every pipeline, registered or not; a
\* source that lost its registration has nothing that ends it, and a pending
\* timer is not cancelled.
Destroy ==
    /\ Idle
    /\ state # "destroyed"
    /\ state' = "destroyed"
    /\ defs' = [n \in Node |-> NoDef]
    /\ order' = <<>>
    /\ subjects' = {}
    /\ wrappers' = [n \in Node |-> NoDef]
    /\ destructors' = {}
    /\ Silence
    /\ leaked' = {l \in leaked : l[2] = "source"}
    /\ deferred' = <<>>
    /\ resources' = {}
    /\ UNCHANGED <<timers, todo>>

\* The 10 ms timer of the oldest batch fires.
TimerSkipsFirst ==                                           \* mutant
    /\ Idle
    /\ timers # <<>>
    /\ todo' = Tail(Head(timers))
    /\ timers' = Tail(timers)
    /\ UNCHANGED <<registries, state, subscriptions, leaked, deferred, resources>>
TimerFires ==
    /\ Idle
    /\ timers # <<>>
    /\ todo' = Head(timers)
    /\ timers' = Tail(timers)
    /\ UNCHANGED <<registries, state, subscriptions, leaked, deferred, resources>>

-----------------------------------------------------------------------------
(* The iterations of a running turn *)

Continue == todo' = Tail(todo)
Throw == todo' = <<>>

\* One recreateNodeSubscription.  A subscription that is still registered is
\* overwritten, not closed.
RecreateSubscription(n) ==
    IF wrappers[n] = NoDef \/ n \notin subjects
    THEN UNCHANGED <<state, subscriptions, leaked, destructors>>
    ELSE /\ destructors' = destructors \cup {n}
         /\ \/ /\ Connect(n, defs[n], subscriptions, subjects)
               /\ leaked' = IF Live(n) THEN leaked \cup {<<n, Kind(subscriptions[n].def)>>}
                                       ELSE leaked
            \/ /\ ComputeThrows(defs[n], subscriptions)
               /\ UNCHANGED leaked

SubscribeStep ==
    \E n \in Node :
        /\ Head(todo) = [op |-> "subscribe", id |-> n]
        /\ RecreateSubscription(n)
        /\ Continue
        /\ UNCHANGED <<defs, order, subjects, wrappers, deferred, timers, resources>>

\* The end of resumeAllSubscriptions: the deferred updates get their timer.
FinishStep ==
    /\ Head(todo).op = "finish"
    /\ IF deferred = <<>>
       THEN UNCHANGED <<deferred, timers>>
       ELSE /\ deferred' = <<>>
            /\ timers' = Append(timers, deferred)
    /\ Continue
    /\ UNCHANGED <<registries, state, subscriptions, leaked, resources>>

\* updateNode, called by the running turn: an exception ends the turn.
UpdateInAnyState(n, d) ==                                    \* mutant
    \/ /\ DeferUpdate(n, d)
       /\ Continue
    \/ /\ state # "paused"
       /\ ~UpdateRefused(n, d)
       /\ ReplaceNode(n, d)
       /\ IF d.config \in BadConfig THEN Throw ELSE Continue
       /\ UNCHANGED deferred
    \/ /\ state # "paused" /\ UpdateRefused(n, d)
       /\ Throw
       /\ UNCHANGED <<registries, state, subscriptions, deferred>>
UpdateWithin(n, d) ==
    \/ /\ DeferUpdate(n, d)
       /\ Continue
    \/ /\ state \in {"initialized", "running"}
       /\ ~UpdateRefused(n, d)
       /\ ReplaceNode(n, d)
       /\ IF d.config \in BadConfig THEN Throw ELSE Continue
       /\ UNCHANGED deferred
    \/ /\ state = "destroyed" \/ (state # "paused" /\ UpdateRefused(n, d))
       /\ Throw
       /\ UNCHANGED <<registries, state, subscriptions, deferred>>

UpdateStep ==
    \E n \in Node, d \in Def :
        /\ Head(todo) = [op |-> "update", id |-> n, def |-> d]
        /\ UpdateWithin(n, d)
        /\ UNCHANGED <<leaked, timers, resources>>

\* One iteration of removeNode's loop: only a dependent of the removed node is
\* updated.
DetachStep ==
    \E n, i \in Node :
        /\ Head(todo) = [op |-> "detach", id |-> n, input |-> i]
        /\ IF i \in InputsOf(defs, n)
           THEN UpdateWithin(n, [defs[n] EXCEPT !.inputs = @ \ {i}])
           ELSE /\ Continue
                /\ UNCHANGED <<registries, state, subscriptions, deferred>>
        /\ UNCHANGED <<leaked, timers, resources>>

TurnStep ==
    /\ ~Idle
    /\ SubscribeStep \/ FinishStep \/ UpdateStep \/ DetachStep

-----------------------------------------------------------------------------

Init ==
    /\ state = "initialized"
    /\ defs = [n \in Node |-> NoDef]
    /\ order = <<>>
    /\ subjects = {}
    /\ wrappers = [n \in Node |-> NoDef]
    /\ destructors = {}
    /\ subscriptions = NobodySubscribed
    /\ leaked = {}
    /\ deferred = <<>>
    /\ timers = <<>>
    /\ resources = Resources
    /\ todo = <<>>

NodeCall ==
    \E n \in Node :
        \/ \E d \in Argument(n) : AddNode(n, d) \/ UpdateNode(n, d)
        \/ \E preserve \in Preserve : RemoveNode(n, preserve)

LifecycleCall == Start \/ Resume \/ Pause \/ Stop \/ Destroy

Next == 
    \/ NodeCall 
    \/ LifecycleCall 
    \/ \E n \in Node : ComputeSkips(n)
    \/ TimerFires 
    \/ TurnStep

\* The event loop runs a turn to its end and fires a timer that is due; callers
\* promise nothing.
Spec == Init /\ [][Next]_vars /\ WF_vars(TurnStep) /\ SF_vars(TimerFires)
-----------------------------------------------------------------------------
(* Safety *)

\* The definitions never contain a cycle, although each check only looks at the
\* node being added or updated, a removal runs no check, and a deferred update is
\* checked long after it was requested (engine.ts:271-302, 474, 714).
AcyclicDefs == Acyclic(defs)

\* The maps that addNode, updateNode, cleanupNode, removeNode and destroy keep
\* separately say the same: a wrapper and a subscription are those of the current
\* definition, a node has the other resources a wrapper needs, a subscription is
\* wired to subjects that are registered, and a definition whose plugin exists is
\* never without a wrapper, in the middle of a turn too.
RegistriesAgree ==
    \A n \in Node :
        /\ wrappers[n] # NoDef => /\ wrappers[n] = defs[n]
                                  /\ n \in subjects
                                  /\ n \in destructors
        /\ Live(n) => wrappers[n] # NoDef /\ subscriptions[n].def = wrappers[n]
        /\ subscriptions[n].wired \subseteq InputsOf(defs, n) \cap subjects
        /\ Defined(n) /\ defs[n].config \notin BadConfig => wrappers[n] # NoDef

\* Only a running engine has a subscription, registered or lost: "Engine is
\* paused, subscriptions inactive" (types/engine-state.ts:18).  Pausing clears one
\* map in the middle of loops that fill it.
QuietUnlessRunning ==
    state # "running" => leaked = {} /\ \A n \in Node : ~Live(n)

\* "In this state all subscriptions are active" (types/engine-state.ts:13): when no
\* turn is under way in a running engine, every node that reads inputs is
\* subscribed, however it was added, updated, paused and resumed.
RunningMeansSubscribed ==
    Idle /\ state = "running" =>
        \A n \in Node : wrappers[n] # NoDef /\ defs[n].inputs # {} => Live(n)

\* No subscription listens to a subject that will never emit again: whoever reads
\* a removed node is subscribed anew, without it, before the call returns
\* (engine.ts:941-956).
NoDeadInput == Idle => \A n \in Node : subscriptions[n].dead = {}

\* The definitions, had n one more input and the configuration c.
WithInput(n, i, c) ==
    [defs EXCEPT ![n] = [inputs |-> InputsOf(defs, n) \cup {i}, config |-> c]]

\* The depth-first search of detectCycle finds a cycle exactly where there is one,
\* whatever node is about to read from whatever other: diamonds are none, and a cycle
\* through nodes that lie between is one (engine.ts:271).
SearchDecides ==
    Idle => \A n, i \in Node, c \in Config :
                Search(WithInput(n, i, c), n) = DetectCycle(WithInput(n, i, c), n)

\* topologicalSort throws exactly on a cycle; otherwise it returns all nodes, each once
\* and after its inputs, and importGraph, which moves the sources to the front, finds
\* the inputs of a node before the node (graph.ts:1442, engine.ts:1328, 1378).
SortPutsInputsFirst ==
    Idle => \A n, i \in Node, c \in Config :
                LET g == WithInput(n, i, c)
                    result == TopologicalSort(g, order) IN
                Defined(n) =>
                    /\ result.threw = ~Acyclic(g)
                    /\ ~result.threw =>
                          /\ IsInjective(result.sorted)
                          /\ Range(result.sorted) = Range(order)
                          /\ InputsPrecede(g, SourcesFirst(g, result.sorted))

\* "Engine is destroyed, resources released" (types/engine-state.ts:30).
DestroyedReleases == state = "destroyed" => resources = {}

-----------------------------------------------------------------------------
(* Action properties *)

\* "If engine is paused, save update for application on resume" (engine.ts:674):
\* while the engine is paused, a deferred update that reads no removed node gives
\* way only to another updateNode of its node.
DeferredUpdateKept ==
    [][\A k \in DOMAIN deferred :
           state = "paused" /\ state' = "paused" =>
               LET n == deferred[k].id IN
               \/ \E d \in Def : UpdateNode(n, d)
               \/ \E i \in deferred[k].def.inputs : defs'[i] = NoDef
               \/ \E j \in DOMAIN deferred' : deferred'[j] = deferred[k]]_vars

\* The engine implements EngineContract: no call, turn or timer brings a destroyed
\* engine back or gives it a node, and every step of a turn leaves a graph that is
\* acceptable as it is, although removeNode rewrites its dependents one by one.
Contract == INSTANCE EngineContract WITH phase <- state, graph <- defs
KeepsContract == Contract!Spec

\* Every node with a deferred update keeps one until the resume hands the whole
\* batch, in the order of the requests, to one timer, or the engine loses all its
\* nodes: it is destroyed, or imports a snapshot.
DeferredHandedOver ==
    [][DeferredIds \subseteq {deferred'[k].id : k \in DOMAIN deferred'}
       \/ timers' = Append(timers, deferred)
       \/ order' = <<>>]_deferred

-----------------------------------------------------------------------------
(* Liveness *)

DueBatch == IF timers = <<>> THEN <<>> ELSE Head(timers)

\* A deferred update takes effect: 10 ms after a resume its definition becomes
\* the node's, unless the engine left the running state or a node was removed
\* meanwhile, which can lose the rest of a batch (engine.ts:1713-1718).
DueUpdateApplied ==
    \A n \in Node : \A d \in Callable[n] :
        [op |-> "update", id |-> n, def |-> d] \in Range(DueBatch)
            ~> (defs[n] = d \/ state # "running" \/ subjects # Node)
=============================================================================
