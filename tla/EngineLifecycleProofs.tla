------------------------ MODULE EngineLifecycleProofs ------------------------
(***************************************************************************)
(* What EngineLifecycle guarantees for every set of nodes, every set of    *)
(* configurations and any number of calls.                                 *)
(***************************************************************************)
EXTENDS EngineLifecycle, SequenceFacts, SequenceTheorems, FiniteSetTheorems, TLAPS

-----------------------------------------------------------------------------
(* Graphs *)

\* A search from the changed node is enough: if x is on no cycle and reads from
\* none once it has a new definition, the graph is as acyclic as it was before.
LEMMA SetAcyclic ==
    ASSUME NEW g, NEW x \in Node, NEW d,
           g \in [Node -> Def \cup {NoDef}], 
           Acyclic(g),
           ~DetectCycle([g EXCEPT ![x] = d], x)
    PROVE  Acyclic([g EXCEPT ![x] = d])
<1> DEFINE h == [g EXCEPT ![x] = d]
<1> SUFFICES ASSUME NEW S \in SUBSET Node, S # {},
                    \A n \in S : InputsOf(h, n) \cap S # {}
             PROVE  FALSE
  BY DEF Acyclic
<1>1. x \in S
  <2> SUFFICES ASSUME x \notin S PROVE FALSE
    OBVIOUS
  <2>1. \A n \in S : InputsOf(g, n) = InputsOf(h, n)
    BY DEF InputsOf
  <2> QED
    BY <2>1 DEF Acyclic
<1> QED
  BY <1>1 DEF DetectCycle

\* Taking a definition out closes no cycle.
LEMMA DropAcyclic ==
    ASSUME NEW g, NEW x \in Node,
           g \in [Node -> Def \cup {NoDef}], 
           Acyclic(g)
    PROVE  Acyclic([g EXCEPT ![x] = NoDef])
<1> DEFINE h == [g EXCEPT ![x] = NoDef]
<1>1. \A n \in Node : InputsOf(h, n) \subseteq InputsOf(g, n)
  BY DEF InputsOf
<1>2. ASSUME NEW S \in SUBSET Node, S # {}
      PROVE  \E n \in S : InputsOf(h, n) \cap S = {}
  <2>1. PICK n \in S : InputsOf(g, n) \cap S = {}
    BY <1>2 DEF Acyclic
  <2> QED
    BY <1>1, <2>1
<1> QED
  BY <1>2 DEF Acyclic

-----------------------------------------------------------------------------
(* Types of the helpers *)

LEMMA UnwireType ==
    ASSUME NEW subs \in [Node -> Subscription], NEW i \in Node
    PROVE  Unwire(subs, i) \in [Node -> Subscription]
BY DEF Unwire, Subscription

LEMMA NobodyType == /\ NoSubscription \in Subscription
                    /\ NobodySubscribed \in [Node -> Subscription]
BY DEF NobodySubscribed, NoSubscription, Subscription

LEMMA SubscribeType ==
    ASSUME TypeOK,
           NEW n \in Node, NEW d \in Def, NEW subjs \in SUBSET Node,
           NEW subs \in [Node -> Subscription],
           Subscribe(n, d, subs, subjs)
    PROVE  state' \in State /\ subscriptions' \in [Node -> Subscription]
<1>1. CASE Connect(n, d, subs, subjs)
  <2>1. [def |-> d, wired |-> d.inputs \cap subjs, dead |-> {}] \in Subscription
    BY DEF Subscription, Def
  <2> QED
    BY <1>1, <2>1 DEF Connect, TypeOK
<1>2. CASE ComputeThrows(d, subs)
  BY <1>2, NobodyType DEF ComputeThrows, PauseEngine, Silence, TypeOK, State
<1> QED
  BY <1>1, <1>2 DEF Subscribe

LEMMA SetEntryType ==
    ASSUME NEW entries \in Seq(UpdateItem), NEW e \in UpdateItem
    PROVE  SetEntry(entries, e) \in Seq(UpdateItem)
<1>1. CASE \E k \in DOMAIN entries : entries[k].id = e.id
  <2>1. [k \in DOMAIN entries |-> IF entries[k].id = e.id THEN e ELSE entries[k]]
            \in [1..Len(entries) -> UpdateItem]
    OBVIOUS
  <2> QED
    BY <1>1, <2>1 DEF SetEntry
<1>2. CASE ~ \E k \in DOMAIN entries : entries[k].id = e.id
  BY <1>2, AppendProperties DEF SetEntry
<1> QED
  BY <1>1, <1>2

LEMMA DetachType ==
    ASSUME NEW s \in Seq(Node), NEW n \in Node
    PROVE  DetachAll(s, n) \in Seq(Item)
<1>1. DetachAll(s, n) \in [1..Len(s) -> Item]
  BY DEF DetachAll, Item, DetachItem
<1> QED
  BY <1>1

LEMMA RestoreType ==
    ASSUME TypeOK, NEW b \in BOOLEAN, RestoreSubscriptions(b)
    PROVE  todo' \in Seq(Item)
<1> DEFINE loop == [k \in DOMAIN order |-> [op |-> "subscribe", id |-> order[k]]]
           rest == IF b THEN <<[op |-> "finish"]>> ELSE <<>>
<1>1. loop \in Seq(Item)
  <2>1. loop \in [1..Len(order) -> Item]
    BY DEF TypeOK, Item, SubscribeItem
  <2> QED
    BY <2>1
<1>2. rest \in Seq(Item)
  <2>1. [op |-> "finish"] \in Item
    BY DEF Item, FinishItem
  <2>2. <<[op |-> "finish"]>> \in Seq(Item)
    BY <2>1
  <2> QED
    BY <2>2
<1> QED
  BY <1>1, <1>2, ConcatProperties DEF RestoreSubscriptions

LEMMA UpdateItemIn ==
    ASSUME NEW n \in Node, NEW d \in Def
    PROVE  [op |-> "update", id |-> n, def |-> d] \in UpdateItem
BY DEF UpdateItem

LEMMA ReplaceType ==
    ASSUME TypeOK, NEW n \in Node, NEW d \in Def, ReplaceNode(n, d)
    PROVE  /\ state' \in State
           /\ defs' \in [Node -> Def \cup {NoDef}]
           /\ wrappers' \in [Node -> Def \cup {NoDef}]
           /\ destructors' \subseteq Node
           /\ subscriptions' \in [Node -> Subscription]
<1>1. CleanedSubscriptions(n) \in [Node -> Subscription]
  BY NobodyType DEF CleanedSubscriptions, TypeOK
<1>2. CASE d.config \in BadConfig
  BY <1>1, <1>2 DEF ReplaceNode, CleanedWrappers, TypeOK
<1>3. CASE d.config \notin BadConfig /\ state = "running"
  BY <1>1, <1>3, SubscribeType DEF ReplaceNode, TypeOK
<1>4. CASE d.config \notin BadConfig /\ state # "running"
  BY <1>1, <1>4 DEF ReplaceNode, TypeOK
<1> QED
  BY <1>2, <1>3, <1>4

\* Whatever an iteration of a turn does to the registries, it keeps their types.
LEMMA UpdateWithinType ==
    ASSUME TypeOK, todo # <<>>, NEW n \in Node, NEW d \in Def,
           UpdateWithin(n, d), UNCHANGED <<leaked, timers, resources>>
    PROVE  TypeOK'
<1>1. Tail(todo) \in Seq(Item) /\ <<>> \in Seq(Item)
  BY HeadTailProperties DEF TypeOK
<1>2. CASE DeferUpdate(n, d) /\ Continue
  <2>1. deferred' \in Seq(UpdateItem)
    BY <1>2, SetEntryType, UpdateItemIn DEF DeferUpdate, TypeOK
  <2> QED
    BY <1>1, <1>2, <2>1 DEF DeferUpdate, Continue, TypeOK, registries
<1>3. CASE /\ ReplaceNode(n, d)
           /\ IF d.config \in BadConfig THEN Throw ELSE Continue
           /\ UNCHANGED deferred
  <2>1. order' = order /\ subjects' = subjects
    BY <1>3 DEF ReplaceNode
  <2>2. todo' \in Seq(Item)
    BY <1>1, <1>3 DEF Throw, Continue
  <2> QED
    BY <1>3, <2>1, <2>2, ReplaceType DEF TypeOK
<1>4. CASE /\ Throw
           /\ UNCHANGED <<registries, state, subscriptions, deferred>>
  BY <1>1, <1>4 DEF Throw, TypeOK, registries
<1> QED
  BY <1>2, <1>3, <1>4 DEF UpdateWithin

LEMMA TypeInit == Init => TypeOK
BY NobodyType, LifecycleAssumption DEF Init, TypeOK, State

LEMMA TypeStep == TypeOK /\ [Next]_vars => TypeOK'
<1> SUFFICES ASSUME TypeOK, [Next]_vars PROVE TypeOK'
  OBVIOUS
<1> USE LifecycleAssumption
<1>1. ASSUME NEW n \in Node, NEW d \in Def, AddNode(n, d)
      PROVE  TypeOK'
  <2>1. order' \in Seq(Node)
    BY <1>1, AppendProperties DEF AddNode, TypeOK
  <2>2. Unwire(subscriptions, n) \in [Node -> Subscription]
    BY UnwireType DEF TypeOK
  <2>3. state' \in State /\ subscriptions' \in [Node -> Subscription]
    <3>1. CASE d.config \notin BadConfig /\ state = "running"
      <4>1. Subscribe(n, d, Unwire(subscriptions, n), subjects \cup {n})
        BY <1>1, <3>1 DEF AddNode
      <4>2. subjects \cup {n} \in SUBSET Node
        BY DEF TypeOK
      <4> QED
        BY <2>2, <4>1, <4>2, SubscribeType
    <3>2. CASE ~(d.config \notin BadConfig /\ state = "running")
      BY <1>1, <2>2, <3>2 DEF AddNode, TypeOK
    <3> QED
      BY <3>1, <3>2
  <2>4. /\ defs' \in [Node -> Def \cup {NoDef}]
        /\ wrappers' \in [Node -> Def \cup {NoDef}]
        /\ subjects' \subseteq Node
        /\ destructors' \subseteq Node
    BY <1>1 DEF AddNode, TypeOK
  <2> QED
    BY <1>1, <2>1, <2>3, <2>4 DEF AddNode, TypeOK
<1>2. ASSUME NEW n \in Node, NEW d \in Def, UpdateNode(n, d)
      PROVE  TypeOK'
  <2>1. CASE DeferUpdate(n, d)
    <3>1. deferred' \in Seq(UpdateItem)
      BY <2>1, SetEntryType, UpdateItemIn DEF DeferUpdate, TypeOK
    <3> QED
      BY <1>2, <2>1, <3>1 DEF UpdateNode, DeferUpdate, TypeOK, registries
  <2>2. CASE ReplaceNode(n, d) /\ UNCHANGED deferred
    <3>1. UNCHANGED <<order, subjects, leaked, timers, resources, todo>>
      BY <1>2, <2>2 DEF UpdateNode, ReplaceNode
    <3> QED
      BY <2>2, <3>1, ReplaceType DEF TypeOK
  <2> QED
    BY <1>2, <2>1, <2>2 DEF UpdateNode
<1>3. ASSUME NEW n \in Node, NEW p \in BOOLEAN, RemoveNode(n, p)
      PROVE  TypeOK'
  <2>1. CleanedSubscriptions(n) \in [Node -> Subscription]
    BY NobodyType DEF CleanedSubscriptions, TypeOK
  <2>2. subscriptions' \in [Node -> Subscription]
    BY <1>3, <2>1, UnwireType DEF RemoveNode
  <2>3. order' \in Seq(Node) /\ todo' \in Seq(Item)
    <3>1. CASE todo' = DetachAll(order, n) /\ UNCHANGED order
      BY <3>1, DetachType DEF TypeOK
    <3>2. CASE \E k \in DOMAIN order :
                  /\ order' = RemoveAt(order, k)
                  /\ todo' = DetachAll(RemoveAt(order, k), n)
      BY <3>2, RemoveAtFacts, DetachType DEF TypeOK
    <3> QED
      BY <1>3, <3>1, <3>2 DEF RemoveNode
  <2>4. /\ defs' \in [Node -> Def \cup {NoDef}]
        /\ wrappers' \in [Node -> Def \cup {NoDef}]
        /\ subjects' \subseteq Node
        /\ destructors' \subseteq Node
    BY <1>3 DEF RemoveNode, CleanedWrappers, TypeOK
  <2> QED
    BY <1>3, <2>2, <2>3, <2>4 DEF RemoveNode, TypeOK
<1>4. CASE Start
  <2>1. todo' \in Seq(Item)
    BY <1>4, RestoreType DEF Start
  <2> QED
    BY <1>4, <2>1 DEF Start, TypeOK, State, registries
<1>5. CASE Resume
  <2>1. todo' \in Seq(Item)
    BY <1>5, RestoreType DEF Resume
  <2> QED
    BY <1>5, <2>1 DEF Resume, TypeOK, State, registries
<1>6. CASE Pause
  BY <1>6, NobodyType DEF Pause, PauseEngine, Silence, TypeOK, State, registries
<1>7. CASE Stop
  BY <1>7, NobodyType DEF Stop, Silence, TypeOK, State, registries
<1>8. CASE Destroy
  BY <1>8, NobodyType DEF Destroy, Silence, TypeOK, State
<1>9. ASSUME NEW n \in Node, ComputeSkips(n)
      PROVE  TypeOK'
  BY <1>9, NobodyType DEF ComputeSkips, PauseEngine, Silence, TypeOK, State, registries
<1>10. CASE TimerFires
  <2>1. Head(timers) \in Seq(UpdateItem) /\ Tail(timers) \in Seq(Seq(UpdateItem))
    BY <1>10, HeadTailProperties DEF TimerFires, TypeOK
  <2>2. Head(timers) \in Seq(Item)
    BY <2>1, SeqMonotonic DEF Item
  <2> QED
    BY <1>10, <2>1, <2>2 DEF TimerFires, TypeOK, registries
<1>11. CASE TurnStep
  <2>1. todo # <<>> /\ Tail(todo) \in Seq(Item) /\ <<>> \in Seq(Item)
    BY <1>11, HeadTailProperties DEF TurnStep, Idle, TypeOK
  <2>2. CASE SubscribeStep
    <3> PICK n \in Node : /\ RecreateSubscription(n)
                          /\ Continue
                          /\ UNCHANGED <<defs, order, subjects, wrappers, deferred,
                                         timers, resources>>
      BY <2>2 DEF SubscribeStep
    <3>1. CASE UNCHANGED <<state, subscriptions, leaked, destructors>>
      BY <2>1, <3>1 DEF Continue, TypeOK
    <3>2. CASE /\ wrappers[n] # NoDef
               /\ destructors' = destructors \cup {n}
               /\ n \in subjects
      <4>1. CASE Connect(n, defs[n], subscriptions, subjects)
                 /\ leaked' = IF Live(n)
                              THEN leaked \cup {<<n, Kind(subscriptions[n].def)>>}
                              ELSE leaked
        <5>1. leaked' \subseteq Node \X {"source", "pipeline"}
          BY <4>1 DEF Kind, TypeOK
        <5>2. subscriptions' \in [Node -> Subscription] /\ state' = state
          <6>1. [def |-> defs[n], wired |-> defs[n].inputs \cap subjects,
                 dead |-> {}] \in Subscription
            BY DEF TypeOK, Subscription
          <6> QED
            BY <4>1, <6>1 DEF Connect, TypeOK
        <5> QED
          BY <2>1, <3>2, <5>1, <5>2 DEF Continue, TypeOK
      <4>2. CASE ComputeThrows(defs[n], subscriptions) /\ UNCHANGED leaked
        <5>1. subscriptions' \in [Node -> Subscription] /\ state' \in State
          BY <4>2, NobodyType DEF ComputeThrows, PauseEngine, Silence, TypeOK, State
        <5> QED
          BY <2>1, <3>2, <4>2, <5>1 DEF Continue, TypeOK
      <4> QED
        BY <3>2, <4>1, <4>2 DEF RecreateSubscription
    <3> QED
      BY <3>1, <3>2 DEF RecreateSubscription
  <2>3. CASE FinishStep
    <3>1. deferred' \in Seq(UpdateItem) /\ timers' \in Seq(Seq(UpdateItem))
      <4>1. CASE deferred = <<>>
        BY <2>3, <4>1 DEF FinishStep, TypeOK
      <4>2. CASE deferred # <<>>
        <5> DEFINE Batch == Seq(UpdateItem)
        <5>1. deferred \in Batch /\ timers \in Seq(Batch) /\ <<>> \in Batch
          BY DEF TypeOK
        <5> HIDE DEF Batch
        <5>2. Append(timers, deferred) \in Seq(Batch)
          BY <5>1, AppendProperties
        <5>3. deferred' = <<>> /\ timers' = Append(timers, deferred)
          BY <2>3, <4>2 DEF FinishStep
        <5>4. deferred' \in Batch /\ timers' \in Seq(Batch)
          BY <5>1, <5>2, <5>3
        <5> QED
          BY <5>4 DEF Batch
      <4> QED
        BY <4>1, <4>2
    <3> QED
      BY <2>1, <2>3, <3>1 DEF FinishStep, Continue, TypeOK, registries
  <2>4. CASE UpdateStep
    BY <2>1, <2>4, UpdateWithinType DEF UpdateStep
  <2>5. CASE DetachStep
    <3> PICK n \in Node, i \in Node :
            /\ IF i \in InputsOf(defs, n)
               THEN UpdateWithin(n, [defs[n] EXCEPT !.inputs = @ \ {i}])
               ELSE Continue /\ UNCHANGED <<registries, state, subscriptions, deferred>>
            /\ UNCHANGED <<leaked, timers, resources>>
      BY <2>5 DEF DetachStep
    <3>1. CASE i \in InputsOf(defs, n)
      <4>1. [defs[n] EXCEPT !.inputs = @ \ {i}] \in Def
        BY <3>1 DEF InputsOf, Def, TypeOK
      <4> QED
        BY <2>1, <3>1, <4>1, UpdateWithinType
    <3>2. CASE i \notin InputsOf(defs, n)
      BY <2>1, <3>2 DEF Continue, TypeOK, registries
    <3> QED
      BY <3>1, <3>2
  <2> QED
    BY <1>11, <2>2, <2>3, <2>4, <2>5 DEF TurnStep
<1>12. CASE UNCHANGED vars
  BY <1>12 DEF vars, TypeOK
<1> QED
  BY <1>1, <1>2, <1>3, <1>4, <1>5, <1>6, <1>7, <1>8, <1>9, <1>10, <1>11, <1>12
     DEF Next, NodeCall, LifecycleCall, Argument

\* Every variable keeps its type: the engine never leaves the states of
\* EngineState, and a turn only ever holds iterations that exist.
THEOREM TypeCorrect == Spec => []TypeOK
BY TypeInit, TypeStep, PTL DEF Spec

-----------------------------------------------------------------------------
(* Cycles *)

\* One iteration of a turn, where it changes a definition, has asked detectCycle.
LEMMA UpdateWithinAcyclic ==
    ASSUME TypeOK, AcyclicDefs, NEW n \in Node, NEW d, UpdateWithin(n, d)
    PROVE  AcyclicDefs'
<1>1. CASE ~UpdateRefused(n, d) /\ ReplaceNode(n, d)
  BY <1>1, SetAcyclic DEF UpdateRefused, ReplaceNode, AcyclicDefs, TypeOK
<1>2. CASE UNCHANGED defs
  BY <1>2 DEF AcyclicDefs
<1> QED
  BY <1>1, <1>2 DEF UpdateWithin, DeferUpdate, registries

LEMMA AcyclicInit == Init => AcyclicDefs
BY DEF Init, AcyclicDefs, Acyclic, InputsOf

LEMMA AcyclicStep == TypeOK /\ AcyclicDefs /\ [Next]_vars => AcyclicDefs'
<1> SUFFICES ASSUME TypeOK, AcyclicDefs, [Next]_vars PROVE AcyclicDefs'
  OBVIOUS
<1>1. ASSUME NEW n \in Node, NEW d, AddNode(n, d)
      PROVE  AcyclicDefs'
  BY <1>1, SetAcyclic DEF AddNode, AcyclicDefs, TypeOK
<1>2. ASSUME NEW n \in Node, NEW d, UpdateNode(n, d)
      PROVE  AcyclicDefs'
  <2>1. CASE ~UpdateRefused(n, d) /\ ReplaceNode(n, d)
    BY <2>1, SetAcyclic DEF UpdateRefused, ReplaceNode, AcyclicDefs, TypeOK
  <2>2. CASE UNCHANGED defs
    BY <2>2 DEF AcyclicDefs
  <2> QED
    BY <1>2, <2>1, <2>2 DEF UpdateNode, DeferUpdate, registries
<1>3. ASSUME NEW n \in Node, NEW p \in BOOLEAN, RemoveNode(n, p)
      PROVE  AcyclicDefs'
  BY <1>3, DropAcyclic DEF RemoveNode, AcyclicDefs, TypeOK
<1>4. CASE Destroy
  BY <1>4 DEF Destroy, AcyclicDefs, Acyclic, InputsOf
<1>5. CASE TurnStep
  <2>1. CASE UpdateStep
    BY <2>1, UpdateWithinAcyclic DEF UpdateStep
  <2>2. CASE DetachStep
    <3> PICK n \in Node, i \in Node :
            IF i \in InputsOf(defs, n)
            THEN UpdateWithin(n, [defs[n] EXCEPT !.inputs = @ \ {i}])
            ELSE UNCHANGED registries
      BY <2>2 DEF DetachStep
    <3> QED
      BY UpdateWithinAcyclic DEF registries, AcyclicDefs
  <2>3. CASE SubscribeStep \/ FinishStep
    BY <2>3 DEF SubscribeStep, FinishStep, registries, AcyclicDefs
  <2> QED
    BY <1>5, <2>1, <2>2, <2>3 DEF TurnStep
<1>6. CASE UNCHANGED defs
  BY <1>6 DEF AcyclicDefs
<1> QED
  BY <1>1, <1>2, <1>3, <1>4, <1>5, <1>6, LifecycleAssumption
     DEF Next, NodeCall, LifecycleCall, Start, Resume, Pause, Stop, ComputeSkips,
         TimerFires, registries, vars

\* No sequence of additions, updates, removals and deferred updates makes a
\* computation graph with a cycle: the check made at each change, from the changed
\* node only, is enough.
THEOREM Acyclicity == Spec => []AcyclicDefs
BY AcyclicInit, AcyclicStep, TypeCorrect, PTL DEF Spec

-----------------------------------------------------------------------------
(* Registries *)

LEMMA SilenceAgrees ==
    ASSUME RegistriesAgree, TypeOK, Silence, UNCHANGED registries
    PROVE  RegistriesAgree'
BY DEF RegistriesAgree, Silence, NobodySubscribed, NoSubscription, Live, Defined,
       InputsOf, registries

\* RegistriesAgree, said of one node.
Agrees(n) ==
    /\ wrappers[n] # NoDef => /\ wrappers[n] = defs[n]
                              /\ n \in subjects
                              /\ n \in destructors
    /\ Live(n) => wrappers[n] # NoDef /\ subscriptions[n].def = wrappers[n]
    /\ subscriptions[n].wired \subseteq InputsOf(defs, n) \cap subjects
    /\ Defined(n) /\ defs[n].config \notin BadConfig => wrappers[n] # NoDef

\* A node still agrees when what happened to the others cost it at most its
\* subscription, or the wiring to a subject.
LEMMA UntouchedAgrees ==
    ASSUME NEW m \in Node, Agrees(m),
           defs'[m] = defs[m], wrappers'[m] = wrappers[m],
           Live(m)' => Live(m) /\ subscriptions'[m].def = subscriptions[m].def,
           subscriptions'[m].wired \subseteq subscriptions[m].wired \cap subjects',
           m \in subjects => m \in subjects', m \in destructors => m \in destructors'
    PROVE  Agrees(m)'
BY DEF Agrees, Defined, InputsOf

\* A node without a definition, a wrapper and a subscription agrees.
LEMMA VacantAgrees ==
    ASSUME NEW m \in Node, defs'[m] = NoDef, wrappers'[m] = NoDef,
           subscriptions'[m] = NoSubscription
    PROVE  Agrees(m)'
BY DEF Agrees, Live, Defined, NoSubscription

\* A node that has everything agrees.
LEMMA FreshAgrees ==
    ASSUME NEW m \in Node, NEW d \in Def, defs'[m] = d, wrappers'[m] = d,
           m \in subjects', m \in destructors',
           \/ subscriptions'[m] = NoSubscription
           \/ subscriptions'[m] =
                  [def |-> d, wired |-> d.inputs \cap subjects', dead |-> {}]
    PROVE  Agrees(m)'
<1>1. d # NoDef
  BY NoDefAssumption
<1> QED
  BY <1>1 DEF Agrees, Live, Defined, InputsOf, NoSubscription

\* A node whose plugin is unknown agrees when it has neither.
LEMMA UnknownAgrees ==
    ASSUME NEW m \in Node, NEW d \in Def, defs'[m] = d, d.config \in BadConfig,
           wrappers'[m] = NoDef, subscriptions'[m] = NoSubscription
    PROVE  Agrees(m)'
BY DEF Agrees, Live, NoSubscription

\* What Unwire does to one subscription.
LEMMA UnwireOne ==
    ASSUME NEW subs \in [Node -> Subscription], NEW i \in Node, NEW m \in Node
    PROVE  /\ Unwire(subs, i)[m].def = subs[m].def
           /\ Unwire(subs, i)[m].wired = subs[m].wired \ {i}
           /\ subs[m] = NoSubscription => Unwire(subs, i)[m] = NoSubscription
BY DEF Unwire, NoSubscription

\* What updateNode leaves: everything the new definition needs, or, when the
\* plugin is unknown, neither a wrapper nor a subscription.
LEMMA ReplaceAgrees ==
    ASSUME TypeOK, RegistriesAgree, NEW n \in Node, NEW d \in Def,
           ~UpdateRefused(n, d), ReplaceNode(n, d)
    PROVE  RegistriesAgree'
<1>1. /\ n \in subjects /\ d # NoDef /\ subjects' = subjects
      /\ defs' = [defs EXCEPT ![n] = d]
      /\ defs'[n] = d
      /\ \A m \in Node \ {n} : defs'[m] = defs[m]
  BY NoDefAssumption DEF UpdateRefused, ReplaceNode, TypeOK
<1>2. /\ CleanedSubscriptions(n)[n] = NoSubscription
      /\ \A m \in Node \ {n} : CleanedSubscriptions(n)[m] = subscriptions[m]
  BY DEF CleanedSubscriptions, TypeOK
<1>3. \/ subscriptions' = CleanedSubscriptions(n)
      \/ subscriptions' = NobodySubscribed
      \/ /\ d.config \notin BadConfig
         /\ subscriptions' = [CleanedSubscriptions(n) EXCEPT ![n] =
                  [def |-> d, wired |-> d.inputs \cap subjects, dead |-> {}]]
  BY DEF ReplaceNode, Subscribe, Connect, ComputeThrows, PauseEngine, Silence
<1>4. /\ destructors \ {n} \subseteq destructors'
      /\ \A m \in Node \ {n} : wrappers'[m] = wrappers[m]
      /\ d.config \in BadConfig => wrappers'[n] = NoDef
      /\ d.config \notin BadConfig => wrappers'[n] = d /\ n \in destructors'
  BY DEF ReplaceNode, CleanedWrappers, TypeOK
<1>5. ASSUME NEW m \in Node \ {n} PROVE Agrees(m)'
  <2>1. \/ subscriptions'[m] = subscriptions[m]
        \/ subscriptions'[m] = NoSubscription
    BY <1>2, <1>3 DEF NobodySubscribed, CleanedSubscriptions, TypeOK
  <2>2. Agrees(m)
    BY DEF RegistriesAgree, Agrees
  <2>3. subscriptions[m].wired \subseteq subjects
    BY <2>2 DEF Agrees
  <2>4. Live(m)' => Live(m) /\ subscriptions'[m].def = subscriptions[m].def
    BY <2>1 DEF Live
  <2>5. subscriptions'[m].wired \subseteq subscriptions[m].wired \cap subjects'
    BY <1>1, <2>1, <2>3 DEF NoSubscription
  <2>6. m \in destructors => m \in destructors'
    BY <1>4
  <2>7. /\ defs'[m] = defs[m] /\ wrappers'[m] = wrappers[m]
        /\ m \in subjects => m \in subjects'
    BY <1>1, <1>4
  <2> QED
    BY <2>2, <2>4, <2>5, <2>6, <2>7, UntouchedAgrees
<1>6. Agrees(n)'
  <2>1. DOMAIN CleanedSubscriptions(n) = Node
    BY DEF CleanedSubscriptions, TypeOK
  <2>2. CASE d.config \in BadConfig
    BY <1>1, <1>2, <1>3, <1>4, <2>2, UnknownAgrees DEF NobodySubscribed
  <2>3. CASE d.config \notin BadConfig
    BY <1>1, <1>2, <1>3, <1>4, <2>1, <2>3, FreshAgrees DEF NobodySubscribed
  <2> QED
    BY <2>2, <2>3
<1> QED
  BY <1>5, <1>6 DEF RegistriesAgree, Agrees

\* One iteration that calls updateNode.
LEMMA UpdateWithinAgrees ==
    ASSUME TypeOK, RegistriesAgree, NEW n \in Node, NEW d \in Def,
           UpdateWithin(n, d)
    PROVE  RegistriesAgree'
<1>1. CASE ~UpdateRefused(n, d) /\ ReplaceNode(n, d)
  BY <1>1, ReplaceAgrees
<1>2. CASE UNCHANGED <<registries, subscriptions>>
  BY <1>2 DEF RegistriesAgree, Live, Defined, InputsOf, registries
<1> QED
  BY <1>1, <1>2 DEF UpdateWithin, DeferUpdate

\* addNode: the new node has all it needs, or none of it, and a subject that
\* replaces a preserved one takes the old one from its listeners.
LEMMA AddAgrees ==
    ASSUME TypeOK, RegistriesAgree, NEW n \in Node, NEW d \in Def, AddNode(n, d)
    PROVE  RegistriesAgree'
<1>1. /\ defs'[n] = d
      /\ \A m \in Node \ {n} : defs'[m] = defs[m]
      /\ defs[n] = NoDef
  BY DEF AddNode, TypeOK, Defined
<1>2. wrappers[n] = NoDef /\ subscriptions[n] = NoSubscription
  BY <1>1 DEF RegistriesAgree, Live
<1>3. subscriptions \in [Node -> Subscription]
  BY DEF TypeOK
<1>4. CASE d.config \in BadConfig
  <2>1. UNCHANGED <<subjects, wrappers, destructors, subscriptions>>
    BY <1>4 DEF AddNode
  <2>2. ASSUME NEW m \in Node \ {n} PROVE Agrees(m)'
    BY <1>1, <2>1, UntouchedAgrees DEF RegistriesAgree, Agrees, Live
  <2>3. Agrees(n)'
    BY <1>1, <1>2, <1>4, <2>1, UnknownAgrees
  <2> QED
    BY <2>2, <2>3 DEF RegistriesAgree, Agrees
<1>5. CASE d.config \notin BadConfig
  <2> DEFINE Old == Unwire(subscriptions, n)
  <2>1. /\ subjects' = subjects \cup {n}
        /\ wrappers' = [wrappers EXCEPT ![n] = d]
        /\ destructors' = destructors \cup {n}
    BY <1>5 DEF AddNode
  <2>2. /\ wrappers'[n] = d
        /\ \A m \in Node \ {n} : wrappers'[m] = wrappers[m]
    BY <2>1 DEF TypeOK
  <2>3. \/ subscriptions' = Old
        \/ subscriptions' = NobodySubscribed
        \/ subscriptions' = [Old EXCEPT ![n] =
               [def |-> d, wired |-> d.inputs \cap subjects', dead |-> {}]]
    BY <1>5, <2>1 DEF AddNode, Subscribe, Connect, ComputeThrows, PauseEngine, Silence
  <2>4. DOMAIN Old = Node
    BY DEF Unwire
  <2>5. ASSUME NEW m \in Node \ {n} PROVE Agrees(m)'
    <3>1. /\ Old[m].def = subscriptions[m].def
          /\ Old[m].wired = subscriptions[m].wired \ {n}
          /\ subscriptions[m] = NoSubscription => Old[m] = NoSubscription
      BY <1>3, UnwireOne
    <3>2. subscriptions'[m] = Old[m] \/ subscriptions'[m] = NoSubscription
      BY <2>3, <2>4 DEF NobodySubscribed
    <3>3. Agrees(m)
      BY DEF RegistriesAgree, Agrees
    <3>4. subscriptions[m].wired \subseteq subjects
      BY <3>3 DEF Agrees
    <3> HIDE DEF Old
    <3>5. Live(m)' => Live(m) /\ subscriptions'[m].def = subscriptions[m].def
      BY <3>1, <3>2 DEF Live
    <3>6. subscriptions'[m].wired \subseteq subscriptions[m].wired \cap subjects'
      BY <2>1, <3>1, <3>2, <3>4 DEF NoSubscription
    <3> QED
      BY <1>1, <2>1, <2>2, <3>3, <3>5, <3>6, UntouchedAgrees
  <2>6. Agrees(n)'
    <3>1. Old[n] = NoSubscription
      BY <1>2, <1>3, UnwireOne
    <3> HIDE DEF Old
    <3> QED
      BY <1>1, <2>1, <2>2, <2>3, <2>4, <3>1, FreshAgrees DEF NobodySubscribed
  <2> QED
    BY <2>5, <2>6 DEF RegistriesAgree, Agrees
<1> QED
  BY <1>4, <1>5

\* removeNode: nothing is left of n, and whoever was wired to a subject that was
\* completed is not any more.
LEMMA RemoveAgrees ==
    ASSUME TypeOK, RegistriesAgree, NEW n \in Node, NEW p \in BOOLEAN,
           RemoveNode(n, p)
    PROVE  RegistriesAgree'
<1> DEFINE Left == CleanedSubscriptions(n)
<1>1. /\ defs'[n] = NoDef /\ wrappers'[n] = NoDef
      /\ \A m \in Node \ {n} : defs'[m] = defs[m] /\ wrappers'[m] = wrappers[m]
      /\ destructors' = destructors \ {n}
  BY DEF RemoveNode, CleanedWrappers, TypeOK
<1>2. /\ Left \in [Node -> Subscription]
      /\ Left[n] = NoSubscription
      /\ \A m \in Node \ {n} : Left[m] = subscriptions[m]
  BY DEF CleanedSubscriptions, TypeOK, Subscription, NoSubscription
<1>3. \/ subscriptions' = Left /\ subjects' = subjects
      \/ subscriptions' = Unwire(Left, n) /\ subjects' = subjects \ {n}
  BY DEF RemoveNode
<1> HIDE DEF Left
<1>4. ASSUME NEW m \in Node \ {n} PROVE Agrees(m)'
  <2>1. Agrees(m)
    BY DEF RegistriesAgree, Agrees
  <2>2. subscriptions[m].wired \subseteq subjects
    BY <2>1 DEF Agrees
  <2>3. /\ Unwire(Left, n)[m].def = subscriptions[m].def
        /\ Unwire(Left, n)[m].wired = subscriptions[m].wired \ {n}
        /\ subscriptions[m] = NoSubscription => Unwire(Left, n)[m] = NoSubscription
    BY <1>2, UnwireOne
  <2>4. Live(m)' => Live(m) /\ subscriptions'[m].def = subscriptions[m].def
    BY <1>2, <1>3, <2>3 DEF Live
  <2>5. subscriptions'[m].wired \subseteq subscriptions[m].wired \cap subjects'
    BY <1>2, <1>3, <2>2, <2>3
  <2>6. /\ m \in subjects => m \in subjects'
        /\ m \in destructors => m \in destructors'
    BY <1>1, <1>3
  <2> QED
    BY <1>1, <2>1, <2>4, <2>5, <2>6, UntouchedAgrees
<1>5. Agrees(n)'
  <2>1. subscriptions'[n] = NoSubscription
    BY <1>2, <1>3, UnwireOne
  <2> QED
    BY <1>1, <2>1, VacantAgrees
<1> QED
  BY <1>4, <1>5 DEF RegistriesAgree, Agrees

\* One iteration of recreateNodeSubscriptions: it only subscribes a node that has
\* a wrapper, and by the definition that wrapper was made from.
LEMMA RecreateAgrees ==
    ASSUME TypeOK, RegistriesAgree, NEW n \in Node, RecreateSubscription(n),
           UNCHANGED <<defs, wrappers, subjects>>, destructors' \in SUBSET Node
    PROVE  RegistriesAgree'
<1>1. CASE UNCHANGED <<subscriptions, destructors>>
  BY <1>1 DEF RegistriesAgree, Live, Defined, InputsOf
<1>2. CASE ~UNCHANGED <<subscriptions, destructors>>
  <2>1. /\ wrappers[n] # NoDef /\ n \in subjects
        /\ destructors' = destructors \cup {n}
    BY <1>2 DEF RecreateSubscription
  <2>2. defs[n] = wrappers[n] /\ defs[n] \in Def
    BY <2>1 DEF RegistriesAgree, TypeOK
  <2>3. \/ subscriptions' = subscriptions
        \/ subscriptions' = NobodySubscribed
        \/ subscriptions' = [subscriptions EXCEPT ![n] =
               [def |-> defs[n], wired |-> defs[n].inputs \cap subjects, dead |-> {}]]
    BY <2>1 DEF RecreateSubscription, Connect, ComputeThrows, PauseEngine, Silence
  <2>4. ASSUME NEW m \in Node,
               subscriptions'[m] = subscriptions[m] \/ subscriptions'[m] = NoSubscription
        PROVE  Agrees(m)'
    <3>1. Agrees(m)
      BY DEF RegistriesAgree, Agrees
    <3>2. Live(m)' => Live(m) /\ subscriptions'[m].def = subscriptions[m].def
      BY <2>4 DEF Live
    <3>3. subscriptions'[m].wired \subseteq subscriptions[m].wired \cap subjects'
      BY <2>4, <3>1 DEF Agrees, NoSubscription
    <3> QED
      BY <2>1, <3>1, <3>2, <3>3, UntouchedAgrees
  <2>5. CASE subscriptions' = subscriptions \/ subscriptions' = NobodySubscribed
    BY <2>4, <2>5 DEF NobodySubscribed, RegistriesAgree, Agrees
  <2>6. CASE subscriptions' = [subscriptions EXCEPT ![n] =
               [def |-> defs[n], wired |-> defs[n].inputs \cap subjects, dead |-> {}]]
    <3>1. Agrees(n)'
      BY <2>1, <2>2, <2>6, FreshAgrees DEF TypeOK
    <3>2. \A m \in Node \ {n} : subscriptions'[m] = subscriptions[m]
      BY <2>6 DEF TypeOK
    <3> QED
      BY <2>4, <3>1, <3>2 DEF RegistriesAgree, Agrees
  <2> QED
    BY <2>3, <2>5, <2>6
<1> QED
  BY <1>1, <1>2

LEMMA RegistriesInit == Init => RegistriesAgree
<1> SUFFICES ASSUME Init, NEW n \in Node PROVE Agrees(n)
  BY DEF RegistriesAgree, Agrees
<1>1. defs[n] = NoDef /\ wrappers[n] = NoDef /\ subscriptions[n] = NoSubscription
  BY DEF Init, NobodySubscribed
<1> QED
  BY <1>1 DEF Agrees, Live, Defined, NoSubscription

LEMMA RegistriesStep == TypeOK /\ TypeOK' /\ RegistriesAgree /\ [Next]_vars => RegistriesAgree'
<1> SUFFICES ASSUME TypeOK, TypeOK', RegistriesAgree, [Next]_vars
             PROVE  RegistriesAgree'
  OBVIOUS
<1>1. ASSUME NEW n \in Node, NEW d \in Def, AddNode(n, d) PROVE RegistriesAgree'
  BY <1>1, AddAgrees
<1>2. ASSUME NEW n \in Node, NEW d \in Def, UpdateNode(n, d) PROVE RegistriesAgree'
  <2>1. CASE DeferUpdate(n, d)
    BY <2>1 DEF DeferUpdate, RegistriesAgree, Live, Defined, InputsOf, registries
  <2> QED
    BY <1>2, <2>1, ReplaceAgrees DEF UpdateNode
<1>3. ASSUME NEW n \in Node, NEW p \in BOOLEAN, RemoveNode(n, p)
      PROVE  RegistriesAgree'
  BY <1>3, RemoveAgrees
<1>4. CASE Pause \/ Stop \/ \E n \in Node : ComputeSkips(n)
  BY <1>4, SilenceAgrees DEF Pause, Stop, ComputeSkips, PauseEngine
<1>5. CASE Destroy
  <2>1. ASSUME NEW n \in Node PROVE Agrees(n)'
    BY <1>5, VacantAgrees DEF Destroy, Silence, NobodySubscribed
  <2> QED
    BY <2>1 DEF RegistriesAgree, Agrees
<1>6. CASE TurnStep
  <2>1. CASE SubscribeStep
    BY <2>1, RecreateAgrees DEF SubscribeStep, TypeOK
  <2>2. CASE UpdateStep
    BY <2>2, UpdateWithinAgrees DEF UpdateStep
  <2>3. CASE DetachStep
    <3> PICK n \in Node, i \in Node :
            IF i \in InputsOf(defs, n)
            THEN UpdateWithin(n, [defs[n] EXCEPT !.inputs = @ \ {i}])
            ELSE UNCHANGED <<registries, subscriptions>>
      BY <2>3 DEF DetachStep
    <3>1. CASE i \in InputsOf(defs, n)
      <4>1. [defs[n] EXCEPT !.inputs = @ \ {i}] \in Def
        BY <3>1 DEF InputsOf, Def, TypeOK
      <4> QED
        BY <3>1, <4>1, UpdateWithinAgrees
    <3>2. CASE i \notin InputsOf(defs, n)
      BY <3>2 DEF RegistriesAgree, Live, Defined, InputsOf, registries
    <3> QED
      BY <3>1, <3>2
  <2>4. CASE FinishStep
    BY <2>4 DEF FinishStep, RegistriesAgree, Live, Defined, InputsOf, registries
  <2> QED
    BY <1>6, <2>1, <2>2, <2>3, <2>4 DEF TurnStep
<1>7. CASE UNCHANGED <<registries, subscriptions>>
  BY <1>7 DEF RegistriesAgree, Live, Defined, InputsOf, registries
<1>8. CASE NodeCall
  BY <1>1, <1>2, <1>3, <1>8, LifecycleAssumption DEF NodeCall, Argument
<1>9. CASE LifecycleCall
  BY <1>4, <1>5, <1>7, <1>9 DEF LifecycleCall, Start, Resume
<1> QED
  BY <1>4, <1>6, <1>7, <1>8, <1>9 DEF Next, TimerFires, vars, registries

\* The maps the engine keeps one by one always tell the same story: wrappers,
\* subscriptions, subjects and definitions of a node belong together.
THEOREM Registries == Spec => []RegistriesAgree
BY RegistriesInit, RegistriesStep, TypeCorrect, PTL DEF Spec

-----------------------------------------------------------------------------
(* The contract *)

LEMMA SameNotions ==
    /\ Contract!Def = Def
    /\ Contract!Nothing = [n \in Node |-> NoDef]
    /\ \A g : Contract!Acyclic(g) = Acyclic(g)
BY DEF Contract!Def, Def, Contract!Nothing, Contract!Acyclic, Acyclic,
       Contract!InputsOf, InputsOf

\* What is subscribed may pause a running engine, and does nothing else to the state.
LEMMA SubscribeMoves ==
    ASSUME NEW n, NEW d, NEW subs, NEW subjs, Subscribe(n, d, subs, subjs)
    PROVE  Contract!KeepsRunning
BY DEF Subscribe, Connect, ComputeThrows, PauseEngine, Contract!KeepsRunning

LEMMA PutKept ==
    ASSUME NEW n \in Node, NEW d \in Def, state # "destroyed", AcyclicDefs',
           defs' = [defs EXCEPT ![n] = d], Contract!KeepsRunning
    PROVE  Contract!Next
<1>1. Contract!Put(n, d)
  BY SameNotions DEF Contract!Put, AcyclicDefs
<1> QED
  BY <1>1, SameNotions DEF Contract!Next

LEMMA ReplaceKept ==
    ASSUME NEW n \in Node, NEW d \in Def, state \in {"initialized", "running"},
           AcyclicDefs', ReplaceNode(n, d)
    PROVE  Contract!Next
<1>1. Contract!KeepsRunning
  BY SubscribeMoves DEF ReplaceNode, Contract!KeepsRunning
<1> QED
  BY <1>1, PutKept DEF ReplaceNode

LEMMA UpdateWithinKept ==
    ASSUME NEW n \in Node, NEW d \in Def, AcyclicDefs', UpdateWithin(n, d)
    PROVE  [Contract!Next]_<<state, defs>>
BY ReplaceKept DEF UpdateWithin, DeferUpdate, registries

LEMMA ContractStep ==
    TypeOK /\ AcyclicDefs' /\ [Next]_vars => [Contract!Next]_<<state, defs>>
<1> SUFFICES ASSUME TypeOK, AcyclicDefs', [Next]_vars
             PROVE  [Contract!Next]_<<state, defs>>
  OBVIOUS
<1>1. ASSUME NEW n \in Node, NEW d \in Def, AddNode(n, d) PROVE Contract!Next
  <2>1. Contract!KeepsRunning
    BY <1>1, SubscribeMoves DEF AddNode, Contract!KeepsRunning
  <2> QED
    BY <1>1, <2>1, PutKept DEF AddNode
<1>2. ASSUME NEW n \in Node, NEW d \in Def, UpdateNode(n, d)
      PROVE  [Contract!Next]_<<state, defs>>
  BY <1>2, ReplaceKept DEF UpdateNode, DeferUpdate, registries
<1>3. ASSUME NEW n \in Node, NEW p \in BOOLEAN, RemoveNode(n, p) PROVE Contract!Next
  <2>1. Contract!Remove(n)
    BY <1>3 DEF RemoveNode, Contract!Remove
  <2> QED
    BY <2>1 DEF Contract!Next
<1>4. CASE Start \/ Resume
  <2>1. Contract!Start
    BY <1>4 DEF Start, Resume, registries, Contract!Start, Contract!Turn
  <2> QED
    BY <2>1 DEF Contract!Next
<1>5. CASE Pause \/ \E n \in Node : ComputeSkips(n)
  <2>1. Contract!Pause
    BY <1>5 DEF Pause, ComputeSkips, PauseEngine, registries, Contract!Pause, Contract!Turn
  <2> QED
    BY <2>1 DEF Contract!Next
<1>6. CASE Stop \/ Destroy
  <2>1. state \in {"initialized", "running", "paused"}
    BY <1>6 DEF Stop, Destroy, TypeOK, State
  <2>2. Contract!Stop
    BY <1>6, <2>1, SameNotions DEF Stop, Destroy, registries, Contract!Stop, Contract!Turn
  <2> QED
    BY <2>2 DEF Contract!Next
<1>7. CASE TurnStep
  <2>1. CASE SubscribeStep
    <3>1. UNCHANGED defs
      BY <2>1 DEF SubscribeStep
    <3>2. UNCHANGED state \/ (state = "running" /\ state' = "paused")
      BY <2>1 DEF SubscribeStep, RecreateSubscription, Connect, ComputeThrows, PauseEngine
    <3>3. state = "running" /\ state' = "paused" => Contract!Pause
      BY <3>1 DEF Contract!Pause, Contract!Turn
    <3> QED
      BY <3>1, <3>2, <3>3 DEF Contract!Next
  <2>2. CASE FinishStep
    BY <2>2 DEF FinishStep, registries
  <2>3. CASE UpdateStep
    BY <2>3, UpdateWithinKept DEF UpdateStep
  <2>4. CASE DetachStep
    <3> PICK n \in Node, i \in Node :
            IF i \in InputsOf(defs, n)
            THEN UpdateWithin(n, [defs[n] EXCEPT !.inputs = @ \ {i}])
            ELSE UNCHANGED <<registries, state>>
      BY <2>4 DEF DetachStep
    <3>1. CASE i \in InputsOf(defs, n)
      <4>1. [defs[n] EXCEPT !.inputs = @ \ {i}] \in Def
        BY <3>1 DEF InputsOf, Def, TypeOK
      <4> QED
        BY <3>1, <4>1, UpdateWithinKept
    <3>2. CASE i \notin InputsOf(defs, n)
      BY <3>2 DEF registries
    <3> QED
      BY <3>1, <3>2
  <2> QED
    BY <1>7, <2>1, <2>2, <2>3, <2>4 DEF TurnStep
<1>8. CASE UNCHANGED <<state, defs>>
  BY <1>8
<1> QED
  BY <1>1, <1>2, <1>3, <1>4, <1>5, <1>6, <1>7, <1>8, LifecycleAssumption
     DEF Next, NodeCall, LifecycleCall, Argument, TimerFires, registries, vars

\* The engine keeps its contract: it is never revived, its graph is acceptable after
\* every step, and a destroyed engine gains no definition.
THEOREM ContractKept == Spec => KeepsContract
<1>1. Init => Contract!Init
  BY SameNotions DEF Init, Contract!Init
<1> QED
  BY <1>1, ContractStep, TypeCorrect, Acyclicity, PTL
     DEF Spec, KeepsContract, Contract!Spec

-----------------------------------------------------------------------------
(* The insertion order and the running turn *)

\* The order lists the nodes that are defined, each once.
OrderInv ==
    /\ \A i, j \in DOMAIN order : order[i] = order[j] => i = j
    /\ \A n \in Node : Defined(n) <=> n \in Range(order)

LEMMA AppendOrder ==
    ASSUME TypeOK, OrderInv, NEW n \in Node, ~Defined(n), NEW d, d # NoDef,
           defs' = [defs EXCEPT ![n] = d], order' = Append(order, n)
    PROVE  OrderInv'
<1>1. order \in Seq(Node) /\ n \notin Range(order)
  BY DEF TypeOK, OrderInv
<1>2. \A i, j \in DOMAIN order' : order'[i] = order'[j] => i = j
  BY <1>1, AppendDistinct DEF OrderInv
<1>3. Range(order') = Range(order) \cup {n}
  BY <1>1, AppendRange
<1> QED
  BY <1>2, <1>3 DEF OrderInv, Defined, TypeOK

LEMMA SameOrder ==
    ASSUME OrderInv, UNCHANGED order, \A n \in Node : Defined(n)' <=> Defined(n)
    PROVE  OrderInv'
BY DEF OrderInv

LEMMA ReplaceOrder ==
    ASSUME TypeOK, OrderInv, NEW n \in Node, NEW d \in Def, ~UpdateRefused(n, d), ReplaceNode(n, d)
    PROVE  OrderInv'
BY SameOrder, NoDefAssumption DEF ReplaceNode, UpdateRefused, Defined, TypeOK

LEMMA UpdateWithinOrder ==
    ASSUME TypeOK, OrderInv, NEW n \in Node, NEW d \in Def, UpdateWithin(n, d)
    PROVE  OrderInv'
<1>1. CASE ~UpdateRefused(n, d) /\ ReplaceNode(n, d)
  BY <1>1, ReplaceOrder
<1>2. CASE UNCHANGED <<defs, order>>
  BY <1>2, SameOrder DEF Defined
<1> QED
  BY <1>1, <1>2 DEF UpdateWithin, DeferUpdate, registries

LEMMA RemoveOrder ==
    ASSUME TypeOK, OrderInv, NEW n \in Node, NEW p, RemoveNode(n, p)
    PROVE  OrderInv'
<1>1. defs' = [defs EXCEPT ![n] = NoDef]
  BY DEF RemoveNode
<1>2. \A m \in Node : Defined(m)' <=> Defined(m) /\ m # n
  BY <1>1 DEF Defined, TypeOK
<1>3. CASE ~Defined(n) /\ UNCHANGED order
  BY <1>2, <1>3, SameOrder
<1>4. CASE \E k \in DOMAIN order : order[k] = n /\ order' = RemoveAt(order, k)
  <2>1. PICK k \in DOMAIN order : order[k] = n /\ order' = RemoveAt(order, k)
    BY <1>4
  <2>2. order \in Seq(Node) /\ \A i, j \in DOMAIN order : order[i] = order[j] => i = j
    BY DEF OrderInv, TypeOK
  <2>3. /\ \A i, j \in DOMAIN order' : order'[i] = order'[j] => i = j
        /\ Range(order') = Range(order) \ {n}
    BY <2>1, <2>2, RemoveAtDistinct
  <2> QED
    BY <1>2, <2>3 DEF OrderInv
<1> QED
  BY <1>3, <1>4 DEF RemoveNode

LEMMA EmptyOrder == order' = <<>> /\ defs' = [n \in Node |-> NoDef] => OrderInv'
BY EmptySeq DEF OrderInv, Defined, Range

\* A detach item calls updateNode with a definition.
LEMMA DetachDef ==
    ASSUME TypeOK, NEW n \in Node, NEW i \in InputsOf(defs, n)
    PROVE  [defs[n] EXCEPT !.inputs = @ \ {i}] \in Def
BY DEF InputsOf, Def, TypeOK

LEMMA OrderStep == TypeOK /\ OrderInv /\ [Next]_vars => OrderInv'
<1> SUFFICES ASSUME TypeOK, OrderInv, [Next]_vars PROVE OrderInv'
  OBVIOUS
<1>1. ASSUME NEW n \in Node, NEW d \in Def, AddNode(n, d) PROVE OrderInv'
  BY <1>1, AppendOrder, NoDefAssumption DEF AddNode
<1>2. ASSUME NEW n \in Node, NEW d \in Def, UpdateNode(n, d) PROVE OrderInv'
  <2>1. CASE DeferUpdate(n, d)
    BY <2>1, SameOrder DEF DeferUpdate, registries, Defined
  <2> QED
    BY <1>2, <2>1, ReplaceOrder DEF UpdateNode
<1>3. ASSUME NEW n \in Node, NEW p, RemoveNode(n, p) PROVE OrderInv'
  BY <1>3, RemoveOrder
<1>4. CASE Destroy
  BY <1>4, EmptyOrder DEF Destroy
<1>5. CASE UpdateStep
  BY <1>5, UpdateWithinOrder DEF UpdateStep
<1>6. CASE DetachStep
  <2>1. PICK n \in Node, i \in Node :
            IF i \in InputsOf(defs, n)
            THEN UpdateWithin(n, [defs[n] EXCEPT !.inputs = @ \ {i}])
            ELSE UNCHANGED <<defs, order>>
    BY <1>6 DEF DetachStep, registries
  <2> QED
    BY <2>1, UpdateWithinOrder, DetachDef, SameOrder DEF Defined
<1>7. CASE UNCHANGED <<defs, order>>
  BY <1>7, SameOrder DEF Defined
<1> QED
  BY <1>1, <1>2, <1>3, <1>4, <1>5, <1>6, <1>7, LifecycleAssumption
     DEF Next, NodeCall, LifecycleCall, Argument, Start, Resume, Pause, Stop, ComputeSkips,
         TimerFires, TurnStep, SubscribeStep, FinishStep, registries, vars

SubscribeOf(n) == [op |-> "subscribe", id |-> n]

\* The running turn has still to subscribe n.
Pending(n) == SubscribeOf(n) \in Range(todo)

\* A turn subscribes, applies a batch of updates or takes a removed node out of the
\* others, but never two of these; and it subscribes no node twice.
TurnInv ==
    /\ \/ Range(todo) \subseteq SubscribeItem \cup FinishItem
       \/ Range(todo) \subseteq UpdateItem
       \/ Range(todo) \subseteq DetachItem
    /\ \A i, j \in DOMAIN todo : todo[i] \in SubscribeItem /\ todo[i] = todo[j] => i = j

LEMMA NoTurn == todo' = <<>> => TurnInv' /\ \A n \in Node : ~Pending(n)'
BY EmptySeq DEF TurnInv, Range, Pending

\* One iteration less.
LEMMA TurnGoesOn ==
    ASSUME TypeOK, TurnInv, todo # <<>>, Continue
    PROVE  /\ TurnInv'
           /\ Range(todo) = {Head(todo)} \cup Range(todo')
           /\ Head(todo) \in SubscribeItem => Head(todo) \notin Range(todo')
<1>1. todo \in Seq(Item) /\ todo' = Tail(todo)
  BY DEF TypeOK, Continue
<1>2. Range(todo) = {Head(todo)} \cup Range(todo')
  BY <1>1, TailRange
<1>3. /\ 1 \in DOMAIN todo /\ Head(todo) = todo[1]
      /\ \A i \in DOMAIN todo' : i + 1 \in DOMAIN todo /\ todo'[i] = todo[i + 1]
  BY <1>1, TailFacts
<1>4. todo' \in Seq(Item) /\ DOMAIN todo' = 1 .. Len(todo') /\ Len(todo') \in Nat
  BY <1>1, HeadTailProperties
<1>5. \A i, j \in DOMAIN todo' : todo'[i] \in SubscribeItem /\ todo'[i] = todo'[j] => i = j
  BY <1>3, <1>4 DEF TurnInv
<1>6. ASSUME Head(todo) \in SubscribeItem, NEW i \in DOMAIN todo', todo'[i] = Head(todo)
      PROVE  FALSE
  BY <1>3, <1>4, <1>6 DEF TurnInv
<1> QED
  BY <1>2, <1>5, <1>6 DEF TurnInv, Range

\* Whoever starts a loop over the definitions will come to every one of them, once.
LEMMA RestoreFacts ==
    ASSUME TypeOK, OrderInv, NEW b \in BOOLEAN, RestoreSubscriptions(b)
    PROVE  TurnInv' /\ \A n \in Node : Defined(n) => Pending(n)'
<1> DEFINE loop == [k \in DOMAIN order |-> SubscribeOf(order[k])]
<1>1. order \in Seq(Node) /\ Len(order) \in Nat /\ DOMAIN order = 1 .. Len(order)
  BY LenProperties DEF TypeOK
<1>2. loop \in Seq(SubscribeItem) /\ Len(loop) = Len(order)
  <2>1. loop \in [1 .. Len(order) -> SubscribeItem]
    BY <1>1 DEF SubscribeItem, SubscribeOf
  <2> QED
    BY <1>1, <2>1
<1>3. \A k \in 1 .. Len(order) : loop[k] = SubscribeOf(order[k])
  BY <1>1
<1>4. todo' = loop \o (IF b THEN <<[op |-> "finish"]>> ELSE <<>>)
  BY DEF RestoreSubscriptions, SubscribeOf
<1> HIDE DEF loop
<1>. PICK len \in Nat : len = Len(order)
  BY <1>1
<1>5. /\ DOMAIN todo' = 1 .. len \/ DOMAIN todo' = 1 .. (len + 1)
      /\ \A k \in DOMAIN todo' :
            \/ k \in 1 .. len /\ todo'[k] = SubscribeOf(order[k])
            \/ k = len + 1 /\ todo'[k] = [op |-> "finish"]
      /\ \A k \in 1 .. len : k \in DOMAIN todo'
  <2>1. CASE ~b
    <3>1. todo' = loop
      BY <1>2, <1>4, <2>1, ConcatEmptySeq
    <3> QED
      BY <1>2, <1>3, <3>1, LenProperties
  <2>2. CASE b
    <3>. PICK item : item = [op |-> "finish"]
      OBVIOUS
    <3>1. todo' = Append(loop, item)
      BY <1>2, <1>4, <2>2
    <3>2. item \in FinishItem
      BY DEF FinishItem
    <3>. PICK S : S = SubscribeItem \cup FinishItem
      OBVIOUS
    <3>3. loop \in Seq(S) /\ item \in S
      BY <1>2, <3>2
    <3>4. /\ Len(todo') = len + 1 /\ DOMAIN todo' = 1 .. (len + 1)
          /\ \A k \in 1 .. len : todo'[k] = loop[k]
          /\ todo'[len + 1] = item
      BY <1>2, <3>1, <3>3, AppendProperties, LenProperties
    <3> QED
      BY <1>3, <3>4
  <2> QED
    BY <2>1, <2>2
<1>6. \A m \in Node : SubscribeOf(m) \in SubscribeItem /\ SubscribeOf(m) # [op |-> "finish"]
  BY DEF SubscribeOf, SubscribeItem
<1>7. \A m, n \in Node : SubscribeOf(m) = SubscribeOf(n) => m = n
  BY DEF SubscribeOf
<1>8. [op |-> "finish"] \in FinishItem /\ [op |-> "finish"] \notin SubscribeItem
  BY DEF FinishItem, SubscribeItem
<1>9. \A k \in 1 .. len : order[k] \in Node
  BY <1>1
<1>10. \A k \in DOMAIN todo' : todo'[k] \in SubscribeItem \cup FinishItem
  BY <1>5, <1>6, <1>8, <1>9
<1>11. ASSUME NEW i \in DOMAIN todo', NEW j \in DOMAIN todo',
              todo'[i] \in SubscribeItem, todo'[i] = todo'[j]
       PROVE  i = j
  <2>1. i \in 1 .. len /\ j \in 1 .. len /\ SubscribeOf(order[i]) = SubscribeOf(order[j])
    BY <1>5, <1>6, <1>8, <1>9, <1>11
  <2> QED
    BY <1>1, <1>7, <1>9, <2>1 DEF OrderInv
<1>12. ASSUME NEW n \in Node, Defined(n) PROVE Pending(n)'
  <2>1. PICK k \in DOMAIN order : order[k] = n
    BY <1>12 DEF OrderInv, Range
  <2> QED
    BY <1>1, <1>5, <1>8, <2>1 DEF Pending, Range, SubscribeOf
<1> QED
  BY <1>10, <1>11, <1>12 DEF TurnInv, Range

\* What each kind of iteration handles.
LEMMA HeadKinds ==
    /\ SubscribeStep \/ FinishStep => Continue
    /\ UpdateStep => Head(todo) \in UpdateItem
    /\ DetachStep => Head(todo) \in DetachItem
    /\ FinishStep => Head(todo).op = "finish"
<1>1. SubscribeStep \/ FinishStep => Continue
  BY DEF SubscribeStep, FinishStep
<1>2. UpdateStep => Head(todo) \in UpdateItem
  <2> SUFFICES ASSUME NEW n \in Node, NEW d \in Def, Head(todo) = [op |-> "update", id |-> n, def |-> d]
               PROVE  Head(todo) \in UpdateItem
    BY DEF UpdateStep
  <2> QED
    BY UpdateItemIn
<1>3. DetachStep => Head(todo) \in DetachItem
  <2> SUFFICES ASSUME NEW n \in Node, NEW i \in Node, Head(todo) = [op |-> "detach", id |-> n, input |-> i]
               PROVE  Head(todo) \in DetachItem
    BY DEF DetachStep
  <2> QED
    BY DEF DetachItem
<1>4. FinishStep => Head(todo).op = "finish"
  BY DEF FinishStep
<1> QED
  BY <1>1, <1>2, <1>3, <1>4

\* An item that is handled leaves the others; an exception leaves none, and only a turn
\* that subscribes nobody throws.
LEMMA TurnShorter ==
    ASSUME TypeOK, TurnInv, TurnStep
    PROVE  /\ TurnInv'
           /\ \A n \in Node : Pending(n)' => Pending(n)
           /\ \A n \in Node : Pending(n) => Pending(n)' \/ (Head(todo) = SubscribeOf(n) /\ SubscribeStep)
           /\ \A n \in Node : Head(todo) = SubscribeOf(n) => Pending(n) /\ ~Pending(n)'
<1>1. todo # <<>> /\ todo \in Seq(Item)
  BY DEF TurnStep, Idle, TypeOK
<1>2. Head(todo) \in Range(todo)
  BY <1>1, TailRange
<1>3. \A n \in Node : SubscribeOf(n) \in SubscribeItem
  BY DEF SubscribeOf, SubscribeItem
<1>4. \A n \in Node : Head(todo) = SubscribeOf(n) => SubscribeStep /\ Continue
  <2> SUFFICES ASSUME NEW n \in Node, Head(todo) = SubscribeOf(n) PROVE SubscribeStep /\ Continue
    OBVIOUS
  <2>1. Head(todo).op = "subscribe"
    BY DEF SubscribeOf
  <2>2. ~FinishStep /\ ~UpdateStep /\ ~DetachStep
    BY <2>1, HeadKinds DEF UpdateItem, DetachItem
  <2> QED
    BY <2>2, HeadKinds DEF TurnStep
<1>5. CASE Continue
  BY <1>1, <1>2, <1>3, <1>4, <1>5, TurnGoesOn DEF Pending
<1>6. CASE ~Continue
  <2>1. todo' = <<>> /\ (UpdateStep \/ DetachStep)
    BY <1>6, HeadKinds DEF TurnStep, UpdateStep, DetachStep, UpdateWithin, Throw
  <2>2. Head(todo) \in UpdateItem \cup DetachItem
    BY <2>1, HeadKinds
  <2>3. \A n \in Node : ~Pending(n)
    <3> SUFFICES ASSUME NEW n \in Node, Pending(n) PROVE FALSE
      OBVIOUS
    <3>1. SubscribeOf(n) \in SubscribeItem /\ SubscribeOf(n) \notin UpdateItem \cup DetachItem
      BY <1>3 DEF SubscribeOf, UpdateItem, DetachItem
    <3>2. Range(todo) \subseteq SubscribeItem \cup FinishItem
      BY <3>1 DEF Pending, TurnInv
    <3>3. Head(todo) \notin SubscribeItem \cup FinishItem
      BY <2>2 DEF UpdateItem, DetachItem, SubscribeItem, FinishItem
    <3> QED
      BY <1>2, <3>2, <3>3
  <2> QED
    BY <1>4, <1>6, <2>1, <2>3, NoTurn
<1> QED
  BY <1>5, <1>6

LEMMA DetachTurn ==
    ASSUME NEW s \in Seq(Node), NEW n \in Node, todo' = DetachAll(s, n)
    PROVE  /\ TurnInv' /\ \A m \in Node : ~Pending(m)'
           /\ \A m \in Range(s) : [op |-> "detach", id |-> m, input |-> n] \in Range(todo')
<1>1. DOMAIN todo' = DOMAIN s /\ \A k \in DOMAIN s : s[k] \in Node /\ todo'[k] = [op |-> "detach", id |-> s[k], input |-> n]
  BY DEF DetachAll
<1>2. \A k \in DOMAIN todo' : todo'[k] \in DetachItem
  BY <1>1 DEF DetachItem
<1>3. \A x \in DetachItem : x \notin SubscribeItem
  BY DEF DetachItem, SubscribeItem
<1>4. \A m \in Node : SubscribeOf(m) \in SubscribeItem
  BY DEF SubscribeOf, SubscribeItem
<1>5. TurnInv' /\ \A m \in Node : ~Pending(m)'
  BY <1>2, <1>3, <1>4 DEF TurnInv, Range, Pending
<1>6. \A m \in Range(s) : [op |-> "detach", id |-> m, input |-> n] \in Range(todo')
  BY <1>1 DEF Range
<1> QED
  BY <1>5, <1>6

LEMMA RemoveTurn ==
    ASSUME TypeOK, OrderInv, NEW n \in Node, NEW p, RemoveNode(n, p)
    PROVE  /\ TurnInv' /\ \A m \in Node : ~Pending(m)'
           /\ \A m \in Node : Defined(m) /\ m # n =>
                 [op |-> "detach", id |-> m, input |-> n] \in Range(todo')
<1>1. CASE ~Defined(n) /\ todo' = DetachAll(order, n)
  BY <1>1, DetachTurn DEF TypeOK, OrderInv
<1>2. CASE \E k \in DOMAIN order : order[k] = n /\ todo' = DetachAll(RemoveAt(order, k), n)
  <2>1. PICK k \in DOMAIN order : order[k] = n /\ todo' = DetachAll(RemoveAt(order, k), n)
    BY <1>2
  <2>2. order \in Seq(Node) /\ \A i, j \in DOMAIN order : order[i] = order[j] => i = j
    BY DEF OrderInv, TypeOK
  <2>3. RemoveAt(order, k) \in Seq(Node) /\ Range(RemoveAt(order, k)) = Range(order) \ {n}
    BY <2>1, <2>2, RemoveAtFacts, RemoveAtDistinct
  <2> QED
    BY <2>1, <2>3, DetachTurn DEF OrderInv
<1> QED
  BY <1>1, <1>2 DEF RemoveNode

LEMMA TimerTurn == TypeOK /\ TimerFires => TurnInv' /\ \A n \in Node : ~Pending(n)'
<1> SUFFICES ASSUME TypeOK, TimerFires PROVE TurnInv' /\ \A n \in Node : ~Pending(n)'
  OBVIOUS
<1>1. todo' \in Seq(UpdateItem)
  BY HeadTailProperties DEF TypeOK, TimerFires
<1>2. \A k \in DOMAIN todo' : todo'[k] \in UpdateItem
  BY <1>1, ElementOfSeq, LenProperties
<1>3. \A x \in UpdateItem : x \notin SubscribeItem
  BY DEF UpdateItem, SubscribeItem
<1>4. \A m \in Node : SubscribeOf(m) \in SubscribeItem
  BY DEF SubscribeOf, SubscribeItem
<1> QED
  BY <1>2, <1>3, <1>4 DEF TurnInv, Range, Pending

LEMMA IdlePending == Idle => \A n \in Node : ~Pending(n)
BY EmptySeq DEF Idle, Pending, Range

LEMMA TurnInvStep == TypeOK /\ OrderInv /\ TurnInv /\ [Next]_vars => TurnInv'
<1> SUFFICES ASSUME TypeOK, OrderInv, TurnInv, [Next]_vars PROVE TurnInv'
  OBVIOUS
<1>1. CASE Start \/ Resume
  BY <1>1, RestoreFacts DEF Start, Resume
<1>2. ASSUME NEW n \in Node, NEW p, RemoveNode(n, p) PROVE TurnInv'
  BY <1>2, RemoveTurn
<1>3. CASE UNCHANGED todo
  BY <1>3 DEF TurnInv
<1> QED
  BY <1>1, <1>2, <1>3, TimerTurn, TurnShorter
     DEF Next, NodeCall, LifecycleCall, AddNode, UpdateNode, Pause, Stop, Destroy, ComputeSkips, vars

LEMMA TurnAlways == Spec => [](OrderInv /\ TurnInv)
<1>1. Init => OrderInv /\ TurnInv
  BY EmptySeq DEF Init, OrderInv, TurnInv, Defined, Range
<1> QED
  BY <1>1, OrderStep, TurnInvStep, TypeCorrect, PTL DEF Spec

-----------------------------------------------------------------------------
(* A running engine has subscribed whoever reads inputs *)

\* A node that reads inputs is subscribed, or the loop of the turn will come to it.
Served(n) == wrappers[n] # NoDef /\ defs[n].inputs # {} => Live(n) \/ Pending(n)

ServedInv == state = "running" => \A n \in Node : Served(n)

\* A live subscription is one for a definition.
LEMMA LiveDef ==
    ASSUME RegistriesAgree, NEW n \in Node
    PROVE  Live(n) <=> subscriptions[n].def # NoDef
<1>1. Live(n) => subscriptions[n].def # NoDef
  BY DEF RegistriesAgree
<1>2. NoSubscription.def = NoDef
  BY DEF NoSubscription
<1> QED
  BY <1>1, <1>2 DEF Live

\* A node whose wrapper, definition and subscription are what they were is still served.
LEMMA StillServed ==
    ASSUME RegistriesAgree, NEW m \in Node, Served(m),
           wrappers'[m] = wrappers[m], defs'[m] = defs[m],
           subscriptions'[m].def = subscriptions[m].def, Pending(m) => Pending(m)' \/ Live(m)'
    PROVE  Served(m)'
<1>1. Live(m) => Live(m)'
  <2>1. NoSubscription.def = NoDef
    BY DEF NoSubscription
  <2> QED
    BY <2>1, LiveDef DEF Live
<1> QED
  BY <1>1 DEF Served

\* What subscribing does: the node is subscribed, or it reads nothing, or the engine is
\* paused.
LEMMA SubscribeServes ==
    ASSUME NEW n \in Node, NEW d \in Def, NEW subs \in [Node -> Subscription], NEW subjs,
           Subscribe(n, d, subs, subjs), state' = "running"
    PROVE  /\ \A m \in Node \ {n} : subscriptions'[m] = subs[m]
           /\ d.inputs # {} => Live(n)'
<1>1. CASE Connect(n, d, subs, subjs)
  <2>1. subscriptions'[n].def = d /\ d # NoDef
    BY <1>1, NoDefAssumption DEF Connect
  <2> QED
    BY <1>1, <2>1 DEF Connect, Live, NoSubscription
<1>2. CASE ComputeThrows(d, subs)
  BY <1>2 DEF ComputeThrows, PauseEngine
<1> QED
  BY <1>1, <1>2 DEF Subscribe

LEMMA ReplaceServed ==
    ASSUME TypeOK, RegistriesAgree, ServedInv, NEW n \in Node, NEW d \in Def, ReplaceNode(n, d),
           \A m \in Node : Pending(m) => Pending(m)'
    PROVE  ServedInv'
<1> SUFFICES ASSUME state' = "running", NEW m \in Node PROVE Served(m)'
  BY DEF ServedInv
<1>1. state = "running" /\ defs' = [defs EXCEPT ![n] = d]
  BY DEF ReplaceNode, Subscribe, Connect, ComputeThrows, PauseEngine
<1>2. CleanedSubscriptions(n) \in [Node -> Subscription]
      /\ \A k \in Node \ {n} : CleanedSubscriptions(n)[k] = subscriptions[k]
  BY NobodyType DEF CleanedSubscriptions, TypeOK
<1>3. Served(m)
  BY <1>1 DEF ServedInv
<1>4. CASE d.config \in BadConfig
  <2>1. wrappers' = [wrappers EXCEPT ![n] = NoDef] /\ subscriptions' = CleanedSubscriptions(n)
    BY <1>4 DEF ReplaceNode, CleanedWrappers
  <2>2. CASE m = n
    BY <2>1, <2>2 DEF Served, TypeOK
  <2>3. CASE m # n
    BY <1>1, <1>2, <1>3, <2>1, <2>3, StillServed DEF TypeOK
  <2> QED
    BY <2>2, <2>3
<1>5. CASE d.config \notin BadConfig
  <2>1. wrappers' = [wrappers EXCEPT ![n] = d]
        /\ Subscribe(n, d, CleanedSubscriptions(n), subjects)
    BY <1>1, <1>5 DEF ReplaceNode
  <2>2. /\ \A k \in Node \ {n} : subscriptions'[k] = CleanedSubscriptions(n)[k]
        /\ d.inputs # {} => Live(n)'
    BY <1>2, <2>1, SubscribeServes
  <2>3. CASE m = n
    BY <1>1, <2>2, <2>3 DEF Served, TypeOK
  <2>4. CASE m # n
    BY <1>1, <1>2, <1>3, <2>1, <2>2, <2>4, StillServed DEF TypeOK
  <2> QED
    BY <2>3, <2>4
<1> QED
  BY <1>4, <1>5

LEMMA AddServed ==
    ASSUME TypeOK, RegistriesAgree, ServedInv, NEW n \in Node, NEW d \in Def, AddNode(n, d)
    PROVE  ServedInv'
<1> SUFFICES ASSUME state' = "running", NEW m \in Node PROVE Served(m)'
  BY DEF ServedInv
<1>1. /\ state = "running" /\ defs' = [defs EXCEPT ![n] = d] /\ defs[n] = NoDef
      /\ todo' = todo
  BY DEF AddNode, Subscribe, Connect, ComputeThrows, PauseEngine, Defined
<1>2. wrappers[n] = NoDef
  BY <1>1 DEF RegistriesAgree
<1>3. Served(m) /\ (Pending(m) => Pending(m)')
  BY <1>1 DEF ServedInv, Pending
<1>4. CASE d.config \in BadConfig
  <2>1. UNCHANGED <<wrappers, subscriptions>>
    BY <1>4 DEF AddNode
  <2>2. CASE m = n
    BY <1>2, <2>1, <2>2 DEF Served
  <2>3. CASE m # n
    BY <1>1, <1>3, <2>1, <2>3, StillServed DEF TypeOK
  <2> QED
    BY <2>2, <2>3
<1>5. CASE d.config \notin BadConfig
  <2>1. wrappers' = [wrappers EXCEPT ![n] = d]
        /\ Subscribe(n, d, Unwire(subscriptions, n), subjects \cup {n})
    BY <1>1, <1>5 DEF AddNode
  <2>2. Unwire(subscriptions, n) \in [Node -> Subscription]
        /\ \A k \in Node : Unwire(subscriptions, n)[k].def = subscriptions[k].def
    BY UnwireType, UnwireOne DEF TypeOK
  <2>3. /\ \A k \in Node \ {n} : subscriptions'[k] = Unwire(subscriptions, n)[k]
        /\ d.inputs # {} => Live(n)'
    BY <2>1, <2>2, SubscribeServes
  <2>4. CASE m = n
    BY <1>1, <2>3, <2>4 DEF Served, TypeOK
  <2>5. CASE m # n
    BY <1>1, <1>3, <2>1, <2>2, <2>3, <2>5, StillServed DEF TypeOK
  <2> QED
    BY <2>4, <2>5
<1> QED
  BY <1>4, <1>5

LEMMA RemoveServed ==
    ASSUME TypeOK, RegistriesAgree, ServedInv, NEW n \in Node, NEW p, RemoveNode(n, p)
    PROVE  ServedInv'
<1> SUFFICES ASSUME state' = "running", NEW m \in Node PROVE Served(m)'
  BY DEF ServedInv
<1>1. /\ state = "running" /\ Idle
      /\ defs' = [defs EXCEPT ![n] = NoDef] /\ wrappers' = [wrappers EXCEPT ![n] = NoDef]
  BY DEF RemoveNode, CleanedWrappers
<1>. PICK left \in [Node -> Subscription] : left = CleanedSubscriptions(n)
  BY NobodyType DEF CleanedSubscriptions, TypeOK
<1>2. \A k \in Node \ {n} : left[k] = subscriptions[k]
  BY DEF CleanedSubscriptions, TypeOK
<1>3. subscriptions' = left \/ subscriptions' = Unwire(left, n)
  BY DEF RemoveNode
<1>4. \A k \in Node \ {n} : subscriptions'[k].def = subscriptions[k].def
  BY <1>2, <1>3, UnwireOne
<1>5. CASE m = n
  BY <1>1, <1>5 DEF Served, TypeOK
<1>6. CASE m # n
  BY <1>1, <1>4, <1>6, StillServed, IdlePending DEF ServedInv, TypeOK
<1> QED
  BY <1>5, <1>6

LEMMA RecreateServed ==
    ASSUME TypeOK, RegistriesAgree, ServedInv, TurnInv, TurnStep, NEW n \in Node,
           Head(todo) = SubscribeOf(n), RecreateSubscription(n), UNCHANGED <<defs, wrappers, subjects>>
    PROVE  ServedInv'
<1> SUFFICES ASSUME state' = "running", NEW m \in Node PROVE Served(m)'
  BY DEF ServedInv
<1>1. \A k \in Node \ {n} : Pending(k) => Pending(k)'
  BY TurnShorter DEF SubscribeOf
<1>2. state = "running"
  BY DEF RecreateSubscription, Connect, ComputeThrows, PauseEngine
<1>3. Served(m)
  BY <1>2 DEF ServedInv
<1>4. CASE wrappers[n] = NoDef \/ n \notin subjects
  <2>1. wrappers[n] = NoDef /\ UNCHANGED subscriptions
    BY <1>4 DEF RegistriesAgree, RecreateSubscription
  <2>2. CASE m = n
    BY <2>1, <2>2 DEF Served
  <2> QED
    BY <1>1, <1>3, <2>1, <2>2, StillServed
<1>5. CASE wrappers[n] # NoDef /\ n \in subjects
  <2>1. defs[n] \in Def
    BY <1>5 DEF RegistriesAgree, TypeOK
  <2>2. Subscribe(n, defs[n], subscriptions, subjects)
    BY <1>5 DEF RecreateSubscription, Subscribe
  <2>3. /\ \A k \in Node \ {n} : subscriptions'[k] = subscriptions[k]
        /\ defs[n].inputs # {} => Live(n)'
    BY <2>1, <2>2, SubscribeServes DEF TypeOK
  <2>4. CASE m = n
    BY <2>3, <2>4 DEF Served
  <2> QED
    BY <1>1, <1>3, <2>3, <2>4, StillServed
<1> QED
  BY <1>4, <1>5

LEMMA SameServed ==
    ASSUME ServedInv, UNCHANGED <<defs, wrappers, subscriptions>>, state' = "running" => state = "running",
           \A n \in Node : Pending(n) => Pending(n)'
    PROVE  ServedInv'
BY DEF ServedInv, Served, Live

LEMMA UpdateWithinServed ==
    ASSUME TypeOK, RegistriesAgree, ServedInv, NEW n \in Node, NEW d \in Def, UpdateWithin(n, d),
           \A m \in Node : Pending(m) => Pending(m)'
    PROVE  ServedInv'
<1>1. CASE ReplaceNode(n, d)
  BY <1>1, ReplaceServed
<1>2. CASE UNCHANGED <<registries, state, subscriptions>>
  BY <1>2, SameServed DEF registries
<1> QED
  BY <1>1, <1>2 DEF UpdateWithin, DeferUpdate

LEMMA ServedStep ==
    /\ TypeOK /\ RegistriesAgree /\ OrderInv /\ TurnInv /\ ServedInv
    /\ [Next]_vars
    => ServedInv'
<1> SUFFICES ASSUME TypeOK, RegistriesAgree, OrderInv, TurnInv, ServedInv, [Next]_vars
             PROVE  ServedInv'
  OBVIOUS
<1>1. ASSUME NEW n \in Node, NEW d \in Def, AddNode(n, d) PROVE ServedInv'
  BY <1>1, AddServed
<1>2. ASSUME NEW n \in Node, NEW d \in Def, UpdateNode(n, d) PROVE ServedInv'
  <2>1. todo' = todo
    BY <1>2 DEF UpdateNode
  <2>2. CASE DeferUpdate(n, d)
    BY <2>1, <2>2, SameServed DEF DeferUpdate, registries, Pending
  <2> QED
    BY <1>2, <2>1, <2>2, ReplaceServed DEF UpdateNode, Pending
<1>3. ASSUME NEW n \in Node, NEW p, RemoveNode(n, p) PROVE ServedInv'
  BY <1>3, RemoveServed
<1>4. CASE Start \/ Resume
  <2>1. /\ \A n \in Node : Defined(n) => Pending(n)'
        /\ UNCHANGED registries
    BY <1>4, RestoreFacts DEF Start, Resume
  <2> QED
    BY <2>1 DEF ServedInv, Served, Defined, RegistriesAgree, registries
<1>5. CASE Pause \/ Stop \/ Destroy \/ \E n \in Node : ComputeSkips(n)
  BY <1>5 DEF Pause, Stop, Destroy, ComputeSkips, PauseEngine, ServedInv
<1>6. CASE TimerFires
  BY <1>6, IdlePending, SameServed DEF TimerFires, registries
<1>7. CASE TurnStep
  <2>1. CASE SubscribeStep
    <3>1. PICK n \in Node : /\ Head(todo) = SubscribeOf(n) /\ RecreateSubscription(n)
                            /\ UNCHANGED <<defs, wrappers, subjects>>
      BY <2>1 DEF SubscribeStep, SubscribeOf
    <3> QED
      BY <1>7, <3>1, RecreateServed
  <2>2. ASSUME FinishStep \/ UpdateStep \/ DetachStep PROVE \A n \in Node : Pending(n) => Pending(n)'
    <3>1. \A n \in Node : Head(todo) # SubscribeOf(n)
      BY <2>2, HeadKinds DEF SubscribeOf, UpdateItem, DetachItem
    <3> QED
      BY <1>7, <3>1, TurnShorter
  <2>3. CASE FinishStep
    BY <2>2, <2>3, SameServed DEF FinishStep, registries
  <2>4. CASE UpdateStep
    BY <2>2, <2>4, UpdateWithinServed DEF UpdateStep
  <2>5. CASE DetachStep
    <3>1. PICK n \in Node, i \in Node :
              IF i \in InputsOf(defs, n)
              THEN UpdateWithin(n, [defs[n] EXCEPT !.inputs = @ \ {i}])
              ELSE UNCHANGED <<registries, state, subscriptions>>
      BY <2>5 DEF DetachStep
    <3>2. CASE i \in InputsOf(defs, n)
      BY <2>2, <2>5, <3>1, <3>2, DetachDef, UpdateWithinServed
    <3>3. CASE i \notin InputsOf(defs, n)
      BY <2>2, <2>5, <3>1, <3>3, SameServed DEF registries
    <3> QED
      BY <3>2, <3>3
  <2> QED
    BY <1>7, <2>1, <2>3, <2>4, <2>5 DEF TurnStep
<1>8. CASE UNCHANGED vars
  BY <1>8, SameServed DEF vars, Pending
<1> QED
  BY <1>1, <1>2, <1>3, <1>4, <1>5, <1>6, <1>7, <1>8, LifecycleAssumption
     DEF Next, NodeCall, LifecycleCall, Argument

LEMMA ServedEnough == TypeOK /\ ServedInv => RunningMeansSubscribed
BY IdlePending DEF ServedInv, Served, RunningMeansSubscribed

\* Whatever a node went through, in a running engine at rest it is subscribed if it reads
\* inputs, also after a start during which a source paused the engine.
THEOREM RunningSubscribed == Spec => []RunningMeansSubscribed
<1>1. Init => ServedInv
  BY DEF Init, ServedInv
<1> QED
  BY <1>1, ServedStep, ServedEnough, Registries, TypeCorrect, TurnAlways, PTL DEF Spec

-----------------------------------------------------------------------------
(* Only a running engine has subscriptions *)

\* No source can pause the engine in the middle of a loop that subscribes.
NoSyncPause == ~(AsyncMode /\ SyncSkip)

Unsubscribed(n) == subscriptions[n] = NoSubscription

\* No subscription is lost; there is none unless the engine runs, and none yet for a
\* node the turn has still to subscribe.
SilentInv ==
    /\ leaked = {}
    /\ state # "running" => \A n \in Node : Unsubscribed(n)
    /\ \A n \in Node : Pending(n) => state = "running" /\ Unsubscribed(n)

\* Without such a source, subscribing a node changes nothing else.
LEMMA SubscribeOnlyOne ==
    ASSUME NoSyncPause, NEW n \in Node, NEW d, NEW subs \in [Node -> Subscription], NEW subjs,
           Subscribe(n, d, subs, subjs)
    PROVE  state' = state /\ \A m \in Node \ {n} : subscriptions'[m] = subs[m]
BY DEF Subscribe, Connect, ComputeThrows, NoSyncPause

LEMMA CleanedFacts ==
    ASSUME TypeOK, NEW n \in Node
    PROVE  /\ CleanedSubscriptions(n) \in [Node -> Subscription]
           /\ CleanedSubscriptions(n)[n] = NoSubscription
           /\ \A m \in Node \ {n} : CleanedSubscriptions(n)[m] = subscriptions[m]
BY NobodyType DEF CleanedSubscriptions, TypeOK

\* updateNode subscribes nobody unless the engine runs, and does not change the state.
LEMMA ReplaceSilent ==
    ASSUME NoSyncPause, TypeOK, NEW n \in Node, NEW d, ReplaceNode(n, d)
    PROVE  /\ state' = state
           /\ state # "running" => \A m \in Node : Unsubscribed(m) => Unsubscribed(m)'
<1>1. CASE state = "running" /\ d.config \notin BadConfig
  BY <1>1, CleanedFacts, SubscribeOnlyOne DEF ReplaceNode
<1>2. CASE ~(state = "running" /\ d.config \notin BadConfig)
  BY <1>2, CleanedFacts DEF ReplaceNode, Unsubscribed
<1> QED
  BY <1>1, <1>2

LEMMA AddSilent ==
    ASSUME NoSyncPause, TypeOK, NEW n \in Node, NEW d, AddNode(n, d)
    PROVE  /\ state' = state
           /\ state # "running" => \A m \in Node : Unsubscribed(m) => Unsubscribed(m)'
<1>1. Unwire(subscriptions, n) \in [Node -> Subscription]
      /\ \A m \in Node : Unsubscribed(m) => Unwire(subscriptions, n)[m] = NoSubscription
  <2>1. subscriptions \in [Node -> Subscription]
    BY DEF TypeOK
  <2>2. Unwire(subscriptions, n) \in [Node -> Subscription]
    BY <2>1, UnwireType
  <2>3. \A m \in Node : subscriptions[m] = NoSubscription => Unwire(subscriptions, n)[m] = NoSubscription
    BY <2>1, UnwireOne
  <2> QED
    BY <2>2, <2>3 DEF Unsubscribed
<1>2. CASE state = "running" /\ d.config \notin BadConfig
  BY <1>1, <1>2, SubscribeOnlyOne DEF AddNode
<1>3. CASE ~(state = "running" /\ d.config \notin BadConfig)
  BY <1>1, <1>3 DEF AddNode, Unsubscribed
<1> QED
  BY <1>2, <1>3

LEMMA RemoveSilent ==
    ASSUME TypeOK, NEW n \in Node, NEW p, RemoveNode(n, p)
    PROVE  \A m \in Node : Unsubscribed(m) => Unsubscribed(m)'
<1>. PICK left : left = CleanedSubscriptions(n)
  OBVIOUS
<1>1. left \in [Node -> Subscription] /\ \A m \in Node : Unsubscribed(m) => left[m] = NoSubscription
  BY CleanedFacts DEF Unsubscribed
<1>2. subscriptions' = left \/ subscriptions' = Unwire(left, n)
  BY DEF RemoveNode
<1>3. \A m \in Node : left[m] = NoSubscription => Unwire(left, n)[m] = NoSubscription
  BY <1>1, UnwireOne
<1> QED
  BY <1>1, <1>2, <1>3 DEF Unsubscribed

\* A turn that updates or detaches has nobody to subscribe.
LEMMA OtherTurns ==
    ASSUME TypeOK, TurnInv, TurnStep, UpdateStep \/ DetachStep
    PROVE  \A n \in Node : ~Pending(n)
<1> SUFFICES ASSUME NEW n \in Node, Pending(n) PROVE FALSE
  OBVIOUS
<1>1. Head(todo) \in UpdateItem \cup DetachItem
  BY HeadKinds
<1>2. Head(todo) \in Range(todo)
  BY TailRange DEF TurnStep, Idle, TypeOK
<1>3. SubscribeOf(n) \in SubscribeItem /\ SubscribeOf(n) \notin UpdateItem \cup DetachItem
  BY DEF SubscribeOf, SubscribeItem, UpdateItem, DetachItem
<1>4. Range(todo) \subseteq SubscribeItem \cup FinishItem
  BY <1>3 DEF Pending, TurnInv
<1> QED
  BY <1>1, <1>2, <1>4 DEF UpdateItem, DetachItem, SubscribeItem, FinishItem

LEMMA SameSilent ==
    ASSUME SilentInv, UNCHANGED <<state, leaked>>,
           state # "running" => \A m \in Node : Unsubscribed(m) => Unsubscribed(m)',
           \A m \in Node : ~Pending(m)'
    PROVE  SilentInv'
BY DEF SilentInv

\* pause, stop, destroy and a skipped computation.
LEMMA SilenceSilent ==
    ASSUME SilentInv, Silence, leaked' \subseteq leaked, \A m \in Node : ~Pending(m)'
    PROVE  SilentInv'
BY DEF SilentInv, Silence, NobodySubscribed, Unsubscribed

LEMMA UpdateWithinSilent ==
    ASSUME NoSyncPause, TypeOK, SilentInv, NEW n \in Node, NEW d, UpdateWithin(n, d),
           UNCHANGED leaked, \A m \in Node : ~Pending(m)'
    PROVE  SilentInv'
<1>1. CASE ReplaceNode(n, d)
  BY <1>1, ReplaceSilent, SameSilent
<1>2. CASE UNCHANGED <<state, subscriptions>>
  BY <1>2, SameSilent DEF Unsubscribed
<1> QED
  BY <1>1, <1>2 DEF UpdateWithin, DeferUpdate

LEMMA RecreateSilent ==
    ASSUME NoSyncPause, TypeOK, TurnInv, SilentInv, TurnStep, NEW n \in Node,
           Head(todo) = SubscribeOf(n), RecreateSubscription(n)
    PROVE  SilentInv'
<1>1. /\ Pending(n) /\ ~Pending(n)'
      /\ \A m \in Node \ {n} : Pending(m)' => Pending(m)
  BY TurnShorter
<1>2. state = "running" /\ leaked = {} /\ ~Live(n)
  BY <1>1 DEF SilentInv, Unsubscribed, Live
<1>3. /\ state' = state /\ leaked' = leaked
      /\ \A m \in Node \ {n} : subscriptions'[m] = subscriptions[m]
  <2>1. CASE wrappers[n] = NoDef \/ n \notin subjects
    BY <2>1 DEF RecreateSubscription
  <2>2. CASE ~(wrappers[n] = NoDef \/ n \notin subjects)
    <3>1. Subscribe(n, defs[n], subscriptions, subjects) /\ leaked' = leaked
      BY <1>2, <2>2 DEF RecreateSubscription, Subscribe
    <3> QED
      BY <3>1, SubscribeOnlyOne DEF TypeOK
  <2> QED
    BY <2>1, <2>2
<1> QED
  BY <1>1, <1>2, <1>3 DEF SilentInv, Unsubscribed

LEMMA SilentStep ==
    ASSUME NoSyncPause
    PROVE  TypeOK /\ OrderInv /\ TurnInv /\ SilentInv /\ [Next]_vars => SilentInv'
<1> SUFFICES ASSUME TypeOK, OrderInv, TurnInv, SilentInv, [Next]_vars
             PROVE  SilentInv'
  OBVIOUS
<1>1. ASSUME NEW n \in Node, NEW d, AddNode(n, d) PROVE SilentInv'
  <2>1. Idle /\ UNCHANGED <<leaked, todo>>
    BY <1>1 DEF AddNode
  <2>2. \A m \in Node : ~Pending(m)'
    BY <2>1, IdlePending DEF Pending
  <2> QED
    BY <1>1, <2>1, <2>2, AddSilent, SameSilent
<1>2. ASSUME NEW n \in Node, NEW d, UpdateNode(n, d) PROVE SilentInv'
  <2>1. Idle /\ UNCHANGED <<leaked, todo>>
    BY <1>2 DEF UpdateNode
  <2>2. \A m \in Node : ~Pending(m)'
    BY <2>1, IdlePending DEF Pending
  <2>3. CASE DeferUpdate(n, d)
    BY <2>1, <2>2, <2>3, SameSilent DEF DeferUpdate, Unsubscribed
  <2>4. CASE ReplaceNode(n, d)
    BY <2>1, <2>2, <2>4, ReplaceSilent, SameSilent
  <2> QED
    BY <1>2, <2>3, <2>4 DEF UpdateNode
<1>3. ASSUME NEW n \in Node, NEW p, RemoveNode(n, p) PROVE SilentInv'
  <2>1. UNCHANGED <<leaked, state>>
    BY <1>3 DEF RemoveNode
  <2> QED
    BY <1>3, <2>1, RemoveTurn, RemoveSilent, SameSilent
<1>4. CASE Start \/ Resume
  BY <1>4 DEF Start, Resume, SilentInv, Unsubscribed
<1>5. CASE Pause \/ Stop \/ Destroy \/ \E n \in Node : ComputeSkips(n)
  <2>1. Idle /\ Silence /\ leaked' \subseteq leaked /\ todo' = todo
    BY <1>5 DEF Pause, Stop, Destroy, ComputeSkips, PauseEngine
  <2>2. \A m \in Node : ~Pending(m)'
    BY <2>1, IdlePending DEF Pending
  <2> QED
    BY <2>1, <2>2, SilenceSilent
<1>6. CASE TimerFires
  BY <1>6, TimerTurn, SameSilent DEF TimerFires, Unsubscribed
<1>7. CASE TurnStep
  <2>1. CASE SubscribeStep
    <3>1. PICK n \in Node : Head(todo) = SubscribeOf(n) /\ RecreateSubscription(n)
      BY <2>1 DEF SubscribeStep, SubscribeOf
    <3> QED
      BY <1>7, <3>1, RecreateSilent
  <2>2. CASE FinishStep
    <3>1. \A n \in Node : Pending(n)' => Pending(n)
      BY <1>7, TurnShorter
    <3> QED
      BY <2>2, <3>1 DEF FinishStep, SilentInv, Unsubscribed
  <2>3. ASSUME UpdateStep \/ DetachStep PROVE \A n \in Node : ~Pending(n)'
    BY <1>7, <2>3, OtherTurns, TurnShorter
  <2>4. CASE UpdateStep
    BY <2>3, <2>4, UpdateWithinSilent DEF UpdateStep
  <2>5. CASE DetachStep
    <3>1. PICK n \in Node, i \in Node :
              /\ IF i \in InputsOf(defs, n)
                 THEN UpdateWithin(n, [defs[n] EXCEPT !.inputs = @ \ {i}])
                 ELSE UNCHANGED <<state, subscriptions>>
              /\ UNCHANGED leaked
      BY <2>5 DEF DetachStep
    <3>2. CASE i \in InputsOf(defs, n)
      BY <2>3, <2>5, <3>1, <3>2, UpdateWithinSilent
    <3>3. CASE i \notin InputsOf(defs, n)
      BY <2>3, <2>5, <3>1, <3>3, SameSilent DEF Unsubscribed
    <3> QED
      BY <3>2, <3>3
  <2> QED
    BY <1>7, <2>1, <2>2, <2>4, <2>5 DEF TurnStep
<1>8. CASE UNCHANGED vars
  BY <1>8 DEF vars, SilentInv, Unsubscribed, Pending
<1> QED
  BY <1>1, <1>2, <1>3, <1>4, <1>5, <1>6, <1>7, <1>8 DEF Next, NodeCall, LifecycleCall

LEMMA SilentAlways ==
    ASSUME NoSyncPause
    PROVE  Spec => []SilentInv
<1>1. Init => SilentInv
  BY IdlePending DEF Init, SilentInv, Unsubscribed, NobodySubscribed, Idle
<1> QED
  BY <1>1, SilentStep, TypeCorrect, TurnAlways, PTL DEF Spec

\* A paused, stopped or destroyed engine has no subscription, and a running one has lost
\* none, as long as no source skips while it is being subscribed: that would pause the
\* engine in the middle of the loop, and the loop goes on.
THEOREM SilentUnlessRunning ==
    ASSUME NoSyncPause
    PROVE  Spec => []QuietUnlessRunning
<1>1. SilentInv => QuietUnlessRunning
  BY DEF SilentInv, QuietUnlessRunning, Unsubscribed, Live
<1> QED
  BY <1>1, SilentAlways, PTL

-----------------------------------------------------------------------------
(* Nobody listens to a removed subject *)

\* Every plugin is registered, and no caller preserves the subject of a node it removes:
\* a preserved subject outlives its node, and adding the node again replaces it without
\* a turn that subscribes its listeners anew.
CleanRemovals == BadConfig = {} /\ TRUE \notin Preserve

DetachOf(n, i) == [op |-> "detach", id |-> n, input |-> i]

\* A subject is that of a node; and who listens to the subject of a removed node still
\* reads from that node, and its turn to be updated is still to come.
HeardInv ==
    /\ \A n \in subjects : Defined(n)
    /\ \A n \in Node : \A i \in subscriptions[n].dead :
            DetachOf(n, i) \in Range(todo) /\ i \in InputsOf(defs, n)

Hears(n) == subscriptions[n].dead = {}

LEMMA NoSubscriptionHears == NoSubscription.wired = {} /\ NoSubscription.dead = {}
BY DEF NoSubscription

\* With fewer inputs a node of an acyclic graph is on no cycle.
LEMMA FewerInputs ==
    ASSUME NEW g \in [Node -> Def \cup {NoDef}], Acyclic(g), NEW n \in Node, NEW i \in InputsOf(g, n)
    PROVE  ~DetectCycle([g EXCEPT ![n] = [g[n] EXCEPT !.inputs = @ \ {i}]], n)
<1> DEFINE d == [g[n] EXCEPT !.inputs = @ \ {i}]
           h == [g EXCEPT ![n] = d]
<1>1. g[n] \in Def /\ g[n] # NoDef
  BY DEF InputsOf
<1>2. d \in Def /\ d.inputs \subseteq g[n].inputs
  BY <1>1 DEF Def
<1>3. d # NoDef
  BY <1>2, NoDefAssumption
<1> HIDE DEF d
<1>4. h[n] = d /\ \A m \in Node \ {n} : h[m] = g[m]
  OBVIOUS
<1>5. InputsOf(h, n) \subseteq InputsOf(g, n)
  BY <1>1, <1>2, <1>3, <1>4 DEF InputsOf
<1>6. \A m \in Node \ {n} : InputsOf(h, m) = InputsOf(g, m)
  BY <1>4 DEF InputsOf
<1> HIDE DEF h
<1> SUFFICES ASSUME NEW S \in SUBSET Node, n \in S, \A m \in S : InputsOf(h, m) \cap S # {}
             PROVE  FALSE
  BY DEF DetectCycle, h, d
<1>7. \A m \in S : InputsOf(g, m) \cap S # {}
  BY <1>5, <1>6
<1> QED
  BY <1>7 DEF Acyclic

\* So the update that takes a removed node out of its reader is never refused.
LEMMA DetachAccepted ==
    ASSUME CleanRemovals, TypeOK, RegistriesAgree, AcyclicDefs,
           NEW n \in Node, NEW i \in InputsOf(defs, n)
    PROVE  ~UpdateRefused(n, [defs[n] EXCEPT !.inputs = @ \ {i}])
<1>1. Defined(n) /\ defs \in [Node -> Def \cup {NoDef}]
  BY DEF InputsOf, Defined, TypeOK
<1>2. n \in subjects
  BY <1>1 DEF RegistriesAgree, CleanRemovals
<1>3. ~DetectCycle([defs EXCEPT ![n] = [defs[n] EXCEPT !.inputs = @ \ {i}]], n)
  BY <1>1, FewerInputs DEF AcyclicDefs
<1> QED
  BY <1>1, <1>2, <1>3 DEF UpdateRefused

\* A turn that detaches nobody finds everybody listening.
LEMMA AllHear ==
    ASSUME HeardInv, \A x \in Range(todo) : x.op # "detach", NEW n \in Node
    PROVE  Hears(n)
<1>1. \A m, i : DetachOf(m, i).op = "detach"
  BY DEF DetachOf
<1> QED
  BY <1>1 DEF HeardInv, Hears

LEMMA AllHeardInv ==
    ASSUME \A n \in Node : Hears(n)', \A n \in subjects' : Defined(n)'
    PROVE  HeardInv'
BY DEF HeardInv, Hears

\* Only a running engine has somebody who does not hear.
LEMMA DeafRuns ==
    ASSUME SilentInv, state # "running", NEW n \in Node
    PROVE  Hears(n)
BY NoSubscriptionHears DEF SilentInv, Unsubscribed, Hears

LEMMA SubscribeHears ==
    ASSUME NoSyncPause, NEW n \in Node, NEW d, NEW subs \in [Node -> Subscription], NEW subjs,
           Subscribe(n, d, subs, subjs)
    PROVE  /\ \A m \in Node \ {n} : subscriptions'[m] = subs[m]
           /\ Hears(n)' \/ subscriptions'[n] = subs[n]
BY DEF Subscribe, Connect, ComputeThrows, NoSyncPause, Hears

LEMMA ReplaceHears ==
    ASSUME NoSyncPause, TypeOK, NEW n \in Node, NEW d \in Def, ReplaceNode(n, d)
    PROVE  /\ Hears(n)'
           /\ \A m \in Node \ {n} : subscriptions'[m] = subscriptions[m] /\ defs'[m] = defs[m]
           /\ subjects' = subjects
           /\ \A m \in Node : Defined(m) => Defined(m)'
<1>. PICK left : left = CleanedSubscriptions(n)
  OBVIOUS
<1>1. /\ left \in [Node -> Subscription]
      /\ left[n].dead = {}
      /\ \A m \in Node \ {n} : left[m] = subscriptions[m]
  BY CleanedFacts, NoSubscriptionHears
<1>2. subscriptions' = left \/ Subscribe(n, d, left, subjects)
  BY DEF ReplaceNode
<1>3. Hears(n)' /\ \A m \in Node \ {n} : subscriptions'[m] = subscriptions[m]
  BY <1>1, <1>2, SubscribeHears DEF Hears
<1>4. defs' = [defs EXCEPT ![n] = d] /\ subjects' = subjects /\ d # NoDef
  BY NoDefAssumption DEF ReplaceNode
<1>5. \A m \in Node \ {n} : defs'[m] = defs[m]
  BY <1>4 DEF TypeOK
<1>6. \A m \in Node : Defined(m) => Defined(m)'
  BY <1>4 DEF Defined, TypeOK
<1> QED
  BY <1>3, <1>4, <1>5, <1>6

LEMMA AddHears ==
    ASSUME NoSyncPause, TypeOK, RegistriesAgree, HeardInv, NEW n \in Node, NEW d \in Def, AddNode(n, d)
    PROVE  HeardInv'
<1>1. Idle /\ ~Defined(n) /\ defs' = [defs EXCEPT ![n] = d] /\ subjects' \subseteq subjects \cup {n}
  BY DEF AddNode
<1>2. \A m \in Node : Hears(m)
  BY <1>1, AllHear, EmptySeq DEF Idle, Range
<1>3. n \notin subjects
  BY <1>1 DEF HeardInv
<1>. PICK left : left = Unwire(subscriptions, n)
  OBVIOUS
<1>4. left \in [Node -> Subscription]
  BY UnwireType DEF TypeOK
<1>5. \A m \in Node : left[m].dead = {}
  <2>1. \A m \in Node : subscriptions[m].wired \subseteq subjects
    BY DEF RegistriesAgree
  <2>2. \A m \in Node : left[m].dead = subscriptions[m].dead \cup (subscriptions[m].wired \cap {n})
    BY DEF Unwire
  <2> QED
    BY <1>2, <1>3, <2>1, <2>2 DEF Hears
<1>6. subscriptions' = subscriptions \/ subscriptions' = left
      \/ Subscribe(n, d, left, subjects \cup {n})
  BY DEF AddNode
<1>7. \A m \in Node : Hears(m)'
  <2>1. CASE Subscribe(n, d, left, subjects \cup {n})
    BY <1>4, <1>5, <2>1, SubscribeHears DEF Hears
  <2> QED
    BY <1>2, <1>5, <1>6, <2>1 DEF Hears
<1>8. \A m \in subjects' : Defined(m)'
  <2>1. d # NoDef
    BY NoDefAssumption
  <2> QED
    BY <1>1, <2>1 DEF HeardInv, Defined, TypeOK
<1> QED
  BY <1>7, <1>8, AllHeardInv

LEMMA RemoveHears ==
    ASSUME CleanRemovals, TypeOK, RegistriesAgree, OrderInv, HeardInv,
           NEW n \in Node, RemoveNode(n, FALSE)
    PROVE  HeardInv'
<1>1. /\ Idle /\ defs' = [defs EXCEPT ![n] = NoDef] /\ subjects' = subjects \ {n}
  BY DEF RemoveNode
<1>2. \A m \in Node : Hears(m)
  BY <1>1, AllHear, EmptySeq DEF Idle, Range
<1>. PICK left : left = CleanedSubscriptions(n)
  OBVIOUS
<1>3. subscriptions' = Unwire(left, n)
  BY DEF RemoveNode
<1>4. /\ left \in [Node -> Subscription] /\ left[n] = NoSubscription
      /\ \A m \in Node \ {n} : left[m] = subscriptions[m]
  BY CleanedFacts
<1>5. \A m \in Node : subscriptions'[m].dead = left[m].dead \cup (left[m].wired \cap {n})
  BY <1>3 DEF Unwire
<1>6. Hears(n)'
  BY <1>4, <1>5, NoSubscriptionHears DEF Hears
<1>7. ASSUME NEW m \in Node \ {n}, NEW i \in subscriptions'[m].dead
      PROVE  DetachOf(m, i) \in Range(todo') /\ i \in InputsOf(defs', m)
  <2>1. i = n /\ n \in subscriptions[m].wired
    BY <1>2, <1>4, <1>5, <1>7 DEF Hears
  <2>2. n \in InputsOf(defs, m)
    BY <2>1 DEF RegistriesAgree
  <2>3. Defined(m)
    BY <2>2 DEF InputsOf, Defined
  <2>4. DetachOf(m, n) \in Range(todo')
    BY <2>3, RemoveTurn DEF DetachOf
  <2>5. defs'[m] = defs[m]
    BY <1>1 DEF TypeOK
  <2> QED
    BY <2>1, <2>2, <2>4, <2>5 DEF InputsOf
<1>8. \A m \in subjects' : Defined(m)'
  BY <1>1 DEF HeardInv, Defined, TypeOK
<1> QED
  BY <1>6, <1>7, <1>8 DEF HeardInv, Hears

\* A deferred update, or one that finds everybody listening, leaves everybody listening.
LEMMA UpdateWithinHears ==
    ASSUME NoSyncPause, TypeOK, HeardInv, NEW n \in Node, NEW d \in Def, UpdateWithin(n, d),
           \A m \in Node : Hears(m)
    PROVE  HeardInv'
<1>1. CASE ReplaceNode(n, d)
  <2>1. \A m \in Node : Hears(m)'
    BY <1>1, ReplaceHears DEF Hears
  <2>2. \A m \in subjects' : Defined(m)'
    BY <1>1, ReplaceHears DEF HeardInv, TypeOK
  <2> QED
    BY <2>1, <2>2, AllHeardInv
<1>2. CASE UNCHANGED <<defs, subjects, subscriptions>>
  BY <1>2, AllHeardInv DEF Hears, HeardInv, Defined
<1> QED
  BY <1>1, <1>2 DEF UpdateWithin, DeferUpdate, registries

\* One node is taken care of; the others still have their turn.
LEMMA OneHeard ==
    ASSUME HeardInv, \A x \in Range(todo) : x = Head(todo) \/ x \in Range(todo'),
           NEW n \in Node, NEW i \in Node, Head(todo) = DetachOf(n, i),
           Hears(n)' \/ (i \notin InputsOf(defs, n) /\ subscriptions'[n] = subscriptions[n] /\ defs'[n] = defs[n]),
           \A m \in Node \ {n} : subscriptions'[m] = subscriptions[m] /\ defs'[m] = defs[m],
           \A m \in subjects' : Defined(m)'
    PROVE  HeardInv'
<1> SUFFICES ASSUME NEW m \in Node, NEW j \in subscriptions'[m].dead
             PROVE  DetachOf(m, j) \in Range(todo') /\ j \in InputsOf(defs', m)
  BY DEF HeardInv
<1>1. /\ subscriptions'[m] = subscriptions[m] /\ defs'[m] = defs[m]
      /\ m = n => i \notin InputsOf(defs, n)
  BY DEF Hears
<1>2. DetachOf(m, j) \in Range(todo) /\ j \in InputsOf(defs, m)
  BY <1>1 DEF HeardInv
<1>3. DetachOf(m, j) = DetachOf(n, i) => m = n /\ j = i
  BY DEF DetachOf
<1>4. DetachOf(m, j) # Head(todo)
  BY <1>1, <1>2, <1>3
<1> QED
  BY <1>1, <1>2, <1>4 DEF InputsOf

LEMMA DetachHears ==
    ASSUME CleanRemovals, NoSyncPause, TypeOK, AcyclicDefs, RegistriesAgree, TurnInv, SilentInv, HeardInv,
           TurnStep, DetachStep
    PROVE  HeardInv'
<1>. PICK n \in Node, i \in Node :
        /\ Head(todo) = DetachOf(n, i)
        /\ IF i \in InputsOf(defs, n)
           THEN UpdateWithin(n, [defs[n] EXCEPT !.inputs = @ \ {i}])
           ELSE /\ Continue
                /\ UNCHANGED <<registries, state, subscriptions, deferred>>
  BY DEF DetachStep, DetachOf
<1>1. Continue => \A x \in Range(todo) : x = Head(todo) \/ x \in Range(todo')
  BY TurnGoesOn DEF TurnStep, Idle
<1>2. CASE i \notin InputsOf(defs, n)
  <2>1. Continue /\ UNCHANGED <<defs, subjects, subscriptions>>
    BY <1>2 DEF registries
  <2>2. \A m \in subjects' : Defined(m)'
    BY <2>1 DEF HeardInv, Defined
  <2> QED
    BY <1>1, <1>2, <2>1, <2>2, OneHeard
<1>3. CASE i \in InputsOf(defs, n)
  <2>. PICK d \in Def : d = [defs[n] EXCEPT !.inputs = @ \ {i}]
    BY <1>3, DetachDef
  <2>1. UpdateWithin(n, d) /\ ~UpdateRefused(n, d)
    BY <1>3, DetachAccepted
  <2>2. CASE state = "running"
    <3>1. ReplaceNode(n, d) /\ Continue
      BY <2>1, <2>2 DEF UpdateWithin, DeferUpdate, CleanRemovals
    <3>2. \A m \in subjects' : Defined(m)'
      BY <3>1, ReplaceHears DEF HeardInv, TypeOK
    <3>3. Hears(n)' /\ \A m \in Node \ {n} : subscriptions'[m] = subscriptions[m] /\ defs'[m] = defs[m]
      BY <3>1, ReplaceHears
    <3> QED
      BY <1>1, <3>1, <3>2, <3>3, OneHeard
  <2>3. CASE state # "running"
    BY <2>1, <2>3, DeafRuns, UpdateWithinHears
  <2> QED
    BY <2>2, <2>3
<1> QED
  BY <1>2, <1>3

\* A turn of another kind detaches nobody.
LEMMA OtherHeads ==
    ASSUME TypeOK, TurnInv, TurnStep, ~DetachStep
    PROVE  \A x \in Range(todo) : x.op # "detach"
<1>1. todo # <<>> /\ todo \in Seq(Item) /\ Head(todo) \in Range(todo)
  BY TailRange DEF TurnStep, Idle, TypeOK
<1>2. Head(todo).op # "detach"
  <2>1. CASE SubscribeStep
    BY <2>1 DEF SubscribeStep
  <2>2. CASE FinishStep
    BY <2>2 DEF FinishStep
  <2>3. CASE UpdateStep
    BY <2>3, HeadKinds DEF UpdateItem
  <2> QED
    BY <2>1, <2>2, <2>3 DEF TurnStep
<1>3. ~(Range(todo) \subseteq DetachItem)
  BY <1>1, <1>2 DEF DetachItem
<1>4. \A x \in SubscribeItem \cup FinishItem \cup UpdateItem : x.op # "detach"
  BY DEF SubscribeItem, FinishItem, UpdateItem
<1> QED
  BY <1>3, <1>4 DEF TurnInv

LEMMA HeardStep ==
    ASSUME CleanRemovals, NoSyncPause
    PROVE  /\ TypeOK /\ AcyclicDefs /\ RegistriesAgree /\ OrderInv /\ TurnInv /\ SilentInv /\ HeardInv
           /\ [Next]_vars
           => HeardInv'
<1> SUFFICES ASSUME TypeOK, AcyclicDefs, RegistriesAgree, OrderInv, TurnInv, SilentInv, HeardInv,
                    [Next]_vars
             PROVE  HeardInv'
  OBVIOUS
<1>1. ASSUME NEW n \in Node, NEW d \in Def, AddNode(n, d) PROVE HeardInv'
  BY <1>1, AddHears
<1>2. Idle => \A n \in Node : Hears(n)
  BY AllHear, EmptySeq DEF Idle, Range
<1>3. ASSUME Idle, UNCHANGED <<defs, subjects, subscriptions>> PROVE HeardInv'
  BY <1>2, <1>3, AllHeardInv DEF Hears, HeardInv, Defined
<1>4. ASSUME NEW n \in Node, NEW d \in Def, UpdateNode(n, d) PROVE HeardInv'
  <2>1. Idle
    BY <1>4 DEF UpdateNode
  <2>2. CASE DeferUpdate(n, d)
    BY <1>3, <2>1, <2>2 DEF DeferUpdate, registries
  <2>3. CASE ReplaceNode(n, d)
    <3>1. \A m \in Node : Hears(m)'
      BY <1>2, <2>1, <2>3, ReplaceHears DEF Hears
    <3>2. \A m \in subjects' : Defined(m)'
      BY <2>3, ReplaceHears DEF HeardInv, TypeOK
    <3> QED
      BY <3>1, <3>2, AllHeardInv
  <2> QED
    BY <1>4, <2>2, <2>3 DEF UpdateNode
<1>5. ASSUME NEW n \in Node, NEW p \in Preserve, RemoveNode(n, p) PROVE HeardInv'
  <2>1. p = FALSE
    BY LifecycleAssumption DEF CleanRemovals
  <2> QED
    BY <1>5, <2>1, RemoveHears
<1>6. CASE Start \/ Resume \/ TimerFires
  BY <1>3, <1>6 DEF Start, Resume, TimerFires, registries
<1>7. CASE Pause \/ Stop \/ Destroy \/ \E n \in Node : ComputeSkips(n)
  <2>1. Silence /\ (UNCHANGED registries \/ subjects' = {})
    BY <1>7 DEF Pause, Stop, Destroy, ComputeSkips, PauseEngine
  <2>2. \A n \in Node : Hears(n)'
    BY <2>1, NoSubscriptionHears DEF Silence, NobodySubscribed, Hears
  <2>3. \A m \in subjects' : Defined(m)'
    BY <2>1 DEF registries, HeardInv, Defined
  <2> QED
    BY <2>2, <2>3, AllHeardInv
<1>8. CASE TurnStep
  <2>1. CASE DetachStep
    BY <1>8, <2>1, DetachHears
  <2>2. CASE ~DetachStep
    <3>1. \A n \in Node : Hears(n)
      BY <1>8, <2>2, OtherHeads, AllHear
    <3>2. CASE UpdateStep
      BY <3>1, <3>2, UpdateWithinHears DEF UpdateStep
    <3>3. ASSUME UNCHANGED <<defs, subjects>>, \A n \in Node : Hears(n)' PROVE HeardInv'
      BY <3>3, AllHeardInv DEF HeardInv, Defined
    <3>4. CASE FinishStep
      BY <3>1, <3>3, <3>4 DEF FinishStep, registries, Hears
    <3>5. CASE SubscribeStep
      <4>1. PICK n \in Node : RecreateSubscription(n) /\ UNCHANGED <<defs, subjects>>
        BY <3>5 DEF SubscribeStep
      <4>2. UNCHANGED subscriptions \/ Subscribe(n, defs[n], subscriptions, subjects)
        BY <4>1 DEF RecreateSubscription, Subscribe
      <4>3. subscriptions \in [Node -> Subscription]
        BY DEF TypeOK
      <4>4. \A m \in Node : Hears(m)'
        BY <3>1, <4>2, <4>3, SubscribeHears DEF Hears
      <4> QED
        BY <3>3, <4>1, <4>4
    <3> QED
      BY <1>8, <2>2, <3>2, <3>4, <3>5 DEF TurnStep
  <2> QED
    BY <2>1, <2>2
<1>9. CASE UNCHANGED vars
  BY <1>9 DEF vars, HeardInv, Defined
<1> QED
  BY <1>1, <1>4, <1>5, <1>6, <1>7, <1>8, <1>9, LifecycleAssumption
     DEF Next, NodeCall, LifecycleCall, Argument

\* Between two turns nobody listens to a subject that was completed or replaced: the
\* update that removeNode makes of every reader is never refused, and every reader of the
\* removed subject is among those it updates.
THEOREM NobodyDeaf ==
    ASSUME CleanRemovals, NoSyncPause
    PROVE  Spec => []NoDeadInput
<1>1. Init => HeardInv
  BY NoSubscriptionHears DEF Init, HeardInv, NobodySubscribed
<1>2. HeardInv => NoDeadInput
  <2> SUFFICES ASSUME HeardInv, Idle PROVE \A n \in Node : Hears(n)
    BY DEF NoDeadInput, Hears
  <2>1. \A x \in Range(todo) : x.op # "detach"
    BY EmptySeq DEF Idle, Range
  <2> QED
    BY <2>1, AllHear
<1> QED
  BY <1>1, <1>2, HeardStep, SilentAlways, TypeCorrect, Acyclicity, Registries, TurnAlways, PTL DEF Spec

-----------------------------------------------------------------------------
(* No deferred update is forgotten *)

IdsOf(entries) == {entries[k].id : k \in DOMAIN entries}

\* Map.set forgets no key.
LEMMA SetEntryIds ==
    ASSUME NEW entries \in Seq(UpdateItem), NEW e \in UpdateItem
    PROVE  IdsOf(entries) \subseteq IdsOf(SetEntry(entries, e))
<1>1. CASE \E k \in DOMAIN entries : entries[k].id = e.id
  <2>1. SetEntry(entries, e) = [k \in DOMAIN entries |-> IF entries[k].id = e.id THEN e ELSE entries[k]]
    BY <1>1 DEF SetEntry
  <2> QED
    BY <2>1 DEF IdsOf
<1>2. CASE ~ \E k \in DOMAIN entries : entries[k].id = e.id
  <2>1. SetEntry(entries, e) = Append(entries, e)
    BY <1>2 DEF SetEntry
  <2>2. \A k \in DOMAIN entries : k \in DOMAIN Append(entries, e) /\ Append(entries, e)[k] = entries[k]
    BY AppendProperties, LenProperties
  <2> QED
    BY <2>1, <2>2 DEF IdsOf
<1> QED
  BY <1>1, <1>2

\* What DeferredHandedOver says of one step.
HandOver ==
    \/ DeferredIds \subseteq DeferredIds'
    \/ timers' = Append(timers, deferred)
    \/ order' = <<>>

LEMMA DeferHandsOver ==
    ASSUME TypeOK, NEW n \in Node, NEW d \in Def, DeferUpdate(n, d)
    PROVE  HandOver
<1>1. deferred \in Seq(UpdateItem)
  BY DEF TypeOK
<1>. PICK e \in UpdateItem : e = [op |-> "update", id |-> n, def |-> d]
  BY UpdateItemIn
<1>2. IdsOf(deferred) \subseteq IdsOf(deferred')
  BY <1>1, SetEntryIds DEF DeferUpdate
<1> QED
  BY <1>2 DEF HandOver, DeferredIds, IdsOf

LEMMA TurnHandsOver == TypeOK /\ TurnStep => HandOver \/ UNCHANGED deferred
<1> SUFFICES ASSUME TypeOK, TurnStep PROVE HandOver \/ UNCHANGED deferred
  OBVIOUS
<1>1. ASSUME NEW n \in Node, NEW d \in Def, UpdateWithin(n, d) PROVE HandOver \/ UNCHANGED deferred
  BY <1>1, DeferHandsOver DEF UpdateWithin
<1>2. CASE SubscribeStep \/ FinishStep
  BY <1>2 DEF SubscribeStep, FinishStep, HandOver
<1>3. CASE UpdateStep
  BY <1>1, <1>3 DEF UpdateStep
<1>4. CASE DetachStep
  <2>1. PICK n \in Node, i \in Node :
            IF i \in InputsOf(defs, n)
            THEN UpdateWithin(n, [defs[n] EXCEPT !.inputs = @ \ {i}])
            ELSE UNCHANGED deferred
    BY <1>4 DEF DetachStep
  <2> QED
    BY <1>1, <2>1, DetachDef
<1> QED
  BY <1>2, <1>3, <1>4 DEF TurnStep

LEMMA NodeCallHandsOver == TypeOK /\ NodeCall => HandOver \/ UNCHANGED deferred
BY DeferHandsOver, LifecycleAssumption DEF NodeCall, Argument, AddNode, UpdateNode, RemoveNode

LEMMA OtherHandsOver ==
    LifecycleCall \/ (\E n \in Node : ComputeSkips(n)) \/ TimerFires => HandOver \/ UNCHANGED deferred
BY DEF LifecycleCall, Start, Resume, Pause, Stop, Destroy, ComputeSkips, TimerFires, HandOver

\* A node's deferred update is replaced, or handed to a timer with all the others, and is
\* lost only with the nodes.
THEOREM NothingForgotten == Spec => DeferredHandedOver
<1>1. TypeOK /\ [Next]_vars => [HandOver]_deferred
  BY TurnHandsOver, NodeCallHandsOver, OtherHandsOver DEF Next, vars
<1>2. HandOver <=> (\/ DeferredIds \subseteq {deferred'[k].id : k \in DOMAIN deferred'}
                    \/ timers' = Append(timers, deferred)
                    \/ order' = <<>>)
  BY DEF HandOver, DeferredIds
<1> QED
  BY <1>1, <1>2, TypeCorrect, PTL DEF Spec, DeferredHandedOver

-----------------------------------------------------------------------------
(* The search for cycles *)

\* A search that comes to n along the nodes of path finds a cycle, or returns to the path.
Finds(g, path, n) ==
    \E S \in SUBSET Node :
        /\ n \in S
        /\ \A m \in S : m \in path \/ InputsOf(g, m) \cap S # {}

\* What one call of the search decides, given what the calls it makes decide.
LEMMA FindsStep ==
    ASSUME NEW g \in [Node -> Def \cup {NoDef}], NEW path \in SUBSET Node, NEW n \in Node
    PROVE  Finds(g, path, n) <=>
               \/ n \in path
               \/ \E i \in InputsOf(g, n) : Finds(g, path \cup {n}, i)
<1>1. ASSUME n \in path PROVE Finds(g, path, n)
  <2>1. {n} \in SUBSET Node /\ n \in {n} /\ \A m \in {n} : m \in path
    BY <1>1
  <2> QED
    BY <2>1 DEF Finds
<1>2. ASSUME NEW i \in InputsOf(g, n), Finds(g, path \cup {n}, i) PROVE Finds(g, path, n)
  <2>1. PICK S \in SUBSET Node : /\ i \in S
                                 /\ \A m \in S : m \in path \cup {n} \/ InputsOf(g, m) \cap S # {}
    BY <1>2 DEF Finds
  <2>2. PICK U \in SUBSET Node : U = S \cup {n}
    OBVIOUS
  <2>3. \A m \in U : m \in path \/ InputsOf(g, m) \cap U # {}
    BY <2>1, <2>2
  <2> QED
    BY <2>2, <2>3 DEF Finds
<1>3. ASSUME Finds(g, path, n), n \notin path
      PROVE  \E i \in InputsOf(g, n) : Finds(g, path \cup {n}, i)
  <2>1. PICK S \in SUBSET Node : /\ n \in S
                                 /\ \A m \in S : m \in path \/ InputsOf(g, m) \cap S # {}
    BY <1>3 DEF Finds
  <2>2. PICK i \in InputsOf(g, n) : i \in S
    BY <1>3, <2>1
  <2>3. \A m \in S : m \in path \cup {n} \/ InputsOf(g, m) \cap S # {}
    BY <2>1
  <2> QED
    BY <2>2, <2>3 DEF Finds
<1> QED
  BY <1>1, <1>2, <1>3

\* The equation of the search.
Round(g, f) ==
    [path \in SUBSET Node |->
        [n \in Node |-> \/ n \in path
                        \/ \E i \in InputsOf(g, n) : f[path \cup {n}][i]]]
Searches(g, f) == f = Round(g, f)

LEMMA SearchExists ==
    ASSUME NEW g \in [Node -> Def \cup {NoDef}]
    PROVE  \E f : Searches(g, f) /\ \A x \in Node : Search(g, x) = f[{}][x]
<1>. PICK h : h = [path \in SUBSET Node |-> [n \in Node |-> Finds(g, path, n)]]
  OBVIOUS
<1>1. \A path \in SUBSET Node, n \in Node : InputsOf(g, n) \in SUBSET Node /\ path \cup {n} \in SUBSET Node
  BY DEF InputsOf, Def
<1>2. \A path \in SUBSET Node, n \in Node : h[path][n] = Finds(g, path, n)
  OBVIOUS
<1>3. \A path \in SUBSET Node, n \in Node :
         h[path][n] = (n \in path \/ \E i \in InputsOf(g, n) : h[path \cup {n}][i])
  <2> SUFFICES ASSUME NEW path \in SUBSET Node, NEW n \in Node
      PROVE h[path][n] = (n \in path \/ \E i \in InputsOf(g, n) : h[path \cup {n}][i])
    OBVIOUS
  <2>1. \A i \in InputsOf(g, n) : h[path \cup {n}][i] = Finds(g, path \cup {n}, i)
    BY <1>1, <1>2
  <2>2. h[path][n] = Finds(g, path, n)
    BY <1>2
  <2>3. Finds(g, path, n) = (n \in path \/ \E i \in InputsOf(g, n) : Finds(g, path \cup {n}, i))
    <3>1. Finds(g, path, n) \in BOOLEAN
      BY DEF Finds
    <3> QED BY <3>1, FindsStep
  <2>4. (\E i \in InputsOf(g, n) : h[path \cup {n}][i]) <=> (\E i \in InputsOf(g, n) : Finds(g, path \cup {n}, i))
    BY <2>1
  <2> QED
    BY <2>2, <2>3, <2>4
<1>4. Searches(g, h)
  <2>1. ASSUME NEW path \in SUBSET Node PROVE h[path] = Round(g, h)[path]
    BY <1>3, <2>1 DEF Round
  <2>2. DOMAIN h = SUBSET Node /\ DOMAIN Round(g, h) = SUBSET Node
    BY DEF Round
  <2> QED
    BY <2>1, <2>2 DEF Searches, Round
<1>. PICK f : f = (CHOOSE search : Searches(g, search))
  OBVIOUS
<1>5. Searches(g, f)
  BY <1>4
<1>6. \A x \in Node : Search(g, x) = f[{}][x]
  BY DEF Search, Searches, Round
<1> QED
  BY <1>5, <1>6

\* The search ends where there is no node left that is not on its path, so there is only
\* one answer to its equation.
LEMMA SearchFinds ==
    ASSUME IsFiniteSet(Node), NEW g \in [Node -> Def \cup {NoDef}], NEW f, Searches(g, f),
           NEW path \in SUBSET Node, NEW n \in Node
    PROVE  f[path][n] \in BOOLEAN /\ (f[path][n] <=> Finds(g, path, n))
<1>1. \A p \in SUBSET Node, m \in Node :
         f[p][m] = (m \in p \/ \E i \in InputsOf(g, m) : f[p \cup {m}][i])
  <2>1. \A p \in SUBSET Node, m \in Node :
           Round(g, f)[p][m] = (m \in p \/ \E i \in InputsOf(g, m) : f[p \cup {m}][i])
    BY DEF Round
  <2>2. f = Round(g, f)
    BY DEF Searches
  <2>3. \A p \in SUBSET Node, m \in Node : f[p][m] = Round(g, f)[p][m]
    BY ONLY <2>2, Zenon
  <2> SUFFICES ASSUME NEW p \in SUBSET Node, NEW m \in Node
               PROVE  f[p][m] = (m \in p \/ \E i \in InputsOf(g, m) : f[p \cup {m}][i])
    OBVIOUS
  <2>4. f[p][m] = Round(g, f)[p][m]
    BY <2>3
  <2> QED
    BY ONLY <2>1, <2>4, Zenon
<1> DEFINE Wrong(p) == \E m \in Node : ~(f[p][m] <=> Finds(g, p, m))
           Left(p) == Cardinality(Node \ p)
           sizes == {Left(p) : p \in {q \in SUBSET Node : Wrong(q)}}
<1>2. \A p \in SUBSET Node : Left(p) \in Nat
  BY FS_CardinalityType, FS_Difference
<1>bool. f[path][n] \in BOOLEAN
  <2>1. f[path][n] = (n \in path \/ \E i \in InputsOf(g, n) : f[path \cup {n}][i])
    BY <1>1
  <2> QED
    BY ONLY <2>1, Zenon
<1> SUFFICES ASSUME Wrong(path) PROVE FALSE
  BY <1>bool
<1>3. sizes \in SUBSET Nat /\ sizes # {}
  BY <1>2
<1>4. PICK k \in sizes : \A j \in sizes : k <= j
  BY <1>3, LeastNumber
<1>5. PICK p \in SUBSET Node : Wrong(p) /\ k = Left(p)
  BY <1>4
<1>6. PICK m \in Node : ~(f[p][m] <=> Finds(g, p, m))
  BY <1>5
<1>7. m \notin p
  BY <1>1, <1>6, FindsStep
<1>8. PICK q \in SUBSET Node : q = p \cup {m}
  OBVIOUS
<1>9. Left(q) < k
  <2>. PICK R : R = Node \ p
    OBVIOUS
  <2>1. Node \ q = R \ {m} /\ m \in R /\ IsFiniteSet(R)
    BY <1>7, <1>8, FS_Difference
  <2>2. Cardinality(R \ {m}) = Cardinality(R) - 1 /\ Cardinality(R) \in Nat
    BY <2>1, FS_RemoveElement, FS_CardinalityType
  <2>3. Left(q) = Cardinality(R \ {m}) /\ k = Cardinality(R)
    BY <1>5, <2>1
  <2> HIDE DEF Left
  <2> QED
    BY <2>2, <2>3
<1>10. ~Wrong(q)
  <2>1. Wrong(q) => Left(q) \in sizes
    OBVIOUS
  <2>2. Left(q) \in Nat /\ k \in Nat
    BY <1>2, <1>3
  <2> HIDE DEF sizes, Wrong, Left
  <2> QED
    BY <1>4, <1>9, <2>1, <2>2
<1>11. InputsOf(g, m) \subseteq Node
  BY DEF InputsOf, Def
<1>12. \A i \in InputsOf(g, m) : f[q][i] <=> Finds(g, q, i)
  BY <1>10, <1>11
<1>13. f[p][m] <=> \E i \in InputsOf(g, m) : f[q][i]
  BY <1>1, <1>7, <1>8
<1>14. Finds(g, p, m) <=> \E i \in InputsOf(g, m) : Finds(g, q, i)
  BY <1>7, <1>8, FindsStep
<1> QED
  BY <1>6, <1>12, <1>13, <1>14

LEMMA SearchDetects ==
    ASSUME IsFiniteSet(Node), NEW g \in [Node -> Def \cup {NoDef}], NEW x \in Node
    PROVE  Search(g, x) = DetectCycle(g, x)
<1>. PICK f : Searches(g, f) /\ Search(g, x) = f[{}][x]
  BY SearchExists
<1>1. Search(g, x) \in BOOLEAN /\ (Search(g, x) <=> Finds(g, {}, x))
  BY SearchFinds
<1>2. Finds(g, {}, x) <=> DetectCycle(g, x)
  BY DEF Finds, DetectCycle
<1>3. DetectCycle(g, x) \in BOOLEAN
  BY DEF DetectCycle
<1> QED
  BY <1>1, <1>2, <1>3

LEMMA WithInputType ==
    ASSUME TypeOK, NEW n \in Node, NEW i \in Node, NEW c \in Config
    PROVE  WithInput(n, i, c) \in [Node -> Def \cup {NoDef}]
<1>1. InputsOf(defs, n) \cup {i} \subseteq Node
  BY DEF InputsOf, TypeOK, Def
<1>2. [inputs |-> InputsOf(defs, n) \cup {i}, config |-> c] \in Def
  BY <1>1 DEF Def
<1> QED
  BY <1>2 DEF WithInput, TypeOK

\* The recursive search of detectCycle finds a cycle exactly where the definition of one
\* says there is, in every graph that is one reference away from the engine's, whatever
\* number of nodes the cycle goes through.
THEOREM SearchIsExact ==
    ASSUME IsFiniteSet(Node)
    PROVE  Spec => []SearchDecides
<1>1. TypeOK => SearchDecides
  <2> SUFFICES ASSUME TypeOK, NEW n \in Node, NEW i \in Node, NEW c \in Config
               PROVE  Search(WithInput(n, i, c), n) = DetectCycle(WithInput(n, i, c), n)
    BY DEF SearchDecides
  <2>. PICK g : g = WithInput(n, i, c)
    OBVIOUS
  <2>1. g \in [Node -> Def \cup {NoDef}]
    BY WithInputType
  <2>2. Search(g, n) = DetectCycle(g, n)
    BY <2>1, SearchDetects
  <2> QED
    BY <2>2
<1> QED
  BY <1>1, TypeCorrect, PTL

-----------------------------------------------------------------------------
(* The loops of topologicalSort and importGraph *)

Visitor == [Node -> [Result -> Result]]

LEMMA VisitEachRuns ==
    ASSUME NEW v \in Visitor, NEW s \in Seq(Node), NEW r \in Result
    PROVE  \E f \in [0 .. Len(s) -> Result] :
               /\ f[0] = r
               /\ \A k \in 1 .. Len(s) : f[k] = v[s[k]][f[k - 1]]
               /\ VisitEach(v, s, r) = f[Len(s)]
<1> DEFINE Runs(f) == f = [k \in 0 .. Len(s) |-> IF k = 0 THEN r ELSE v[s[k]][f[k - 1]]]
<1>. PICK L \in Nat : L = Len(s) /\ \A k \in 1 .. L : s[k] \in Node
  BY LenProperties
<1>1. \E f : Runs(f)
  <2>1. PICK step : step = [k \in 1 .. L |-> v[s[k]]]
    OBVIOUS
  <2>2. step \in [1 .. L -> [Result -> Result]]
    BY <2>1 DEF Visitor
  <2>3. PICK f \in [0 .. L -> Result] : RunOf(f, L, step, r)
    BY <2>2, LoopRuns
  <2>4. \A k \in 0 .. L : f[k] = IF k = 0 THEN r ELSE v[s[k]][f[k - 1]]
    BY <2>1, <2>3 DEF RunOf
  <2>5. Runs(f)
    BY <2>4
  <2> QED
    BY <2>5
<1>2. PICK f : f = (CHOOSE done : Runs(done))
  OBVIOUS
<1>3. Runs(f)
  BY <1>1, <1>2
<1>4. VisitEach(v, s, r) = f[L]
  BY <1>2 DEF VisitEach
<1>5. f[0] = r /\ \A k \in 1 .. L : f[k] = v[s[k]][f[k - 1]]
  BY <1>3
<1>6. \A k \in 0 .. L : k \in {m \in 0 .. L : f[m] \in Result}
  <2>1. PICK P : P = {m \in 0 .. L : f[m] \in Result}
    OBVIOUS
  <2>2. 0 \in P
    BY <1>5, <2>1
  <2>3. \A k \in 0 .. L : k < L /\ k \in P => k + 1 \in P
    BY <1>5, <2>1 DEF Visitor
  <2>4. \A k \in 0 .. L : k \in P
    BY <2>2, <2>3, UpTo
  <2> QED
    BY <2>1, <2>4
<1>7. f \in [0 .. L -> Result]
  <2>1. DOMAIN f = 0 .. L /\ f = [k \in 0 .. L |-> f[k]]
    BY <1>3
  <2> QED
    BY <1>6, <2>1
<1> QED
  BY <1>4, <1>5, <1>7

\* SetToSeq lists the members of a finite set.
LEMMA SetToSeqLists ==
    ASSUME NEW S, IsFiniteSet(S)
    PROVE  SetToSeq(S) \in Seq(S) /\ Range(SetToSeq(S)) = S
<1>. PICK c : c = Cardinality(S)
  OBVIOUS
<1>1. c \in Nat /\ ExistsBijection(1 .. c, S)
  BY FS_CardinalityType
<1>2. \E f \in [1 .. c -> S] : IsInjective(f)
  BY <1>1 DEF ExistsBijection, Bijection, Injection
<1>. PICK s : s = SetToSeq(S)
  OBVIOUS
<1>3. s \in [1 .. c -> S] /\ IsInjective(s)
  BY <1>2 DEF SetToSeq
<1>4. IsFiniteSet(1 .. c) /\ Cardinality(1 .. c) = c
  BY <1>1, FS_Interval
<1>5. s \in Injection(1 .. c, S)
  BY <1>3 DEF Injection
<1>6. s \in Surjection(1 .. c, S)
  BY <1>4, <1>5, FS_Injection
<1>7. Range(s) = S
  BY <1>3, <1>6 DEF Surjection, Range
<1>8. s \in Seq(S)
  BY <1>1, <1>3
<1> QED
  BY <1>7, <1>8

\* The places of a filtered sequence are filled from left to right.
FilterFrom(e, s, S) ==
    LET kept[k \in 0 .. Len(s)] == IF k = 0 THEN e ELSE AppendIf(kept[k - 1], s[k], S)
    IN  kept[Len(s)]

LEMMA AppendIfType ==
    ASSUME NEW t \in Seq(Node), NEW n \in Node, NEW S
    PROVE  AppendIf(t, n, S) \in Seq(Node)
BY AppendProperties DEF AppendIf

FilterRun(f, e, s, S) ==
    /\ f[0] = e
    /\ \A k \in 1 .. Len(s) : f[k] = AppendIf(f[k - 1], s[k], S)
    /\ FilterFrom(e, s, S) = f[Len(s)]

LEMMA FilterRuns ==
    ASSUME NEW e \in Seq(Node), NEW s \in Seq(Node), NEW S
    PROVE  \E f \in [0 .. Len(s) -> Seq(Node)] : FilterRun(f, e, s, S)
<1> DEFINE Runs(f) == f = [k \in 0 .. Len(s) |-> 
                              IF k = 0 THEN e ELSE AppendIf(f[k - 1], s[k], S)]
<1>. PICK L \in Nat : L = Len(s) /\ \A k \in 1 .. L : s[k] \in Node
  BY LenProperties
<1>1. \E f : Runs(f)
  <2>1. PICK step : step = [k \in 1 .. L |-> [t \in Seq(Node) |-> AppendIf(t, s[k], S)]]
    OBVIOUS
  <2>2. step \in [1 .. L -> [Seq(Node) -> Seq(Node)]]
    BY <2>1, AppendIfType
  <2>3. PICK f \in [0 .. L -> Seq(Node)] : RunOf(f, L, step, e)
    BY <2>2, LoopRuns
  <2>4. \A k \in 0 .. L : f[k] = IF k = 0 THEN e ELSE AppendIf(f[k - 1], s[k], S)
    <3>1. \A k \in 1 .. L : \A t \in Seq(Node) : step[k][t] = AppendIf(t, s[k], S)
      BY <2>1
    <3>2. \A k \in 1 .. L : f[k - 1] \in Seq(Node)
      OBVIOUS
    <3>3. \A k \in 1 .. L : f[k] = AppendIf(f[k - 1], s[k], S)
      BY <2>3, <3>1, <3>2 DEF RunOf
    <3> QED
      BY <2>3, <3>3 DEF RunOf
  <2>5. Runs(f)
    BY <2>4
  <2> QED
    BY <2>5
<1>2. PICK f : f = (CHOOSE kept : Runs(kept))
  OBVIOUS
<1>3. Runs(f)
  BY <1>1, <1>2
<1>4. FilterFrom(e, s, S) = f[L]
  BY <1>2 DEF FilterFrom
<1>5. f[0] = e /\ \A k \in 1 .. L : f[k] = AppendIf(f[k - 1], s[k], S)
  BY <1>3
<1>6. \A k \in 0 .. L : f[k] \in Seq(Node)
  <2>1. PICK P : P = {m \in 0 .. L : f[m] \in Seq(Node)}
    OBVIOUS
  <2>2. 0 \in P
    BY <1>5, <2>1
  <2>3. \A k \in 0 .. L : k < L /\ k \in P => k + 1 \in P
    BY <1>5, <2>1, AppendIfType
  <2>4. \A k \in 0 .. L : k \in P
    BY <2>2, <2>3, UpTo
  <2> QED
    BY <2>1, <2>4
<1>7. f \in [0 .. L -> Seq(Node)]
  <2>1. DOMAIN f = 0 .. L /\ f = [k \in 0 .. L |-> f[k]]
    BY <1>3
  <2> QED
    BY <1>6, <2>1
<1> QED
  BY <1>4, <1>5, <1>7 DEF FilterRun

\* The inputs of a node that are in S come before it: true of a sequence, it stays true
\* of what filter keeps of it.
Precede(g, S, t) ==
    \A p \in DOMAIN t : \A i \in InputsOf(g, t[p]) \cap S : \E q \in 1 .. (p - 1) : t[q] = i

Keeps(g, s, S, t) ==
    t \in Seq(Node) /\ Range(t) = Range(s) \cap S /\ Precede(g, S \cap Range(s), t)

LEMMA FilterFacts ==
    ASSUME NEW g, NEW s \in Seq(Node), NEW S, Precede(g, S \cap Range(s), s)
    PROVE  Keeps(g, s, S, Filter(s, S))
<1>. PICK V : V = S \cap Range(s)
  OBVIOUS
<1>0. PICK e \in Seq(Node) : e = <<>>
  BY EmptySeq
<1>1. Range(e) = {} /\ DOMAIN e = {}
  BY <1>0 DEF Range
<1>2. Filter(s, S) = FilterFrom(e, s, S)
  BY <1>0 DEF Filter, FilterFrom
<1>. PICK f \in [0 .. Len(s) -> Seq(Node)] : FilterRun(f, e, s, S)
  BY FilterRuns
<1>3. /\ f[0] = e
      /\ \A k \in 1 .. Len(s) : f[k] = AppendIf(f[k - 1], s[k], S)
      /\ FilterFrom(e, s, S) = f[Len(s)]
  BY DEF FilterRun
<1>. PICK L \in Nat : L = Len(s) /\ DOMAIN s = 1 .. L /\ \A k \in 1 .. L : s[k] \in Node
  BY LenProperties
<1> DEFINE Upto(k) == {s[m] : m \in 1 .. k} \cap S
<1>. PICK P : P = {k \in 0 .. L : Range(f[k]) = Upto(k) /\ Precede(g, V, f[k])}
  OBVIOUS
<1>4. 0 \in P
  <2>1. Range(f[0]) = Upto(0)
    BY <1>1, <1>3
  <2>2. Precede(g, V, f[0])
    BY <1>1, <1>3 DEF Precede
  <2> QED
    BY <2>1, <2>2
<1>5. ASSUME NEW k \in 0 .. L, k < L, k \in P PROVE k + 1 \in P
  <2>. PICK t \in Seq(Node) : t = f[k]
    OBVIOUS
  <2>. PICK n \in Node : n = s[k + 1]
    BY <1>5
  <2>1. k + 1 \in 1 .. L /\ f[k + 1] = AppendIf(t, n, S) /\ k + 1 \in 0 .. L
    BY <1>3, <1>5
  <2>2. Range(t) = Upto(k) /\ Precede(g, V, t)
    BY <1>5
  <2>3. Upto(k + 1) = Upto(k) \cup ({n} \cap S)
    <3>1. 1 .. (k + 1) = 1 .. k \cup {k + 1}
      OBVIOUS
    <3> QED
      BY <3>1
  <2>4. CASE n \notin S
    <3>1. f[k + 1] = t
      BY <2>1, <2>4 DEF AppendIf
    <3>2. Upto(k + 1) = Upto(k)
      BY <2>3, <2>4
    <3> HIDE DEF Upto
    <3> QED
      BY <2>1, <2>2, <3>1, <3>2
  <2>5. CASE n \in S
    <3>. PICK u : u = Append(t, n)
      OBVIOUS
    <3>1. f[k + 1] = u
      BY <2>1, <2>5 DEF AppendIf
    <3>2. Range(u) = Range(t) \cup {n}
      BY AppendRange
    <3>3. Range(u) = Upto(k + 1)
      <4> HIDE DEF Upto
      <4> QED
        BY <2>2, <2>3, <2>5, <3>2
    <3>4. /\ Len(t) \in Nat /\ DOMAIN t = 1 .. Len(t) /\ DOMAIN u = 1 .. (Len(t) + 1)
          /\ \A p \in 1 .. Len(t) : u[p] = t[p]
          /\ u[Len(t) + 1] = n
      BY AppendProperties, LenProperties
    <3>5. Precede(g, V, u)
      <4> SUFFICES ASSUME NEW p \in DOMAIN u, NEW i \in InputsOf(g, u[p]) \cap V
                   PROVE  \E q \in 1 .. (p - 1) : u[q] = i
        BY DEF Precede
      <4>1. CASE p \in 1 .. Len(t)
        <5>1. PICK q \in 1 .. (p - 1) : t[q] = i
          BY <2>2, <3>4, <4>1 DEF Precede
        <5>2. q \in 1 .. Len(t)
          BY <3>4, <4>1
        <5> QED
          BY <3>4, <5>1, <5>2
      <4>2. CASE p = Len(t) + 1
        <5>1. i \in InputsOf(g, s[k + 1]) \cap V
          BY <3>4, <4>2
        <5>2. PICK q \in 1 .. k : s[q] = i
          <6>1. Precede(g, V, s)
            OBVIOUS
          <6>2. PICK m \in DOMAIN s : m = k + 1 /\ i \in InputsOf(g, s[m]) \cap V
            BY <2>1, <5>1
          <6>3. \E q \in 1 .. (m - 1) : s[q] = i
            BY <6>1, <6>2 DEF Precede
          <6> QED
            BY <6>2, <6>3
        <5>3. i \in Range(t)
          BY <2>2, <5>1, <5>2
        <5>4. PICK m \in DOMAIN t : t[m] = i
          BY <5>3 DEF Range
        <5> QED
          BY <3>4, <4>2, <5>4
      <4> QED
        BY <3>4, <4>1, <4>2
    <3> HIDE DEF Upto
    <3> QED
      BY <2>1, <3>1, <3>3, <3>5
  <2> QED
    BY <2>4, <2>5
<1>6. L \in P
  <2>1. \A k \in 0 .. L : k \in P
    BY <1>4, <1>5, UpTo
  <2> QED
    BY <2>1
<1>7. Upto(L) = Range(s) \cap S
  BY DEF Range
<1> HIDE DEF Upto
<1> QED
  BY <1>2, <1>3, <1>6, <1>7 DEF Keeps

\* The inputs of a node come before it when the sources are moved to the front.
LEMMA SourcesComeFirst ==
    ASSUME NEW g, NEW s \in Seq(Node), InputsPrecede(g, s)
    PROVE  InputsPrecede(g, SourcesFirst(g, s))
<1>. PICK A : A = {n \in Node : InputsOf(g, n) = {}}
  OBVIOUS
<1>. PICK B : B = {n \in Node : InputsOf(g, n) # {}}
  OBVIOUS
<1>1. Precede(g, A \cap Range(s), s) /\ Precede(g, B \cap Range(s), s)
  BY DEF InputsPrecede, Precede
<1>. PICK a : a = Filter(s, A)
  OBVIOUS
<1>. PICK b : b = Filter(s, B)
  OBVIOUS
<1>2. Keeps(g, s, A, a)
  BY <1>1, FilterFacts
<1>3. Keeps(g, s, B, b)
  BY <1>1, FilterFacts
<1>. PICK t : t = a \o b
  OBVIOUS
<1>. PICK l, m \in Nat : Joined(a, b, t, l, m)
  <2>1. a \in Seq(Node) /\ b \in Seq(Node)
    BY <1>2, <1>3 DEF Keeps
  <2> QED
    BY <2>1, ConcatItems
<1>4. /\ DOMAIN t = 1 .. (l + m) /\ DOMAIN a = 1 .. l /\ DOMAIN b = 1 .. m
      /\ \A k \in 1 .. l : t[k] = a[k]
      /\ \A k \in 1 .. m : t[l + k] = b[k]
  BY DEF Joined
<1>5. SourcesFirst(g, s) = t
  BY DEF SourcesFirst
<1>6. ASSUME NEW k \in DOMAIN t
      PROVE  (k \in 1 .. l /\ t[k] \in Range(a))
             \/ \E q \in 1 .. m : k = l + q /\ t[k] = b[q] /\ b[q] \in Range(b)
  <2>1. CASE k \in 1 .. l
    BY <1>4, <2>1 DEF Range
  <2>2. CASE k \notin 1 .. l
    <3>1. k \in 1 .. (l + m)
      BY <1>4
    <3>2. PICK q \in 1 .. m : k = l + q
      BY ONLY <2>2, <3>1, l \in Nat, m \in Nat
    <3> QED
      BY <1>4, <3>2 DEF Range
  <2> QED
    BY <2>1, <2>2
<1> SUFFICES ASSUME NEW k \in DOMAIN t, NEW i \in InputsOf(g, t[k]), i \in Range(t)
             PROVE  \E j \in 1 .. (k - 1) : t[j] = i
  BY <1>5 DEF InputsPrecede
<1>7. t[k] \notin Range(a)
  BY <1>2 DEF Keeps
<1>8. PICK q \in 1 .. m : k = l + q /\ t[k] = b[q]
  BY <1>6, <1>7
<1>9. PICK o \in DOMAIN t : t[o] = i
  BY DEF Range
<1>10. CASE o \in 1 .. l
  <2>1. o \in 1 .. (k - 1)
    BY ONLY <1>8, <1>10, l \in Nat, m \in Nat, q \in 1 .. m
  <2> QED
    BY <1>9, <2>1
<1>11. CASE i \in Range(b)
  <2>1. q \in DOMAIN b /\ i \in InputsOf(g, b[q]) \cap (B \cap Range(s))
    BY <1>3, <1>4, <1>8, <1>11 DEF Keeps
  <2>2. PICK j \in 1 .. (q - 1) : b[j] = i
    BY <1>3, <2>1 DEF Keeps, Precede
  <2>3. j \in 1 .. m /\ l + j \in 1 .. (k - 1)
    BY ONLY <1>8, <2>2, l \in Nat, m \in Nat, q \in 1 .. m, j \in 1 .. (q - 1)
  <2> QED
    BY <1>4, <2>2, <2>3
<1> QED
  BY <1>6, <1>9, <1>10, <1>11

-----------------------------------------------------------------------------
(* The search *)

\* What one call of visit does, given what the calls it makes do.
VisitOne(g, nodes, f, visiting) == [n \in Node |-> [result \in Result |->
    IF result.threw
    THEN result
    ELSE IF n \in visiting
    THEN [result EXCEPT !.threw = TRUE]
    ELSE IF n \in Range(result.sorted)
    THEN result
    ELSE LET inner == VisitEach(f[visiting \cup {n}], KnownInputsOf(g, nodes, n), result)
         IN  IF inner.threw THEN inner
                            ELSE [inner EXCEPT !.sorted = Append(@, n)]]]

Visits(g, nodes, f) == f = [visiting \in SUBSET Node |-> VisitOne(g, nodes, f, visiting)]

LEMMA KnownInputsFacts ==
    ASSUME IsFiniteSet(Node), NEW g \in [Node -> Def \cup {NoDef}], NEW nodes, NEW n \in Node
    PROVE  /\ KnownInputsOf(g, nodes, n) \in Seq(Node)
           /\ Range(KnownInputsOf(g, nodes, n)) = InputsOf(g, n) \cap Range(nodes)
<1>. PICK S : S = InputsOf(g, n) \cap Range(nodes)
  OBVIOUS
<1>1. S \in SUBSET Node /\ IsFiniteSet(S)
  <2>1. S \in SUBSET Node
    BY DEF InputsOf, Def
  <2> QED
    BY <2>1, FS_Subset
<1>. PICK k : k = SetToSeq(S)
  OBVIOUS
<1>2. k \in Seq(S) /\ Range(k) = S
  BY <1>1, SetToSeqLists
<1>3. k \in Seq(Node)
  BY <1>1, <1>2
<1>4. KnownInputsOf(g, nodes, n) = k
  BY DEF KnownInputsOf
<1> QED
  BY <1>2, <1>3, <1>4

LEMMA VisitEachType ==
    ASSUME NEW v \in Visitor, NEW s \in Seq(Node), NEW r \in Result
    PROVE  VisitEach(v, s, r) \in Result
BY VisitEachRuns, LenProperties

LEMMA VisitOneType ==
    ASSUME IsFiniteSet(Node), NEW g \in [Node -> Def \cup {NoDef}], NEW nodes,
           NEW p \in SUBSET Node, NEW f, \A n \in Node \ p : f[p \cup {n}] \in Visitor
    PROVE  VisitOne(g, nodes, f, p) \in Visitor
<1> SUFFICES ASSUME NEW n \in Node, NEW r \in Result
             PROVE  VisitOne(g, nodes, f, p)[n][r] \in Result
  BY DEF VisitOne, Visitor
<1>1. CASE r.threw \/ n \in p \/ n \in Range(r.sorted)
  BY <1>1 DEF VisitOne, Result
<1>2. CASE ~r.threw /\ n \notin p /\ n \notin Range(r.sorted)
  <2>. PICK i : i = VisitEach(f[p \cup {n}], KnownInputsOf(g, nodes, n), r)
    OBVIOUS
  <2>1. i \in Result
    BY <1>2, KnownInputsFacts, VisitEachType
  <2>2. VisitOne(g, nodes, f, p)[n][r] = IF i.threw THEN i ELSE [i EXCEPT !.sorted = Append(@, n)]
    BY <1>2 DEF VisitOne
  <2>3. i.sorted \in Seq(Node) /\ Append(i.sorted, n) \in Seq(Node)
    BY <2>1, AppendProperties DEF Result
  <2>4. [i EXCEPT !.sorted = Append(@, n)] \in Result
    BY <2>1, <2>3 DEF Result
  <2> QED
    BY <2>1, <2>2, <2>4
<1> QED
  BY <1>1, <1>2

\* A visit only asks for the visits of longer paths.
LEMMA VisitOneSame ==
    ASSUME NEW g, NEW nodes, NEW p \in SUBSET Node, NEW f, NEW h,
           \A n \in Node \ p : f[p \cup {n}] = h[p \cup {n}]
    PROVE  VisitOne(g, nodes, f, p) = VisitOne(g, nodes, h, p)
<1>1. \A n \in Node, r \in Result : VisitOne(g, nodes, f, p)[n][r] = VisitOne(g, nodes, h, p)[n][r]
  <2> SUFFICES ASSUME NEW n \in Node, NEW r \in Result
               PROVE  VisitOne(g, nodes, f, p)[n][r] = VisitOne(g, nodes, h, p)[n][r]
    OBVIOUS
  <2>1. CASE r.threw \/ n \in p \/ n \in Range(r.sorted)
    BY <2>1 DEF VisitOne
  <2>2. CASE ~r.threw /\ n \notin p /\ n \notin Range(r.sorted)
    <3>1. f[p \cup {n}] = h[p \cup {n}]
      BY <2>2
    <3> QED
      BY <2>2, <3>1 DEF VisitOne
  <2> QED
    BY <2>1, <2>2
<1> QED
  BY <1>1 DEF VisitOne

\* The nodes that can still get onto a path.
Left(p) == Cardinality(Node \ p)

LEMMA LongerPath ==
    ASSUME IsFiniteSet(Node), NEW p \in SUBSET Node
    PROVE  /\ Left(p) \in 0 .. Cardinality(Node)
           /\ \A n \in Node \ p : Left(p \cup {n}) = Left(p) - 1
<1>. PICK R : R = Node \ p
  OBVIOUS
<1>1. IsFiniteSet(R) /\ R \in SUBSET Node
  BY FS_Subset
<1>2. Cardinality(R) \in Nat /\ Cardinality(R) <= Cardinality(Node) /\ Cardinality(Node) \in Nat
  BY <1>1, FS_Subset, FS_CardinalityType
<1>3. ASSUME NEW n \in Node \ p PROVE Left(p \cup {n}) = Left(p) - 1
  <2>1. Node \ (p \cup {n}) = R \ {n} /\ n \in R
    OBVIOUS
  <2>2. Cardinality(R \ {n}) = Cardinality(R) - 1
    BY <1>1, <2>1, FS_RemoveElement
  <2> QED
    BY <2>1, <2>2 DEF Left
<1>4. Left(p) = Cardinality(R)
  BY DEF Left
<1>5. Left(p) \in 0 .. Cardinality(Node)
  BY <1>2, <1>4
<1> QED
  BY <1>3, <1>5

\* The recursion ends, because a path never holds a node twice: visit is a function, and
\* the one that its equation describes.
LEMMA VisitExists ==
    ASSUME IsFiniteSet(Node), NEW g \in [Node -> Def \cup {NoDef}], NEW nodes
    PROVE  /\ Visits(g, nodes, Visit(g, nodes))
           /\ Visit(g, nodes) \in [SUBSET Node -> Visitor]
<1>. PICK c \in Nat : c = Cardinality(Node)
  BY FS_CardinalityType
<1> DEFINE Upto(k, f) == \A p \in SUBSET Node : Left(p) < k => f[p] = VisitOne(g, nodes, f, p)
<1>. PICK P : P = {k \in 0 .. (c + 1) : \E f \in [SUBSET Node -> Visitor] : Upto(k, f)}
  OBVIOUS
<1>0. \A p \in SUBSET Node : Left(p) \in 0 .. c /\ \A n \in Node \ p : Left(p \cup {n}) = Left(p) - 1
  BY LongerPath
<1>1. 0 \in P
  <2>1. [p \in SUBSET Node |-> [n \in Node |-> [r \in Result |-> r]]] \in [SUBSET Node -> Visitor]
    BY DEF Visitor
  <2>. PICK f \in [SUBSET Node -> Visitor] : TRUE
    BY <2>1
  <2>2. Upto(0, f)
    BY <1>0
  <2>3. 0 \in 0 .. (c + 1)
    OBVIOUS
  <2> HIDE DEF Upto
  <2> QED
    BY <2>2, <2>3
<1>2. ASSUME NEW k \in 0 .. (c + 1), k < c + 1, k \in P PROVE k + 1 \in P
  <2>1. PICK f \in [SUBSET Node -> Visitor] : Upto(k, f)
    BY <1>2
  <2>2. PICK h : h = [p \in SUBSET Node |-> IF Left(p) = k THEN VisitOne(g, nodes, f, p) ELSE f[p]]
    OBVIOUS
  <2>3. \A p \in SUBSET Node : VisitOne(g, nodes, f, p) \in Visitor
    BY VisitOneType
  <2>4. h \in [SUBSET Node -> Visitor]
    BY <2>2, <2>3
  <2>5. ASSUME NEW p \in SUBSET Node, Left(p) < k + 1
        PROVE  h[p] = VisitOne(g, nodes, h, p)
    <3>1. h[p] = VisitOne(g, nodes, f, p)
      BY <1>0, <2>1, <2>2, <2>5
    <3>2. \A n \in Node \ p : f[p \cup {n}] = h[p \cup {n}]
      <4> SUFFICES ASSUME NEW n \in Node \ p PROVE f[p \cup {n}] = h[p \cup {n}]
        OBVIOUS
      <4>. PICK q \in SUBSET Node : q = p \cup {n}
        OBVIOUS
      <4>1. Left(q) # k
        BY <1>0, <2>5
      <4> QED
        BY <2>2, <4>1
    <3>3. VisitOne(g, nodes, f, p) = VisitOne(g, nodes, h, p)
      BY <3>2, VisitOneSame
    <3> QED
      BY <3>1, <3>3
  <2>6. Upto(k + 1, h)
    BY <2>5
  <2>7. k + 1 \in 0 .. (c + 1)
    BY <1>2
  <2> QED
    BY <2>4, <2>6, <2>7
<1>3. \E f : Visits(g, nodes, f)
  <2>1. c + 1 \in P
    <3>1. c + 1 \in Nat /\ c + 1 \in 0 .. (c + 1)
      OBVIOUS
    <3>2. \A k \in 0 .. (c + 1) : k \in P
      BY <1>1, <1>2, <3>1, UpTo
    <3> QED
      BY <3>1, <3>2
  <2>2. PICK f \in [SUBSET Node -> Visitor] : Upto(c + 1, f)
    BY <2>1
  <2>3. \A p \in SUBSET Node : f[p] = VisitOne(g, nodes, f, p)
    BY <1>0, <2>2
  <2>4. f = [p \in SUBSET Node |-> VisitOne(g, nodes, f, p)]
    BY <2>3
  <2> QED
    BY <2>4 DEF Visits
<1>. PICK f : f = Visit(g, nodes)
  OBVIOUS
<1>4. Visits(g, nodes, f)
  <2>1. f = (CHOOSE visit : Visits(g, nodes, visit))
    BY DEF Visit, Visits, VisitOne
  <2> QED
    BY <1>3, <2>1
<1>5. \A p \in SUBSET Node : f[p] = VisitOne(g, nodes, f, p)
  <2>1. PICK h : h = [p \in SUBSET Node |-> VisitOne(g, nodes, f, p)]
    OBVIOUS
  <2>2. \A p \in SUBSET Node : h[p] = VisitOne(g, nodes, f, p)
    BY <2>1
  <2>3. f = h
    BY <1>4, <2>1 DEF Visits
  <2> QED
    BY <2>2, <2>3
<1>6. \A p \in SUBSET Node : f[p] \in Visitor
  <2>. PICK Q : Q = {k \in 0 .. (c + 1) : \A p \in SUBSET Node : Left(p) < k => f[p] \in Visitor}
    OBVIOUS
  <2>1. 0 \in Q
    BY <1>0
  <2>2. ASSUME NEW k \in 0 .. (c + 1), k < c + 1, k \in Q PROVE k + 1 \in Q
    <3>1. ASSUME NEW p \in SUBSET Node, Left(p) < k + 1 PROVE f[p] \in Visitor
      <4>1. \A n \in Node \ p : f[p \cup {n}] \in Visitor
        <5> SUFFICES ASSUME NEW n \in Node \ p PROVE f[p \cup {n}] \in Visitor
          OBVIOUS
        <5>. PICK q \in SUBSET Node : q = p \cup {n}
          OBVIOUS
        <5>1. Left(q) < k
          BY <1>0, <3>1
        <5> QED
          BY <2>2, <5>1
      <4>2. VisitOne(g, nodes, f, p) \in Visitor
        BY <4>1, VisitOneType
      <4> QED
        BY <1>5, <4>2
    <3>2. k + 1 \in 0 .. (c + 1)
      BY <2>2
    <3> QED
      BY <3>1, <3>2
  <2>3. c + 1 \in Q
    <3>1. c + 1 \in Nat /\ c + 1 \in 0 .. (c + 1)
      OBVIOUS
    <3>2. \A k \in 0 .. (c + 1) : k \in Q
      BY <2>1, <2>2, <3>1, UpTo
    <3> QED
      BY <3>1, <3>2
  <2> QED
    BY <1>0, <2>3
<1>7. f \in [SUBSET Node -> Visitor]
  <2>1. DOMAIN f = SUBSET Node /\ f = [p \in SUBSET Node |-> f[p]]
    BY <1>4 DEF Visits
  <2> QED
    BY <1>6, <2>1
<1> QED
  BY <1>4, <1>7

\* A sorted part of V: every node once, after those of its inputs that are in V.
Sorted(g, V, s) ==
    /\ IsInjective(s)
    /\ Range(s) \subseteq V
    /\ Precede(g, V, s)

\* A visit of n, along a path of nodes each of which reads from the path or from n, finds
\* a sorted part of V without the nodes of the path.
Ready(g, V, path, n, r) ==
    /\ n \in V
    /\ \A m \in path : InputsOf(g, m) \cap (path \cup {n}) # {}
    /\ ~r.threw
    /\ Sorted(g, V, r.sorted)
    /\ Range(r.sorted) \cap path = {}

\* It adds to the sorted part, or it has found a cycle.
Added(g, V, path, r, result) ==
    /\ result.threw => ~Acyclic(g)
    /\ ~result.threw => /\ Sorted(g, V, result.sorted)
                        /\ Range(r.sorted) \subseteq Range(result.sorted)
                        /\ Range(result.sorted) \cap path = {}

VisitsWell(g, V, path, v) ==
    \A n \in Node, r \in Result :
        /\ r.threw => v[n][r] = r
        /\ Ready(g, V, path, n, r) => /\ Added(g, V, path, r, v[n][r])
                                      /\ ~v[n][r].threw => n \in Range(v[n][r].sorted)

\* What a loop over s needs, and what it does.
Leads(g, V, path, s) ==
    \A n \in Range(s) : n \in V /\ \A m \in path : InputsOf(g, m) \cap (path \cup {n}) # {}
AddedAll(g, V, path, s, r, result) ==
    /\ Added(g, V, path, r, result)
    /\ ~result.threw => Range(s) \subseteq Range(result.sorted)

\* A loop of visits that go well goes well.
LEMMA LoopVisitsWell ==
    ASSUME NEW g, NEW V, NEW path, NEW v \in Visitor, VisitsWell(g, V, path, v),
           NEW s \in Seq(Node), NEW r \in Result,
           ~r.threw, Sorted(g, V, r.sorted), Range(r.sorted) \cap path = {},
           Leads(g, V, path, s)
    PROVE  AddedAll(g, V, path, s, r, VisitEach(v, s, r))
<1>. PICK f \in [0 .. Len(s) -> Result] :
               /\ f[0] = r
               /\ \A k \in 1 .. Len(s) : f[k] = v[s[k]][f[k - 1]]
               /\ VisitEach(v, s, r) = f[Len(s)]
  BY VisitEachRuns
<1>. PICK L \in Nat : L = Len(s) /\ DOMAIN s = 1 .. L /\ \A k \in 1 .. L : s[k] \in Node
  BY LenProperties
<1> DEFINE Passed(k) == \A m \in 1 .. k : s[m] \in Range(f[k].sorted)
<1>. PICK P : P = {k \in 0 .. L : Added(g, V, path, r, f[k]) /\ (~f[k].threw => Passed(k))}
  OBVIOUS
<1>1. 0 \in P
  <2>1. Added(g, V, path, r, f[0]) /\ Passed(0)
    BY DEF Added
  <2> QED
    BY <2>1
<1>2. ASSUME NEW k \in 0 .. L, k < L, k \in P PROVE k + 1 \in P
  <2>. PICK j \in 1 .. L : j = k + 1
    BY <1>2
  <2>. PICK n \in Node : n = s[j]
    OBVIOUS
  <2>. PICK q \in Result : q = f[k]
    OBVIOUS
  <2>. PICK t \in Result : t = f[j]
    OBVIOUS
  <2>1. t = v[n][q]
    OBVIOUS
  <2>2. Added(g, V, path, r, q) /\ (~q.threw => Passed(k))
    BY <1>2
  <2>3. CASE q.threw
    <3>1. t = q
      BY <2>1, <2>3 DEF VisitsWell
    <3>2. t.threw /\ Added(g, V, path, r, t)
      BY <2>2, <2>3, <3>1
    <3> HIDE DEF Passed
    <3> QED
      BY <3>2
  <2>4. CASE ~q.threw
    <3>1. Ready(g, V, path, n, q)
      <4>1. n \in Range(s)
        BY DEF Range
      <4>2. Sorted(g, V, q.sorted) /\ Range(q.sorted) \cap path = {}
        BY <2>2, <2>4 DEF Added
      <4> QED
        BY <2>4, <4>1, <4>2 DEF Ready, Leads
    <3>2. Added(g, V, path, q, t) /\ (~t.threw => n \in Range(t.sorted))
      BY <2>1, <3>1 DEF VisitsWell
    <3>3. Added(g, V, path, r, t)
      BY <2>2, <2>4, <3>2 DEF Added
    <3>4. ASSUME ~t.threw PROVE Passed(j)
      <4>1. Range(q.sorted) \subseteq Range(t.sorted)
        BY <3>2, <3>4 DEF Added
      <4>2. \A m \in 1 .. k : s[m] \in Range(q.sorted)
        BY <2>2, <2>4
      <4> QED
        BY <3>2, <3>4, <4>1, <4>2
    <3> HIDE DEF Passed
    <3> QED
      BY <3>3, <3>4
  <2> QED
    BY <2>3, <2>4
<1>3. L \in P
  <2>1. \A k \in 0 .. L : k \in P
    BY <1>1, <1>2, UpTo
  <2> QED
    BY <2>1
<1> QED
  BY <1>3 DEF Range, AddedAll

\* A node that is put after all its inputs.
MayFollow(g, V, s, n) ==
    /\ n \in V /\ n \notin Range(s)
    /\ Sorted(g, V, s)
    /\ InputsOf(g, n) \cap V \subseteq Range(s)

LEMMA AppendSorted ==
    ASSUME NEW g, NEW V, NEW s \in Seq(Node), NEW n \in Node,
           MayFollow(g, V, s, n)
    PROVE  Sorted(g, V, Append(s, n)) /\ Range(Append(s, n)) = Range(s) \cup {n}
<1>. PICK u : u = Append(s, n)
  OBVIOUS
<1>0. /\ n \in V /\ n \notin Range(s)
      /\ Sorted(g, V, s)
      /\ InputsOf(g, n) \cap V \subseteq Range(s)
  BY DEF MayFollow
<1>1. Range(u) = Range(s) \cup {n}
  BY AppendRange
<1>2. IsInjective(u)
  <2>1. \A i, j \in DOMAIN s : s[i] = s[j] => i = j
    BY <1>0 DEF Sorted, IsInjective
  <2>2. \A i, j \in DOMAIN u : u[i] = u[j] => i = j
    BY <1>0, <2>1, AppendDistinct
  <2> QED
    BY <2>2 DEF IsInjective
<1>3. /\ Len(s) \in Nat /\ DOMAIN s = 1 .. Len(s) /\ DOMAIN u = 1 .. (Len(s) + 1)
      /\ \A p \in 1 .. Len(s) : u[p] = s[p]
      /\ u[Len(s) + 1] = n
  BY AppendProperties, LenProperties
<1>. PICK l \in Nat : l = Len(s)
  BY <1>3
<1>4. Precede(g, V, u)
  <2> SUFFICES ASSUME NEW p \in DOMAIN u, NEW i \in InputsOf(g, u[p]) \cap V
               PROVE  \E q \in 1 .. (p - 1) : u[q] = i
    BY DEF Precede
  <2>1. CASE p \in 1 .. l
    <3>1. PICK q \in 1 .. (p - 1) : s[q] = i
      BY <1>0, <1>3, <2>1 DEF Sorted, Precede
    <3>2. q \in 1 .. l
      BY <2>1
    <3> QED
      BY <1>3, <3>1, <3>2
  <2>2. CASE p = l + 1
    <3>1. i \in Range(s)
      BY <1>0, <1>3, <2>2
    <3>2. PICK q \in 1 .. l : s[q] = i
      BY <1>3, <3>1 DEF Range
    <3> QED
      BY <1>3, <2>2, <3>2
  <2> QED
    BY <1>3, <2>1, <2>2
<1> QED
  BY <1>0, <1>1, <1>2, <1>4 DEF Sorted


\* One visit goes well if those of the longer path do.
LEMMA VisitGoesWell ==
    ASSUME IsFiniteSet(Node), NEW g \in [Node -> Def \cup {NoDef}], NEW nodes \in Seq(Node),
           NEW path \in SUBSET Node, NEW f \in [SUBSET Node -> Visitor],
           \A n \in Node \ path : VisitsWell(g, Range(nodes), path \cup {n}, f[path \cup {n}])
    PROVE  VisitsWell(g, Range(nodes), path, VisitOne(g, nodes, f, path))
<1>. PICK V : V = Range(nodes)
  OBVIOUS
<1>0. V \in SUBSET Node
  BY DEF Range
<1>. PICK v : v = VisitOne(g, nodes, f, path)
  OBVIOUS
<1>1. ASSUME NEW n \in Node, NEW r \in Result, r.threw PROVE v[n][r] = r
  BY <1>1 DEF VisitOne
<1>2. ASSUME NEW n \in Node, NEW r \in Result, Ready(g, V, path, n, r)
      PROVE  /\ Added(g, V, path, r, v[n][r])
             /\ ~v[n][r].threw => n \in Range(v[n][r].sorted)
  <2>0. /\ n \in V /\ ~r.threw /\ Sorted(g, V, r.sorted) /\ Range(r.sorted) \cap path = {}
        /\ \A m \in path : InputsOf(g, m) \cap (path \cup {n}) # {}
    BY <1>2 DEF Ready
  <2>1. CASE n \in path
    <3>1. v[n][r].threw
      BY <2>0, <2>1 DEF VisitOne, Result
    <3>2. \A m \in path : InputsOf(g, m) \cap path # {}
      BY <2>0, <2>1
    <3>3. ~Acyclic(g)
      BY <2>1, <3>2 DEF Acyclic
    <3> QED
      BY <3>1, <3>3 DEF Added
  <2>2. CASE n \notin path /\ n \in Range(r.sorted)
    <3>1. v[n][r] = r
      BY <2>0, <2>2 DEF VisitOne
    <3> QED
      BY <2>0, <2>2, <3>1 DEF Added
  <2>3. CASE n \notin path /\ n \notin Range(r.sorted)
    <3>. PICK q \in SUBSET Node : q = path \cup {n}
      OBVIOUS
    <3>. PICK s \in Seq(Node) : s = KnownInputsOf(g, nodes, n) /\ Range(s) = InputsOf(g, n) \cap V
      BY KnownInputsFacts
    <3>. PICK w \in Visitor : w = f[q]
      OBVIOUS
    <3>. PICK i \in Result : i = VisitEach(w, s, r)
      BY VisitEachType
    <3>1. v[n][r] = IF i.threw THEN i ELSE [i EXCEPT !.sorted = Append(@, n)]
      BY <2>0, <2>3 DEF VisitOne
    <3>2. VisitsWell(g, V, q, w)
      BY <2>3
    <3>3. Range(r.sorted) \cap q = {}
      BY <2>0, <2>3
    <3>4. Leads(g, V, q, s)
      <4> SUFFICES ASSUME NEW j \in Range(s), NEW m \in q
                   PROVE  InputsOf(g, m) \cap (q \cup {j}) # {}
        BY DEF Leads
      <4>1. CASE m \in path
        BY <2>0, <4>1
      <4>2. CASE m = n
        BY <4>2
      <4> QED
        BY <4>1, <4>2
    <3>5. Added(g, V, q, r, i) /\ (~i.threw => Range(s) \subseteq Range(i.sorted))
      <4>1. AddedAll(g, V, q, s, r, i)
        BY <2>0, <3>2, <3>3, <3>4, LoopVisitsWell
      <4> QED
        BY <4>1 DEF AddedAll
    <3>6. CASE i.threw
      BY <3>1, <3>5, <3>6 DEF Added
    <3>7. CASE ~i.threw
      <4>. PICK t : t = i.sorted
        OBVIOUS
      <4>0. t \in Seq(Node)
        BY DEF Result
      <4>1. Sorted(g, V, t) /\ Range(r.sorted) \subseteq Range(t) /\ Range(t) \cap q = {}
        BY <3>5, <3>7 DEF Added
      <4>2. n \notin Range(t) /\ InputsOf(g, n) \cap V \subseteq Range(t)
        BY <3>5, <3>7, <4>1
      <4>. PICK u : u = Append(t, n)
        OBVIOUS
      <4>a. MayFollow(g, V, t, n)
        BY <2>0, <4>1, <4>2 DEF MayFollow
      <4>3. Sorted(g, V, u) /\ Range(u) = Range(t) \cup {n}
        <5>1. Sorted(g, V, Append(t, n)) /\ Range(Append(t, n)) = Range(t) \cup {n}
          BY ONLY <4>0, <4>a, AppendSorted, SMT
        <5> QED
          BY <5>1
      <4>4. v[n][r].sorted = u /\ ~v[n][r].threw
        BY <3>1, <3>7 DEF Result
      <4>5. Range(u) \cap path = {} /\ Range(r.sorted) \subseteq Range(u) /\ n \in Range(u)
        <5>1. Range(u) = Range(t) \cup {n} /\ n \notin path /\ path \subseteq q
          BY <2>3, <4>3
        <5>2. Range(r.sorted) \subseteq Range(t) /\ Range(t) \cap q = {}
          BY <4>1
        <5> QED
          BY ONLY <5>1, <5>2
      <4> QED
        BY <4>3, <4>4, <4>5 DEF Added
    <3> QED
      BY <3>6, <3>7
  <2> QED
    BY <2>1, <2>2, <2>3
<1> QED
  BY <1>1, <1>2 DEF VisitsWell

LEMMA AllVisitsGoWell ==
    ASSUME IsFiniteSet(Node), NEW g \in [Node -> Def \cup {NoDef}], NEW nodes \in Seq(Node),
           NEW path \in SUBSET Node
    PROVE  VisitsWell(g, Range(nodes), path, Visit(g, nodes)[path])
<1>. PICK c \in Nat : c = Cardinality(Node)
  BY FS_CardinalityType
<1>. PICK f \in [SUBSET Node -> Visitor] : f = Visit(g, nodes) /\ Visits(g, nodes, f)
  BY VisitExists
<1>0. \A p \in SUBSET Node : Left(p) \in 0 .. c /\ \A n \in Node \ p : Left(p \cup {n}) = Left(p) - 1
  BY LongerPath
<1>1. \A p \in SUBSET Node : f[p] = VisitOne(g, nodes, f, p)
  <2>1. PICK h : h = [p \in SUBSET Node |-> VisitOne(g, nodes, f, p)]
    OBVIOUS
  <2>2. \A p \in SUBSET Node : h[p] = VisitOne(g, nodes, f, p)
    BY <2>1
  <2>3. f = h
    BY <2>1 DEF Visits
  <2> QED
    BY <2>2, <2>3
<1>. PICK Q : Q = {k \in 0 .. (c + 1) : \A p \in SUBSET Node :
                      Left(p) < k => VisitsWell(g, Range(nodes), p, f[p])}
  OBVIOUS
<1>2. 0 \in Q
  BY <1>0
<1>3. ASSUME NEW k \in 0 .. (c + 1), k < c + 1, k \in Q PROVE k + 1 \in Q
  <2>1. ASSUME NEW p \in SUBSET Node, Left(p) < k + 1
        PROVE  VisitsWell(g, Range(nodes), p, f[p])
    <3>1. \A n \in Node \ p : VisitsWell(g, Range(nodes), p \cup {n}, f[p \cup {n}])
      <4> SUFFICES ASSUME NEW n \in Node \ p
                   PROVE  VisitsWell(g, Range(nodes), p \cup {n}, f[p \cup {n}])
        OBVIOUS
      <4>. PICK q \in SUBSET Node : q = p \cup {n}
        OBVIOUS
      <4>1. Left(q) < k
        BY <1>0, <2>1
      <4> QED
        BY <1>3, <4>1
    <3>2. VisitsWell(g, Range(nodes), p, VisitOne(g, nodes, f, p))
      BY <3>1, VisitGoesWell
    <3> QED
      BY <1>1, <3>2
  <2>2. k + 1 \in 0 .. (c + 1)
    BY <1>3
  <2> QED
    BY <2>1, <2>2
<1>4. c + 1 \in Q
  <2>1. c + 1 \in Nat /\ c + 1 \in 0 .. (c + 1)
    OBVIOUS
  <2>2. \A k \in 0 .. (c + 1) : k \in Q
    BY <1>2, <1>3, <2>1, UpTo
  <2> QED
    BY <2>1, <2>2
<1> QED
  BY <1>0, <1>4

\* topologicalSort, of all nodes that are defined.
LEMMA SortIsCorrect ==
    ASSUME IsFiniteSet(Node), NEW g \in [Node -> Def \cup {NoDef}], NEW nodes \in Seq(Node),
           \A n \in Node : g[n] # NoDef => n \in Range(nodes)
    PROVE  /\ TopologicalSort(g, nodes) \in Result
           /\ TopologicalSort(g, nodes).threw = ~Acyclic(g)
           /\ ~TopologicalSort(g, nodes).threw =>
                 /\ Sorted(g, Range(nodes), TopologicalSort(g, nodes).sorted)
                 /\ Range(TopologicalSort(g, nodes).sorted) = Range(nodes)
<1>. PICK V : V = Range(nodes)
  OBVIOUS
<1>. PICK path \in SUBSET Node : path = {}
  OBVIOUS
<1>. PICK v \in Visitor : v = Visit(g, nodes)[path]
  BY VisitExists
<1>1. VisitsWell(g, V, path, v)
  BY AllVisitsGoWell
<1>. PICK e \in Seq(Node) : e = <<>>
  BY EmptySeq
<1>2. Range(e) = {} /\ DOMAIN e = {}
  BY DEF Range
<1>. PICK r \in Result : r = [sorted |-> e, threw |-> FALSE]
  BY DEF Result
<1>3. Sorted(g, V, r.sorted) /\ Range(r.sorted) \cap path = {}
  BY <1>2 DEF Sorted, Precede, IsInjective
<1>4. Leads(g, V, path, nodes)
  BY DEF Leads
<1>. PICK t \in Result : t = VisitEach(v, nodes, r)
  BY VisitEachType
<1>5. Added(g, V, path, r, t) /\ (~t.threw => Range(nodes) \subseteq Range(t.sorted))
  <2>1. AddedAll(g, V, path, nodes, r, t)
    BY <1>1, <1>3, <1>4, LoopVisitsWell
  <2> QED
    BY <2>1 DEF AddedAll
<1>6. TopologicalSort(g, nodes) = t
  <2>1. Unsorted = r
    BY DEF Unsorted
  <2> QED
    BY <2>1 DEF TopologicalSort
<1>7. ~t.threw => Sorted(g, V, t.sorted) /\ Range(t.sorted) = V
  BY <1>5 DEF Added, Sorted
<1>8. ASSUME ~t.threw PROVE Acyclic(g)
  <2> SUFFICES ASSUME NEW S \in SUBSET Node, S # {}, \A n \in S : InputsOf(g, n) \cap S # {}
               PROVE  FALSE
    BY DEF Acyclic
  <2>. PICK s \in Seq(Node) : s = t.sorted
    BY DEF Result
  <2>1. S \subseteq Range(s)
    BY <1>7, <1>8 DEF InputsOf
  <2>. PICK T : T = {k \in DOMAIN s : s[k] \in S}
    OBVIOUS
  <2>2. T \in SUBSET Nat /\ T # {}
    BY <2>1, LenProperties DEF Range
  <2>3. PICK k \in T : \A j \in T : k <= j
    BY <2>2, LeastNumber
  <2>4. PICK i \in InputsOf(g, s[k]) : i \in S /\ i \in V
    BY <1>7, <1>8, <2>1
  <2>5. PICK j \in 1 .. (k - 1) : s[j] = i
    BY <1>7, <1>8, <2>4 DEF Sorted, Precede
  <2>6. j \in DOMAIN s
    BY LenProperties
  <2>7. k \in Nat /\ ~(k <= j)
    BY <2>2
  <2> QED
    BY <2>3, <2>4, <2>5, <2>6, <2>7
<1>9. t.threw => ~Acyclic(g)
  BY <1>5 DEF Added
<1>10. t.threw \in BOOLEAN /\ Acyclic(g) \in BOOLEAN
  BY DEF Result, Acyclic
<1> QED
  BY <1>6, <1>7, <1>8, <1>9, <1>10

\* topologicalSort throws exactly on a cycle, and the order it returns lets importGraph
\* find the inputs of a node before the node, for every graph that is one reference away
\* from the engine's and every order in which a Set is walked.
THEOREM SortIsRight ==
    ASSUME IsFiniteSet(Node)
    PROVE  Spec => []SortPutsInputsFirst
<1>1. TypeOK /\ OrderInv => SortPutsInputsFirst
  <2> SUFFICES ASSUME TypeOK, OrderInv, NEW n \in Node, NEW i \in Node, NEW c \in Config, Defined(n),
                      NEW g, g = WithInput(n, i, c),
                      NEW t, t = TopologicalSort(g, order)
               PROVE  /\ t.threw = ~Acyclic(g)
                      /\ ~t.threw => /\ IsInjective(t.sorted)
                                     /\ Range(t.sorted) = Range(order)
                                     /\ InputsPrecede(g, SourcesFirst(g, t.sorted))
    BY DEF SortPutsInputsFirst
  <2>1. g \in [Node -> Def \cup {NoDef}]
    BY WithInputType
  <2>2. order \in Seq(Node) /\ \A m \in Node : g[m] # NoDef => m \in Range(order)
    BY DEF WithInput, OrderInv, Defined, TypeOK
  <2>3. /\ t \in Result /\ t.threw = ~Acyclic(g)
        /\ ~t.threw => Sorted(g, Range(order), t.sorted) /\ Range(t.sorted) = Range(order)
    BY <2>1, <2>2, SortIsCorrect
  <2>4. ASSUME ~t.threw
        PROVE  IsInjective(t.sorted) /\ InputsPrecede(g, SourcesFirst(g, t.sorted))
    <3>1. t.sorted \in Seq(Node)
      BY <2>3 DEF Result
    <3>2. InputsPrecede(g, t.sorted)
      BY <2>3, <2>4 DEF Sorted, Precede, InputsPrecede
    <3>3. InputsPrecede(g, SourcesFirst(g, t.sorted))
      BY <3>1, <3>2, SourcesComeFirst
    <3> QED
      BY <2>3, <2>4, <3>3 DEF Sorted
  <2> QED
    BY <2>3, <2>4
<1> QED
  BY <1>1, TypeCorrect, TurnAlways, PTL

=============================================================================
