---------------------------- MODULE DataflowProofs ----------------------------
(***************************************************************************)
(* What holds of the values that flow through a graph, of its active set   *)
(* and of the hooks that wait for it, for any graph, any number of         *)
(* emissions and any backlog.                                              *)
(***************************************************************************)
EXTENDS Dataflow, SequenceFacts, SequenceTheorems, TLAPS

-----------------------------------------------------------------------------
(* Sequences of wakeups and of jobs *)

\* Outdating keeps the places of a sequence and all of an item but for `latest`.
LEMMA OutdatedWakeups ==
    ASSUME NEW s \in Seq(Wakeup)
    PROVE  /\ Outdated(s) \in Seq(Wakeup)
           /\ Len(Outdated(s)) = Len(s)
           /\ s = <<>> => Outdated(s) = <<>>
<1>1. Len(s) \in Nat /\ DOMAIN s = 1 .. Len(s) /\ \A k \in DOMAIN s : s[k] \in Wakeup
  BY ElementOfSeq, LenProperties
<1>2. Outdated(s) \in [1 .. Len(s) -> Wakeup]
  BY <1>1 DEF Outdated, Wakeup
<1>3. Outdated(s) \in Seq(Wakeup) /\ Len(Outdated(s)) = Len(s)
  BY <1>1, <1>2
<1>4. s = <<>> => Outdated(s) = <<>>
  BY <1>3, EmptySeq
<1> QED
  BY <1>3, <1>4

LEMMA OutdatedJobs ==
    ASSUME NEW s \in Seq(Job)
    PROVE  /\ Outdated(s) \in Seq(Job)
           /\ Len(Outdated(s)) = Len(s)
           /\ s = <<>> <=> Outdated(s) = <<>>
<1>1. Len(s) \in Nat /\ DOMAIN s = 1 .. Len(s) /\ \A k \in DOMAIN s : s[k] \in Job
  BY ElementOfSeq, LenProperties
<1>2. Outdated(s) \in [1 .. Len(s) -> Job]
  BY <1>1 DEF Outdated, Job
<1>3. Outdated(s) \in Seq(Job) /\ Len(Outdated(s)) = Len(s)
  BY <1>1, <1>2
<1>4. s = <<>> <=> Outdated(s) = <<>>
  BY <1>3, EmptySeq
<1> QED
  BY <1>3, <1>4

\* A pipeline is woken once, by inputs that are the latest, when all have a value.
LEMMA WakeupsFacts ==
    ASSUME NEW m \in Node, NEW v
    PROVE  /\ Wakeups(m, v) \in Seq(Wakeup)
           /\ (\E i \in Inputs[m] : v[i] = "init") => Wakeups(m, v) = <<>>
           /\ ~(\E i \in Inputs[m] : v[i] = "init") =>
                  /\ Len(Wakeups(m, v)) = 1
                  /\ Wakeups(m, v)[1].latest = TRUE
<1>1. CASE \E i \in Inputs[m] : v[i] = "init"
  BY <1>1, EmptySeq DEF Wakeups
<1>2. CASE ~(\E i \in Inputs[m] : v[i] = "init")
  <2> DEFINE w == [skip |-> \E i \in Inputs[m] : v[i] = "skip", latest |-> TRUE]
  <2>1. w \in Wakeup /\ w.latest = TRUE
    BY DEF Wakeup
  <2>2. Wakeups(m, v) = <<w>>
    BY <1>2 DEF Wakeups
  <2> HIDE DEF w
  <2> QED
    BY <1>2, <2>1, <2>2
<1> QED
  BY <1>1, <1>2

-----------------------------------------------------------------------------
(* Types *)

\* Only nodes with inputs are ever woken.
OnlyPipelines == \A n \in Source : queue[n] = <<>> /\ jobs[n] = <<>>

Typed == TypeOK /\ OnlyPipelines

LEMMA NothingType ==
    /\ Nothing \in [Node -> Seq(Wakeup)] /\ Nothing \in [Node -> Seq(Job)]
    /\ \A n \in Node : Nothing[n] = <<>>
BY EmptySeq DEF Nothing

\* An emission of n changes nothing about nodes that do not read n.
LEMMA EmitType ==
    ASSUME Typed, NEW n \in Node, NEW v \in Value, NEW latest,
           NEW q \in [Node -> Seq(Wakeup)], NEW j \in [Node -> Seq(Job)],
           Emit(n, v, latest, q, j),
           \A m \in Source : q[m] = <<>> /\ j[m] = <<>>
    PROVE  /\ value' \in [Node -> Value]
           /\ queue' \in [Node -> Seq(Wakeup)] /\ jobs' \in [Node -> Seq(Job)]
           /\ fresh' \subseteq Node
           /\ OnlyPipelines'
           /\ \A m \in Node : jobs'[m] = <<>> <=> j[m] = <<>>
<1>1. value' = [value EXCEPT ![n] = v] /\ fresh' \subseteq fresh \cup {n}
  BY DEF Emit
<1>2. ASSUME NEW m \in Node
      PROVE  /\ queue'[m] \in Seq(Wakeup) /\ jobs'[m] \in Seq(Job)
             /\ n \notin Inputs[m] => queue'[m] = q[m] /\ jobs'[m] = j[m]
             /\ jobs'[m] = <<>> <=> j[m] = <<>>
  <2>1. q[m] \in Seq(Wakeup) /\ j[m] \in Seq(Job)
    OBVIOUS
  <2>2. CASE n \notin Inputs[m]
    BY <2>1, <2>2 DEF Emit
  <2>3. CASE n \in Inputs[m]
    <3>1. jobs'[m] = Outdated(j[m])
      BY <2>3 DEF Emit
    <3>2. queue'[m] = Outdated(q[m]) \o (IF m \in subscribed THEN Wakeups(m, value') ELSE <<>>)
      BY <2>3 DEF Emit
    <3>3. (IF m \in subscribed THEN Wakeups(m, value') ELSE <<>>) \in Seq(Wakeup)
      BY WakeupsFacts, EmptySeq
    <3>4. queue'[m] \in Seq(Wakeup)
      BY <2>1, <3>2, <3>3, OutdatedWakeups, ConcatProperties
    <3> QED
      BY <2>1, <2>3, <3>1, <3>4, OutdatedJobs
  <2> QED
    BY <2>2, <2>3
<1>3. DOMAIN queue' = Node /\ DOMAIN jobs' = Node
  BY DEF Emit
<1>4. queue' = [m \in Node |-> queue'[m]] /\ jobs' = [m \in Node |-> jobs'[m]]
  BY DEF Emit
<1>5. OnlyPipelines'
  BY <1>2 DEF OnlyPipelines, Source
<1> QED
  BY <1>1, <1>2, <1>4, <1>5 DEF Typed, TypeOK

\* Taking the head of a queue that is not empty.
LEMMA TailType ==
    ASSUME Typed, NEW m \in Node, queue[m] # <<>>
    PROVE  /\ Head(queue[m]) \in Wakeup
           /\ [queue EXCEPT ![m] = Tail(@)] \in [Node -> Seq(Wakeup)]
           /\ m \in Pipeline
<1>1. queue[m] \in Seq(Wakeup)
  BY DEF Typed, TypeOK
<1>2. Head(queue[m]) \in Wakeup /\ Tail(queue[m]) \in Seq(Wakeup)
  BY <1>1, HeadTailProperties
<1> QED
  BY <1>2 DEF Typed, TypeOK, OnlyPipelines, Pipeline

LEMMA JobType ==
    ASSUME Typed, NEW m \in Node, NEW k \in DOMAIN jobs[m]
    PROVE  /\ jobs[m][k] \in Job
           /\ [jobs EXCEPT ![m] = RemoveAt(@, k)] \in [Node -> Seq(Job)]
           /\ jobs[m] # <<>>
           /\ m \in Pipeline
<1>1. jobs[m] \in Seq(Job)
  BY DEF Typed, TypeOK
<1>2. RemoveAt(jobs[m], k) \in Seq(Job)
  BY <1>1, RemoveAtFacts
<1>3. jobs[m][k] \in Job /\ jobs[m] # <<>>
  BY <1>1, LenProperties, ElementOfSeq, EmptySeq
<1> QED
  BY <1>2, <1>3 DEF Typed, TypeOK, OnlyPipelines, Pipeline

Opened(n, a) ==
    \/ n \in Source /\ open' = open \cup {n} /\ active' = a \cup {n}
    \/ n \in MayThrow /\ open' = open \ {n} /\ active' = a
    \/ n \in Pipeline /\ open' = open /\ active' = a

\* What subscribing n does to the types, to the open sources and to the active set.
LEMMA OpenNodeType ==
    ASSUME Typed, NEW n \in Node, NEW a \in SUBSET Node,
           NEW q \in [Node -> Seq(Wakeup)], NEW j \in [Node -> Seq(Job)],
           OpenNode(n, a, q, j),
           \A m \in Source : q[m] = <<>> /\ j[m] = <<>>
    PROVE  /\ value' \in [Node -> Value]
           /\ queue' \in [Node -> Seq(Wakeup)] /\ jobs' \in [Node -> Seq(Job)]
           /\ fresh' \subseteq Node /\ subscribed' \subseteq Node /\ open' \subseteq Source
           /\ OnlyPipelines'
           /\ \A m \in Node : jobs'[m] = <<>> <=> j[m] = <<>>
           /\ Opened(n, a)
<1> USE DEF Opened
<1>1. CASE n \in Source /\ OpenSource(n, a, q, j)
  <2>1. CASE /\ open' = open \cup {n} /\ subscribed' = subscribed \cup {n}
             /\ active' = a \cup {n} /\ queue' = q /\ jobs' = j
             /\ fresh' = fresh /\ UNCHANGED value
    BY <1>1, <2>1 DEF Typed, TypeOK, OnlyPipelines
  <2>2. CASE /\ n \in MayThrow /\ open' = open \ {n} /\ subscribed' = subscribed \ {n}
             /\ active' = a /\ Emit(n, "null", TRUE, q, j)
    <3>1. "null" \in Value
      BY DEF Value
    <3>2. /\ value' \in [Node -> Value]
          /\ queue' \in [Node -> Seq(Wakeup)] /\ jobs' \in [Node -> Seq(Job)]
          /\ fresh' \subseteq Node /\ OnlyPipelines'
          /\ \A m \in Node : jobs'[m] = <<>> <=> j[m] = <<>>
      BY <2>2, <3>1, EmitType
    <3> QED
      BY <1>1, <2>2, <3>2 DEF Typed, TypeOK
  <2> QED
    BY <1>1, <2>1, <2>2 DEF OpenSource
<1>2. CASE n \in Pipeline /\ OpenPipeline(n, a, q, j)
  <2>1. Wakeups(n, value) \in Seq(Wakeup)
    BY WakeupsFacts
  <2> QED
    BY <1>2, <2>1 DEF OpenPipeline, Typed, TypeOK, OnlyPipelines, Pipeline
<1> QED
  BY <1>1, <1>2 DEF OpenNode

\* The active set: who is active computes, is a source that has not ended, or is one
\* that the loop of start() has still to subscribe; a source that throws when it is
\* subscribed may have been left over by a pause.
ActiveInv ==
    /\ active \ Source \subseteq Working
    /\ open \subseteq active
    /\ state = "running" => active \cap Source \subseteq open \cup Range(todo) \cup MayThrow

LEMMA TypedInit == Init => Typed /\ ActiveInv
<1> SUFFICES ASSUME Init PROVE Typed /\ ActiveInv
  OBVIOUS
<1>1. <<>> \in Seq(Node)
  BY EmptySeq
<1>2. value \in [Node -> Value]
  BY DEF Init, Value
<1>3. TypeOK
  BY <1>1, <1>2, NothingType DEF Init, TypeOK
<1>4. OnlyPipelines
  BY NothingType DEF Init, OnlyPipelines, Source
<1> QED
  BY <1>3, <1>4 DEF Init, Typed, ActiveInv

\* The steps of the loop, of sources and of updates, which leave `todo` shorter or alone.
LEMMA SubscribeStepTyped == Typed /\ ActiveInv /\ SubscribeStep => Typed' /\ ActiveInv'
<1> SUFFICES ASSUME Typed, ActiveInv, SubscribeStep PROVE Typed' /\ ActiveInv'
  OBVIOUS
<1>1. todo \in Seq(Node) /\ todo # <<>>
  BY DEF SubscribeStep, Typed, TypeOK
<1>2. Head(todo) \in Node /\ Tail(todo) \in Seq(Node)
  BY <1>1, HeadTailProperties
<1>. PICK n \in Node : n = Head(todo)
  BY <1>2
<1>a. todo' = Tail(todo) /\ UNCHANGED <<state, pending, outcome>>
  BY DEF SubscribeStep
<1>3. Range(todo) \subseteq {n} \cup Range(todo')
  BY <1>1, <1>a, TailRange
<1>4. active \in SUBSET Node /\ queue \in [Node -> Seq(Wakeup)] /\ jobs \in [Node -> Seq(Job)]
      /\ \A m \in Source : queue[m] = <<>> /\ jobs[m] = <<>>
  BY DEF Typed, TypeOK, OnlyPipelines
<1>5. OpenNode(n, active, queue, jobs)
  BY DEF SubscribeStep
<1>6. /\ value' \in [Node -> Value]
      /\ queue' \in [Node -> Seq(Wakeup)] /\ jobs' \in [Node -> Seq(Job)]
      /\ fresh' \subseteq Node /\ subscribed' \subseteq Node /\ open' \subseteq Source
      /\ OnlyPipelines'
      /\ \A m \in Node : jobs'[m] = <<>> <=> jobs[m] = <<>>
      /\ Opened(n, active)
  BY <1>4, <1>5, OpenNodeType
<1>7. Typed'
  BY <1>2, <1>6, <1>a DEF Typed, TypeOK, Source, Opened
<1>8. Working' = Working
  BY <1>6 DEF Working
<1>9. open' \subseteq active' /\ active' \ Source \subseteq active \ Source
  BY <1>6, DataflowAssumption DEF ActiveInv, Source, Pipeline, Opened
<1>10. state' = "running" => active' \cap Source \subseteq open' \cup Range(todo') \cup MayThrow
  BY <1>3, <1>6, <1>a DEF ActiveInv, Source, Pipeline, Opened
<1> QED
  BY <1>7, <1>8, <1>9, <1>10 DEF ActiveInv

\* Closing every subscription leaves nobody active but sources.
LEMMA ClosedTyped ==
    ASSUME Typed, ActiveInv, CloseAll,
           state' # "running", state' \in {"initialized", "running", "paused", "destroyed"},
           active' \subseteq active \ Working, pending' \subseteq Node,
           outcome' \in {"none", "waiting", "stabilized", "skipped", "timeout"},
           value' \in [Node -> Value], fresh' \subseteq Node, todo' = todo
    PROVE  Typed' /\ ActiveInv'
<1>1. OnlyPipelines'
  BY NothingType DEF CloseAll, OnlyPipelines, Source
<1>2. TypeOK'
  BY NothingType DEF CloseAll, Typed, TypeOK
<1>3. active' \ Source = {} /\ open' = {}
  BY DEF ActiveInv, CloseAll
<1> QED
  BY <1>1, <1>2, <1>3 DEF Typed, ActiveInv

\* An emission after which the active set has lost at most the node itself, if it was
\* neither open nor has more to compute.
LEMMA EmittedTyped ==
    ASSUME Typed, ActiveInv, NEW n \in Node, NEW v \in Value,
           NEW latest,
           NEW q \in [Node -> Seq(Wakeup)], NEW j \in [Node -> Seq(Job)],
           Emit(n, v, latest, q, j),
           \A m \in Source : q[m] = <<>> /\ j[m] = <<>>,
           \A m \in Node \ {n} : j[m] = <<>> => jobs[m] = <<>>,
           \/ active' = active /\ open' = open /\ j = jobs
           \/ active' = active \ {n} /\ open' = open \ {n},
           pending' \subseteq Node,
           outcome' \in {"none", "waiting", "stabilized", "skipped", "timeout"},
           UNCHANGED <<state, todo, subscribed>>
    PROVE  Typed' /\ ActiveInv'
<1>2. /\ value' \in [Node -> Value]
      /\ queue' \in [Node -> Seq(Wakeup)] /\ jobs' \in [Node -> Seq(Job)]
      /\ fresh' \subseteq Node
      /\ OnlyPipelines'
      /\ \A m \in Node : jobs'[m] = <<>> <=> j[m] = <<>>
  <2>1. /\ n \in Node /\ v \in Value
        /\ q \in [Node -> Seq(Wakeup)] /\ j \in [Node -> Seq(Job)]
        /\ \A m \in Source : q[m] = <<>> /\ j[m] = <<>>
    OBVIOUS
  <2>2. Emit(n, v, latest, q, j)
    OBVIOUS
  <2> QED
    BY ONLY Typed, <2>1, <2>2, EmitType
<1>3. Typed'
  BY <1>2 DEF Typed, TypeOK
<1>4. active' \ Source \subseteq Working'
  <2> SUFFICES ASSUME NEW m \in active', m \notin Source PROVE m \in Working'
    OBVIOUS
  <2>1. m \in Node /\ jobs[m] # <<>>
    BY DEF ActiveInv, Working
  <2>2. j[m] # <<>>
    BY <2>1
  <2> QED
    BY <1>2, <2>1, <2>2 DEF Working
<1>5. open' \subseteq active'
  BY DEF ActiveInv
<1>6. state' = "running" => active' \cap Source \subseteq open' \cup Range(todo') \cup MayThrow
  BY DEF ActiveInv
<1> QED
  BY <1>3, <1>4, <1>5, <1>6 DEF ActiveInv

\* A step that leaves the values, what is computed and the active set alone, and begins no
\* loop or one over all nodes.
LEMMA IdleTyped ==
    ASSUME Typed, ActiveInv,
           state' \in {"initialized", "running", "paused", "destroyed"}, todo' \in Seq(Node),
           UNCHANGED flow, active' = active, pending' \subseteq Node,
           outcome' \in {"none", "waiting", "stabilized", "skipped", "timeout"},
           \/ state' = state /\ todo' = todo
           \/ Range(todo') = Node
    PROVE  Typed' /\ ActiveInv'
<1>1. Typed'
  BY DEF Typed, TypeOK, OnlyPipelines, flow
<1>2. Working' = Working /\ open' = open
  BY DEF Working, flow
<1> QED
  BY <1>1, <1>2 DEF ActiveInv, Typed, TypeOK

LEMMA SourceStepTyped ==
    ASSUME Typed, ActiveInv, NEW n \in Node,
           SourceEnds(n) \/ \E v \in Value : SourceEmits(n, v)
    PROVE  Typed' /\ ActiveInv'
<1>1. /\ queue \in [Node -> Seq(Wakeup)] /\ jobs \in [Node -> Seq(Job)]
      /\ \A m \in Source : queue[m] = <<>> /\ jobs[m] = <<>>
      /\ value \in [Node -> Value]
  BY DEF Typed, TypeOK, OnlyPipelines
<1>2. "null" \in Value
  BY DEF Value
<1>3. ASSUME NEW v \in Value, SourceEmits(n, v) PROVE Typed' /\ ActiveInv'
  <2>1. Emit(n, v, TRUE, queue, jobs)
    BY <1>3 DEF SourceEmits
  <2>2. UNCHANGED <<state, todo, subscribed, open, active, pending, outcome>>
    BY <1>3 DEF SourceEmits, hooks
  <2> QED
    BY <1>1, <2>1, <2>2, EmittedTyped DEF Typed, TypeOK
<1>4. CASE SourceCompletes(n)
  <2>1. /\ open' = open \ {n} /\ active' = active \ {n}
        /\ UNCHANGED <<state, todo, value, subscribed, queue, jobs, fresh>>
        /\ n \in Source
    BY <1>4 DEF SourceCompletes, Release, Typed, TypeOK
  <2>2. pending' \subseteq Node /\ outcome' \in {"none", "waiting", "stabilized", "skipped", "timeout"}
    BY <1>4 DEF SourceCompletes, Release, Announce, Typed, TypeOK
  <2>3. Typed'
    BY <2>1, <2>2 DEF Typed, TypeOK, OnlyPipelines, Source
  <2>4. Working' = Working
    BY <2>1 DEF Working
  <2> QED
    BY <2>1, <2>3, <2>4 DEF ActiveInv
<1>5. CASE SourceFails(n)
  <2>1. Emit(n, "null", TRUE, queue, jobs)
    BY <1>5 DEF SourceFails
  <2>2. /\ active' = active \ {n} /\ open' = open \ {n}
        /\ UNCHANGED <<state, todo, subscribed>>
    BY <1>5 DEF SourceFails, Release
  <2>3. pending' \subseteq Node /\ outcome' \in {"none", "waiting", "stabilized", "skipped", "timeout"}
    BY <1>5 DEF SourceFails, Release, Announce, Typed, TypeOK
  <2> QED
    BY <1>1, <1>2, <2>1, <2>2, <2>3, EmittedTyped
<1>6. CASE SourceSkips(n)
  <2>1. pending' \subseteq Node /\ outcome' \in {"none", "waiting", "stabilized", "skipped", "timeout"}
    <3>1. \E left : Release(left, pending \cup {n})
      BY <1>6 DEF SourceSkips
    <3> QED
      BY <3>1 DEF Release, Announce, Typed, TypeOK
  <2>2. todo' = todo /\ n \in Source
    BY <1>6 DEF SourceSkips, Typed, TypeOK
  <2>3. CASE AsyncMode
    <3>1. /\ state' = "paused" /\ CloseAll
          /\ value' = [value EXCEPT ![n] = "null"]
          /\ fresh' = (fresh \ Readers(n)) \cup {n}
          /\ active' = (active \ Working) \ {n}
      BY <1>6, <2>3 DEF SourceSkips, Release
    <3>2. value' \in [Node -> Value] /\ fresh' \subseteq Node
      BY <1>1, <1>2, <3>1 DEF Typed, TypeOK
    <3> QED
      BY <2>1, <2>2, <3>1, <3>2, ClosedTyped
  <2>4. CASE ~AsyncMode
    <3>1. Emit(n, "null", TRUE, queue, jobs)
      BY <1>6, <2>4 DEF SourceSkips
    <3>2. active' = active \ {n} /\ open' = open \ {n} /\ UNCHANGED <<state, subscribed>>
      BY <1>6, <2>4 DEF SourceSkips, Release
    <3> QED
      BY <1>1, <1>2, <2>1, <2>2, <3>1, <3>2, EmittedTyped
  <2> QED
    BY <2>3, <2>4
<1> QED
  BY <1>3, <1>4, <1>5, <1>6 DEF SourceEnds

\* A skip in ASYNC mode closes everything, whoever raised it.
LEMMA PauseOnSkipTyped ==
    ASSUME Typed, ActiveInv, NEW m \in Node, PauseOnSkip(m), UNCHANGED <<value, fresh, todo>>
    PROVE  Typed' /\ ActiveInv'
<1>1. /\ state' = "paused" /\ CloseAll /\ active' = active \ Working
      /\ pending' \subseteq Node
      /\ outcome' \in {"none", "waiting", "stabilized", "skipped", "timeout"}
  BY DEF PauseOnSkip, Announce, Typed, TypeOK
<1>2. value' \in [Node -> Value] /\ fresh' \subseteq Node
  BY DEF Typed, TypeOK
<1> QED
  BY <1>1, <1>2, ClosedTyped

LEMMA ComputeTyped ==
    ASSUME Typed, ActiveInv, NEW m \in Node, Compute(m)
    PROVE  Typed' /\ ActiveInv'
<1>1. /\ queue[m] # <<>> /\ UNCHANGED todo
      /\ \/ ComputeSkips(m) \/ ComputeThrows(m)
         \/ \E v \in Value : ComputeNow(m, v)
         \/ ComputeLater(m)
  BY DEF Compute
<1> DEFINE q == [queue EXCEPT ![m] = Tail(@)]
<1>2. /\ Head(queue[m]) \in Wakeup
      /\ q \in [Node -> Seq(Wakeup)]
      /\ m \in Pipeline /\ m \notin Source /\ m \notin open
  BY <1>1, TailType DEF Typed, TypeOK, Pipeline
<1>3. /\ jobs \in [Node -> Seq(Job)]
      /\ \A n \in Source : q[n] = <<>> /\ jobs[n] = <<>>
  BY <1>2 DEF Typed, TypeOK, OnlyPipelines
<1> HIDE DEF q
<1>4. "null" \in Value
  BY DEF Value
<1>5. CASE ComputeSkips(m)
  <2>1. CASE AsyncMode
    BY <1>1, <1>5, <2>1, PauseOnSkipTyped DEF ComputeSkips
  <2>2. CASE ~AsyncMode
    <3>1. Emit(m, "null", Head(queue[m]).latest, q, jobs)
      BY <1>5, <2>2 DEF ComputeSkips, q
    <3>2. UNCHANGED <<state, todo, subscribed, open, active>>
      BY <1>1, <1>5, <2>2 DEF ComputeSkips, Skipped
    <3>3. /\ pending' \subseteq Node
          /\ outcome' \in {"none", "waiting", "stabilized", "skipped", "timeout"}
      BY <1>5, <2>2 DEF ComputeSkips, Skipped, Announce, Typed, TypeOK
    <3> QED
      BY <1>2, <1>3, <1>4, <3>1, <3>2, <3>3, EmittedTyped
  <2> QED
    BY <2>1, <2>2
<1>6. CASE ComputeThrows(m)
  <2>1. Emit(m, "null", Head(queue[m]).latest, q, jobs)
    BY <1>6 DEF ComputeThrows, q
  <2>2. UNCHANGED <<state, todo, subscribed, open, active, pending, outcome>>
    BY <1>1, <1>6 DEF ComputeThrows, hooks
  <2>3. /\ pending' \subseteq Node
        /\ outcome' \in {"none", "waiting", "stabilized", "skipped", "timeout"}
    BY <2>2 DEF Typed, TypeOK
  <2> QED
    BY <1>2, <1>3, <1>4, <2>1, <2>2, <2>3, EmittedTyped
<1>7. ASSUME NEW v \in Value, ComputeNow(m, v) PROVE Typed' /\ ActiveInv'
  <2>1. Emit(m, v, Head(queue[m]).latest, q, jobs)
    BY <1>7 DEF ComputeNow, q
  <2>2. /\ active' = active \ {m} /\ open' = open \ {m}
        /\ UNCHANGED <<state, todo, subscribed>>
    BY <1>1, <1>2, <1>7 DEF ComputeNow, Release
  <2>3. /\ pending' \subseteq Node
        /\ outcome' \in {"none", "waiting", "stabilized", "skipped", "timeout"}
    BY <1>7 DEF ComputeNow, Release, Announce, Typed, TypeOK
  <2> QED
    BY <1>2, <1>3, <2>1, <2>2, <2>3, EmittedTyped
<1>8. CASE ComputeLater(m)
  <2>1. [latest |-> Head(queue[m]).latest] \in Job
    BY <1>2 DEF Wakeup, Job
  <2>2. PICK job \in Job : job = [latest |-> Head(queue[m]).latest]
    BY <2>1
  <2>3. /\ queue' = q /\ jobs' = [jobs EXCEPT ![m] = Append(@, job)]
        /\ active' = active \cup {m}
        /\ UNCHANGED <<state, todo, value, subscribed, open, fresh, pending, outcome>>
    BY <1>1, <1>8, <2>2 DEF ComputeLater, q
  <2>4. jobs[m] \in Seq(Job)
    BY <1>3
  <2>5. Append(jobs[m], job) \in Seq(Job) /\ Append(jobs[m], job) # <<>>
    BY <2>4, AppendProperties, EmptySeq
  <2>6. jobs' \in [Node -> Seq(Job)]
    BY <1>3, <2>3, <2>5
  <2>7. Typed'
    BY <1>2, <1>3, <2>3, <2>6 DEF Typed, TypeOK, OnlyPipelines, Source
  <2>8. Working \cup {m} \subseteq Working'
    BY <1>3, <2>3, <2>5 DEF Working
  <2> QED
    BY <1>2, <2>3, <2>7, <2>8 DEF ActiveInv
<1> QED
  BY <1>1, <1>5, <1>6, <1>7, <1>8

LEMMA JobTyped ==
    ASSUME Typed, ActiveInv, NEW m \in Node, JobStep(m)
    PROVE  Typed' /\ ActiveInv'
<1>1. PICK k \in DOMAIN jobs[m] : JobSkips(m, k) \/ \E v \in Value : JobEnds(m, k, v)
  BY DEF JobStep
<1> DEFINE j == [jobs EXCEPT ![m] = RemoveAt(@, k)]
<1>2. /\ j \in [Node -> Seq(Job)]
      /\ m \in Pipeline /\ m \notin open
      /\ \A n \in Node \ {m} : j[n] = jobs[n]
  BY JobType DEF Typed, TypeOK, Pipeline
<1>3. /\ queue \in [Node -> Seq(Wakeup)]
      /\ \A n \in Source : queue[n] = <<>> /\ j[n] = <<>>
  BY <1>2 DEF Typed, TypeOK, OnlyPipelines, Pipeline, Source
<1> HIDE DEF j
<1>4. "null" \in Value
  BY DEF Value
<1>5. ASSUME NEW v \in Value, Emit(m, v, jobs[m][k].latest, queue, j),
             active' = active \ {m}, UNCHANGED <<state, todo, subscribed, open>>,
             pending' \subseteq Node,
             outcome' \in {"none", "waiting", "stabilized", "skipped", "timeout"}
      PROVE  Typed' /\ ActiveInv'
  <2>. PICK latest : latest = jobs[m][k].latest
    OBVIOUS
  <2>1. open' = open \ {m}
    BY <1>2, <1>5
  <2>2. Emit(m, v, latest, queue, j)
    BY <1>5
  <2>3. \A n \in Node \ {m} : j[n] = <<>> => jobs[n] = <<>>
    BY <1>2
  <2> QED
    BY <1>2, <1>3, <1>5, <2>1, <2>2, <2>3, EmittedTyped
<1>6. CASE JobSkips(m, k)
  <2>1. CASE AsyncMode
    BY <1>6, <2>1, PauseOnSkipTyped DEF JobSkips
  <2>2. CASE ~AsyncMode
    <3>1. Emit(m, "null", jobs[m][k].latest, queue, j)
      BY <1>6, <2>2 DEF JobSkips, j
    <3>2. active' = active \ {m} /\ UNCHANGED <<state, todo, subscribed, open>>
      BY <1>6, <2>2 DEF JobSkips, Release
    <3>3. /\ pending' \subseteq Node
          /\ outcome' \in {"none", "waiting", "stabilized", "skipped", "timeout"}
      BY <1>6, <2>2 DEF JobSkips, Release, Announce, Typed, TypeOK
    <3> QED
      BY <1>4, <1>5, <3>1, <3>2, <3>3
  <2> QED
    BY <2>1, <2>2
<1>7. ASSUME NEW v \in Value, JobEnds(m, k, v) PROVE Typed' /\ ActiveInv'
  <2>1. Emit(m, v, jobs[m][k].latest, queue, j)
    BY <1>7 DEF JobEnds, j
  <2>2. active' = active \ {m} /\ UNCHANGED <<state, todo, subscribed, open>>
    BY <1>7 DEF JobEnds, Release
  <2>3. /\ pending' \subseteq Node
        /\ outcome' \in {"none", "waiting", "stabilized", "skipped", "timeout"}
    BY <1>7 DEF JobEnds, Release, Announce, Typed, TypeOK
  <2> QED
    BY <1>5, <2>1, <2>2, <2>3
<1> QED
  BY <1>1, <1>6, <1>7

LEMMA UpdateTyped ==
    ASSUME Typed, ActiveInv, NEW n \in Node, UpdateNode(n)
    PROVE  Typed' /\ ActiveInv'
<1>1. UNCHANGED <<state, todo>>
  BY DEF UpdateNode
<1>2. /\ pending' \subseteq Node
      /\ outcome' \in {"none", "waiting", "stabilized", "skipped", "timeout"}
  BY DEF UpdateNode, Announce, Typed, TypeOK
<1>. PICK a \in SUBSET Node : a = active \ {n}
  BY DEF Typed, TypeOK
<1>. PICK q \in [Node -> Seq(Wakeup)] : q = [queue EXCEPT ![n] = <<>>]
  BY EmptySeq DEF Typed, TypeOK
<1>. PICK j \in [Node -> Seq(Job)] : j = [jobs EXCEPT ![n] = <<>>]
  BY EmptySeq DEF Typed, TypeOK
<1>3. /\ a = active \ {n}
      /\ \A m \in Source : q[m] = <<>> /\ j[m] = <<>>
      /\ \A m \in Node \ {n} : j[m] = jobs[m]
  BY DEF Typed, TypeOK, OnlyPipelines, Source
<1>4. /\ value' \in [Node -> Value]
      /\ queue' \in [Node -> Seq(Wakeup)] /\ jobs' \in [Node -> Seq(Job)]
      /\ fresh' \subseteq Node /\ subscribed' \subseteq Node /\ open' \subseteq Source
      /\ OnlyPipelines'
      /\ \A m \in Node : jobs'[m] = <<>> <=> j[m] = <<>>
      /\ Opened(n, a)
  <2>1. OpenNode(n, a, q, j)
    BY DEF UpdateNode
  <2>2. /\ n \in Node /\ a \in SUBSET Node
        /\ q \in [Node -> Seq(Wakeup)] /\ j \in [Node -> Seq(Job)]
    OBVIOUS
  <2>3. \A m \in Source : q[m] = <<>> /\ j[m] = <<>>
    BY <1>3
  <2> QED
    BY ONLY Typed, <2>1, <2>2, <2>3, OpenNodeType
<1>5. Typed'
  BY <1>1, <1>2, <1>3, <1>4 DEF Typed, TypeOK, Opened, Source
<1>6. active' \ Source \subseteq Working'
  <2> SUFFICES ASSUME NEW m \in active', m \notin Source PROVE m \in Working'
    OBVIOUS
  <2>1. m \in active /\ m # n
    BY <1>3, <1>4, DataflowAssumption DEF Opened
  <2> QED
    BY <1>3, <1>4, <2>1 DEF ActiveInv, Working, Typed, TypeOK
<1>7. open' \subseteq active'
  BY <1>3, <1>4, DataflowAssumption DEF Opened, ActiveInv, Typed, TypeOK, Pipeline
<1>8. state' = "running" => active' \cap Source \subseteq open' \cup Range(todo') \cup MayThrow
  BY <1>1, <1>3, <1>4 DEF Opened, ActiveInv
<1> QED
  BY <1>5, <1>6, <1>7, <1>8 DEF ActiveInv

LEMMA TypedStep == Typed /\ ActiveInv /\ [Next]_vars => Typed' /\ ActiveInv'
<1> SUFFICES ASSUME Typed, ActiveInv, [Next]_vars PROVE Typed' /\ ActiveInv'
  OBVIOUS
<1> DEFINE Outcomes == {"none", "waiting", "stabilized", "skipped", "timeout"}
<1>1. todo \in Seq(Node) /\ pending \subseteq Node /\ outcome \in Outcomes
      /\ state \in {"initialized", "running", "paused", "destroyed"}
      /\ value \in [Node -> Value] /\ fresh \subseteq Node
  BY DEF Typed, TypeOK
<1>2. CASE SubscribeStep
  BY <1>2, SubscribeStepTyped
<1>3. ASSUME NEW n \in Node, SourceEnds(n) \/ \E v \in Value : SourceEmits(n, v)
      PROVE  Typed' /\ ActiveInv'
  BY <1>3, SourceStepTyped
<1>4. ASSUME NEW m \in Node, Compute(m) \/ JobStep(m) PROVE Typed' /\ ActiveInv'
  BY <1>4, ComputeTyped, JobTyped
<1>5. ASSUME NEW n \in Node, UpdateNode(n) PROVE Typed' /\ ActiveInv'
  BY <1>5, UpdateTyped
<1>6. CASE Start
  BY <1>1, <1>6, IdleTyped, DataflowAssumption DEF Start, flow, hooks
<1>7. CASE Pause
  <2>1. /\ pending' \subseteq Node /\ outcome' \in Outcomes /\ active' = active \ Working
    BY <1>1, <1>7 DEF Pause, Finalize, Release, Announce
  <2> QED
    BY <1>1, <1>7, <2>1, ClosedTyped DEF Pause
<1>8. CASE Stop
  <2>1. outcome' \in Outcomes
    BY <1>1, <1>8 DEF Stop, Announce
  <2> QED
    BY <1>1, <1>8, <2>1, ClosedTyped DEF Stop
<1>9. CASE Wait \/ StabilityCheck \/ Timeout
  BY <1>1, <1>9, IdleTyped DEF Wait, StabilityCheck, Timeout
<1>10. CASE UNCHANGED vars
  BY <1>1, <1>10, IdleTyped DEF vars, hooks
<1> QED
  BY <1>2, <1>3, <1>4, <1>5, <1>6, <1>7, <1>8, <1>9, <1>10 DEF Next

\* The types, and who is active.
LEMMA TypedAlways == Spec => [](Typed /\ ActiveInv)
BY TypedInit, TypedStep, PTL DEF Spec

\* Values, queues and hooks keep their types, through pauses and updates too.
THEOREM TypeCorrect == Spec => []TypeOK
BY TypedAlways, PTL DEF Typed

-----------------------------------------------------------------------------
(* A deferred hook has somebody to emit it *)

\* A hook waits only for an active set that is not empty.  cleanupNode breaks this: it
\* takes the node that is updated from the set without a look at the hooks.
HookInv == pending # {} => active # {}

LEMMA ReleaseHooks == ASSUME NEW left, NEW hooked, Release(left, hooked) PROVE HookInv'
BY DEF Release, HookInv

LEMMA PauseOnSkipHooks == ASSUME HookInv, NEW m, PauseOnSkip(m) PROVE HookInv'
<1>1. CASE active \ Working # {}
  BY <1>1 DEF PauseOnSkip, HookInv
<1>2. CASE active \ Working = {} /\ Working # {}
  BY <1>2 DEF PauseOnSkip, HookInv
<1>3. CASE active \ Working = {} /\ Working = {}
  BY <1>3 DEF PauseOnSkip, HookInv
<1> QED
  BY <1>1, <1>2, <1>3

LEMMA HookStep ==
    ASSUME HookInv, [Next]_vars
    PROVE  HookInv' \/ \E n \in Node : UpdateNode(n)
<1>1. ASSUME UNCHANGED <<active, pending>> PROVE HookInv'
  BY <1>1 DEF HookInv
<1>2. CASE SubscribeStep
  <2>1. pending' = pending /\ active \subseteq active'
    BY <1>2 DEF SubscribeStep, OpenNode, OpenSource, OpenPipeline
  <2> QED
    BY <2>1 DEF HookInv
<1>3. ASSUME NEW n \in Node, NEW v \in Value, SourceEmits(n, v) PROVE HookInv'
  BY <1>1, <1>3 DEF SourceEmits, hooks
<1>4. ASSUME NEW n \in Node, SourceEnds(n) PROVE HookInv'
  <2>1. \E left, hooked : Release(left, hooked)
    BY <1>4 DEF SourceEnds, SourceCompletes, SourceFails, SourceSkips
  <2> QED
    BY <2>1, ReleaseHooks
<1>5. ASSUME NEW m \in Node, Compute(m) PROVE HookInv'
  <2>1. CASE ComputeSkips(m)
    <3>1. CASE AsyncMode
      BY <2>1, <3>1, PauseOnSkipHooks DEF ComputeSkips
    <3>2. CASE ~AsyncMode
      BY <2>1, <3>2 DEF ComputeSkips, Skipped, HookInv
    <3> QED
      BY <3>1, <3>2
  <2>2. CASE ComputeThrows(m)
    BY <1>1, <2>2 DEF ComputeThrows, hooks
  <2>3. ASSUME NEW v \in Value, ComputeNow(m, v) PROVE HookInv'
    BY <2>3, ReleaseHooks DEF ComputeNow
  <2>4. CASE ComputeLater(m)
    BY <2>4 DEF ComputeLater, HookInv
  <2> QED
    BY <1>5, <2>1, <2>2, <2>3, <2>4 DEF Compute
<1>6. ASSUME NEW m \in Node, JobStep(m) PROVE HookInv'
  <2>1. PICK k \in DOMAIN jobs[m] : JobSkips(m, k) \/ \E v \in Value : JobEnds(m, k, v)
    BY <1>6 DEF JobStep
  <2>2. PauseOnSkip(m) \/ \E left, hooked : Release(left, hooked)
    BY <2>1 DEF JobSkips, JobEnds
  <2> QED
    BY <2>2, ReleaseHooks, PauseOnSkipHooks
<1>7. CASE Pause
  BY <1>1, <1>7, ReleaseHooks DEF Pause, Finalize
<1>8. CASE Stop
  BY <1>8 DEF Stop, HookInv
<1>9. CASE Start \/ Wait \/ StabilityCheck \/ Timeout
  BY <1>1, <1>9 DEF Start, Wait, StabilityCheck, Timeout, hooks
<1>10. CASE UNCHANGED vars
  BY <1>1, <1>10 DEF vars, hooks
<1> QED
  BY <1>2, <1>3, <1>4, <1>5, <1>6, <1>7, <1>8, <1>9, <1>10 DEF Next

\* A deferred hook loses its last active node by an update alone, in every graph and with
\* any plugins.
THEOREM OnlyUpdatesStrandHooks == Spec => OnlyUpdatesStrand
<1>1. HookInv /\ [Next]_vars => HookInv' \/ \E n \in Node : UpdateNode(n)
  BY HookStep
<1>2. [Next]_vars => [(pending # {} => active # {}) =>
          (pending' # {} => active' # {}) \/ \E n \in Node : UpdateNode(n)]_vars
  BY <1>1 DEF HookInv
<1> QED
  BY <1>2, PTL DEF Spec, OnlyUpdatesStrand

\* Whoever a hook waits for in a running engine will leave the active set, which emits it,
\* unless it is a source that was active before a pause and threw when start() subscribed
\* it again: nothing takes that one from the active set.
WakerOrThrower ==
    pending # {} /\ state = "running" /\ todo = <<>> =>
        active \cap (open \cup Working \cup MayThrow) # {}

\* As long as nobody updates nodes, a deferred hook has a waker, or a source that threw
\* while it was being subscribed.
THEOREM WakerFound ==
    ASSUME ~Updates
    PROVE  Spec => []WakerOrThrower
<1>1. Init => HookInv
  BY DEF Init, HookInv
<1>2. HookInv /\ [Next]_vars => HookInv'
  BY HookStep DEF UpdateNode
<1>3. Typed /\ ActiveInv /\ HookInv => WakerOrThrower
  <2> SUFFICES ASSUME Typed, ActiveInv, HookInv,
                      pending # {}, state = "running", todo = <<>>
               PROVE  active \cap (open \cup Working \cup MayThrow) # {}
    BY DEF WakerOrThrower
  <2>1. PICK n : n \in active
    BY DEF HookInv
  <2>2. Range(todo) = {}
    BY EmptySeq DEF Range
  <2> QED
    BY <2>1, <2>2 DEF ActiveInv
<1> QED
  BY <1>1, <1>2, <1>3, TypedAlways, PTL DEF Spec

\* With sources that do not throw when they are subscribed, every deferred hook has a node
\* that is still computing and whose end emits it.
THEOREM HooksWake ==
    ASSUME ~Updates, MayThrow = {}
    PROVE  Spec => []HookHasWaker
<1>1. WakerOrThrower => HookHasWaker
  BY DEF WakerOrThrower, HookHasWaker
<1> QED
  BY <1>1, WakerFound, PTL

-----------------------------------------------------------------------------
(* Quiet means consistent *)

\* A plugin that answers at once has nothing in flight.  What waits in a queue ends with the
\* latest inputs, which all have a value.
QueueInv ==
    /\ \A m \in Node \ Slow : jobs[m] = <<>>
    /\ \A m \in Node : queue[m] # <<>> =>
           /\ m \in subscribed
           /\ queue[m][Len(queue[m])].latest = TRUE
           /\ \A i \in Inputs[m] : value[i] # "init"

\* What OnlyOldAnswersHide says of a step.
FollowStep ==
    \A m \in Pipeline \cap subscribed' :
        Follows(m) \/ m \notin subscribed => Follows(m)' \/ OldAnswer(m)

\* So who answers at once follows its inputs as long as it is subscribed.
FollowInv == \A m \in (Pipeline \cap subscribed) \ Slow : Follows(m)

\* A running engine has subscribed every pipeline, or the loop has still to come to it.
LoopInv == state = "running" => Pipeline \subseteq subscribed \cup Range(todo)

LEMMA ClosedFollows == CloseAll => QueueInv' /\ FollowStep
BY NothingType DEF CloseAll, QueueInv, FollowStep

LEMMA SameFollows ==
    ASSUME QueueInv, UNCHANGED flow
    PROVE  QueueInv' /\ FollowStep
<1>1. QueueInv'
  BY DEF QueueInv, flow
<1>2. FollowStep
  BY DEF FollowStep, Follows, flow
<1> QED
  BY <1>1, <1>2

\* What n emits a value for: its own Observable, the inputs that waited first, or an answer.
Taken(n, latest, q, j) ==
    \/ q[n] = queue[n] /\ j = jobs /\ latest = TRUE
    \/ /\ queue[n] # <<>> /\ q[n] = Tail(queue[n]) /\ j = jobs
       /\ latest = Head(queue[n]).latest
    \/ q[n] = queue[n] /\ j # jobs /\ n \in Slow

LEMMA EmitFollows ==
    ASSUME Typed, QueueInv, NEW n \in Node, NEW v \in Value, v # "init", NEW latest,
           NEW q \in [Node -> Seq(Wakeup)], NEW j \in [Node -> Seq(Job)],
           Emit(n, v, latest, q, j),
           \A m \in Node \ {n} : q[m] = queue[m] /\ j[m] = jobs[m],
           Taken(n, latest, q, j),
           subscribed' = subscribed \/ (n \in Source /\ subscribed' = subscribed \ {n})
    PROVE  /\ QueueInv'
           /\ \A m \in Pipeline \cap subscribed' :
                  Follows(m) => Follows(m)' \/ (m = n /\ j # jobs /\ latest # TRUE)
<1>1. /\ value' = [value EXCEPT ![n] = v]
      /\ fresh' = (fresh \ (Readers(n) \cup {n})) \cup {k \in {n} : latest}
      /\ \A m \in Node :
             /\ queue'[m] = IF n \notin Inputs[m] THEN q[m]
                            ELSE Outdated(q[m]) \o (IF m \in subscribed THEN Wakeups(m, value') ELSE <<>>)
             /\ n \notin Inputs[m] => jobs'[m] = j[m]
  BY DEF Emit
<1>2. \A m \in Node : queue[m] \in Seq(Wakeup) /\ q[m] \in Seq(Wakeup)
  BY DEF Typed, TypeOK
<1>3. \A m \in Source : queue[m] = <<>> /\ jobs[m] = <<>> /\ q[m] = <<>> /\ j[m] = <<>>
  BY DataflowAssumption DEF Typed, OnlyPipelines, Source, Pipeline, Taken
<1>4. \A m \in Node \ Slow : jobs'[m] = <<>>
  <2>1. jobs \in [Node -> Seq(Job)] /\ \A m \in Source : q[m] = <<>> /\ j[m] = <<>>
    BY <1>3 DEF Typed, TypeOK
  <2>2. /\ Emit(n, v, latest, q, j) /\ n \in Node /\ v \in Value
        /\ q \in [Node -> Seq(Wakeup)] /\ j \in [Node -> Seq(Job)]
    OBVIOUS
  <2>3. \A m \in Node : jobs'[m] = <<>> <=> j[m] = <<>>
    BY ONLY Typed, <2>1, <2>2, EmitType
  <2>4. \A m \in Node \ Slow : j[m] = jobs[m]
    BY DEF Taken
  <2> QED
    BY <2>3, <2>4 DEF QueueInv
<1>5. \A i \in Node : value'[i] = "init" <=> i # n /\ value[i] = "init"
  BY <1>1 DEF Typed, TypeOK
<1>6. ASSUME NEW m \in Node, n \in Inputs[m]
      PROVE  /\ queue'[m] # <<>> =>
                    /\ m \in subscribed'
                    /\ queue'[m][Len(queue'[m])].latest = TRUE
                    /\ \A i \in Inputs[m] : value'[i] # "init"
             /\ m \in subscribed' /\ queue'[m] = <<>> =>
                    \E i \in Inputs[m] : value'[i] = "init"
  <2>1. m \notin Source /\ Inputs[m] \subseteq Node /\ (m \in subscribed' <=> m \in subscribed)
    BY <1>6, DataflowAssumption DEF Source
  <2>. PICK w : w = Outdated(q[m])
    OBVIOUS
  <2>2. w \in Seq(Wakeup) /\ (q[m] = <<>> => w = <<>>)
    BY <1>2, OutdatedWakeups
  <2>3. queue'[m] = w \o (IF m \in subscribed THEN Wakeups(m, value') ELSE <<>>)
    BY <1>1, <1>6
  <2>4. queue[m] = <<>> => w = <<>>
    BY <2>2 DEF Taken
  <2>5. CASE m \notin subscribed
    <3>1. w = <<>>
      BY <2>4, <2>5 DEF QueueInv
    <3>2. queue'[m] = <<>>
      BY <2>3, <2>5, <3>1, EmptySeq
    <3> QED
      BY <2>1, <2>5, <3>2
  <2>6. CASE m \in subscribed /\ \E i \in Inputs[m] : value'[i] = "init"
    <3>1. queue[m] = <<>>
      BY <1>5, <2>1, <2>6 DEF QueueInv
    <3>2. Wakeups(m, value') = <<>>
      BY <2>6, WakeupsFacts
    <3>3. queue'[m] = <<>>
      BY <2>3, <2>4, <2>6, <3>1, <3>2, EmptySeq
    <3> QED
      BY <2>6, <3>3
  <2>7. CASE m \in subscribed /\ ~\E i \in Inputs[m] : value'[i] = "init"
    <3>. PICK x \in Seq(Wakeup) : x = Wakeups(m, value')
      BY WakeupsFacts
    <3>1. Len(x) = 1 /\ x[1].latest = TRUE
      BY <2>7, WakeupsFacts
    <3>2. queue'[m] = w \o x
      BY <2>3, <2>7
    <3>3. queue'[m] # <<>> /\ queue'[m][Len(queue'[m])].latest = TRUE
      BY <2>2, <3>1, <3>2, LastOfConcat
    <3> QED
      BY <2>1, <2>7, <3>3
  <2> QED
    BY <2>5, <2>6, <2>7
<1>7. ASSUME NEW m \in Node, n \notin Inputs[m], m # n
      PROVE  /\ queue'[m] # <<>> =>
                    /\ m \in subscribed'
                    /\ queue'[m][Len(queue'[m])].latest = TRUE
                    /\ \A i \in Inputs[m] : value'[i] # "init"
             /\ Follows(m) => Follows(m)'
  <2>1. /\ queue'[m] = queue[m] /\ jobs'[m] = jobs[m]
        /\ m \in Source \/ (m \in subscribed' <=> m \in subscribed)
    BY <1>1, <1>7
  <2>2. \A i \in Inputs[m] : value'[i] = "init" <=> value[i] = "init"
    BY <1>5, <1>7, DataflowAssumption
  <2>3. m \in fresh' <=> m \in fresh
    BY <1>1, <1>7 DEF Readers
  <2>4. Follows(m) => Follows(m)'
    BY <2>1, <2>2, <2>3 DEF Follows
  <2> QED
    BY <1>3, <1>7, <2>1, <2>2, <2>4 DEF QueueInv
<1>8. ASSUME n \notin Inputs[n]
      PROVE  /\ queue'[n] # <<>> =>
                    /\ n \in subscribed'
                    /\ queue'[n][Len(queue'[n])].latest = TRUE
                    /\ \A i \in Inputs[n] : value'[i] # "init"
             /\ queue'[n] # <<>> \/ n \in fresh' \/ (j # jobs /\ latest # TRUE)
  <2>1. queue'[n] = q[n] /\ \A i \in Inputs[n] : value'[i] = "init" <=> value[i] = "init"
    BY <1>1, <1>5, <1>8, DataflowAssumption
  <2>2. queue[n] # <<>> => n \notin Source
    BY <1>3
  <2>3. latest = TRUE => n \in fresh'
    BY <1>1
  <2>4. CASE q[n] = queue[n]
    BY <2>1, <2>2, <2>3, <2>4 DEF QueueInv, Taken
  <2>5. CASE queue[n] # <<>> /\ q[n] = Tail(queue[n]) /\ latest = Head(queue[n]).latest
    <3>1. /\ n \in subscribed' /\ \A i \in Inputs[n] : value[i] # "init"
          /\ queue[n][Len(queue[n])].latest = TRUE
      BY <2>2, <2>5 DEF QueueInv
    <3>2. /\ q[n] = <<>> => latest = TRUE
          /\ q[n] # <<>> => q[n][Len(q[n])] = queue[n][Len(queue[n])]
      BY <1>2, <2>5, <3>1, LastOfTail
    <3> QED
      BY <2>1, <2>3, <3>1, <3>2
  <2> QED
    BY <2>4, <2>5 DEF Taken
<1>9. QueueInv'
  BY <1>4, <1>6, <1>7, <1>8 DEF QueueInv
<1>10. ASSUME NEW m \in Pipeline \cap subscribed', Follows(m)
       PROVE  Follows(m)' \/ (m = n /\ j # jobs /\ latest # TRUE)
  BY <1>6, <1>7, <1>8, <1>10 DEF Follows, Pipeline
<1> QED
  BY <1>9, <1>10

\* What n is subscribed to: an input without a value, or its inputs, which wait for it.
LEMMA OpenFollows ==
    ASSUME Typed, QueueInv, NEW n \in Node, NEW a,
           NEW q \in [Node -> Seq(Wakeup)], NEW j \in [Node -> Seq(Job)],
           \A m \in Node \ {n} : q[m] = queue[m] /\ j[m] = jobs[m],
           n \in Source => q[n] = queue[n] /\ j[n] = jobs[n],
           n \notin Slow => j[n] = <<>>,
           OpenNode(n, a, q, j)
    PROVE  QueueInv' /\ FollowStep
<1>1. CASE n \in Source /\ OpenSource(n, a, q, j)
  <2>. q = queue /\ j = jobs
    <3>1. queue \in [Node -> Seq(Wakeup)] /\ jobs \in [Node -> Seq(Job)]
      BY DEF Typed, TypeOK
    <3> QED
      BY <1>1, <3>1
  <2>1. CASE subscribed' = subscribed \cup {n} /\ queue' = q /\ jobs' = j /\ fresh' = fresh
             /\ UNCHANGED value
    <3>1. QueueInv'
      BY <2>1 DEF QueueInv
    <3>2. \A m \in Pipeline : m \in subscribed' => m \in subscribed
      BY <1>1, <2>1 DEF Pipeline
    <3>3. FollowStep
      BY <2>1, <3>2 DEF FollowStep, Follows
    <3> QED
      BY <3>1, <3>3
  <2>2. CASE subscribed' = subscribed \ {n} /\ Emit(n, "null", TRUE, q, j)
    <3>1. "null" \in Value /\ "null" # "init"
      BY DEF Value
    <3>2. Taken(n, TRUE, q, j)
      BY DEF Taken
    <3>3. /\ QueueInv'
          /\ \A m \in Pipeline \cap subscribed' :
                 Follows(m) => Follows(m)' \/ (m = n /\ j # jobs /\ TRUE # TRUE)
      BY <1>1, <2>2, <3>1, <3>2, EmitFollows
    <3> QED
      BY <2>2, <3>3 DEF FollowStep
  <2> QED
    BY <1>1, <2>1, <2>2 DEF OpenSource
<1>2. CASE n \in Pipeline /\ OpenPipeline(n, a, q, j)
  <2>. PICK w \in Seq(Wakeup) : w = Wakeups(n, value)
    BY WakeupsFacts
  <2>1. /\ (\E i \in Inputs[n] : value[i] = "init") => w = <<>>
        /\ ~(\E i \in Inputs[n] : value[i] = "init") => Len(w) = 1 /\ w[1].latest = TRUE
    BY WakeupsFacts
  <2>2. /\ subscribed' = subscribed \cup {n} /\ queue' = [q EXCEPT ![n] = w] /\ jobs' = j
        /\ value' = value /\ fresh' = fresh \ {n}
    BY <1>2 DEF OpenPipeline
  <2>3. w = <<>> => \E i \in Inputs[n] : value[i] = "init"
    BY <2>1, EmptySeq
  <2>4. w # <<>> => w[Len(w)].latest = TRUE /\ \A i \in Inputs[n] : value[i] # "init"
    BY <2>1
  <2>5. /\ queue'[n] = w /\ \A m \in Node \ {n} : queue'[m] = queue[m] /\ jobs'[m] = jobs[m]
        /\ n \in subscribed'
    BY <2>2
  <2>6. QueueInv'
    BY <2>2, <2>4, <2>5 DEF QueueInv
  <2>7. Follows(n)'
    BY <2>2, <2>3, <2>5 DEF Follows
  <2>8. ASSUME NEW m \in Node \ {n} PROVE Follows(m) => Follows(m)'
    BY <2>2, <2>5 DEF Follows
  <2>9. FollowStep
    BY <2>2, <2>7, <2>8 DEF FollowStep, Pipeline
  <2> QED
    BY <2>6, <2>9
<1> QED
  BY <1>1, <1>2 DEF OpenNode

\* A computation that is begun has the latest inputs, unless newer ones wait.
LEMMA ComputeLaterFollows ==
    ASSUME Typed, QueueInv, NEW m \in Node, queue[m] # <<>>, ComputeLater(m)
    PROVE  QueueInv' /\ FollowStep
<1>1. /\ m \in Slow
      /\ queue' = [queue EXCEPT ![m] = Tail(@)]
      /\ jobs' = [jobs EXCEPT ![m] = Append(@, [latest |-> Head(queue[m]).latest])]
      /\ UNCHANGED <<value, subscribed, fresh>>
  BY DEF ComputeLater
<1>. PICK s \in Seq(Wakeup) : s = queue[m]
  BY DEF Typed, TypeOK
<1>. PICK r \in Seq(Job) : r = jobs[m]
  BY DEF Typed, TypeOK
<1>2. Head(s) \in Wakeup /\ Tail(s) \in Seq(Wakeup)
  BY HeadTailProperties
<1>. PICK x \in Job : x = [latest |-> Head(s).latest]
  BY <1>2 DEF Wakeup, Job
<1>3. /\ queue'[m] = Tail(s) /\ jobs'[m] = Append(r, x)
      /\ \A k \in Node \ {m} : queue'[k] = queue[k] /\ jobs'[k] = jobs[k]
  BY <1>1 DEF Typed, TypeOK
<1>4. /\ m \in subscribed /\ s[Len(s)].latest = TRUE
      /\ \A i \in Inputs[m] : value[i] # "init"
  BY DEF QueueInv
<1>5. /\ Tail(s) = <<>> => Head(s).latest = TRUE
      /\ Tail(s) # <<>> => Tail(s)[Len(Tail(s))] = s[Len(s)]
  BY <1>4, LastOfTail
<1>6. QueueInv'
  BY <1>1, <1>3, <1>4, <1>5 DEF QueueInv
<1>7. Follows(m)'
  <2>1. CASE Tail(s) # <<>>
    BY <1>3, <2>1 DEF Follows
  <2>2. CASE Tail(s) = <<>>
    <3>1. x.latest = TRUE
      BY <1>5, <2>2
    <3>2. Len(r) + 1 \in DOMAIN Append(r, x) /\ Append(r, x)[Len(r) + 1] = x
      BY AppendProperties
    <3> QED
      BY <1>3, <3>1, <3>2 DEF Follows
  <2> QED
    BY <2>1, <2>2
<1>8. ASSUME NEW k \in Node \ {m} PROVE Follows(k) => Follows(k)'
  BY <1>1, <1>3 DEF Follows
<1>9. FollowStep
  BY <1>1, <1>7, <1>8 DEF FollowStep, Pipeline
<1> QED
  BY <1>6, <1>9

LEMMA SourceFollows ==
    ASSUME Typed, QueueInv, NEW n \in Node, SourceEnds(n) \/ \E v \in Value : SourceEmits(n, v)
    PROVE  QueueInv' /\ FollowStep
<1>1. queue \in [Node -> Seq(Wakeup)] /\ jobs \in [Node -> Seq(Job)]
  BY DEF Typed, TypeOK
<1>2. "null" \in Value /\ "null" # "init"
  BY DEF Value
<1>3. ASSUME NEW v \in Value, v # "init", Emit(n, v, TRUE, queue, jobs), subscribed' = subscribed
      PROVE  QueueInv' /\ FollowStep
  <2>1. Taken(n, TRUE, queue, jobs)
    BY DEF Taken
  <2>2. /\ QueueInv'
        /\ \A m \in Pipeline \cap subscribed' :
               Follows(m) => Follows(m)' \/ (m = n /\ jobs # jobs /\ TRUE # TRUE)
    BY <1>1, <1>3, <2>1, EmitFollows
  <2> QED
    BY <1>3, <2>2 DEF FollowStep
<1>4. ASSUME NEW v \in Value, SourceEmits(n, v) PROVE QueueInv' /\ FollowStep
  BY <1>3, <1>4 DEF SourceEmits
<1>5. CASE SourceCompletes(n)
  <2>1. QueueInv'
    BY <1>5 DEF SourceCompletes, QueueInv
  <2>2. FollowStep
    BY <1>5 DEF SourceCompletes, FollowStep, Follows
  <2> QED
    BY <2>1, <2>2
<1>6. CASE SourceFails(n) \/ (SourceSkips(n) /\ ~AsyncMode)
  BY <1>2, <1>3, <1>6 DEF SourceFails, SourceSkips
<1>7. CASE SourceSkips(n) /\ AsyncMode
  BY <1>7, ClosedFollows DEF SourceSkips
<1> QED
  BY <1>4, <1>5, <1>6, <1>7 DEF SourceEnds

LEMMA ComputeFollows ==
    ASSUME Typed, QueueInv, NEW m \in Node, Compute(m)
    PROVE  QueueInv' /\ FollowStep
<1>1. "null" \in Value /\ "null" # "init"
  BY DEF Value
<1>2. queue \in [Node -> Seq(Wakeup)] /\ jobs \in [Node -> Seq(Job)] /\ queue[m] # <<>>
  BY DEF Typed, TypeOK, Compute
<1>. PICK q \in [Node -> Seq(Wakeup)] : q = [queue EXCEPT ![m] = Tail(@)]
  BY <1>2, TailType
<1>3. /\ q[m] = Tail(queue[m])
      /\ \A k \in Node \ {m} : q[k] = queue[k] /\ jobs[k] = jobs[k]
  BY <1>2
<1>4. ASSUME NEW v \in Value, v # "init", Emit(m, v, Head(queue[m]).latest, q, jobs),
             subscribed' = subscribed
      PROVE  QueueInv' /\ FollowStep
  <2>. PICK latest : latest = Head(queue[m]).latest
    OBVIOUS
  <2>1. Taken(m, latest, q, jobs) /\ Emit(m, v, latest, q, jobs)
    BY <1>2, <1>3, <1>4 DEF Taken
  <2>2. /\ QueueInv'
        /\ \A k \in Pipeline \cap subscribed' :
               Follows(k) => Follows(k)' \/ (k = m /\ jobs # jobs /\ latest # TRUE)
    BY <1>2, <1>3, <1>4, <2>1, EmitFollows
  <2> QED
    BY <1>4, <2>2 DEF FollowStep
<1>5. CASE AsyncMode /\ ComputeSkips(m)
  BY <1>5, ClosedFollows DEF ComputeSkips, PauseOnSkip
<1>6. CASE ~AsyncMode /\ ComputeSkips(m)
  BY <1>1, <1>4, <1>6 DEF ComputeSkips
<1>7. CASE ComputeThrows(m)
  BY <1>1, <1>4, <1>7 DEF ComputeThrows
<1>8. ASSUME NEW v \in Value, ComputeNow(m, v) PROVE QueueInv' /\ FollowStep
  BY <1>4, <1>8 DEF ComputeNow
<1>9. CASE ComputeLater(m)
  BY <1>2, <1>9, ComputeLaterFollows
<1> QED
  BY <1>5, <1>6, <1>7, <1>8, <1>9 DEF Compute

\* An answer to the latest inputs is what the node is to show; another one may hide it.
LEMMA JobFollows ==
    ASSUME Typed, QueueInv, NEW m \in Node, JobStep(m)
    PROVE  QueueInv' /\ FollowStep
<1>1. PICK k \in DOMAIN jobs[m] : JobSkips(m, k) \/ \E v \in Value : JobEnds(m, k, v)
  BY DEF JobStep
<1>2. queue \in [Node -> Seq(Wakeup)] /\ jobs \in [Node -> Seq(Job)] /\ jobs[m][k] \in Job
  BY JobType DEF Typed, TypeOK
<1>3. m \in Slow
  BY JobType DEF QueueInv
<1>. PICK j \in [Node -> Seq(Job)] : j = [jobs EXCEPT ![m] = RemoveAt(@, k)]
  BY JobType
<1>4. j # jobs /\ \A i \in Node \ {m} : queue[i] = queue[i] /\ j[i] = jobs[i]
  <2>1. j[m] = RemoveAt(jobs[m], k) /\ jobs[m] \in Seq(Job) /\ Len(jobs[m]) \in Nat
    BY <1>2
  <2>2. Len(j[m]) = Len(jobs[m]) - 1
    BY <2>1, RemoveAtFacts
  <2> QED
    BY <1>2, <2>1, <2>2
<1>5. CASE AsyncMode /\ JobSkips(m, k)
  BY <1>5, ClosedFollows DEF JobSkips, PauseOnSkip
<1>6. ASSUME NEW v \in Value, v # "init", Emit(m, v, jobs[m][k].latest, queue, j),
             subscribed' = subscribed
      PROVE  QueueInv' /\ FollowStep
  <2>. PICK latest \in BOOLEAN : latest = jobs[m][k].latest
    BY <1>2 DEF Job
  <2>1. Taken(m, latest, queue, j) /\ Emit(m, v, latest, queue, j)
    BY <1>3, <1>4, <1>6 DEF Taken
  <2>2. /\ QueueInv'
        /\ \A i \in Pipeline \cap subscribed' :
               Follows(i) => Follows(i)' \/ (i = m /\ j # jobs /\ latest # TRUE)
    BY <1>2, <1>4, <1>6, <2>1, EmitFollows
  <2>3. latest # TRUE => OldAnswer(m)
    BY <1>1 DEF OldAnswer
  <2> QED
    BY <1>6, <2>2, <2>3 DEF FollowStep
<1>7. CASE ~AsyncMode /\ JobSkips(m, k)
  <2>1. "null" \in Value /\ "null" # "init"
    BY DEF Value
  <2> QED
    BY <1>6, <1>7, <2>1 DEF JobSkips
<1>8. ASSUME NEW v \in Value, JobEnds(m, k, v) PROVE QueueInv' /\ FollowStep
  BY <1>6, <1>8 DEF JobEnds
<1> QED
  BY <1>1, <1>5, <1>7, <1>8

LEMMA UpdateFollows ==
    ASSUME Typed, QueueInv, NEW n \in Node, UpdateNode(n)
    PROVE  QueueInv' /\ FollowStep
<1>1. queue \in [Node -> Seq(Wakeup)] /\ jobs \in [Node -> Seq(Job)]
  BY DEF Typed, TypeOK
<1>. PICK q \in [Node -> Seq(Wakeup)] : q = [queue EXCEPT ![n] = <<>>]
  BY <1>1, EmptySeq
<1>. PICK j \in [Node -> Seq(Job)] : j = [jobs EXCEPT ![n] = <<>>]
  BY <1>1, EmptySeq
<1>2. /\ \A m \in Node \ {n} : q[m] = queue[m] /\ j[m] = jobs[m]
      /\ n \in Source => q[n] = queue[n] /\ j[n] = jobs[n]
      /\ j[n] = <<>>
  BY <1>1 DEF Typed, OnlyPipelines
<1>. PICK a : a = active \ {n}
  OBVIOUS
<1>3. OpenNode(n, a, q, j)
  BY DEF UpdateNode
<1> QED
  BY ONLY Typed, QueueInv, n \in Node, q \in [Node -> Seq(Wakeup)], j \in [Node -> Seq(Job)],
          <1>2, <1>3, OpenFollows

LEMMA FollowsStep ==
    ASSUME Typed, QueueInv, [Next]_vars
    PROVE  QueueInv' /\ FollowStep
<1>1. CASE SubscribeStep
  <2>1. queue \in [Node -> Seq(Wakeup)] /\ jobs \in [Node -> Seq(Job)] /\ todo \in Seq(Node)
    BY DEF Typed, TypeOK
  <2>. PICK n \in Node : n = Head(todo)
    BY <1>1, <2>1, HeadTailProperties DEF SubscribeStep
  <2>2. OpenNode(n, active, queue, jobs)
    BY <1>1 DEF SubscribeStep
  <2>3. /\ \A m \in Node \ {n} : queue[m] = queue[m] /\ jobs[m] = jobs[m]
        /\ n \notin Slow => jobs[n] = <<>>
    BY DEF QueueInv
  <2> QED
    BY <2>1, <2>2, <2>3, OpenFollows
<1>2. CASE Pause \/ Stop
  BY <1>2, ClosedFollows DEF Pause, Stop
<1>3. CASE Start \/ Wait \/ StabilityCheck \/ Timeout \/ UNCHANGED vars
  BY <1>3, SameFollows DEF Start, Wait, StabilityCheck, Timeout, vars
<1> QED
  BY <1>1, <1>2, <1>3, SourceFollows, ComputeFollows, JobFollows, UpdateFollows DEF Next

\* Nothing unsubscribes a pipeline but what also ends the run.
LEMMA LoopStep ==
    ASSUME Typed, LoopInv, [Next]_vars
    PROVE  LoopInv'
<1>1. ASSUME NEW n, NEW a, NEW q, NEW j, OpenNode(n, a, q, j)
      PROVE  Pipeline \cap (subscribed \cup {n}) \subseteq subscribed'
  BY <1>1 DEF OpenNode, OpenSource, OpenPipeline, Pipeline
<1>2. ASSUME UNCHANGED <<state, todo, subscribed>> PROVE LoopInv'
  BY <1>2 DEF LoopInv
<1>3. ASSUME state' # "running" PROVE LoopInv'
  BY <1>3 DEF LoopInv
<1>4. CASE SubscribeStep
  <2>1. Range(todo) = {Head(todo)} \cup Range(todo')
    BY <1>4, TailRange DEF SubscribeStep, Typed, TypeOK
  <2>2. OpenNode(Head(todo), active, queue, jobs) /\ state' = state
    BY <1>4 DEF SubscribeStep
  <2> QED
    BY <1>1, <2>1, <2>2 DEF LoopInv
<1>5. ASSUME NEW n \in Node, NEW v \in Value, SourceEmits(n, v) PROVE LoopInv'
  BY <1>2, <1>5 DEF SourceEmits
<1>6. ASSUME NEW n \in Node, SourceEnds(n) PROVE LoopInv'
  BY <1>2, <1>3, <1>6 DEF SourceEnds, SourceCompletes, SourceFails, SourceSkips
<1>7. ASSUME NEW m \in Node, Compute(m) PROVE LoopInv'
  BY <1>2, <1>3, <1>7
     DEF Compute, ComputeSkips, ComputeThrows, ComputeNow, ComputeLater, PauseOnSkip
<1>8. ASSUME NEW m \in Node, JobStep(m) PROVE LoopInv'
  BY <1>2, <1>3, <1>8 DEF JobStep, JobSkips, JobEnds, PauseOnSkip
<1>9. ASSUME NEW n \in Node, UpdateNode(n) PROVE LoopInv'
  <2>1. OpenNode(n, active \ {n}, [queue EXCEPT ![n] = <<>>], [jobs EXCEPT ![n] = <<>>])
        /\ UNCHANGED <<state, todo>>
    BY <1>9 DEF UpdateNode
  <2> QED
    BY <1>1, <2>1 DEF LoopInv
<1>10. CASE Start
  BY <1>10, DataflowAssumption DEF Start, LoopInv, Pipeline
<1>11. CASE Pause \/ Stop
  BY <1>3, <1>11 DEF Pause, Stop
<1>12. CASE Wait \/ StabilityCheck \/ Timeout \/ UNCHANGED vars
  BY <1>2, <1>12 DEF Wait, StabilityCheck, Timeout, vars, flow
<1> QED
  BY <1>4, <1>5, <1>6, <1>7, <1>8, <1>9, <1>10, <1>11, <1>12 DEF Next

LEMMA QueueAlways == Spec => []QueueInv
<1>1. Init => QueueInv
  BY NothingType DEF Init, QueueInv
<1>2. Typed /\ QueueInv /\ [Next]_vars => QueueInv'
  BY FollowsStep
<1> QED
  BY <1>1, <1>2, TypedAlways, PTL DEF Spec

\* A pipeline follows its inputs from its subscription on, in every graph and through any
\* pauses, updates and emissions; only an answer to older inputs that comes after the one to
\* newer inputs makes it show an older result.
THEOREM OnlyOldAnswers == Spec => OnlyOldAnswersHide
<1>1. Typed /\ QueueInv /\ [Next]_vars => [FollowStep]_vars
  BY FollowsStep
<1> QED
  BY <1>1, TypedAlways, QueueAlways, PTL DEF Spec, OnlyOldAnswersHide, FollowStep

LEMMA FollowAlways == Spec => []FollowInv
<1>1. Init => FollowInv
  BY DEF Init, FollowInv
<1>2. Typed /\ QueueInv /\ FollowInv /\ [Next]_vars => FollowInv'
  <2> SUFFICES ASSUME Typed, QueueInv, FollowInv, [Next]_vars,
                      NEW m \in Pipeline \cap subscribed', m \notin Slow
               PROVE  Follows(m)'
    BY DEF FollowInv
  <2>1. jobs[m] = <<>>
    BY DEF QueueInv, Pipeline
  <2>2. ~OldAnswer(m)
    BY <2>1, EmptySeq DEF OldAnswer
  <2>3. FollowStep
    BY FollowsStep
  <2> QED
    BY <2>2, <2>3 DEF FollowStep, FollowInv
<1> QED
  BY <1>1, <1>2, TypedAlways, QueueAlways, PTL DEF Spec

LEMMA LoopAlways == Spec => []LoopInv
<1>1. Init => LoopInv
  BY DEF Init, LoopInv
<1>2. Typed /\ LoopInv /\ [Next]_vars => LoopInv'
  BY LoopStep
<1> QED
  BY <1>1, <1>2, TypedAlways, PTL DEF Spec

\* In a running engine where nothing waits, every node whose plugin answers at once shows what
\* follows from its inputs, in every graph, through any pauses and updates, and whatever the
\* slow plugins of other nodes do.
THEOREM QuietConsistent == Spec => []QuietMeansConsistent
<1>1. QueueInv /\ FollowInv /\ LoopInv => QuietMeansConsistent
  <2> SUFFICES ASSUME QueueInv, FollowInv, LoopInv, state = "running", todo = <<>>, queue = Nothing,
                      NEW m \in Pipeline \ Slow
               PROVE  m \in fresh \/ \E i \in Inputs[m] : value[i] = "init"
    BY DEF QuietMeansConsistent
  <2>1. Range(todo) = {}
    BY EmptySeq DEF Range
  <2>2. m \in subscribed /\ m \in Node
    BY <2>1 DEF LoopInv, Pipeline
  <2>3. queue[m] = <<>> /\ jobs[m] = <<>>
    BY <2>2, NothingType DEF QueueInv
  <2>4. DOMAIN jobs[m] = {}
    BY <2>3, EmptySeq
  <2> QED
    BY <2>2, <2>3, <2>4 DEF FollowInv, Follows
<1> QED
  BY <1>1, QueueAlways, FollowAlways, LoopAlways, PTL

-----------------------------------------------------------------------------
(* A stabilized graph has computed everything *)

\* Who is said to be stabilized has no source that could still emit, whatever the plugins
\* do.
StabilizedMeansSourcesDone == [][outcome' = "stabilized" => open = {}]_outcome

\* An open source is active, and so no graph is reported as stabilized.
LEMMA OnlyCheckStabilizes ==
    ASSUME [Next]_vars, outcome' # outcome, outcome' = "stabilized"
    PROVE  StabilityCheck
<1>1. ASSUME NEW emitted, Announce(emitted) PROVE FALSE
  BY <1>1 DEF Announce
<1>2. ASSUME NEW left, NEW hooked, Release(left, hooked) PROVE FALSE
  BY <1>1, <1>2 DEF Release
<1>3. CASE SubscribeStep
  BY <1>3 DEF SubscribeStep
<1>4. ASSUME NEW n \in Node, NEW v \in Value, SourceEmits(n, v) PROVE FALSE
  BY <1>4 DEF SourceEmits, hooks
<1>5. ASSUME NEW n \in Node, SourceEnds(n) PROVE FALSE
  BY <1>2, <1>5 DEF SourceEnds, SourceCompletes, SourceFails, SourceSkips
<1>6. ASSUME NEW m \in Node, Compute(m) PROVE FALSE
  BY <1>1, <1>2, <1>6
     DEF Compute, ComputeSkips, ComputeThrows, ComputeNow, ComputeLater, PauseOnSkip,
         Skipped, hooks
<1>7. ASSUME NEW m \in Node, JobStep(m) PROVE FALSE
  BY <1>1, <1>2, <1>7 DEF JobStep, JobSkips, JobEnds, PauseOnSkip
<1>8. ASSUME NEW n \in Node, UpdateNode(n) PROVE FALSE
  BY <1>1, <1>8 DEF UpdateNode
<1>9. CASE Start \/ Pause \/ Stop \/ Wait \/ Timeout \/ UNCHANGED vars
  BY <1>1, <1>2, <1>9 DEF Start, Pause, Stop, Wait, Timeout, Finalize, hooks, vars
<1> QED
  BY <1>3, <1>4, <1>5, <1>6, <1>7, <1>8, <1>9 DEF Next

\* execute() reports no stabilized graph while a source is open.
THEOREM SourcesDoneWhenStabilized == Spec => StabilizedMeansSourcesDone
<1>1. ActiveInv /\ [Next]_vars => [outcome' = "stabilized" => open = {}]_outcome
  <2> SUFFICES ASSUME ActiveInv, [Next]_vars, outcome' # outcome, outcome' = "stabilized"
               PROVE  open = {}
    OBVIOUS
  <2>1. active = {}
    BY OnlyCheckStabilizes DEF StabilityCheck, Stabilized
  <2> QED
    BY <2>1 DEF ActiveInv
<1> QED
  BY <1>1, TypedAlways, PTL DEF Spec, StabilizedMeansSourcesDone

\* With plugins that answer at once it reports none while anything is being computed.
THEOREM DoneWhenStabilized ==
    ASSUME Slow = {}
    PROVE  Spec => StabilizedMeansDone
<1>1. Typed /\ ActiveInv /\ QueueInv /\ [Next]_vars
        => [outcome' = "stabilized" => jobs = Nothing /\ open = {}]_outcome
  <2> SUFFICES ASSUME Typed, ActiveInv, QueueInv, [Next]_vars, outcome' # outcome, outcome' = "stabilized"
               PROVE  jobs = Nothing /\ open = {}
    OBVIOUS
  <2>1. active = {}
    BY OnlyCheckStabilizes DEF StabilityCheck, Stabilized
  <2> QED
    BY <2>1 DEF ActiveInv, QueueInv, Typed, TypeOK, Nothing
<1> QED
  BY <1>1, TypedAlways, QueueAlways, PTL DEF Spec, StabilizedMeansDone
=============================================================================
