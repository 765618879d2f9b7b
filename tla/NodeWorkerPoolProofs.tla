------------------------ MODULE NodeWorkerPoolProofs ------------------------
(***************************************************************************)
(* The worker pool, for any number of workers and tasks: its count of the *)
(* tasks, and that it keeps the contract of every pool.                   *)
(***************************************************************************)
EXTENDS NodeWorkerPool, SequenceFacts, SequenceTheorems, TLAPS

-----------------------------------------------------------------------------
(* Types *)

LEMMA SettleType ==
    ASSUME TypeOK, NEW tasks, NEW st \in {"pending", "resolved", "rejected"},
           Settle(tasks, st)
    PROVE  status' \in [Task -> {"new", "pending", "resolved", "rejected"}]
BY DEF Settle, TypeOK

LEMMA SurvivorsType ==
    ASSUME TypeOK, NEW w \in Worker
    PROVE  Survivors(w) \in Seq(Worker) /\ Len(Survivors(w)) <= MaxWorkers
<1>1. MaxWorkers \in Nat
  BY PoolAssumption DEF MaxWorkers
<1>2. CASE w \in Range(workers)
  <2> DEFINE k == CHOOSE k \in DOMAIN workers : workers[k] = w
  <2>1. k \in DOMAIN workers
    BY <1>2 DEF Range
  <2> HIDE DEF k
  <2>2. RemoveAt(workers, k) \in Seq(Worker) /\ Len(RemoveAt(workers, k)) = Len(workers) - 1
    BY <2>1, RemoveAtFacts DEF TypeOK
  <2>3. Len(workers) \in Nat /\ Len(workers) <= MaxWorkers
    BY DEF TypeOK
  <2>4. Survivors(w) = RemoveAt(workers, k)
    BY <1>2 DEF Survivors, k
  <2> QED
    BY <1>1, <2>2, <2>3, <2>4
<1>3. CASE w \notin Range(workers)
  BY <1>3 DEF Survivors, TypeOK
<1> QED
  BY <1>2, <1>3

LEMMA RecreateType ==
    ASSUME TypeOK, NEW rest \in Seq(Worker), Len(rest) <= MaxWorkers, Recreate(rest)
    PROVE  /\ workers' \in Seq(Worker) /\ Len(workers') <= MaxWorkers
           /\ load' \in Seq(SUBSET Task)
           /\ DOMAIN load' = DOMAIN workers'
           /\ \A i \in DOMAIN load' : load'[i] = {}
           /\ alive' \subseteq created' /\ created' \subseteq Worker
           /\ created \subseteq created' /\ alive' \cap created \subseteq alive
<1>1. MaxWorkers \in Nat /\ Len(rest) \in Nat
  BY PoolAssumption DEF MaxWorkers
<1>2. CASE /\ Len(rest) < MaxWorkers
           /\ \E v \in Worker \ created :
                /\ workers' = Append(rest, v)
                /\ load' = [i \in 1 .. (Len(rest) + 1) |-> {}]
                /\ created' = created \cup {v}
                /\ alive' = alive \cup {v}
  <2>1. PICK v \in Worker : /\ workers' = Append(rest, v)
                            /\ load' = [i \in 1 .. (Len(rest) + 1) |-> {}]
                            /\ created' = created \cup {v}
                            /\ alive' = alive \cup {v}
    BY <1>2
  <2>2. workers' \in Seq(Worker) /\ Len(workers') = Len(rest) + 1
    BY <2>1, AppendFacts
  <2>3. load' \in Seq(SUBSET Task) /\ DOMAIN load' = 1 .. (Len(rest) + 1)
    <3>1. load' \in [1 .. (Len(rest) + 1) -> SUBSET Task]
      BY <2>1
    <3> QED
      BY <1>1, <3>1, SeqDef
  <2> QED
    BY <1>1, <1>2, <2>1, <2>2, <2>3 DEF TypeOK
<1>3. CASE /\ workers' = rest
           /\ load' = [i \in 1 .. Len(rest) |-> {}]
           /\ UNCHANGED <<created, alive>>
  <2>1. load' \in [1 .. Len(rest) -> SUBSET Task]
    BY <1>3
  <2>2. load' \in Seq(SUBSET Task) /\ DOMAIN load' = 1 .. Len(rest)
    BY <1>1, <1>3, <2>1, SeqDef
  <2> QED
    BY <1>1, <1>3, <2>2 DEF TypeOK
<1> QED
  BY <1>2, <1>3 DEF Recreate

\* Sequences of sets that are changed index by index stay such sequences.
LEMMA MapType ==
    ASSUME NEW s \in Seq(SUBSET Task), NEW f, DOMAIN f = DOMAIN s,
           \A i \in DOMAIN s : f[i] \subseteq s[i], f = [i \in DOMAIN s |-> f[i]]
    PROVE  f \in Seq(SUBSET Task)
<1>1. f \in [1 .. Len(s) -> SUBSET Task]
  OBVIOUS
<1> QED
  BY <1>1, SeqDef

\* Threads that end leave the types as they are, and the inboxes of the others.
LEMMA EndType ==
    ASSUME TypeOK, NEW threads \in SUBSET alive, EndSilently(threads)
    PROVE  /\ TypeOK'
           /\ \A v \in Worker : inbox'[v] = IF v \in threads THEN <<>> ELSE inbox[v]
<1>1. \A v \in Worker : inbox'[v] = IF v \in threads THEN <<>> ELSE inbox[v]
  BY DEF EndSilently
<1>2. <<>> \in Seq(Task)
  OBVIOUS
<1>3. inbox' \in [Worker -> Seq(Task)]
  BY <1>2 DEF EndSilently, TypeOK
<1>4. alive' \subseteq created /\ ended' \subseteq created \ alive'
  BY DEF EndSilently, TypeOK
<1> QED
  BY <1>1, <1>3, <1>4 DEF EndSilently, TypeOK

\* A worker that exits, and those that waitForTermination ends, are threads that ran.
LEMMA EndingThreads ==
    ASSUME (\E w \in Worker : Exit(w)) \/ WaitForTermination
    PROVE  \E threads \in SUBSET alive : EndSilently(threads)
<1>1. ASSUME NEW w \in Worker, Exit(w)
      PROVE  \E threads \in SUBSET alive : EndSilently(threads)
  BY <1>1 DEF Exit
<1>2. CASE WaitForTermination
  BY <1>2 DEF WaitForTermination
<1> QED
  BY <1>1, <1>2

\* The variables of the pool keep their types, whatever the workers do.
THEOREM TypeCorrect == Spec => []TypeOK
<1>1. Init => TypeOK
  <2> SUFFICES ASSUME Init PROVE TypeOK
    OBVIOUS
  <2>1. MaxWorkers \in Nat /\ workers \in Seq(Worker) /\ Len(workers) = MaxWorkers
    BY PoolAssumption DEF Init, MaxWorkers
  <2>2. load \in [1 .. MaxWorkers -> SUBSET Task]
    BY DEF Init
  <2>3. load \in Seq(SUBSET Task)
    BY <2>1, <2>2, SeqDef
  <2>4. Range(workers) \subseteq Worker
    BY <2>1 DEF Range
  <2>5. inbox \in [Worker -> Seq(Task)] /\ outbox \in [Worker -> Seq(Event)]
    <3>1. \A S : <<>> \in Seq(S)
      OBVIOUS
    <3> QED
      BY <3>1 DEF Init
  <2>6. status \in [Task -> {"new", "pending", "resolved", "rejected"}]
    BY DEF Init
  <2>7. alive \subseteq created /\ created \subseteq Worker
    BY <2>4 DEF Init
  <2>8. Len(workers) <= MaxWorkers
    BY <2>1
  <2>9. terminated \in BOOLEAN /\ ended \subseteq created \ alive
    BY DEF Init
  <2> QED
    BY <2>1, <2>3, <2>5, <2>6, <2>7, <2>8, <2>9 DEF TypeOK
<1>2. TypeOK /\ [Next]_vars => TypeOK'
  <2> SUFFICES ASSUME TypeOK, [Next]_vars PROVE TypeOK'
    OBVIOUS
  <2>1. ASSUME NEW t \in Task, Execute(t) PROVE TypeOK'
    <3>1. status' \in [Task -> {"new", "pending", "resolved", "rejected"}]
      BY <2>1, SettleType DEF Execute
    <3>2. CASE UNCHANGED <<load, inbox>>
      BY <2>1, <3>1, <3>2 DEF Execute, TypeOK
    <3>3. ASSUME NEW i \in DOMAIN workers,
                 load' = [load EXCEPT ![i] = @ \cup {t}],
                 inbox' = [inbox EXCEPT ![workers[i]] = Append(@, t)]
          PROVE  TypeOK'
      <4>1. load' \in [1 .. Len(load) -> SUBSET Task]
        <5>1. load \in [1 .. Len(load) -> SUBSET Task]
          BY DEF TypeOK
        <5>2. \A j \in 1 .. Len(load) : load[j] \cup {t} \in SUBSET Task
          BY <5>1
        <5> QED
          BY <3>3, <5>1, <5>2
      <4>2. load' \in Seq(SUBSET Task)
        <5>1. Len(load) \in Nat
          BY DEF TypeOK
        <5> QED
          BY <4>1, <5>1, SeqDef
      <4>3. workers[i] \in Worker /\ inbox[workers[i]] \in Seq(Task)
        BY <3>3 DEF TypeOK
      <4>4. Append(inbox[workers[i]], t) \in Seq(Task)
        BY <4>3, AppendFacts
      <4>5. inbox' \in [Worker -> Seq(Task)]
        BY <3>3, <4>3, <4>4 DEF TypeOK
      <4> QED
        BY <2>1, <3>1, <4>2, <4>5 DEF Execute, TypeOK
    <3> QED
      BY <2>1, <3>2, <3>3 DEF Execute
  <2>2. ASSUME NEW t \in Task, Timeout(t) PROVE TypeOK'
    <3>1. load' \in Seq(SUBSET Task)
      BY <2>2, MapType DEF Timeout, WithoutTask, TypeOK
    <3> QED
      BY <2>2, <3>1, SettleType DEF Timeout, TypeOK, channels
  <2>3. ASSUME NEW w \in Worker, ReceiveAnswer(w) PROVE TypeOK'
    <3>1. outbox' \in [Worker -> Seq(Event)]
      BY <2>3, TailFacts DEF ReceiveAnswer, TypeOK
    <3>2. load' \in Seq(SUBSET Task)
      BY <2>3, MapType DEF ReceiveAnswer, TypeOK
    <3> QED
      BY <2>3, <3>1, <3>2, SettleType DEF ReceiveAnswer, Outcome, TypeOK
  <2>4. ASSUME NEW w \in Worker, ReceiveCrash(w) PROVE TypeOK'
    <3>1. outbox' \in [Worker -> Seq(Event)]
      BY <2>4, TailFacts DEF ReceiveCrash, TypeOK
    <3>2. Survivors(w) \in Seq(Worker) /\ Len(Survivors(w)) <= MaxWorkers
      BY SurvivorsType
    <3> QED
      BY <2>4, <3>1, <3>2, RecreateType, SettleType DEF ReceiveCrash, RejectOnCrash, TypeOK
  <2>5. CASE Terminate
    <3>1. MaxWorkers \in Nat
      BY PoolAssumption DEF MaxWorkers
    <3> QED
      BY <2>5, <3>1, SettleType DEF Terminate, TypeOK
  <2>6. ASSUME NEW w \in Worker, Answer(w) PROVE TypeOK'
    <3>1. PICK k \in DOMAIN inbox[w], type \in {"result", "error"} :
              /\ outbox' = [outbox EXCEPT ![w] =
                                Append(@, [type |-> type, task |-> inbox[w][k]])]
              /\ inbox' = [inbox EXCEPT ![w] = RemoveAt(@, k)]
      BY <2>6 DEF Answer
    <3>2. inbox[w] \in Seq(Task) /\ inbox[w][k] \in Task
      BY DEF TypeOK
    <3>3. [type |-> type, task |-> inbox[w][k]] \in Event
      BY <3>2 DEF Event
    <3>4. outbox' \in [Worker -> Seq(Event)]
      BY <3>1, <3>3, AppendFacts DEF TypeOK
    <3>5. inbox' \in [Worker -> Seq(Task)]
      BY <3>1, <3>2, RemoveAtFacts DEF TypeOK
    <3> QED
      BY <2>6, <3>4, <3>5 DEF Answer, TypeOK
  <2>7. ASSUME NEW w \in Worker, Crash(w) PROVE TypeOK'
    <3>1. [type |-> "crash"] \in Event
      BY DEF Event
    <3>2. outbox' \in [Worker -> Seq(Event)]
      BY <2>7, <3>1, AppendFacts DEF Crash, TypeOK
    <3> QED
      BY <2>7, <3>2 DEF Crash, TypeOK
  <2>8. CASE (\E w \in Worker : Exit(w)) \/ WaitForTermination
    BY <2>8, EndingThreads, EndType
  <2>9. CASE UNCHANGED vars
    BY <2>9 DEF vars, channels, TypeOK
  <2> QED
    BY <2>1, <2>2, <2>3, <2>4, <2>5, <2>6, <2>7, <2>8, <2>9 DEF Next, Receive
<1> QED
  BY <1>1, <1>2, PTL DEF Spec

-----------------------------------------------------------------------------
(* The count *)

\* Worker w has task t, or its answer to t has not been handled yet.
Posted(w, t) ==
    \/ \E k \in DOMAIN inbox[w] : inbox[w][k] = t
    \/ \E k \in DOMAIN outbox[w] :
           outbox[w][k].type \in {"result", "error"} /\ outbox[w][k].task = t

\* A posted task has been executed, and as long as it is pending it is counted for
\* the worker that has it: an answer is subtracted where the task was added.
PostedIsHeld ==
    \A w \in Worker, t \in Task :
        Posted(w, t) => status[t] # "new" /\ (t \in Pending => Holds(w, t))

CountInv == TypeOK /\ LoadIsPending /\ PostedIsHeld

\* Settling tasks takes them from the pending ones.
LEMMA SettlePending ==
    ASSUME NEW tasks, NEW st \in {"resolved", "rejected"}, Settle(tasks, st)
    PROVE  /\ Pending' = Pending \ tasks
           /\ \A t \in Task : status[t] # "new" => status'[t] # "new"
BY DEF Settle, Pending

\* Taking t from every index, or from those of the worker that holds it, and from
\* the pending tasks keeps the count, if no new task is posted.
LEMMA Discount ==
    ASSUME CountInv, NEW t \in Task, UNCHANGED workers,
           Pending' = Pending \ {t},
           \A u \in Task : status[u] # "new" => status'[u] # "new",
           DOMAIN load' = DOMAIN load,
           \A i \in DOMAIN load : load'[i] = load[i] \ {t},
           \A w \in Worker, u \in Task : Posted(w, u)' => Posted(w, u)
    PROVE  LoadIsPending' /\ PostedIsHeld'
<1>1. DOMAIN load' = DOMAIN workers'
  BY DEF CountInv, LoadIsPending
<1>2. Pending' = {u \in Task : \E i \in DOMAIN load' : u \in load'[i]}
  BY DEF CountInv, LoadIsPending
<1>3. \A i, j \in DOMAIN load' : i # j => load'[i] \cap load'[j] = {}
  BY DEF CountInv, LoadIsPending
<1>4. ASSUME NEW w \in Worker, NEW u \in Task, Posted(w, u)'
      PROVE  status'[u] # "new" /\ (u \in Pending' => Holds(w, u)')
  <2>1. status[u] # "new" /\ (u \in Pending => Holds(w, u))
    BY <1>4 DEF CountInv, PostedIsHeld
  <2>2. ASSUME u \in Pending' PROVE Holds(w, u)'
    BY <2>1, <2>2 DEF Holds, CountInv, LoadIsPending
  <2> QED
    BY <2>1, <2>2
<1>5. LoadIsPending'
  BY <1>1, <1>2, <1>3 DEF LoadIsPending
<1>6. PostedIsHeld'
  BY <1>4 DEF PostedIsHeld
<1> QED
  BY <1>5, <1>6

\* When nothing is pending and nothing is counted, the count is right.
LEMMA NothingPending ==
    ASSUME CountInv, Settle(Pending, "rejected"),
           DOMAIN load' = DOMAIN workers',
           \A i \in DOMAIN load' : load'[i] = {},
           \A w \in Worker, u \in Task : Posted(w, u)' => Posted(w, u)
    PROVE  LoadIsPending' /\ PostedIsHeld'
<1>1. Pending' = {} /\ \A u \in Task : status[u] # "new" => status'[u] # "new"
  BY SettlePending
<1>2. LoadIsPending'
  BY <1>1 DEF LoadIsPending
<1>3. PostedIsHeld'
  BY <1>1 DEF PostedIsHeld, CountInv
<1> QED
  BY <1>2, <1>3

\* Handling an event posts nothing.
LEMMA EventHandled ==
    ASSUME TypeOK, NEW w \in Worker, outbox[w] # <<>>,
           outbox' = [outbox EXCEPT ![w] = Tail(@)], UNCHANGED inbox,
           NEW v \in Worker, NEW u \in Task, Posted(v, u)'
    PROVE  Posted(v, u)
<1>1. outbox[w] \in Seq(Event) /\ outbox'[v] = IF v = w THEN Tail(outbox[w]) ELSE outbox[v]
  BY DEF TypeOK
<1>2. \A k \in DOMAIN Tail(outbox[w]) :
          k + 1 \in DOMAIN outbox[w] /\ Tail(outbox[w])[k] = outbox[w][k + 1]
  BY <1>1, TailFacts
<1> QED
  BY <1>1, <1>2 DEF Posted

\* What is in an outbox after a worker sent an event was there, or is that event.
LEMMA EventSent ==
    ASSUME TypeOK, NEW w \in Worker, NEW e \in Event,
           outbox' = [outbox EXCEPT ![w] = Append(@, e)]
    PROVE  \A v \in Worker : \A k \in DOMAIN outbox'[v] :
               \/ k \in DOMAIN outbox[v] /\ outbox'[v][k] = outbox[v][k]
               \/ v = w /\ outbox'[v][k] = e
<1> SUFFICES ASSUME NEW v \in Worker, NEW k \in DOMAIN outbox'[v]
             PROVE  \/ k \in DOMAIN outbox[v] /\ outbox'[v][k] = outbox[v][k]
                    \/ v = w /\ outbox'[v][k] = e
  OBVIOUS
<1>1. outbox[w] \in Seq(Event)
      /\ outbox'[v] = IF v = w THEN Append(outbox[w], e) ELSE outbox[v]
  BY DEF TypeOK
<1>2. \A i \in DOMAIN Append(outbox[w], e) :
          \/ Append(outbox[w], e)[i] = e
          \/ i \in DOMAIN outbox[w] /\ Append(outbox[w], e)[i] = outbox[w][i]
  BY <1>1, AppendFacts
<1> QED
  BY <1>1, <1>2

LEMMA ExecuteCounts ==
    ASSUME CountInv, NEW t \in Task, Execute(t)
    PROVE  LoadIsPending' /\ PostedIsHeld'
<1>1. t \notin Pending /\ \A i \in DOMAIN load : t \notin load[i]
  BY DEF Execute, Pending, CountInv, LoadIsPending
<1>2. \A w \in Worker : ~Posted(w, t)
  BY DEF Execute, CountInv, PostedIsHeld
<1>3. CASE Settle({t}, "rejected") /\ UNCHANGED <<load, inbox, workers, outbox>>
  <2>1. Pending' = Pending /\ \A u \in Task : status[u] # "new" => status'[u] # "new"
    BY <1>1, <1>3, SettlePending
  <2>2. LoadIsPending'
    BY <1>3, <2>1 DEF CountInv, LoadIsPending
  <2>3. PostedIsHeld'
    BY <1>3, <2>1 DEF CountInv, PostedIsHeld, Posted, Holds
  <2> QED
    BY <2>2, <2>3
<1>4. ASSUME NEW i \in DOMAIN workers,
             Settle({t}, "pending"), UNCHANGED <<workers, outbox>>,
             load' = [load EXCEPT ![i] = @ \cup {t}],
             inbox' = [inbox EXCEPT ![workers[i]] = Append(@, t)]
      PROVE  LoadIsPending' /\ PostedIsHeld'
  <2>1. /\ Pending' = Pending \cup {t}
        /\ \A u \in Task : status'[u] = IF u = t THEN "pending" ELSE status[u]
    BY <1>4 DEF Settle, Pending
  <2>2. DOMAIN load = DOMAIN workers
    BY DEF CountInv, LoadIsPending
  <2>3. /\ DOMAIN load' = DOMAIN load
        /\ \A j \in DOMAIN load : load'[j] = IF j = i THEN load[j] \cup {t} ELSE load[j]
    BY <1>4, <2>2 DEF CountInv, TypeOK
  <2>4. LoadIsPending'
    BY <1>1, <1>4, <2>1, <2>2, <2>3 DEF CountInv, LoadIsPending
  <2>5. ASSUME NEW w \in Worker, NEW u \in Task, Posted(w, u)', u # t
        PROVE  Posted(w, u)
    <3>1. workers[i] \in Worker /\ inbox[workers[i]] \in Seq(Task)
      BY DEF CountInv, TypeOK
    <3>2. inbox'[w] = IF w = workers[i] THEN Append(inbox[workers[i]], t) ELSE inbox[w]
      BY <1>4, <3>1 DEF CountInv, TypeOK
    <3>3. \A k \in DOMAIN Append(inbox[workers[i]], t) :
              \/ Append(inbox[workers[i]], t)[k] = t
              \/ /\ k \in DOMAIN inbox[workers[i]]
                 /\ Append(inbox[workers[i]], t)[k] = inbox[workers[i]][k]
      BY <3>1, AppendFacts
    <3> QED
      BY <1>4, <2>5, <3>2, <3>3 DEF Posted
  <2>6. ASSUME NEW w \in Worker, Posted(w, t)'
        PROVE  w = workers[i]
    <3>1. CASE w # workers[i]
      <4>1. inbox'[w] = inbox[w]
        BY <1>4, <3>1 DEF CountInv, TypeOK
      <4> QED
        BY <1>2, <1>4, <2>6, <4>1 DEF Posted
    <3> QED
      BY <3>1
  <2>7. PostedIsHeld'
    <3> SUFFICES ASSUME NEW w \in Worker, NEW u \in Task, Posted(w, u)'
                 PROVE  \/ status'[u] # "new" /\ Holds(w, u)'
                        \/ status'[u] \notin {"new", "pending"}
      BY DEF PostedIsHeld, Pending
    <3>1. CASE u = t
      BY <1>4, <2>1, <2>2, <2>3, <2>6, <3>1 DEF Holds
    <3>2. CASE u # t
      <4>1. status[u] # "new" /\ (u \in Pending => Holds(w, u))
        BY <2>5, <3>2 DEF CountInv, PostedIsHeld
      <4>2. Holds(w, u) => Holds(w, u)'
        BY <1>4, <2>2, <2>3 DEF Holds
      <4> QED
        BY <2>1, <3>2, <4>1, <4>2 DEF Pending
    <3> QED
      BY <3>1, <3>2
  <2> QED
    BY <2>4, <2>7
<1> QED
  BY <1>3, <1>4 DEF Execute

\* The strengthened count is an invariant.
LEMMA CountHolds == Spec => []CountInv
<1>1. Init => LoadIsPending /\ PostedIsHeld
  <2> SUFFICES ASSUME Init PROVE LoadIsPending /\ PostedIsHeld
    OBVIOUS
  <2>1. Pending = {} /\ DOMAIN load = DOMAIN workers
    BY PoolAssumption DEF Init, Pending, MaxWorkers
  <2>2. LoadIsPending
    BY <2>1 DEF Init, LoadIsPending
  <2>3. PostedIsHeld
    BY DEF Init, PostedIsHeld, Posted
  <2> QED
    BY <2>2, <2>3
<1>2. CountInv /\ [Next]_vars => LoadIsPending' /\ PostedIsHeld'
  <2> SUFFICES ASSUME CountInv, [Next]_vars PROVE LoadIsPending' /\ PostedIsHeld'
    OBVIOUS
  <2> USE DEF CountInv
  <2>1. ASSUME NEW t \in Task, Execute(t) PROVE LoadIsPending' /\ PostedIsHeld'
    BY <2>1, ExecuteCounts
  <2>2. ASSUME NEW t \in Task, Timeout(t) PROVE LoadIsPending' /\ PostedIsHeld'
    <3>1. \A w \in Worker, u \in Task : Posted(w, u)' => Posted(w, u)
      BY <2>2 DEF Timeout, channels, Posted
    <3>2. /\ Pending' = Pending \ {t}
          /\ \A u \in Task : status[u] # "new" => status'[u] # "new"
      BY <2>2, SettlePending DEF Timeout
    <3>3. UNCHANGED workers
          /\ DOMAIN load' = DOMAIN load
          /\ \A i \in DOMAIN load : load'[i] = load[i] \ {t}
      BY <2>2 DEF Timeout, WithoutTask
    <3> QED
      BY <3>1, <3>2, <3>3, Discount
  <2>3. ASSUME NEW w \in Worker, ReceiveAnswer(w) PROVE LoadIsPending' /\ PostedIsHeld'
    <3> DEFINE e == Head(outbox[w])
    <3>1. \A v \in Worker, u \in Task : Posted(v, u)' => Posted(v, u)
      BY <2>3, EventHandled DEF ReceiveAnswer
    <3>2. e \in Event /\ e = outbox[w][1] /\ 1 \in DOMAIN outbox[w]
      BY <2>3, TailFacts DEF ReceiveAnswer, TypeOK
    <3>3. e.type \in {"result", "error"} /\ e.task \in Task
      BY <2>3, <3>2 DEF ReceiveAnswer, Event
    <3>4. e.task \in Pending => Holds(w, e.task)
      BY <3>2, <3>3 DEF PostedIsHeld, Posted
    <3>5. CASE e.task \in Pending
      <4>1. \A i \in DOMAIN load : workers[i] # w => e.task \notin load[i]
        BY <3>4, <3>5 DEF Holds, LoadIsPending
      <4>2. load' = [i \in DOMAIN load |-> IF workers[i] = w THEN load[i] \ {e.task}
                                                            ELSE load[i]]
        BY <2>3, <3>5 DEF ReceiveAnswer
      <4>3. /\ Pending' = Pending \ {e.task}
            /\ \A u \in Task : status[u] # "new" => status'[u] # "new"
        BY <2>3, <3>5, SettlePending DEF ReceiveAnswer, Outcome
      <4>4. UNCHANGED workers
            /\ DOMAIN load' = DOMAIN load
            /\ \A i \in DOMAIN load : load'[i] = load[i] \ {e.task}
        BY <2>3, <4>1, <4>2 DEF ReceiveAnswer
      <4> QED
        BY <3>1, <3>3, <4>3, <4>4, Discount
    <3>6. CASE e.task \notin Pending
      <4>1. UNCHANGED <<status, load, workers>>
        BY <2>3, <3>6 DEF ReceiveAnswer
      <4>2. LoadIsPending'
        BY <4>1 DEF LoadIsPending, Pending
      <4>3. PostedIsHeld'
        BY <3>1, <4>1 DEF PostedIsHeld, Pending, Holds
      <4> QED
        BY <4>2, <4>3
    <3> QED
      BY <3>5, <3>6
  <2>4. ASSUME NEW w \in Worker, ReceiveCrash(w) PROVE LoadIsPending' /\ PostedIsHeld'
    <3>1. \A v \in Worker, u \in Task : Posted(v, u)' => Posted(v, u)
      BY <2>4, EventHandled DEF ReceiveCrash
    <3>2. DOMAIN load' = DOMAIN workers' /\ \A i \in DOMAIN load' : load'[i] = {}
      BY <2>4, SurvivorsType, RecreateType DEF ReceiveCrash
    <3>3. Settle(Pending, "rejected")
      BY <2>4 DEF ReceiveCrash, RejectOnCrash
    <3> QED
      BY <3>1, <3>2, <3>3, NothingPending
  <2>5. CASE Terminate
    <3>1. \A v \in Worker, u \in Task : Posted(v, u)' => Posted(v, u)
      BY <2>5 DEF Terminate, Posted
    <3>2. DOMAIN load' = DOMAIN workers' /\ \A i \in DOMAIN load' : load'[i] = {}
      BY <2>5 DEF Terminate
    <3> QED
      BY <2>5, <3>1, <3>2, NothingPending DEF Terminate
  <2>6. ASSUME NEW w \in Worker, Answer(w) PROVE LoadIsPending' /\ PostedIsHeld'
    <3>1. PICK k \in DOMAIN inbox[w], type \in {"result", "error"} :
              /\ outbox' = [outbox EXCEPT ![w] =
                                Append(@, [type |-> type, task |-> inbox[w][k]])]
              /\ inbox' = [inbox EXCEPT ![w] = RemoveAt(@, k)]
      BY <2>6 DEF Answer
    <3>2. inbox[w] \in Seq(Task) /\ inbox[w][k] \in Task
      BY DEF TypeOK
    <3>3. [type |-> type, task |-> inbox[w][k]] \in Event
      BY <3>2 DEF Event
    <3>4. \A j \in DOMAIN RemoveAt(inbox[w], k) :
              \E i \in DOMAIN inbox[w] : RemoveAt(inbox[w], k)[j] = inbox[w][i]
      BY <3>2, RemoveAtFacts
    <3>5. ASSUME NEW v \in Worker, NEW u \in Task, Posted(v, u)' PROVE Posted(v, u)
      <4>1. CASE \E j \in DOMAIN inbox'[v] : inbox'[v][j] = u
        <5>1. inbox'[v] = IF v = w THEN RemoveAt(inbox[w], k) ELSE inbox[v]
          BY <3>1 DEF TypeOK
        <5> QED
          BY <3>4, <4>1, <5>1 DEF Posted
      <4>2. ASSUME NEW j \in DOMAIN outbox'[v],
                   outbox'[v][j].type \in {"result", "error"}, outbox'[v][j].task = u
            PROVE  Posted(v, u)
        <5>1. \/ j \in DOMAIN outbox[v] /\ outbox'[v][j] = outbox[v][j]
              \/ v = w /\ outbox'[v][j] = [type |-> type, task |-> inbox[w][k]]
          BY <3>1, <3>3, EventSent
        <5>2. CASE outbox'[v][j] = outbox[v][j] /\ j \in DOMAIN outbox[v]
          BY <4>2, <5>2 DEF Posted
        <5>3. CASE v = w /\ outbox'[v][j] = [type |-> type, task |-> inbox[w][k]]
          BY <4>2, <5>3 DEF Posted
        <5> QED
          BY <5>1, <5>2, <5>3
      <4> QED
        BY <3>5, <4>1, <4>2 DEF Posted
    <3>6. UNCHANGED <<workers, load, status>>
      BY <2>6 DEF Answer
    <3> QED
      BY <3>5, <3>6 DEF LoadIsPending, PostedIsHeld, Pending, Holds
  <2>7. ASSUME NEW w \in Worker, Crash(w) PROVE LoadIsPending' /\ PostedIsHeld'
    <3>1. [type |-> "crash"] \in Event /\ [type |-> "crash"].type = "crash"
      BY DEF Event
    <3>2. ASSUME NEW v \in Worker, NEW u \in Task, Posted(v, u)' PROVE Posted(v, u)
      <4>1. CASE \E j \in DOMAIN inbox'[v] : inbox'[v][j] = u
        <5>1. inbox'[v] = IF v = w THEN <<>> ELSE inbox[v]
          BY <2>7 DEF Crash, TypeOK
        <5> QED
          BY <4>1, <5>1 DEF Posted
      <4>2. ASSUME NEW j \in DOMAIN outbox'[v],
                   outbox'[v][j].type \in {"result", "error"}, outbox'[v][j].task = u
            PROVE  Posted(v, u)
        <5>1. \/ j \in DOMAIN outbox[v] /\ outbox'[v][j] = outbox[v][j]
              \/ v = w /\ outbox'[v][j] = [type |-> "crash"]
          BY <2>7, <3>1, EventSent DEF Crash
        <5> QED
          BY <3>1, <4>2, <5>1 DEF Posted
      <4> QED
        BY <3>2, <4>1, <4>2 DEF Posted
    <3>3. UNCHANGED <<workers, load, status>>
      BY <2>7 DEF Crash
    <3> QED
      BY <3>2, <3>3 DEF LoadIsPending, PostedIsHeld, Pending, Holds
  <2>8. CASE (\E w \in Worker : Exit(w)) \/ WaitForTermination
    <3>. PICK threads \in SUBSET alive : EndSilently(threads)
      BY <2>8, EndingThreads
    <3>1. ASSUME NEW v \in Worker, NEW u \in Task, Posted(v, u)' PROVE Posted(v, u)
      <4>1. inbox'[v] = IF v \in threads THEN <<>> ELSE inbox[v]
        BY EndType
      <4> QED
        BY <3>1, <4>1 DEF Posted, EndSilently
    <3>2. UNCHANGED <<workers, load, status>>
      BY DEF EndSilently
    <3> QED
      BY <3>1, <3>2 DEF LoadIsPending, PostedIsHeld, Pending, Holds
  <2>9. CASE UNCHANGED vars
    BY <2>9 DEF vars, channels, LoadIsPending, PostedIsHeld, Posted, Pending, Holds
  <2> QED
    BY <2>1, <2>2, <2>3, <2>4, <2>5, <2>6, <2>7, <2>8, <2>9 DEF Next, Receive
<1> QED
  BY <1>1, <1>2, TypeCorrect, PTL DEF Spec, CountInv

\* The pool counts exactly its pending tasks, each for the one worker that has it,
\* whatever is answered, lost, timed out, crashed or terminated in which order.
THEOREM CountCorrect == Spec => []LoadIsPending
BY CountHolds, PTL DEF CountInv

-----------------------------------------------------------------------------
(* No task is forgotten *)

CrashComing(w) == \E k \in DOMAIN outbox[w] : outbox[w][k].type = "crash"
AnswerComing(w, t) ==
    \E k \in DOMAIN outbox[w] :
        outbox[w][k].type \in {"result", "error"} /\ outbox[w][k].task = t

UnderWay(w, t) ==
    \/ w \in alive /\ t \in Range(inbox[w])
    \/ CrashComing(w) \/ AnswerComing(w, t)
    \/ w \in ended

\* A worker stands once in the pool, so that a crash removes it, and if it is dead the
\* news of that is under way, or there is none.
DeadIsNews ==
    /\ Range(workers) \subseteq created
    /\ \A i, j \in DOMAIN workers : i # j => workers[i] # workers[j]
    /\ \A w \in Range(workers) : w \in alive \/ CrashComing(w) \/ w \in ended

HeldIsUnderWay == \A i \in DOMAIN workers : \A t \in load[i] : UnderWay(workers[i], t)

NewsInv == CountInv /\ DeadIsNews /\ HeldIsUnderWay

\* Sending an event takes no event away.
LEMMA SentKeeps ==
    ASSUME TypeOK, NEW w \in Worker, NEW e \in Event,
           outbox' = [outbox EXCEPT ![w] = Append(@, e)]
    PROVE  /\ \A v \in Worker : CrashComing(v) => CrashComing(v)'
           /\ \A v \in Worker, t \in Task : AnswerComing(v, t) => AnswerComing(v, t)'
           /\ e.type = "crash" => CrashComing(w)'
           /\ \A t \in Task :
                  e.type \in {"result", "error"} /\ e.task = t => AnswerComing(w, t)'
<1>1. outbox[w] \in Seq(Event)
  BY DEF TypeOK
<1>2. /\ Append(outbox[w], e) \in Seq(Event)
      /\ Len(outbox[w]) \in Nat
      /\ Len(Append(outbox[w], e)) = Len(outbox[w]) + 1
      /\ \A k \in 1 .. Len(outbox[w]) : Append(outbox[w], e)[k] = outbox[w][k]
      /\ Append(outbox[w], e)[Len(outbox[w]) + 1] = e
  BY <1>1, AppendProperties
<1>3. \A v \in Worker : outbox'[v] = IF v = w THEN Append(outbox[w], e) ELSE outbox[v]
  BY DEF TypeOK
<1>4. \A v \in Worker : \A k \in DOMAIN outbox[v] :
          k \in DOMAIN outbox'[v] /\ outbox'[v][k] = outbox[v][k]
  BY <1>1, <1>2, <1>3
<1>5. Len(outbox[w]) + 1 \in DOMAIN outbox'[w] /\ outbox'[w][Len(outbox[w]) + 1] = e
  <2>1. DOMAIN Append(outbox[w], e) = 1 .. (Len(outbox[w]) + 1)
    BY <1>2
  <2>2. outbox'[w] = Append(outbox[w], e)
    BY <1>3
  <2> QED
    BY <1>2, <2>1, <2>2
<1> QED
  BY <1>4, <1>5 DEF CrashComing, AnswerComing

\* Handling the first event of w leaves all the others.
LEMMA HandledKeeps ==
    ASSUME TypeOK, NEW w \in Worker, outbox[w] # <<>>,
           outbox' = [outbox EXCEPT ![w] = Tail(@)]
    PROVE  \A v \in Worker : \A k \in DOMAIN outbox[v] :
               \/ v = w /\ outbox[v][k] = Head(outbox[w])
               \/ \E j \in DOMAIN outbox'[v] : outbox'[v][j] = outbox[v][k]
<1> SUFFICES ASSUME NEW v \in Worker, NEW k \in DOMAIN outbox[v]
             PROVE  \/ v = w /\ outbox[v][k] = Head(outbox[w])
                    \/ \E j \in DOMAIN outbox'[v] : outbox'[v][j] = outbox[v][k]
  OBVIOUS
<1>1. outbox[w] \in Seq(Event) /\ outbox'[v] = IF v = w THEN Tail(outbox[w]) ELSE outbox[v]
  BY DEF TypeOK
<1>2. CASE v # w
  BY <1>1, <1>2
<1>3. CASE v = w
  <2>1. /\ Head(outbox[w]) = outbox[w][1]
        /\ DOMAIN outbox[w] = 1 .. Len(outbox[w]) /\ Len(outbox[w]) \in Nat
        /\ Tail(outbox[w]) \in Seq(Event) /\ Len(Tail(outbox[w])) = Len(outbox[w]) - 1
        /\ \A i \in 1 .. Len(Tail(outbox[w])) : Tail(outbox[w])[i] = outbox[w][i + 1]
    BY <1>1, HeadTailProperties
  <2>2. CASE k = 1
    BY <1>3, <2>1, <2>2
  <2>3. CASE k # 1
    <3>1. k - 1 \in 1 .. Len(Tail(outbox[w])) /\ (k - 1) + 1 = k
      BY <1>3, <2>1, <2>3
    <3>2. k - 1 \in DOMAIN Tail(outbox[w]) /\ Tail(outbox[w])[k - 1] = outbox[w][k]
      BY <2>1, <3>1
    <3> QED
      BY <1>1, <1>3, <3>2
  <2> QED
    BY <2>2, <2>3
<1> QED
  BY <1>2, <1>3

\* A pool from which w was taken, and to which a new worker may have been added.
LEMMA RecreateNews ==
    ASSUME NewsInv, NEW w \in Worker, Recreate(Survivors(w))
    PROVE  /\ Range(workers') \subseteq created'
           /\ \A i, j \in DOMAIN workers' : i # j => workers'[i] # workers'[j]
           /\ \A v \in Range(workers') : v \in alive' \ alive \/ v \in Range(workers) \ {w}
           /\ alive \subseteq alive'
<1> DEFINE rest == Survivors(w)
<1>1. /\ rest \in Seq(Worker)
      /\ \A i \in DOMAIN rest : rest[i] \in Range(workers) \ {w}
      /\ \A i, j \in DOMAIN rest : i # j => rest[i] # rest[j]
  <2>1. CASE w \in Range(workers)
    <3> DEFINE k == CHOOSE k \in DOMAIN workers : workers[k] = w
               p == SubSeq(workers, 1, k-1)
               q == SubSeq(workers, k+1, Len(workers))
    <3>1. k \in DOMAIN workers /\ workers[k] = w
      BY <2>1 DEF Range
    <3>2. rest = p \o q
      BY <2>1 DEF Survivors, RemoveAt
    <3> HIDE DEF k
    <3>3. workers \in Seq(Worker) /\ Len(workers) \in Nat /\ k \in 1 .. Len(workers)
      BY <3>1 DEF NewsInv, CountInv, TypeOK
    <3>4. p \in Seq(Worker) /\ Len(p) = k - 1 /\ \A i \in 1 .. (k-1) : p[i] = workers[i]
      BY <3>3, SubSeqProperties
    <3>5. q \in Seq(Worker) /\ Len(q) = Len(workers) - k
          /\ \A i \in 1 .. (Len(workers) - k) : q[i] = workers[k + i]
      BY <3>3, SubSeqProperties
    <3> HIDE DEF p, q, rest
    <3>6. rest \in Seq(Worker) /\ Len(rest) = Len(workers) - 1
      <4>1. p \o q \in Seq(Worker) /\ Len(p \o q) = Len(p) + Len(q)
        BY <3>4, <3>5
      <4>2. Len(p) + Len(q) = Len(workers) - 1
        BY <3>3, <3>4, <3>5
      <4> QED
        BY <3>2, <4>1, <4>2
    <3>7. ASSUME NEW i \in DOMAIN rest
          PROVE  LET at == IF i < k THEN i ELSE i + 1
                 IN  at \in DOMAIN workers /\ at # k /\ rest[i] = workers[at]
      <4>1. CASE i < k
        BY <3>2, <3>3, <3>4, <3>5, <3>6, <4>1
      <4>2. CASE ~(i < k)
        <5>1. rest[i] = q[i - (k - 1)] /\ i - (k - 1) \in 1 .. (Len(workers) - k)
          BY <3>2, <3>3, <3>4, <3>5, <3>6, <4>2
        <5>2. k + (i - (k - 1)) = i + 1 /\ i + 1 \in DOMAIN workers /\ i + 1 # k
          BY <3>3, <3>6, <4>2
        <5> QED
          BY <3>5, <4>2, <5>1, <5>2
      <4> QED
        BY <4>1, <4>2
    <3>8. \A i, j \in DOMAIN workers : i # j => workers[i] # workers[j]
      BY DEF NewsInv, DeadIsNews
    <3>9. \A i \in DOMAIN rest : rest[i] \in Range(workers) \ {w}
      BY <3>1, <3>7, <3>8 DEF Range
    <3>10. ASSUME NEW i \in DOMAIN rest, NEW j \in DOMAIN rest, i # j
           PROVE  rest[i] # rest[j]
      <4>1. (IF i < k THEN i ELSE i + 1) # (IF j < k THEN j ELSE j + 1)
        BY <3>3, <3>6, <3>10
      <4> QED
        BY <3>7, <3>8, <4>1
    <3> QED
      BY <3>6, <3>9, <3>10
  <2>2. CASE w \notin Range(workers)
    BY <2>2 DEF Survivors, Range, NewsInv, CountInv, TypeOK, DeadIsNews
  <2> QED
    BY <2>1, <2>2
<1> HIDE DEF rest
<1>2. Range(workers) \subseteq created
  BY DEF NewsInv, DeadIsNews
<1>3. CASE workers' = rest /\ UNCHANGED <<created, alive>>
  BY <1>1, <1>2, <1>3 DEF Range
<1>4. ASSUME NEW v \in Worker \ created, workers' = Append(rest, v),
             created' = created \cup {v}, alive' = alive \cup {v}
      PROVE  /\ Range(workers') \subseteq created'
             /\ \A i, j \in DOMAIN workers' : i # j => workers'[i] # workers'[j]
             /\ \A u \in Range(workers') : u \in alive' \ alive \/ u \in Range(workers) \ {w}
             /\ alive \subseteq alive'
  <2>1. /\ Len(rest) \in Nat /\ DOMAIN rest = 1 .. Len(rest)
        /\ DOMAIN workers' = 1 .. (Len(rest) + 1)
        /\ \A i \in 1 .. Len(rest) : workers'[i] = rest[i]
        /\ workers'[Len(rest) + 1] = v
    <3>1. /\ Append(rest, v) \in Seq(Worker)
          /\ Len(Append(rest, v)) = Len(rest) + 1
          /\ \A i \in 1 .. Len(rest) : Append(rest, v)[i] = rest[i]
          /\ Append(rest, v)[Len(rest) + 1] = v
      BY <1>1, AppendProperties
    <3> QED
      BY <1>1, <1>4, <3>1
  <2>2. v \notin alive
    BY DEF NewsInv, CountInv, TypeOK
  <2>3. \A i \in DOMAIN workers' : i \in DOMAIN rest \/ workers'[i] = v
    BY <2>1
  <2>4. \A i \in DOMAIN rest : rest[i] # v
    BY <1>1, <1>2
  <2>5. \A i \in DOMAIN workers' : i \notin DOMAIN rest => i = Len(rest) + 1
    BY <2>1
  <2> QED
    BY <1>1, <1>2, <1>4, <2>1, <2>2, <2>3, <2>4, <2>5 DEF Range
<1> QED
  BY <1>3, <1>4 DEF Recreate, rest

\* What is held stays under way when no event is taken and no task leaves an inbox
\* unanswered, and the list of workers is as it was.
LEMMA StaysUnderWay ==
    ASSUME NewsInv, UNCHANGED <<workers, created>>, TypeOK',
           \A i \in DOMAIN workers : \A t \in load'[i] :
               t \in load[i] \/ UnderWay(workers[i], t)',
           \A v \in Worker : CrashComing(v) => CrashComing(v)',
           \A v \in Worker : v \in alive => v \in alive' \/ CrashComing(v)' \/ v \in ended',
           alive' \subseteq alive, ended \subseteq ended',
           \A v \in Worker, t \in Task : AnswerComing(v, t) => AnswerComing(v, t)',
           \A v \in alive', t \in Task :
               t \in Range(inbox[v]) => t \in Range(inbox'[v]) \/ AnswerComing(v, t)'
    PROVE  DeadIsNews' /\ HeldIsUnderWay'
<1>1. Range(workers) \subseteq Worker
  BY DEF Range, NewsInv, CountInv, TypeOK
<1>2. DeadIsNews'
  BY <1>1 DEF NewsInv, DeadIsNews
<1>3. ASSUME NEW i \in DOMAIN workers, NEW t \in load[i] PROVE UnderWay(workers[i], t)'
  <2>1. UnderWay(workers[i], t)
    BY DEF NewsInv, HeldIsUnderWay
  <2>2. workers[i] \in Worker /\ t \in Task
    BY DEF NewsInv, CountInv, TypeOK, LoadIsPending
  <2> QED
    BY <2>1, <2>2 DEF UnderWay
<1>4. HeldIsUnderWay'
  BY <1>3 DEF HeldIsUnderWay
<1> QED
  BY <1>2, <1>4

LEMMA NewsStep == NewsInv /\ CountInv' /\ [Next]_vars => DeadIsNews' /\ HeldIsUnderWay'
<1> SUFFICES ASSUME NewsInv, CountInv', [Next]_vars PROVE DeadIsNews' /\ HeldIsUnderWay'
  OBVIOUS
<1>0. TypeOK /\ TypeOK'
  BY DEF NewsInv, CountInv
<1>1. ASSUME NEW t \in Task, Execute(t) PROVE DeadIsNews' /\ HeldIsUnderWay'
  <2>1. CASE UNCHANGED <<load, inbox>>
    BY <1>0, <1>1, <2>1, StaysUnderWay DEF Execute, CrashComing, AnswerComing
  <2>2. ASSUME NEW i \in DOMAIN workers,
               load' = [load EXCEPT ![i] = @ \cup {t}],
               inbox' = [inbox EXCEPT ![workers[i]] = Append(@, t)]
        PROVE  DeadIsNews' /\ HeldIsUnderWay'
    <3>1. workers[i] \in Worker /\ workers[i] \in Range(workers)
      BY <1>0 DEF TypeOK, Range
    <3>2. inbox[workers[i]] \in Seq(Task)
      BY <1>0, <3>1 DEF TypeOK
    <3> DEFINE box == inbox[workers[i]]
    <3>3. /\ Append(box, t) \in Seq(Task) /\ Len(Append(box, t)) = Len(box) + 1
          /\ \A k \in 1 .. Len(box) : Append(box, t)[k] = box[k]
          /\ Append(box, t)[Len(box) + 1] = t
          /\ Len(box) \in Nat
      BY <3>2, AppendProperties
    <3>4. DOMAIN Append(box, t) = 1 .. (Len(box) + 1) /\ DOMAIN box = 1 .. Len(box)
      BY <3>2, <3>3
    <3>5. Range(box) \subseteq Range(Append(box, t)) /\ t \in Range(Append(box, t))
      BY <3>3, <3>4 DEF Range
    <3> HIDE DEF box
    <3>6. \A v \in Worker : inbox'[v] = IF v = workers[i] THEN Append(box, t) ELSE inbox[v]
      BY <1>0, <2>2 DEF TypeOK, box
    <3>7. \A v \in Worker : Range(inbox[v]) \subseteq Range(inbox'[v])
      BY <3>5, <3>6 DEF box
    <3>8. t \in Range(inbox'[workers[i]])
      BY <3>1, <3>5, <3>6
    <3>9. UNCHANGED <<workers, created, outbox, alive, ended>>
      BY <1>1 DEF Execute
    <3>10. UnderWay(workers[i], t)'
      BY <3>1, <3>8, <3>9 DEF UnderWay, NewsInv, DeadIsNews, CrashComing
    <3>11. \A j \in DOMAIN workers : \A u \in load'[j] :
               u \in load[j] \/ UnderWay(workers[j], u)'
      <4>1. DOMAIN load = DOMAIN workers
        BY DEF NewsInv, CountInv, LoadIsPending
      <4>2. \A j \in DOMAIN workers : load'[j] = IF j = i THEN load[j] \cup {t} ELSE load[j]
        BY <2>2, <4>1
      <4>3. \A j \in DOMAIN workers : j # i => load'[j] = load[j]
        BY <4>2
      <4>4. load'[i] = load[i] \cup {t}
        BY <4>2
      <4> QED
        BY <3>9, <3>10, <4>3, <4>4
    <3>12. alive \subseteq Worker
      BY <1>0 DEF TypeOK
    <3> QED
      BY <1>0, <3>7, <3>9, <3>11, <3>12, StaysUnderWay DEF CrashComing, AnswerComing
  <2> QED
    BY <1>1, <2>1, <2>2 DEF Execute
<1>2. ASSUME NEW t \in Task, Timeout(t) PROVE DeadIsNews' /\ HeldIsUnderWay'
  <2>1. DOMAIN load = DOMAIN workers
    BY DEF NewsInv, CountInv, LoadIsPending
  <2>2. \A i \in DOMAIN workers : load'[i] \subseteq load[i]
    BY <1>2, <2>1 DEF Timeout, WithoutTask
  <2> QED
    BY <1>0, <1>2, <2>2, StaysUnderWay DEF Timeout, channels, CrashComing, AnswerComing
<1>3. ASSUME NEW w \in Worker, ReceiveAnswer(w) PROVE DeadIsNews' /\ HeldIsUnderWay'
  <2> DEFINE e == Head(outbox[w])
  <2>1. e.type \in {"result", "error"} /\ e.type # "crash"
    BY <1>3 DEF ReceiveAnswer
  <2>2. \A v \in Worker : \A k \in DOMAIN outbox[v] :
            \/ v = w /\ outbox[v][k] = e
            \/ \E j \in DOMAIN outbox'[v] : outbox'[v][j] = outbox[v][k]
    BY <1>0, <1>3, HandledKeeps DEF ReceiveAnswer
  <2> HIDE DEF e
  <2>3. \A v \in Worker : CrashComing(v) => CrashComing(v)'
    BY <2>1, <2>2 DEF CrashComing
  <2>4. \A v \in Worker, t \in Task :
            AnswerComing(v, t) => AnswerComing(v, t)' \/ (v = w /\ t = e.task)
    BY <2>1, <2>2 DEF AnswerComing
  <2>5. UNCHANGED <<workers, inbox, alive, ended, created>>
    BY <1>3 DEF ReceiveAnswer
  <2>6. DOMAIN load = DOMAIN workers /\ \A i \in DOMAIN load : load[i] \subseteq Pending
    <3>1. \A i \in DOMAIN load : load[i] \subseteq Task
      BY <1>0 DEF TypeOK
    <3> QED
      BY <3>1 DEF NewsInv, CountInv, LoadIsPending
  <2>7. ASSUME NEW i \in DOMAIN workers, NEW t \in load'[i] PROVE UnderWay(workers[i], t)'
    <3>1. t \in load[i] /\ ~(workers[i] = w /\ t = e.task)
      <4>1. CASE e.task \in Pending
        <5>1. load' = [j \in DOMAIN load |-> IF workers[j] = w THEN load[j] \ {e.task}
                                                              ELSE load[j]]
          BY <1>3, <4>1 DEF ReceiveAnswer, e
        <5>2. load'[i] = IF workers[i] = w THEN load[i] \ {e.task} ELSE load[i]
          BY <2>6, <5>1
        <5> QED
          BY <5>2
      <4>2. CASE e.task \notin Pending
        <5>1. load' = load
          BY <1>3, <4>2 DEF ReceiveAnswer, e
        <5>2. t \in load[i] /\ t \in Pending
          BY <2>6, <5>1
        <5> QED
          BY <4>2, <5>2
      <4> QED
        BY <4>1, <4>2
    <3>2. workers[i] \in Worker /\ t \in Task
      BY <1>0, <2>6, <3>1 DEF TypeOK, Pending
    <3>3. UnderWay(workers[i], t)
      BY <3>1 DEF NewsInv, HeldIsUnderWay
    <3> QED
      BY <2>3, <2>4, <2>5, <3>1, <3>2, <3>3 DEF UnderWay
  <2>8. HeldIsUnderWay'
    BY <2>5, <2>7 DEF HeldIsUnderWay
  <2>9. Range(workers) \subseteq Worker
    BY <1>0 DEF TypeOK, Range
  <2>10. DeadIsNews'
    BY <2>3, <2>5, <2>9 DEF NewsInv, DeadIsNews
  <2> QED
    BY <2>8, <2>10
<1>4. ASSUME NEW w \in Worker, ReceiveCrash(w) PROVE DeadIsNews' /\ HeldIsUnderWay'
  <2>1. /\ Range(workers') \subseteq created'
        /\ \A i, j \in DOMAIN workers' : i # j => workers'[i] # workers'[j]
        /\ \A v \in Range(workers') : v \in alive' \ alive \/ v \in Range(workers) \ {w}
        /\ alive \subseteq alive'
    BY <1>4, RecreateNews DEF ReceiveCrash
  <2>2. DOMAIN load' = DOMAIN workers' /\ \A i \in DOMAIN load' : load'[i] = {}
    BY <1>0, <1>4, SurvivorsType, RecreateType DEF ReceiveCrash
  <2>7. UNCHANGED ended
    BY <1>4 DEF ReceiveCrash
  <2>3. \A v \in Worker \ {w} : outbox'[v] = outbox[v]
    BY <1>0, <1>4 DEF ReceiveCrash, TypeOK
  <2>4. \A v \in Worker \ {w} : CrashComing(v) => CrashComing(v)'
    BY <2>3 DEF CrashComing
  <2>5. Range(workers) \subseteq Worker
    BY <1>0 DEF TypeOK, Range
  <2>6. DeadIsNews'
    BY <2>1, <2>4, <2>5, <2>7 DEF NewsInv, DeadIsNews
  <2> QED
    BY <2>2, <2>6 DEF HeldIsUnderWay
<1>5. CASE Terminate
  BY <1>5 DEF Terminate, DeadIsNews, HeldIsUnderWay, Range
<1>6. ASSUME NEW w \in Worker, Answer(w) PROVE DeadIsNews' /\ HeldIsUnderWay'
  <2>1. PICK k \in DOMAIN inbox[w], type \in {"result", "error"} :
            /\ outbox' = [outbox EXCEPT ![w] =
                              Append(@, [type |-> type, task |-> inbox[w][k]])]
            /\ inbox' = [inbox EXCEPT ![w] = RemoveAt(@, k)]
    BY <1>6 DEF Answer
  <2>2. inbox[w] \in Seq(Task) /\ inbox[w][k] \in Task
    BY <1>0 DEF TypeOK
  <2>3. PICK u \in Task, e \in Event :
            e = [type |-> type, task |-> u] /\ u = inbox[w][k]
    <3>1. PICK u \in Task : u = inbox[w][k]
      BY <2>2
    <3>2. [type |-> type, task |-> u] \in Event
      BY DEF Event
    <3> QED
      BY <3>1, <3>2
  <2>4. /\ \A v \in Worker : CrashComing(v) => CrashComing(v)'
        /\ \A v \in Worker, t \in Task : AnswerComing(v, t) => AnswerComing(v, t)'
        /\ AnswerComing(w, u)'
    <3>1. outbox' = [outbox EXCEPT ![w] = Append(@, e)]
      BY <2>1, <2>3
    <3>2. e.type \in {"result", "error"} /\ e.task = u
      BY <2>3
    <3> QED
      BY <1>0, <3>1, <3>2, SentKeeps
  <2>5. \A j \in DOMAIN inbox[w] \ {k} :
            \E i \in DOMAIN RemoveAt(inbox[w], k) : RemoveAt(inbox[w], k)[i] = inbox[w][j]
    BY <2>2, RemoveAtKeeps
  <2>6. \A v \in Worker : inbox'[v] = IF v = w THEN RemoveAt(inbox[w], k) ELSE inbox[v]
    BY <1>0, <2>1 DEF TypeOK
  <2>7. \A v \in Worker, t \in Task :
            t \in Range(inbox[v]) => t \in Range(inbox'[v]) \/ AnswerComing(v, t)'
    <3>1. \A v \in Worker \ {w} : inbox'[v] = inbox[v]
      BY <2>6
    <3>2. \A t \in Range(inbox[w]) : t \in Range(inbox'[w]) \/ t = u
      BY <2>3, <2>5, <2>6 DEF Range
    <3> QED
      BY <2>4, <3>1, <3>2
  <2>8. UNCHANGED <<workers, load, alive, ended, created>> /\ alive \subseteq Worker
    BY <1>0, <1>6 DEF Answer, TypeOK
  <2> QED
    BY <1>0, <2>4, <2>7, <2>8, StaysUnderWay
<1>7. ASSUME NEW w \in Worker, Crash(w) PROVE DeadIsNews' /\ HeldIsUnderWay'
  <2>1. [type |-> "crash"] \in Event /\ [type |-> "crash"].type = "crash"
    BY DEF Event
  <2>2. /\ \A v \in Worker : CrashComing(v) => CrashComing(v)'
        /\ \A v \in Worker, t \in Task : AnswerComing(v, t) => AnswerComing(v, t)'
        /\ CrashComing(w)'
    BY <1>0, <1>7, <2>1, SentKeeps DEF Crash
  <2>3. \A v \in Worker \ {w} : inbox'[v] = inbox[v]
    BY <1>0, <1>7 DEF Crash, TypeOK
  <2>4. UNCHANGED <<workers, load, created, ended>> /\ alive' = alive \ {w} /\ alive \subseteq Worker
    BY <1>0, <1>7 DEF Crash, TypeOK
  <2> QED
    BY <1>0, <2>2, <2>3, <2>4, StaysUnderWay
<1>8. CASE (\E w \in Worker : Exit(w)) \/ WaitForTermination
  <2>. PICK threads \in SUBSET alive : EndSilently(threads)
    BY <1>8, EndingThreads
  <2>1. \A v \in Worker \ threads : inbox'[v] = inbox[v]
    BY <1>0, EndType
  <2>2. /\ UNCHANGED <<workers, load, created, outbox>>
        /\ alive' = alive \ threads /\ ended' = ended \cup threads
        /\ alive \subseteq Worker
    BY <1>0 DEF EndSilently, TypeOK
  <2> QED
    BY <1>0, <2>1, <2>2, StaysUnderWay DEF CrashComing, AnswerComing
<1>9. CASE UNCHANGED vars
  <2>1. alive \subseteq Worker
    BY <1>0 DEF TypeOK
  <2> QED
    BY <1>0, <1>9, <2>1, StaysUnderWay DEF vars, channels, CrashComing, AnswerComing
<1> QED
  BY <1>1, <1>2, <1>3, <1>4, <1>5, <1>6, <1>7, <1>8, <1>9 DEF Next, Receive

\* No pending task is forgotten: a worker that has it runs, or news of the task or of
\* the worker is under way, unless the worker ended without any.
THEOREM NothingForgotten == Spec => []PendingIsUnderWay
<1>1. Init => DeadIsNews /\ HeldIsUnderWay
  <2> SUFFICES ASSUME Init PROVE DeadIsNews /\ HeldIsUnderWay
    OBVIOUS
  <2>1. DeadIsNews
    BY PoolAssumption DEF Init, DeadIsNews
  <2>2. HeldIsUnderWay
    BY PoolAssumption DEF Init, HeldIsUnderWay, MaxWorkers
  <2> QED
    BY <2>1, <2>2
<1>2. NewsInv /\ CountInv' /\ [Next]_vars => NewsInv'
  BY NewsStep DEF NewsInv
<1>3. NewsInv => PendingIsUnderWay
  BY DEF NewsInv, HeldIsUnderWay, PendingIsUnderWay, UnderWay, CrashComing, AnswerComing
<1> QED
  BY <1>1, <1>2, <1>3, CountHolds, PTL DEF Spec, NewsInv

-----------------------------------------------------------------------------
(* The contract *)

Results == {t \in Task : ResultUnderWay(t)}

\* Settling tasks is what the contract calls settling them.
LEMMA SettleIsSettled ==
    ASSUME NEW tasks, NEW with, Settle(tasks, with)
    PROVE  status' = Contract!Settled(tasks, with)
BY DEF Settle, Contract!Settled

\* Rejecting pending tasks while no result is added is a Reject of the contract.
LEMMA RejectImplements ==
    ASSUME NEW tasks \in SUBSET Pending, Settle(tasks, "rejected"), Results' \subseteq Results
    PROVE  Contract!Next
<1>1. tasks \in SUBSET Task /\ \A t \in tasks : status[t] = "pending"
  BY DEF Pending
<1>2. Contract!Reject(tasks)
  BY <1>1, SettleIsSettled DEF Contract!Reject, Results
<1> QED
  BY <1>1, <1>2 DEF Contract!Next

\* Handling an event takes results away and adds none.
LEMMA HandledResults ==
    ASSUME TypeOK, NEW w \in Worker, outbox[w] # <<>>,
           outbox' = [outbox EXCEPT ![w] = Tail(@)]
    PROVE  Results' \subseteq Results
<1> SUFFICES ASSUME NEW t \in Task, NEW v \in Worker, NEW k \in DOMAIN outbox'[v],
                    outbox'[v][k].type = "result", outbox'[v][k].task = t
             PROVE  ResultUnderWay(t)
  BY DEF Results, ResultUnderWay
<1>1. outbox[w] \in Seq(Event)
  BY DEF TypeOK
<1>2. outbox'[v] = IF v = w THEN Tail(outbox[w]) ELSE outbox[v]
  BY DEF TypeOK
<1>3. CASE v = w
  <2>1. \A i \in DOMAIN Tail(outbox[w]) :
            i + 1 \in DOMAIN outbox[w] /\ Tail(outbox[w])[i] = outbox[w][i + 1]
    BY <1>1, TailFacts
  <2>2. k + 1 \in DOMAIN outbox[w] /\ outbox'[v][k] = outbox[w][k + 1]
    BY <1>2, <1>3, <2>1
  <2> QED
    BY <2>2 DEF ResultUnderWay
<1>4. CASE v # w
  BY <1>2, <1>4 DEF ResultUnderWay
<1> QED
  BY <1>3, <1>4

\* An event that is sent adds at most its own result.
LEMMA SentResults ==
    ASSUME TypeOK, NEW w \in Worker, NEW e \in Event,
           outbox' = [outbox EXCEPT ![w] = Append(@, e)]
    PROVE  Results' = Results \cup {t \in Task : e.type = "result" /\ e.task = t}
<1> DEFINE own == {t \in Task : e.type = "result" /\ e.task = t}
<1>1. outbox[w] \in Seq(Event)
  BY DEF TypeOK
<1>2. /\ Append(outbox[w], e) \in Seq(Event)
      /\ Len(outbox[w]) \in Nat
      /\ Len(Append(outbox[w], e)) = Len(outbox[w]) + 1
      /\ \A k \in 1 .. Len(outbox[w]) : Append(outbox[w], e)[k] = outbox[w][k]
      /\ Append(outbox[w], e)[Len(outbox[w]) + 1] = e
  BY <1>1, AppendProperties
<1>3. \A v \in Worker : outbox'[v] = IF v = w THEN Append(outbox[w], e) ELSE outbox[v]
  BY DEF TypeOK
<1>4. \A v \in Worker : \A k \in DOMAIN outbox'[v] :
          \/ k \in DOMAIN outbox[v] /\ outbox'[v][k] = outbox[v][k]
          \/ outbox'[v][k] = e
  BY <1>3, EventSent
<1>5. Results' \subseteq Results \cup own
  BY <1>4 DEF Results, ResultUnderWay
<1>6. \A v \in Worker : \A k \in DOMAIN outbox[v] :
          k \in DOMAIN outbox'[v] /\ outbox'[v][k] = outbox[v][k]
  BY <1>1, <1>2, <1>3
<1>7. Results \subseteq Results'
  BY <1>6 DEF Results, ResultUnderWay
<1>8. Len(outbox[w]) + 1 \in DOMAIN outbox'[w] /\ outbox'[w][Len(outbox[w]) + 1] = e
  <2>1. DOMAIN Append(outbox[w], e) = 1 .. (Len(outbox[w]) + 1)
    BY <1>2
  <2>2. outbox'[w] = Append(outbox[w], e)
    BY <1>3
  <2> QED
    BY <1>2, <2>1, <2>2
<1>9. own \subseteq Results'
  BY <1>8 DEF Results, ResultUnderWay
<1> QED
  BY <1>5, <1>7, <1>9

\* The pool implements the contract of every pool: each of its steps settles no call
\* that is not pending, and resolves one only with the result that came for it.
THEOREM ContractKept == Spec => KeepsContract
<1>1. Init => Contract!Init
  BY DEF Init, Contract!Init, ResultUnderWay
<1>2. CountInv /\ [Next]_vars => [Contract!Next]_<<status, Results>>
  <2> SUFFICES ASSUME CountInv, [Next]_vars PROVE [Contract!Next]_<<status, Results>>
    OBVIOUS
  <2> USE DEF CountInv
  <2>1. ASSUME NEW t \in Task, Execute(t) PROVE Contract!Next
    <3>1. UNCHANGED Results
      BY <2>1 DEF Execute, Results, ResultUnderWay
    <3>2. status' \in {Contract!Settled({t}, "pending"), Contract!Settled({t}, "rejected")}
      BY <2>1, SettleIsSettled DEF Execute
    <3>3. Contract!Submit(t)
      BY <2>1, <3>1, <3>2 DEF Execute, Contract!Submit, Results
    <3> QED
      BY <3>3 DEF Contract!Next
  <2>2. ASSUME NEW t \in Task, Timeout(t) PROVE Contract!Next
    <3>1. Results' \subseteq Results
      BY <2>2 DEF Timeout, channels, Results, ResultUnderWay
    <3> QED
      BY <2>2, <3>1, RejectImplements DEF Timeout
  <2>3. ASSUME NEW w \in Worker, ReceiveAnswer(w) PROVE [Contract!Next]_<<status, Results>>
    <3> DEFINE e == Head(outbox[w])
    <3>1. e \in Event /\ e = outbox[w][1] /\ 1 \in DOMAIN outbox[w]
      BY <2>3, TailFacts DEF ReceiveAnswer, TypeOK
    <3>2. e.type \in {"result", "error"} /\ e.task \in Task
      BY <2>3, <3>1 DEF ReceiveAnswer, Event
    <3>3. Results' \subseteq Results
      BY <2>3, HandledResults DEF ReceiveAnswer
    <3>4. CASE e.task \in Pending /\ e.type = "result"
      <4>1. e.task \in Results
        BY <3>1, <3>2, <3>4 DEF Results, ResultUnderWay
      <4>2. status' = Contract!Settled({e.task}, "resolved")
        BY <2>3, <3>4, SettleIsSettled DEF ReceiveAnswer, Outcome
      <4>3. Contract!Resolve(e.task)
        BY <3>3, <3>4, <4>1, <4>2 DEF Contract!Resolve, Results, Pending
      <4> QED
        BY <3>2, <4>3 DEF Contract!Next
    <3>5. CASE e.task \in Pending /\ e.type # "result"
      <4>1. Settle({e.task}, "rejected")
        BY <2>3, <3>5 DEF ReceiveAnswer, Outcome
      <4> QED
        BY <3>3, <3>5, <4>1, RejectImplements
    <3>6. CASE e.task \notin Pending
      <4>1. Settle({}, "rejected")
        BY <2>3, <3>6 DEF ReceiveAnswer, Settle, TypeOK
      <4> QED
        BY <3>3, <4>1, RejectImplements
    <3> QED
      BY <3>4, <3>5, <3>6
  <2>4. ASSUME NEW w \in Worker, ReceiveCrash(w) PROVE Contract!Next
    <3>1. Results' \subseteq Results
      BY <2>4, HandledResults DEF ReceiveCrash
    <3> QED
      BY <2>4, <3>1, RejectImplements DEF ReceiveCrash, RejectOnCrash
  <2>5. CASE Terminate
    <3>1. Results' \subseteq Results
      BY <2>5 DEF Terminate, Results, ResultUnderWay
    <3> QED
      BY <2>5, <3>1, RejectImplements DEF Terminate
  <2>6. ASSUME NEW w \in Worker, Answer(w) PROVE [Contract!Next]_<<status, Results>>
    <3>1. PICK k \in DOMAIN inbox[w], type \in {"result", "error"} :
              outbox' = [outbox EXCEPT ![w] =
                             Append(@, [type |-> type, task |-> inbox[w][k]])]
      BY <2>6 DEF Answer
    <3> DEFINE t == inbox[w][k]
               e == [type |-> type, task |-> t]
    <3>2. t \in Task /\ e \in Event /\ e.type = type /\ e.task = t
      BY DEF TypeOK, Event
    <3> HIDE DEF t
    <3>3. Results' = Results \cup {u \in Task : type = "result" /\ t = u}
      BY <3>1, <3>2, SentResults DEF t
    <3>4. status[t] # "new" /\ UNCHANGED status
      BY <2>6, <3>2 DEF Answer, PostedIsHeld, Posted, t
    <3>5. CASE type = "result"
      <4>1. Contract!Compute(t)
        BY <3>2, <3>3, <3>4, <3>5 DEF Contract!Compute, Results
      <4> QED
        BY <3>2, <4>1 DEF Contract!Next
    <3>6. CASE type # "result"
      BY <3>3, <3>4, <3>6
    <3> QED
      BY <3>5, <3>6
  <2>7. ASSUME NEW w \in Worker, Crash(w) PROVE UNCHANGED <<status, Results>>
    <3>1. [type |-> "crash"] \in Event /\ [type |-> "crash"].type = "crash"
      BY DEF Event
    <3>2. Results' = Results
      BY <2>7, <3>1, SentResults DEF Crash
    <3> QED
      BY <2>7, <3>2 DEF Crash
  <2>8. CASE (\E w \in Worker : Exit(w)) \/ WaitForTermination
    <3>. PICK threads \in SUBSET alive : EndSilently(threads)
      BY <2>8, EndingThreads
    <3>1. UNCHANGED <<status, Results>>
      BY DEF EndSilently, Results, ResultUnderWay
    <3> QED
      BY <3>1
  <2>9. CASE UNCHANGED vars
    BY <2>9 DEF vars, channels, Results, ResultUnderWay
  <2> QED
    BY <2>1, <2>2, <2>3, <2>4, <2>5, <2>6, <2>7, <2>8, <2>9 DEF Next, Receive
<1> QED
  BY <1>1, <1>2, CountHolds, PTL DEF Spec, KeepsContract, Contract!Spec, Results
=============================================================================
