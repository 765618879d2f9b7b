------------------------- MODULE WebWorkerPoolProofs -------------------------
(***************************************************************************)
(* The pool of Web Workers, for any number of workers, tasks and plugins.  *)
(***************************************************************************)
EXTENDS WebWorkerPool, SequenceFacts, SequenceTheorems, TLAPS

-----------------------------------------------------------------------------
(* The list of workers *)

\* Taking w from the pool takes away nobody else.
LEMMA WithoutFacts ==
    ASSUME TypeOK, NEW w \in Worker
    PROVE  /\ Without(w) \in Seq(Worker)
           /\ Range(Without(w)) \subseteq Range(workers)
           /\ Range(workers) \ {w} \subseteq Range(Without(w))
<1>1. CASE w \in Range(workers)
  <2> DEFINE k == CHOOSE k \in DOMAIN workers : workers[k] = w
  <2>1. k \in DOMAIN workers /\ workers[k] = w
    BY <1>1 DEF Range
  <2>2. Without(w) = RemoveAt(workers, k)
    BY <1>1 DEF Without
  <2> HIDE DEF k
  <2>3. workers \in Seq(Worker)
    BY DEF TypeOK
  <2>4. /\ RemoveAt(workers, k) \in Seq(Worker)
        /\ \A i \in DOMAIN RemoveAt(workers, k) :
               \E j \in DOMAIN workers : RemoveAt(workers, k)[i] = workers[j]
    BY <2>1, <2>3, RemoveAtFacts
  <2>5. \A j \in DOMAIN workers \ {k} :
            \E i \in DOMAIN RemoveAt(workers, k) : RemoveAt(workers, k)[i] = workers[j]
    BY <2>1, <2>3, RemoveAtKeeps
  <2> QED
    BY <2>1, <2>2, <2>4, <2>5 DEF Range
<1>2. CASE w \notin Range(workers)
  BY <1>2 DEF Without, TypeOK
<1> QED
  BY <1>1, <1>2

\* What replacing a worker does to the list and to the workers that run.
LEMMA ReplaceFacts ==
    ASSUME TypeOK, NEW w \in Worker, Replace(w), Range(workers) \subseteq alive
    PROVE  /\ workers' \in Seq(Worker)
           /\ Range(workers') \subseteq alive'
           /\ alive \subseteq alive' /\ alive' \subseteq alive \cup Range(workers')
           /\ alive' \subseteq created' /\ created \subseteq created' /\ created' \subseteq Worker
           /\ Range(workers) \ {w} \subseteq Range(workers')
<1>1. /\ Without(w) \in Seq(Worker)
      /\ Range(Without(w)) \subseteq Range(workers)
      /\ Range(workers) \ {w} \subseteq Range(Without(w))
  BY WithoutFacts
<1>2. CASE workers' = Without(w) /\ UNCHANGED <<created, alive>>
  BY <1>1, <1>2 DEF TypeOK
<1>3. ASSUME NEW v \in Worker \ created,
             workers' = Append(Without(w), v),
             created' = created \cup {v}, alive' = alive \cup {v}
      PROVE  /\ workers' \in Seq(Worker)
             /\ Range(workers') \subseteq alive'
             /\ alive \subseteq alive' /\ alive' \subseteq alive \cup Range(workers')
             /\ alive' \subseteq created' /\ created \subseteq created' /\ created' \subseteq Worker
             /\ Range(workers) \ {w} \subseteq Range(workers')
  <2>1. workers' \in Seq(Worker) /\ Range(workers') = Range(Without(w)) \cup {v}
    BY <1>1, <1>3, AppendFacts, AppendRange
  <2> QED
    BY <1>1, <1>3, <2>1 DEF TypeOK
<1> QED
  BY <1>2, <1>3 DEF Replace

\* initialize puts new workers, each once, behind those of the pool.
LEMMA InitializeFacts ==
    ASSUME TypeOK, Initialize
    PROVE  \E fresh \in Seq(Worker \ created) :
              /\ \A i, j \in DOMAIN fresh : fresh[i] = fresh[j] => i = j
              /\ workers' = workers \o fresh /\ workers' \in Seq(Worker)
              /\ Range(workers') = Range(workers) \cup Range(fresh)
              /\ Range(fresh) \subseteq Worker \ created
              /\ created' = created \cup Range(fresh)
              /\ alive' = alive \cup Range(fresh)
<1>. PICK k \in 0 .. Len(FirstWorkers) : \E fresh \in [1 .. k -> Worker \ created] :
          /\ \A i, j \in 1 .. k : fresh[i] = fresh[j] => i = j
          /\ workers' = workers \o fresh
          /\ created' = created \cup Range(fresh)
          /\ alive' = alive \cup Range(fresh)
  BY DEF Initialize
<1>. PICK fresh \in [1 .. k -> Worker \ created] :
          /\ \A i, j \in 1 .. k : fresh[i] = fresh[j] => i = j
          /\ workers' = workers \o fresh
          /\ created' = created \cup Range(fresh)
          /\ alive' = alive \cup Range(fresh)
  OBVIOUS
<1>1. k \in Nat
  BY WebPoolAssumption
<1>2. fresh \in Seq(Worker \ created) /\ fresh \in Seq(Worker) /\ DOMAIN fresh = 1 .. k
  BY <1>1, SeqDef
<1>3. workers \in Seq(Worker)
  BY DEF TypeOK
<1>4. workers \o fresh \in Seq(Worker)
  BY <1>2, <1>3, ConcatProperties
<1>5. Range(workers \o fresh) = Range(workers) \cup Range(fresh)
  BY <1>2, <1>3, ConcatRange
<1>6. Range(fresh) \subseteq Worker \ created
  BY <1>2 DEF Range
<1> QED
  BY <1>2, <1>4, <1>5, <1>6

-----------------------------------------------------------------------------
(* The invariant *)

\* Numbers that have not been given to a task occur nowhere.
Fresh ==
    \A t \in Task :
        t >= taskIdCounter => status[t] = "new" /\ t \notin taskQueue

\* What a worker has, or has answered, was submitted.
PostedIsSubmitted ==
    \A t \in Task :
        (\E w \in Worker : t \in inbox[w]) \/ (\E a \in answers : a.task = t)
            => status[t] # "new"

PoolInv ==
    /\ TypeOK
    /\ Fresh
    /\ PostedIsSubmitted
    /\ QueueAgrees
    /\ Range(workers) \subseteq alive

\* Settling tasks takes them from the pending ones and makes no task new.
LEMMA SettleFacts ==
    ASSUME TypeOK, NEW tasks, NEW st \in {"resolved", "rejected"}, Settle(tasks, st)
    PROVE  /\ status' \in [Task -> {"new", "pending", "resolved", "rejected"}]
           /\ Pending' = Pending \ tasks
           /\ \A t \in Task : (status[t] = "new") <=> (status'[t] = "new")
           /\ \A t \in Task : status[t] = "rejected" => status'[t] = "rejected"
           /\ \A t \in Task \ tasks : status'[t] = status[t]
BY DEF Settle, Pending, TypeOK

\* Settling tasks and taking them from the queue, while nothing is posted, keeps the
\* agreement between the queue, the promises and the messages.
LEMMA Unqueued ==
    ASSUME PoolInv, NEW tasks, NEW st \in {"resolved", "rejected"},
           Settle(tasks, st), Unqueue(tasks), UNCHANGED taskIdCounter,
           \A w \in Worker : inbox'[w] \subseteq inbox[w],
           answers' \subseteq answers
    PROVE  Fresh' /\ PostedIsSubmitted' /\ QueueAgrees'
<1>1. /\ Pending' = Pending \ tasks
      /\ \A t \in Task : (status[t] = "new") <=> (status'[t] = "new")
      /\ \A t \in Task \ tasks : status'[t] = status[t]
  BY SettleFacts DEF PoolInv
<1>2. taskQueue' = taskQueue \ tasks
  BY DEF Unqueue
<1>3. Fresh'
  BY <1>1, <1>2 DEF PoolInv, Fresh
<1>4. PostedIsSubmitted'
  BY <1>1 DEF PoolInv, PostedIsSubmitted
<1>5. QueueAgrees'
  BY <1>1, <1>2 DEF PoolInv, QueueAgrees, TypeOK
<1> QED
  BY <1>3, <1>4, <1>5

LEMMA RoundRobinFacts ==
    ASSUME TypeOK, workers # <<>>, NEW t \in Nat
    PROVE  RoundRobin(t) \in Range(workers) /\ RoundRobin(t) \in Worker
<1>1. Len(workers) \in Nat /\ Len(workers) > 0 /\ DOMAIN workers = 1 .. Len(workers)
  BY DEF TypeOK
<1> DEFINE i == (t % Len(workers)) + 1
<1>2. i \in DOMAIN workers
  BY <1>1
<1>3. RoundRobin(t) = workers[i]
  BY DEF RoundRobin
<1> HIDE DEF i
<1>4. \A j \in DOMAIN workers : workers[j] \in Worker /\ workers[j] \in Range(workers)
  BY DEF Range, TypeOK
<1> QED
  BY <1>2, <1>3, <1>4

LEMMA InitInv == Init => PoolInv
<1> SUFFICES ASSUME Init PROVE PoolInv
  OBVIOUS
<1>1. PICK k \in 0 .. Len(FirstWorkers) : workers = SubSeq(FirstWorkers, 1, k)
  BY DEF Init
<1>2. Len(FirstWorkers) \in Nat /\ DOMAIN FirstWorkers = 1 .. Len(FirstWorkers)
      /\ \A i \in 1 .. Len(FirstWorkers) : FirstWorkers[i] \in Worker
  BY WebPoolAssumption
<1>3. /\ workers \in Seq(Worker) /\ Len(workers) = k
      /\ \A i \in 1 .. k : workers[i] = FirstWorkers[i]
  BY <1>1, <1>2, SubSeqProperties
<1>4. DOMAIN workers = 1 .. k
  BY <1>3
<1>5. Range(workers) \subseteq Range(FirstWorkers) /\ Range(FirstWorkers) \subseteq Worker
  BY <1>2, <1>3, <1>4 DEF Range
<1>6. TypeOK
  <2>1. taskIdCounter \in 0 .. MaxTasks
    BY WebPoolAssumption DEF Init
  <2>2. status \in [Task -> {"new", "pending", "resolved", "rejected"}]
    BY DEF Init
  <2>3. inbox \in [Worker -> SUBSET Task] /\ knows \in [Worker -> SUBSET Plugin]
    BY DEF Init
  <2>4. alive \subseteq created /\ created \subseteq Worker
    BY <1>5 DEF Init
  <2> QED
    BY <1>3, <2>1, <2>2, <2>3, <2>4 DEF Init, TypeOK
<1> QED
  BY <1>6 DEF Init, PoolInv, Fresh, PostedIsSubmitted, QueueAgrees, Pending, Task

\* The types, the numbering, the queue and the list of workers agree in every state.
LEMMA PoolInvariant == Spec => []PoolInv
<1>1. PoolInv /\ [Next]_vars => PoolInv'
  <2> SUFFICES ASSUME PoolInv, [Next]_vars PROVE PoolInv'
    OBVIOUS
  <2> USE DEF PoolInv
  <2>1. CASE Execute
    <3> DEFINE t == taskIdCounter
               w == RoundRobin(t)
    <3>1. t \in Task /\ t \in Nat /\ t + 1 \in 0 .. MaxTasks
      BY <2>1, WebPoolAssumption DEF Execute, TypeOK, Task
    <3>2. w \in Worker
      BY <2>1, <3>1, RoundRobinFacts DEF Execute
    <3>3. status[t] = "new" /\ t \notin taskQueue
      BY <3>1 DEF Fresh
    <3>4. /\ \A v \in Worker : t \notin inbox[v]
          /\ \A a \in answers : a.task # t
      BY <3>1, <3>3 DEF PostedIsSubmitted
    <3>5. /\ taskQueue' = taskQueue \cup {t} /\ taskIdCounter' = t + 1
          /\ \/ /\ status' = [status EXCEPT ![t] = "pending"]
                /\ inbox' = [inbox EXCEPT ![w] = @ \cup {t}]
             \/ /\ status' = [status EXCEPT ![t] = "rejected"]
                /\ UNCHANGED inbox
          /\ UNCHANGED <<workers, registeredPlugins, replaced, destroyed,
                         knows, answers, erred, alive, created>>
      BY <2>1 DEF Execute
    <3> HIDE DEF t, w
    <3>6. TypeOK'
      <4>1. status' \in [Task -> {"new", "pending", "resolved", "rejected"}]
        BY <3>1, <3>5 DEF TypeOK
      <4>2. inbox' \in [Worker -> SUBSET Task]
        BY <3>1, <3>2, <3>5 DEF TypeOK
      <4>3. taskQueue' \subseteq Task /\ taskIdCounter' \in 0 .. MaxTasks
        BY <3>1, <3>5 DEF TypeOK
      <4> QED
        BY <3>5, <4>1, <4>2, <4>3 DEF TypeOK
    <3>7. \A u \in Task : u # t => status'[u] = status[u]
                                   /\ \A v \in Worker : u \in inbox'[v] => u \in inbox[v]
      BY <3>1, <3>2, <3>5 DEF TypeOK
    <3>8. status'[t] \in {"pending", "rejected"}
      BY <3>1, <3>5 DEF TypeOK
    <3>9. \A u \in Task : u >= taskIdCounter' => u # t /\ u >= taskIdCounter
      BY <3>1, <3>5 DEF t, Task
    <3>10. Fresh'
      BY <3>5, <3>7, <3>9 DEF Fresh
    <3>11. PostedIsSubmitted'
      BY <3>5, <3>7, <3>8 DEF PostedIsSubmitted
    <3>12. Pending' \subseteq taskQueue'
      BY <3>5, <3>7 DEF QueueAgrees, Pending
    <3>13. ASSUME NEW u \in taskQueue' \ Pending'
           PROVE  /\ status'[u] = "rejected"
                  /\ \A v \in Worker : u \notin inbox'[v]
                  /\ \A a \in answers' : a.task # u
      <4>1. CASE u = t
        <5>1. status'[t] = "rejected" /\ UNCHANGED inbox
          BY <3>1, <3>5, <3>13, <4>1 DEF Pending, TypeOK
        <5> QED
          BY <3>4, <3>5, <4>1, <5>1
      <4>2. CASE u # t
        <5>1. u \in taskQueue \ Pending /\ u \in Task
          BY <3>5, <3>7, <3>13, <4>2 DEF Pending, TypeOK
        <5> QED
          BY <3>5, <3>7, <4>2, <5>1 DEF QueueAgrees
      <4> QED
        BY <4>1, <4>2
    <3>14. QueueAgrees'
      BY <3>12, <3>13 DEF QueueAgrees
    <3> QED
      BY <3>5, <3>6, <3>10, <3>11, <3>14
  <2>2. ASSUME NEW t \in Task, Timeout(t) PROVE PoolInv'
    <3>1. Fresh' /\ PostedIsSubmitted' /\ QueueAgrees'
      BY <2>2, Unqueued DEF Timeout, channels
    <3>2. TypeOK'
      BY <2>2, SettleFacts DEF Timeout, Unqueue, channels, TypeOK
    <3> QED
      BY <2>2, <3>1, <3>2 DEF Timeout
  <2>3. ASSUME NEW a \in answers, ReceiveAnswer(a) PROVE PoolInv'
    <3>1. a \in [task : Task, type : AnswerType]
      BY <2>3 DEF TypeOK
    <3>2. Outcome(a.type) \in {"resolved", "rejected"}
      BY DEF Outcome
    <3>3. CASE Awaited(a.task)
      <4>1. Settle({a.task}, Outcome(a.type)) /\ Unqueue({a.task})
        BY <2>3, <3>3 DEF ReceiveAnswer
      <4>2. Fresh' /\ PostedIsSubmitted' /\ QueueAgrees'
        BY <2>3, <3>2, <4>1, Unqueued DEF ReceiveAnswer
      <4>3. TypeOK'
        BY <2>3, <3>2, <4>1, SettleFacts DEF ReceiveAnswer, Unqueue, TypeOK
      <4> QED
        BY <2>3, <4>2, <4>3 DEF ReceiveAnswer
    <3>4. CASE ~Awaited(a.task)
      BY <2>3, <3>4
         DEF ReceiveAnswer, TypeOK, Fresh, PostedIsSubmitted, QueueAgrees, Pending
    <3> QED
      BY <3>3, <3>4
  <2>4. ASSUME NEW w \in Worker, ReceiveError(w) PROVE PoolInv'
    <3>1. Fresh' /\ PostedIsSubmitted' /\ QueueAgrees'
      BY <2>4, Unqueued DEF ReceiveError
    <3>2. /\ status' \in [Task -> {"new", "pending", "resolved", "rejected"}]
          /\ taskQueue' \subseteq Task
      BY <2>4, SettleFacts DEF ReceiveError, Unqueue, TypeOK
    <3>3. CASE InPool(w)
      <4>1. Replace(w)
        BY <2>4, <3>3 DEF ReceiveError
      <4>2. /\ workers' \in Seq(Worker)
            /\ Range(workers') \subseteq alive'
            /\ alive' \subseteq created' /\ created \subseteq created' /\ created' \subseteq Worker
        BY <4>1, ReplaceFacts
      <4>3. knows' \in [Worker -> SUBSET Plugin] /\ replaced' \subseteq created'
        BY <2>4, <3>3, <4>1, <4>2 DEF Replace, ReceiveError, TypeOK
      <4> QED
        BY <2>4, <3>1, <3>2, <4>2, <4>3 DEF ReceiveError, TypeOK
    <3>4. CASE ~InPool(w)
      BY <2>4, <3>1, <3>2, <3>4 DEF ReceiveError, TypeOK
    <3> QED
      BY <3>3, <3>4
  <2>5. ASSUME NEW p \in Plugin, RegisterPlugin(p) PROVE PoolInv'
    BY <2>5 DEF RegisterPlugin, TypeOK, Fresh, PostedIsSubmitted, QueueAgrees, Pending
  <2>6. CASE Destroy
    <3>1. Fresh' /\ PostedIsSubmitted' /\ QueueAgrees'
      BY <2>6, Unqueued DEF Destroy
    <3>2. TypeOK'
      BY <2>6, SettleFacts DEF Destroy, TerminateWorkers, Unqueue, TypeOK
    <3> QED
      BY <2>6, <3>1, <3>2 DEF Destroy, Range
  <2>7. ASSUME NEW w \in Worker, NEW t \in Task, Answer(w, t) PROVE PoolInv'
    <3>1. PICK type \in AnswerType : answers' = answers \cup {[task |-> t, type |-> type]}
      BY <2>7 DEF Answer
    <3>2. t \in inbox[w] /\ status[t] # "new"
      BY <2>7 DEF Answer, PostedIsSubmitted
    <3>3. \A v \in Worker : inbox'[v] \subseteq inbox[v]
      BY <2>7 DEF Answer, TypeOK
    <3>4. TypeOK'
      BY <2>7, <3>1 DEF Answer, main, TypeOK
    <3>5. Fresh'
      BY <2>7 DEF Answer, main, Fresh
    <3>6. PostedIsSubmitted'
      BY <2>7, <3>1, <3>2, <3>3 DEF Answer, main, PostedIsSubmitted
    <3>7. QueueAgrees'
      BY <2>7, <3>1, <3>2, <3>3 DEF Answer, main, QueueAgrees, Pending
    <3> QED
      BY <2>7, <3>4, <3>5, <3>6, <3>7 DEF Answer, main
  <2>8. ASSUME NEW w \in Worker, Throw(w) PROVE PoolInv'
    <3>1. \A v \in Worker : inbox'[v] \subseteq inbox[v]
      BY <2>8 DEF Throw, TypeOK
    <3>2. TypeOK'
      BY <2>8 DEF Throw, main, TypeOK
    <3>3. Fresh' /\ PostedIsSubmitted' /\ QueueAgrees'
      BY <2>8, <3>1 DEF Throw, main, Fresh, PostedIsSubmitted, QueueAgrees, Pending
    <3> QED
      BY <2>8, <3>2, <3>3 DEF Throw, main
  <2>9. CASE UNCHANGED vars
    BY <2>9 DEF vars, main, channels, TypeOK, Fresh, PostedIsSubmitted, QueueAgrees, Pending
  <2>10. CASE Initialize
    <3>1. UNCHANGED <<taskIdCounter, taskQueue, status, registeredPlugins, replaced, inbox,
                      knows, answers, erred>> /\ destroyed' = FALSE
      BY <2>10 DEF Initialize, channels
    <3>2. /\ workers' \in Seq(Worker) /\ Range(workers') \subseteq alive'
          /\ alive' \subseteq created' /\ created \subseteq created' /\ created' \subseteq Worker
      BY <2>10, InitializeFacts DEF TypeOK
    <3>3. TypeOK'
      BY <3>1, <3>2 DEF TypeOK
    <3>4. Fresh' /\ PostedIsSubmitted' /\ QueueAgrees'
      BY <3>1 DEF Fresh, PostedIsSubmitted, QueueAgrees, Pending
    <3> QED
      BY <3>2, <3>3, <3>4
  <2> QED
    BY <2>1, <2>2, <2>3, <2>4, <2>5, <2>6, <2>7, <2>8, <2>9, <2>10 DEF Next
<1> QED
  BY <1>1, InitInv, PTL DEF Spec

\* The variables of the pool keep their types, whatever the workers do.
THEOREM TypeCorrect == Spec => []TypeOK
BY PoolInvariant, PTL DEF PoolInv

\* Every awaited promise has its entry, and only tasks that could not be posted leave one
\* behind, whatever is answered, lost, timed out or destroyed in which order.
THEOREM QueueCorrect == Spec => []QueueAgrees
BY PoolInvariant, PTL DEF PoolInv

-----------------------------------------------------------------------------
(* No task is forgotten *)

\* Nothing is awaited after all tasks of the queue were settled.
LEMMA AllSettled ==
    ASSUME PoolInv, Settle(taskQueue, "rejected")
    PROVE  Pending' = {}
BY SettleFacts DEF PoolInv, QueueAgrees

\* A worker of the pool runs, so what is posted can be answered; an answer is removed
\* together with the wait for it, unless it is the answer to the number 0; and an error
\* event ends every wait.
THEOREM NothingForgotten == Spec => []PendingIsUnderWay
<1>1. Init => PendingIsUnderWay
  BY DEF Init, PendingIsUnderWay, Pending
<1>2. PoolInv /\ PendingIsUnderWay /\ [Next]_vars => PendingIsUnderWay'
  <2> SUFFICES ASSUME PoolInv, PendingIsUnderWay, [Next]_vars,
                      NEW u \in Pending' \ {0}
               PROVE  \/ \E w \in alive' : u \in inbox'[w]
                      \/ \E a \in answers' : a.task = u
                      \/ erred' # {}
    BY DEF PendingIsUnderWay
  <2> USE DEF PoolInv
  <2>0. u \in Task /\ status'[u] = "pending"
    BY DEF Pending
  <2>1. CASE Execute
    <3> DEFINE t == taskIdCounter
               w == RoundRobin(t)
    <3>1. t \in Task /\ t \in Nat
      BY <2>1, WebPoolAssumption DEF Execute, TypeOK, Task
    <3>2. w \in Worker /\ w \in alive
      BY <2>1, <3>1, RoundRobinFacts DEF Execute
    <3>3. /\ \/ /\ status' = [status EXCEPT ![t] = "pending"]
                /\ inbox' = [inbox EXCEPT ![w] = @ \cup {t}]
             \/ /\ status' = [status EXCEPT ![t] = "rejected"]
                /\ UNCHANGED inbox
          /\ UNCHANGED <<answers, erred, alive>>
      BY <2>1 DEF Execute
    <3> HIDE DEF t, w
    <3>4. CASE u = t
      <4>1. inbox' = [inbox EXCEPT ![w] = @ \cup {t}]
        BY <2>0, <3>1, <3>3, <3>4 DEF TypeOK
      <4>2. t \in inbox'[w]
        BY <3>2, <4>1 DEF TypeOK
      <4> QED
        BY <3>2, <3>3, <3>4, <4>2
    <3>5. CASE u # t
      <4>1. u \in Pending \ {0}
        BY <2>0, <3>1, <3>3, <3>5 DEF Pending, TypeOK
      <4>2. \A v \in Worker : inbox[v] \subseteq inbox'[v]
        BY <3>2, <3>3 DEF TypeOK
      <4> QED
        BY <3>3, <4>1, <4>2 DEF PendingIsUnderWay, TypeOK
    <3> QED
      BY <3>4, <3>5
  <2>2. ASSUME NEW t \in Task, Timeout(t)
        PROVE  \/ \E w \in alive' : u \in inbox'[w]
               \/ \E a \in answers' : a.task = u
               \/ erred' # {}
    <3>1. Pending' \subseteq Pending
      BY <2>2, SettleFacts DEF Timeout
    <3> QED
      BY <2>2, <3>1 DEF Timeout, channels, PendingIsUnderWay
  <2>3. ASSUME NEW a \in answers, ReceiveAnswer(a)
        PROVE  \/ \E w \in alive' : u \in inbox'[w]
               \/ \E b \in answers' : b.task = u
               \/ erred' # {}
    <3>1. Outcome(a.type) \in {"resolved", "rejected"}
      BY DEF Outcome
    <3>2. CASE Awaited(a.task)
      <4>1. Pending' = Pending \ {a.task}
        BY <2>3, <3>1, <3>2, SettleFacts DEF ReceiveAnswer
      <4> QED
        BY <2>3, <4>1 DEF ReceiveAnswer, PendingIsUnderWay
    <3>3. CASE ~Awaited(a.task)
      <4>1. Pending' = Pending
        BY <2>3, <3>3 DEF ReceiveAnswer, Pending
      <4>2. u # a.task
        BY <3>3, <4>1 DEF Awaited, QueueAgrees
      <4> QED
        BY <2>3, <4>1, <4>2 DEF ReceiveAnswer, PendingIsUnderWay
    <3> QED
      BY <3>2, <3>3
  <2>4. ASSUME NEW w \in Worker, ReceiveError(w) PROVE FALSE
    BY <2>4, AllSettled DEF ReceiveError, HitByError
  <2>5. ASSUME NEW p \in Plugin, RegisterPlugin(p)
        PROVE  \/ \E w \in alive' : u \in inbox'[w]
               \/ \E a \in answers' : a.task = u
               \/ erred' # {}
    BY <2>5 DEF RegisterPlugin, Pending, PendingIsUnderWay
  <2>6. CASE Destroy
    BY <2>6, AllSettled DEF Destroy
  <2>7. ASSUME NEW w \in Worker, NEW t \in Task, Answer(w, t)
        PROVE  \/ \E v \in alive' : u \in inbox'[v]
               \/ \E a \in answers' : a.task = u
               \/ erred' # {}
    <3>1. PICK type \in AnswerType : answers' = answers \cup {[task |-> t, type |-> type]}
      BY <2>7 DEF Answer
    <3>2. u \in Pending \ {0}
      BY <2>7 DEF Answer, main, Pending
    <3>3. CASE u = t
      <4>1. [task |-> t, type |-> type] \in answers' /\ [task |-> t, type |-> type].task = u
        BY <3>1, <3>3
      <4> QED
        BY <4>1
    <3>4. CASE u # t
      <4>1. \A v \in Worker : u \in inbox[v] => u \in inbox'[v]
        BY <2>7, <3>4 DEF Answer, TypeOK
      <4> QED
        BY <2>7, <3>1, <3>2, <4>1 DEF Answer, PendingIsUnderWay, TypeOK
    <3> QED
      BY <3>3, <3>4
  <2>8. ASSUME NEW w \in Worker, Throw(w) PROVE erred' # {}
    BY <2>8 DEF Throw
  <2>9. CASE UNCHANGED vars
    BY <2>9 DEF vars, main, channels, Pending, PendingIsUnderWay
  <2>10. CASE Initialize
    <3>1. alive \subseteq alive' /\ UNCHANGED <<status, inbox, answers, erred>>
      BY <2>10 DEF Initialize, channels
    <3> QED
      BY <3>1 DEF Pending, PendingIsUnderWay
  <2> QED
    BY <2>1, <2>2, <2>3, <2>4, <2>5, <2>6, <2>7, <2>8, <2>9, <2>10 DEF Next
<1> QED
  BY <1>1, <1>2, PoolInvariant, PTL DEF Spec

-----------------------------------------------------------------------------
(* What is left after destroy *)

LEMMA LeftInvariant == Spec => [](StraysHadErrors /\ DestroyedIsEmpty)
<1>1. Init => StraysHadErrors /\ DestroyedIsEmpty
  BY DEF Init, StraysHadErrors, DestroyedIsEmpty
<1>2. PoolInv /\ StraysHadErrors /\ DestroyedIsEmpty /\ [Next]_vars
          => StraysHadErrors' /\ DestroyedIsEmpty'
  <2> SUFFICES ASSUME PoolInv, StraysHadErrors, DestroyedIsEmpty, [Next]_vars
               PROVE  StraysHadErrors' /\ DestroyedIsEmpty'
    OBVIOUS
  <2> USE DEF PoolInv
  <2>1. ASSUME UNCHANGED <<workers, alive, replaced, destroyed>>
        PROVE  StraysHadErrors' /\ DestroyedIsEmpty'
    BY <2>1 DEF StraysHadErrors, DestroyedIsEmpty
  <2>2. ASSUME NEW w \in Worker, ReceiveError(w)
        PROVE  StraysHadErrors' /\ DestroyedIsEmpty'
    <3>1. CASE InPool(w)
      <4>1. Replace(w) /\ UNCHANGED destroyed
        BY <2>2, <3>1 DEF ReceiveError
      <4>2. /\ alive' \subseteq alive \cup Range(workers')
            /\ Range(workers) \ {w} \subseteq Range(workers')
        BY <4>1, ReplaceFacts
      <4>3. StraysHadErrors'
        BY <4>1, <4>2 DEF Replace, StraysHadErrors
      <4>4. workers # <<>>
        BY <3>1 DEF InPool, Range
      <4> QED
        BY <4>1, <4>3, <4>4 DEF DestroyedIsEmpty
    <3>2. CASE ~InPool(w)
      BY <2>1, <2>2, <3>2 DEF ReceiveError
    <3> QED
      BY <3>1, <3>2
  <2>3. CASE Destroy
    BY <2>3 DEF Destroy, TerminateWorkers, StraysHadErrors, DestroyedIsEmpty
  <2>4. CASE Execute
    BY <2>1, <2>4 DEF Execute
  <2>5. ASSUME NEW t \in Task, Timeout(t) PROVE StraysHadErrors' /\ DestroyedIsEmpty'
    BY <2>1, <2>5 DEF Timeout
  <2>6. ASSUME NEW a \in answers, ReceiveAnswer(a)
        PROVE  StraysHadErrors' /\ DestroyedIsEmpty'
    BY <2>1, <2>6 DEF ReceiveAnswer
  <2>7. ASSUME NEW p \in Plugin, RegisterPlugin(p)
        PROVE  StraysHadErrors' /\ DestroyedIsEmpty'
    BY <2>1, <2>7 DEF RegisterPlugin
  <2>8. ASSUME NEW w \in Worker, NEW t \in Task, Answer(w, t)
        PROVE  StraysHadErrors' /\ DestroyedIsEmpty'
    BY <2>1, <2>8 DEF Answer, main
  <2>9. ASSUME NEW w \in Worker, Throw(w) PROVE StraysHadErrors' /\ DestroyedIsEmpty'
    BY <2>1, <2>9 DEF Throw, main
  <2>10. CASE UNCHANGED vars
    BY <2>1, <2>10 DEF vars, main
  <2>11. CASE Initialize
    <3>1. destroyed' = FALSE /\ UNCHANGED replaced
      BY <2>11 DEF Initialize
    <3>2. \E S : Range(workers') = Range(workers) \cup S /\ alive' = alive \cup S
      BY <2>11, InitializeFacts
    <3> QED
      BY <3>1, <3>2 DEF StraysHadErrors, DestroyedIsEmpty
  <2> QED
    BY <2>2, <2>3, <2>4, <2>5, <2>6, <2>7, <2>8, <2>9, <2>10, <2>11 DEF Next
<1> QED
  BY <1>1, <1>2, PoolInvariant, PTL DEF Spec

\* A worker leaves the pool when it is terminated or when its error event is handled,
\* so nothing else runs unseen.
THEOREM NothingLeft == Spec => []StraysHadErrors
BY LeftInvariant, PTL

\* No event puts a worker into an emptied pool.
THEOREM NothingComesBack == Spec => []DestroyedIsEmpty
BY LeftInvariant, PTL

-----------------------------------------------------------------------------
(* What the workers know *)

\* Without w the workers of the pool are in the order they were in.
LEMMA WithoutOrder ==
    ASSUME TypeOK, NEW w \in Range(workers), \A i, j \in DOMAIN workers : workers[i] = workers[j] => i = j
    PROVE  /\ Without(w) \in Seq(Worker)
           /\ \A i, j \in DOMAIN Without(w) : Without(w)[i] = Without(w)[j] => i = j
           /\ Range(Without(w)) = Range(workers) \ {w}
           /\ \A i, j \in DOMAIN Without(w) : i < j =>
                  \E a, b \in DOMAIN workers :
                      a < b /\ Without(w)[i] = workers[a] /\ Without(w)[j] = workers[b]
<1>. PICK k \in DOMAIN workers : workers[k] = w /\ Without(w) = RemoveAt(workers, k)
  BY DEF Without, Range
<1>1. workers \in Seq(Worker)
  BY DEF TypeOK
<1>2. RemoveAt(workers, k) \in Seq(Worker)
  BY <1>1, RemoveAtFacts
<1>3. /\ \A i, j \in DOMAIN RemoveAt(workers, k) : RemoveAt(workers, k)[i] = RemoveAt(workers, k)[j] => i = j
      /\ Range(RemoveAt(workers, k)) = Range(workers) \ {w}
  BY <1>1, RemoveAtDistinct
<1>4. \A i, j \in DOMAIN RemoveAt(workers, k) : i < j =>
          \E a, b \in DOMAIN workers :
              a < b /\ RemoveAt(workers, k)[i] = workers[a] /\ RemoveAt(workers, k)[j] = workers[b]
  BY <1>1, RemoveAtOrder
<1> QED
  BY <1>2, <1>3, <1>4

\* No worker is in the pool twice, and one that is still to be created has been told of
\* nothing.
KnownInv ==
    /\ \A i, j \in DOMAIN workers : workers[i] = workers[j] => i = j
    /\ Range(FirstWorkers) \subseteq created
    /\ \A w \in Worker \ created : knows[w] = {}
    /\ RegisteredIsKnown

LEMMA KnownInit == Init => KnownInv
<1> SUFFICES ASSUME Init PROVE KnownInv
  OBVIOUS
<1>1. PICK k \in 0 .. Len(FirstWorkers) : workers = SubSeq(FirstWorkers, 1, k)
  BY DEF Init
<1>2. Len(FirstWorkers) \in Nat /\ DOMAIN FirstWorkers = 1 .. Len(FirstWorkers)
  BY WebPoolAssumption
<1>3. /\ workers \in Seq(Worker) /\ Len(workers) = k
      /\ \A i \in 1 .. k : workers[i] = FirstWorkers[i]
  BY <1>1, <1>2, SubSeqProperties, WebPoolAssumption
<1>4. \A i, j \in DOMAIN workers : workers[i] = workers[j] => i = j
  BY <1>2, <1>3, WebPoolAssumption
<1>5. \A i \in DOMAIN workers : workers[i] \in Worker
  BY <1>3
<1> QED
  BY <1>4, <1>5 DEF Init, KnownInv, RegisteredIsKnown, Range

LEMMA ReplaceKnown ==
    ASSUME PoolInv, KnownInv, NEW w \in Range(workers), Replace(w), UNCHANGED registeredPlugins
    PROVE  KnownInv'
<1>1. TypeOK /\ Range(workers) \subseteq alive /\ w \in Worker /\ w \in created
  BY DEF PoolInv, TypeOK
<1>. PICK left : left = Without(w)
  OBVIOUS
<1>2. /\ left \in Seq(Worker)
      /\ \A i, j \in DOMAIN left : left[i] = left[j] => i = j
      /\ Range(left) = Range(workers) \ {w}
      /\ \A i, j \in DOMAIN left : i < j =>
             \E a, b \in DOMAIN workers : a < b /\ left[i] = workers[a] /\ left[j] = workers[b]
  BY <1>1, WithoutOrder DEF KnownInv
<1>3. /\ knows' = [knows EXCEPT ![w] = {}]
      /\ \/ workers' = left /\ created' = created
         \/ \E v \in Worker \ created : workers' = Append(left, v) /\ created' = created \cup {v}
  BY DEF Replace
<1>4. \A v \in Worker \ {w} : knows'[v] = knows[v]
  BY <1>1, <1>3 DEF TypeOK
<1>5. knows'[w] = {}
  BY <1>1, <1>3 DEF TypeOK
<1>6. \A i \in DOMAIN left : left[i] \in Worker \ {w} /\ left[i] \in created /\ left[i] \in Range(workers)
  BY <1>1, <1>2 DEF Range, TypeOK
<1>7. ASSUME NEW i \in DOMAIN left, NEW j \in DOMAIN left, i < j
      PROVE  knows'[left[j]] \subseteq knows'[left[i]]
  <2>1. knows[left[j]] \subseteq knows[left[i]]
    BY <1>2, <1>7 DEF KnownInv, RegisteredIsKnown
  <2> QED
    BY <1>4, <1>6, <2>1
<1>8. \A v \in Range(left) \cap Range(FirstWorkers) : registeredPlugins' \subseteq knows'[v]
  <2>1. \A v \in Range(left) : v \in Range(workers) /\ knows'[v] = knows[v]
    BY <1>4, <1>6 DEF Range
  <2> QED
    BY <2>1 DEF KnownInv, RegisteredIsKnown
<1>9. CASE workers' = left /\ created' = created
  BY <1>2, <1>4, <1>5, <1>7, <1>8, <1>9 DEF KnownInv, RegisteredIsKnown
<1>10. ASSUME NEW v \in Worker \ created, workers' = Append(left, v), created' = created \cup {v}
       PROVE  KnownInv'
  <2>1. knows'[v] = {} /\ v \notin Range(FirstWorkers) /\ v \notin Range(left)
    BY <1>1, <1>4, <1>6 DEF KnownInv, Range
  <2>2. \A i, j \in DOMAIN workers' : workers'[i] = workers'[j] => i = j
    BY <1>2, <1>10, <2>1, AppendDistinct
  <2>3. Range(workers') = Range(left) \cup {v}
    BY <1>2, <1>10, AppendRange
  <2>4. /\ Len(left) \in Nat /\ DOMAIN left = 1 .. Len(left)
        /\ DOMAIN workers' = 1 .. (Len(left) + 1)
        /\ \A k \in 1 .. Len(left) : workers'[k] = left[k]
        /\ workers'[Len(left) + 1] = v
    BY <1>2, <1>10, AppendProperties, LenProperties
  <2>5. ASSUME NEW i \in DOMAIN workers', NEW j \in DOMAIN workers', i < j
        PROVE  knows'[workers'[j]] \subseteq knows'[workers'[i]]
    <3>1. CASE j = Len(left) + 1
      BY <2>1, <2>4, <3>1
    <3>2. CASE j # Len(left) + 1
      <4>1. i \in DOMAIN left /\ j \in DOMAIN left
        BY <2>4, <2>5, <3>2
      <4> QED
        BY <1>7, <2>4, <2>5, <4>1
    <3> QED
      BY <3>1, <3>2
  <2>6. \A u \in Range(workers') \cap Range(FirstWorkers) : registeredPlugins' \subseteq knows'[u]
    BY <1>8, <2>1, <2>3
  <2>7. RegisteredIsKnown'
    BY <2>5, <2>6 DEF RegisteredIsKnown
  <2>8. Range(FirstWorkers) \subseteq created' /\ \A u \in Worker \ created' : knows'[u] = {}
    BY <1>1, <1>4, <1>10 DEF KnownInv
  <2> QED
    BY <2>2, <2>7, <2>8 DEF KnownInv
<1> QED
  BY <1>3, <1>9, <1>10

LEMMA RegisterKnown ==
    ASSUME PoolInv, KnownInv, NEW p \in Plugin, RegisterPlugin(p)
    PROVE  KnownInv'
<1>1. UNCHANGED <<workers, created>> /\ registeredPlugins' = registeredPlugins \cup {p}
  BY DEF RegisterPlugin
<1>2. \A w \in Range(workers) : w \in Worker /\ w \in created
  BY DEF PoolInv, TypeOK
<1>3. \A w \in Range(workers) : knows'[w] = knows[w] \cup {p}
  BY <1>2 DEF RegisterPlugin, Told
<1>4. \A w \in Worker \ Range(workers) : knows'[w] = knows[w]
  BY DEF RegisterPlugin, Told
<1>5. \A i \in DOMAIN workers : workers[i] \in Range(workers)
  BY DEF Range
<1>6. RegisteredIsKnown'
  BY <1>1, <1>3, <1>5 DEF KnownInv, RegisteredIsKnown
<1>7. \A w \in Worker \ created : knows'[w] = {}
  BY <1>2, <1>4 DEF KnownInv
<1> QED
  BY <1>1, <1>6, <1>7 DEF KnownInv

\* New workers know nothing, and come after those that know something.
LEMMA InitializeKnown ==
    ASSUME PoolInv, KnownInv, Initialize
    PROVE  KnownInv'
<1>1. TypeOK /\ UNCHANGED <<knows, registeredPlugins>>
  BY DEF PoolInv, Initialize, channels
<1>. PICK fresh \in Seq(Worker \ created) :
          /\ \A i, j \in DOMAIN fresh : fresh[i] = fresh[j] => i = j
          /\ workers' = workers \o fresh /\ workers' \in Seq(Worker)
          /\ Range(workers') = Range(workers) \cup Range(fresh)
          /\ Range(fresh) \subseteq Worker \ created
          /\ created' = created \cup Range(fresh)
  BY <1>1, InitializeFacts
<1>2. workers \in Seq(Worker) /\ fresh \in Seq(Worker) /\ Range(workers) \subseteq created
  <2>1. fresh \in Seq(Worker)
    BY SeqDef
  <2>2. Range(workers) \subseteq created
    BY <1>1 DEF PoolInv, TypeOK
  <2> QED
    BY <1>1, <2>1, <2>2 DEF TypeOK
<1>3. \A i, j \in DOMAIN workers' : workers'[i] = workers'[j] => i = j
  <2>1. Range(workers) \cap Range(fresh) = {}
    BY <1>2
  <2>2. \A i, j \in DOMAIN workers : workers[i] = workers[j] => i = j
    BY DEF KnownInv
  <2>3. workers \in Seq(Worker) /\ fresh \in Seq(Worker)
    BY <1>2
  <2>4. \A i, j \in DOMAIN fresh : fresh[i] = fresh[j] => i = j
    OBVIOUS
  <2>5. \A i, j \in DOMAIN (workers \o fresh) :
            (workers \o fresh)[i] = (workers \o fresh)[j] => i = j
    BY ONLY <2>1, <2>2, <2>3, <2>4, ConcatDistinct
  <2> QED
    BY <2>5
<1>4. \A v \in Range(fresh) : knows[v] = {} /\ v \notin Range(FirstWorkers)
  BY DEF KnownInv
<1>5. \A v \in Range(workers') \cap Range(FirstWorkers) : registeredPlugins \subseteq knows[v]
  BY <1>4 DEF KnownInv, RegisteredIsKnown
<1>. PICK l \in Nat, m \in Nat : Joined(workers, fresh, workers', l, m)
  BY <1>2, ConcatItems
<1>6. ASSUME NEW i \in DOMAIN workers', NEW j \in DOMAIN workers', i < j
      PROVE  knows[workers'[j]] \subseteq knows[workers'[i]]
  <2>1. CASE j \in 1 .. l
    <3>1. /\ i \in DOMAIN workers /\ j \in DOMAIN workers
          /\ workers'[i] = workers[i] /\ workers'[j] = workers[j]
      BY <1>6, <2>1 DEF Joined
    <3> QED
      BY <1>6, <3>1 DEF KnownInv, RegisteredIsKnown
  <2>2. CASE j \notin 1 .. l
    <3>1. j - l \in DOMAIN fresh /\ l + (j - l) = j
      BY <1>6, <2>2 DEF Joined
    <3>2. workers'[j] = fresh[j - l]
      BY <3>1 DEF Joined
    <3>3. workers'[j] \in Range(fresh)
      BY <3>1, <3>2 DEF Range
    <3> QED
      BY <1>4, <3>3
  <2> QED
    BY <2>1, <2>2
<1>7. Range(FirstWorkers) \subseteq created' /\ \A v \in Worker \ created' : knows[v] = {}
  BY DEF KnownInv
<1> QED
  BY <1>1, <1>3, <1>5, <1>6, <1>7 DEF KnownInv, RegisteredIsKnown

LEMMA KnownStep == PoolInv /\ KnownInv /\ [Next]_vars => KnownInv'
<1> SUFFICES ASSUME PoolInv, KnownInv, [Next]_vars PROVE KnownInv'
  OBVIOUS
<1>1. ASSUME UNCHANGED <<workers, knows, registeredPlugins, created>> PROVE KnownInv'
  BY <1>1 DEF KnownInv, RegisteredIsKnown
<1>2. ASSUME NEW w \in Worker, ReceiveError(w) PROVE KnownInv'
  BY <1>1, <1>2, ReplaceKnown DEF ReceiveError, InPool
<1>3. CASE Destroy
  <2>1. workers' = <<>> /\ DOMAIN workers' = {} /\ Range(workers') = {}
    BY <1>3, EmptySeq DEF Destroy, Range
  <2> QED
    BY <1>3, <2>1 DEF Destroy, KnownInv, RegisteredIsKnown
<1>4. ASSUME NEW p \in Plugin, RegisterPlugin(p) PROVE KnownInv'
  BY <1>4, RegisterKnown
<1>5. CASE Execute \/ \E t \in Task : Timeout(t)
  BY <1>1, <1>5 DEF Execute, Timeout, channels
<1>6. CASE \E a \in answers : ReceiveAnswer(a)
  BY <1>1, <1>6 DEF ReceiveAnswer
<1>7. CASE (\E w \in Worker : Throw(w)) \/ \E w \in Worker, t \in Task : Answer(w, t)
  BY <1>1, <1>7 DEF Throw, Answer, main
<1>8. CASE UNCHANGED vars
  BY <1>1, <1>8 DEF vars, main, channels
<1>9. CASE Initialize
  BY <1>9, InitializeKnown
<1> QED
  BY <1>2, <1>3, <1>4, <1>5, <1>6, <1>7, <1>8, <1>9 DEF Next

\* A worker of the first pool is told of every plugin that is registered while it is
\* there, and a worker that replaces another comes after those that know more.
THEOREM PluginsAnnounced == Spec => []RegisteredIsKnown
<1>1. KnownInv => RegisteredIsKnown
  BY DEF KnownInv
<1> QED
  BY <1>1, KnownInit, KnownStep, PoolInvariant, PTL DEF Spec

-----------------------------------------------------------------------------
(* The contract *)

Results == {t \in Task : [task |-> t, type |-> "result"] \in answers}

\* Rejecting queued tasks while no result is added is a Reject of the contract.
LEMMA RejectImplements ==
    ASSUME NEW tasks, Settle(tasks, "rejected"), answers' \subseteq answers
    PROVE  Contract!Next
<1>1. PICK S \in SUBSET Task : S = tasks \cap Pending
  BY DEF Pending
<1>2. status' = Contract!Settled(S, "rejected")
  BY <1>1 DEF Settle, Contract!Settled
<1>3. Contract!Reject(S)
  BY <1>1, <1>2 DEF Contract!Reject, Pending
<1> QED
  BY <1>3 DEF Contract!Next

\* The pool implements the contract of every pool: each of its steps settles no call
\* that is not pending, and resolves one only with the result that came for it.
THEOREM ContractKept == Spec => KeepsContract
<1>1. Init => Contract!Init
  BY DEF Init, Contract!Init
<1>2. PoolInv /\ [Next]_vars => [Contract!Next]_<<status, Results>>
  <2> SUFFICES ASSUME PoolInv, [Next]_vars PROVE [Contract!Next]_<<status, Results>>
    OBVIOUS
  <2> USE DEF PoolInv
  <2>1. CASE Execute
    <3> DEFINE t == taskIdCounter
    <3>1. t \in Task /\ t \in Nat
      BY <2>1, WebPoolAssumption DEF Execute, TypeOK, Task
    <3>2. status[t] = "new"
      BY <3>1 DEF Fresh
    <3>3. /\ status' \in {[status EXCEPT ![t] = "pending"], [status EXCEPT ![t] = "rejected"]}
          /\ UNCHANGED answers
      BY <2>1 DEF Execute
    <3> HIDE DEF t
    <3>4. \A st : [status EXCEPT ![t] = st] = Contract!Settled({t}, st)
      BY <3>1 DEF TypeOK, Contract!Settled
    <3>5. Contract!Submit(t)
      BY <3>2, <3>3, <3>4 DEF Contract!Submit
    <3> QED
      BY <3>1, <3>5 DEF Contract!Next
  <2>2. ASSUME NEW t \in Task, Timeout(t) PROVE Contract!Next
    BY <2>2, RejectImplements DEF Timeout, channels
  <2>3. ASSUME NEW a \in answers, ReceiveAnswer(a) PROVE Contract!Next
    <3>1. a.task \in Task /\ a.type \in AnswerType /\ a = [task |-> a.task, type |-> a.type]
      BY DEF TypeOK
    <3>2. answers' \subseteq answers
      BY <2>3 DEF ReceiveAnswer
    <3>3. CASE Awaited(a.task) /\ a.task \in Pending /\ a.type = "result"
      <4>1. status' = Contract!Settled({a.task}, "resolved")
        BY <2>3, <3>3 DEF ReceiveAnswer, Outcome, Settle, Contract!Settled
      <4>2. Contract!Resolve(a.task)
        BY <3>1, <3>2, <3>3, <4>1 DEF Contract!Resolve, Pending
      <4> QED
        BY <3>1, <4>2 DEF Contract!Next
    <3>4. CASE Awaited(a.task) /\ a.type # "result"
      <4>1. Settle({a.task}, "rejected")
        BY <2>3, <3>4 DEF ReceiveAnswer, Outcome
      <4> QED
        BY <3>2, <4>1, RejectImplements
    <3>5. CASE ~Awaited(a.task) \/ a.task \notin Pending
      <4>1. Settle({}, "rejected")
        BY <2>3, <3>5 DEF ReceiveAnswer, Settle, TypeOK
      <4> QED
        BY <3>2, <4>1, RejectImplements
    <3> QED
      BY <3>3, <3>4, <3>5
  <2>4. ASSUME NEW w \in Worker, ReceiveError(w) PROVE Contract!Next
    BY <2>4, RejectImplements DEF ReceiveError
  <2>5. ASSUME NEW p \in Plugin, RegisterPlugin(p) PROVE UNCHANGED <<status, Results>>
    BY <2>5 DEF RegisterPlugin, Results
  <2>6. CASE Destroy
    BY <2>6, RejectImplements DEF Destroy
  <2>7. ASSUME NEW w \in Worker, NEW t \in Task, Answer(w, t)
        PROVE  [Contract!Next]_<<status, Results>>
    <3>1. PICK type \in AnswerType : answers' = answers \cup {[task |-> t, type |-> type]}
      BY <2>7 DEF Answer
    <3>2. status[t] # "new" /\ UNCHANGED status
      BY <2>7 DEF Answer, main, PostedIsSubmitted
    <3>3. Results' = Results \cup {u \in Task : u = t /\ type = "result"}
      BY <3>1 DEF Results
    <3>4. CASE type = "result"
      <4>1. Contract!Compute(t)
        BY <3>2, <3>3, <3>4 DEF Contract!Compute, Results
      <4> QED
        BY <4>1 DEF Contract!Next
    <3>5. CASE type # "result"
      BY <3>2, <3>3, <3>5
    <3> QED
      BY <3>4, <3>5
  <2>8. ASSUME NEW w \in Worker, Throw(w) PROVE UNCHANGED <<status, Results>>
    BY <2>8 DEF Throw, main, Results
  <2>9. CASE UNCHANGED vars
    BY <2>9 DEF vars, main, channels, Results
  <2>10. CASE Initialize
    BY <2>10 DEF Initialize, channels, Results
  <2> QED
    BY <2>1, <2>2, <2>3, <2>4, <2>5, <2>6, <2>7, <2>8, <2>9, <2>10 DEF Next
<1> QED
  BY <1>1, <1>2, PoolInvariant, PTL DEF Spec, KeepsContract, Contract!Spec, Results
=============================================================================
