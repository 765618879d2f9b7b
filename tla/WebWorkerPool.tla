---------------------------- MODULE WebWorkerPool ----------------------------
(***************************************************************************)
(* WebWorkerContext (utils/execution/web-worker-context.ts): the pool of   *)
(* Web Workers of a browser.  Unlike in the Node.js pool, tasks go round   *)
(* robin by their number, plugins are announced to the workers, and a      *)
(* worker that raises an error is taken from the pool but not terminated.  *)
(* The workers and the channels to and from them are external; a message   *)
(* and an 'error' event of one worker may arrive in either order.          *)
(***************************************************************************)
EXTENDS Naturals, Sequences, SequencesExt, FiniteSets

CONSTANTS
    Worker,        \* bound: the workers that can ever be created
    FirstWorkers,  \* the workers that initialize creates, in order
    MaxTasks,      \* bound: the tasks that are given a number
    Plugin         \* the plugins callers register

ASSUME WebPoolAssumption ==
    /\ FirstWorkers \in Seq(Worker)
    /\ \A i, j \in DOMAIN FirstWorkers : i # j => FirstWorkers[i] # FirstWorkers[j]
    /\ MaxTasks \in Nat

Task == 0 .. (MaxTasks - 1)

VARIABLES
    workers,            \* the pool, in index order
    taskIdCounter,      \* the number of the next task
    taskQueue,          \* tasks that have an entry, with a timer, in the queue
    status,             \* the promise of each task
    registeredPlugins,
    inbox,              \* tasks posted to a worker and not answered yet
    knows,              \* plugins announced to a worker of the pool
    answers,            \* answers that the main thread has not handled yet
    erred,              \* workers whose 'error' event has not been handled yet
    alive,              \* workers that run
    created,            \* workers that were created, or failed to be
    replaced,           \* history: workers whose 'error' event was handled in the pool
    destroyed           \* destroy() was called, and initialize() not since

main == <<workers, taskIdCounter, taskQueue, status, registeredPlugins, replaced, destroyed>>
channels == <<inbox, knows, answers, erred>>
vars == <<main, channels, alive, created>>

AnswerType == {"result", "error"}

TypeOK ==
    /\ workers \in Seq(Worker)
    /\ taskIdCounter \in 0 .. MaxTasks
    /\ taskQueue \subseteq Task
    /\ status \in [Task -> {"new", "pending", "resolved", "rejected"}]
    /\ registeredPlugins \subseteq Plugin
    /\ inbox \in [Worker -> SUBSET Task]
    /\ knows \in [Worker -> SUBSET Plugin]
    /\ answers \subseteq [task : Task, type : AnswerType]
    /\ erred \subseteq created /\ alive \subseteq created /\ replaced \subseteq created
    /\ created \subseteq Worker
    /\ destroyed \in BOOLEAN

-----------------------------------------------------------------------------

Pending == {t \in Task : status[t] = "pending"}

\* Settling a promise a second time does nothing.
SettleOnly(tasks, with) ==                                      \* mutant
    status' = [t \in tasks \cap Pending |-> with]
Settle(tasks, with) ==
    status' = [t \in Task |-> IF t \in tasks \cap Pending THEN with ELSE status[t]]

KeepQueued(tasks) == UNCHANGED taskQueue                        \* mutant
Unqueue(tasks) == taskQueue' = taskQueue \ tasks

-----------------------------------------------------------------------------
(* The main thread *)

\* execute, for a task that is worth a worker.  A message that cannot be cloned
\* makes postMessage throw: the promise is rejected, the task stays queued.
RoundRobin(t) == workers[(t % Len(workers)) + 1]

Execute ==
    /\ workers # <<>>
    /\ taskIdCounter < MaxTasks
    /\ LET t == taskIdCounter
           w == RoundRobin(t)
       IN  /\ taskQueue' = taskQueue \cup {t}
           /\ \/ /\ status' = [status EXCEPT ![t] = "pending"]
                 /\ inbox' = [inbox EXCEPT ![w] = @ \cup {t}]
              \/ /\ status' = [status EXCEPT ![t] = "rejected"]
                 /\ UNCHANGED inbox
    /\ taskIdCounter' = taskIdCounter + 1
    /\ UNCHANGED <<workers, registeredPlugins, replaced, destroyed,
                   knows, answers, erred, alive, created>>

\* The timer of a task fires.
Timeout(t) ==
    /\ t \in taskQueue
    /\ Unqueue({t})
    /\ Settle({t}, "rejected")
    /\ UNCHANGED <<workers, taskIdCounter, registeredPlugins, replaced, destroyed,
                   channels, alive, created>>

\* handleWorkerMessage.  `!message?.taskId` also holds of the task number 0.
Awaited(t) == t # 0 /\ t \in taskQueue

AlwaysResolved(type) == "resolved"                              \* mutant
Outcome(type) == IF type = "result" THEN "resolved" ELSE "rejected"

ReceiveAnswer(a) ==
    /\ a \in answers
    /\ answers' = answers \ {a}
    /\ IF Awaited(a.task)
       THEN Settle({a.task}, Outcome(a.type)) /\ Unqueue({a.task})
       ELSE UNCHANGED <<taskQueue, status>>
    /\ UNCHANGED <<workers, taskIdCounter, registeredPlugins, replaced, destroyed,
                   inbox, knows, erred, alive, created>>

\* The pool without w.
Without(w) ==
    IF w \in Range(workers)
    THEN RemoveAt(workers, CHOOSE k \in DOMAIN workers : workers[k] = w)
    ELSE workers

\* onerror of w.  All tasks are rejected, those of other workers too.  createWorker
\* may fail; a new worker is told of no plugin.
HitByOwnError(w) == taskQueue \cap inbox[w]                      \* mutant
HitByNoError(w) == {}                                           \* mutant
HitByError(w) == taskQueue

Anybody(w) == TRUE                                              \* mutant
InPool(w) == w \in Range(workers)

Replace(w) ==
    /\ replaced' = replaced \cup {w}
    /\ knows' = [knows EXCEPT ![w] = {}]
    /\ \/ /\ workers' = Without(w)
          /\ UNCHANGED <<created, alive>>
       \/ \E v \in Worker \ created :
              /\ workers' = Append(Without(w), v)
              /\ created' = created \cup {v}
              /\ alive' = alive \cup {v}

ReceiveError(w) ==
    /\ w \in erred
    /\ erred' = erred \ {w}
    /\ Settle(HitByError(w), "rejected")
    /\ Unqueue(HitByError(w))
    /\ IF InPool(w) THEN Replace(w)
                    ELSE UNCHANGED <<workers, created, alive, replaced, knows>>
    /\ UNCHANGED <<taskIdCounter, registeredPlugins, destroyed, inbox, answers>>

AllButFirst == {workers[i] : i \in 2 .. Len(workers)}            \* mutant
Told == Range(workers)

RegisterPlugin(p) ==
    /\ p \notin registeredPlugins
    /\ registeredPlugins' = registeredPlugins \cup {p}
    /\ knows' = [w \in Worker |-> IF w \in Told THEN knows[w] \cup {p} ELSE knows[w]]
    /\ UNCHANGED <<workers, taskIdCounter, taskQueue, status, replaced, destroyed,
                   inbox, answers, erred, alive, created>>

\* destroy and terminate.  Events that are already under way may still arrive.
ClearFirst == UNCHANGED alive                                   \* mutant
TerminateWorkers == alive' = alive \ Range(workers)

Destroy ==
    /\ TerminateWorkers
    /\ Settle(taskQueue, "rejected")
    /\ Unqueue(taskQueue)
    /\ workers' = <<>>
    /\ registeredPlugins' = {}
    /\ destroyed' = TRUE
    /\ inbox' = [w \in Worker |-> IF w \in alive' THEN inbox[w] ELSE {}]
    /\ knows' = [w \in Worker |-> {}]
    /\ UNCHANGED <<taskIdCounter, replaced, answers, erred, created>>

\* initialize, called again: the new workers come after those that are there, and into
\* a destroyed pool too.  Any of them may fail to be created.
Initialize ==
    /\ \E k \in 0 .. Len(FirstWorkers) : \E fresh \in [1 .. k -> Worker \ created] :
          /\ \A i, j \in 1 .. k : fresh[i] = fresh[j] => i = j
          /\ workers' = workers \o fresh
          /\ created' = created \cup Range(fresh)
          /\ alive' = alive \cup Range(fresh)
    /\ destroyed' = FALSE
    /\ UNCHANGED <<taskIdCounter, taskQueue, status, registeredPlugins, replaced, channels>>

-----------------------------------------------------------------------------
(* The workers *)

\* Computations of one worker may end in any order.
Answer(w, t) ==
    /\ w \in alive
    /\ t \in inbox[w]
    /\ inbox' = [inbox EXCEPT ![w] = @ \ {t}]
    /\ \E type \in AnswerType : answers' = answers \cup {[task |-> t, type |-> type]}
    /\ UNCHANGED <<main, knows, erred, alive, created>>

\* An error that nothing in the worker catches.  The worker runs on, without the task
\* it was at.  One whose script does not load throws so and answers nothing after.
Throw(w) ==
    /\ w \in alive \ erred
    /\ \E lost \in {{}} \cup {{t} : t \in inbox[w]} :
          inbox' = [inbox EXCEPT ![w] = @ \ lost]
    /\ erred' = erred \cup {w}
    /\ UNCHANGED <<main, knows, answers, alive, created>>

-----------------------------------------------------------------------------

\* The constructor's initialize, which keeps the workers that could be created.
Init ==
    /\ \E k \in 0 .. Len(FirstWorkers) : workers = SubSeq(FirstWorkers, 1, k)
    /\ taskIdCounter = 0
    /\ taskQueue = {}
    /\ status = [t \in Task |-> "new"]
    /\ registeredPlugins = {}
    /\ inbox = [w \in Worker |-> {}]
    /\ knows = [w \in Worker |-> {}]
    /\ answers = {}
    /\ erred = {}
    /\ created = Range(FirstWorkers)
    /\ alive = Range(workers)
    /\ replaced = {}
    /\ destroyed = FALSE

Next ==
    \/ Execute \/ Destroy \/ Initialize
    \/ \E t \in Task : Timeout(t)
    \/ \E a \in answers : ReceiveAnswer(a)
    \/ \E p \in Plugin : RegisterPlugin(p)
    \/ \E w \in Worker : ReceiveError(w) \/ Throw(w)
    \/ \E w \in Worker, t \in Task : Answer(w, t)

\* The event loop handles events, and a running worker ends its computations.
\* Nothing is assumed of the timers and the callers.
Spec ==
    /\ Init /\ [][Next]_vars
    /\ WF_vars(\E a \in answers : ReceiveAnswer(a))
    /\ \A w \in Worker : WF_vars(ReceiveError(w)) /\ WF_vars(\E t \in Task : Answer(w, t))
-----------------------------------------------------------------------------
(* Properties *)

\* A promise that is awaited has its entry and timer, also after crashes and late
\* answers; an entry is left behind by a settled promise only if its task could not be
\* posted: postMessage threw with the entry already made (web-worker-context.ts:363-376).
QueueAgrees ==
    /\ Pending \subseteq taskQueue
    /\ \A t \in taskQueue \ Pending :
           /\ status[t] = "rejected"
           /\ \A w \in Worker : t \notin inbox[w]
           /\ \A a \in answers : a.task # t

\* A pending task has not been forgotten: a running worker has it, its answer is under
\* way, or so is an error event, which rejects every task, its own worker's or not.
\* An answer to the task number 0 is thrown away (web-worker-context.ts:95).
PendingIsUnderWay ==
    \A t \in Pending \ {0} :
        \/ \E w \in alive : t \in inbox[w]
        \/ \E a \in answers : a.task = t
        \/ erred # {}

\* No task but the number 0, the first of a pool, needs its timeout to be settled.
SettledWithoutTimeout ==
    \A t \in Task \ {0} : t \in Pending ~> t \notin Pending

\* A worker that runs is in the pool, where destroy will terminate it, unless it raised
\* an error: such a worker is taken from the pool and nobody terminates it.
StraysHadErrors == alive \subseteq Range(workers) \cup replaced

\* A destroyed pool stays empty: an error event that arrives late creates no worker
\* (web-worker-context.ts:151, where the Node.js pool has no such check).
DestroyedIsEmpty == destroyed => workers = <<>>

\* The first workers were told of every registered plugin, and a worker knows at least
\* what a younger one knows.  A worker that replaces another was told only of plugins
\* registered since (web-worker-context.ts:391-396).
RegisteredIsKnown ==
    /\ \A w \in Range(workers) \cap Range(FirstWorkers) : registeredPlugins \subseteq knows[w]
    /\ \A i, j \in DOMAIN workers : i < j => knows[workers[j]] \subseteq knows[workers[i]]

Contract == INSTANCE TaskContract
    WITH results <- {t \in Task : [task |-> t, type |-> "result"] \in answers}

\* The pool keeps the promise of every pool: no call is settled twice, or resolved
\* without its own result, whatever comes late or is lost.
KeepsContract == Contract!Spec
=============================================================================
