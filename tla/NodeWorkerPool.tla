--------------------------- MODULE NodeWorkerPool ---------------------------
(***************************************************************************)
(* NodeWorkerContext (utils/execution/node-worker-context.ts): a pool of   *)
(* Node.js worker threads that computes nodes in parallel.  The main       *)
(* thread keeps the list of workers, the tasks each list position holds    *)
(* and the promise of every pending task; the workers and the channels to  *)
(* and from them are external.                                             *)
(***************************************************************************)
EXTENDS Naturals, Sequences, SequencesExt, FiniteSets

CONSTANTS
    Worker,        \* bound: the worker threads that can ever be created
    Task,          \* bound: the calls of execute
    FirstWorkers,  \* the workers the constructor creates, in order
    MayExit        \* workers that may exit without an 'error' event

MaxWorkers == Len(FirstWorkers)

ASSUME PoolAssumption ==
    /\ FirstWorkers \in Seq(Worker)
    /\ \A i, j \in DOMAIN FirstWorkers : i # j => FirstWorkers[i] # FirstWorkers[j]
    /\ MayExit \subseteq Worker

VARIABLES
    workers,       \* the pool, in index order
    load,          \* pendingTasksByWorker: the tasks of each index
    status,        \* the promise of each task
    inbox,         \* tasks posted to a worker and not answered yet
    outbox,        \* events of a worker that the main thread has not handled yet
    alive,         \* workers whose thread runs
    ended,         \* history: workers that ended without an 'error' event
    created,       \* workers created so far
    terminated     \* terminate() was called

channels == <<inbox, outbox, alive, ended>>
vars == <<workers, load, status, channels, created, terminated>>

Event == [type : {"result", "error"}, task : Task] \cup [type : {"crash"}]

TypeOK ==
    /\ workers \in Seq(Worker) /\ Len(workers) <= MaxWorkers
    /\ load \in Seq(SUBSET Task)
    /\ status \in [Task -> {"new", "pending", "resolved", "rejected"}]
    /\ inbox \in [Worker -> Seq(Task)]
    /\ outbox \in [Worker -> Seq(Event)]
    /\ alive \subseteq created
    /\ ended \subseteq created \ alive
    /\ created \subseteq Worker
    /\ terminated \in BOOLEAN

-----------------------------------------------------------------------------

Pending == {t \in Task : status[t] = "pending"}

Settle(tasks, with) ==
    status' = [t \in Task |-> IF t \in tasks THEN with ELSE status[t]]

\* The first index with the fewest pending tasks.
LeastLoaded(i) ==
    /\ i \in DOMAIN workers
    /\ \A j \in DOMAIN workers : Cardinality(load[i]) <= Cardinality(load[j])
    /\ \A j \in 1 .. (i - 1) : Cardinality(load[i]) < Cardinality(load[j])

Holds(w, t) == \E i \in DOMAIN workers : workers[i] = w /\ t \in load[i]

\* What every index holds without t.
WithoutTask(t) == [i \in DOMAIN load |-> load[i] \ {t}]

-----------------------------------------------------------------------------
(* The main thread *)

\* execute.  A message that cannot be cloned is an exception of postMessage.
Execute(t) ==
    /\ status[t] = "new"
    /\ \/ /\ workers = <<>>
          /\ Settle({t}, "rejected")
          /\ UNCHANGED <<load, inbox>>
       \/ \E i \in DOMAIN workers :
              /\ LeastLoaded(i)
              /\ \/ /\ Settle({t}, "pending")
                    /\ load' = [load EXCEPT ![i] = @ \cup {t}]
                    /\ inbox' = [inbox EXCEPT ![workers[i]] = Append(@, t)]
                 \/ /\ Settle({t}, "rejected")
                    /\ UNCHANGED <<load, inbox>>
    /\ UNCHANGED <<workers, outbox, alive, ended, created, terminated>>

\* The timer of a task fires.
Timeout(t) ==
    /\ t \in Pending
    /\ Settle({t}, "rejected")
    /\ load' = WithoutTask(t)
    /\ UNCHANGED <<workers, channels, created, terminated>>

AlwaysResolved(type) == "resolved"                              \* mutant
Outcome(type) == IF type = "result" THEN "resolved" ELSE "rejected"

\* The 'message' handler.  An answer to a task that is not pending is ignored.
ReceiveAnswer(w) ==
    /\ outbox[w] # <<>>
    /\ LET e == Head(outbox[w])
       IN  /\ e.type \in {"result", "error"}
           /\ IF e.task \in Pending
              THEN /\ Settle({e.task}, Outcome(e.type))
                   /\ load' = [i \in DOMAIN load |-> IF workers[i] = w THEN load[i] \ {e.task}
                                                                       ELSE load[i]]
              ELSE UNCHANGED <<status, load>>
    /\ outbox' = [outbox EXCEPT ![w] = Tail(@)]
    /\ UNCHANGED <<workers, inbox, alive, ended, created, terminated>>

\* The pool without w.
CrashedStays(w) == workers                                      \* mutant
Survivors(w) ==
    IF w \in Range(workers)
    THEN RemoveAt(workers, CHOOSE k \in DOMAIN workers : workers[k] = w)
    ELSE workers

\* reindexWorkerTaskMap for the pool `rest`, then createWorker, or its failure.
Recreate(rest) ==
    \/ /\ Len(rest) < MaxWorkers
       /\ \E v \in Worker \ created :
              /\ workers' = Append(rest, v)
              /\ load' = [i \in 1 .. (Len(rest) + 1) |-> {}]
              /\ created' = created \cup {v}
              /\ alive' = alive \cup {v}
    \/ /\ workers' = rest
       /\ load' = [i \in 1 .. Len(rest) |-> {}]
       /\ UNCHANGED <<created, alive>>

\* The 'error' handler.
RejectOwn(w) ==                                                 \* mutant
    Settle(UNION {load[i] : i \in {j \in DOMAIN workers : workers[j] = w}}, "rejected")
RejectNobody(w) == UNCHANGED status                             \* mutant
MarkCrashed(w) == Settle(Pending, "crashed")                    \* mutant
RejectOnCrash(w) == Settle(Pending, "rejected")

ReceiveCrash(w) ==
    /\ outbox[w] # <<>>
    /\ Head(outbox[w]).type = "crash"
    /\ RejectOnCrash(w)
    /\ Recreate(Survivors(w))
    /\ outbox' = [outbox EXCEPT ![w] = Tail(@)]
    /\ UNCHANGED <<inbox, ended, terminated>>

\* terminate, also on process exit.  Events that are already under way still
\* arrive.
Terminate ==
    /\ ~terminated \/ workers # <<>>
    /\ Settle(Pending, "rejected")
    /\ load' = <<>>
    /\ workers' = <<>>
    /\ alive' = alive \ Range(workers)
    /\ terminated' = TRUE
    /\ UNCHANGED <<inbox, outbox, ended, created>>

\* Threads that end and raise no 'error' event: the pool does not hear of it.
EndSilently(threads) ==
    /\ alive' = alive \ threads
    /\ ended' = ended \cup threads
    /\ inbox' = [w \in Worker |-> IF w \in threads THEN <<>> ELSE inbox[w]]
    /\ UNCHANGED <<workers, load, status, outbox, created, terminated>>

\* waitForTermination ends the workers itself: it settles no task and leaves the
\* workers in the pool, which goes on posting tasks to them.
WaitForTermination ==
    /\ Range(workers) \cap alive # {}
    /\ EndSilently(Range(workers) \cap alive)

-----------------------------------------------------------------------------
(* The workers *)

\* Computations are asynchronous in the worker too: any task may be answered next.
Answer(w) ==
    /\ w \in alive
    /\ \E k \in DOMAIN inbox[w], type \in {"result", "error"} :
          /\ outbox' = [outbox EXCEPT ![w] =
                            Append(@, [type |-> type, task |-> inbox[w][k]])]
          /\ inbox' = [inbox EXCEPT ![w] = RemoveAt(@, k)]
    /\ UNCHANGED <<workers, load, status, alive, ended, created, terminated>>

Crash(w) ==
    /\ w \in alive
    /\ alive' = alive \ {w}
    /\ inbox' = [inbox EXCEPT ![w] = <<>>]
    /\ outbox' = [outbox EXCEPT ![w] = Append(@, [type |-> "crash"])]
    /\ UNCHANGED <<workers, load, status, ended, created, terminated>>

Exit(w) ==
    /\ w \in alive \cap MayExit
    /\ EndSilently({w})

-----------------------------------------------------------------------------

Init ==
    /\ workers = FirstWorkers
    /\ load = [i \in 1 .. MaxWorkers |-> {}]
    /\ status = [t \in Task |-> "new"]
    /\ inbox = [w \in Worker |-> <<>>]
    /\ outbox = [w \in Worker |-> <<>>]
    /\ created = Range(workers)
    /\ alive = created
    /\ ended = {}
    /\ terminated = FALSE

Receive(w) == ReceiveAnswer(w) \/ ReceiveCrash(w)

Next ==
    \/ \E t \in Task : Execute(t) \/ Timeout(t)
    \/ \E w \in Worker : Receive(w) \/ Answer(w) \/ Crash(w) \/ Exit(w)
    \/ Terminate \/ WaitForTermination

\* The event loop handles events, and a running worker works.  Nothing is assumed
\* of the timers.
Spec ==
    /\ Init /\ [][Next]_vars
    /\ \A w \in Worker : WF_vars(Receive(w)) /\ WF_vars(Answer(w))

-----------------------------------------------------------------------------
(* Properties *)

\* The tasks the pool counts for its workers are the pending ones, each counted
\* once: no crash, timeout, late answer or restart leaves a task behind in the
\* count or takes one away that is still awaited (node-worker-context.ts:361-426).
LoadIsPending ==
    /\ DOMAIN load = DOMAIN workers
    /\ Pending = {t \in Task : \E i \in DOMAIN load : t \in load[i]}
    /\ \A i, j \in DOMAIN load : i # j => load[i] \cap load[j] = {}

\* A pending task has not been forgotten: its worker runs and has it, or its answer or
\* the news of its worker's crash is under way, or its worker ended without such news.
PendingIsUnderWay ==
    \A i \in DOMAIN workers : \A t \in load[i] :
        LET w == workers[i] IN
        \/ w \in alive /\ t \in Range(inbox[w])
        \/ \E k \in DOMAIN outbox[w] :
               outbox[w][k].type = "crash" \/ outbox[w][k].task = t
        \/ w \in ended

\* No promise needs its timeout, unless its worker exits silently or is ended by
\* waitForTermination: every task is answered, or rejected because a worker crashed or
\* the pool was terminated.
SettledWithoutTimeout ==
    \A t \in Task, w \in Worker :
        t \in Pending /\ Holds(w, t) ~> t \notin Pending \/ w \in ended

ResultUnderWay(t) ==
    \E w \in Worker : \E k \in DOMAIN outbox[w] :
        outbox[w][k].type = "result" /\ outbox[w][k].task = t

Contract == INSTANCE TaskContract WITH results <- {t \in Task : ResultUnderWay(t)}

\* The pool keeps the promise of every pool: no call is settled twice, or resolved
\* without its own result, whatever crashes, comes late or is lost.
KeepsContract == Contract!Spec
=============================================================================
