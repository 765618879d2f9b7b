----------------------------- MODULE TaskContract -----------------------------
(***************************************************************************)
(* What a pool of workers promises to the callers of execute, whatever its *)
(* kind (types/execution-context.ts): a call is settled at most once, and  *)
(* it is resolved only with a result that a worker has computed for it     *)
(* after the call was made.  Results may be lost on the way; a call may be *)
(* rejected at any time, alone or with others.                             *)
(***************************************************************************)
CONSTANT Task            \* the calls

VARIABLES
    status,              \* the promise of each call
    results              \* calls whose result is under way to the main thread

Settled(tasks, with) == [t \in Task |-> IF t \in tasks THEN with ELSE status[t]]

Init ==
    /\ status = [t \in Task |-> "new"]
    /\ results = {}

Submit(t) ==
    /\ status[t] = "new"
    /\ status' \in {Settled({t}, "pending"), Settled({t}, "rejected")}
    /\ UNCHANGED results

Compute(t) ==
    /\ status[t] # "new"
    /\ results' = results \cup {t}
    /\ UNCHANGED status

Resolve(t) ==
    /\ status[t] = "pending"
    /\ t \in results
    /\ status' = Settled({t}, "resolved")
    /\ results' \subseteq results

Reject(tasks) ==
    /\ \A t \in tasks : status[t] = "pending"
    /\ status' = Settled(tasks, "rejected")
    /\ results' \subseteq results

Next ==
    \/ \E t \in Task : Submit(t) \/ Compute(t) \/ Resolve(t)
    \/ \E tasks \in SUBSET Task : Reject(tasks)

Spec == Init /\ [][Next]_<<status, results>>
=============================================================================
