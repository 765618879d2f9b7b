--------------------------- MODULE EngineContract ---------------------------
(***************************************************************************)
(* What an engine promises to its owner (types/engine-state.ts,            *)
(* types/engine-api.ts): the phases of its life, of which the last one is  *)
(* final, and a graph of definitions that never has a cycle, changes by    *)
(* one node at a time, also where a call has to change several, and gains  *)
(* nothing once the engine is destroyed.                                   *)
(***************************************************************************)
EXTENDS GraphDefs

VARIABLES
    phase,           \* the state of the engine
    graph            \* its definitions

Nothing == [n \in Node |-> NoDef]

Init ==
    /\ phase = "initialized"
    /\ graph = Nothing

\* A skip may pause a running engine in the middle of what it does.
KeepsRunning == phase' = phase \/ (phase = "running" /\ phase' = "paused")

\* Calls of the lifecycle change no definition, but for destroy.
Turn(from, to) == phase \in from /\ phase' = to

Start == Turn({"initialized", "paused"}, "running") /\ UNCHANGED graph
Pause == Turn({"running"}, "paused") /\ UNCHANGED graph
Stop == Turn({"initialized", "running", "paused"}, "destroyed") /\ graph' \in {graph, Nothing}

\* A node is added or gets another definition.
Put(n, d) ==
    /\ phase # "destroyed"
    /\ graph' = [graph EXCEPT ![n] = d]
    /\ Acyclic(graph')
    /\ KeepsRunning

Remove(n) ==
    /\ graph' = [graph EXCEPT ![n] = NoDef]
    /\ UNCHANGED phase

Next ==
    \/ Start \/ Pause \/ Stop
    \/ \E n \in Node : Remove(n) \/ \E d \in Def : Put(n, d)

Spec == Init /\ [][Next]_<<phase, graph>>
=============================================================================
