--------------------------- MODULE ImportContract ---------------------------
(***************************************************************************)
(* What an engine promises to an owner who imports snapshots and calls     *)
(* nothing else meanwhile (engine.importState): an import finds the engine *)
(* alive, empties it and puts in the nodes of the snapshot one by one.     *)
(* With all of them in, the engine is in the state the snapshot names;     *)
(* without, the import has failed, and the engine is in the state that the *)
(* import found.  No import closes a cycle.                                *)
(***************************************************************************)
EXTENDS EngineContract

VARIABLE underway    \* the import under way

Phase == {"initialized", "running", "paused", "destroyed"}

\* The phase an import found, and the snapshot: its phase and its definitions.
Import == [found : Phase, next : Phase, snapshot : [Node -> Def \cup {NoDef}]]
NoImport == [found |-> "none", next |-> "none", snapshot |-> Nothing]

Begin ==
    /\ underway = NoImport
    /\ phase # "destroyed"
    /\ underway' \in Import
    /\ underway'.found = phase
    /\ Acyclic(underway'.snapshot)
    /\ phase' = IF phase = "running" THEN "paused" ELSE phase
    /\ graph' = Nothing

\* A node of the snapshot that is not there yet.
PutNext(n) ==
    /\ graph[n] = NoDef
    /\ underway.snapshot[n] # NoDef
    /\ graph' = [graph EXCEPT ![n] = underway.snapshot[n]]
    /\ Acyclic(graph')

Restore ==
    /\ underway # NoImport
    /\ \E n \in Node : PutNext(n)
    /\ UNCHANGED <<phase, underway>>

Finish ==
    /\ underway # NoImport
    /\ graph = underway.snapshot
    /\ phase' = underway.next
    /\ underway' = NoImport
    /\ UNCHANGED graph

\* The node that fails may have been put in.
Fail ==
    /\ underway # NoImport
    /\ graph # underway.snapshot
    /\ phase' = underway.found
    /\ underway' = NoImport
    /\ \/ UNCHANGED graph
       \/ \E n \in Node : PutNext(n)

\* Anything else happens between imports.
Otherwise == underway = NoImport /\ Next /\ UNCHANGED underway

ImportInit == Init /\ underway = NoImport

ImportNext == Begin \/ Restore \/ Finish \/ Fail \/ Otherwise
=============================================================================
