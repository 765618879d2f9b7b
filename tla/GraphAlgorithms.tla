--------------------------- MODULE GraphAlgorithms ---------------------------
(***************************************************************************)
(* The order in which a graph hands its nodes to an engine                 *)
(* (graph.ts:1442), a depth-first search over recursive calls, and the     *)
(* order in which the engine adds them (engine.ts:1328).                   *)
(***************************************************************************)
EXTENDS GraphDefs, Integers, SequencesExt

\* What is sorted so far, and whether the search met a node of its own path again,
\* which throws.
Result == [sorted : Seq(Node), threw : BOOLEAN]
Unsorted == [sorted |-> <<>>, threw |-> FALSE]

\* A loop over nodes that visits each, and what the last visit leaves.
VisitEach(visit, nodes, result) ==
    LET done[k \in 0 .. Len(nodes)] ==
            IF k = 0 THEN result ELSE visit[nodes[k]][done[k - 1]]
    IN  done[Len(nodes)]

\* The inputs of n that are among the nodes to sort, in some order.
KnownInputsOf(g, nodes, n) == SetToSeq(InputsOf(g, n) \cap Range(nodes))

\* visit: `visiting` holds the nodes of the current path, because every visit that
\* returns takes its node out again.  An exception ends all of them.
VisitAlone(g, nodes) ==                                      \* mutant
    [visiting \in SUBSET Node |-> [n \in Node |-> [result \in Result |->
        IF n \in Range(result.sorted) THEN result
                                      ELSE [result EXCEPT !.sorted = Append(@, n)]]]]
Visit(g, nodes) ==
    LET visit[visiting \in SUBSET Node] == [n \in Node |-> [result \in Result |->
            IF result.threw
            THEN result
            ELSE IF n \in visiting
            THEN [result EXCEPT !.threw = TRUE]
            ELSE IF n \in Range(result.sorted)
            THEN result
            ELSE LET inner == VisitEach(visit[visiting \cup {n}],
                                        KnownInputsOf(g, nodes, n), result)
                 IN  IF inner.threw THEN inner
                                    ELSE [inner EXCEPT !.sorted = Append(@, n)]]]
    IN  visit

TopologicalSort(g, nodes) == VisitEach(Visit(g, nodes)[{}], nodes, Unsorted)

\* The members of S, in the order they have in nodes (Array.filter).
AppendIf(kept, n, S) == IF n \in S THEN Append(kept, n) ELSE kept
Filter(nodes, S) ==
    LET kept[k \in 0 .. Len(nodes)] ==
            IF k = 0 THEN <<>> ELSE AppendIf(kept[k - 1], nodes[k], S)
    IN  kept[Len(nodes)]

\* importGraph adds the nodes without inputs first.
SourcesFirst(g, nodes) ==
    Filter(nodes, {n \in Node : InputsOf(g, n) = {}})
    \o Filter(nodes, {n \in Node : InputsOf(g, n) # {}})

-----------------------------------------------------------------------------

\* Every node comes after the nodes it reads.
InputsPrecede(g, nodes) ==
    \A k \in DOMAIN nodes :
        \A i \in InputsOf(g, nodes[k]) \cap Range(nodes) :
            \E j \in 1..(k - 1) : nodes[j] = i
=============================================================================
