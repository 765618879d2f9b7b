------------------------------ MODULE GraphDefs ------------------------------
(***************************************************************************)
(* The node definitions an engine keeps (Map `defs`, engine.ts:114) and    *)
(* the question it asks of them before it accepts a new one: is there a    *)
(* cycle reachable from this node?  `detectCycle` is a depth-first search  *)
(* (Search); the engine is modelled with what it decides (DetectCycle),    *)
(* and the two agree (EngineLifecycleProofs).                              *)
(***************************************************************************)

CONSTANTS Node,       \* node identifiers
          Config,     \* the configurations (and plugin types) of a node
          NoDef       \* the absence of a definition

\* An INodeDefinition: the inputs it reads and everything else about it.
Def == [inputs : SUBSET Node, config : Config]

ASSUME NoDefAssumption == NoDef \notin Def

-----------------------------------------------------------------------------

\* A node that is not in the map, like one without inputs, ends the search.
InputsOf(g, n) == IF g[n] = NoDef THEN {} ELSE g[n].inputs

\* The search from x meets a node twice on one path: x lies on, or reads
\* (through any number of nodes) from, a cycle.
DetectCycle(g, x) ==
    \E S \in SUBSET Node : 
        /\ x \in S 
        /\ \A n \in S : InputsOf(g, n) \cap S # {}

\* detectCycle: the set of visited nodes is copied at each call, so it holds the
\* nodes of the current path only.
SearchInputs(g, x) == x \in InputsOf(g, x)                   \* mutant
Search(g, x) ==
    LET search[path \in SUBSET Node] ==
            [n \in Node |-> \/ n \in path
                            \/ \E i \in InputsOf(g, n) : search[path \cup {n}][i]]
    IN  search[{}][x]

\* No node reads from itself, directly or through other nodes.
Acyclic(g) ==
    \A S \in SUBSET Node : 
        S # {} => \E n \in S : InputsOf(g, n) \cap S = {}
=============================================================================
