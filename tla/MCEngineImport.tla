--------------------------- MODULE MCEngineImport ---------------------------
EXTENDS EngineImport, TLC

CONSTANTS a, b, ok, other      \* two nodes, two configurations

\* Enough to close a cycle between a and b and to leave b half added.
CyclicCallable ==
    (a :> {[inputs |-> {}, config |-> ok], [inputs |-> {b}, config |-> ok]}) @@
    (b :> {[inputs |-> {a}, config |-> ok], [inputs |-> {a}, config |-> other]})

\* A snapshot of an engine with more plugins, and one whose other node was never
\* added, besides those this engine exports.
ForeignSnapshots ==
    { (a :> [inputs |-> {}, config |-> ok]) @@ (b :> [inputs |-> {a}, config |-> other]),
      (a :> [inputs |-> {b}, config |-> ok]) @@ (b :> NoDef) }

\* Bound: nothing is explored behind the end of an import that calls overlapped.
BeforeOverlapEnds == ~(overlaps > 0 /\ importing = NoImport)

\* Bound: of two batches, the one of a timer and the one still deferred, one has a
\* single update.
ThreeUpdates == timers # <<>> => Len(deferred) + Len(Head(timers)) <= 3
=============================================================================
