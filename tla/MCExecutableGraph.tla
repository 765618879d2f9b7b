------------------------- MODULE MCExecutableGraph -------------------------
EXTENDS ExecutableGraph, TLC

CONSTANTS e1, e2, e3, d1, d2, unknown

MCEngine == {e1, e2, e3}
MCDefinition == {d1, d2, unknown}
MCRefused == {unknown}

\* Sound: only safety is checked, and nothing tells the engines, or the two good
\* definitions, apart.
MCSymmetry == Permutations(MCEngine) \cup Permutations({d1, d2})

\* After calls that overlap an import nothing but the types is claimed.
BeforeOverlaps == "overlap" \notin used
=============================================================================
