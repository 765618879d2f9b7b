---------------------------- MODULE MCDataflow ----------------------------
EXTENDS Dataflow, TLC

CONSTANTS s, t, m, r

\* r reads s directly and through m.
DiamondNode == {s, m, r}
DiamondInputs == (s :> {}) @@ (m :> {s}) @@ (r :> {s, m})
DiamondOrder == <<m, s, r>>

\* m reads two sources.
JoinNode == {s, t, m}
JoinInputs == (s :> {}) @@ (t :> {}) @@ (m :> {s, t})
JoinOrder == <<s, m, t>>

\* m reads one of two sources.
SplitInputs == (s :> {}) @@ (t :> {}) @@ (m :> {s})
=============================================================================
