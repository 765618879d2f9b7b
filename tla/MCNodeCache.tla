---------------------------- MODULE MCNodeCache ----------------------------
EXTENDS NodeCache, TLC

CONSTANTS a, b, k1, k2

\* Sound: only safety is checked, and nothing tells nodes or keys apart.
MCSymmetry == Permutations({a, b}) \cup Permutations({k1, k2})
=============================================================================
