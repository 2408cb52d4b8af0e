----------------------------- MODULE MCRangeSource -----------------------------
(***************************************************************************)
(* Two sources, a small and a large container, and storage for all.        *)
(***************************************************************************)
EXTENDS RangeSource, TLC

CONSTANTS s1, s2, vector, deque, x1, x2, x3, x4, b1, b2

MCSymmetry == Permutations({s1, s2}) \cup Permutations({x1, x2, x3, x4}) \cup Permutations({b1, b2})
=============================================================================
