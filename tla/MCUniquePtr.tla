------------------------------ MODULE MCUniquePtr ------------------------------
(***************************************************************************)
(* Three interchangeable pointers and four objects.                        *)
(***************************************************************************)
EXTENDS UniquePtr, TLC

CONSTANTS p1, p2, p3, o1, o2, o3, o4

MCSymmetry == Permutations({p1, p2, p3})
=============================================================================
