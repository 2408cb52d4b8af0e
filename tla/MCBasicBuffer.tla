---------------------------- MODULE MCBasicBuffer ----------------------------
(***************************************************************************)
(* Two buffers over three addresses: enough for a move assignment, which    *)
(* has two allocations in flight, to be followed by a reallocation (old    *)
(* and new storage alive together) with an address to spare.  Sizes up to  *)
(* 3 with requests 0..2 reach every branch of initialise() and extend(),   *)
(* several growths, and the zero-size corner cases.                        *)
(***************************************************************************)
EXTENDS BasicBuffer, TLC

CONSTANTS a1, a2, a3, b1, b2

MCCapacities == {0, 2}
MCRequests == 0 .. 2

\* new returns any free address and buffers are interchangeable.
Symmetry == Permutations({a1, a2, a3}) \cup Permutations({b1, b2})
=============================================================================
