--------------------------- MODULE MCBenchBuffers ---------------------------
(***************************************************************************)
(* Batches of three messages of up to two bytes.  6 bytes are the capacity *)
(* that the deserialising benchmark computes and 2 that of the other one;  *)
(* with 3, and with 2 for a sequence, a message after the first runs out   *)
(* of space, in initialise() or in extend(); with 1 the first one does.    *)
(***************************************************************************)
EXTENDS BenchBuffers

MCKinds == {"preallocated", "sequential"}
MCCapacities == {1, 2, 3, 6}
=============================================================================
