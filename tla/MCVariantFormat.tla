---------------------------- MODULE MCVariantFormat ----------------------------
(***************************************************************************)
(* The fixed data of a variant as SerialisationFormat.md describes it, for *)
(* readers written in other languages, compared with what serialise()      *)
(* leaves in the buffer for a variant with each alternative.               *)
(***************************************************************************)
EXTENDS MCSerialiser

VariantRoot == Var

\* SerialisationFormat.md:146-147: "A `std::uint8_t` specifying the zero-based
\* index of the contained type", then "A `std::uint32_t` specifying the offset
\* of the contained value from the start of the buffer".  A reader that follows
\* the document finds the value at the offset stored in bytes 1 to 4.
DocumentedVariantFixedData ==
    phase = "done" /\ root.sub # <<>> =>
        /\ mem[0] = root.val
        /\ Deserialise(root.sub[1].type, mem, UnsignedValue(mem, 1, 4)) = root.sub[1]
=============================================================================
