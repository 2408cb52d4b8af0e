------------------------------ MODULE MessageSize ------------------------------
(***************************************************************************)
(* How long messages are, and when they are too long: what serialise()     *)
(* (Serialiser) allocates, compared with the size of the source and with   *)
(* the bound by which the benchmark sizes its buffers (SourceGenerator).   *)
(* The size of a source is the sum of its parts; as Serialiser, this       *)
(* module takes the sums as tables, tied together by MessageSizeAssumption.      *)
(***************************************************************************)
EXTENDS Serialiser, SourceGenerator

CONSTANTS
    VariableSize,      \* the variable data of each source, in bytes
    VariableSizeFrom,  \* that of the parts of a source from each one on
    HasLongArray       \* whether an array in it is longer than MaxArraySize

\* The fixed data of the parts, where it is variable data of the whole.
PartsAsVariable(s) ==
    IF Kind[s.type] \in Contiguous \/ s.sub = <<>> THEN 0
    ELSE FixedSize[s.sub[1].type] * Len(s.sub)

HasVariableSize(s) ==
    LET n == Len(s.sub) IN
    /\ VariableSizeFrom[s] \in [1 .. n + 1 -> Nat]
    /\ VariableSizeFrom[s][n + 1] = 0
    /\ \A i \in 1 .. n :
          VariableSizeFrom[s][i] = VariableSize[s.sub[i]] + VariableSizeFrom[s][i + 1]
    /\ VariableSize[s] = PartsAsVariable(s) + VariableSizeFrom[s][1]

IsLongArray(s) == Kind[s.type] = "dynamic_array" /\ Len(s.sub) > MaxArraySize

ASSUME MessageSizeAssumption ==
    /\ VariableSize \in [Source -> Nat]
    /\ HasLongArray \in [Source -> BOOLEAN]
    /\ \A s \in Source :
          /\ HasVariableSize(s)
          /\ HasLongArray[s] <=>
                IsLongArray(s) \/ \E i \in 1 .. Len(s.sub) : HasLongArray[s.sub[i]]

\* The size of a message: fixed data plus the variable data of its parts.
MessageSize(s) == FixedSize[s.type] + VariableSize[s]

-----------------------------------------------------------------------------

\* The message has no gaps and no excess: its size is that of its parts
\* (SerialisationFormat.md:46, "there is no padding inserted between data").
CompactWhenDone == phase = "done" => used = MessageSize(root)

\* object_size_error is thrown only if the message, or an array in it, is too
\* large for the integers of the format, and an array that is too long never
\* ends up in a message, though its elements are serialised before its size is
\* looked at (dynamic_array.hpp:323-331).  An offset is at most the size of the
\* whole message, and that of an optional is stored plus one.
SizeErrorsJustified ==
    /\ error = "object_size_error" => MessageSize(root) >= MaxDataOffset \/ HasLongArray[root]
    /\ phase = "done" => ~ HasLongArray[root]

\* The bound by which the benchmark sizes its buffers holds for every source
\* it can generate, at every moment of its serialisation: the buffer never
\* grows beyond max_serialised_size() (random_source_generator.hpp:127-280).
WithinGeneratorBound ==
    phase \in {"running", "done"} /\ root \in Generated
        => used <= MaxSerialisedSize[root.type]
=============================================================================
