------------------------------- MODULE MCReader -------------------------------
(***************************************************************************)
(* Reading buffers in which every stored number is right, slightly wrong   *)
(* or far out, cut off at any byte.                                        *)
(***************************************************************************)
EXTENDS Reader, MCTypes, FiniteSetsExt, SequencesExt

\* The widths of the numbers in the fixed data of a type.
RECURSIVE Widths(_)
Widths(t) ==
    CASE MCKind[t] \in {"null", "scalar"} -> IF t = "null" THEN <<>> ELSE <<MCFixedSize[t]>>
      [] MCKind[t] = "optional" -> <<OffsetWidth>>
      [] MCKind[t] = "variant" -> <<IndexWidth, OffsetWidth>>
      [] MCKind[t] = "dynamic_array" -> <<SizeWidth, OffsetWidth>>
      [] OTHER -> FlattenSeq([i \in 1 .. Len(MCElements[t]) |-> Widths(MCElements[t][i])])

\* A std::size_t of eight bytes.
MCAddressSpace == Radix ^ 8

ASSUME WideAssumption == EnoughAddresses

\* An offset far beyond every buffer, 8 below the largest that four bytes hold:
\* the second element of an array of arrays is not there, but would be at offset
\* 0 if the sum were of four bytes, too.
Far == Radix ^ 4 - 8

\* Offsets to the start of the message, within its variable data and to its
\* end, and Far; sizes 0, 1 and larger; indices of alternatives and
\* the next one.
Values(t, w) ==
    CASE w = 1 -> {3}
      [] w = 8 -> {58987}
      [] w = IndexWidth -> {0, 1, 3}
      [] w = OffsetWidth -> {0, 1, MCFixedSize[t] + 8, MCFixedSize[t] + 13, Far}

\* Variable data: an array at the end of whose data there is one byte more.
VariableData(t) == LittleEndian(2, 4) \o LittleEndian(MCFixedSize[t] + 8, 4) \o <<1, 0, 2, 0, 3>>

RECURSIVE Encodings(_, _)
Encodings(t, ws) ==
    IF ws = <<>> THEN {<<>>}
    ELSE {LittleEndian(v, ws[1]) \o rest :
            v \in Values(t, ws[1]), rest \in Encodings(t, SubSeq(ws, 2, Len(ws)))}

\* The first n bytes of q, as the buffer of a reader.
Prefix(t, q, n) == [type |-> t, size |-> n, bytes |-> [x \in 0 .. n - 1 |-> q[x + 1]]]

\* Whole buffers, buffers cut off within the variable data, and within the
\* fixed data.
Lengths(t) == {0, MCFixedSize[t] - 1, MCFixedSize[t], MCFixedSize[t] + 4, MCFixedSize[t] + 8,
               MCFixedSize[t] + 12, MCFixedSize[t] + 13}

Damaged(t) == {Prefix(t, e \o VariableData(t), n) : e \in Encodings(t, Widths(t)), n \in Lengths(t)}

CONSTANT ReadTypes     \* the types that callers read

MCBuffer == UNION {Damaged(t) : t \in ReadTypes}

\* What ProgrammingGuide.md:306 says: an assertion fails only if the library is
\* used incorrectly or has a bug, and by line 299 a malformed buffer, which is
\* neither, causes a deserialise_error.
AssertionsHold == status # "assertion_failed"

\* What ProgrammingGuide.md:304 says: the exceptions may be thrown at any time
\* when deserialising data, so that a caller can handle them.
ErrorsCanBeHandled == status # "terminate"
=============================================================================
