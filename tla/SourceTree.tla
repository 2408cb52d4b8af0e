------------------------------ MODULE SourceTree ------------------------------
(***************************************************************************)
(* Serialisable types and serialise_source values.                         *)
(*                                                                         *)
(* A type is a member of Type; the compile-time facts about it are the     *)
(* constants Kind, Elements, FixedSize, ElementOffset and IsFixed, tied    *)
(* together by TypesAssumption, which states for each kind what the        *)
(* templates of the library compute (fixed_data_size, tuple_element_offset,*)
(* fixed_size_serialisable).  Elements[t] lists the subobject types: the   *)
(* elements of a pair, tuple or static_array, the field types of a record  *)
(* (those of its bases first), the alternatives of a variant, or the one   *)
(* element type of an optional or dynamic_array.                           *)
(*                                                                         *)
(* A source is a record: its type, its value (the integer of a scalar, the *)
(* index() of a variant) and the sources it contains.                      *)
(***************************************************************************)
EXTENDS Integers, Sequences

CONSTANTS
    Radix,                 \* values of a byte: 256 in the code
    Type, Kind, Elements, FixedSize, ElementOffset, IsFixed,
    Depth,                 \* how deep a type is nested
    Source

Kinds == {"null", "scalar", "pair", "tuple", "static_array", "record",
          "optional", "variant", "dynamic_array"}

\* Kinds whose fixed data is that of their elements, one after the other.
Contiguous == {"pair", "tuple", "static_array", "record"}

\* fixed_data_size of data_offset_t, dynamic_array_size_t and variant_index_t.
OffsetWidth == 4
SizeWidth == 4
IndexWidth == 2

ASSUME RadixAssumption == Radix \in Nat /\ Radix > 1

Byte == 0 .. Radix - 1

\* An unsigned integer, shifted right by 0 to 7 bytes.
Shifted(value) ==
    LET v1 == value \div Radix
        v2 == v1 \div Radix
        v3 == v2 \div Radix
        v4 == v3 \div Radix
        v5 == v4 \div Radix
        v6 == v5 \div Radix
        v7 == v6 \div Radix
    IN <<value, v1, v2, v3, v4, v5, v6, v7>>

\* An unsigned integer of the given width can have this value.
Fits(value, width) == Shifted(value)[width] \in Byte

\* fixed_data_size<T>, for each kind of T.
HasFixedDataSize(t) ==
    /\ Kind[t] = "null" => FixedSize[t] = 0
    /\ Kind[t] = "scalar" => FixedSize[t] \in {1, 2, 4, 8}
    /\ Kind[t] \in Contiguous => FixedSize[t] = ElementOffset[t][Len(Elements[t]) + 1]
    /\ Kind[t] = "optional" => FixedSize[t] = OffsetWidth
    /\ Kind[t] = "variant" => FixedSize[t] = IndexWidth + OffsetWidth
    /\ Kind[t] = "dynamic_array" => FixedSize[t] = SizeWidth + OffsetWidth

\* tuple_element_offset: an element starts where the previous one ends, and
\* none ends beyond the fixed data of t (as record.hpp:375 requires).
HasElementOffsets(t) ==
    LET n == Len(Elements[t]) IN
    /\ ElementOffset[t] \in [1 .. n + 1 -> Nat]
    /\ ElementOffset[t][1] = 0
    /\ \A i \in 1 .. n :
          /\ ElementOffset[t][i + 1] = ElementOffset[t][i] + FixedSize[Elements[t][i]]
          /\ ElementOffset[t][i + 1] <= FixedSize[t]

\* static_array: the elements have one type, and element i follows i others.
IsUniform(t) ==
    \A i \in 1 .. Len(Elements[t]) :
        /\ Elements[t][i] = Elements[t][1]
        /\ ElementOffset[t][i] = (i - 1) * FixedSize[Elements[t][1]]

\* Whether a serialiser overload takes a span (fixed_size_serialisable).
HasSpanOverload(t) ==
    \/ Kind[t] \in {"null", "scalar"}
    \/ Kind[t] \in Contiguous /\ \A i \in 1 .. Len(Elements[t]) : IsFixed[Elements[t][i]]
    \/ Kind[t] = "variant" /\ Elements[t] = <<>>

ASSUME TypesAssumption ==
    /\ Kind \in [Type -> Kinds]
    /\ Elements \in [Type -> Seq(Type)]
    /\ FixedSize \in [Type -> Nat]
    /\ IsFixed \in [Type -> BOOLEAN]
    /\ \A t \in Type :
          /\ HasFixedDataSize(t)
          /\ Kind[t] \in Contiguous => HasElementOffsets(t)
          /\ Kind[t] = "static_array" => IsUniform(t)
          /\ IsFixed[t] <=> HasSpanOverload(t)
          /\ Kind[t] = "pair" => Len(Elements[t]) = 2
          /\ Kind[t] \in {"optional", "dynamic_array"} => Len(Elements[t]) = 1
          /\ Kind[t] = "variant" => Fits(Len(Elements[t]), IndexWidth)

\* A type is a tree of complete types: none is part of itself, however deep.
ASSUME DepthAssumption ==
    /\ Depth \in [Type -> Nat]
    /\ \A t \in Type : \A i \in 1 .. Len(Elements[t]) : Depth[Elements[t][i]] < Depth[t]

\* A scalar has a value of its type, and the subobjects of a source have the
\* types that its own type declares.  A variant without a subobject is
\* valueless, or the only value of variant<>.  Where there is no value, it is 0.
SubsHaveTypes(s) ==
    LET t == s.type
        n == Len(s.sub)
    IN
    /\ Kind[t] \in {"null", "scalar"} => n = 0
    /\ Kind[t] = "scalar" => Fits(s.val, FixedSize[t])
    /\ Kind[t] # "scalar" /\ (Kind[t] # "variant" \/ n = 0) => s.val = 0
    /\ Kind[t] \in Contiguous =>
          n = Len(Elements[t]) /\ \A i \in 1 .. n : s.sub[i].type = Elements[t][i]
    /\ Kind[t] = "optional" => n <= 1
    /\ Kind[t] \in {"optional", "dynamic_array"} =>
          \A i \in 1 .. n : s.sub[i].type = Elements[t][1]
    /\ Kind[t] = "variant" /\ n > 0 =>
          n = 1 /\ s.val < Len(Elements[t]) /\ s.sub[1].type = Elements[t][s.val + 1]

ASSUME SourceAssumption ==
    \A s \in Source :
        /\ s.type \in Type
        /\ s.val \in Nat
        /\ s.sub \in Seq(Source)
        /\ SubsHaveTypes(s)

ASSUME SourceFieldsAssumption ==
    \A s \in Source : s = [type |-> s.type, val |-> s.val, sub |-> s.sub]

-----------------------------------------------------------------------------

\* The bytes of an unsigned integer, the least significant first: the shift
\* loop of scalar.hpp, and the memory copy it equals on the other platforms.
LittleEndian(value, width) == [k \in 1 .. width |-> Shifted(value)[k] % Radix]

\* The number with the given lowest byte and the number above that byte.
Then(low, high) == low + Radix * high

\* deserialiser<U>::value() for an unsigned U: the bytes, least significant
\* first.  (A byte never written contributes what was in memory.)
UnsignedValue(m, offset, width) ==
    LET b(k) == m[offset + k - 1]
        Four(k) == Then(b(k), Then(b(k + 1), Then(b(k + 2), b(k + 3))))
    IN
    CASE width = 1 -> b(1)
      [] width = 2 -> Then(b(1), b(2))
      [] width = 4 -> Four(1)
      [] width = 8 -> Then(b(1), Then(b(2), Then(b(3), Then(b(4), Four(5)))))

\* check_buffer_size_for<T>: the two comparisons never underflow.
TooSmallFor(fixedSize, size, offset) == offset > size \/ size - offset < fixedSize
=============================================================================
