----------------------------- MODULE Deserialiser -----------------------------
(***************************************************************************)
(* serialpp::deserialise() and the deserialisers of scalar.hpp, pair.hpp,  *)
(* tuple.hpp, static_array.hpp, record.hpp, optional.hpp, variant.hpp and  *)
(* dynamic_array.hpp, read in full: every accessor of every deserialiser   *)
(* is called.  The result is the tree of values they return, in the form   *)
(* of a source, or BufferBoundsError if one of them throws it.             *)
(*                                                                         *)
(* A buffer m is a function from the offsets 0 .. size-1 to bytes.  The    *)
(* operators take the deserialisers of the types inside as a function, d:  *)
(* d[t][offset] is what those of t return at an offset.                    *)
(***************************************************************************)
EXTENDS Integers, Sequences, FiniteSets, SourceTree

CONSTANT BufferBoundsError

ASSUME ErrorAssumption == BufferBoundsError \notin Source

Size(m) == Cardinality(DOMAIN m)

\* The value of t that is made of its parts; what an accessor of one of them
\* throws ends the reading.
Whole(t, val, parts) ==
    IF \E i \in DOMAIN parts : parts[i] = BufferBoundsError THEN BufferBoundsError
    ELSE [type |-> t, val |-> val, sub |-> parts]

\* Where subobject i starts: the elements of a static_array follow each other.
SubobjectOffset(t, i) ==
    IF Kind[t] = "static_array" THEN FixedSize[Elements[t][1]] * (i - 1)
    ELSE ElementOffset[t][i]

\* first(), second(), get<I>(), operator[]: the subobjects at their offsets.
DeserialiseElements(d, t, offset) ==
    Whole(t, 0, [i \in 1 .. Len(Elements[t]) |->
                    d[Elements[t][i]][offset + SubobjectOffset(t, i)]])

\* has_value() and value(): the offset is stored plus 1, 0 means empty.
DeserialiseOptional(d, t, m, offset) ==
    LET valueOffset == UnsignedValue(m, offset, OffsetWidth) IN
    Whole(t, 0, IF valueOffset > 0 THEN <<d[Elements[t][1]][valueOffset - 1]>> ELSE <<>>)

\* index() and visit(): an index past the last alternative ends, without
\* assertions, in the last one.
DeserialiseVariant(d, t, m, offset) ==
    LET n == Len(Elements[t])
        index == UnsignedValue(m, offset, IndexWidth)
        alternative == Elements[t][IF index < n THEN index + 1 ELSE n]
        valueOffset == UnsignedValue(m, offset + IndexWidth, OffsetWidth)
    IN
    IF n = 0 THEN Whole(t, 0, <<>>)
    ELSE Whole(t, index, <<d[alternative][valueOffset]>>)

\* size() and elements(): element i is at the offset plus i fixed sizes.
DeserialiseDynamicArray(d, t, m, offset) ==
    LET element == Elements[t][1]
        size == UnsignedValue(m, offset, SizeWidth)
        first == UnsignedValue(m, offset + SizeWidth, OffsetWidth)
    IN
    Whole(t, 0, [i \in 1 .. size |-> d[element][first + FixedSize[element] * (i - 1)]])

\* deserialise<T>(buffer, offset): check_buffer_size_for, and the accessors.
DeserialiseWith(d, t, m, offset) ==
    IF TooSmallFor(FixedSize[t], Size(m), offset) THEN BufferBoundsError
    ELSE CASE Kind[t] = "null" -> Whole(t, 0, <<>>)
           [] Kind[t] = "scalar" -> Whole(t, UnsignedValue(m, offset, FixedSize[t]), <<>>)
           [] Kind[t] \in Contiguous -> DeserialiseElements(d, t, offset)
           [] Kind[t] = "optional" -> DeserialiseOptional(d, t, m, offset)
           [] Kind[t] = "variant" -> DeserialiseVariant(d, t, m, offset)
           [] Kind[t] = "dynamic_array" -> DeserialiseDynamicArray(d, t, m, offset)

\* The deserialisers of all types on the buffer m.
Deserialisers(m) ==
    LET d[t \in Type] == [offset \in Nat |-> DeserialiseWith(d, t, m, offset)] IN d

Deserialise(t, m, offset) == Deserialisers(m)[t][offset]
=============================================================================
