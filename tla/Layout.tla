-------------------------------- MODULE Layout --------------------------------
(***************************************************************************)
(* The compile-time layout of serialisable types: the recursive templates  *)
(* fixed_data_size, tuple_element_offset, fields_fixed_data_size,          *)
(* named_field_offset and the concept fixed_size_serialisable, over a      *)
(* Schema that gives each type name its declaration.  SourceTree takes the *)
(* results as constants and states the equations between them.             *)
(***************************************************************************)
EXTENDS Integers, Sequences

CONSTANT Schema

\* Declarations.
Scalar(width)              == [kind |-> "scalar", width |-> width]
PairOf(first, second)      == [kind |-> "pair", types |-> <<first, second>>]
TupleOf(types)             == [kind |-> "tuple", types |-> types]
StaticArrayOf(type, size)  == [kind |-> "static_array", type |-> type, size |-> size]
RecordOf(own)              == [kind |-> "record", bases |-> <<>>, own |-> own]
DerivedRecordOf(base, own) == [kind |-> "record", bases |-> <<base>>, own |-> own]
OptionalOf(type)           == [kind |-> "optional", type |-> type]
VariantOf(types)           == [kind |-> "variant", types |-> types]
DynamicArrayOf(type)       == [kind |-> "dynamic_array", type |-> type]
NullType                   == [kind |-> "null"]

Field(name, type) == [name |-> name, type |-> type]

-----------------------------------------------------------------------------

\* record::fields: the fields of the base record, then the record's own.
RECURSIVE Fields(_)
Fields(t) ==
    LET d == Schema[t] IN
    IF d.bases = <<>> THEN d.own ELSE Fields(d.bases[1]) \o d.own

\* The types that record_derived_from accepts as bases of t.
RECURSIVE BaseRecords(_)
BaseRecords(t) ==
    LET bases == {Schema[t].bases[i] : i \in 1 .. Len(Schema[t].bases)} IN
    bases \cup UNION {BaseRecords(b) : b \in bases}

\* all_fields_unique
AllFieldsUnique(fields) ==
    \A i, j \in 1 .. Len(fields) : fields[i].name = fields[j].name => i = j

FieldTypes(fields) == [i \in 1 .. Len(fields) |-> fields[i].type]

\* The subobject types of t, in the order in which they are serialised.
ElementTypes(t) ==
    LET d == Schema[t] IN
    CASE d.kind \in {"null", "scalar"} -> <<>>
      [] d.kind \in {"pair", "tuple", "variant"} -> d.types
      [] d.kind = "static_array" -> [i \in 1 .. d.size |-> d.type]
      [] d.kind = "record" -> FieldTypes(Fields(t))
      [] d.kind \in {"optional", "dynamic_array"} -> <<d.type>>

RECURSIVE FixedDataSize(_)

RECURSIVE TupleFixedDataSize(_)
TupleFixedDataSize(types) ==
    IF types = <<>> THEN 0 ELSE FixedDataSize(Head(types)) + TupleFixedDataSize(Tail(types))

RECURSIVE FieldsFixedDataSize(_)
FieldsFixedDataSize(fields) ==
    IF fields = <<>> THEN 0
    ELSE FixedDataSize(Head(fields).type) + FieldsFixedDataSize(Tail(fields))

\* fixed_data_size<T>
FixedDataSize(t) ==
    LET d == Schema[t] IN
    CASE d.kind = "null" -> 0
      [] d.kind = "scalar" -> d.width
      [] d.kind = "pair" -> FixedDataSize(d.types[1]) + FixedDataSize(d.types[2])
      [] d.kind = "tuple" -> TupleFixedDataSize(d.types)
      [] d.kind = "static_array" -> FixedDataSize(d.type) * d.size
      [] d.kind = "record" -> FieldsFixedDataSize(Fields(t))
      [] d.kind = "optional" -> 4
      [] d.kind = "variant" -> 2 + 4
      [] d.kind = "dynamic_array" -> 4 + 4

\* tuple_element_offset<Elements, Index>, Index from 0.
RECURSIVE TupleElementOffset(_, _)
TupleElementOffset(types, index) ==
    IF index = 0 THEN 0
    ELSE FixedDataSize(Head(types)) + TupleElementOffset(Tail(types), index - 1)

\* named_field_offset<Fields, Name>
RECURSIVE NamedFieldOffset(_, _)
NamedFieldOffset(fields, name) ==
    IF Head(fields).name = name THEN 0
    ELSE FixedDataSize(Head(fields).type) + NamedFieldOffset(Tail(fields), name)

\* fixed_size_serialisable<T>: a serialiser overload takes a span.
RECURSIVE FixedSizeSerialisable(_)
FixedSizeSerialisable(t) ==
    LET d == Schema[t] IN
    CASE d.kind \in {"null", "scalar"} -> TRUE
      [] d.kind \in {"pair", "tuple"} ->
            \A i \in 1 .. Len(d.types) : FixedSizeSerialisable(d.types[i])
      [] d.kind = "static_array" -> FixedSizeSerialisable(d.type) \/ d.size = 0
      [] d.kind = "record" ->
            \A i \in 1 .. Len(Fields(t)) : FixedSizeSerialisable(Fields(t)[i].type)
      [] d.kind = "variant" -> d.types = <<>>
      [] d.kind \in {"optional", "dynamic_array"} -> FALSE

\* Where the fixed data of each subobject of t starts, and, last, ends; as the
\* serialiser's running offset has it.
SerialisedOffsets(t) ==
    [i \in 1 .. Len(ElementTypes(t)) + 1 |-> TupleFixedDataSize(SubSeq(ElementTypes(t), 1, i - 1))]

\* Where the deserialisers look for subobject i of t.
DeserialisedOffset(t, i) ==
    LET d == Schema[t] IN
    CASE d.kind = "pair" -> IF i = 1 THEN 0 ELSE FixedDataSize(d.types[1])
      [] d.kind = "tuple" -> TupleElementOffset(d.types, i - 1)
      [] d.kind = "static_array" -> (i - 1) * FixedDataSize(d.type)
      [] d.kind = "record" -> NamedFieldOffset(Fields(t), Fields(t)[i].name)
=============================================================================
