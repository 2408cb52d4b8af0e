-------------------------------- MODULE Reader --------------------------------
(***************************************************************************)
(* A caller that reads a buffer through the accessors of the deserialisers *)
(* of pair.hpp, tuple.hpp, static_array.hpp, record.hpp, optional.hpp,     *)
(* variant.hpp and dynamic_array.hpp, one call at a time.  The buffer may  *)
(* hold anything: a message, a part of one, or a message damaged on its    *)
(* way (ProgrammingGuide.md:299).                                          *)
(*                                                                         *)
(* cursor is the deserialiser that the caller holds; a call that returns   *)
(* another one moves it there.  Deserialisers are immutable, so that       *)
(* keeping the old one as well would add no behaviour.  A call that throws *)
(* ends the reading.                                                       *)
(***************************************************************************)
EXTENDS Integers, Sequences, SourceTree

CONSTANTS
    Buffer,            \* what a caller may be given: the type, size and bytes
    Bases,             \* the record types from which each record type derives
    MaxIndex,          \* bound on the indices that callers ask for
    AddressSpace       \* how many values std::size_t has

ASSUME AddressAssumption == AddressSpace \in Nat \ {0}

ASSUME BufferAssumption ==
    \A b \in Buffer : b.type \in Type /\ b.size \in Nat /\ b.bytes \in [0 .. b.size - 1 -> Byte]

\* record_derived_from: a record starts with the fields of its bases, which thus
\* are where they are in the bases, has no less fixed data than they have
\* (record.hpp:370), and derives from what they derive from.
BasesHaveFirstFields ==
    /\ Bases \in [Type -> SUBSET Type]
    /\ \A t \in Type : \A b \in Bases[t] :
          /\ Kind[t] = "record" /\ Kind[b] = "record"
          /\ Len(Elements[b]) <= Len(Elements[t])
          /\ \A i \in 1 .. Len(Elements[b]) :
                Elements[b][i] = Elements[t][i] /\ ElementOffset[b][i] = ElementOffset[t][i]
          /\ FixedSize[b] <= FixedSize[t]
          /\ Bases[b] \subseteq Bases[t]

ASSUME BasesAssumption == BasesHaveFirstFields

VARIABLES
    buffer,            \* what the caller was given
    asserts,           \* whether the program is built with assertions
    status,            \* "idle", "closed", "reading", what was thrown, or how
                       \* the program died
    cursor,            \* the deserialiser: its type and _fixed_offset
    path,              \* ghost: the subobjects that led from the root to it
    call,              \* ghost: the last call
    result             \* the number it returned, or Nothing

readerVars == <<buffer, asserts, status, cursor, path, call, result>>

Nothing == -1
NoBuffer == [type |-> "none", size |-> 0, bytes |-> <<>>]

Thrown == {"buffer_bounds_error", "bad_optional_access", "bad_variant_access", "out_of_range"}

Dead == {"assertion_failed", "terminate"}

\* deserialise<T>(buffer) has returned.
Opened == status \notin {"idle", "closed"} /\ ~(call = "deserialise" /\ status # "reading")

-----------------------------------------------------------------------------

\* The number of the given width at offset `at` of the cursor's fixed data, as
\* deserialise<U>(_buffer, _fixed_offset + at) finds it, and whether that throws.
Number(at, width) == UnsignedValue(buffer.bytes, cursor.offset + at, width)
Missing(at, width) == TooSmallFor(width, buffer.size, cursor.offset + at)

Holding(k) == status = "reading" /\ Kind[cursor.type] = k

\* A std::size_t has room for the largest offset and, behind it, as many elements
\* as the largest size, of any array: so it is with eight bytes and elements
\* whose fixed data is below 4 GiB, but not with four bytes.
LargestNumber == Then(Radix - 1, Then(Radix - 1, Then(Radix - 1, Radix - 1)))

EnoughAddresses ==
    \A t \in Type : Kind[t] = "dynamic_array" =>
        LargestNumber + FixedSize[Elements[t][1]] * LargestNumber < AddressSpace

\* The call c returns the number n, or throws e.
Return(c, n) ==
    /\ call' = c
    /\ result' = n
    /\ UNCHANGED <<buffer, asserts, status, cursor, path>>

Fail(c, e) ==
    /\ call' = c
    /\ status' = e
    /\ result' = Nothing
    /\ UNCHANGED <<buffer, asserts, cursor, path>>

\* Faulty: subtracts an offset beyond the end from the size, which wraps around
\* to a number that is large enough.
MoveToWraps(c, t, offset, steps, e) ==
    IF offset <= buffer.size /\ buffer.size - offset < FixedSize[t] THEN Fail(c, e)
    ELSE /\ call' = c
         /\ status' = "reading"
         /\ cursor' = [type |-> t, offset |-> offset]
         /\ path' = path \o steps
         /\ result' = IF Kind[t] = "scalar" /\ offset <= buffer.size
                      THEN UnsignedValue(buffer.bytes, offset, FixedSize[t]) ELSE Nothing
         /\ UNCHANGED <<buffer, asserts>>

\* The call c returns deserialise<t>(_buffer, offset), subobject `steps` of the
\* cursor's object: a deserialiser, or the value of a scalar.  If that throws,
\* the call ends as `e` says.
MoveTo(c, t, offset, steps, e) ==
    IF TooSmallFor(FixedSize[t], buffer.size, offset) THEN Fail(c, e)
    ELSE /\ call' = c
         /\ status' = "reading"
         /\ cursor' = [type |-> t, offset |-> offset]
         /\ path' = path \o steps
         /\ result' = IF Kind[t] = "scalar"
                      THEN UnsignedValue(buffer.bytes, offset, FixedSize[t]) ELSE Nothing
         /\ UNCHANGED <<buffer, asserts>>

-----------------------------------------------------------------------------

Init ==
    /\ buffer = NoBuffer
    /\ asserts \in BOOLEAN
    /\ status = "idle"
    /\ cursor = [type |-> NoBuffer.type, offset |-> 0]
    /\ path = <<>>
    /\ call = "none"
    /\ result = Nothing

\* The caller is given a buffer.
Receive(b) ==
    /\ status' = "closed"
    /\ buffer' = b
    /\ UNCHANGED <<asserts, cursor, path, call, result>>

\* deserialise<T>(buffer)
Open ==
    /\ status = "closed"
    /\ MoveTo("deserialise", buffer.type, 0, <<>>, "buffer_bounds_error")

\* Faulty: the offset of the element after it.
GetNextElement(k) ==
    /\ Holding(k)
    /\ \E i \in 1 .. Len(Elements[cursor.type]) :
          MoveTo("get_element", Elements[cursor.type][i],
                 cursor.offset + ElementOffset[cursor.type][i + 1], <<i>>, "buffer_bounds_error")

\* The element of a pair, tuple or record, at its offset.
GetElement(k) ==
    /\ Holding(k)
    /\ \E i \in 1 .. Len(Elements[cursor.type]) :
          MoveTo("get_element", Elements[cursor.type][i],
                 cursor.offset + ElementOffset[cursor.type][i], <<i>>, "buffer_bounds_error")

\* first(), second(), get<Index>()
PairGet == GetElement("pair")

\* get<Index>()
TupleGet == GetElement("tuple")

\* get<Name>(), and get<Index>(), which looks up the name.
RecordGet == GetElement("record")

\* The conversion of a record's deserialiser to that of a base is noexcept.
RecordToBase ==
    /\ Holding("record")
    /\ \E b \in Bases[cursor.type] : MoveTo("to_base", b, cursor.offset, <<>>, "terminate")

\* at(index), and for an index below size() also operator[], get<Index>() and
\* elements().
StaticArrayAt(index) ==
    LET t == cursor.type IN
    /\ Holding("static_array")
    /\ IF index >= Len(Elements[t]) THEN Fail("at", "out_of_range")
       ELSE MoveTo("get_element", Elements[t][index + 1],
                   cursor.offset + index * FixedSize[Elements[t][index + 1]],
                   <<index + 1>>, "buffer_bounds_error")

-----------------------------------------------------------------------------

\* has_value()
OptionalHasValue ==
    /\ Holding("optional")
    /\ IF Missing(0, OffsetWidth) THEN Fail("fixed_data", "buffer_bounds_error")
       ELSE Return("has_value", IF Number(0, OffsetWidth) > 0 THEN 1 ELSE 0)

\* Faulty: forgets that the offset is stored plus 1.
OptionalValueUnshifted ==
    /\ Holding("optional")
    /\ IF Missing(0, OffsetWidth) THEN Fail("fixed_data", "buffer_bounds_error")
       ELSE IF Number(0, OffsetWidth) = 0 THEN Fail("value", "bad_optional_access")
       ELSE MoveTo("value", Elements[cursor.type][1], Number(0, OffsetWidth), <<1>>,
                   "buffer_bounds_error")

\* value(), and operator* for a caller who knows that has_value().
OptionalValue ==
    /\ Holding("optional")
    /\ IF Missing(0, OffsetWidth) THEN Fail("fixed_data", "buffer_bounds_error")
       ELSE IF Number(0, OffsetWidth) = 0 THEN Fail("value", "bad_optional_access")
       ELSE MoveTo("value", Elements[cursor.type][1], Number(0, OffsetWidth) - 1, <<1>>,
                   "buffer_bounds_error")

\* _get<Index>(): the alternative, where _offset() says.
GetAlternative(c, index, e) ==
    IF Missing(IndexWidth, OffsetWidth) THEN Fail("fixed_data", e)
    ELSE MoveTo(c, Elements[cursor.type][index + 1], Number(IndexWidth, OffsetWidth), <<1>>, e)

\* index()
VariantIndex ==
    /\ Holding("variant")
    /\ Elements[cursor.type] # <<>>
    /\ IF Missing(0, IndexWidth) THEN Fail("fixed_data", "buffer_bounds_error")
       ELSE Return("index", Number(0, IndexWidth))

\* get<Index>()
VariantGet ==
    /\ Holding("variant")
    /\ \E index \in 0 .. Len(Elements[cursor.type]) - 1 :
          IF Missing(0, IndexWidth) THEN Fail("fixed_data", "buffer_bounds_error")
          ELSE IF Number(0, IndexWidth) # index THEN Fail("get", "bad_variant_access")
          ELSE GetAlternative("get", index, "buffer_bounds_error")

\* visit(visitor), which is noexcept if the visitor is.  An index past the last
\* alternative fails an assertion; without assertions the visitor gets the
\* last alternative.
VariantVisit ==
    LET n == Len(Elements[cursor.type])
        index == Number(0, IndexWidth)
    IN
    /\ Holding("variant")
    /\ n > 0
    /\ \E e \in {"terminate", "buffer_bounds_error"} :
          IF Missing(0, IndexWidth) THEN Fail("fixed_data", e)
          ELSE IF index >= n /\ asserts THEN Fail("visit", "assertion_failed")
          ELSE GetAlternative("visit", IF index < n THEN index ELSE n - 1, e)

\* visit() of variant<> does nothing.
VariantVisitNone ==
    /\ Holding("variant")
    /\ Elements[cursor.type] = <<>>
    /\ Return("visit", Nothing)

-----------------------------------------------------------------------------

\* size() and empty()
DynamicArraySize ==
    /\ Holding("dynamic_array")
    /\ IF Missing(0, SizeWidth) THEN Fail("fixed_data", "buffer_bounds_error")
       ELSE Return("size", Number(0, SizeWidth))

\* Faulty: the offset of the element is computed in data_offset_t.
DynamicArrayAtInOffset(index) ==
    LET element == Elements[cursor.type][1] IN
    /\ Holding("dynamic_array")
    /\ IF Missing(0, SizeWidth) THEN Fail("fixed_data", "buffer_bounds_error")
       ELSE IF index >= Number(0, SizeWidth) THEN Fail("at", "out_of_range")
       ELSE IF Missing(SizeWidth, OffsetWidth) THEN Fail("fixed_data", "buffer_bounds_error")
       ELSE MoveTo("at", element,
                   (Number(SizeWidth, OffsetWidth) + FixedSize[element] * index) % Radix ^ OffsetWidth,
                   <<index + 1>>, "buffer_bounds_error")

\* at(index), and for an index below size() also operator[] and elements().  The
\* offset of the element is computed before anything compares it with the
\* buffer, in std::size_t, which wraps around.
DynamicArrayAt(index) ==
    LET element == Elements[cursor.type][1] IN
    /\ Holding("dynamic_array")
    /\ IF Missing(0, SizeWidth) THEN Fail("fixed_data", "buffer_bounds_error")
       ELSE IF index >= Number(0, SizeWidth) THEN Fail("at", "out_of_range")
       ELSE IF Missing(SizeWidth, OffsetWidth) THEN Fail("fixed_data", "buffer_bounds_error")
       ELSE MoveTo("at", element,
                   (Number(SizeWidth, OffsetWidth) + FixedSize[element] * index) % AddressSpace,
                   <<index + 1>>, "buffer_bounds_error")

Read ==
    \/ Open
    \/ PairGet \/ TupleGet \/ RecordGet \/ RecordToBase
    \/ OptionalHasValue \/ OptionalValue
    \/ VariantIndex \/ VariantGet \/ VariantVisit \/ VariantVisitNone
    \/ DynamicArraySize
    \/ \E index \in 0 .. MaxIndex : StaticArrayAt(index) \/ DynamicArrayAt(index)

Next == Read \/ (status = "idle" /\ \E b \in Buffer : Receive(b))

Spec == Init /\ [][Next]_readerVars

-----------------------------------------------------------------------------

\* Type correctness of the machine.
TypeOK ==
    /\ asserts \in BOOLEAN
    /\ status \in {"idle", "closed", "reading"} \cup Thrown \cup Dead
    /\ status # "idle" => buffer \in Buffer
    /\ Opened => cursor \in [type : Type, offset : Nat]
    /\ path \in Seq(Nat)
    /\ result \in Nat \cup {Nothing}

\* The obligation deserialiser<T> puts on whoever makes one (common.hpp:87-90):
\* the fixed data of every deserialiser a caller can get hold of, whatever the
\* buffer contains, lies within the buffer.
CursorInBounds ==
    Opened => cursor.offset + FixedSize[cursor.type] <= buffer.size

\* Once deserialise() has accepted a buffer, only an offset stored in it can
\* lead out of it: reading fixed data, and the conversion to a base record,
\* which is noexcept, never throw buffer_bounds_error.
OnlyOffsetsMislead ==
    /\ status = "buffer_bounds_error" => call \in {"deserialise", "value", "get", "visit", "at"}
    /\ status = "terminate" => call = "visit"

\* ProgrammingGuide.md:302: a bad variable data offset causes a
\* buffer_bounds_error.  An element that at() or operator[] hands out lies where
\* the array says, and there the buffer has room for it and those before it: the
\* sum of offset and distance (dynamic_array.hpp:358), which no check precedes,
\* has not wrapped around.  It takes EnoughAddresses.
ElementsInBuffer ==
    [][status' = "reading" /\ call' = "at" =>
          Number(SizeWidth, OffsetWidth) + FixedSize[cursor'.type] * path'[Len(path')]
             <= buffer.size]_readerVars
=============================================================================
