----------------------------- MODULE ReaderProofs -----------------------------
(***************************************************************************)
(* Whatever a buffer contains, the deserialisers that a caller can get     *)
(* hold of lie within it, and only a stored offset can lead out of it.     *)
(***************************************************************************)
EXTENDS Reader, TLAPS

ReaderInv == TypeOK /\ CursorInBounds /\ OnlyOffsetsMislead

-----------------------------------------------------------------------------
\* Types.

\* What the accessors use of the layout of a type.
LEMMA TypeFacts ==
    ASSUME NEW t \in Type
    PROVE  /\ FixedSize[t] \in Nat
           /\ Elements[t] \in Seq(Type)
           /\ \A i \in 1 .. Len(Elements[t]) : Elements[t][i] \in Type
           /\ Kind[t] = "scalar" => FixedSize[t] \in {1, 2, 4, 8}
           /\ Kind[t] = "optional" => FixedSize[t] = 4 /\ Elements[t][1] \in Type
           /\ Kind[t] = "variant" => FixedSize[t] = 6
           /\ Kind[t] = "dynamic_array" => FixedSize[t] = 8 /\ Elements[t][1] \in Type
    BY TypesAssumption DEF HasFixedDataSize, OffsetWidth, IndexWidth, SizeWidth

\* The fixed data of an element lies within that of the whole.
LEMMA ElementFits ==
    ASSUME NEW t \in Type, Kind[t] \in Contiguous, NEW i \in 1 .. Len(Elements[t])
    PROVE  /\ ElementOffset[t][i] \in Nat
           /\ ElementOffset[t][i] + FixedSize[Elements[t][i]] <= FixedSize[t]
    <1>1. HasElementOffsets(t)
      BY TypesAssumption
    <1>2. Len(Elements[t]) \in Nat
      BY TypeFacts
    <1>3. i \in 1 .. Len(Elements[t]) + 1
      BY <1>2
    <1> QED
      BY <1>1, <1>2, <1>3 DEF HasElementOffsets

\* Element i of a static_array, which the code finds by multiplication.
LEMMA StaticElementFits ==
    ASSUME NEW t \in Type, Kind[t] = "static_array",
           NEW index \in Nat, index < Len(Elements[t])
    PROVE  /\ Elements[t][index + 1] \in Type
           /\ index * FixedSize[Elements[t][index + 1]] \in Nat
           /\ index * FixedSize[Elements[t][index + 1]] + FixedSize[Elements[t][index + 1]]
                 <= FixedSize[t]
    <1> DEFINE i == index + 1
    <1>1. i \in 1 .. Len(Elements[t])
      BY TypeFacts
    <1>2. Elements[t][i] = Elements[t][1] /\ ElementOffset[t][i] = (i - 1) * FixedSize[Elements[t][1]]
      BY <1>1, TypesAssumption DEF IsUniform
    <1>3. ElementOffset[t][i] = index * FixedSize[Elements[t][i]]
      BY <1>2
    <1>4. /\ ElementOffset[t][i] \in Nat
          /\ ElementOffset[t][i] + FixedSize[Elements[t][i]] <= FixedSize[t]
      BY <1>1, ElementFits DEF Contiguous
    <1> QED
      BY <1>1, <1>3, <1>4, TypeFacts

-----------------------------------------------------------------------------
\* Calls.

\* A number read within the buffer is a natural number.
LEMMA UnsignedValueType ==
    ASSUME NEW m, NEW size \in Nat, m \in [0 .. size - 1 -> Byte],
           NEW offset \in Nat, NEW width \in {1, 2, 4, 8}, ~TooSmallFor(width, size, offset)
    PROVE  UnsignedValue(m, offset, width) \in Nat
    <1>1. offset + width <= size
      BY DEF TooSmallFor
    <1>2. ASSUME NEW k \in 1 .. width PROVE m[offset + k - 1] \in Nat
      <2>1. offset + k - 1 \in 0 .. size - 1
        BY <1>1
      <2>2. m[offset + k - 1] \in Byte
        BY <2>1
      <2>3. \A x \in Byte : x \in Nat
        BY DEF Byte
      <2> QED
        BY <2>2, <2>3
    <1>3. \A low, high \in Nat : Then(low, high) \in Nat
      <2>1. \A x, y \in Nat : x * y \in Nat
        OBVIOUS
      <2> QED
        BY <2>1, RadixAssumption DEF Then
    <1>4. PICK b : b = [k \in 1 .. width |-> m[offset + k - 1]]
      OBVIOUS
    <1>5. \A k \in 1 .. width : b[k] \in Nat
      BY <1>2, <1>4
    <1>6. CASE width = 1
      BY <1>2, <1>6 DEF UnsignedValue
    <1>7. CASE width = 2
      <2>1. UnsignedValue(m, offset, width) = Then(b[1], b[2])
        BY <1>4, <1>7 DEF UnsignedValue
      <2>2. b[1] \in Nat /\ b[2] \in Nat
        BY <1>5, <1>7
      <2> QED
        BY <1>3, <2>1, <2>2
    <1>8. CASE width = 4
      <2>1. UnsignedValue(m, offset, width) = Then(b[1], Then(b[2], Then(b[3], b[4])))
        BY <1>4, <1>8 DEF UnsignedValue
      <2>2. b[1] \in Nat /\ b[2] \in Nat /\ b[3] \in Nat /\ b[4] \in Nat
        BY <1>5, <1>8
      <2> QED
        BY <1>3, <2>1, <2>2
    <1>9. CASE width = 8
      <2>1. UnsignedValue(m, offset, width) =
               Then(b[1], Then(b[2], Then(b[3], Then(b[4],
                  Then(b[5], Then(b[6], Then(b[7], b[8])))))))
        BY <1>4, <1>9 DEF UnsignedValue
      <2>2. /\ b[1] \in Nat /\ b[2] \in Nat /\ b[3] \in Nat /\ b[4] \in Nat
            /\ b[5] \in Nat /\ b[6] \in Nat /\ b[7] \in Nat /\ b[8] \in Nat
        BY <1>5, <1>9
      <2>3. Then(b[5], Then(b[6], Then(b[7], b[8]))) \in Nat
        BY <1>3, <2>2
      <2>4. Then(b[1], Then(b[2], Then(b[3], Then(b[4],
               Then(b[5], Then(b[6], Then(b[7], b[8]))))))) \in Nat
        BY <1>3, <2>2, <2>3
      <2> QED
        BY <2>1, <2>4
    <1> QED
      BY <1>6, <1>7, <1>8, <1>9

\* A number in the fixed data of the cursor is there to be read.
LEMMA FixedDataPresent ==
    ASSUME ReaderInv, status = "reading", NEW at \in Nat, NEW width \in {1, 2, 4, 8},
           at + width <= FixedSize[cursor.type]
    PROVE  ~Missing(at, width) /\ Number(at, width) \in Nat
    <1>1. /\ cursor.type \in Type /\ cursor.offset \in Nat
          /\ buffer \in Buffer
          /\ cursor.offset + FixedSize[cursor.type] <= buffer.size
      BY DEF ReaderInv, TypeOK, CursorInBounds, Opened
    <1>2. buffer.size \in Nat /\ buffer.bytes \in [0 .. buffer.size - 1 -> Byte]
      BY <1>1, BufferAssumption
    <1>3. FixedSize[cursor.type] \in Nat
      BY <1>1, TypeFacts
    <1>4. ~TooSmallFor(width, buffer.size, cursor.offset + at)
      BY <1>1, <1>2, <1>3 DEF TooSmallFor
    <1>5. cursor.offset + at \in Nat
      BY <1>1
    <1> QED
      BY <1>2, <1>4, <1>5, UnsignedValueType DEF Missing, Number

\* A call that returns a number leaves the cursor where it is.
LEMMA ReturnPreserves ==
    ASSUME ReaderInv, status = "reading", NEW c, NEW n \in Nat \cup {Nothing}, Return(c, n)
    PROVE  ReaderInv'
    BY DEF ReaderInv, TypeOK, CursorInBounds, OnlyOffsetsMislead, Opened, Return

\* A call that throws, and may.
LEMMA FailPreserves ==
    ASSUME ReaderInv, status = "reading", NEW c, NEW e \in Thrown \cup Dead, Fail(c, e),
           e = "buffer_bounds_error" => c \in {"value", "get", "visit", "at"},
           e = "terminate" => c = "visit"
    PROVE  ReaderInv'
    <1>1. e # "reading" /\ e # "closed" /\ e # "idle"
      BY DEF Thrown, Dead
    <1>2. TypeOK'
      BY DEF ReaderInv, TypeOK, Opened, Fail
    <1>3. CursorInBounds'
      BY DEF ReaderInv, CursorInBounds, Opened, Fail
    <1>4. OnlyOffsetsMislead'
      BY DEF OnlyOffsetsMislead, Fail
    <1> QED
      BY <1>2, <1>3, <1>4 DEF ReaderInv

\* A call that returns another deserialiser, if the check succeeds.
LEMMA MovePreserves ==
    ASSUME ReaderInv, status \in {"closed", "reading"},
           NEW c, NEW t \in Type, NEW offset \in Nat, NEW steps \in Seq(Nat), NEW e,
           MoveTo(c, t, offset, steps, e), ~TooSmallFor(FixedSize[t], buffer.size, offset)
    PROVE  ReaderInv'
    <1>1. buffer \in Buffer /\ path \in Seq(Nat)
      BY DEF ReaderInv, TypeOK
    <1>2. buffer.size \in Nat /\ buffer.bytes \in [0 .. buffer.size - 1 -> Byte]
      BY <1>1, BufferAssumption
    <1>3. /\ call' = c /\ status' = "reading"
          /\ cursor' = [type |-> t, offset |-> offset]
          /\ path' = path \o steps
          /\ result' = IF Kind[t] = "scalar"
                       THEN UnsignedValue(buffer.bytes, offset, FixedSize[t]) ELSE Nothing
          /\ buffer' = buffer /\ asserts' = asserts
      BY DEF MoveTo
    <1>4. result' \in Nat \cup {Nothing}
      BY <1>2, <1>3, TypeFacts, UnsignedValueType
    <1>5. path' \in Seq(Nat)
      BY <1>1, <1>3
    <1>6. TypeOK'
      BY <1>1, <1>3, <1>4, <1>5 DEF ReaderInv, TypeOK
    <1>7. CursorInBounds'
      BY <1>2, <1>3, TypeFacts DEF CursorInBounds, TooSmallFor
    <1>8. OnlyOffsetsMislead'
      BY <1>3 DEF OnlyOffsetsMislead
    <1> QED
      BY <1>6, <1>7, <1>8 DEF ReaderInv

\* A call that moves to fixed data inside that of the cursor cannot fail.
LEMMA InnerMovePreserves ==
    ASSUME ReaderInv, status = "reading", NEW c, NEW t \in Type, NEW at \in Nat,
           NEW steps \in Seq(Nat), NEW e, at + FixedSize[t] <= FixedSize[cursor.type],
           MoveTo(c, t, cursor.offset + at, steps, e)
    PROVE  ReaderInv'
    <1>1. /\ cursor.type \in Type /\ cursor.offset \in Nat
          /\ buffer \in Buffer
          /\ cursor.offset + FixedSize[cursor.type] <= buffer.size
      BY DEF ReaderInv, TypeOK, CursorInBounds, Opened
    <1>2. buffer.size \in Nat
      BY <1>1, BufferAssumption
    <1>3. FixedSize[cursor.type] \in Nat /\ FixedSize[t] \in Nat
      BY <1>1, TypeFacts
    <1>4. PICK o \in Nat, size \in Nat, whole \in Nat, part \in Nat :
             /\ o = cursor.offset /\ size = buffer.size
             /\ whole = FixedSize[cursor.type] /\ part = FixedSize[t]
      BY <1>1, <1>2, <1>3
    <1>5. o + whole <= size /\ at + part <= whole
      BY <1>1, <1>4
    <1>6. ~TooSmallFor(part, size, o + at)
      BY <1>5 DEF TooSmallFor
    <1>7. o + at \in Nat /\ MoveTo(c, t, o + at, steps, e)
      BY <1>4
    <1> QED
      BY <1>4, <1>6, <1>7, MovePreserves

\* A call that follows an offset, which may lead anywhere.
LEMMA FollowPreserves ==
    ASSUME ReaderInv, status = "reading", NEW c \in {"value", "get", "visit", "at"},
           NEW t \in Type, NEW offset \in Nat, NEW steps \in Seq(Nat),
           NEW e \in {"buffer_bounds_error", "terminate"}, e = "terminate" => c = "visit",
           MoveTo(c, t, offset, steps, e)
    PROVE  ReaderInv'
    <1>1. CASE TooSmallFor(FixedSize[t], buffer.size, offset)
      BY <1>1, FailPreserves DEF MoveTo, Thrown, Dead
    <1>2. CASE ~TooSmallFor(FixedSize[t], buffer.size, offset)
      BY <1>2, MovePreserves
    <1> QED
      BY <1>1, <1>2

-----------------------------------------------------------------------------
\* Accessors.

LEMMA InitInv == Init => ReaderInv
    BY DEF Init, ReaderInv, TypeOK, CursorInBounds, OnlyOffsetsMislead, Opened, Nothing

LEMMA ReceivePreserves ==
    ASSUME ReaderInv, status = "idle", NEW b \in Buffer, Receive(b)
    PROVE  ReaderInv'
    BY DEF ReaderInv, TypeOK, CursorInBounds, OnlyOffsetsMislead, Opened, Receive

LEMMA OpenPreserves ==
    ASSUME ReaderInv, Open
    PROVE  ReaderInv'
    <1>1. buffer \in Buffer /\ status = "closed"
      BY DEF ReaderInv, TypeOK, Open
    <1>2. buffer.type \in Type
      BY <1>1, BufferAssumption
    <1>3. MoveTo("deserialise", buffer.type, 0, <<>>, "buffer_bounds_error")
      BY DEF Open
    <1>4. CASE TooSmallFor(FixedSize[buffer.type], buffer.size, 0)
      <2>1. Fail("deserialise", "buffer_bounds_error")
        BY <1>3, <1>4 DEF MoveTo
      <2>2. ~Opened'
        BY <2>1 DEF Opened, Fail
      <2>3. TypeOK'
        BY <1>1, <2>1, <2>2 DEF ReaderInv, TypeOK, Fail, Thrown
      <2> QED
        BY <2>1, <2>2, <2>3 DEF ReaderInv, CursorInBounds, OnlyOffsetsMislead, Fail
    <1>5. CASE ~TooSmallFor(FixedSize[buffer.type], buffer.size, 0)
      <2>1. <<>> \in Seq(Nat)
        OBVIOUS
      <2> QED
        BY <1>1, <1>2, <1>3, <1>5, <2>1, MovePreserves
    <1> QED
      BY <1>4, <1>5

\* The cursor of a call is at an object of the type that Holding says.
LEMMA CursorType ==
    ASSUME ReaderInv, status = "reading"
    PROVE  cursor.type \in Type /\ cursor.offset \in Nat
    BY DEF ReaderInv, TypeOK, Opened

LEMMA GetElementPreserves ==
    ASSUME ReaderInv, NEW k \in Contiguous, GetElement(k)
    PROVE  ReaderInv'
    <1> DEFINE t == cursor.type
    <1>1. status = "reading" /\ Kind[t] = k
      BY DEF GetElement, Holding
    <1>2. PICK i \in 1 .. Len(Elements[t]) :
             MoveTo("get_element", Elements[t][i], cursor.offset + ElementOffset[t][i], <<i>>,
                    "buffer_bounds_error")
      BY DEF GetElement
    <1>3. t \in Type
      BY <1>1, CursorType
    <1>4. /\ Elements[t][i] \in Type
          /\ ElementOffset[t][i] \in Nat
          /\ ElementOffset[t][i] + FixedSize[Elements[t][i]] <= FixedSize[t]
      BY <1>1, <1>3, ElementFits, TypeFacts
    <1>5. <<i>> \in Seq(Nat)
      BY <1>3, TypeFacts
    <1> QED
      BY <1>1, <1>2, <1>4, <1>5, InnerMovePreserves

LEMMA RecordToBasePreserves ==
    ASSUME ReaderInv, RecordToBase
    PROVE  ReaderInv'
    <1>1. status = "reading"
      BY DEF RecordToBase, Holding
    <1>2. PICK b \in Bases[cursor.type] : MoveTo("to_base", b, cursor.offset, <<>>, "terminate")
      BY DEF RecordToBase
    <1>3. cursor.type \in Type /\ cursor.offset \in Nat
      BY <1>1, CursorType
    <1>4. b \in Type /\ FixedSize[b] <= FixedSize[cursor.type]
      BY <1>3, BasesAssumption DEF BasesHaveFirstFields
    <1>5. <<>> \in Seq(Nat)
      OBVIOUS
    <1>6. MoveTo("to_base", b, cursor.offset + 0, <<>>, "terminate")
      BY <1>2, <1>3
    <1>7. 0 + FixedSize[b] <= FixedSize[cursor.type]
      BY <1>4, <1>3, TypeFacts
    <1> QED
      BY <1>1, <1>4, <1>5, <1>6, <1>7, InnerMovePreserves

LEMMA StaticArrayAtPreserves ==
    ASSUME ReaderInv, NEW index \in 0 .. MaxIndex, StaticArrayAt(index)
    PROVE  ReaderInv'
    <1> DEFINE t == cursor.type
    <1>1. status = "reading" /\ Kind[t] = "static_array"
      BY DEF StaticArrayAt, Holding
    <1>2. t \in Type /\ index \in Nat
      BY <1>1, CursorType
    <1>3. CASE index >= Len(Elements[t])
      <2>1. Fail("at", "out_of_range")
        BY <1>3 DEF StaticArrayAt
      <2> QED
        BY <1>1, <2>1, FailPreserves DEF Thrown
    <1>4. CASE ~(index >= Len(Elements[t]))
      <2> DEFINE at == index * FixedSize[Elements[t][index + 1]]
      <2>1. MoveTo("get_element", Elements[t][index + 1], cursor.offset + at, <<index + 1>>,
                   "buffer_bounds_error")
        BY <1>4 DEF StaticArrayAt
      <2>2. index < Len(Elements[t])
        BY <1>2, <1>4, TypeFacts
      <2>3. /\ Elements[t][index + 1] \in Type
            /\ at \in Nat
            /\ at + FixedSize[Elements[t][index + 1]] <= FixedSize[t]
        BY <1>1, <1>2, <2>2, StaticElementFits
      <2>4. <<index + 1>> \in Seq(Nat)
        BY <1>2
      <2> HIDE DEF at
      <2> QED
        BY <1>1, <2>1, <2>3, <2>4, InnerMovePreserves
    <1> QED
      BY <1>3, <1>4
LEMMA OptionalPreserves ==
    ASSUME ReaderInv, OptionalHasValue \/ OptionalValue
    PROVE  ReaderInv'
    <1> DEFINE t == cursor.type
               n == Number(0, OffsetWidth)
    <1>1. status = "reading" /\ Kind[t] = "optional"
      BY DEF OptionalHasValue, OptionalValue, Holding
    <1>2. FixedSize[t] = 4 /\ Elements[t][1] \in Type
      BY <1>1, CursorType, TypeFacts
    <1>3. ~Missing(0, OffsetWidth) /\ n \in Nat
      BY <1>1, <1>2, FixedDataPresent DEF OffsetWidth
    <1> HIDE DEF n
    <1>4. CASE OptionalHasValue
      <2>1. Return("has_value", IF n > 0 THEN 1 ELSE 0)
        BY <1>3, <1>4 DEF OptionalHasValue, n
      <2> QED
        BY <1>1, <2>1, ReturnPreserves
    <1>5. CASE OptionalValue /\ n = 0
      <2>1. Fail("value", "bad_optional_access")
        BY <1>3, <1>5 DEF OptionalValue, n
      <2> QED
        BY <1>1, <2>1, FailPreserves DEF Thrown
    <1>6. CASE OptionalValue /\ n # 0
      <2>1. MoveTo("value", Elements[t][1], n - 1, <<1>>, "buffer_bounds_error")
        BY <1>3, <1>6 DEF OptionalValue, n
      <2>2. n - 1 \in Nat /\ <<1>> \in Seq(Nat)
        BY <1>3, <1>6
      <2> QED
        BY <1>1, <1>2, <2>1, <2>2, FollowPreserves
    <1> QED
      BY <1>4, <1>5, <1>6

\* What the calls on a variant find in its fixed data.
LEMMA VariantFixedData ==
    ASSUME ReaderInv, Holding("variant")
    PROVE  /\ ~Missing(0, IndexWidth) /\ Number(0, IndexWidth) \in Nat
           /\ ~Missing(IndexWidth, OffsetWidth) /\ Number(IndexWidth, OffsetWidth) \in Nat
    <1>1. status = "reading" /\ FixedSize[cursor.type] = 6
      BY CursorType, TypeFacts DEF Holding
    <1> QED
      BY <1>1, FixedDataPresent DEF IndexWidth, OffsetWidth

LEMMA GetAlternativePreserves ==
    ASSUME ReaderInv, Holding("variant"), NEW c \in {"get", "visit"},
           NEW index \in 0 .. Len(Elements[cursor.type]) - 1,
           NEW e \in {"buffer_bounds_error", "terminate"}, e = "terminate" => c = "visit",
           GetAlternative(c, index, e)
    PROVE  ReaderInv'
    <1>1. MoveTo(c, Elements[cursor.type][index + 1], Number(IndexWidth, OffsetWidth), <<1>>, e)
      BY VariantFixedData DEF GetAlternative
    <1>2. Elements[cursor.type][index + 1] \in Type
      BY CursorType, TypeFacts DEF Holding
    <1>3. <<1>> \in Seq(Nat) /\ status = "reading"
      BY DEF Holding
    <1> QED
      BY <1>1, <1>2, <1>3, VariantFixedData, FollowPreserves

LEMMA VariantPreserves ==
    ASSUME ReaderInv, VariantIndex \/ VariantGet \/ VariantVisit \/ VariantVisitNone
    PROVE  ReaderInv'
    <1> DEFINE n == Len(Elements[cursor.type])
               index == Number(0, IndexWidth)
    <1>1. Holding("variant") /\ status = "reading"
      BY DEF VariantIndex, VariantGet, VariantVisit, VariantVisitNone, Holding
    <1>2. ~Missing(0, IndexWidth) /\ index \in Nat
      BY <1>1, VariantFixedData
    <1>3. n \in Nat
      BY <1>1, CursorType, TypeFacts
    <1>4. CASE VariantIndex
      <2>1. Return("index", index)
        BY <1>2, <1>4 DEF VariantIndex
      <2> QED
        BY <1>1, <1>2, <2>1, ReturnPreserves
    <1>5. CASE VariantGet
      <2>1. PICK i \in 0 .. n - 1 :
               IF index # i THEN Fail("get", "bad_variant_access")
               ELSE GetAlternative("get", i, "buffer_bounds_error")
        BY <1>2, <1>5 DEF VariantGet
      <2>2. CASE index # i
        BY <1>1, <2>1, <2>2, FailPreserves DEF Thrown
      <2>3. CASE index = i
        BY <1>1, <2>1, <2>3, GetAlternativePreserves
      <2> QED
        BY <2>2, <2>3
    <1>6. CASE VariantVisit
      <2>1. PICK e \in {"terminate", "buffer_bounds_error"} :
               IF index >= n /\ asserts THEN Fail("visit", "assertion_failed")
               ELSE GetAlternative("visit", IF index < n THEN index ELSE n - 1, e)
        BY <1>2, <1>6 DEF VariantVisit
      <2>2. n > 0
        BY <1>6 DEF VariantVisit
      <2>3. CASE index >= n /\ asserts
        BY <1>1, <2>1, <2>3, FailPreserves DEF Dead
      <2>4. CASE ~(index >= n /\ asserts)
        <3> DEFINE i == IF index < n THEN index ELSE n - 1
        <3>1. i \in 0 .. n - 1
          BY <1>2, <1>3, <2>2
        <3>2. GetAlternative("visit", i, e)
          BY <2>1, <2>4
        <3> HIDE DEF i
        <3> QED
          BY <1>1, <3>1, <3>2, GetAlternativePreserves
      <2> QED
        BY <2>3, <2>4
    <1>7. CASE VariantVisitNone
      <2>1. Return("visit", Nothing)
        BY <1>7 DEF VariantVisitNone
      <2> QED
        BY <1>1, <2>1, ReturnPreserves
    <1> QED
      BY <1>4, <1>5, <1>6, <1>7

LEMMA DynamicArrayPreserves ==
    ASSUME ReaderInv, NEW index \in Nat, DynamicArraySize \/ DynamicArrayAt(index)
    PROVE  ReaderInv'
    <1> DEFINE t == cursor.type
               n == Number(0, SizeWidth)
               first == Number(SizeWidth, OffsetWidth)
    <1>1. status = "reading" /\ Kind[t] = "dynamic_array"
      BY DEF DynamicArraySize, DynamicArrayAt, Holding
    <1>2. FixedSize[t] = 8 /\ Elements[t][1] \in Type
      BY <1>1, CursorType, TypeFacts
    <1>3. ~Missing(0, SizeWidth) /\ n \in Nat
      BY <1>1, <1>2, FixedDataPresent DEF SizeWidth
    <1>4. ~Missing(SizeWidth, OffsetWidth) /\ first \in Nat
      BY <1>1, <1>2, FixedDataPresent DEF SizeWidth, OffsetWidth
    <1>5. CASE DynamicArraySize
      <2>1. Return("size", n)
        BY <1>3, <1>5 DEF DynamicArraySize
      <2> QED
        BY <1>1, <1>3, <2>1, ReturnPreserves
    <1>6. CASE DynamicArrayAt(index) /\ index >= n
      <2>1. Fail("at", "out_of_range")
        BY <1>3, <1>6 DEF DynamicArrayAt
      <2> QED
        BY <1>1, <2>1, FailPreserves DEF Thrown
    <1>7. CASE DynamicArrayAt(index) /\ ~(index >= n)
      <2> DEFINE sum == first + FixedSize[Elements[t][1]] * index
                 offset == sum % AddressSpace
      <2>1. MoveTo("at", Elements[t][1], offset, <<index + 1>>, "buffer_bounds_error")
        BY <1>3, <1>4, <1>7 DEF DynamicArrayAt
      <2>2. sum \in Nat /\ <<index + 1>> \in Seq(Nat)
        <3>1. FixedSize[Elements[t][1]] \in Nat
          BY <1>2, TypeFacts
        <3>2. \A x, y \in Nat : x * y \in Nat
          OBVIOUS
        <3>3. FixedSize[Elements[t][1]] * index \in Nat
          BY <3>1, <3>2
        <3> QED
          BY <1>4, <3>3
      <2> HIDE DEF sum
      <2>3. offset \in Nat
        BY <2>2, AddressAssumption
      <2> HIDE DEF offset
      <2> QED
        BY <1>1, <1>2, <2>1, <2>2, <2>3, FollowPreserves
    <1> QED
      BY <1>5, <1>6, <1>7

-----------------------------------------------------------------------------

LEMMA StepPreserves == ReaderInv /\ [Next]_readerVars => ReaderInv'
    <1> SUFFICES ASSUME ReaderInv, [Next]_readerVars
                 PROVE  ReaderInv'
      OBVIOUS
    <1>1. CASE status = "idle" /\ \E b \in Buffer : Receive(b)
      BY <1>1, ReceivePreserves
    <1>2. CASE Open
      BY <1>2, OpenPreserves
    <1>3. CASE PairGet \/ TupleGet \/ RecordGet
      BY <1>3, GetElementPreserves DEF PairGet, TupleGet, RecordGet, Contiguous
    <1>4. CASE RecordToBase
      BY <1>4, RecordToBasePreserves
    <1>5. CASE OptionalHasValue \/ OptionalValue
      BY <1>5, OptionalPreserves
    <1>6. CASE VariantIndex \/ VariantGet \/ VariantVisit \/ VariantVisitNone
      BY <1>6, VariantPreserves
    <1>7. CASE DynamicArraySize
      <2>1. 0 \in Nat
        OBVIOUS
      <2> QED
        BY <1>7, <2>1, DynamicArrayPreserves
    <1>8. CASE \E index \in 0 .. MaxIndex : StaticArrayAt(index) \/ DynamicArrayAt(index)
      <2>1. PICK index \in 0 .. MaxIndex : StaticArrayAt(index) \/ DynamicArrayAt(index)
        BY <1>8
      <2>2. index \in Nat
        OBVIOUS
      <2> QED
        BY <2>1, <2>2, StaticArrayAtPreserves, DynamicArrayPreserves
    <1>9. CASE UNCHANGED readerVars
      BY <1>9 DEF readerVars, ReaderInv, TypeOK, CursorInBounds, OnlyOffsetsMislead, Opened
    <1> QED
      BY <1>1, <1>2, <1>3, <1>4, <1>5, <1>6, <1>7, <1>8, <1>9 DEF Next, Read

THEOREM ReaderInvHolds == Spec => []ReaderInv
    <1> QED
      BY InitInv, StepPreserves, PTL DEF Spec

\* The machine is type correct.
THEOREM ReaderTypeCorrect == Spec => []TypeOK
    <1>1. ReaderInv => TypeOK
      BY DEF ReaderInv
    <1> QED
      BY <1>1, ReaderInvHolds, PTL

\* For every buffer and all types: each deserialiser that a caller can get hold
\* of lies within the buffer (common.hpp:87-90).
THEOREM DeserialisersInBounds == Spec => []CursorInBounds
    <1>1. ReaderInv => CursorInBounds
      BY DEF ReaderInv
    <1> QED
      BY <1>1, ReaderInvHolds, PTL

\* For every buffer and all types: reading fixed data never throws, and so does
\* not leave the noexcept conversion of record.hpp:369.
THEOREM FixedDataReadable == Spec => []OnlyOffsetsMislead
    <1>1. ReaderInv => OnlyOffsetsMislead
      BY DEF ReaderInv
    <1> QED
      BY <1>1, ReaderInvHolds, PTL

-----------------------------------------------------------------------------
\* Elements of arrays.

LEMMA ProductsInOrder ==
    ASSUME NEW a \in Nat, NEW b \in Nat, NEW c \in Nat, b <= c
    PROVE  a * b \in Nat /\ a * b <= a * c
    <1>1. PICK d \in Nat : c = b + d
      BY c - b \in Nat
    <1>2. \A x, y \in Nat : x * y \in Nat
      OBVIOUS
    <1>3. a * (b + d) = a * b + a * d
      OBVIOUS
    <1> QED
      BY <1>1, <1>2, <1>3

\* A number is largest when its parts are.
LEMMA ThenInOrder ==
    ASSUME NEW low \in Byte, NEW high \in Nat, NEW most \in Nat, high <= most
    PROVE  /\ Then(low, high) \in Nat /\ Then(Radix - 1, most) \in Nat
           /\ Then(low, high) <= Then(Radix - 1, most)
    <1>1. Radix \in Nat /\ low \in Nat /\ low <= Radix - 1 /\ Radix - 1 \in Nat
      BY RadixAssumption DEF Byte
    <1>2. Radix * high \in Nat /\ Radix * most \in Nat /\ Radix * high <= Radix * most
      BY <1>1, ProductsInOrder
    <1> QED
      BY <1>1, <1>2 DEF Then

\* Four bytes hold at most LargestNumber.
LEMMA FourBytesAtMost ==
    ASSUME NEW m, NEW size \in Nat, m \in [0 .. size - 1 -> Byte],
           NEW offset \in Nat, ~TooSmallFor(4, size, offset)
    PROVE  /\ LargestNumber \in Nat
           /\ UnsignedValue(m, offset, 4) \in Nat
           /\ UnsignedValue(m, offset, 4) <= LargestNumber
    <1>1. offset + 4 <= size
      BY DEF TooSmallFor
    <1>2. ASSUME NEW k \in 1 .. 4 PROVE m[offset + k - 1] \in Byte
      BY <1>1
    <1>3. PICK b : b = [k \in 1 .. 4 |-> m[offset + k - 1]]
      OBVIOUS
    <1>4. b[1] \in Byte /\ b[2] \in Byte /\ b[3] \in Byte /\ b[4] \in Byte
      <2>1. \A k \in 1 .. 4 : b[k] \in Byte
        BY <1>2, <1>3
      <2> QED
        BY <2>1
    <1>5. UnsignedValue(m, offset, 4) = Then(b[1], Then(b[2], Then(b[3], b[4])))
      BY <1>3 DEF UnsignedValue
    <1> DEFINE r == Radix - 1
    <1>6. b[4] \in Nat /\ r \in Nat /\ b[4] <= r
      BY <1>4, RadixAssumption DEF Byte
    <1> HIDE DEF r
    <1> DEFINE two == Then(b[3], b[4])
               most2 == Then(r, r)
               three == Then(b[2], two)
               most3 == Then(r, most2)
    <1>7. two \in Nat /\ most2 \in Nat /\ two <= most2
      BY <1>4, <1>6, ThenInOrder DEF r
    <1> HIDE DEF two, most2
    <1>8. three \in Nat /\ most3 \in Nat /\ three <= most3
      BY <1>4, <1>7, ThenInOrder DEF r
    <1> HIDE DEF three, most3
    <1>9. /\ Then(b[1], three) \in Nat /\ Then(r, most3) \in Nat
          /\ Then(b[1], three) <= Then(r, most3)
      BY <1>4, <1>8, ThenInOrder DEF r
    <1>10. LargestNumber = Then(r, most3)
      BY DEF LargestNumber, most3, most2, r
    <1>11. UnsignedValue(m, offset, 4) = Then(b[1], three)
      BY <1>5 DEF three, two
    <1> QED
      BY <1>9, <1>10, <1>11

\* at() and operator[] of an array, when nothing is thrown.
LEMMA ElementFound ==
    ASSUME EnoughAddresses, ReaderInv, NEW index \in Nat, DynamicArrayAt(index),
           status' = "reading"
    PROVE  Number(SizeWidth, OffsetWidth) + FixedSize[cursor'.type] * path'[Len(path')]
              <= buffer.size
    <1> DEFINE t == cursor.type
               fs == FixedSize[Elements[t][1]]
               n == Number(0, SizeWidth)
               first == Number(SizeWidth, OffsetWidth)
    <1>1. status = "reading" /\ Kind[t] = "dynamic_array" /\ t \in Type
      BY CursorType DEF DynamicArrayAt, Holding
    <1>2. FixedSize[t] = 8 /\ Elements[t][1] \in Type /\ fs \in Nat
      BY <1>1, TypeFacts
    <1>3. ~Missing(0, SizeWidth) /\ ~Missing(SizeWidth, OffsetWidth)
      BY <1>1, <1>2, FixedDataPresent DEF SizeWidth, OffsetWidth
    <1>4. /\ buffer.size \in Nat /\ buffer.bytes \in [0 .. buffer.size - 1 -> Byte]
          /\ cursor.offset \in Nat /\ path \in Seq(Nat)
      <2>1. Opened /\ buffer \in Buffer
        BY <1>1 DEF ReaderInv, TypeOK, Opened
      <2> QED
        BY <2>1, BufferAssumption DEF ReaderInv, TypeOK
    <1>5. n \in Nat /\ n <= LargestNumber /\ first \in Nat /\ first <= LargestNumber
          /\ LargestNumber \in Nat
      <2>1. cursor.offset + 0 \in Nat /\ cursor.offset + 4 \in Nat
        BY <1>4
      <2> QED
        BY <1>3, <1>4, <2>1, FourBytesAtMost DEF Number, Missing, SizeWidth, OffsetWidth
    <1> DEFINE sum == first + fs * index
    <1>6. /\ index < n
          /\ MoveTo("at", Elements[t][1], sum % AddressSpace, <<index + 1>>, "buffer_bounds_error")
      BY <1>1, <1>3, <1>5 DEF DynamicArrayAt, Fail
    <1>7. /\ ~TooSmallFor(fs, buffer.size, sum % AddressSpace)
          /\ cursor'.type = Elements[t][1] /\ path' = path \o <<index + 1>>
      BY <1>6 DEF MoveTo, Fail
    <1>8. sum \in Nat /\ sum < AddressSpace
      <2>1. index <= LargestNumber
        BY <1>5, <1>6
      <2>2. fs * index \in Nat /\ fs * index <= fs * LargestNumber
        BY <1>2, <1>5, <2>1, ProductsInOrder
      <2>3. fs * LargestNumber \in Nat
        BY <1>2, <1>5, ProductsInOrder
      <2>4. LargestNumber + fs * LargestNumber < AddressSpace
        BY <1>1 DEF EnoughAddresses
      <2> DEFINE product == fs * index
                 most == fs * LargestNumber
      <2> HIDE DEF fs, n, first, product, most
      <2> QED
        BY <1>5, <2>2, <2>3, <2>4, AddressAssumption DEF product, most
    <1> HIDE DEF sum
    <1>9. sum % AddressSpace = sum
      BY <1>8, AddressAssumption
    <1>10. sum + fs <= buffer.size
      BY <1>2, <1>4, <1>7, <1>8, <1>9 DEF TooSmallFor
    <1>11. path'[Len(path')] = index + 1
      BY <1>4, <1>7
    <1>12. first + fs * (index + 1) = sum + fs
      <2>1. fs * (index + 1) = fs * index + fs
        <3> HIDE DEF fs
        <3> QED
          BY <1>2
      <2> QED
        BY <1>2, <1>5, <2>1, ProductsInOrder DEF sum
    <1> QED
      BY <1>7, <1>10, <1>11, <1>12

\* For every buffer and all types, when a std::size_t is wide enough: an element
\* that is handed out lies where its array says (dynamic_array.hpp:358), never
\* elsewhere because the sum of offset and distance wrapped around.
THEOREM ElementsInArrays ==
    ASSUME EnoughAddresses
    PROVE  Spec => ElementsInBuffer
    <1> DEFINE Found == Number(SizeWidth, OffsetWidth)
                           + FixedSize[cursor'.type] * path'[Len(path')] <= buffer.size
               Step == status' = "reading" /\ call' = "at" => Found
    <1>1. ReaderInv /\ [Next]_readerVars => [Step]_readerVars
      <2> SUFFICES ASSUME ReaderInv, Next, status' = "reading", call' = "at"
                   PROVE  Found
        OBVIOUS
      <2>1. \A b \in Buffer : ~Receive(b)
        BY DEF Receive
      <2>2. ~Open /\ ~PairGet /\ ~TupleGet /\ ~RecordGet /\ ~RecordToBase
        BY DEF Open, PairGet, TupleGet, RecordGet, GetElement, RecordToBase, MoveTo, Fail
      <2>3. ~OptionalHasValue /\ ~OptionalValue
        BY DEF OptionalHasValue, OptionalValue, MoveTo, Fail, Return
      <2>4. ~VariantIndex /\ ~VariantGet /\ ~VariantVisit /\ ~VariantVisitNone
        BY DEF VariantIndex, VariantGet, VariantVisit, VariantVisitNone, GetAlternative,
               MoveTo, Fail, Return
      <2>5. ~DynamicArraySize
        BY DEF DynamicArraySize, Fail, Return
      <2>6. \A index : ~StaticArrayAt(index)
        BY DEF StaticArrayAt, MoveTo, Fail
      <2>7. PICK index \in 0 .. MaxIndex : DynamicArrayAt(index)
        BY <2>1, <2>2, <2>3, <2>4, <2>5, <2>6 DEF Next, Read
      <2>8. index \in Nat
        OBVIOUS
      <2> QED
        BY <2>7, <2>8, ElementFound
    <1> QED
      BY <1>1, ReaderInvHolds, PTL DEF Spec, ElementsInBuffer
=============================================================================
