-------------------------------- MODULE Scalars --------------------------------
(***************************************************************************)
(* The serialisers and deserialisers of scalars (scalar.hpp): one value is *)
(* serialised on one machine and deserialised on another, of the same or   *)
(* of another byte order, at run time or in a constant expression, or the  *)
(* fixed data comes from elsewhere and holds any bytes.                    *)
(*                                                                         *)
(* A byte holds Radix values (256 in the code).  Shifting by 8 bits is     *)
(* multiplying or dividing by Radix, and as the bytes that are or-ed in    *)
(* the loop of the deserialiser do not overlap, or-ing them is adding.  A  *)
(* floating point value stands for its bit pattern, so that std::bit_cast  *)
(* leaves it alone.                                                        *)
(***************************************************************************)
EXTENDS Integers

CONSTANTS
    Radix,             \* values of a byte
    IntegerWidths,     \* sizes of the integer types
    FloatWidths        \* sizes of the floating point types

ASSUME RadixAssumption == Radix \in Nat /\ Radix > 1 /\ Radix % 2 = 0
ASSUME WidthAssumption == IntegerWidths \cup FloatWidths \subseteq Nat \ {0}

\* A scalar type: its kind and its size in bytes.
Scalar ==
    [kind : {"null"}, width : {0}] \cup [kind : {"bool", "byte"}, width : {1}]
    \cup [kind : {"unsigned", "signed"}, width : IntegerWidths]
    \cup [kind : {"floating"}, width : FloatWidths]

\* How bytes get into and out of the message.
Machine == {"little", "big", "mixed", "constexpr"}

Byte == 0 .. Radix - 1

\* What a 1 is worth, shifted by k bytes.
Power[k \in Nat] == IF k = 0 THEN 1 ELSE Radix * Power[k - 1]

Pattern(width) == 0 .. Power[width] - 1
Values(t) ==
    CASE t.kind = "bool" -> BOOLEAN
      [] t.kind = "signed" -> -(Power[t.width] \div 2) .. Power[t.width] \div 2 - 1
      [] OTHER -> Pattern(t.width)

\* static_cast to the unsigned type and back, for numbers of the given width.
TwosComplement(v, width) == v % Power[width]
SignedValue(u, width) == IF u < Power[width] \div 2 THEN u ELSE u - Power[width]

\* The byte of a bool, and what a byte is as a bool.
BoolByte(v) == IF v THEN 1 ELSE 0

\* Faulty: takes a byte for true only if it is 1.
ByteBoolOnlyOne(u) == u = 1

ByteBool(u) == u # 0

\* The unsigned value or the byte that is serialised in place of v, and back.
ToPattern(t, v) ==
    CASE t.kind = "bool" -> BoolByte(v)
      [] t.kind = "signed" -> TwosComplement(v, t.width)
      [] OTHER -> v

FromPattern(t, u) ==
    CASE t.kind = "bool" -> ByteBool(u)
      [] t.kind = "signed" -> SignedValue(u, t.width)
      [] OTHER -> u

\* Byte k of u, counted from the least significant one.
ByteOf(u, k) == (u \div Power[k]) % Radix
LittleEndian(u, width) == [k \in 0 .. width - 1 |-> ByteOf(u, k)]

\* The object representation of u in the memory of a machine.
Memory(u, width, order) ==
    [k \in 0 .. width - 1 |-> ByteOf(u, IF order = "big" THEN width - 1 - k ELSE k)]

Reversed(bytes, width) == [k \in 0 .. width - 1 |-> bytes[width - 1 - k]]

VARIABLES
    type,              \* the scalar type
    machine,           \* the machine that is at work
    step,              \* "write", "read" or "done"
    source,            \* the value serialised: a set of one, or {} if the bytes
                       \* come from elsewhere
    fixed,             \* the fixed data of the message
    local,             \* the local variable value of serialise() and of value()
    i,                 \* how many bytes were written or read
    result             \* the value deserialised: a set of at most one

scalarVars == <<type, machine, step, source, fixed, local, i, result>>

\* Whether the loops of shifts are used.
Shifts == machine \in {"mixed", "constexpr"}

-----------------------------------------------------------------------------

\* Either a value is to be serialised, over what the buffer holds, or any bytes
\* were received.
Init ==
    /\ type \in Scalar
    /\ machine \in Machine
    /\ i = 0
    /\ result = {}
    /\ \/ /\ step = "write"
          /\ \E v \in Values(type) : source = {v} /\ local = ToPattern(type, v)
          /\ fixed = [j \in 0 .. type.width - 1 |-> Radix - 1]
       \/ /\ step = "read"
          /\ source = {}
          /\ local = 0
          /\ fixed \in [0 .. type.width - 1 -> Byte]

\* One turn of the loop in serialise().
WriteByte ==
    /\ step = "write" /\ Shifts /\ i < type.width
    /\ fixed' = [fixed EXCEPT ![i] = local % Radix]
    /\ local' = local \div Radix
    /\ i' = i + 1
    /\ UNCHANGED <<type, machine, step, source, result>>

\* Faulty: copies in the order of the memory.
CopyOutNative ==
    /\ step = "write" /\ ~Shifts /\ i < type.width
    /\ fixed' = Memory(local, type.width, machine)
    /\ i' = type.width
    /\ UNCHANGED <<type, machine, step, source, local, result>>

\* std::copy_n or std::reverse_copy from the memory of the value.
CopyOut ==
    /\ step = "write" /\ ~Shifts /\ i < type.width
    /\ LET memory == Memory(local, type.width, machine) IN
       fixed' = IF machine = "big" THEN Reversed(memory, type.width) ELSE memory
    /\ i' = type.width
    /\ UNCHANGED <<type, machine, step, source, local, result>>

\* The message is given to a machine.
Send ==
    /\ step = "write" /\ i = type.width
    /\ step' = "read"
    /\ machine' \in Machine
    /\ local' = 0
    /\ i' = 0
    /\ UNCHANGED <<type, source, fixed, result>>

\* Faulty: shifts a byte before it is widened.
ReadByteNarrow ==
    /\ step = "read" /\ Shifts /\ i < type.width
    /\ local' = local + ((fixed[i] * Power[i]) % Radix)
    /\ i' = i + 1
    /\ UNCHANGED <<type, machine, step, source, fixed, result>>

\* One turn of the loop in value(); U holds no more than its width.
ReadByte ==
    /\ step = "read" /\ Shifts /\ i < type.width
    /\ local' = (local + fixed[i] * Power[i]) % Power[type.width]
    /\ i' = i + 1
    /\ UNCHANGED <<type, machine, step, source, fixed, result>>

\* std::copy_n or std::reverse_copy into the memory of the value.
CopyIn ==
    /\ step = "read" /\ ~Shifts /\ i < type.width
    /\ \E u \in Pattern(type.width) :
          /\ local' = u
          /\ Memory(u, type.width, machine)
                = IF machine = "big" THEN Reversed(fixed, type.width) ELSE fixed
    /\ i' = type.width
    /\ UNCHANGED <<type, machine, step, source, fixed, result>>

\* value() returns.
Return ==
    /\ step = "read" /\ i = type.width
    /\ step' = "done"
    /\ result' = {FromPattern(type, local)}
    /\ UNCHANGED <<type, machine, source, fixed, local, i>>

Next == WriteByte \/ CopyOut \/ Send \/ ReadByte \/ CopyIn \/ Return

Spec == Init /\ [][Next]_scalarVars

-----------------------------------------------------------------------------

\* Whatever the machine, a message holds two's complement numbers and the bit
\* patterns of floats in little endian, and 0 or 1 for a bool
\* (SerialisationFormat.md:23-72).
ImageIsLittleEndian ==
    step # "write" =>
        \A v \in source :
            IF type.kind = "bool" THEN fixed[0] = (IF v THEN 1 ELSE 0)
            ELSE fixed = LittleEndian(v % Power[type.width], type.width)

\* Whatever the two machines, the value read is the one written.
RoundTrip == step = "done" /\ source # {} => result = source

\* Any bytes are some value of the type, and no two give the same one but for
\* a bool, which is true for each byte but 0.
AnyBytesAreAValue ==
    step = "done" =>
        \A v \in result :
            /\ v \in Values(type)
            /\ IF type.kind = "bool" THEN v = (fixed[0] # 0)
               ELSE fixed = LittleEndian(v % Power[type.width], type.width)
=============================================================================
