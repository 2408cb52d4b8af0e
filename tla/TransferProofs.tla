---------------------------- MODULE TransferProofs ----------------------------
(***************************************************************************)
(* The round trip, for every table of types, every source and every size:  *)
(* what serialise() has written reads, accessor by accessor, as the source *)
(* it was written from.                                                    *)
(*                                                                         *)
(* The argument follows a set R of places: pairs of a source that was      *)
(* reached and the offset of its fixed data.  While serialise() runs, each *)
(* place either holds its encoding, whose subobjects are places too, or is *)
(* still owed by an active call; at the end nothing is owed.  A reader     *)
(* moves from place to place.                                              *)
(*                                                                         *)
(* By induction on the depth of types, deserialise() of a place is the     *)
(* source there, so that the buffer is a store for one value.  And since   *)
(* every place is a part of another one, up to the root, and one of them   *)
(* ends where the message ends, a message that was cut does not read.      *)
(***************************************************************************)
EXTENDS Transfer, SerialiserProofs

\* The w bytes of the number v are in m at offset o, or in the message.
Stored(m, o, v, w) == \A k \in 1 .. w : m[o + k - 1] = LittleEndian(v, w)[k]
Holds(o, v, w) == o + w <= used /\ Stored(mem, o, v, w)

\* Where the elements of n are, if its fixed data is theirs and starts at o, and
\* where the elements of a dynamic_array are, if the first is at `at`.
Parts(n, o) ==
    IF Kind[n.type] \in Contiguous
    THEN {<<n.sub[i], o + ElementOffset[n.type][i]>> : i \in 1 .. Len(n.sub)} ELSE {}

Items(n, at) ==
    {<<n.sub[i], at + FixedSize[Elements[n.type][1]] * (i - 1)>> : i \in 1 .. Len(n.sub)}

\* The encodings of SerialisationFormat.md: the fixed data of n is at offset o,
\* and the places of its subobjects are in R.
OptionalEncoded(n, o, R) ==
    IF n.sub = <<>> THEN Holds(o, 0, OffsetWidth)
    ELSE \E at \in Nat : /\ Holds(o, at + 1, OffsetWidth) /\ at + 1 <= MaxDataOffset
                         /\ <<n.sub[1], at>> \in R

VariantEncoded(n, o, R) ==
    n.sub # <<>> /\ \E at \in Nat : /\ Holds(o, n.val, IndexWidth)
                                    /\ Holds(o + IndexWidth, at, OffsetWidth)
                                    /\ at <= MaxDataOffset
                                    /\ <<n.sub[1], at>> \in R

ArrayEncoded(n, o, R) ==
    /\ Holds(o, Len(n.sub), SizeWidth) /\ Len(n.sub) <= MaxArraySize
    /\ n.sub # <<>> => \E at \in Nat : /\ Holds(o + SizeWidth, at, OffsetWidth)
                                       /\ at <= MaxDataOffset
                                       /\ Items(n, at) \subseteq R

Encoded(n, o, R) ==
    LET t == n.type IN
    /\ Kind[t] = "scalar" => Holds(o, n.val, FixedSize[t])
    /\ Parts(n, o) \subseteq R
    /\ Kind[t] = "optional" => OptionalEncoded(n, o, R)
    /\ Kind[t] = "variant" /\ Elements[t] # <<>> => VariantEncoded(n, o, R)
    /\ Kind[t] = "dynamic_array" => ArrayEncoded(n, o, R)

\* The places that the call f has still to see to.
Owes(f) ==
    LET n == f.node
        t == n.type
    IN
    IF Kind[t] \in Contiguous
    THEN {<<n.sub[i], f.fo + ElementOffset[t][i] - ElementOffset[t][f.i + 1]>> :
              i \in f.i + 1 .. Len(n.sub)}
    ELSE IF f.step = "elements"
    THEN {<<n.sub[i], f.fo + FixedSize[Elements[t][1]] * (i - 1 - f.i)>> :
              i \in f.i + 1 .. Len(n.sub)}
    ELSE {<<n, f.fo>>}

PlaceSet == Source \X Nat

\* The fixed data of every place of R lies within the first `size` bytes.
PlacesWithin(R, size) == \A p \in R : p[2] + FixedSize[p[1].type] <= size

Placed(R) ==
    /\ R \subseteq PlaceSet
    /\ phase \in {"running", "done"} => <<root, 0>> \in R
    /\ PlacesWithin(R, used)
    /\ \A p \in R : \/ Encoded(p[1], p[2], R)
                    \/ \E j \in 1 .. Len(stack) : p \in Owes(stack[j])
    /\ \A j \in 1 .. Len(stack) :
          stack[j].step = "finish" => Items(stack[j].node, stack[j].start) \subseteq R

-----------------------------------------------------------------------------
\* Numbers.

\* No byte that a call has written changes until serialise() returns.
KeepsWritten ==
    /\ used \in Nat /\ used' \in Nat /\ used <= used'
    /\ \A x \in 0 .. used - 1 : mem[x] # Stale => mem'[x] = mem[x]

LEMMA HoldsKept ==
    ASSUME KeepsWritten, NEW o \in Nat, NEW v \in Nat, NEW w \in {1, 2, 4, 8}, Holds(o, v, w)
    PROVE  Holds(o, v, w)'
<1>1. o + w <= used' /\ \A k \in 1 .. w : o + k - 1 \in 0 .. used - 1
  BY DEF Holds, KeepsWritten
<1>2. \A k \in 1 .. w : LittleEndian(v, w)[k] # Stale
  <2>1. LittleEndian(v, w) \in [1 .. w -> Byte]
    BY LittleEndianBytes
  <2>2. \A b \in Byte : b # Stale
    BY RadixAssumption DEF Byte, Stale
  <2> QED
    BY <2>1, <2>2
<1>3. \A k \in 1 .. w : mem'[o + k - 1] = LittleEndian(v, w)[k]
  BY <1>1, <1>2 DEF Holds, Stored, KeepsWritten
<1> QED
  BY <1>1, <1>3 DEF Holds, Stored

\* An encoding stays one when the message grows and more places become known.
LEMMA EncodedKept ==
    ASSUME KeepsWritten, NEW R, NEW S, R \subseteq S,
           NEW n \in Source, NEW o \in Nat, Encoded(n, o, R)
    PROVE  Encoded(n, o, S)'
<1> DEFINE t == n.type
<1>1. t \in Type /\ n.val \in Nat /\ Len(n.sub) \in Nat
  BY SourceAssumption
<1>2. Kind[t] = "scalar" => FixedSize[t] \in {1, 2, 4, 8}
  BY <1>1, TypesAssumption DEF HasFixedDataSize
<1>3. OffsetWidth \in {1, 2, 4, 8} /\ SizeWidth \in {1, 2, 4, 8} /\ IndexWidth \in {1, 2, 4, 8}
      /\ o + IndexWidth \in Nat /\ o + SizeWidth \in Nat
  BY DEF OffsetWidth, SizeWidth, IndexWidth
<1>4. Kind[t] = "scalar" => Holds(o, n.val, FixedSize[t])'
  BY <1>1, <1>2, HoldsKept DEF Encoded
<1>5. Parts(n, o) \subseteq S
  BY DEF Encoded
<1>6. Kind[t] = "optional" => OptionalEncoded(n, o, S)'
  <2> SUFFICES ASSUME Kind[t] = "optional"
               PROVE  OptionalEncoded(n, o, S)'
    OBVIOUS
  <2>1. CASE n.sub = <<>>
    <3>1. Holds(o, 0, OffsetWidth)
      BY <2>1 DEF Encoded, OptionalEncoded
    <3>2. 0 \in Nat
      OBVIOUS
    <3> QED
      BY <1>3, <2>1, <3>1, <3>2, HoldsKept DEF OptionalEncoded
  <2>2. CASE n.sub # <<>>
    <3>1. PICK at \in Nat : /\ Holds(o, at + 1, OffsetWidth) /\ at + 1 <= MaxDataOffset
                            /\ <<n.sub[1], at>> \in R
      BY <2>2 DEF Encoded, OptionalEncoded
    <3>2. at + 1 \in Nat
      OBVIOUS
    <3>3. Holds(o, at + 1, OffsetWidth)'
      BY <1>3, <3>1, <3>2, HoldsKept
    <3> QED
      BY <2>2, <3>1, <3>3 DEF OptionalEncoded
  <2> QED
    BY <2>1, <2>2
<1>7. Kind[t] = "variant" /\ Elements[t] # <<>> => VariantEncoded(n, o, S)'
  <2> SUFFICES ASSUME Kind[t] = "variant", Elements[t] # <<>>
               PROVE  VariantEncoded(n, o, S)'
    OBVIOUS
  <2>1. n.sub # <<>>
    BY DEF Encoded, VariantEncoded
  <2>2. PICK at \in Nat : /\ Holds(o, n.val, IndexWidth)
                          /\ Holds(o + IndexWidth, at, OffsetWidth)
                          /\ at <= MaxDataOffset /\ <<n.sub[1], at>> \in R
    BY DEF Encoded, VariantEncoded
  <2>3. Holds(o, n.val, IndexWidth)' /\ Holds(o + IndexWidth, at, OffsetWidth)'
    BY <1>1, <1>3, <2>2, HoldsKept
  <2> QED
    BY <2>1, <2>2, <2>3 DEF VariantEncoded
<1>8. Kind[t] = "dynamic_array" => ArrayEncoded(n, o, S)'
  <2> SUFFICES ASSUME Kind[t] = "dynamic_array"
               PROVE  ArrayEncoded(n, o, S)'
    OBVIOUS
  <2>1. Holds(o, Len(n.sub), SizeWidth)' /\ Len(n.sub) <= MaxArraySize
    BY <1>1, <1>3, HoldsKept DEF Encoded, ArrayEncoded
  <2>2. ASSUME n.sub # <<>>
        PROVE  \E at \in Nat : /\ Holds(o + SizeWidth, at, OffsetWidth)'
                               /\ at <= MaxDataOffset /\ Items(n, at) \subseteq S
    <3>1. PICK at \in Nat : /\ Holds(o + SizeWidth, at, OffsetWidth)
                            /\ at <= MaxDataOffset /\ Items(n, at) \subseteq R
      BY <2>2 DEF Encoded, ArrayEncoded
    <3>2. Holds(o + SizeWidth, at, OffsetWidth)'
      BY <1>3, <3>1, HoldsKept
    <3> QED
      BY <3>1, <3>2
  <2> QED
    BY <2>1, <2>2 DEF ArrayEncoded, Items
<1> QED
  BY <1>4, <1>5, <1>6, <1>7, <1>8 DEF Encoded, Parts

\* A step of a running call keeps what was written.
LEMMA StepKeepsWritten ==
    ASSUME ViewInv, SectionsPartitionUnwritten, Step, used' \in Nat, used' >= used
    PROVE  KeepsWritten
<1>1. used \in Nat
  BY DEF ViewInv, TypeOK
<1>2. phase = "running" /\ StaysInSection(Top, mem, mem')
  BY StepStaysInSection
<1>3. \A x \in Section(Top) : mem[x] = Stale
  BY <1>2, TopSectionUnwritten
<1> QED
  BY <1>1, <1>2, <1>3 DEF KeepsWritten, StaysInSection

-----------------------------------------------------------------------------
\* Places.

\* The fixed data of the elements lies within that of what they make up.
LEMMA PartsWithin ==
    ASSUME NEW n \in Source, NEW o \in Nat, NEW size \in Nat, o + FixedSize[n.type] <= size
    PROVE  Parts(n, o) \subseteq PlaceSet /\ PlacesWithin(Parts(n, o), size)
<1> DEFINE t == n.type
<1> SUFFICES ASSUME NEW p \in Parts(n, o)
             PROVE  p \in PlaceSet /\ p[2] + FixedSize[p[1].type] <= size
  BY DEF PlacesWithin
<1>1. Kind[t] \in Contiguous
  BY DEF Parts
<1>2. PICK i \in 1 .. Len(n.sub) : p = <<n.sub[i], o + ElementOffset[t][i]>>
  BY DEF Parts
<1>3. t \in Type /\ n.sub \in Seq(Source) /\ SubsHaveTypes(n)
  BY SourceAssumption
<1>4. n.sub[i] \in Source /\ n.sub[i].type = Elements[t][i] /\ i \in 1 .. Len(Elements[t])
  BY <1>1, <1>3, ElementOfSeq DEF SubsHaveTypes
<1>5. /\ ElementOffset[t] \in [1 .. Len(Elements[t]) + 1 -> Nat]
      /\ ElementOffset[t][i + 1] = ElementOffset[t][i] + FixedSize[Elements[t][i]]
      /\ ElementOffset[t][i + 1] <= FixedSize[t]
  BY <1>1, <1>3, <1>4, TypesAssumption DEF HasElementOffsets
<1>6. Len(Elements[t]) \in Nat /\ Elements[t][i] \in Type /\ FixedSize[Elements[t][i]] \in Nat
      /\ FixedSize[t] \in Nat
  BY <1>3, <1>4, ElementOfSeq, TypesAssumption
<1>7. ElementOffset[t][i] \in Nat
  BY <1>4, <1>5, <1>6
<1> HIDE DEF t
<1>8. o + ElementOffset[t][i] \in Nat
      /\ o + ElementOffset[t][i] + FixedSize[Elements[t][i]] <= size
  <2>1. \A a, b, c, d \in Nat : a + d <= size /\ b + c <= d => a + b + c <= size
    OBVIOUS
  <2>2. o + FixedSize[t] <= size
    BY DEF t
  <2>3. ElementOffset[t][i] + FixedSize[Elements[t][i]] <= FixedSize[t]
    BY <1>5
  <2>4. o + ElementOffset[t][i] + FixedSize[Elements[t][i]] <= size
    BY <1>6, <1>7, <2>1, <2>2, <2>3
  <2> QED
    BY <1>7, <2>4
<1> QED
  BY <1>2, <1>4, <1>8 DEF PlaceSet, t

\* A call sees to the place it is for, or to those of its elements.
LEMMA CallOwes ==
    ASSUME NEW n \in Source, NEW o \in Nat, NEW via, NEW view, NEW R, Parts(n, o) \subseteq R
    PROVE  LET c == Call(n, o, via, view) IN
           /\ c.step = "serialise"
           /\ Parts(n, o) \subseteq Owes(c)
           /\ Encoded(n, o, R)' \/ <<n, o>> \in Owes(c)
<1> DEFINE c == Call(n, o, via, view)
           t == n.type
<1>1. c.step = "serialise" /\ c.node = n /\ c.fo = o /\ c.i = 0
  BY DEF Call
<1>2. t \in Type /\ Len(n.sub) \in Nat /\ n.sub \in Seq(Source) /\ SubsHaveTypes(n)
  BY SourceAssumption
<1> HIDE DEF c
<1>3. ASSUME Kind[t] \in Contiguous
      PROVE  Parts(n, o) \subseteq Owes(c) /\ Encoded(n, o, R)'
  <2>1. Parts(n, o) \subseteq Owes(c)
    <3> SUFFICES ASSUME NEW i \in 1 .. Len(n.sub)
                 PROVE  <<n.sub[i], o + ElementOffset[t][i]>> \in Owes(c)
      BY <1>3 DEF Parts
    <3>1. i \in c.i + 1 .. Len(n.sub) /\ c.i + 1 = 1
      BY <1>1
    <3>2. ElementOffset[t][1] = 0 /\ ElementOffset[t][i] \in Nat
      <4>1. HasElementOffsets(t) /\ Len(n.sub) = Len(Elements[t])
        BY <1>2, <1>3, TypesAssumption DEF SubsHaveTypes
      <4>2. i \in 1 .. Len(Elements[t]) + 1
        BY <1>2, <4>1
      <4> QED
        BY <4>1, <4>2 DEF HasElementOffsets
    <3>3. o + ElementOffset[t][i] = c.fo + ElementOffset[t][i] - ElementOffset[t][c.i + 1]
      BY <1>1, <3>1, <3>2
    <3> QED
      BY <1>1, <1>3, <3>1, <3>3 DEF Owes
  <2>2. Encoded(n, o, R)'
    BY <1>3 DEF Encoded, Contiguous, Parts
  <2> QED
    BY <2>1, <2>2
<1>4. ASSUME Kind[t] \notin Contiguous
      PROVE  Parts(n, o) \subseteq Owes(c) /\ <<n, o>> \in Owes(c)
  <2>1. Parts(n, o) = {}
    BY <1>4 DEF Parts
  <2>2. Owes(c) = {<<n, o>>}
    BY <1>1, <1>4 DEF Owes
  <2> QED
    BY <2>1, <2>2
<1>5. /\ c.step = "serialise" /\ Parts(n, o) \subseteq Owes(c)
      /\ Encoded(n, o, R)' \/ <<n, o>> \in Owes(c)
  BY <1>1, <1>3, <1>4
<1> QED
  BY <1>5 DEF c

\* The innermost call is replaced by the calls fs, which see to what it had to
\* see to, as far as that has not been written, and to the new places N.
LEMMA PlacedStep ==
    ASSUME ViewInv, SectionsPartitionUnwritten, Step,
           NEW fs \in Seq(Frame), Continue(fs), used' \in Nat, used' >= used,
           NEW R, Placed(R), NEW N, N \subseteq PlaceSet, PlacesWithin(N, used'),
           \A p \in Owes(Top) \cup N : \/ Encoded(p[1], p[2], R \cup N)'
                                      \/ \E k \in 1 .. Len(fs) : p \in Owes(fs[k]),
           \A k \in 1 .. Len(fs) :
              fs[k].step = "finish" => Items(fs[k].node, fs[k].start) \subseteq R \cup N
    PROVE  Placed(R \cup N)'
<1> DEFINE S == R \cup N
<1>1. phase = "running" /\ root' = root /\ used \in Nat
  BY StepStaysInSection DEF Continue, ViewInv, TypeOK
<1>2. KeepsWritten
  BY StepKeepsWritten
<1>3. stack \in Seq(Frame) /\ stack # <<>> /\ Len(stack) \in Nat \ {0} /\ Len(fs) \in Nat
  BY <1>1, TopCall DEF ViewInv, TypeOK
<1>4. /\ Len(stack') = Len(stack) - 1 + Len(fs)
      /\ \A j \in 1 .. Len(stack') :
            stack'[j] = IF j < Len(stack) THEN stack[j] ELSE fs[j - Len(stack) + 1]
  BY <1>3, ContinueStack
<1>5. R \subseteq PlaceSet /\ <<root, 0>> \in R /\ PlacesWithin(R, used)
  BY <1>1 DEF Placed
<1>6. S \subseteq PlaceSet /\ <<root', 0>> \in S
  BY <1>1, <1>5
<1>7. PlacesWithin(S, used')
  <2> SUFFICES ASSUME NEW p \in R
               PROVE  p[2] + FixedSize[p[1].type] <= used'
    BY DEF PlacesWithin
  <2>1. p[1] \in Source /\ p[2] \in Nat /\ FixedSize[p[1].type] \in Nat
    BY <1>5, SourceAssumption, TypesAssumption DEF PlaceSet
  <2>2. p[2] + FixedSize[p[1].type] <= used
    BY <1>5 DEF PlacesWithin
  <2> QED
    BY <1>1, <2>1, <2>2
<1>8. ASSUME NEW k \in 1 .. Len(fs)
      PROVE  Len(stack) - 1 + k \in 1 .. Len(stack') /\ stack'[Len(stack) - 1 + k] = fs[k]
  <2>1. /\ Len(stack) - 1 + k \in 1 .. Len(stack') /\ ~(Len(stack) - 1 + k < Len(stack))
        /\ (Len(stack) - 1 + k) - Len(stack) + 1 = k
    BY <1>3, <1>4
  <2> QED
    BY <1>4, <2>1
<1>9. ASSUME NEW p \in S
      PROVE  Encoded(p[1], p[2], S)' \/ \E j \in 1 .. Len(stack') : p \in Owes(stack'[j])
  <2>1. CASE p \in Owes(Top) \cup N
    BY <1>8, <2>1
  <2>2. CASE p \in R /\ Encoded(p[1], p[2], R)
    <3>1. p[1] \in Source /\ p[2] \in Nat
      BY <1>5, <2>2 DEF PlaceSet
    <3> QED
      BY <1>2, <2>2, <3>1, EncodedKept
  <2>3. CASE p \in R /\ p \notin Owes(Top) /\ \E j \in 1 .. Len(stack) : p \in Owes(stack[j])
    <3>1. PICK j \in 1 .. Len(stack) : p \in Owes(stack[j])
      BY <2>3
    <3>2. j # Len(stack)
      BY <2>3, <3>1 DEF Top
    <3>3. j \in 1 .. Len(stack') /\ stack'[j] = stack[j]
      BY <1>3, <1>4, <3>2
    <3> QED
      BY <3>1, <3>3
  <2> QED
    BY <2>1, <2>2, <2>3 DEF Placed
<1>10. ASSUME NEW j \in 1 .. Len(stack'), stack'[j].step = "finish"
       PROVE  Items(stack'[j].node, stack'[j].start) \subseteq S
  <2>1. CASE j < Len(stack)
    <3>1. stack'[j] = stack[j] /\ j \in 1 .. Len(stack)
      BY <1>3, <1>4, <2>1
    <3>2. Items(stack[j].node, stack[j].start) \subseteq R
      BY <1>10, <3>1 DEF Placed
    <3> QED
      BY <3>1, <3>2
  <2>2. CASE ~(j < Len(stack))
    <3>1. j - Len(stack) + 1 \in 1 .. Len(fs)
      BY <1>3, <1>4, <2>2
    <3> QED
      BY <1>4, <1>10, <2>2, <3>1
  <2> QED
    BY <2>1, <2>2
<1> HIDE DEF S
<1>11. Placed(S)'
  BY <1>6, <1>7, <1>9, <1>10 DEF Placed, PlacesWithin, Owes, Items
<1> QED
  BY <1>11 DEF S

-----------------------------------------------------------------------------
\* What is written is there to be read.

\* A store through a current view leaves its number in the bytes.
LEMMA WrittenStored ==
    ASSUME ViewInv, NEW m \in [0 .. used - 1 -> Cell], NEW view, view = BufferSpan,
           NEW at \in Nat, NEW v \in Nat, NEW w \in {1, 2, 4, 8}, at + w <= used
    PROVE  Stored(Written(m, view, at, LittleEndian(v, w)), at, v, w)
<1> DEFINE bytes == LittleEndian(v, w)
           m1 == Written(m, view, at, bytes)
<1>1. bytes \in [1 .. w -> Byte] /\ Len(bytes) = w
  BY LittleEndianBytes
<1> HIDE DEF bytes
<1>2. used \in Nat
  BY DEF ViewInv, TypeOK
<1>3. m1 = [x \in 0 .. used - 1 |->
              IF x < used /\ x \in at .. at + w - 1 THEN bytes[x - at + 1] ELSE m[x]]
  BY <1>1 DEF Written, BufferSpan
<1> HIDE DEF m1
<1>4. ASSUME NEW k \in 1 .. w
      PROVE  m1[at + k - 1] = bytes[k]
  <2>1. /\ at + k - 1 \in 0 .. used - 1 /\ at + k - 1 \in at .. at + w - 1
        /\ (at + k - 1) - at + 1 = k /\ at + k - 1 < used
    BY <1>2
  <2> QED
    BY <1>3, <2>1
<1> QED
  BY <1>4 DEF Stored, m1, bytes

\* A number that a step has put into the bytes below `used` is in the message.
LEMMA StoredHolds ==
    ASSUME NEW m, NEW o \in Nat, NEW v \in Nat, NEW w \in {1, 2, 4, 8}, Stored(m, o, v, w),
           used \in Nat, used' \in Nat, used' >= used, o + w <= used,
           \A x \in 0 .. used - 1 : mem'[x] = m[x]
    PROVE  Holds(o, v, w)'
<1>1. o + w <= used'
  OBVIOUS
<1>2. ASSUME NEW k \in 1 .. w
      PROVE  mem'[o + k - 1] = LittleEndian(v, w)[k]
  <2>1. o + k - 1 \in 0 .. used - 1
    OBVIOUS
  <2>2. mem'[o + k - 1] = m[o + k - 1]
    BY <2>1
  <2> QED
    BY <2>2 DEF Stored
<1> QED
  BY <1>1, <1>2 DEF Holds, Stored

\* The innermost call stores an integer at its offset.
LEMMA OneStore ==
    ASSUME ViewInv, phase = "running", NEW o, o = Top.fo,
           NEW v \in Nat, NEW w \in {1, 2, 4, 8}, Remaining(Top) = w,
           NEW m, m = Written(mem, SpanOf(Top), o, LittleEndian(v, w)),
           used' \in Nat, used' >= used, \A x \in 0 .. used - 1 : mem'[x] = m[x]
    PROVE  Holds(o, v, w)'
<1>1. Top \in Frame /\ SpanOf(Top) = BufferSpan /\ o + w <= used
  BY TopCall
<1>2. mem \in [0 .. used - 1 -> Cell] /\ used \in Nat /\ o \in Nat
  BY <1>1 DEF ViewInv, TypeOK, Frame
<1>3. Stored(m, o, v, w)
  BY <1>1, <1>2, WrittenStored
<1> QED
  BY <1>1, <1>2, <1>3, StoredHolds

\* The bytes m are those of the message after two integers were stored, the
\* second behind the first.
WithTwo(m, o, v1, w1, o2, v2, w2) ==
    /\ o \in Nat /\ v1 \in Nat /\ w1 \in {1, 2, 4, 8} /\ o + w1 <= used
    /\ o2 \in Nat /\ v2 \in Nat /\ w2 \in {1, 2, 4, 8} /\ o2 + w2 <= used /\ o + w1 <= o2
    /\ m = Written(Written(mem, BufferSpan, o, LittleEndian(v1, w1)),
                   BufferSpan, o2, LittleEndian(v2, w2))

\* Two integers are stored one behind the other.
LEMMA TwoStores ==
    ASSUME ViewInv, NEW m, NEW o, NEW v1, NEW w1, NEW o2, NEW v2, NEW w2,
           WithTwo(m, o, v1, w1, o2, v2, w2),
           used' \in Nat, used' >= used, \A x \in 0 .. used - 1 : mem'[x] = m[x]
    PROVE  Holds(o, v1, w1)' /\ Holds(o2, v2, w2)'
<1> DEFINE m1 == Written(mem, BufferSpan, o, LittleEndian(v1, w1))
           m2 == Written(m1, BufferSpan, o2, LittleEndian(v2, w2))
<1>1. mem \in [0 .. used - 1 -> Cell] /\ used \in Nat
  BY DEF ViewInv, TypeOK
<1>2. /\ o \in Nat /\ v1 \in Nat /\ w1 \in {1, 2, 4, 8} /\ o + w1 <= used
      /\ o2 \in Nat /\ v2 \in Nat /\ w2 \in {1, 2, 4, 8} /\ o2 + w2 <= used /\ o + w1 <= o2
  BY DEF WithTwo
<1>3. m1 \in [0 .. used - 1 -> Cell]
  BY <1>1, <1>2, WrittenCells
<1>4. Stored(m1, o, v1, w1)
  BY <1>1, <1>2, WrittenStored
<1> HIDE DEF m1
<1>5. Stores(o2, w2, m1, m2) /\ Stored(m2, o2, v2, w2)
  BY <1>3, <1>2, WrittenBytes, WrittenStored
<1>6. \A x \in 0 .. used - 1 : mem'[x] = m2[x]
  BY DEF m1, WithTwo
<1> HIDE DEF m2
<1>7. ASSUME NEW k \in 1 .. w1
      PROVE  m2[o + k - 1] = LittleEndian(v1, w1)[k]
  <2>1. o + k - 1 \in 0 .. used - 1 /\ o + k - 1 \notin o2 .. o2 + w2 - 1
    BY <1>1, <1>2
  <2>2. m2[o + k - 1] = m1[o + k - 1]
    BY <1>5, <2>1 DEF Stores
  <2> QED
    BY <1>4, <2>2 DEF Stored
<1>8. Stored(m2, o, v1, w1)
  BY <1>7 DEF Stored
<1>9. Holds(o, v1, w1)'
  BY <1>1, <1>2, <1>6, <1>8, StoredHolds
<1>10. Holds(o2, v2, w2)'
  BY <1>1, <1>2, <1>5, <1>6, StoredHolds
<1> QED
  BY <1>9, <1>10

-----------------------------------------------------------------------------
\* Every step keeps the places.

\* A call that is through with its elements owes nothing.
LEMMA OwesNothing ==
    ASSUME NEW f \in Frame, f.i = Len(f.node.sub),
           Kind[f.node.type] \in Contiguous \/ f.step = "elements"
    PROVE  Owes(f) = {}
<1>1. f.i \in Nat
  BY DEF Frame
<1>2. f.i + 1 .. Len(f.node.sub) = {}
  BY <1>1
<1> QED
  BY <1>2 DEF Owes

\* A call that has written its fixed data, or had nothing to write, returns.
LEMMA ReturnPlaced ==
    ASSUME ViewInv, SectionsPartitionUnwritten, Step, Continue(<<>>), used' = used,
           NEW R, Placed(R), \A p \in Owes(Top) : Encoded(p[1], p[2], R)'
    PROVE  Placed(R)'
<1> DEFINE fs == <<>>
<1>1. fs \in Seq(Frame) /\ Len(fs) = 0 /\ Continue(fs)
  BY EmptySeq
<1>2. PICK N : N = {}
  OBVIOUS
<1>3. used \in Nat /\ used' \in Nat /\ used' >= used /\ R \cup N = R
  BY <1>2 DEF ViewInv, TypeOK
<1>4. N \subseteq PlaceSet /\ PlacesWithin(N, used') /\ Owes(Top) \cup N = Owes(Top)
  BY <1>2 DEF PlacesWithin
<1>5. \A k \in 1 .. Len(fs) : FALSE
  BY <1>1
<1> HIDE DEF fs
<1>6. Placed(R \cup N)'
  BY <1>1, <1>3, <1>4, <1>5, PlacedStep
<1> QED
  BY <1>3, <1>6

\* The calls that write nothing, or one integer, of a type without elements.
LEMMA SimplePlaced ==
    ASSUME ViewInv, SectionsPartitionUnwritten, Step, NEW R, Placed(R),
           SerialiseNull \/ SerialiseScalar \/ SerialiseOptionalEmpty \/ SerialiseEmptyVariant
    PROVE  Placed(R)'
<1>1. PICK n, o : n = Top.node /\ o = Top.fo
  OBVIOUS
<1>2. phase = "running" /\ Continue(<<>>) /\ used' = used /\ Top.step = "serialise"
  BY DEF SerialiseNull, SerialiseScalar, SerialiseOptionalEmpty, SerialiseEmptyVariant, Active
<1>3. /\ Top \in Frame /\ SpanOf(Top) = BufferSpan /\ o + Remaining(Top) <= used
      /\ n.val \in Nat /\ n.type \in Type /\ n.sub \in Seq(Source) /\ SubsHaveTypes(n)
      /\ used \in Nat /\ used' \in Nat /\ used' >= used /\ o \in Nat
  BY <1>1, <1>2, TopCall DEF Frame, ViewInv, TypeOK
<1>4. Kind[n.type] \in {"null", "scalar", "optional", "variant"}
  BY <1>1 DEF SerialiseNull, SerialiseScalar, SerialiseOptionalEmpty, SerialiseEmptyVariant, Active
<1>5. Owes(Top) = {<<n, o>>} /\ Remaining(Top) = FixedSize[n.type] /\ Parts(n, o) = {}
  BY <1>1, <1>2, <1>4 DEF Owes, Contiguous, Remaining, Parts
<1>6. CASE SerialiseNull
  <2>1. Kind[n.type] = "null"
    BY <1>1, <1>6 DEF SerialiseNull, Active
  <2>2. Encoded(n, o, R)'
    BY <1>5, <2>1 DEF Encoded, Parts
  <2> QED
    BY <1>2, <1>5, <2>2, ReturnPlaced
<1>7. CASE SerialiseScalar
  <2>1. Kind[n.type] = "scalar"
    BY <1>1, <1>7 DEF SerialiseScalar, Active
  <2>2. PICK w : w = FixedSize[n.type]
    OBVIOUS
  <2>3. w \in {1, 2, 4, 8}
    BY <1>3, <2>1, <2>2, TypesAssumption DEF HasFixedDataSize
  <2>4. PICK v, m : v = n.val /\ m = Written(mem, SpanOf(Top), o, LittleEndian(v, w))
    OBVIOUS
  <2>5. mem' = m
    BY <1>1, <1>7, <2>2, <2>4 DEF SerialiseScalar
  <2>6. Holds(o, v, w)'
    BY <1>1, <1>2, <1>3, <1>5, <2>2, <2>3, <2>4, <2>5, OneStore
  <2>7. Encoded(n, o, R)'
    BY <1>5, <2>1, <2>2, <2>4, <2>6 DEF Encoded, Parts
  <2> QED
    BY <1>2, <1>5, <2>7, ReturnPlaced
<1>8. CASE SerialiseOptionalEmpty
  <2>1. Kind[n.type] = "optional" /\ n.sub = <<>>
    BY <1>1, <1>8 DEF SerialiseOptionalEmpty, Active
  <2>2. PICK w, v : w = OffsetWidth /\ v = 0
    OBVIOUS
  <2>3. w \in {1, 2, 4, 8} /\ v \in Nat /\ Remaining(Top) = w
    BY <1>3, <1>5, <2>1, <2>2, TypesAssumption DEF HasFixedDataSize, OffsetWidth
  <2>4. PICK m : m = Written(mem, SpanOf(Top), o, LittleEndian(v, w))
    OBVIOUS
  <2>5. mem' = m
    BY <1>1, <1>8, <2>2, <2>4 DEF SerialiseOptionalEmpty
  <2>6. Holds(o, v, w)'
    BY <1>1, <1>2, <1>3, <2>3, <2>4, <2>5, OneStore
  <2>7. Encoded(n, o, R)'
    BY <1>5, <2>1, <2>2, <2>6 DEF Encoded, OptionalEncoded, Parts
  <2> QED
    BY <1>2, <1>5, <2>7, ReturnPlaced
<1>9. CASE SerialiseEmptyVariant
  <2>1. Kind[n.type] = "variant" /\ Elements[n.type] = <<>>
    BY <1>1, <1>9 DEF SerialiseEmptyVariant, Active
  <2>2. Encoded(n, o, R)'
    BY <1>5, <2>1 DEF Encoded, Parts
  <2> QED
    BY <1>2, <1>5, <2>2, ReturnPlaced
<1> QED
  BY <1>6, <1>7, <1>8, <1>9

\* What a call owes before it pushes an element: that, and the elements after it.
LEMMA OwesElements ==
    ASSUME ViewInv, phase = "running", Top.i < Len(Top.node.sub),
           \/ Kind[Top.node.type] \in Contiguous
           \/ Kind[Top.node.type] = "dynamic_array" /\ Top.step = "elements"
    PROVE  Owes(Top) = {<<Element(Top), Top.fo>>} \cup Owes(Advanced(Top))
<1> DEFINE f == Top
           t == f.node.type
           n == f.node
           e == Element(f)
           size == FixedSize[e.type]
           rest == Advanced(f)
<1>1. /\ f \in Frame /\ FrameOK(f) /\ SubsHaveTypes(n) /\ n.sub \in Seq(Source)
      /\ t \in Type /\ f.fo \in Nat /\ f.i \in Nat
  BY TopCall DEF Frame
<1>2. /\ rest.node = n /\ rest.i = f.i + 1 /\ rest.step = f.step /\ rest.fo = f.fo + size
  BY <1>1, NextElement DEF Advanced, Frame
<1>3. /\ f.i + 1 \in 1 .. Len(n.sub) /\ Len(n.sub) \in Nat
      /\ e = n.sub[f.i + 1] /\ size \in Nat
  <2>1. e = n.sub[f.i + 1]
    BY DEF Element
  <2>2. size \in Nat
    BY NextElement
  <2>3. f.i < Len(n.sub) /\ Len(n.sub) \in Nat
    BY <1>1
  <2>4. f.i + 1 \in 1 .. Len(n.sub)
    <3> HIDE DEF f, n
    <3> QED
      BY <1>1, <2>3
  <2> QED
    BY <2>1, <2>2, <2>3, <2>4
<1> HIDE DEF rest, size, e
<1>4. /\ \A j \in f.i + 1 .. Len(n.sub) : j = f.i + 1 \/ j \in rest.i + 1 .. Len(n.sub)
      /\ rest.i + 1 .. Len(n.sub) \subseteq f.i + 1 .. Len(n.sub)
      /\ f.i + 1 \in f.i + 1 .. Len(n.sub)
  <2>1. PICK k, m \in Nat : k = f.i /\ m = Len(n.sub)
    BY <1>1, <1>3
  <2>2. rest.i = k + 1 /\ k + 1 \in 1 .. m
    BY <1>2, <1>3, <2>1
  <2>3. /\ \A j \in k + 1 .. m : j = k + 1 \/ j \in (k + 1) + 1 .. m
        /\ (k + 1) + 1 .. m \subseteq k + 1 .. m
        /\ k + 1 \in k + 1 .. m
    BY <2>2
  <2> HIDE DEF f, n
  <2> QED
    BY <2>1, <2>2, <2>3
<1>5. rest.fo \in Nat /\ rest.i \in Nat
  BY <1>1, <1>2, <1>3
<1>6. CASE Kind[t] \in Contiguous
  <2> DEFINE place(j) == <<n.sub[j], f.fo + ElementOffset[t][j] - ElementOffset[t][f.i + 1]>>
             next(j) == <<n.sub[j], rest.fo + ElementOffset[t][j] - ElementOffset[t][rest.i + 1]>>
  <2>1. HasElementOffsets(t) /\ Len(n.sub) = Len(Elements[t]) /\ e.type = Elements[t][f.i + 1]
    BY <1>1, <1>3, <1>6, TypesAssumption DEF SubsHaveTypes
  <2>2. ASSUME NEW j \in f.i + 1 .. Len(n.sub)
        PROVE  /\ ElementOffset[t][f.i + 1] \in Nat /\ ElementOffset[t][j] \in Nat
               /\ ElementOffset[t][f.i + 1 + 1] = ElementOffset[t][f.i + 1] + size
    <3>1. f.i + 1 \in 1 .. Len(Elements[t]) /\ f.i + 1 \in 1 .. Len(Elements[t]) + 1
          /\ j \in 1 .. Len(Elements[t]) + 1
      BY <1>1, <1>3, <2>1
    <3> QED
      BY <2>1, <3>1 DEF HasElementOffsets, size
  <2>3. place(f.i + 1) = <<e, f.fo>>
    BY <1>1, <1>3, <1>4, <2>2
  <2>4. ASSUME NEW j \in rest.i + 1 .. Len(n.sub)
        PROVE  place(j) = next(j)
    <3> DEFINE a == f.fo
               b == ElementOffset[t][j]
               c == ElementOffset[t][f.i + 1]
               d == ElementOffset[t][rest.i + 1]
               r == rest.fo
    <3>1. a \in Nat /\ b \in Nat /\ c \in Nat /\ d = c + size /\ r = a + size /\ size \in Nat
      BY <1>1, <1>2, <1>3, <1>4, <2>2
    <3> HIDE DEF a, b, c, d, r
    <3>2. a + b - c = r + b - d
      BY <3>1
    <3> QED
      BY <3>2 DEF a, b, c, d, r
  <2>5. /\ Owes(f) = {place(j) : j \in f.i + 1 .. Len(n.sub)}
        /\ Owes(rest) = {next(j) : j \in rest.i + 1 .. Len(n.sub)}
    BY <1>2, <1>6 DEF Owes
  <2> HIDE DEF place, next
  <2> QED
    BY <1>4, <2>3, <2>4, <2>5 DEF rest, e
<1>7. CASE Kind[t] = "dynamic_array" /\ f.step = "elements"
  <2> DEFINE width == FixedSize[Elements[t][1]]
             place(j) == <<n.sub[j], f.fo + width * (j - 1 - f.i)>>
             next(j) == <<n.sub[j], rest.fo + width * (j - 1 - rest.i)>>
  <2>1. width = size
    BY <1>1, <1>3, <1>7 DEF SubsHaveTypes, size
  <2>2. /\ Owes(f) = {place(j) : j \in f.i + 1 .. Len(n.sub)}
        /\ Owes(rest) = {next(j) : j \in rest.i + 1 .. Len(n.sub)}
    BY <1>2, <1>7 DEF Owes, Contiguous
  <2> HIDE DEF width
  <2>3. place(f.i + 1) = <<e, f.fo>>
    <3>1. PICK j : j = f.i + 1
      OBVIOUS
    <3>2. j - 1 - f.i = 0
      BY <1>1, <3>1
    <3>3. width * (j - 1 - f.i) = 0
      BY <1>3, <2>1, <3>2
    <3> QED
      BY <1>1, <1>3, <3>1, <3>3
  <2>4. ASSUME NEW j \in rest.i + 1 .. Len(n.sub)
        PROVE  place(j) = next(j)
    <3>1. j - 1 - f.i = 1 + (j - 1 - rest.i) /\ j - 1 - rest.i \in Nat
      BY <1>1, <1>2, <1>5
    <3>2. \A a, b \in Nat : a * (1 + b) = a + a * b /\ a * b \in Nat
      OBVIOUS
    <3>3. /\ width * (j - 1 - f.i) = width + width * (j - 1 - rest.i)
          /\ width * (j - 1 - rest.i) \in Nat
      BY <1>3, <2>1, <3>1, <3>2
    <3>4. f.fo + width * (j - 1 - f.i) = rest.fo + width * (j - 1 - rest.i)
      <4>1. PICK y \in Nat : y = width * (j - 1 - rest.i)
        BY <3>3
      <4>2. width * (j - 1 - f.i) = width + y
        BY <3>3, <4>1
      <4>3. PICK x \in Nat, z \in Nat : x = f.fo /\ z = width /\ rest.fo = x + z
        BY <1>1, <1>2, <1>3, <1>5, <2>1
      <4>4. f.fo + width * (j - 1 - f.i) = x + (z + y)
        BY <4>2, <4>3
      <4>5. rest.fo + width * (j - 1 - rest.i) = x + z + y
        BY <4>1, <4>3
      <4> QED
        BY <4>4, <4>5
    <3> QED
      BY <3>4
  <2> HIDE DEF place, next
  <2> QED
    BY <1>4, <2>2, <2>3, <2>4 DEF rest, e
<1> QED
  BY <1>6, <1>7

\* Pushing an element makes places of that element's elements.
LEMMA PushElementPlaced ==
    ASSUME ViewInv, SectionsPartitionUnwritten, Step, phase = "running", PushElement,
           \/ Kind[Top.node.type] \in Contiguous
           \/ Kind[Top.node.type] = "dynamic_array" /\ Top.step = "elements",
           NEW R, Placed(R)
    PROVE  \E S : Placed(S)'
<1>1. PICK e, o, rest, made, N :
          /\ e = Element(Top) /\ o = Top.fo /\ rest = Advanced(Top)
          /\ made = Call(e, o, Top.via, SpanOf(Top)) /\ N = Parts(e, o)
  OBVIOUS
<1> DEFINE fs == <<rest, made>>
<1>2. Top.i < Len(Top.node.sub) /\ Continue(fs) /\ used' = used
  BY <1>1 DEF PushElement, Element, Advanced
<1>3. /\ e \in Source /\ FixedSize[e.type] \in Nat
      /\ rest \in Frame /\ made \in Frame /\ Remaining(rest) \in Nat
      /\ Remaining(Top) = FixedSize[e.type] + Remaining(rest)
  BY <1>1, <1>2, NextElement
<1>4. Top \in Frame /\ FrameOK(Top) /\ o + Remaining(Top) <= used
  BY <1>1, TopCall
<1>5. used \in Nat /\ used' \in Nat /\ used' >= used /\ o \in Nat
  BY <1>1, <1>2, <1>4 DEF ViewInv, TypeOK, Frame
<1>6. N \subseteq PlaceSet /\ PlacesWithin(N, used')
  <2>1. o + FixedSize[e.type] <= used'
    BY <1>2, <1>3, <1>4, <1>5
  <2> QED
    BY <1>1, <1>3, <1>5, <2>1, PartsWithin
<1>7. rest.step # "finish"
  BY <1>1, <1>4 DEF Advanced, Frame, FrameOK, Contiguous
<1>8. fs \in Seq(Frame) /\ Len(fs) = 2 /\ fs[1] = rest /\ fs[2] = made
  BY <1>3
<1>9. 1 \in 1 .. Len(fs) /\ 2 \in 1 .. Len(fs) /\ \A k \in 1 .. Len(fs) : k = 1 \/ k = 2
  BY <1>8
<1> HIDE DEF fs
<1>10. PICK T : T = R \cup N
  OBVIOUS
<1>11. /\ made.step = "serialise" /\ N \subseteq Owes(made)
       /\ Encoded(e, o, T)' \/ <<e, o>> \in Owes(made)
  <2>1. e \in Source /\ o \in Nat
    BY <1>3, <1>5
  <2>2. N = Parts(e, o)
    BY <1>1
  <2>3. Parts(e, o) \subseteq T
    BY <1>10, <2>2
  <2>4. PICK via, view : made = Call(e, o, via, view)
    BY <1>1
  <2> QED
    BY <2>1, <2>2, <2>3, <2>4, CallOwes
<1>12. Owes(Top) \subseteq {<<e, o>>} \cup Owes(rest)
  BY <1>1, <1>2, OwesElements
<1>13. ASSUME NEW p \in Owes(Top) \cup N
       PROVE  Encoded(p[1], p[2], R \cup N)' \/ \E k \in 1 .. Len(fs) : p \in Owes(fs[k])
  <2>1. CASE p \in Owes(rest) \/ p \in Owes(made)
    BY <1>8, <1>9, <2>1
  <2>2. CASE p = <<e, o>>
    BY <1>8, <1>9, <1>10, <1>11, <2>2
  <2> QED
    BY <1>11, <1>12, <2>1, <2>2
<1>14. \A k \in 1 .. Len(fs) :
          fs[k].step = "finish" => Items(fs[k].node, fs[k].start) \subseteq R \cup N
  BY <1>7, <1>8, <1>9, <1>11
<1>15. Placed(R \cup N)'
  BY <1>2, <1>5, <1>6, <1>8, <1>13, <1>14, PlacedStep
<1> QED
  BY <1>15

\* push_variable_subobjects() for one value: the buffer is extended, and the
\* value serialised where it ended.
ValuePushed(value) ==
    /\ \E m : ExtendThrough(Top, FixedSize[value.type], m)
    /\ Continue(<<Call(value, used, Top.via, SpanAfterExtend(Top))>>)

\* An optional or a variant makes a place of its value, at the end of the message.
LEMMA PushValuePlaced ==
    ASSUME ViewInv, SectionsPartitionUnwritten, Step, phase = "running", Top.via # "span",
           NEW n, NEW o, Owes(Top) = {<<n, o>>}, NEW value \in Source,
           ValuePushed(value),
           NEW R, Placed(R), NEW S, S = R \cup {<<value, used>>} \cup Parts(value, used),
           Encoded(n, o, S)'
    PROVE  Placed(S)'
<1>1. PICK at, made, N : /\ at = used /\ N = {<<value, at>>} \cup Parts(value, at)
                         /\ made = Call(value, at, Top.via, SpanAfterExtend(Top))
  OBVIOUS
<1> DEFINE fs == <<made>>
<1>2. S = R \cup N
  BY <1>1
<1>3. Top \in Frame
  BY TopCall
<1>4. FixedSize[value.type] \in Nat /\ used \in Nat /\ at \in Nat /\ devirt \in Span /\ gen \in Nat
  BY <1>1, SourceAssumption, TypesAssumption DEF ViewInv, TypeOK
<1>5. used' = at + FixedSize[value.type] /\ used' \in Nat /\ used' >= used /\ gen' \in Nat
  BY <1>1, <1>4 DEF ValuePushed, ExtendThrough, Extend
<1>6. made \in Frame
  <2>1. SpanAfterExtend(Top) \in Span
    BY <1>4, <1>5 DEF ValuePushed, SpanAfterExtend, ExtendThrough, BufferSpan, Span
  <2>2. Top.via \in {"buffer", "devirt", "span"}
    BY <1>3 DEF Frame
  <2> QED
    BY <1>1, <1>4, <2>1, <2>2, CallFrame
<1>7. fs \in Seq(Frame) /\ Len(fs) = 1 /\ fs[1] = made /\ Continue(fs)
  BY <1>1, <1>6 DEF ValuePushed
<1>8. 1 \in 1 .. Len(fs) /\ \A k \in 1 .. Len(fs) : k = 1
  BY <1>7
<1> HIDE DEF fs
<1>9. N \subseteq PlaceSet /\ PlacesWithin(N, used')
  <2>1. at + FixedSize[value.type] <= used'
    BY <1>4, <1>5
  <2>2. Parts(value, at) \subseteq PlaceSet /\ PlacesWithin(Parts(value, at), used')
    BY <1>4, <1>5, <2>1, PartsWithin
  <2> QED
    BY <1>1, <1>4, <2>1, <2>2 DEF PlacesWithin, PlaceSet
<1>10. Parts(value, at) \subseteq S
  BY <1>1, <1>2
<1>11. /\ made.step = "serialise" /\ Parts(value, at) \subseteq Owes(made)
       /\ Encoded(value, at, S)' \/ <<value, at>> \in Owes(made)
  BY <1>1, <1>4, <1>10, CallOwes
<1>12. ASSUME NEW p \in Owes(Top) \cup N
       PROVE  Encoded(p[1], p[2], R \cup N)' \/ \E k \in 1 .. Len(fs) : p \in Owes(fs[k])
  <2>1. CASE p = <<n, o>>
    BY <1>2, <2>1
  <2>2. CASE p = <<value, at>>
    BY <1>2, <1>7, <1>8, <1>11, <2>2
  <2>3. CASE p \in Parts(value, at)
    BY <1>7, <1>8, <1>11, <2>3
  <2> QED
    BY <1>1, <2>1, <2>2, <2>3
<1>13. \A k \in 1 .. Len(fs) :
          fs[k].step = "finish" => Items(fs[k].node, fs[k].start) \subseteq R \cup N
  BY <1>7, <1>8, <1>11
<1>14. Placed(R \cup N)'
  BY <1>5, <1>7, <1>9, <1>12, <1>13, PlacedStep
<1> QED
  BY <1>2, <1>14

\* An exception leaves no message to read.
LEMMA FailedPlaced ==
    ASSUME phase' = "failed", stack' = <<>>
    PROVE  \E S : Placed(S)'
<1>1. PICK S : S = {}
  OBVIOUS
<1>2. \A j \in 1 .. Len(stack') : FALSE
  OBVIOUS
<1>3. Placed(S)'
  BY <1>1, <1>2 DEF Placed, PlacesWithin
<1> QED
  BY <1>3

\* What an optional with a value does.
LEMMA OptionalStores ==
    ASSUME ViewInv, SerialiseOptionalValue, NEW n, n = Top.node, NEW o, o = Top.fo,
           NEW at, at = used, NEW value, value = n.sub[1]
    PROVE  /\ phase = "running" /\ Kind[n.type] = "optional" /\ n.sub # <<>>
           /\ value \in Source /\ at \in Nat /\ Top.via # "span"
           /\ Owes(Top) = {<<n, o>>} /\ Parts(n, o) = {}
           /\ \/ phase' = "failed" /\ stack' = <<>>
              \/ /\ at + 1 <= MaxDataOffset /\ ValuePushed(value)
                 /\ Holds(o, at + 1, OffsetWidth)'
<1>1. PICK w, v : w = OffsetWidth /\ v = at + 1
  OBVIOUS
<1>2. PICK m : m = Written(mem, SpanOf(Top), o, LittleEndian(v, w))
  OBVIOUS
<1>3. /\ phase = "running" /\ Kind[n.type] = "optional" /\ Top.step = "serialise" /\ n.sub # <<>>
  BY DEF SerialiseOptionalValue, Active
<1>4. /\ Top \in Frame /\ FrameOK(Top) /\ SpanOf(Top) = BufferSpan /\ n.type \in Type
      /\ used \in Nat /\ at = SpanOf(Top).size /\ v \in Nat /\ w \in {1, 2, 4, 8}
  BY <1>1, <1>3, TopCall DEF BufferSpan, ViewInv, TypeOK, OffsetWidth
<1>5. value \in Source /\ Top.via # "span"
  BY SerialiseOptionalValueWrites
<1>6. Remaining(Top) = w /\ Owes(Top) = {<<n, o>>} /\ Parts(n, o) = {}
  <2>1. FixedSize[n.type] = OffsetWidth
    BY <1>3, <1>4, TypesAssumption DEF HasFixedDataSize
  <2> QED
    BY <1>1, <1>3, <2>1 DEF Remaining, Owes, Parts, Contiguous
<1>7. \/ phase' = "failed" /\ stack' = <<>>
      \/ /\ v <= MaxDataOffset
         /\ ExtendThrough(Top, FixedSize[value.type], m)
         /\ Continue(<<Call(value, at, Top.via, SpanAfterExtend(Top))>>)
  <2>1. v <= MaxDataOffset <=> ~(v > MaxDataOffset)
    BY <1>4, LimitAssumption
  <2> QED
    BY <1>1, <1>2, <1>4, <2>1 DEF SerialiseOptionalValue, Throw
<1>8. ASSUME v <= MaxDataOffset, ExtendThrough(Top, FixedSize[value.type], m),
             Continue(<<Call(value, at, Top.via, SpanAfterExtend(Top))>>)
      PROVE  /\ at + 1 <= MaxDataOffset /\ ValuePushed(value)
             /\ Holds(o, at + 1, OffsetWidth)'
  <2>1. FixedSize[value.type] \in Nat
    BY <1>5, SourceAssumption, TypesAssumption
  <2>2. \A x \in 0 .. used - 1 : mem'[x] = m[x]
    BY <1>8, <2>1, ExtendKeepsContents DEF ExtendThrough
  <2>3. used' \in Nat /\ used' >= used
    <3>1. PICK k \in Nat : k = FixedSize[value.type]
      BY <2>1
    <3>2. used' = used + k
      BY <1>8, <3>1 DEF ExtendThrough, Extend
    <3>3. used \in Nat
      BY <1>4
    <3>4. \A a \in Nat : a + k \in Nat /\ a + k >= a
      OBVIOUS
    <3> QED
      BY <3>2, <3>3, <3>4
  <2>4. Holds(o, v, w)'
    BY <1>1, <1>2, <1>3, <1>4, <1>6, <2>2, <2>3, OneStore
  <2> QED
    BY <1>1, <1>8, <2>4 DEF ValuePushed
<1> QED
  BY <1>3, <1>4, <1>5, <1>6, <1>7, <1>8

LEMMA OptionalPlaced ==
    ASSUME ViewInv, SectionsPartitionUnwritten, Step, NEW R, Placed(R), SerialiseOptionalValue
    PROVE  \E S : Placed(S)'
<1>1. PICK n, o, at, value : n = Top.node /\ o = Top.fo /\ at = used /\ value = n.sub[1]
  OBVIOUS
<1>2. PICK S : S = R \cup {<<value, used>>} \cup Parts(value, used)
  OBVIOUS
<1>3. /\ phase = "running" /\ Kind[n.type] = "optional" /\ n.sub # <<>>
      /\ value \in Source /\ at \in Nat /\ Top.via # "span"
      /\ Owes(Top) = {<<n, o>>} /\ Parts(n, o) = {}
      /\ \/ phase' = "failed" /\ stack' = <<>>
         \/ /\ at + 1 <= MaxDataOffset /\ ValuePushed(value)
            /\ Holds(o, at + 1, OffsetWidth)'
  BY <1>1, OptionalStores
<1>4. ASSUME at + 1 <= MaxDataOffset, ValuePushed(value), Holds(o, at + 1, OffsetWidth)'
      PROVE  Placed(S)'
  <2>1. <<n.sub[1], at>> \in S
    BY <1>1, <1>2
  <2>2. OptionalEncoded(n, o, S)'
    BY <1>3, <1>4, <2>1 DEF OptionalEncoded
  <2>3. Encoded(n, o, S)'
    BY <1>3, <2>2 DEF Encoded, Parts
  <2> QED
    BY <1>2, <1>3, <1>4, <2>3, PushValuePlaced
<1> QED
  BY <1>3, <1>4, FailedPlaced

\* What a variant with a value does.
LEMMA VariantStores ==
    ASSUME ViewInv, SerialiseVariantValue, NEW n, n = Top.node, NEW o, o = Top.fo,
           NEW at, at = used, NEW value, value = n.sub[1]
    PROVE  /\ phase = "running" /\ Kind[n.type] = "variant" /\ n.sub # <<>>
           /\ value \in Source /\ at \in Nat /\ Top.via # "span"
           /\ Owes(Top) = {<<n, o>>} /\ Parts(n, o) = {}
           /\ \/ phase' = "failed" /\ stack' = <<>>
              \/ /\ at <= MaxDataOffset /\ ValuePushed(value)
                 /\ Holds(o, n.val, IndexWidth)' /\ Holds(o + IndexWidth, at, OffsetWidth)'
<1>1. PICK o2, w, w2, v, view :
          w = IndexWidth /\ w2 = OffsetWidth /\ v = n.val /\ o2 = o + w /\ view = SpanOf(Top)
  OBVIOUS
<1>2. PICK m : m = Written(Written(mem, view, o, LittleEndian(v, w)),
                           view, o2, LittleEndian(at, w2))
  OBVIOUS
<1>3. /\ phase = "running" /\ Kind[n.type] = "variant" /\ Top.step = "serialise" /\ n.sub # <<>>
      /\ Elements[n.type] # <<>>
  BY <1>1 DEF SerialiseVariantValue, Active
<1>4. /\ Top \in Frame /\ FrameOK(Top) /\ view = BufferSpan /\ n.type \in Type
      /\ used \in Nat /\ at = SpanOf(Top).size /\ v \in Nat /\ w \in {1, 2, 4, 8} /\ w2 \in {1, 2, 4, 8}
      /\ o + Remaining(Top) <= used /\ o \in Nat
  BY <1>1, <1>3, TopCall DEF BufferSpan, ViewInv, TypeOK, OffsetWidth, IndexWidth, Frame
<1>5. value \in Source /\ Top.via # "span"
  BY <1>1, SerialiseVariantValueWrites
<1>6. Remaining(Top) = w + w2 /\ Owes(Top) = {<<n, o>>} /\ Parts(n, o) = {}
  <2>1. FixedSize[n.type] = IndexWidth + OffsetWidth
    BY <1>3, <1>4, TypesAssumption DEF HasFixedDataSize
  <2> QED
    BY <1>1, <1>3, <2>1 DEF Remaining, Owes, Parts, Contiguous
<1>7. \/ phase' = "failed" /\ stack' = <<>>
      \/ /\ at <= MaxDataOffset
         /\ ExtendThrough(Top, FixedSize[value.type], m)
         /\ Continue(<<Call(value, at, Top.via, SpanAfterExtend(Top))>>)
  <2>1. at <= MaxDataOffset <=> ~(at > MaxDataOffset)
    BY <1>4, LimitAssumption
  <2> QED
    BY <1>1, <1>2, <1>4, <2>1 DEF SerialiseVariantValue, Throw
<1>8. ASSUME at <= MaxDataOffset, ExtendThrough(Top, FixedSize[value.type], m),
             Continue(<<Call(value, at, Top.via, SpanAfterExtend(Top))>>)
      PROVE  /\ ValuePushed(value)
             /\ Holds(o, n.val, IndexWidth)' /\ Holds(o + IndexWidth, at, OffsetWidth)'
  <2>1. FixedSize[value.type] \in Nat
    BY <1>5, SourceAssumption, TypesAssumption
  <2>2. \A x \in 0 .. used - 1 : mem'[x] = m[x]
    BY <1>8, <2>1, ExtendKeepsContents DEF ExtendThrough
  <2>3. used' \in Nat /\ used' >= used
    <3>1. PICK k \in Nat : k = FixedSize[value.type]
      BY <2>1
    <3>2. used' = used + k
      BY <1>8, <3>1 DEF ExtendThrough, Extend
    <3>3. used \in Nat
      BY <1>4
    <3>4. \A a \in Nat : a + k \in Nat /\ a + k >= a
      OBVIOUS
    <3> QED
      BY <3>2, <3>3, <3>4
  <2>4. /\ o + w <= used /\ o2 + w2 <= used /\ o + w <= o2
        /\ o \in Nat /\ o2 \in Nat /\ at \in Nat /\ v \in Nat
        /\ w \in {1, 2, 4, 8} /\ w2 \in {1, 2, 4, 8} /\ view = BufferSpan
    BY <1>1, <1>4, <1>6
  <2>5. Holds(o, v, w)' /\ Holds(o2, at, w2)'
    <3>1. WithTwo(m, o, v, w, o2, at, w2)
      BY <1>2, <2>4 DEF WithTwo
    <3> QED
      BY <2>2, <2>3, <3>1, TwoStores
  <2> QED
    BY <1>1, <1>8, <2>5 DEF ValuePushed
<1> QED
  BY <1>3, <1>4, <1>5, <1>6, <1>7, <1>8

LEMMA VariantPlaced ==
    ASSUME ViewInv, SectionsPartitionUnwritten, Step, NEW R, Placed(R), SerialiseVariantValue
    PROVE  \E S : Placed(S)'
<1>1. PICK n, o, at, value : n = Top.node /\ o = Top.fo /\ at = used /\ value = n.sub[1]
  OBVIOUS
<1>2. PICK S : S = R \cup {<<value, used>>} \cup Parts(value, used)
  OBVIOUS
<1>3. /\ phase = "running" /\ Kind[n.type] = "variant" /\ n.sub # <<>>
      /\ value \in Source /\ at \in Nat /\ Top.via # "span"
      /\ Owes(Top) = {<<n, o>>} /\ Parts(n, o) = {}
      /\ \/ phase' = "failed" /\ stack' = <<>>
         \/ /\ at <= MaxDataOffset /\ ValuePushed(value)
            /\ Holds(o, n.val, IndexWidth)' /\ Holds(o + IndexWidth, at, OffsetWidth)'
  BY <1>1, VariantStores
<1>4. ASSUME at <= MaxDataOffset, ValuePushed(value),
             Holds(o, n.val, IndexWidth)', Holds(o + IndexWidth, at, OffsetWidth)'
      PROVE  Placed(S)'
  <2>1. <<n.sub[1], at>> \in S
    BY <1>1, <1>2
  <2>2. VariantEncoded(n, o, S)'
    BY <1>3, <1>4, <2>1 DEF VariantEncoded
  <2>3. Encoded(n, o, S)'
    BY <1>3, <2>2 DEF Encoded, Parts
  <2> QED
    BY <1>2, <1>3, <1>4, <2>3, PushValuePlaced
<1> QED
  BY <1>3, <1>4, FailedPlaced

\* The elements of a dynamic_array lie in the extension made for them.
LEMMA ItemsWithin ==
    ASSUME NEW n \in Source, Kind[n.type] = "dynamic_array", NEW at \in Nat, NEW size \in Nat,
           at + FixedSize[Elements[n.type][1]] * Len(n.sub) <= size
    PROVE  Items(n, at) \subseteq PlaceSet /\ PlacesWithin(Items(n, at), size)
<1> DEFINE t == n.type
           width == FixedSize[Elements[t][1]]
<1>1. t \in Type /\ n.sub \in Seq(Source) /\ SubsHaveTypes(n) /\ Len(n.sub) \in Nat
  BY SourceAssumption
<1>2. width \in Nat
  <2>1. Elements[t] \in Seq(Type) /\ Len(Elements[t]) = 1
    BY <1>1, TypesAssumption
  <2>2. Elements[t][1] \in Type
    BY <2>1
  <2> QED
    BY <2>2, TypesAssumption
<1> SUFFICES ASSUME NEW p \in Items(n, at)
             PROVE  p \in PlaceSet /\ p[2] + FixedSize[p[1].type] <= size
  BY DEF PlacesWithin
<1>3. PICK i \in 1 .. Len(n.sub) : p = <<n.sub[i], at + width * (i - 1)>>
  BY DEF Items
<1>4. n.sub[i] \in Source /\ n.sub[i].type = Elements[t][1]
  BY <1>1, ElementOfSeq DEF SubsHaveTypes
<1>5. FixedSize[n.sub[i].type] = width
  BY <1>4
<1>6. at + width * Len(n.sub) <= size
  OBVIOUS
<1> HIDE DEF width
<1>7. width * (i - 1) \in Nat /\ width * (i - 1) + width <= width * Len(n.sub)
  <2>1. \A a, b, c \in Nat : a * b \in Nat /\ (b + 1 <= c => a * b + a <= a * c)
    <3>1. ASSUME NEW a \in Nat, NEW b \in Nat, NEW c \in Nat, b + 1 <= c
          PROVE  a * b + a <= a * c
      <4>1. PICK d \in Nat : d = c - (b + 1)
        BY <3>1
      <4>2. a * c = a * b + a + a * d /\ a * d \in Nat /\ a * b \in Nat
        BY <4>1
      <4> QED
        BY <4>2
    <3>2. \A a, b \in Nat : a * b \in Nat
      OBVIOUS
    <3> QED
      BY <3>1, <3>2
  <2>2. i - 1 \in Nat /\ i - 1 + 1 <= Len(n.sub)
    BY <1>1
  <2> QED
    BY <1>1, <1>2, <2>1, <2>2
<1>8. at + width * (i - 1) \in Nat /\ at + width * (i - 1) + width <= size
  <2> DEFINE a == width * (i - 1)
             b == width * Len(n.sub)
  <2>1. a \in Nat /\ a + width <= b /\ b \in Int
    <3>1. \A x, y \in Nat : x * y \in Int
      OBVIOUS
    <3> QED
      BY <1>1, <1>2, <1>7, <3>1
  <2>2. at + b <= size
    BY <1>6
  <2> HIDE DEF a, b
  <2>3. at + a \in Nat /\ at + a + width <= size
    BY <1>2, <2>1, <2>2
  <2> QED
    BY <2>3 DEF a
<1> QED
  BY <1>3, <1>4, <1>5, <1>8 DEF PlaceSet

\* The two calls that a dynamic_array is replaced by: `rest`, which still has to
\* write the fixed data at o, and `loop`, which serialises the elements from `at` on.
ElementsBegun(n, o, at, rest, loop) ==
    /\ Continue(<<rest, loop>>)
    /\ rest \in Frame /\ rest.step = "finish" /\ rest.node = n /\ rest.fo = o /\ rest.start = at
    /\ loop \in Frame /\ loop.step = "elements"
    /\ Owes(rest) = {<<n, o>>} /\ Owes(loop) = Items(n, at)
    /\ used' = at + FixedSize[Elements[n.type][1]] * Len(n.sub)
    /\ used' \in Nat /\ used' >= used

\* What a dynamic_array does first.
LEMMA BeginElementsExtends ==
    ASSUME ViewInv, BeginElements, NEW n, n = Top.node, NEW o, o = Top.fo, NEW at, at = used
    PROVE  /\ Kind[n.type] = "dynamic_array" /\ n \in Source /\ at \in Nat
           /\ Owes(Top) = {<<n, o>>}
           /\ \/ phase' = "failed" /\ stack' = <<>>
              \/ \E rest, loop : ElementsBegun(n, o, at, rest, loop)
<1>1. PICK element, rest, loop, count :
          /\ element = Elements[n.type][1]
          /\ count = FixedSize[element] * Len(n.sub)
          /\ rest = [Top EXCEPT !.step = "finish", !.start = at]
          /\ loop = [Top EXCEPT !.step = "elements", !.fo = at, !.i = 0,
                                !.via = IF IsFixed[element] THEN "span" ELSE "devirt",
                                !.span = IF IsFixed[element] THEN devirt' ELSE NoSpan]
  OBVIOUS
<1> DEFINE fs == <<rest, loop>>
<1>2. phase = "running" /\ Kind[n.type] = "dynamic_array" /\ Top.step = "serialise"
  BY <1>1 DEF BeginElements, Active
<1>3. /\ Top \in Frame /\ at = SpanOf(Top).size /\ at \in Nat /\ used \in Nat
      /\ n \in Source /\ n.sub \in Seq(Source) /\ n.type \in Type /\ gen \in Nat
  <2>1. Top \in Frame /\ SpanOf(Top) = BufferSpan
        /\ Top.node.sub \in Seq(Source) /\ Top.node.type \in Type
    BY <1>2, TopCall
  <2>2. used \in Nat /\ gen \in Nat
    BY DEF ViewInv, TypeOK
  <2>3. SpanOf(Top).size = used
    BY <2>1 DEF BufferSpan
  <2>4. Top.node \in Source
    BY <2>1 DEF Frame
  <2> QED
    BY <2>1, <2>2, <2>3, <2>4
<1>4. count \in Nat
  <2>1. Elements[n.type] \in Seq(Type) /\ Len(Elements[n.type]) = 1
    BY <1>2, <1>3, TypesAssumption
  <2>2. element \in Type
    BY <1>1, <2>1
  <2>3. FixedSize[element] \in Nat /\ Len(n.sub) \in Nat
    BY <1>3, <2>2, TypesAssumption
  <2>4. \A a, b \in Nat : a * b \in Nat
    OBVIOUS
  <2> QED
    BY <1>1, <2>3, <2>4
<1>5. Owes(Top) = {<<n, o>>}
  BY <1>2 DEF Owes, Contiguous
<1>6. ASSUME Extend(count, mem), devirt' = BufferSpan', Continue(fs)
      PROVE  ElementsBegun(n, o, at, rest, loop)
  <2>1. used' = at + count /\ used' \in Nat /\ used' >= used /\ gen' \in Nat
    <3>1. used' = used + count /\ gen' \in {gen, gen + 1}
      BY <1>6 DEF Extend
    <3>2. used \in Nat /\ gen \in Nat
      BY <1>3
    <3>3. \A a \in Nat : a + count \in Nat /\ a + count >= a /\ a + 1 \in Nat
      BY <1>4
    <3> QED
      BY <3>1, <3>2, <3>3
  <2>2. devirt' \in Span /\ NoSpan \in Span
    BY <1>6, <2>1 DEF BufferSpan, NoSpan, Span
  <2>3. /\ rest \in Frame /\ rest.node = n /\ rest.fo = o /\ rest.step = "finish"
        /\ rest.start = at
    BY <1>1, <1>3 DEF Frame
  <2>4. /\ loop \in Frame /\ loop.node = n /\ loop.fo = at /\ loop.step = "elements"
        /\ loop.i = 0
    BY <1>1, <1>3, <2>2 DEF Frame
  <2>5. Owes(rest) = {<<n, o>>}
    BY <1>2, <2>3 DEF Owes, Contiguous
  <2>6. Owes(loop) = Items(n, at)
    <3>1. /\ loop.i + 1 .. Len(n.sub) = 1 .. Len(n.sub)
          /\ \A i \in 1 .. Len(n.sub) : i - 1 - loop.i = i - 1
      BY <1>3, <2>4
    <3> QED
      BY <1>2, <2>4, <3>1 DEF Owes, Items, Contiguous
  <2>7. used' = at + FixedSize[Elements[n.type][1]] * Len(n.sub)
    BY <1>1, <2>1
  <2> QED
    BY <1>6, <2>1, <2>3, <2>4, <2>5, <2>6, <2>7 DEF ElementsBegun
<1>7. \/ phase' = "failed" /\ stack' = <<>>
      \/ Extend(count, mem) /\ devirt' = BufferSpan' /\ Continue(fs)
  BY <1>1, <1>3 DEF BeginElements, Throw
<1> QED
  BY <1>2, <1>3, <1>5, <1>6, <1>7

\* A dynamic_array makes places of its elements, in the extension, and still
\* has to write its own fixed data.
LEMMA BeginElementsPlaced ==
    ASSUME ViewInv, SectionsPartitionUnwritten, Step, NEW R, Placed(R), BeginElements
    PROVE  \E S : Placed(S)'
<1>1. PICK n, o, at, N : n = Top.node /\ o = Top.fo /\ at = used /\ N = Items(n, at)
  OBVIOUS
<1>2. /\ Kind[n.type] = "dynamic_array" /\ n \in Source /\ at \in Nat
      /\ Owes(Top) = {<<n, o>>}
      /\ \/ phase' = "failed" /\ stack' = <<>>
         \/ \E rest, loop : ElementsBegun(n, o, at, rest, loop)
  BY <1>1, BeginElementsExtends
<1>3. ASSUME NEW rest, NEW loop, ElementsBegun(n, o, at, rest, loop)
      PROVE  Placed(R \cup N)'
  <2> DEFINE fs == <<rest, loop>>
  <2>1. used' \in Nat /\ used' >= used /\ Continue(fs)
    BY <1>3 DEF ElementsBegun
  <2>2. fs \in Seq(Frame) /\ Len(fs) = 2 /\ fs[1] = rest /\ fs[2] = loop
    BY <1>3 DEF ElementsBegun
  <2>3. 1 \in 1 .. Len(fs) /\ 2 \in 1 .. Len(fs) /\ \A k \in 1 .. Len(fs) : k = 1 \/ k = 2
    BY <2>2
  <2> HIDE DEF fs
  <2>4. N \subseteq PlaceSet /\ PlacesWithin(N, used')
    <3>1. at + FixedSize[Elements[n.type][1]] * Len(n.sub) <= used'
      BY <1>3, <2>1 DEF ElementsBegun
    <3> QED
      BY <1>1, <1>2, <2>1, <3>1, ItemsWithin
  <2>5. ASSUME NEW p \in Owes(Top) \cup N
        PROVE  \/ Encoded(p[1], p[2], R \cup N)'
               \/ \E k \in 1 .. Len(fs) : p \in Owes(fs[k])
    BY <1>1, <1>2, <1>3, <2>2, <2>3 DEF ElementsBegun
  <2>6. \A k \in 1 .. Len(fs) :
            fs[k].step = "finish" => Items(fs[k].node, fs[k].start) \subseteq R \cup N
    BY <1>1, <1>3, <2>2, <2>3 DEF ElementsBegun
  <2> QED
    BY <2>1, <2>2, <2>4, <2>5, <2>6, PlacedStep
<1> QED
  BY <1>2, <1>3, FailedPlaced

\* What a dynamic_array does in the end.
LEMMA FinishArrayStores ==
    ASSUME ViewInv, FinishArray, NEW n, n = Top.node, NEW o, o = Top.fo, NEW at, at = Top.start
    PROVE  /\ Kind[n.type] = "dynamic_array" /\ Top.step = "finish"
           /\ at \in Nat /\ Len(stack) \in 1 .. Len(stack)
           /\ Owes(Top) = {<<n, o>>} /\ Parts(n, o) = {}
           /\ \/ phase' = "failed" /\ stack' = <<>>
              \/ /\ Continue(<<>>) /\ used' = used
                 /\ Len(n.sub) <= MaxArraySize /\ Holds(o, Len(n.sub), SizeWidth)'
                 /\ n.sub # <<>> => at <= MaxDataOffset /\ Holds(o + SizeWidth, at, OffsetWidth)'
<1>1. PICK o2, w, w2, count, offset :
          /\ w = SizeWidth /\ w2 = OffsetWidth /\ o2 = o + w
          /\ count = Len(n.sub) /\ offset = IF count > 0 THEN at ELSE 0
  OBVIOUS
<1>2. PICK m : m = Written(Written(mem, SpanOf(Top), o, LittleEndian(count, w)),
                           SpanOf(Top), o2, LittleEndian(offset, w2))
  OBVIOUS
<1>3. phase = "running" /\ Kind[n.type] = "dynamic_array" /\ Top.step = "finish"
  BY <1>1 DEF FinishArray, Active
<1>4. /\ Top \in Frame /\ SpanOf(Top) = BufferSpan /\ n.type \in Type /\ n.sub \in Seq(Source)
      /\ used \in Nat /\ o + Remaining(Top) <= used /\ Len(stack) \in 1 .. Len(stack)
  BY <1>1, <1>3, TopCall DEF ViewInv, TypeOK
<1>5. /\ o \in Nat /\ at \in Nat /\ count \in Nat /\ offset \in Nat
      /\ w \in {1, 2, 4, 8} /\ w2 \in {1, 2, 4, 8}
  BY <1>1, <1>4 DEF Frame, SizeWidth, OffsetWidth
<1>6. Remaining(Top) = w + w2 /\ Owes(Top) = {<<n, o>>} /\ Parts(n, o) = {}
  <2>1. FixedSize[n.type] = SizeWidth + OffsetWidth
    BY <1>3, <1>4, TypesAssumption DEF HasFixedDataSize
  <2> QED
    BY <1>1, <1>3, <2>1 DEF Remaining, Owes, Parts, Contiguous
<1>7. ASSUME count <= MaxArraySize, offset <= MaxDataOffset,
             mem' = m, Continue(<<>>), used' = used
      PROVE  /\ Len(n.sub) <= MaxArraySize /\ Holds(o, Len(n.sub), SizeWidth)'
             /\ n.sub # <<>> => at <= MaxDataOffset /\ Holds(o + SizeWidth, at, OffsetWidth)'
  <2>1. /\ o + w <= used /\ o2 + w2 <= used /\ o + w <= o2
        /\ o \in Nat /\ o2 \in Nat /\ count \in Nat /\ offset \in Nat
        /\ w \in {1, 2, 4, 8} /\ w2 \in {1, 2, 4, 8}
    BY <1>1, <1>4, <1>5, <1>6
  <2>2. WithTwo(m, o, count, w, o2, offset, w2)
    BY <1>2, <1>4, <2>1 DEF WithTwo
  <2>3. \A x \in 0 .. used - 1 : mem'[x] = m[x]
    BY <1>7
  <2>4. Holds(o, count, w)' /\ Holds(o2, offset, w2)'
    <3>1. used' \in Nat /\ used' >= used
      BY <1>4, <1>7
    <3> QED
      BY <2>2, <2>3, <3>1, TwoStores
  <2>5. n.sub # <<>> => offset = at
    BY <1>1, <1>4, EmptySeq
  <2> QED
    BY <1>1, <1>7, <2>4, <2>5
<1>8. \/ phase' = "failed" /\ stack' = <<>>
      \/ /\ count <= MaxArraySize /\ offset <= MaxDataOffset
         /\ mem' = m /\ Continue(<<>>) /\ used' = used
  <2>1. /\ ~(count > MaxArraySize) => count <= MaxArraySize
        /\ ~(offset > MaxDataOffset) => offset <= MaxDataOffset
    BY <1>5, LimitAssumption
  <2> QED
    BY <1>1, <1>2, <2>1 DEF FinishArray, Throw
<1> QED
  BY <1>3, <1>4, <1>5, <1>6, <1>7, <1>8

\* A dynamic_array writes its size and where its elements are.
LEMMA FinishArrayPlaced ==
    ASSUME ViewInv, SectionsPartitionUnwritten, Step, NEW R, Placed(R), FinishArray
    PROVE  \E S : Placed(S)'
<1>1. PICK n, o, at : n = Top.node /\ o = Top.fo /\ at = Top.start
  OBVIOUS
<1>2. /\ Kind[n.type] = "dynamic_array" /\ Top.step = "finish"
      /\ at \in Nat /\ Len(stack) \in 1 .. Len(stack)
      /\ Owes(Top) = {<<n, o>>} /\ Parts(n, o) = {}
      /\ \/ phase' = "failed" /\ stack' = <<>>
         \/ /\ Continue(<<>>) /\ used' = used
            /\ Len(n.sub) <= MaxArraySize /\ Holds(o, Len(n.sub), SizeWidth)'
            /\ n.sub # <<>> => at <= MaxDataOffset /\ Holds(o + SizeWidth, at, OffsetWidth)'
  BY <1>1, FinishArrayStores
<1>3. Items(n, at) \subseteq R
  BY <1>1, <1>2 DEF Placed, Top
<1>4. ASSUME Continue(<<>>), used' = used,
             Len(n.sub) <= MaxArraySize /\ Holds(o, Len(n.sub), SizeWidth)',
             n.sub # <<>> => at <= MaxDataOffset /\ Holds(o + SizeWidth, at, OffsetWidth)'
      PROVE  Placed(R)'
  <2>1. ArrayEncoded(n, o, R)'
    BY <1>2, <1>3, <1>4 DEF ArrayEncoded, Items
  <2>2. Encoded(n, o, R)'
    BY <1>2, <2>1 DEF Encoded, Parts
  <2> QED
    BY <1>2, <1>4, <2>2, ReturnPlaced
<1> QED
  BY <1>2, <1>4, FailedPlaced

LEMMA StepPlaced ==
    ASSUME ViewInv, SectionsPartitionUnwritten, Step, NEW R, Placed(R)
    PROVE  \E S : Placed(S)'
<1>1. phase = "running"
  BY StepStaysInSection
<1>2. CASE SerialiseNull \/ SerialiseScalar \/ SerialiseOptionalEmpty \/ SerialiseEmptyVariant
  <2>1. Placed(R)'
    BY <1>2, SimplePlaced
  <2> QED
    BY <2>1
<1>3. CASE \/ SerialisePair \/ SerialiseTuple \/ SerialiseStaticArray \/ SerialiseRecord
           \/ SerialiseElement \/ EndElements
  <2>1. /\ \/ Kind[Top.node.type] \in Contiguous
           \/ Kind[Top.node.type] = "dynamic_array" /\ Top.step = "elements"
        /\ \/ PushElement
           \/ Top.i = Len(Top.node.sub) /\ Continue(<<>>) /\ used' = used
    BY <1>3 DEF SerialisePair, SerialiseTuple, SerialiseStaticArray, SerialiseRecord,
                SerialiseElement, EndElements, ReturnAfterElements, Active, Contiguous
  <2>2. CASE PushElement
    BY <1>1, <2>1, <2>2, PushElementPlaced
  <2>3. CASE Top.i = Len(Top.node.sub) /\ Continue(<<>>) /\ used' = used
    <3>1. Top \in Frame
      BY <1>1, TopCall
    <3>2. Owes(Top) = {}
      BY <2>1, <2>3, <3>1, OwesNothing
    <3>3. Placed(R)'
      BY <2>3, <3>2, ReturnPlaced
    <3> QED
      BY <3>3
  <2> QED
    BY <2>1, <2>2, <2>3
<1>4. CASE SerialiseOptionalValue
  BY <1>4, OptionalPlaced
<1>5. CASE SerialiseVariantValue
  BY <1>5, VariantPlaced
<1>6. CASE SerialiseValuelessVariant
  BY <1>6, FailedPlaced DEF SerialiseValuelessVariant, Throw
<1>7. CASE BeginElements
  BY <1>7, BeginElementsPlaced
<1>8. CASE FinishArray
  BY <1>8, FinishArrayPlaced
<1> QED
  BY <1>2, <1>3, <1>4, <1>5, <1>6, <1>7, <1>8 DEF Step

\* Nothing is lost while nothing happens to the message.
LEMMA IdlePlaced ==
    ASSUME ViewInv, UNCHANGED vars, NEW R, Placed(R)
    PROVE  Placed(R)'
<1>1. /\ phase' = phase /\ root' = root /\ mem' = mem /\ used' = used /\ stack' = stack
  BY DEF vars
<1>2. KeepsWritten
  BY <1>1 DEF KeepsWritten, ViewInv, TypeOK
<1>3. ASSUME NEW p \in R
      PROVE  Encoded(p[1], p[2], R)' \/ \E j \in 1 .. Len(stack') : p \in Owes(stack'[j])
  <2>1. p[1] \in Source /\ p[2] \in Nat
    BY DEF Placed, PlaceSet
  <2>2. Encoded(p[1], p[2], R) => Encoded(p[1], p[2], R)'
    BY <1>2, <2>1, EncodedKept
  <2> QED
    BY <1>1, <2>2 DEF Placed
<1>4. R \subseteq PlaceSet /\ PlacesWithin(R, used') /\ (phase' \in {"running", "done"} => <<root', 0>> \in R)
  BY <1>1 DEF Placed
<1>5. \A j \in 1 .. Len(stack') :
         stack'[j].step = "finish" => Items(stack'[j].node, stack'[j].start) \subseteq R
  BY <1>1 DEF Placed
<1> QED
  BY <1>3, <1>4, <1>5 DEF Placed, PlacesWithin, Owes, Items

\* The places of a call of serialise() are, to begin with, the root and its elements.
LEMMA SerialisePlaced ==
    ASSUME NEW s \in Root, Serialise(s)
    PROVE  \E S : Placed(S)'
<1>1. PICK at, made, R : /\ at = 0 /\ made = Call(s, at, "buffer", BufferSpan')
                         /\ R = {<<s, at>>} \cup Parts(s, at)
  OBVIOUS
<1>2. s \in Source /\ at \in Nat /\ FixedSize[s.type] \in Nat
  BY <1>1, RootAssumption, SourceAssumption, TypesAssumption
<1>3. /\ used' = FixedSize[s.type] /\ stack' = <<made>> /\ root' = s /\ phase' = "running"
      /\ used' \in Nat
  BY <1>1, <1>2 DEF Serialise
<1>4. Len(stack') = 1 /\ stack'[1] = made /\ 1 \in 1 .. Len(stack')
      /\ \A j \in 1 .. Len(stack') : j = 1
  BY <1>3
<1>5. R \subseteq PlaceSet /\ PlacesWithin(R, used')
  <2>1. at + FixedSize[s.type] <= used'
    BY <1>1, <1>2, <1>3
  <2>2. Parts(s, at) \subseteq PlaceSet /\ PlacesWithin(Parts(s, at), used')
    BY <1>2, <1>3, <2>1, PartsWithin
  <2> QED
    BY <1>1, <1>2, <2>1, <2>2 DEF PlacesWithin, PlaceSet
<1>6. Parts(s, at) \subseteq R /\ <<root', 0>> \in R
  BY <1>1, <1>3
<1>7. /\ made.step = "serialise" /\ Parts(s, at) \subseteq Owes(made)
      /\ Encoded(s, at, R)' \/ <<s, at>> \in Owes(made)
  BY <1>1, <1>2, <1>6, CallOwes
<1>8. ASSUME NEW p \in R
      PROVE  Encoded(p[1], p[2], R)' \/ \E j \in 1 .. Len(stack') : p \in Owes(stack'[j])
  <2>1. CASE p = <<s, at>>
    BY <1>4, <1>7, <2>1
  <2>2. CASE p \in Parts(s, at)
    BY <1>4, <1>7, <2>2
  <2> QED
    BY <1>1, <2>1, <2>2
<1>9. \A j \in 1 .. Len(stack') : stack'[j].step # "finish"
  BY <1>4, <1>7
<1>10. Placed(R)'
  BY <1>5, <1>6, <1>8, <1>9 DEF Placed, PlacesWithin, Owes
<1> QED
  BY <1>10

LEMMA NextPlaced ==
    ASSUME ViewInv, SectionsPartitionUnwritten, Next, NEW R, Placed(R)
    PROVE  \E S : Placed(S)'
<1>1. CASE Step
  BY <1>1, StepPlaced
<1>2. CASE \E s \in Root : Serialise(s)
  BY <1>2, SerialisePlaced
<1>3. CASE \E s \in Root : InitialiseThrows(s)
  <2>1. phase' = "failed" /\ stack' = <<>>
    BY <1>3 DEF InitialiseThrows, ViewInv, TypeOK
  <2> QED
    BY <2>1, FailedPlaced
<1> QED
  BY <1>1, <1>2, <1>3 DEF Next

\* In a finished message every place holds its encoding.
LEMMA DoneEncoded ==
    ASSUME ViewInv, phase = "done", NEW R, Placed(R), NEW p \in R
    PROVE  Encoded(p[1], p[2], R)
<1>1. stack = <<>>
  BY DEF ViewInv, TypeOK
<1>2. \A j \in 1 .. Len(stack) : FALSE
  BY <1>1
<1> QED
  BY <1>2 DEF Placed

-----------------------------------------------------------------------------
\* Reading what is written.

\* The reader has the message, with or without more bytes behind it.
MessageReceived ==
    /\ phase = "done"
    /\ buffer.size \in Nat /\ used <= buffer.size /\ buffer.size < AddressSpace
    /\ \A x \in 0 .. used - 1 : buffer.bytes[x] = mem[x]

\* The reader is at a place, and has read from it what was written there.
AtPlace(R) ==
    /\ <<node, cursor.offset>> \in R
    /\ ReturnedFrom(node)
    /\ status \in {"reading", "bad_optional_access", "bad_variant_access", "out_of_range"}
    /\ status = "bad_optional_access" => node.sub = <<>>
    /\ status = "bad_variant_access" => Len(Elements[node.type]) > 1

ReadingPlaced(R) ==
    /\ delivery = "none" => status = "idle" /\ path = <<>>
    /\ delivery \in {"intact", "padded"} =>
          /\ MessageReceived
          /\ path \in Seq(Int)
          /\ status = "closed" => node = root /\ buffer.type \in {root.type} \cup Bases[root.type]
          /\ status # "closed" => AtPlace(R)

\* The number v is in the message, in w bytes at offset o.
Readable(o, v, w) == o \in Nat /\ v \in Nat /\ w \in {1, 2, 4, 8} /\ Fits(v, w) /\ Holds(o, v, w)

\* The value read from bytes, written out.
LEMMA ValueOfBytes ==
    ASSUME NEW m, NEW o \in Nat, NEW w \in {1, 2, 4, 8},
           NEW b, b = [k \in 1 .. w |-> m[o + k - 1]]
    PROVE  /\ w = 1 => UnsignedValue(m, o, w) = b[1]
           /\ w = 2 => UnsignedValue(m, o, w) = Then(b[1], b[2])
           /\ w = 4 => UnsignedValue(m, o, w) = Then(b[1], Then(b[2], Then(b[3], b[4])))
           /\ w = 8 => UnsignedValue(m, o, w) =
                 Then(b[1], Then(b[2], Then(b[3], Then(b[4],
                    Then(b[5], Then(b[6], Then(b[7], b[8])))))))
<1>1. CASE w = 1
  BY <1>1 DEF UnsignedValue
<1>2. CASE w = 2
  BY <1>2 DEF UnsignedValue
<1>3. CASE w = 4
  BY <1>3 DEF UnsignedValue
<1>4. CASE w = 8
  BY <1>4 DEF UnsignedValue
<1> QED
  BY <1>1, <1>2, <1>3, <1>4

LEMMA BytesMakeNumber ==
    ASSUME NEW m, NEW o \in Nat, NEW w \in {1, 2, 4, 8}, \A k \in 1 .. w : m[o + k - 1] \in Nat
    PROVE  UnsignedValue(m, o, w) \in Nat
<1>1. \A low, high \in Nat : Then(low, high) \in Nat
  <2>1. \A x, y \in Nat : x * y \in Nat
    OBVIOUS
  <2> QED
    BY <2>1, RadixAssumption DEF Then
<1>2. PICK b : b = [k \in 1 .. w |-> m[o + k - 1]]
  OBVIOUS
<1>3. \A k \in 1 .. w : b[k] \in Nat
  BY <1>2
<1>4. CASE w = 1
  BY <1>2, <1>3, <1>4, ValueOfBytes
<1>5. CASE w = 2
  <2>1. b[1] \in Nat /\ b[2] \in Nat
    BY <1>3, <1>5
  <2>2. Then(b[1], b[2]) \in Nat
    BY <1>1, <2>1
  <2> QED
    BY <1>2, <1>5, <2>2, ValueOfBytes
<1>6. CASE w = 4
  <2>1. b[1] \in Nat /\ b[2] \in Nat /\ b[3] \in Nat /\ b[4] \in Nat
    BY <1>3, <1>6
  <2>2. Then(b[1], Then(b[2], Then(b[3], b[4]))) \in Nat
    BY <1>1, <2>1
  <2> QED
    BY <1>2, <1>6, <2>2, ValueOfBytes
<1>7. CASE w = 8
  <2>1. b[1] \in Nat /\ b[2] \in Nat /\ b[3] \in Nat /\ b[4] \in Nat
    BY <1>3, <1>7
  <2>2. b[5] \in Nat /\ b[6] \in Nat /\ b[7] \in Nat /\ b[8] \in Nat
    BY <1>3, <1>7
  <2>3. Then(b[5], Then(b[6], Then(b[7], b[8]))) \in Nat
    BY <1>1, <2>2
  <2>4. Then(b[1], Then(b[2], Then(b[3], Then(b[4],
           Then(b[5], Then(b[6], Then(b[7], b[8]))))))) \in Nat
    BY <1>1, <2>1, <2>3
  <2> QED
    BY <1>2, <1>7, <2>4, ValueOfBytes
<1> QED
  BY <1>4, <1>5, <1>6, <1>7

\* A byte is its own lowest byte.
LEMMA ByteIsDigit ==
    ASSUME NEW x \in Byte
    PROVE  x % Radix = x
<1>1. Radix \in Nat \ {0} /\ x \in Nat /\ x < Radix
  BY RadixAssumption DEF Byte
<1>2. PICK q \in Nat, r \in Nat : q = x \div Radix /\ r = x % Radix /\ x = r + Radix * q
  BY <1>1, Divided
<1>3. \A y \in Nat : y >= 1 => Radix * y >= Radix
  BY <1>1
<1>4. PICK p \in Nat : p = Radix * q
  <2>1. \A y, z \in Nat : y * z \in Nat
    OBVIOUS
  <2> QED
    BY <1>1, <2>1
<1>5. ~(q >= 1)
  BY <1>1, <1>2, <1>3, <1>4
<1>6. q = 0 /\ Radix * 0 = 0
  BY <1>1, <1>5
<1> QED
  BY <1>2, <1>6

\* The digits of a number make up the number.
LEMMA StoredReads ==
    ASSUME NEW m, NEW o \in Nat, NEW v \in Nat, NEW w \in {1, 2, 4, 8}, Fits(v, w), Stored(m, o, v, w)
    PROVE  UnsignedValue(m, o, w) = v
<1>1. PICK s : s = Shifted(v)
  OBVIOUS
<1>2. PICK b : b = [k \in 1 .. w |-> m[o + k - 1]]
  OBVIOUS
<1>3. /\ s[1] = v /\ s[w] \in Byte
      /\ \A k \in 1 .. 8 : s[k] \in Nat
      /\ \A k \in 1 .. 7 : s[k + 1] = s[k] \div Radix
  BY <1>1, ShiftedNumbers DEF Fits
<1>4. \A k \in 1 .. w : b[k] = s[k] % Radix
  BY <1>1, <1>2 DEF Stored, LittleEndian
<1>5. s[w] = b[w]
  <2>1. w \in 1 .. w
    OBVIOUS
  <2> QED
    BY <1>3, <1>4, <2>1, ByteIsDigit
<1>6. ASSUME NEW k \in 1 .. 7, k < w
      PROVE  s[k] = Then(b[k], s[k + 1])
  <2>1. k \in 1 .. w /\ k \in 1 .. 8
    BY <1>6
  <2>2. s[k] = Then(s[k] % Radix, s[k] \div Radix)
    BY <1>3, <2>1, Digits
  <2> QED
    BY <1>3, <1>4, <2>1, <2>2
<1>7. CASE w = 1
  BY <1>2, <1>3, <1>5, <1>7, ValueOfBytes
<1>8. CASE w = 2
  <2>1. s[1] = Then(b[1], s[2])
    BY <1>6, <1>8
  <2> QED
    BY <1>2, <1>3, <1>5, <1>8, <2>1, ValueOfBytes
<1>9. CASE w = 4
  <2>1. s[1] = Then(b[1], s[2]) /\ s[2] = Then(b[2], s[3]) /\ s[3] = Then(b[3], s[4])
    BY <1>6, <1>9
  <2> QED
    BY <1>2, <1>3, <1>5, <1>9, <2>1, ValueOfBytes
<1>10. CASE w = 8
  <2>1. s[1] = Then(b[1], s[2]) /\ s[2] = Then(b[2], s[3]) /\ s[3] = Then(b[3], s[4])
    BY <1>6, <1>10
  <2>2. /\ s[4] = Then(b[4], s[5]) /\ s[5] = Then(b[5], s[6])
        /\ s[6] = Then(b[6], s[7]) /\ s[7] = Then(b[7], s[8])
    BY <1>6, <1>10
  <2> QED
    BY <1>2, <1>3, <1>5, <1>10, <2>1, <2>2, ValueOfBytes
<1> QED
  BY <1>7, <1>8, <1>9, <1>10

\* deserialiser<U>::value() gives the number that is there.
LEMMA NumberReads ==
    ASSUME ViewInv, MessageReceived, NEW o, NEW v, NEW w, Readable(o, v, w)
    PROVE  ~TooSmallFor(w, buffer.size, o) /\ UnsignedValue(buffer.bytes, o, w) = v
<1>1. /\ o \in Nat /\ v \in Nat /\ w \in {1, 2, 4, 8} /\ Fits(v, w) /\ o + w <= used
      /\ \A k \in 1 .. w : mem[o + k - 1] = LittleEndian(v, w)[k]
  BY DEF Readable, Holds, Stored
<1>2. used \in Nat /\ buffer.size \in Nat /\ used <= buffer.size
  BY DEF ViewInv, TypeOK, MessageReceived
<1>3. ~TooSmallFor(w, buffer.size, o)
  BY <1>1, <1>2 DEF TooSmallFor
<1>4. Stored(buffer.bytes, o, v, w)
  <2>1. \A k \in 1 .. w : o + k - 1 \in 0 .. used - 1
    BY <1>1, <1>2
  <2> QED
    BY <1>1, <2>1 DEF MessageReceived, Stored
<1> QED
  BY <1>1, <1>3, <1>4, StoredReads

\* The operators of SourceTree are what they are in Reader.
LEMMA SameOperators ==
    /\ \A m, o, w : Reading!UnsignedValue(m, o, w) = UnsignedValue(m, o, w)
    /\ \A w, size, o : Reading!TooSmallFor(w, size, o) = TooSmallFor(w, size, o)
    /\ Reading!OffsetWidth = OffsetWidth /\ Reading!SizeWidth = SizeWidth
    /\ Reading!IndexWidth = IndexWidth
<1>1. \A m, o, w : Reading!UnsignedValue(m, o, w) = UnsignedValue(m, o, w)
  BY DEF Reading!UnsignedValue, UnsignedValue, Reading!Then, Then
<1> QED
  BY <1>1 DEF Reading!TooSmallFor, TooSmallFor, Reading!OffsetWidth, OffsetWidth,
              Reading!SizeWidth, SizeWidth, Reading!IndexWidth, IndexWidth

\* Shifting numbers keeps their order.
LEMMA DividedInOrder ==
    ASSUME NEW x \in Nat, NEW y \in Nat, x <= y
    PROVE  x \div Radix <= y \div Radix
<1>1. Radix \in Nat \ {0}
  BY RadixAssumption
<1>2. PICK q \in Nat, r \in Nat : q = x \div Radix /\ x = r + Radix * q
  BY <1>1, Divided
<1>3. PICK p \in Nat, t \in Nat : p = y \div Radix /\ y = t + Radix * p /\ t < Radix
  BY <1>1, Divided
<1>4. \A a, c \in Nat : a >= c + 1 => Radix * a >= Radix * c + Radix
  BY <1>1
<1>5. PICK h \in Nat, g \in Nat : h = Radix * q /\ g = Radix * p
  <2>1. \A a, c \in Nat : a * c \in Nat
    OBVIOUS
  <2> QED
    BY <1>1, <2>1
<1>6. ~(q >= p + 1)
  BY <1>1, <1>2, <1>3, <1>4, <1>5
<1>7. q <= p
  BY <1>6
<1> QED
  BY <1>2, <1>3, <1>7

\* A number that is not above one that fits, fits.
LEMMA FitsBelow ==
    ASSUME NEW v \in Nat, NEW max \in Nat, NEW w \in {1, 2, 4, 8}, v <= max, Fits(max, w)
    PROVE  Fits(v, w)
<1>1. PICK s, z : s = Shifted(v) /\ z = Shifted(max)
  OBVIOUS
<1>2. /\ s[1] = v /\ z[1] = max
      /\ \A k \in 1 .. 8 : s[k] \in Nat /\ z[k] \in Nat
      /\ \A k \in 1 .. 7 : s[k + 1] = s[k] \div Radix /\ z[k + 1] = z[k] \div Radix
  BY <1>1, ShiftedNumbers
<1>3. ASSUME NEW k \in 1 .. 7, s[k] <= z[k]
      PROVE  s[k + 1] <= z[k + 1]
  <2>1. k \in 1 .. 8
    OBVIOUS
  <2> QED
    BY <1>2, <1>3, <2>1, DividedInOrder
<1>4. s[1] <= z[1] /\ s[2] <= z[2]
  <2>1. s[1] <= z[1] => s[1 + 1] <= z[1 + 1]
    BY <1>3
  <2> QED
    BY <1>2, <2>1
<1>5. s[3] <= z[3] /\ s[4] <= z[4]
  <2>1. /\ s[2] <= z[2] => s[2 + 1] <= z[2 + 1]
        /\ s[3] <= z[3] => s[3 + 1] <= z[3 + 1]
    BY <1>3
  <2> QED
    BY <1>4, <2>1
<1>6. s[5] <= z[5] /\ s[6] <= z[6]
  <2>1. /\ s[4] <= z[4] => s[4 + 1] <= z[4 + 1]
        /\ s[5] <= z[5] => s[5 + 1] <= z[5 + 1]
    BY <1>3
  <2> QED
    BY <1>5, <2>1
<1>7. s[7] <= z[7] /\ s[8] <= z[8]
  <2>1. /\ s[6] <= z[6] => s[6 + 1] <= z[6 + 1]
        /\ s[7] <= z[7] => s[7 + 1] <= z[7 + 1]
    BY <1>3
  <2> QED
    BY <1>6, <2>1
<1>8. s[w] <= z[w]
  BY <1>4, <1>5, <1>7
<1>9. z[w] \in Byte /\ s[w] \in Nat
  <2>1. w \in 1 .. 8
    OBVIOUS
  <2> QED
    BY <1>1, <1>2, <2>1 DEF Fits
<1>10. s[w] \in Byte
  BY <1>8, <1>9, RadixAssumption DEF Byte
<1> QED
  BY <1>1, <1>10 DEF Fits

\* What is known of a place of a finished message.
LEMMA PlaceFacts ==
    ASSUME ViewInv, phase = "done", NEW R, Placed(R), NEW n, NEW o, <<n, o>> \in R
    PROVE  /\ n \in Source /\ n.type \in Type /\ n.val \in Nat /\ n.sub \in Seq(Source)
           /\ SubsHaveTypes(n) /\ o \in Nat /\ o + FixedSize[n.type] <= used
           /\ FixedSize[n.type] \in Nat /\ Encoded(n, o, R)
<1>1. <<n, o>> \in PlaceSet /\ o + FixedSize[n.type] <= used
  BY DEF Placed, PlacesWithin
<1>2. n \in Source /\ o \in Nat
  BY <1>1 DEF PlaceSet
<1>3. Encoded(n, o, R)
  <2>1. \A p \in R : Encoded(p[1], p[2], R)
    BY DoneEncoded
  <2> QED
    BY <2>1
<1> QED
  BY <1>1, <1>2, <1>3, SourceAssumption, TypesAssumption

\* What can be read at a place of a type, or as one of its bases.
LEMMA BaseFacts ==
    ASSUME NEW n, n.type \in Type, NEW t \in {n.type} \cup Bases[n.type]
    PROVE  /\ t \in Type /\ Kind[t] = Kind[n.type] /\ FixedSize[t] <= FixedSize[n.type]
           /\ Kind[t] # "record" => t = n.type
           /\ Bases[t] \subseteq Bases[n.type]
           /\ Len(Elements[t]) <= Len(Elements[n.type])
           /\ \A i \in 1 .. Len(Elements[t]) :
                 /\ Elements[t][i] = Elements[n.type][i]
                 /\ ElementOffset[t][i] = ElementOffset[n.type][i]
<1>1. FixedSize[n.type] \in Nat /\ Len(Elements[n.type]) \in Nat
  BY TypesAssumption
<1>2. CASE t = n.type
  BY <1>1, <1>2
<1>3. CASE t \in Bases[n.type]
  <2>1. Bases \in [Type -> SUBSET Type]
    BY ReadingAssumption DEF Reading!BasesHaveFirstFields
  <2>2. t \in Type
    BY <1>3, <2>1
  <2> QED
    BY <1>3, <2>2, ReadingAssumption DEF Reading!BasesHaveFirstFields
<1> QED
  BY <1>2, <1>3

\* The subobject that an accessor names is the one that it has reached.
LEMMA PathStep ==
    ASSUME path \in Seq(Int), NEW i \in Int, path' = path \o <<i>>, NEW n
    PROVE  path' \in Seq(Int) /\ Reached(n) = n.sub[i]
<1>1. path' \in Seq(Int) /\ Len(path') = Len(path) + 1 /\ Len(path) \in Nat /\ path'[Len(path')] = i
  OBVIOUS
<1>2. path' # path
  BY <1>1
<1> QED
  BY <1>1, <1>2 DEF Reached

\* A deserialiser made for a place, for the type there or a base of it, is in
\* bounds; a scalar has its value.
LEMMA Arrives ==
    ASSUME ViewInv, MessageReceived, NEW R, Placed(R), NEW n, NEW o, <<n, o>> \in R,
           NEW t, t \in {n.type} \cup Bases[n.type],
           NEW c, c \notin {"index", "size", "has_value"}, NEW steps, NEW e,
           Reading!MoveTo(c, t, o, steps, e), path' = path \o steps => node' = n
    PROVE  AtPlace(R)' /\ status' = "reading" /\ path' = path \o steps /\ buffer' = buffer
<1>1. /\ n.type \in Type /\ n.val \in Nat /\ o \in Nat /\ o + FixedSize[n.type] <= used
      /\ FixedSize[n.type] \in Nat /\ Encoded(n, o, R) /\ SubsHaveTypes(n)
  BY PlaceFacts DEF MessageReceived
<1>2. /\ t \in Type /\ Kind[t] = Kind[n.type] /\ FixedSize[t] <= FixedSize[n.type]
      /\ Kind[t] # "record" => t = n.type
  BY <1>1, BaseFacts
<1>3. FixedSize[t] \in Nat /\ used \in Nat /\ buffer.size \in Nat /\ used <= buffer.size
  BY <1>2, TypesAssumption DEF ViewInv, TypeOK, MessageReceived
<1>4. ~TooSmallFor(FixedSize[t], buffer.size, o)
  BY <1>1, <1>2, <1>3 DEF TooSmallFor
<1>5. /\ call' = c /\ status' = "reading" /\ cursor' = [type |-> t, offset |-> o]
      /\ path' = path \o steps /\ buffer' = buffer
      /\ Kind[t] = "scalar" => result' = UnsignedValue(buffer.bytes, o, FixedSize[t])
  BY <1>4, SameOperators DEF Reading!MoveTo
<1>6. Kind[n.type] = "scalar" => result' = n.val
  <2> SUFFICES ASSUME Kind[n.type] = "scalar"
               PROVE  result' = n.val
    OBVIOUS
  <2>1. t = n.type
    BY <1>2
  <2>2. Readable(o, n.val, FixedSize[t])
    BY <1>1, <2>1, TypesAssumption DEF Encoded, Readable, SubsHaveTypes, HasFixedDataSize
  <2> QED
    BY <1>2, <1>5, <2>2, NumberReads
<1>7. node' = n
  BY <1>5
<1>8. ReturnedFrom(node)'
  BY <1>5, <1>6, <1>7 DEF ReturnedFrom
<1> QED
  BY <1>5, <1>7, <1>8 DEF AtPlace

\* An accessor that only returns a number, or throws, leaves the reader where it is.
LEMMA Stays ==
    ASSUME NEW R, AtPlace(R), UNCHANGED <<path, cursor>>, node' = Reached(node),
           status' \in {"reading", "bad_optional_access", "bad_variant_access", "out_of_range"},
           status' = "bad_optional_access" => node.sub = <<>>,
           status' = "bad_variant_access" => Len(Elements[node.type]) > 1,
           Kind[node.type] # "scalar",
           call' = "index" => result' = node.val,
           call' \in {"size", "has_value"} => result' = Len(node.sub)
    PROVE  AtPlace(R)'
<1>1. node' = node
  BY DEF Reached
<1> QED
  BY <1>1 DEF AtPlace, ReturnedFrom

-----------------------------------------------------------------------------
\* The accessors, one by one.

\* The reader has gone on to a place.
GoesOn(R) == AtPlace(R)' /\ path' \in Seq(Int) /\ buffer' = buffer /\ status' # "closed"

\* What the reader knows at a place of kind k.
LEMMA HereFacts ==
    ASSUME ViewInv, MessageReceived, NEW R, Placed(R), AtPlace(R), NEW k, Reading!Holding(k)
    PROVE  /\ node \in Source /\ node.type \in Type /\ node.val \in Nat /\ node.sub \in Seq(Source)
           /\ SubsHaveTypes(node) /\ cursor.offset \in Nat
           /\ Encoded(node, cursor.offset, R)
           /\ status = "reading" /\ cursor.type \in {node.type} \cup Bases[node.type]
           /\ cursor.type \in Type /\ Kind[cursor.type] = k /\ Kind[node.type] = k
           /\ k # "record" => cursor.type = node.type
<1>1. <<node, cursor.offset>> \in R /\ cursor.type \in {node.type} \cup Bases[node.type]
  BY DEF AtPlace, ReturnedFrom
<1>2. status = "reading" /\ Kind[cursor.type] = k
  BY DEF Reading!Holding
<1>3. phase = "done"
  BY DEF MessageReceived
<1>4. /\ node \in Source /\ node.type \in Type /\ node.val \in Nat /\ node.sub \in Seq(Source)
      /\ SubsHaveTypes(node) /\ cursor.offset \in Nat /\ Encoded(node, cursor.offset, R)
  BY <1>1, <1>3, PlaceFacts
<1>5. /\ cursor.type \in Type /\ Kind[cursor.type] = Kind[node.type]
      /\ Kind[cursor.type] # "record" => cursor.type = node.type
  BY <1>1, <1>4, BaseFacts
<1> QED
  BY <1>1, <1>2, <1>4, <1>5

\* An accessor that makes a deserialiser for subobject i, where that is, goes
\* on to it.
LEMMA Descends ==
    ASSUME ViewInv, MessageReceived, NEW R, Placed(R), path \in Seq(Int),
           NEW i \in Int, NEW o, <<node.sub[i], o>> \in R, NEW t, t = node.sub[i].type,
           NEW c, c \notin {"index", "size", "has_value"}, NEW e,
           Reading!MoveTo(c, t, o, <<i>>, e), node' = Reached(node)
    PROVE  GoesOn(R)
<1> DEFINE n == node.sub[i]
<1>1. path' = path \o <<i>> => path' \in Seq(Int) /\ node' = n
  BY PathStep
<1>2. <<n, o>> \in R /\ t \in {n.type} \cup Bases[n.type]
  OBVIOUS
<1> HIDE DEF n
<1>3. AtPlace(R)' /\ status' = "reading" /\ path' = path \o <<i>> /\ buffer' = buffer
  BY <1>1, <1>2, Arrives
<1> QED
  BY <1>1, <1>3 DEF GoesOn

\* deserialise<T>(buffer)
LEMMA OpenPlaced ==
    ASSUME ViewInv, MessageReceived, NEW R, Placed(R), path \in Seq(Int),
           node = root, buffer.type \in {root.type} \cup Bases[root.type],
           Reading!Open, node' = Reached(node)
    PROVE  GoesOn(R)
<1> DEFINE t == buffer.type
           e == "buffer_bounds_error"
<1>1. <<root, 0>> \in R
  BY DEF Placed, MessageReceived
<1>2. Reading!MoveTo("deserialise", t, 0, <<>>, e)
  BY DEF Reading!Open
<1>3. path \o <<>> = path
  OBVIOUS
<1>4. path' = path \o <<>> => node' = root
  BY <1>3 DEF Reached
<1>5. t \in {root.type} \cup Bases[root.type]
      /\ "deserialise" \notin {"index", "size", "has_value"}
  OBVIOUS
<1> HIDE DEF t, e
<1>6. AtPlace(R)' /\ status' = "reading" /\ path' = path \o <<>> /\ buffer' = buffer
  BY <1>1, <1>2, <1>4, <1>5, Arrives
<1> QED
  BY <1>3, <1>6 DEF GoesOn

\* The elements of a pair, tuple or record.
LEMMA GetElementPlaced ==
    ASSUME ViewInv, MessageReceived, NEW R, Placed(R), path \in Seq(Int), AtPlace(R),
           NEW k \in {"pair", "tuple", "record"}, Reading!GetElement(k), node' = Reached(node)
    PROVE  GoesOn(R)
<1>1. Reading!Holding(k)
  BY DEF Reading!GetElement
<1>2. PICK i \in 1 .. Len(Elements[cursor.type]) :
         Reading!MoveTo("get_element", Elements[cursor.type][i],
                        cursor.offset + ElementOffset[cursor.type][i], <<i>>, "buffer_bounds_error")
  BY DEF Reading!GetElement
<1> DEFINE at == cursor.offset + ElementOffset[cursor.type][i]
           t == Elements[cursor.type][i]
<1>3. /\ node \in Source /\ node.type \in Type /\ SubsHaveTypes(node) /\ cursor.type \in Type
      /\ Encoded(node, cursor.offset, R) /\ Kind[node.type] = k
      /\ cursor.type \in {node.type} \cup Bases[node.type]
  BY <1>1, HereFacts
<1>4. /\ Elements[cursor.type][i] = Elements[node.type][i]
      /\ ElementOffset[cursor.type][i] = ElementOffset[node.type][i]
      /\ Len(Elements[cursor.type]) <= Len(Elements[node.type])
  BY <1>3, BaseFacts
<1>5. i \in 1 .. Len(node.sub) /\ node.sub[i].type = Elements[node.type][i]
  <2>1. Len(node.sub) = Len(Elements[node.type])
    BY <1>3 DEF SubsHaveTypes, Contiguous
  <2>2. Len(Elements[node.type]) \in Nat /\ Len(Elements[cursor.type]) \in Nat
    <3>1. \A x \in Type : Elements[x] \in Seq(Type)
      BY TypesAssumption
    <3>2. Elements[node.type] \in Seq(Type) /\ Elements[cursor.type] \in Seq(Type)
      BY <1>3, <3>1
    <3> QED
      BY <3>2
  <2>3. i \in 1 .. Len(node.sub)
    BY <1>4, <2>1, <2>2
  <2> QED
    BY <1>3, <2>1, <2>3 DEF SubsHaveTypes, Contiguous
<1>6. <<node.sub[i], at>> \in Parts(node, cursor.offset)
  BY <1>3, <1>4, <1>5 DEF Parts, Contiguous
<1>7. <<node.sub[i], at>> \in R /\ t = node.sub[i].type /\ i \in Int
  BY <1>3, <1>4, <1>5, <1>6 DEF Encoded
<1>8. Reading!MoveTo("get_element", t, at, <<i>>, "buffer_bounds_error")
  BY <1>2
<1> HIDE DEF t, at
<1> QED
  BY <1>7, <1>8, Descends

\* The conversion to a base leaves the reader at its place.
LEMMA RecordToBasePlaced ==
    ASSUME ViewInv, MessageReceived, NEW R, Placed(R), path \in Seq(Int), AtPlace(R),
           Reading!RecordToBase, node' = Reached(node)
    PROVE  GoesOn(R)
<1>1. Reading!Holding("record")
  BY DEF Reading!RecordToBase
<1>2. PICK t \in Bases[cursor.type] :
         Reading!MoveTo("to_base", t, cursor.offset, <<>>, "terminate")
  BY DEF Reading!RecordToBase
<1>3. node.type \in Type /\ cursor.type \in {node.type} \cup Bases[node.type]
  BY <1>1, HereFacts
<1>4. t \in {node.type} \cup Bases[node.type]
  BY <1>3, BaseFacts
<1>5. path \o <<>> = path
  OBVIOUS
<1>6. PICK n, o : n = node /\ o = cursor.offset
  OBVIOUS
<1>7. /\ <<n, o>> \in R /\ t \in {n.type} \cup Bases[n.type]
      /\ Reading!MoveTo("to_base", t, o, <<>>, "terminate")
      /\ path' = path \o <<>> => node' = n
      /\ "to_base" \notin {"index", "size", "has_value"}
  BY <1>2, <1>4, <1>5, <1>6 DEF AtPlace, Reached
<1>8. AtPlace(R)' /\ status' = "reading" /\ path' = path \o <<>> /\ buffer' = buffer
  BY <1>7, Arrives
<1> QED
  BY <1>5, <1>8 DEF GoesOn
\* at() of a static_array.
LEMMA StaticArrayAtPlaced ==
    ASSUME ViewInv, MessageReceived, NEW R, Placed(R), path \in Seq(Int), AtPlace(R),
           NEW index \in Nat, Reading!StaticArrayAt(index), node' = Reached(node)
    PROVE  GoesOn(R)
<1> DEFINE t == cursor.type
           i == index + 1
<1>1. Reading!Holding("static_array")
  BY DEF Reading!StaticArrayAt
<1>2. /\ node \in Source /\ node.type \in Type /\ SubsHaveTypes(node) /\ t = node.type
      /\ Encoded(node, cursor.offset, R) /\ Kind[t] = "static_array" /\ cursor.offset \in Nat
      /\ node.sub \in Seq(Source)
  BY <1>1, HereFacts
<1>3. Len(node.sub) = Len(Elements[t]) /\ \A j \in 1 .. Len(node.sub) : node.sub[j].type = Elements[t][j]
  BY <1>2 DEF SubsHaveTypes, Contiguous
<1>4. CASE index >= Len(Elements[t])
  <2>1. /\ call' = "at" /\ status' = "out_of_range" /\ buffer' = buffer
        /\ UNCHANGED <<path, cursor>>
    BY <1>4 DEF Reading!StaticArrayAt, Reading!Fail
  <2>2. AtPlace(R)'
    BY <1>2, <2>1, Stays
  <2> QED
    BY <2>1, <2>2 DEF GoesOn
<1>5. CASE ~(index >= Len(Elements[t]))
  <2> DEFINE at == cursor.offset + index * FixedSize[Elements[t][index + 1]]
  <2>1. Reading!MoveTo("get_element", Elements[t][i], at, <<i>>, "buffer_bounds_error")
    BY <1>5 DEF Reading!StaticArrayAt
  <2>2. i \in 1 .. Len(node.sub) /\ i \in Int
    BY <1>2, <1>3, <1>5
  <2>3. Elements[t][i] = Elements[t][1]
        /\ ElementOffset[t][i] = (i - 1) * FixedSize[Elements[t][1]]
    <3>1. IsUniform(t)
      BY <1>2, TypesAssumption
    <3>2. i \in 1 .. Len(Elements[t])
      BY <1>3, <2>2
    <3> HIDE DEF t, i
    <3> QED
      BY <3>1, <3>2 DEF IsUniform
  <2>4. at = cursor.offset + ElementOffset[t][i]
    <3>1. i - 1 = index
      OBVIOUS
    <3> QED
      BY <2>3, <3>1
  <2>5. <<node.sub[i], at>> \in Parts(node, cursor.offset)
    BY <1>2, <2>2, <2>4 DEF Parts, Contiguous
  <2>6. <<node.sub[i], at>> \in R /\ Elements[t][i] = node.sub[i].type
    BY <1>2, <1>3, <2>2, <2>5 DEF Encoded
  <2> HIDE DEF at, i
  <2>7. "get_element" \notin {"index", "size", "has_value"}
    OBVIOUS
  <2> QED
    BY <2>1, <2>2, <2>6, <2>7, Descends
<1> QED
  BY <1>4, <1>5

\* The number that an accessor reads at offset `at` of the fixed data.
LEMMA FieldReads ==
    ASSUME ViewInv, MessageReceived, NEW at, NEW v, NEW w, Readable(cursor.offset + at, v, w)
    PROVE  ~Reading!Missing(at, w) /\ Reading!Number(at, w) = v
<1> DEFINE o == cursor.offset + at
<1>1. Readable(o, v, w)
  OBVIOUS
<1> HIDE DEF o
<1>2. ~TooSmallFor(w, buffer.size, o) /\ UnsignedValue(buffer.bytes, o, w) = v
  BY <1>1, NumberReads
<1> QED
  BY <1>2, SameOperators DEF Reading!Missing, Reading!Number, o

\* The offset that an optional, variant or dynamic_array stores.
LEMMA OffsetReadable ==
    ASSUME NEW o, o \in Nat, NEW v, v \in Nat, v <= MaxDataOffset, Holds(o, v, OffsetWidth)
    PROVE  Readable(o, v, OffsetWidth)
<1>1. MaxDataOffset \in Nat /\ Fits(MaxDataOffset, OffsetWidth) /\ OffsetWidth \in {1, 2, 4, 8}
  BY LimitAssumption DEF OffsetWidth
<1>2. Fits(v, OffsetWidth)
  BY <1>1, FitsBelow
<1> QED
  BY <1>1, <1>2 DEF Readable

\* has_value() and value() of an optional.
LEMMA OptionalHasValuePlaced ==
    ASSUME ViewInv, MessageReceived, NEW R, Placed(R), path \in Seq(Int), AtPlace(R),
           Reading!OptionalHasValue, node' = Reached(node)
    PROVE  GoesOn(R)
<1>1. Reading!Holding("optional")
  BY DEF Reading!OptionalHasValue
<1>2. /\ node.sub \in Seq(Source) /\ SubsHaveTypes(node)
      /\ Encoded(node, cursor.offset, R) /\ Kind[node.type] = "optional" /\ cursor.offset \in Nat
      /\ status = "reading"
  BY <1>1, HereFacts
<1>3. OptionalEncoded(node, cursor.offset, R) /\ Len(node.sub) <= 1 /\ Len(node.sub) \in Nat
  BY <1>2 DEF Encoded, SubsHaveTypes
<1>4. \E v \in Nat : /\ Readable(cursor.offset + 0, v, OffsetWidth)
                     /\ (IF v > 0 THEN 1 ELSE 0) = Len(node.sub)
  <2>0. cursor.offset + 0 = cursor.offset
    BY <1>2
  <2>1. CASE node.sub = <<>>
    <3>1. Holds(cursor.offset, 0, OffsetWidth) /\ 0 \in Nat /\ 0 <= MaxDataOffset
      BY <1>3, <2>1, LimitAssumption DEF OptionalEncoded
    <3>2. Readable(cursor.offset, 0, OffsetWidth)
      BY <1>2, <3>1, OffsetReadable
    <3> QED
      BY <2>0, <2>1, <3>1, <3>2
  <2>2. CASE node.sub # <<>>
    <3>1. PICK at \in Nat : Holds(cursor.offset, at + 1, OffsetWidth) /\ at + 1 <= MaxDataOffset
      BY <1>3, <2>2 DEF OptionalEncoded
    <3>2. PICK v \in Nat : v = at + 1 /\ v > 0
      OBVIOUS
    <3>3. Readable(cursor.offset, v, OffsetWidth)
      BY <1>2, <3>1, <3>2, OffsetReadable
    <3>4. Len(node.sub) = 1
      <4>1. Len(node.sub) # 0
        BY <1>2, <2>2
      <4>2. PICK n \in Nat : n = Len(node.sub)
        BY <1>3
      <4>3. n <= 1 /\ n # 0
        BY <1>3, <4>1, <4>2
      <4>4. n = 1
        BY <4>3
      <4> QED
        BY <4>2, <4>4
    <3> QED
      BY <2>0, <3>2, <3>3, <3>4
  <2> QED
    BY <2>1, <2>2
<1>5. ~Reading!Missing(0, OffsetWidth)
      /\ (IF Reading!Number(0, OffsetWidth) > 0 THEN 1 ELSE 0) = Len(node.sub)
  BY <1>4, FieldReads
<1>6. /\ call' = "has_value" /\ result' = Len(node.sub)
      /\ UNCHANGED <<buffer, asserts, status, cursor, path>>
  BY <1>5, SameOperators DEF Reading!OptionalHasValue, Reading!Return
<1>7. AtPlace(R)'
  BY <1>2, <1>6, Stays
<1> QED
  BY <1>2, <1>6, <1>7 DEF GoesOn

LEMMA OptionalValuePlaced ==
    ASSUME ViewInv, MessageReceived, NEW R, Placed(R), path \in Seq(Int), AtPlace(R),
           Reading!OptionalValue, node' = Reached(node)
    PROVE  GoesOn(R)
<1>1. Reading!Holding("optional")
  BY DEF Reading!OptionalValue
<1>2. /\ node.sub \in Seq(Source) /\ SubsHaveTypes(node) /\ cursor.type = node.type
      /\ Encoded(node, cursor.offset, R) /\ Kind[node.type] = "optional" /\ cursor.offset \in Nat
      /\ cursor.offset + 0 = cursor.offset
  BY <1>1, HereFacts
<1>3. OptionalEncoded(node, cursor.offset, R)
  BY <1>2 DEF Encoded
<1>4. CASE node.sub = <<>>
  <2>1. Holds(cursor.offset, 0, OffsetWidth) /\ 0 \in Nat /\ 0 <= MaxDataOffset
    BY <1>3, <1>4, LimitAssumption DEF OptionalEncoded
  <2>2. Readable(cursor.offset + 0, 0, OffsetWidth)
    BY <1>2, <2>1, OffsetReadable
  <2>3. ~Reading!Missing(0, OffsetWidth) /\ Reading!Number(0, OffsetWidth) = 0
    BY <2>2, FieldReads
  <2>4. /\ call' = "value" /\ status' = "bad_optional_access" /\ buffer' = buffer
        /\ UNCHANGED <<path, cursor>>
    BY <2>3, SameOperators DEF Reading!OptionalValue, Reading!Fail
  <2>5. AtPlace(R)'
    BY <1>2, <1>4, <2>4, Stays
  <2> QED
    BY <2>4, <2>5 DEF GoesOn
<1>5. CASE node.sub # <<>>
  <2>1. PICK at \in Nat : /\ Holds(cursor.offset, at + 1, OffsetWidth) /\ at + 1 <= MaxDataOffset
                          /\ <<node.sub[1], at>> \in R
    BY <1>3, <1>5 DEF OptionalEncoded
  <2>2. PICK v \in Nat : v = at + 1 /\ v # 0 /\ v - 1 = at
    OBVIOUS
  <2>3. Readable(cursor.offset + 0, v, OffsetWidth)
    BY <1>2, <2>1, <2>2, OffsetReadable
  <2>4. ~Reading!Missing(0, OffsetWidth) /\ Reading!Number(0, OffsetWidth) = v
    BY <2>3, FieldReads
  <2>5. Reading!MoveTo("value", Elements[cursor.type][1], at, <<1>>, "buffer_bounds_error")
    BY <2>2, <2>4, SameOperators DEF Reading!OptionalValue
  <2>6. node.sub[1].type = Elements[cursor.type][1]
    <3>1. 1 \in 1 .. Len(node.sub)
      BY <1>2, <1>5
    <3> QED
      BY <1>2, <3>1 DEF SubsHaveTypes
  <2>7. "value" \notin {"index", "size", "has_value"} /\ 1 \in Int
    OBVIOUS
  <2> QED
    BY <2>1, <2>5, <2>6, <2>7, Descends
<1> QED
  BY <1>4, <1>5
\* A variant that is not variant<> holds a value, whose alternative it stores.
LEMMA VariantHere ==
    ASSUME ViewInv, MessageReceived, NEW R, Placed(R), AtPlace(R),
           Reading!Holding("variant"), Elements[cursor.type] # <<>>
    PROVE  /\ ~Reading!Missing(0, IndexWidth) /\ Reading!Number(0, IndexWidth) = node.val
           /\ ~Reading!Missing(IndexWidth, OffsetWidth)
           /\ <<node.sub[1], Reading!Number(IndexWidth, OffsetWidth)>> \in R
           /\ node.val \in Nat /\ node.val < Len(Elements[cursor.type])
           /\ Len(Elements[cursor.type]) \in Nat
           /\ node.sub[1].type = Elements[cursor.type][node.val + 1]
           /\ Kind[node.type] = "variant" /\ cursor.type = node.type
<1> DEFINE t == cursor.type
           o == cursor.offset
<1>1. /\ node.sub \in Seq(Source) /\ SubsHaveTypes(node) /\ t = node.type /\ t \in Type
      /\ Encoded(node, o, R) /\ Kind[node.type] = "variant" /\ o \in Nat /\ node.val \in Nat
  BY HereFacts
<1>2. VariantEncoded(node, o, R)
  BY <1>1 DEF Encoded
<1>3. PICK at \in Nat : /\ Holds(o, node.val, IndexWidth) /\ Holds(o + IndexWidth, at, OffsetWidth)
                        /\ at <= MaxDataOffset /\ <<node.sub[1], at>> \in R
  BY <1>2 DEF VariantEncoded
<1>4. Len(node.sub) \in Nat /\ Len(node.sub) # 0
  BY <1>1, <1>2 DEF VariantEncoded
<1>5. Len(node.sub) > 0
  BY <1>4
<1>6. /\ node.val < Len(Elements[t]) /\ node.sub[1].type = Elements[t][node.val + 1]
  BY <1>1, <1>5 DEF SubsHaveTypes
<1>7. Len(Elements[t]) \in Nat /\ Fits(Len(Elements[t]), IndexWidth)
  BY <1>1, TypesAssumption
<1>8. Fits(node.val, IndexWidth)
  <2>1. PICK v, n \in Nat : v = node.val /\ n = Len(Elements[t])
    BY <1>1, <1>7
  <2>2. v <= n /\ Fits(n, IndexWidth) /\ IndexWidth \in {1, 2, 4, 8}
    BY <1>6, <1>7, <2>1 DEF IndexWidth
  <2>3. Fits(v, IndexWidth)
    BY <2>2, FitsBelow
  <2> QED
    BY <2>1, <2>3
<1>9. Readable(o + 0, node.val, IndexWidth)
  <2>1. o + 0 = o
    BY <1>1
  <2> QED
    BY <1>1, <1>3, <1>8, <2>1 DEF Readable, IndexWidth
<1>10. Readable(o + IndexWidth, at, OffsetWidth)
  <2>1. o + IndexWidth \in Nat
    BY <1>1 DEF IndexWidth
  <2> QED
    BY <1>3, <2>1, OffsetReadable
<1>11. ~Reading!Missing(0, IndexWidth) /\ Reading!Number(0, IndexWidth) = node.val
  BY <1>9, FieldReads
<1>12. ~Reading!Missing(IndexWidth, OffsetWidth) /\ Reading!Number(IndexWidth, OffsetWidth) = at
  BY <1>10, FieldReads
<1> QED
  BY <1>1, <1>3, <1>6, <1>7, <1>11, <1>12

\* index() of a variant.
LEMMA VariantIndexPlaced ==
    ASSUME ViewInv, MessageReceived, NEW R, Placed(R), path \in Seq(Int), AtPlace(R),
           Reading!VariantIndex, node' = Reached(node)
    PROVE  GoesOn(R)
<1>1. /\ ~Reading!Missing(0, IndexWidth) /\ Reading!Number(0, IndexWidth) = node.val
      /\ Kind[node.type] = "variant" /\ status = "reading"
  BY VariantHere DEF Reading!VariantIndex, Reading!Holding
<1>2. /\ call' = "index" /\ result' = node.val
      /\ UNCHANGED <<buffer, asserts, status, cursor, path>>
  BY <1>1, SameOperators DEF Reading!VariantIndex, Reading!Return
<1>3. AtPlace(R)'
  BY <1>1, <1>2, Stays
<1> QED
  BY <1>1, <1>2, <1>3 DEF GoesOn

\* _get<Index>() of the alternative that is there.
LEMMA GetAlternativePlaced ==
    ASSUME ViewInv, MessageReceived, NEW R, Placed(R), path \in Seq(Int), AtPlace(R),
           Reading!Holding("variant"), Elements[cursor.type] # <<>>,
           NEW c \in {"get", "visit"}, NEW e, Reading!GetAlternative(c, node.val, e),
           node' = Reached(node)
    PROVE  GoesOn(R)
<1> DEFINE t == Elements[cursor.type][node.val + 1]
           at == Reading!Number(IndexWidth, OffsetWidth)
<1>1. /\ ~Reading!Missing(IndexWidth, OffsetWidth) /\ <<node.sub[1], at>> \in R
      /\ t = node.sub[1].type
  BY VariantHere
<1>2. Reading!MoveTo(c, t, at, <<1>>, e)
  BY <1>1, SameOperators DEF Reading!GetAlternative
<1>3. c \notin {"index", "size", "has_value"} /\ 1 \in Int
  OBVIOUS
<1> HIDE DEF t, at
<1> QED
  BY <1>1, <1>2, <1>3, Descends

\* get() and visit() of a variant.
LEMMA VariantGetPlaced ==
    ASSUME ViewInv, MessageReceived, NEW R, Placed(R), path \in Seq(Int), AtPlace(R),
           Reading!VariantGet, node' = Reached(node)
    PROVE  GoesOn(R)
<1>1. Reading!Holding("variant")
  BY DEF Reading!VariantGet
<1>2. PICK index \in 0 .. Len(Elements[cursor.type]) - 1 :
         IF Reading!Missing(0, IndexWidth) THEN Reading!Fail("fixed_data", "buffer_bounds_error")
         ELSE IF Reading!Number(0, IndexWidth) # index
              THEN Reading!Fail("get", "bad_variant_access")
         ELSE Reading!GetAlternative("get", index, "buffer_bounds_error")
  BY SameOperators DEF Reading!VariantGet
<1>3. cursor.type \in Type /\ Elements[cursor.type] \in Seq(Type)
  BY <1>1, HereFacts, TypesAssumption
<1>4. Elements[cursor.type] # <<>>
  BY <1>2, <1>3
<1>5. /\ ~Reading!Missing(0, IndexWidth) /\ Reading!Number(0, IndexWidth) = node.val
      /\ node.val \in Nat /\ node.val < Len(Elements[cursor.type])
      /\ Len(Elements[cursor.type]) \in Nat
      /\ Kind[node.type] = "variant" /\ cursor.type = node.type
  BY <1>1, <1>4, VariantHere
<1>6. CASE node.val = index
  <2>1. Reading!GetAlternative("get", node.val, "buffer_bounds_error")
    BY <1>2, <1>5, <1>6
  <2> QED
    BY <1>1, <1>4, <2>1, GetAlternativePlaced
<1>7. CASE node.val # index
  <2>1. Reading!Fail("get", "bad_variant_access")
    BY <1>2, <1>5, <1>7
  <2>2. /\ call' = "get" /\ status' = "bad_variant_access" /\ buffer' = buffer
        /\ UNCHANGED <<path, cursor>>
    BY <2>1 DEF Reading!Fail
  <2>3. Len(Elements[node.type]) > 1
    <3>1. PICK n \in Nat, v \in Nat : n = Len(Elements[cursor.type]) /\ v = node.val
      BY <1>5
    <3>2. v < n /\ index \in 0 .. n - 1 /\ v # index
      BY <1>5, <1>7, <3>1
    <3>3. n > 1
      BY <3>2
    <3> QED
      BY <1>5, <3>1, <3>3
  <2>4. AtPlace(R)'
    BY <1>5, <2>2, <2>3, Stays
  <2> QED
    BY <2>2, <2>4 DEF GoesOn
<1> QED
  BY <1>6, <1>7

LEMMA VariantVisitPlaced ==
    ASSUME ViewInv, MessageReceived, NEW R, Placed(R), path \in Seq(Int), AtPlace(R),
           Reading!VariantVisit, node' = Reached(node)
    PROVE  GoesOn(R)
<1>1. Reading!Holding("variant") /\ Len(Elements[cursor.type]) > 0
  BY DEF Reading!VariantVisit
<1>2. cursor.type \in Type /\ Elements[cursor.type] \in Seq(Type)
  BY <1>1, HereFacts, TypesAssumption
<1>3. Elements[cursor.type] # <<>>
  BY <1>1, <1>2
<1>4. /\ ~Reading!Missing(0, IndexWidth) /\ Reading!Number(0, IndexWidth) = node.val
      /\ node.val \in Nat /\ node.val < Len(Elements[cursor.type])
      /\ Len(Elements[cursor.type]) \in Nat
  BY <1>1, <1>3, VariantHere
<1>5. ~(node.val >= Len(Elements[cursor.type]))
  BY <1>4
<1>6. PICK e : Reading!GetAlternative("visit", node.val, e)
  BY <1>4, <1>5, SameOperators DEF Reading!VariantVisit
<1> QED
  BY <1>1, <1>3, <1>6, GetAlternativePlaced

LEMMA VariantVisitNonePlaced ==
    ASSUME ViewInv, MessageReceived, NEW R, Placed(R), path \in Seq(Int), AtPlace(R),
           Reading!VariantVisitNone, node' = Reached(node)
    PROVE  GoesOn(R)
<1>1. Kind[node.type] = "variant" /\ status = "reading"
  BY HereFacts DEF Reading!VariantVisitNone
<1>2. call' = "visit" /\ UNCHANGED <<buffer, asserts, status, cursor, path>>
  BY DEF Reading!VariantVisitNone, Reading!Return
<1>3. AtPlace(R)'
  BY <1>1, <1>2, Stays
<1> QED
  BY <1>1, <1>2, <1>3 DEF GoesOn
\* The size of a dynamic_array.
LEMMA ArraySizeHere ==
    ASSUME ViewInv, MessageReceived, NEW R, Placed(R), AtPlace(R),
           Reading!Holding("dynamic_array")
    PROVE  /\ ~Reading!Missing(0, SizeWidth) /\ Reading!Number(0, SizeWidth) = Len(node.sub)
           /\ ArrayEncoded(node, cursor.offset, R)
           /\ cursor.offset \in Nat /\ node.sub \in Seq(Source) /\ SubsHaveTypes(node)
           /\ Kind[node.type] = "dynamic_array" /\ cursor.type = node.type /\ status = "reading"
<1> DEFINE o == cursor.offset
<1>1. /\ node.sub \in Seq(Source) /\ SubsHaveTypes(node) /\ cursor.type = node.type
      /\ Encoded(node, o, R) /\ Kind[node.type] = "dynamic_array" /\ o \in Nat
      /\ status = "reading"
  BY HereFacts
<1>2. ArrayEncoded(node, o, R)
  BY <1>1 DEF Encoded
<1>3. Fits(Len(node.sub), SizeWidth)
  <2>1. PICK v \in Nat : v = Len(node.sub)
    BY <1>1
  <2>2. v <= MaxArraySize /\ MaxArraySize \in Nat /\ Fits(MaxArraySize, SizeWidth)
        /\ SizeWidth \in {1, 2, 4, 8}
    BY <1>2, <2>1, LimitAssumption DEF ArrayEncoded, SizeWidth
  <2>3. Fits(v, SizeWidth)
    BY <2>2, FitsBelow
  <2> QED
    BY <2>1, <2>3
<1>4. Readable(o + 0, Len(node.sub), SizeWidth)
  <2>1. o + 0 = o /\ Len(node.sub) \in Nat
    BY <1>1
  <2> QED
    BY <1>1, <1>2, <1>3, <2>1 DEF Readable, ArrayEncoded, SizeWidth
<1>5. ~Reading!Missing(0, SizeWidth) /\ Reading!Number(0, SizeWidth) = Len(node.sub)
  BY <1>4, FieldReads
<1> QED
  BY <1>1, <1>2, <1>5

\* size() and at() of a dynamic_array.
LEMMA DynamicArraySizePlaced ==
    ASSUME ViewInv, MessageReceived, NEW R, Placed(R), path \in Seq(Int), AtPlace(R),
           Reading!DynamicArraySize, node' = Reached(node)
    PROVE  GoesOn(R)
<1>1. /\ ~Reading!Missing(0, SizeWidth) /\ Reading!Number(0, SizeWidth) = Len(node.sub)
      /\ Kind[node.type] = "dynamic_array" /\ status = "reading"
  BY ArraySizeHere DEF Reading!DynamicArraySize
<1>2. /\ call' = "size" /\ result' = Len(node.sub)
      /\ UNCHANGED <<buffer, asserts, status, cursor, path>>
  BY <1>1, SameOperators DEF Reading!DynamicArraySize, Reading!Return
<1>3. AtPlace(R)'
  BY <1>1, <1>2, Stays
<1> QED
  BY <1>1, <1>2, <1>3 DEF GoesOn

LEMMA DynamicArrayAtPlaced ==
    ASSUME ViewInv, MessageReceived, NEW R, Placed(R), path \in Seq(Int), AtPlace(R),
           NEW index \in Nat, Reading!DynamicArrayAt(index), node' = Reached(node)
    PROVE  GoesOn(R)
<1> DEFINE element == Elements[cursor.type][1]
<1>1. Reading!Holding("dynamic_array")
  BY DEF Reading!DynamicArrayAt
<1>2. /\ ~Reading!Missing(0, SizeWidth) /\ Reading!Number(0, SizeWidth) = Len(node.sub)
      /\ ArrayEncoded(node, cursor.offset, R)
      /\ cursor.offset \in Nat /\ node.sub \in Seq(Source) /\ SubsHaveTypes(node)
      /\ Kind[node.type] = "dynamic_array" /\ cursor.type = node.type
  BY <1>1, ArraySizeHere
<1>3. CASE index >= Len(node.sub)
  <2>1. /\ call' = "at" /\ status' = "out_of_range" /\ buffer' = buffer
        /\ UNCHANGED <<path, cursor>>
    BY <1>2, <1>3, SameOperators DEF Reading!DynamicArrayAt, Reading!Fail
  <2>2. AtPlace(R)'
    BY <1>2, <2>1, Stays
  <2> QED
    BY <2>1, <2>2 DEF GoesOn
<1>4. CASE ~(index >= Len(node.sub))
  <2>1. node.sub # <<>> /\ Len(node.sub) \in Nat
    BY <1>2, <1>4
  <2>2. PICK at \in Nat : /\ Holds(cursor.offset + SizeWidth, at, OffsetWidth)
                          /\ at <= MaxDataOffset /\ Items(node, at) \subseteq R
    BY <1>2, <2>1 DEF ArrayEncoded
  <2>3. ~Reading!Missing(SizeWidth, OffsetWidth) /\ Reading!Number(SizeWidth, OffsetWidth) = at
    <3>1. cursor.offset + SizeWidth \in Nat
      BY <1>2 DEF SizeWidth
    <3>2. Readable(cursor.offset + SizeWidth, at, OffsetWidth)
      BY <2>2, <3>1, OffsetReadable
    <3> QED
      BY <3>2, FieldReads
  <2> DEFINE i == index + 1
             x == at + FixedSize[element] * index
  <2>4. i \in 1 .. Len(node.sub) /\ i - 1 = index /\ i \in Int
    BY <1>4, <2>1
  <2>5. <<node.sub[i], x>> \in R
    <3>1. x = at + FixedSize[Elements[node.type][1]] * (i - 1)
      BY <1>2, <2>4
    <3> HIDE DEF x, i
    <3> QED
      BY <2>2, <2>4, <3>1 DEF Items
  <2>6. node.sub[i].type = element
    <3> HIDE DEF i
    <3> QED
      BY <1>2, <2>4 DEF SubsHaveTypes
  <2>7. x % AddressSpace = x
    <3> HIDE DEF x, i
    <3>1. /\ x \in Nat /\ x + FixedSize[node.sub[i].type] <= used
          /\ FixedSize[node.sub[i].type] \in Nat
      BY <2>5, PlaceFacts DEF MessageReceived
    <3>2. used \in Nat /\ used < AddressSpace /\ AddressSpace \in Nat \ {0}
      BY ReadingAssumption DEF ViewInv, TypeOK, MessageReceived
    <3>3. \A a \in Nat, f \in Nat, u \in Nat, m \in Nat \ {0} :
             a + f <= u /\ u < m => a % m = a
      OBVIOUS
    <3> QED
      BY <3>1, <3>2, <3>3
  <2>8. Reading!MoveTo("at", element, x % AddressSpace, <<i>>, "buffer_bounds_error")
    BY <1>2, <1>4, <2>3, SameOperators DEF Reading!DynamicArrayAt
  <2>9. "at" \notin {"index", "size", "has_value"}
    OBVIOUS
  <2> HIDE DEF x, i, element
  <2> QED
    BY <2>4, <2>5, <2>6, <2>7, <2>8, <2>9, Descends
<1> QED
  BY <1>3, <1>4

-----------------------------------------------------------------------------
\* The whole of it.

\* Every call of a reader that has the message goes on to a place.
LEMMA ReadPlaced ==
    ASSUME ViewInv, NEW R, Placed(R), ReadingPlaced(R), delivery \in {"intact", "padded"},
           Reading!Read, node' = Reached(node), UNCHANGED <<vars, delivery>>
    PROVE  ReadingPlaced(R)'
<1>1. MessageReceived /\ path \in Seq(Int)
  BY DEF ReadingPlaced
<1>2. GoesOn(R)
  <2>1. CASE Reading!Open
    <3>1. status = "closed"
      BY <2>1 DEF Reading!Open
    <3> QED
      BY <1>1, <2>1, <3>1, OpenPlaced DEF ReadingPlaced
  <2>2. CASE ~Reading!Open
    <3>1. status = "reading"
      BY <2>2 DEF Reading!Read, Reading!PairGet, Reading!TupleGet, Reading!RecordGet,
         Reading!GetElement, Reading!RecordToBase, Reading!OptionalHasValue,
         Reading!OptionalValue, Reading!VariantIndex, Reading!VariantGet, Reading!VariantVisit,
         Reading!VariantVisitNone, Reading!DynamicArraySize, Reading!StaticArrayAt,
         Reading!DynamicArrayAt, Reading!Holding
    <3>2. AtPlace(R)
      BY <3>1 DEF ReadingPlaced
    <3>3. CASE Reading!PairGet \/ Reading!TupleGet \/ Reading!RecordGet
      BY <1>1, <3>2, <3>3, GetElementPlaced
         DEF Reading!PairGet, Reading!TupleGet, Reading!RecordGet
    <3>4. CASE Reading!RecordToBase
      BY <1>1, <3>2, <3>4, RecordToBasePlaced
    <3>5. CASE Reading!OptionalHasValue \/ Reading!OptionalValue
      BY <1>1, <3>2, <3>5, OptionalHasValuePlaced, OptionalValuePlaced
    <3>6. CASE \/ Reading!VariantIndex \/ Reading!VariantGet \/ Reading!VariantVisit
               \/ Reading!VariantVisitNone
      BY <1>1, <3>2, <3>6, VariantIndexPlaced, VariantGetPlaced, VariantVisitPlaced,
         VariantVisitNonePlaced
    <3>7. CASE Reading!DynamicArraySize
      BY <1>1, <3>2, <3>7, DynamicArraySizePlaced
    <3>8. ASSUME NEW index \in 0 .. MaxIndex,
                 Reading!StaticArrayAt(index) \/ Reading!DynamicArrayAt(index)
          PROVE  GoesOn(R)
      <4>1. index \in Nat
        OBVIOUS
      <4> QED
        BY <1>1, <3>2, <3>8, <4>1, StaticArrayAtPlaced, DynamicArrayAtPlaced
    <3> QED
      BY <2>2, <3>3, <3>4, <3>5, <3>6, <3>7, <3>8 DEF Reading!Read
  <2> QED
    BY <2>1, <2>2
<1>3. MessageReceived'
  BY <1>1, <1>2 DEF MessageReceived, GoesOn, vars
<1> QED
  BY <1>2, <1>3 DEF ReadingPlaced, GoesOn

\* A complete message is received as it was written.
LEMMA DeliverPlaced ==
    ASSUME ViewInv, NEW R, Placed(R), ReadingPlaced(R),
           NEW how \in {"intact", "padded", "cut"}, NEW size \in Nat, Deliver(how, size),
           how \in {"intact", "padded"} => used <= size
    PROVE  ReadingPlaced(R)'
<1>1. PICK t \in {root.type} \cup Bases[root.type] : Reading!Receive(Received(t, size))
  BY DEF Deliver
<1>2. /\ status' = "closed" /\ buffer' = Received(t, size) /\ UNCHANGED path
      /\ phase = "done" /\ delivery = "none" /\ delivery' = how /\ node' = root
      /\ size < AddressSpace /\ UNCHANGED vars
  BY <1>1 DEF Deliver, Reading!Receive
<1>3. buffer'.size = size /\ buffer'.type = t
      /\ \A x \in 0 .. size - 1 : x < used => buffer'.bytes[x] = mem[x]
  BY <1>2 DEF Received
<1>4. used \in Nat /\ path = <<>> /\ how # "none"
  BY <1>2 DEF ViewInv, TypeOK, ReadingPlaced, Deliver
<1> QED
  BY <1>1, <1>2, <1>3, <1>4 DEF ReadingPlaced, MessageReceived, vars
TransferInv ==
    /\ ViewInv
    /\ SectionsPartitionUnwritten
    /\ \E R : Placed(R) /\ ReadingPlaced(R)

LEMMA TransferStep == [TransferNext]_transferVars => [Next]_vars
<1> SUFFICES ASSUME TransferNext PROVE [Next]_vars
  BY DEF transferVars
<1> QED
  BY DEF TransferNext, Deliver

LEMMA PlacesKept ==
    ASSUME TransferInv, [TransferNext]_transferVars
    PROVE  \E R : Placed(R)' /\ ReadingPlaced(R)'
<1>1. PICK R : Placed(R) /\ ReadingPlaced(R)
  BY DEF TransferInv
<1>2. ViewInv /\ SectionsPartitionUnwritten /\ used \in Nat
  BY DEF TransferInv, ViewInv, TypeOK
<1>3. CASE delivery = "none" /\ Next /\ UNCHANGED <<readingVars, delivery, node>>
  <2>1. PICK S : Placed(S)'
    BY <1>1, <1>2, <1>3, NextPlaced
  <2>2. ReadingPlaced(S)'
    BY <1>1, <1>3 DEF ReadingPlaced, readingVars
  <2> QED
    BY <2>1, <2>2
<1>4. ASSUME NEW how \in {"intact", "padded", "cut"}, NEW size \in Nat, Deliver(how, size),
             how \in {"intact", "padded"} => used <= size
      PROVE  \E S : Placed(S)' /\ ReadingPlaced(S)'
  <2>1. ReadingPlaced(R)'
    BY <1>1, <1>2, <1>4, DeliverPlaced
  <2>2. UNCHANGED vars
    BY <1>4 DEF Deliver
  <2>3. Placed(R)'
    BY <1>1, <1>2, <2>2, IdlePlaced
  <2> QED
    BY <2>1, <2>3
<1>5. CASE Deliver("intact", used)
  BY <1>2, <1>4, <1>5
<1>6. CASE Deliver("padded", used + 1)
  <2>1. used + 1 \in Nat /\ used <= used + 1
    BY <1>2
  <2> QED
    BY <1>4, <1>6, <2>1
<1>7. CASE \E size \in 0 .. used - 1 : Deliver("cut", size)
  BY <1>2, <1>4, <1>7
<1>8. CASE delivery # "none" /\ Reading!Read /\ node' = Reached(node) /\ UNCHANGED <<vars, delivery>>
  <2>1. Placed(R)'
    BY <1>1, <1>2, <1>8, IdlePlaced
  <2>2. ReadingPlaced(R)'
    <3>1. CASE delivery \in {"intact", "padded"}
      BY <1>1, <1>2, <1>8, <3>1, ReadPlaced
    <3>2. CASE delivery \notin {"intact", "padded"}
      BY <1>8, <3>2 DEF ReadingPlaced
    <3> QED
      BY <3>1, <3>2
  <2> QED
    BY <2>1, <2>2
<1>9. CASE UNCHANGED transferVars
  <2>1. Placed(R)'
    BY <1>1, <1>2, <1>9, IdlePlaced DEF transferVars
  <2>2. ReadingPlaced(R)'
    BY <1>1, <1>9 DEF transferVars, readingVars, vars, ReadingPlaced, MessageReceived, AtPlace,
                      ReturnedFrom
  <2> QED
    BY <2>1, <2>2
<1> QED
  BY <1>3, <1>5, <1>6, <1>7, <1>8, <1>9 DEF TransferNext

\* For every table of types and every source: a complete message that
\* serialise() has returned reads, whatever accessors of the deserialisers of
\* pair.hpp, tuple.hpp, static_array.hpp, record.hpp, optional.hpp, variant.hpp and
\* dynamic_array.hpp are called in whatever order, as the source it was written
\* from.
THEOREM MessagesReadAsWritten == TransferSpec => []ReadsAsWritten
<1>1. TransferInit => \E R : Placed(R) /\ ReadingPlaced(R)
  <2> SUFFICES ASSUME TransferInit PROVE Placed({}) /\ ReadingPlaced({})
    OBVIOUS
  <2>1. stack = <<>> /\ phase = "idle"
    BY DEF TransferInit, Init
  <2>2. Placed({})
    BY <2>1 DEF Placed, PlacesWithin
  <2>3. ReadingPlaced({})
    BY DEF TransferInit, Reading!Init, ReadingPlaced
  <2> QED
    BY <2>2, <2>3
<1>2. TransferInit => Init
  BY DEF TransferInit
<1>3. TransferSpec => []ViewInv
  BY <1>2, TransferStep, ViewInvHolds, PTL DEF TransferSpec, Spec
<1>4. TransferSpec => []SectionsPartitionUnwritten
  BY <1>2, TransferStep, UnwrittenBytesPartitioned, PTL DEF TransferSpec, Spec
<1> DEFINE Reads == \E R : Placed(R) /\ ReadingPlaced(R)
<1>5. ViewInv /\ SectionsPartitionUnwritten /\ Reads /\ [TransferNext]_transferVars => Reads'
  BY PlacesKept DEF TransferInv
<1>6. Reads => ReadsAsWritten
  <2> SUFFICES ASSUME NEW R, ReadingPlaced(R), delivery \in {"intact", "padded"}, Reading!Opened
               PROVE  AtPlace(R)
    BY DEF ReadsAsWritten, AtPlace
  <2>1. status # "closed"
    BY DEF Reading!Opened
  <2> QED
    BY <2>1 DEF ReadingPlaced
<1> HIDE DEF Reads
<1>7. TransferInit => Reads
  BY <1>1 DEF Reads
<1> QED
  BY <1>3, <1>4, <1>5, <1>6, <1>7, PTL DEF TransferSpec

-----------------------------------------------------------------------------
\* Deserialisers: the recursion over the parts of a type.

\* A buffer whose bytes are all there.
IsBuffer(m) == \E n \in Nat : m \in [0 .. n - 1 -> Nat]

\* g and h read the parts of t alike.
Agree(g, h, t) == \A i \in 1 .. Len(Elements[t]) : g[Elements[t][i]] = h[Elements[t][i]]

LEMMA BufferSize ==
    ASSUME NEW n \in Nat, NEW m, m \in [0 .. n - 1 -> Nat]
    PROVE  Size(m) = n
<1>1. DOMAIN m = 0 .. n - 1
  OBVIOUS
<1>2. 0 \in Int /\ n - 1 \in Int
  OBVIOUS
<1>3. Cardinality(0 .. n - 1) = IF 0 > n - 1 THEN 0 ELSE n - 1 - 0 + 1
  BY <1>2, FS_Interval
<1> QED
  BY <1>1, <1>3 DEF Size

LEMMA NumberThere ==
    ASSUME NEW m, IsBuffer(m), NEW o \in Nat, NEW w \in {1, 2, 4, 8}, ~TooSmallFor(w, Size(m), o)
    PROVE  UnsignedValue(m, o, w) \in Nat
<1>1. PICK n \in Nat : m \in [0 .. n - 1 -> Nat]
  BY DEF IsBuffer
<1>2. o + w <= n
  <2>1. PICK size : size = Size(m)
    OBVIOUS
  <2>2. size = n /\ ~(o > size \/ size - o < w)
    BY <1>1, <2>1, BufferSize DEF TooSmallFor
  <2> QED
    BY <2>2
<1>3. \A k \in 1 .. w : m[o + k - 1] \in Nat
  <2>1. \A k \in 1 .. w : o + k - 1 \in 0 .. n - 1
    BY <1>2
  <2> QED
    BY <1>1, <2>1
<1> QED
  BY <1>3, BytesMakeNumber

LEMMA ElementsAgree ==
    ASSUME NEW t \in Type, Kind[t] \in Contiguous, NEW g, NEW h, Agree(g, h, t), NEW o
    PROVE  DeserialiseElements(g, t, o) = DeserialiseElements(h, t, o)
BY DEF DeserialiseElements, Agree

LEMMA OptionalAgrees ==
    ASSUME NEW t \in Type, Kind[t] = "optional", NEW g, NEW h, Agree(g, h, t), NEW m, NEW o
    PROVE  DeserialiseOptional(g, t, m, o) = DeserialiseOptional(h, t, m, o)
<1>1. g[Elements[t][1]] = h[Elements[t][1]]
  BY TypesAssumption DEF Agree
<1> QED
  BY <1>1 DEF DeserialiseOptional

LEMMA ArrayAgrees ==
    ASSUME NEW t \in Type, Kind[t] = "dynamic_array", NEW g, NEW h, Agree(g, h, t), NEW m, NEW o
    PROVE  DeserialiseDynamicArray(g, t, m, o) = DeserialiseDynamicArray(h, t, m, o)
<1>1. g[Elements[t][1]] = h[Elements[t][1]]
  BY TypesAssumption DEF Agree
<1> QED
  BY <1>1 DEF DeserialiseDynamicArray

LEMMA VariantAgrees ==
    ASSUME NEW t \in Type, Kind[t] = "variant", NEW g, NEW h, Agree(g, h, t),
           NEW m, IsBuffer(m), NEW o \in Nat, ~TooSmallFor(FixedSize[t], Size(m), o)
    PROVE  DeserialiseVariant(g, t, m, o) = DeserialiseVariant(h, t, m, o)
<1> DEFINE n == Len(Elements[t])
           index == UnsignedValue(m, o, IndexWidth)
           i == IF index < n THEN index + 1 ELSE n
<1>1. n \in Nat /\ (n = 0 \/ n > 0)
  BY TypesAssumption
<1>2. index \in Nat
  <2>1. FixedSize[t] = IndexWidth + OffsetWidth /\ IndexWidth \in {1, 2, 4, 8}
    BY TypesAssumption DEF HasFixedDataSize, IndexWidth
  <2>2. PICK k \in Nat : k = Size(m)
    BY BufferSize DEF IsBuffer
  <2>3. ~TooSmallFor(IndexWidth, Size(m), o)
    BY <2>1, <2>2 DEF TooSmallFor, IndexWidth, OffsetWidth
  <2> QED
    BY <2>1, <2>3, NumberThere
<1>3. n > 0 => i \in 1 .. n
  <2> HIDE DEF n, index
  <2> QED
    BY <1>1, <1>2
<1>4. n > 0 => g[Elements[t][i]] = h[Elements[t][i]]
  <2> HIDE DEF i
  <2> QED
    BY <1>3 DEF Agree
<1> QED
  BY <1>1, <1>4 DEF DeserialiseVariant

\* What is read of t depends on the deserialisers of its parts only.
LEMMA DeserialisersAgree ==
    ASSUME NEW t \in Type, NEW g, NEW h, Agree(g, h, t), NEW m, IsBuffer(m), NEW o \in Nat
    PROVE  DeserialiseWith(g, t, m, o) = DeserialiseWith(h, t, m, o)
<1>1. CASE TooSmallFor(FixedSize[t], Size(m), o)
  BY <1>1 DEF DeserialiseWith
<1>2. CASE ~TooSmallFor(FixedSize[t], Size(m), o)
  <2>1. Kind[t] \in Contiguous => DeserialiseElements(g, t, o) = DeserialiseElements(h, t, o)
    BY ElementsAgree
  <2>2. Kind[t] = "optional" => DeserialiseOptional(g, t, m, o) = DeserialiseOptional(h, t, m, o)
    BY OptionalAgrees
  <2>3. Kind[t] = "variant" => DeserialiseVariant(g, t, m, o) = DeserialiseVariant(h, t, m, o)
    BY <1>2, VariantAgrees
  <2>4. Kind[t] = "dynamic_array" =>
           DeserialiseDynamicArray(g, t, m, o) = DeserialiseDynamicArray(h, t, m, o)
    BY ArrayAgrees
  <2>5. Kind[t] \in Kinds
    BY TypesAssumption
  <2> QED
    BY <1>2, <2>1, <2>2, <2>3, <2>4, <2>5 DEF DeserialiseWith, Kinds, Contiguous
<1> QED
  BY <1>1, <1>2

\* g has the deserialisers of the types that are less deep than k.
Deserialises(g, m, k) ==
    \A t \in Type : Depth[t] < k => g[t] = [o \in Nat |-> DeserialiseWith(g, t, m, o)]

\* The parts of a type are less deep than it.
LEMMA PartsLessDeep ==
    ASSUME NEW t \in Type, NEW i \in 1 .. Len(Elements[t])
    PROVE  /\ Elements[t][i] \in Type
           /\ Depth[t] \in Nat /\ Depth[Elements[t][i]] \in Nat
           /\ Depth[Elements[t][i]] < Depth[t]
<1>1. Elements[t] \in Seq(Type)
  BY TypesAssumption
<1>2. Elements[t][i] \in Type
  BY <1>1, ElementOfSeq
<1> QED
  BY <1>2, DepthAssumption

LEMMA DeserialisersExist ==
    ASSUME NEW m, IsBuffer(m), NEW k \in Nat
    PROVE  \E g : Deserialises(g, m, k)
<1> DEFINE S == {j \in Nat : \E g : Deserialises(g, m, j)}
<1>1. 0 \in S
  <2>1. ASSUME NEW t \in Type
        PROVE  ~(Depth[t] < 0)
    <3>1. Depth[t] \in Nat
      BY DepthAssumption
    <3> QED
      BY <3>1
  <2> QED
    BY <2>1 DEF Deserialises
<1>2. ASSUME NEW j \in Nat, j \in S
      PROVE  j + 1 \in S
  <2>1. PICK g : Deserialises(g, m, j)
    BY <1>2
  <2> DEFINE h == [t \in Type |-> IF Depth[t] < j THEN g[t]
                                  ELSE [o \in Nat |-> DeserialiseWith(g, t, m, o)]]
  <2>2. \A t \in Type : Depth[t] < j + 1 => h[t] = [o \in Nat |-> DeserialiseWith(g, t, m, o)]
    BY <2>1 DEF Deserialises
  <2>3. \A t \in Type : Depth[t] < j => h[t] = g[t]
    OBVIOUS
  <2> HIDE DEF h
  <2>4. ASSUME NEW t \in Type, Depth[t] < j + 1
        PROVE  h[t] = [o \in Nat |-> DeserialiseWith(h, t, m, o)]
    <3>1. Agree(g, h, t)
      <4> SUFFICES ASSUME NEW i \in 1 .. Len(Elements[t])
                   PROVE  g[Elements[t][i]] = h[Elements[t][i]]
        BY DEF Agree
      <4>1. Elements[t][i] \in Type /\ Depth[Elements[t][i]] < j
        BY <2>4, PartsLessDeep
      <4> QED
        BY <2>3, <4>1
    <3>2. \A o \in Nat : DeserialiseWith(g, t, m, o) = DeserialiseWith(h, t, m, o)
      BY <3>1, DeserialisersAgree
    <3> QED
      BY <2>2, <2>4, <3>2
  <2>5. Deserialises(h, m, j + 1)
    BY <2>4 DEF Deserialises
  <2> QED
    BY <2>5
<1> HIDE DEF S
<1>3. k \in S
  BY <1>1, <1>2, NumberInduction
<1> QED
  BY <1>3 DEF S

LEMMA DeserialisersUnique ==
    ASSUME NEW m, IsBuffer(m), NEW k \in Nat, NEW g, Deserialises(g, m, k),
           NEW h, Deserialises(h, m, k), NEW u \in Type, Depth[u] < k
    PROVE  g[u] = h[u]
<1> DEFINE S == {j \in Nat : \A t \in Type : Depth[t] < j /\ Depth[t] < k => g[t] = h[t]}
<1>1. 0 \in S
  BY DepthAssumption
<1>2. ASSUME NEW j \in Nat, j \in S
      PROVE  j + 1 \in S
  <2> SUFFICES ASSUME NEW t \in Type, Depth[t] < j + 1, Depth[t] < k
               PROVE  g[t] = h[t]
    OBVIOUS
  <2>1. Agree(g, h, t)
    <3> SUFFICES ASSUME NEW i \in 1 .. Len(Elements[t])
                 PROVE  g[Elements[t][i]] = h[Elements[t][i]]
      BY DEF Agree
    <3>1. Elements[t][i] \in Type /\ Depth[Elements[t][i]] < j /\ Depth[Elements[t][i]] < k
      BY PartsLessDeep
    <3> QED
      BY <1>2, <3>1
  <2>2. \A o \in Nat : DeserialiseWith(g, t, m, o) = DeserialiseWith(h, t, m, o)
    BY <2>1, DeserialisersAgree
  <2> QED
    BY <2>2 DEF Deserialises
<1> HIDE DEF S
<1>3. k \in S
  BY <1>1, <1>2, NumberInduction
<1> QED
  BY <1>3 DEF S

\* The recursion of the deserialisers is well-founded: reading t at an offset
\* is reading its parts as the same function does.
LEMMA DeserialisersDefined ==
    ASSUME NEW m, IsBuffer(m), NEW t \in Type, NEW o \in Nat
    PROVE  Deserialise(t, m, o) = DeserialiseWith(Deserialisers(m), t, m, o)
<1> DEFINE D(g) == [u \in Type |-> [x \in Nat |-> DeserialiseWith(g, u, m, x)]]
           reader(u) == CHOOSE g : Deserialises(g, m, Depth[u] + 1)
           F == [u \in Type |-> reader(u)[u]]
<1>1. ASSUME NEW u \in Type
      PROVE  /\ Depth[u] \in Nat /\ Depth[u] + 1 \in Nat /\ Depth[u] < Depth[u] + 1
             /\ Deserialises(reader(u), m, Depth[u] + 1)
             /\ F[u] = reader(u)[u]
  <2>1. Depth[u] \in Nat /\ Depth[u] + 1 \in Nat /\ Depth[u] < Depth[u] + 1
    BY DepthAssumption
  <2>2. \E g : Deserialises(g, m, Depth[u] + 1)
    BY <2>1, DeserialisersExist
  <2> QED
    BY <2>1, <2>2
<1> HIDE DEF reader, F
<1>2. ASSUME NEW u \in Type
      PROVE  F[u] = [x \in Nat |-> DeserialiseWith(F, u, m, x)]
  <2>1. PICK g : g = reader(u)
    OBVIOUS
  <2>2. F[u] = [x \in Nat |-> DeserialiseWith(g, u, m, x)]
    BY <1>1, <2>1 DEF Deserialises
  <2>3. Agree(g, F, u)
    <3> SUFFICES ASSUME NEW i \in 1 .. Len(Elements[u])
                 PROVE  g[Elements[u][i]] = F[Elements[u][i]]
      BY DEF Agree
    <3>1. PICK e, h : e = Elements[u][i] /\ h = reader(e)
      OBVIOUS
    <3>2. e \in Type /\ Depth[e] \in Nat /\ Depth[e] < Depth[u] /\ Depth[u] \in Nat
      BY <3>1, PartsLessDeep
    <3>3. Deserialises(h, m, Depth[e] + 1) /\ F[e] = h[e] /\ Depth[e] + 1 \in Nat
      BY <1>1, <3>1, <3>2
    <3>4. Deserialises(g, m, Depth[e] + 1)
      <4>1. Deserialises(g, m, Depth[u] + 1)
        BY <1>1, <2>1
      <4>2. \A x \in Type : Depth[x] < Depth[e] + 1 => Depth[x] < Depth[u] + 1
        BY <3>2, DepthAssumption
      <4> QED
        BY <4>1, <4>2 DEF Deserialises
    <3>5. g[e] = h[e]
      BY <3>2, <3>3, <3>4, DeserialisersUnique
    <3> QED
      BY <3>1, <3>3, <3>5
  <2>4. \A x \in Nat : DeserialiseWith(g, u, m, x) = DeserialiseWith(F, u, m, x)
    BY <2>3, DeserialisersAgree
  <2> QED
    BY <2>2, <2>4
<1>3. F = D(F)
  BY <1>2 DEF F
<1>4. Deserialisers(m) = CHOOSE g : g = D(g)
  BY DEF Deserialisers
<1>5. PICK d : d = Deserialisers(m)
  OBVIOUS
<1>6. d = D(d)
  BY <1>3, <1>4, <1>5
<1>7. d[t][o] = DeserialiseWith(d, t, m, o)
  BY <1>6
<1> QED
  BY <1>5, <1>7 DEF Deserialise

-----------------------------------------------------------------------------
\* What deserialise() reads, from a message or from the first bytes of one.

\* The first c bytes of the message.
Prefix(m, c) ==
    /\ c \in Nat /\ c <= used
    /\ m \in [0 .. c - 1 -> Nat] /\ \A x \in 0 .. c - 1 : m[x] = mem[x]

\* The place <<n, o>> of a finished message, its fixed data in the first c bytes.
InPrefix(n, o, R, m, c) ==
    /\ phase = "done" /\ Placed(R) /\ <<n, o>> \in R
    /\ Prefix(m, c) /\ o + FixedSize[n.type] <= c

\* Where part i of n is, according to the fixed data of n.
PartOffset(m, n, o, i) ==
    CASE Kind[n.type] \in Contiguous -> o + ElementOffset[n.type][i]
      [] Kind[n.type] = "optional" -> UnsignedValue(m, o, OffsetWidth) - 1
      [] Kind[n.type] = "variant" -> UnsignedValue(m, o + IndexWidth, OffsetWidth)
      [] Kind[n.type] = "dynamic_array" ->
            UnsignedValue(m, o + SizeWidth, OffsetWidth) + FixedSize[Elements[n.type][1]] * (i - 1)

PartsRead(d, m, n, o) ==
    [i \in 1 .. Len(n.sub) |-> d[n.sub[i].type][PartOffset(m, n, o, i)]]

\* The parts of n are at places.
PartsPlaced(m, n, o, R) == \A i \in 1 .. Len(n.sub) : <<n.sub[i], PartOffset(m, n, o, i)>> \in R

\* A number of the message is read in a prefix that contains it.
LEMMA PrefixReads ==
    ASSUME NEW m, NEW c, Prefix(m, c), NEW o, NEW v, NEW w, Readable(o, v, w), o + w <= c
    PROVE  UnsignedValue(m, o, w) = v
<1>1. o \in Nat /\ v \in Nat /\ w \in {1, 2, 4, 8} /\ Fits(v, w) /\ Stored(mem, o, v, w)
  BY DEF Readable, Holds
<1>2. \A k \in 1 .. w : o + k - 1 \in 0 .. c - 1
  BY <1>1 DEF Prefix
<1>3. Stored(m, o, v, w)
  BY <1>1, <1>2 DEF Prefix, Stored
<1> QED
  BY <1>1, <1>3, StoredReads

\* What is there is read: the elements of contiguous kinds.
LEMMA ElementsRead ==
    ASSUME ViewInv, NEW n, NEW o, NEW R, NEW m, NEW c, InPrefix(n, o, R, m, c),
           Kind[n.type] \in Contiguous, NEW d
    PROVE  /\ DeserialiseElements(d, n.type, o) = Whole(n.type, n.val, PartsRead(d, m, n, o))
           /\ PartsPlaced(m, n, o, R)
<1> DEFINE t == n.type
<1>1. /\ t \in Type /\ n.sub \in Seq(Source) /\ SubsHaveTypes(n) /\ o \in Nat /\ Encoded(n, o, R)
  BY PlaceFacts DEF InPrefix
<1>2. n.val = 0 /\ Len(n.sub) = Len(Elements[t])
  BY <1>1 DEF SubsHaveTypes, Contiguous
<1>3. ASSUME NEW i \in 1 .. Len(n.sub)
      PROVE  /\ n.sub[i].type = Elements[t][i]
             /\ SubobjectOffset(t, i) = ElementOffset[t][i]
             /\ PartOffset(m, n, o, i) = o + ElementOffset[t][i]
             /\ <<n.sub[i], PartOffset(m, n, o, i)>> \in R
  <2>1. n.sub[i].type = Elements[t][i]
    BY <1>1 DEF SubsHaveTypes
  <2>2. SubobjectOffset(t, i) = ElementOffset[t][i]
    <3>1. CASE Kind[t] = "static_array"
      <4>1. ElementOffset[t][i] = (i - 1) * FixedSize[Elements[t][1]]
        BY <1>1, <1>2, <3>1, TypesAssumption DEF IsUniform
      <4>2. FixedSize[Elements[t][1]] \in Nat
        <5>1. 1 \in 1 .. Len(Elements[t])
          BY <1>2
        <5> QED
          BY <1>1, <5>1, PartsLessDeep, TypesAssumption
      <4>3. \A a \in Nat, b \in Int : a * b = b * a
        OBVIOUS
      <4> QED
        BY <3>1, <4>1, <4>2, <4>3 DEF SubobjectOffset
    <3> QED
      BY <3>1 DEF SubobjectOffset
  <2>3. PartOffset(m, n, o, i) = o + ElementOffset[t][i]
    BY DEF PartOffset, Contiguous
  <2>4. <<n.sub[i], o + ElementOffset[t][i]>> \in R
    BY <1>1 DEF Encoded, Parts
  <2> QED
    BY <2>1, <2>2, <2>3, <2>4
<1>4. [i \in 1 .. Len(Elements[t]) |-> d[Elements[t][i]][o + SubobjectOffset(t, i)]]
         = PartsRead(d, m, n, o)
  BY <1>2, <1>3 DEF PartsRead
<1> QED
  BY <1>2, <1>3, <1>4 DEF DeserialiseElements, PartsPlaced

\* The only part of n.
LEMMA OnePart ==
    ASSUME NEW n, n.sub \in Seq(Source), Len(n.sub) = 1, NEW d, NEW m, NEW o, NEW t, NEW x,
           n.sub[1].type = t, PartOffset(m, n, o, 1) = x
    PROVE  PartsRead(d, m, n, o) = <<d[t][x]>>
BY DEF PartsRead

LEMMA NoPart ==
    ASSUME NEW n, n.sub = <<>>, NEW d, NEW m, NEW o
    PROVE  PartsRead(d, m, n, o) = <<>>
<1>1. Len(n.sub) = 0
  BY EmptySeq
<1> QED
  BY <1>1 DEF PartsRead

LEMMA OptionalReads ==
    ASSUME ViewInv, NEW n, NEW o, NEW R, NEW m, NEW c, InPrefix(n, o, R, m, c),
           Kind[n.type] = "optional", NEW d
    PROVE  /\ DeserialiseOptional(d, n.type, m, o) = Whole(n.type, n.val, PartsRead(d, m, n, o))
           /\ PartsPlaced(m, n, o, R)
<1> DEFINE t == n.type
<1>1. /\ t \in Type /\ n.sub \in Seq(Source) /\ SubsHaveTypes(n) /\ o \in Nat
      /\ OptionalEncoded(n, o, R) /\ FixedSize[t] = OffsetWidth
  BY PlaceFacts, TypesAssumption DEF InPrefix, Encoded, HasFixedDataSize
<1>2. n.val = 0 /\ o + OffsetWidth <= c /\ Prefix(m, c)
  BY <1>1 DEF SubsHaveTypes, InPrefix
<1>3. CASE n.sub = <<>>
  <2>1. Holds(o, 0, OffsetWidth) /\ 0 \in Nat /\ 0 <= MaxDataOffset
    BY <1>1, <1>3, LimitAssumption DEF OptionalEncoded
  <2>2. PICK v : v = 0
    OBVIOUS
  <2>3. UnsignedValue(m, o, OffsetWidth) = v
    <3>1. Holds(o, v, OffsetWidth) /\ v \in Nat /\ v <= MaxDataOffset
      BY <2>1, <2>2
    <3>2. Readable(o, v, OffsetWidth)
      BY <1>1, <3>1, OffsetReadable
    <3> QED
      BY <1>2, <3>2, PrefixReads
  <2>4. DeserialiseOptional(d, t, m, o) = Whole(t, 0, <<>>)
    BY <2>2, <2>3 DEF DeserialiseOptional
  <2> QED
    BY <1>2, <1>3, <2>4, NoPart, EmptySeq DEF PartsPlaced
<1>4. CASE n.sub # <<>>
  <2>1. PICK at \in Nat : /\ Holds(o, at + 1, OffsetWidth) /\ at + 1 <= MaxDataOffset
                          /\ <<n.sub[1], at>> \in R
    BY <1>1, <1>4 DEF OptionalEncoded
  <2>2. PICK v \in Nat : v = at + 1
    OBVIOUS
  <2>3. UnsignedValue(m, o, OffsetWidth) = v
    <3>1. Holds(o, v, OffsetWidth) /\ v <= MaxDataOffset
      BY <2>1, <2>2
    <3>2. Readable(o, v, OffsetWidth)
      BY <1>1, <3>1, OffsetReadable
    <3> QED
      BY <1>2, <3>2, PrefixReads
  <2>4. v > 0 /\ v - 1 = at
    BY <2>2
  <2>5. Len(n.sub) = 1 /\ n.sub[1].type = Elements[t][1]
    <3>1. Len(n.sub) \in Nat /\ Len(n.sub) <= 1
      BY <1>1 DEF SubsHaveTypes
    <3>2. \A i \in 1 .. Len(n.sub) : n.sub[i].type = Elements[t][1]
      BY <1>1 DEF SubsHaveTypes
    <3>3. Len(n.sub) # 0
      BY <1>1, <1>4, EmptySeq
    <3>4. Len(n.sub) = 1
      <4> DEFINE k == Len(n.sub)
      <4> HIDE DEF k
      <4>1. k \in Nat /\ k <= 1 /\ k # 0
        BY <3>1, <3>3 DEF k
      <4>2. k = 1
        BY <4>1
      <4> QED
        BY <4>2 DEF k
    <3> QED
      BY <3>2, <3>4
  <2>6. PartOffset(m, n, o, 1) = at
    BY <2>3, <2>4 DEF PartOffset, Contiguous
  <2>7. DeserialiseOptional(d, t, m, o) = Whole(t, 0, <<d[Elements[t][1]][at]>>)
    BY <2>3, <2>4 DEF DeserialiseOptional
  <2>8. PartsRead(d, m, n, o) = <<d[Elements[t][1]][at]>>
    BY <1>1, <2>5, <2>6, OnePart
  <2> QED
    BY <1>2, <2>1, <2>5, <2>6, <2>7, <2>8 DEF PartsPlaced
<1> QED
  BY <1>3, <1>4

LEMMA VariantReads ==
    ASSUME ViewInv, NEW n, NEW o, NEW R, NEW m, NEW c, InPrefix(n, o, R, m, c),
           Kind[n.type] = "variant", NEW d
    PROVE  /\ DeserialiseVariant(d, n.type, m, o) = Whole(n.type, n.val, PartsRead(d, m, n, o))
           /\ PartsPlaced(m, n, o, R)
<1> DEFINE t == n.type
<1>1. /\ t \in Type /\ n.sub \in Seq(Source) /\ SubsHaveTypes(n) /\ o \in Nat /\ n.val \in Nat
      /\ Elements[t] # <<>> => VariantEncoded(n, o, R)
      /\ FixedSize[t] = IndexWidth + OffsetWidth
  BY PlaceFacts, TypesAssumption DEF InPrefix, Encoded, HasFixedDataSize
<1>2. o + IndexWidth + OffsetWidth <= c /\ Prefix(m, c)
  BY <1>1 DEF InPrefix, IndexWidth, OffsetWidth
<1>3. Elements[t] \in Seq(Type) /\ Len(Elements[t]) \in Nat /\ Fits(Len(Elements[t]), IndexWidth)
  BY <1>1, TypesAssumption
<1>4. \A i \in Nat : i = Len(n.sub) /\ i > 0 =>
         i = 1 /\ n.val < Len(Elements[t]) /\ n.sub[1].type = Elements[t][n.val + 1]
  BY <1>1 DEF SubsHaveTypes
<1>5. Len(n.sub) \in Nat
  BY <1>1
<1>6. CASE Elements[t] = <<>>
  <2>1. Len(Elements[t]) = 0
    BY <1>6, EmptySeq
  <2>2. Len(n.sub) = 0
    <3>1. PICK i \in Nat : i = Len(n.sub)
      BY <1>5
    <3>2. ~(n.val < Len(Elements[t]))
      BY <1>1, <2>1
    <3> QED
      BY <1>4, <3>1, <3>2
  <2>3. n.sub = <<>> /\ n.val = 0
    BY <1>1, <2>2, EmptySeq DEF SubsHaveTypes
  <2>4. DeserialiseVariant(d, t, m, o) = Whole(t, 0, <<>>)
    BY <2>1 DEF DeserialiseVariant
  <2> QED
    BY <2>2, <2>3, <2>4, NoPart DEF PartsPlaced
<1>7. CASE Elements[t] # <<>>
  <2>1. n.sub # <<>>
    BY <1>1, <1>7 DEF VariantEncoded
  <2>2. PICK at \in Nat : /\ Holds(o, n.val, IndexWidth) /\ Holds(o + IndexWidth, at, OffsetWidth)
                          /\ at <= MaxDataOffset /\ <<n.sub[1], at>> \in R
    BY <1>1, <1>7 DEF VariantEncoded
  <2>3. Len(n.sub) = 1 /\ n.val < Len(Elements[t]) /\ n.sub[1].type = Elements[t][n.val + 1]
    <3>1. PICK i \in Nat : i = Len(n.sub) /\ i > 0
      BY <1>1, <1>5, <2>1, EmptySeq
    <3> QED
      BY <1>4, <3>1
  <2>4. UnsignedValue(m, o, IndexWidth) = n.val
    <3>1. Readable(o, n.val, IndexWidth)
      <4>1. PICK v \in Nat, k \in Nat : v = n.val /\ k = Len(Elements[t])
        BY <1>1, <1>3
      <4>2. v <= k /\ Fits(k, IndexWidth) /\ IndexWidth \in {1, 2, 4, 8}
        BY <1>3, <2>3, <4>1 DEF IndexWidth
      <4>3. Fits(v, IndexWidth)
        BY <4>2, FitsBelow
      <4> QED
        BY <1>1, <2>2, <4>1, <4>2, <4>3 DEF Readable
    <3>2. o + IndexWidth <= c
      BY <1>1, <1>2 DEF IndexWidth, OffsetWidth, Prefix
    <3> QED
      BY <1>2, <3>1, <3>2, PrefixReads
  <2>5. UnsignedValue(m, o + IndexWidth, OffsetWidth) = at
    <3>1. PICK x \in Nat : x = o + IndexWidth
      BY <1>1 DEF IndexWidth
    <3>2. Readable(x, at, OffsetWidth)
      BY <2>2, <3>1, OffsetReadable
    <3> QED
      BY <1>2, <3>1, <3>2, PrefixReads
  <2>6. PartOffset(m, n, o, 1) = at
    BY <2>5 DEF PartOffset, Contiguous
  <2>7. Len(Elements[t]) # 0
    BY <1>1, <1>3, <2>3
  <2>8. DeserialiseVariant(d, t, m, o) = Whole(t, n.val, <<d[Elements[t][n.val + 1]][at]>>)
    BY <2>3, <2>4, <2>5, <2>7 DEF DeserialiseVariant
  <2>9. PartsRead(d, m, n, o) = <<d[Elements[t][n.val + 1]][at]>>
    BY <1>1, <2>3, <2>6, OnePart
  <2> QED
    BY <2>2, <2>3, <2>6, <2>8, <2>9 DEF PartsPlaced
<1> QED
  BY <1>6, <1>7

LEMMA ArrayReads ==
    ASSUME ViewInv, NEW n, NEW o, NEW R, NEW m, NEW c, InPrefix(n, o, R, m, c),
           Kind[n.type] = "dynamic_array", NEW d
    PROVE  /\ DeserialiseDynamicArray(d, n.type, m, o) = Whole(n.type, n.val, PartsRead(d, m, n, o))
           /\ PartsPlaced(m, n, o, R)
<1> DEFINE t == n.type
           e == Elements[t][1]
           first == UnsignedValue(m, o + SizeWidth, OffsetWidth)
<1>1. /\ t \in Type /\ n.sub \in Seq(Source) /\ SubsHaveTypes(n) /\ o \in Nat
      /\ ArrayEncoded(n, o, R) /\ FixedSize[t] = SizeWidth + OffsetWidth
  BY PlaceFacts, TypesAssumption DEF InPrefix, Encoded, HasFixedDataSize
<1>2. o + SizeWidth + OffsetWidth <= c /\ Prefix(m, c)
  BY <1>1 DEF InPrefix, SizeWidth, OffsetWidth
<1>3. n.val = 0 /\ Len(n.sub) \in Nat
  BY <1>1 DEF SubsHaveTypes
<1>4. UnsignedValue(m, o, SizeWidth) = Len(n.sub)
  <2>1. PICK v \in Nat : v = Len(n.sub)
    BY <1>3
  <2>2. Holds(o, v, SizeWidth) /\ v <= MaxArraySize
    BY <1>1, <2>1 DEF ArrayEncoded
  <2>3. Fits(v, SizeWidth) /\ SizeWidth \in {1, 2, 4, 8}
    BY <2>2, LimitAssumption, FitsBelow DEF SizeWidth
  <2>4. Readable(o, v, SizeWidth)
    BY <1>1, <2>2, <2>3 DEF Readable
  <2>5. o + SizeWidth <= c
    BY <1>1, <1>2 DEF SizeWidth, OffsetWidth, Prefix
  <2> QED
    BY <1>2, <2>1, <2>4, <2>5, PrefixReads
<1>5. ASSUME NEW i \in 1 .. Len(n.sub)
      PROVE  /\ n.sub[i].type = e
             /\ PartOffset(m, n, o, i) = first + FixedSize[e] * (i - 1)
             /\ <<n.sub[i], PartOffset(m, n, o, i)>> \in R
  <2>1. n.sub # <<>>
    <3>1. Len(n.sub) # 0
      BY <1>3
    <3> QED
      BY <3>1, EmptySeq
  <2>2. PICK at \in Nat : /\ Holds(o + SizeWidth, at, OffsetWidth) /\ at <= MaxDataOffset
                          /\ Items(n, at) \subseteq R
    BY <1>1, <2>1 DEF ArrayEncoded
  <2>3. first = at
    <3>1. PICK x \in Nat : x = o + SizeWidth
      BY <1>1 DEF SizeWidth
    <3>2. Readable(x, at, OffsetWidth)
      BY <2>2, <3>1, OffsetReadable
    <3> QED
      BY <1>2, <3>1, <3>2, PrefixReads
  <2>4. n.sub[i].type = e
    BY <1>1 DEF SubsHaveTypes
  <2>5. PartOffset(m, n, o, i) = first + FixedSize[e] * (i - 1)
    BY DEF PartOffset, Contiguous
  <2>6. <<n.sub[i], at + FixedSize[e] * (i - 1)>> \in R
    BY <2>2 DEF Items
  <2> HIDE DEF first, e
  <2> QED
    BY <2>3, <2>4, <2>5, <2>6
<1>6. [i \in 1 .. Len(n.sub) |-> d[e][first + FixedSize[e] * (i - 1)]] = PartsRead(d, m, n, o)
  <2> HIDE DEF first, e
  <2> QED
    BY <1>5 DEF PartsRead
<1>7. DeserialiseDynamicArray(d, t, m, o)
         = Whole(t, 0, [i \in 1 .. Len(n.sub) |-> d[e][first + FixedSize[e] * (i - 1)]])
  BY <1>4 DEF DeserialiseDynamicArray
<1> QED
  BY <1>3, <1>5, <1>6, <1>7 DEF PartsPlaced

\* A place whose fixed data is in a prefix of the message reads as its source
\* does, if its parts do; and these are at places.
LEMMA PlaceReads ==
    ASSUME ViewInv, NEW n, NEW o, NEW R, NEW m, NEW c, InPrefix(n, o, R, m, c), NEW d
    PROVE  /\ DeserialiseWith(d, n.type, m, o) = Whole(n.type, n.val, PartsRead(d, m, n, o))
           /\ PartsPlaced(m, n, o, R)
<1> DEFINE t == n.type
           whole == Whole(t, n.val, PartsRead(d, m, n, o))
<1>1. /\ t \in Type /\ n.sub \in Seq(Source) /\ SubsHaveTypes(n) /\ o \in Nat /\ n.val \in Nat
      /\ FixedSize[t] \in Nat /\ Encoded(n, o, R) /\ Kind[t] \in Kinds
  BY PlaceFacts, TypesAssumption DEF InPrefix
<1>2. ~TooSmallFor(FixedSize[t], Size(m), o)
  <2>1. Size(m) = c /\ c \in Nat /\ o + FixedSize[t] <= c
    BY BufferSize DEF InPrefix, Prefix
  <2> QED
    BY <1>1, <2>1 DEF TooSmallFor
<1>3. ASSUME Kind[t] \in {"null", "scalar"}
      PROVE  n.sub = <<>> /\ PartsRead(d, m, n, o) = <<>> /\ PartsPlaced(m, n, o, R)
  <2>1. Len(n.sub) = 0
    BY <1>1, <1>3 DEF SubsHaveTypes
  <2>2. n.sub = <<>>
    BY <1>1, <2>1, EmptySeq
  <2> QED
    BY <2>1, <2>2, NoPart DEF PartsPlaced
<1>4. Kind[t] = "null" => n.val = 0
  BY <1>1 DEF SubsHaveTypes
<1>5. Kind[t] = "scalar" => UnsignedValue(m, o, FixedSize[t]) = n.val
  <2> SUFFICES ASSUME Kind[t] = "scalar"
               PROVE  UnsignedValue(m, o, FixedSize[t]) = n.val
    OBVIOUS
  <2>1. Readable(o, n.val, FixedSize[t])
    BY <1>1, TypesAssumption DEF Encoded, Readable, SubsHaveTypes, HasFixedDataSize
  <2>2. Prefix(m, c) /\ o + FixedSize[t] <= c
    BY DEF InPrefix
  <2> QED
    BY <2>1, <2>2, PrefixReads
<1>6. Kind[t] \in Contiguous => DeserialiseElements(d, t, o) = whole /\ PartsPlaced(m, n, o, R)
  BY ElementsRead
<1>7. Kind[t] = "optional" => DeserialiseOptional(d, t, m, o) = whole /\ PartsPlaced(m, n, o, R)
  BY OptionalReads
<1>8. Kind[t] = "variant" => DeserialiseVariant(d, t, m, o) = whole /\ PartsPlaced(m, n, o, R)
  BY VariantReads
<1>9. Kind[t] = "dynamic_array" =>
         DeserialiseDynamicArray(d, t, m, o) = whole /\ PartsPlaced(m, n, o, R)
  BY ArrayReads
<1> QED
  BY <1>1, <1>2, <1>3, <1>4, <1>5, <1>6, <1>7, <1>8, <1>9 DEF DeserialiseWith, Kinds, Contiguous

\* A source is the value that is made of its parts.
LEMMA WholeIs ==
    ASSUME NEW s \in Source
    PROVE  Whole(s.type, s.val, s.sub) = s
<1>1. s.sub \in Seq(Source)
  BY SourceAssumption
<1>2. \A i \in DOMAIN s.sub : s.sub[i] # BufferBoundsError
  BY <1>1, ErrorAssumption
<1> QED
  BY <1>2, SourceFieldsAssumption DEF Whole

\* The parts of a source are less deep than it.
LEMMA SubsLessDeep ==
    ASSUME NEW s \in Source, NEW i \in 1 .. Len(s.sub)
    PROVE  /\ s.sub[i] \in Source
           /\ Depth[s.type] \in Nat /\ Depth[s.sub[i].type] \in Nat
           /\ Depth[s.sub[i].type] < Depth[s.type]
<1> DEFINE t == s.type
<1>1. /\ t \in Type /\ s.val \in Nat /\ s.sub \in Seq(Source) /\ SubsHaveTypes(s)
      /\ Kind[t] \in Kinds /\ Elements[t] \in Seq(Type)
  BY SourceAssumption, TypesAssumption
<1>2. s.sub[i] \in Source
  BY <1>1, ElementOfSeq
<1>3. Kind[t] \notin {"null", "scalar"}
  BY <1>1 DEF SubsHaveTypes
<1>4. \E j \in 1 .. Len(Elements[t]) : s.sub[i].type = Elements[t][j]
  <2>1. CASE Kind[t] \in Contiguous
    BY <1>1, <2>1 DEF SubsHaveTypes
  <2>2. CASE Kind[t] \in {"optional", "dynamic_array"}
    <3>1. Len(Elements[t]) = 1 /\ s.sub[i].type = Elements[t][1]
      BY <1>1, <2>2, TypesAssumption DEF SubsHaveTypes
    <3> QED
      BY <3>1
  <2>3. CASE Kind[t] = "variant"
    <3>1. \A k \in Nat : k = Len(s.sub) /\ k > 0 =>
             k = 1 /\ s.val < Len(Elements[t]) /\ s.sub[1].type = Elements[t][s.val + 1]
      BY <1>1, <2>3 DEF SubsHaveTypes
    <3>2. PICK k \in Nat : k = Len(s.sub)
      BY <1>1
    <3>3. i \in 1 .. k
      BY <3>2
    <3>4. k > 0
      BY <3>3
    <3>5. k = 1 /\ s.val < Len(Elements[t]) /\ s.sub[1].type = Elements[t][s.val + 1]
      BY <3>1, <3>2, <3>4
    <3>6. i = 1 /\ s.sub[i].type = Elements[t][s.val + 1]
      BY <3>3, <3>5
    <3>7. s.val + 1 \in 1 .. Len(Elements[t])
      BY <1>1, <3>5
    <3> QED
      BY <3>6, <3>7
  <2> QED
    BY <1>1, <1>3, <2>1, <2>2, <2>3 DEF Kinds, Contiguous
<1> QED
  BY <1>1, <1>2, <1>4, PartsLessDeep

\* The bytes of a finished message are numbers.
LEMMA MessageIsBuffer ==
    ASSUME ViewInv, CompleteWhenDone, phase = "done"
    PROVE  Prefix(mem, used) /\ IsBuffer(mem)
<1>1. used \in Nat /\ mem \in [0 .. used - 1 -> Cell]
  BY DEF ViewInv, TypeOK
<1>2. \A x \in 0 .. used - 1 : mem[x] \in Byte
  BY <1>1 DEF CompleteWhenDone, Cell
<1>3. mem \in [0 .. used - 1 -> Nat]
  <2>1. \A x \in 0 .. used - 1 : mem[x] \in Nat
    BY <1>2 DEF Byte
  <2>2. PICK D : D = 0 .. used - 1
    OBVIOUS
  <2>3. mem \in [D -> Cell] /\ \A x \in D : mem[x] \in Nat
    BY <1>1, <2>1, <2>2
  <2>4. mem \in [D -> Nat]
    BY <2>3
  <2> QED
    BY <2>2, <2>4
<1>4. Prefix(mem, used)
  BY <1>1, <1>3 DEF Prefix
<1>5. IsBuffer(mem)
  BY <1>1, <1>3 DEF IsBuffer
<1> QED
  BY <1>4, <1>5

\* Every place of a finished message reads as its source.
LEMMA PlaceDeserialises ==
    ASSUME ViewInv, CompleteWhenDone, phase = "done", NEW R, Placed(R), NEW s, NEW o, <<s, o>> \in R
    PROVE  Deserialise(s.type, mem, o) = s
<1> DEFINE ReadsBelow(k) ==
               \A p \in R : Depth[p[1].type] < k => Deserialise(p[1].type, mem, p[2]) = p[1]
           S == {k \in Nat : ReadsBelow(k)}
<1>1. Prefix(mem, used) /\ IsBuffer(mem)
  BY MessageIsBuffer
<1>2. ASSUME NEW p \in R
      PROVE  /\ p[1] \in Source /\ p[2] \in Nat /\ p = <<p[1], p[2]>>
             /\ p[1].type \in Type /\ Depth[p[1].type] \in Nat
             /\ p[2] + FixedSize[p[1].type] <= used
  <2>1. p = <<p[1], p[2]>> /\ p[1] \in Source
    BY DEF Placed, PlaceSet
  <2>2. PICK n, x : n = p[1] /\ x = p[2]
    OBVIOUS
  <2>3. n.type \in Type /\ x \in Nat /\ x + FixedSize[n.type] <= used
    BY <2>1, <2>2, PlaceFacts
  <2> QED
    BY <2>1, <2>2, <2>3, DepthAssumption
<1>3. 0 \in S
  <2>1. ASSUME NEW p \in R PROVE ~(Depth[p[1].type] < 0)
    <3>1. Depth[p[1].type] \in Nat
      BY <1>2
    <3> QED
      BY <3>1
  <2> QED
    BY <2>1
<1>4. ASSUME NEW k \in Nat, k \in S
      PROVE  k + 1 \in S
  <2> SUFFICES ASSUME NEW p \in R, Depth[p[1].type] < k + 1
               PROVE  Deserialise(p[1].type, mem, p[2]) = p[1]
    OBVIOUS
  <2>1. PICK n, x, d : n = p[1] /\ x = p[2] /\ d = Deserialisers(mem)
    OBVIOUS
  <2>2. /\ n \in Source /\ n.type \in Type /\ x \in Nat /\ <<n, x>> \in R
        /\ Depth[n.type] < k + 1 /\ x + FixedSize[n.type] <= used
    BY <1>2, <2>1
  <2>3. InPrefix(n, x, R, mem, used)
    BY <1>1, <2>2 DEF InPrefix
  <2>4. /\ DeserialiseWith(d, n.type, mem, x) = Whole(n.type, n.val, PartsRead(d, mem, n, x))
        /\ PartsPlaced(mem, n, x, R)
    BY <2>3, PlaceReads
  <2>5. ASSUME NEW i \in 1 .. Len(n.sub)
        PROVE  d[n.sub[i].type][PartOffset(mem, n, x, i)] = n.sub[i]
    <3>1. PICK q : q = <<n.sub[i], PartOffset(mem, n, x, i)>>
      OBVIOUS
    <3>2. q \in R /\ q[1] = n.sub[i] /\ q[2] = PartOffset(mem, n, x, i)
      BY <2>4, <3>1 DEF PartsPlaced
    <3>3. Depth[q[1].type] < k
      BY <2>2, <3>2, SubsLessDeep
    <3>4. Deserialise(q[1].type, mem, q[2]) = q[1]
      BY <1>4, <3>2, <3>3
    <3> QED
      BY <2>1, <3>2, <3>4 DEF Deserialise
  <2>6. PartsRead(d, mem, n, x) = n.sub
    <3>1. n.sub \in Seq(Source)
      BY <2>2, SourceAssumption
    <3>2. n.sub = [i \in 1 .. Len(n.sub) |-> n.sub[i]]
      BY <3>1
    <3> QED
      BY <2>5, <3>2 DEF PartsRead
  <2>7. Whole(n.type, n.val, PartsRead(d, mem, n, x)) = n
    BY <2>2, <2>6, WholeIs
  <2>8. Deserialise(n.type, mem, x) = DeserialiseWith(d, n.type, mem, x)
    BY <1>1, <2>1, <2>2, DeserialisersDefined
  <2> QED
    BY <2>1, <2>4, <2>7, <2>8
<1> HIDE DEF S
<1>5. PICK k \in Nat : k = Depth[s.type] + 1
  <2>1. s.type \in Type
    BY PlaceFacts
  <2> QED
    BY <2>1, DepthAssumption
<1>6. k \in S
  BY <1>3, <1>4, NumberInduction
<1>7. ReadsBelow(k)
  BY <1>6 DEF S
<1>8. PICK p : p = <<s, o>>
  OBVIOUS
<1>9. p \in R /\ p[1] = s /\ p[2] = o /\ Depth[p[1].type] < k
  <2>1. Depth[s.type] \in Nat
    BY PlaceFacts, DepthAssumption
  <2> QED
    BY <1>5, <1>8, <2>1
<1> QED
  BY <1>7, <1>9

\* What is in the buffer of a finished message is the value that was stored.
LEMMA StoredValueIsRoot ==
    ASSUME ViewInv, CompleteWhenDone, NEW R, Placed(R)
    PROVE  StoredValue = root
<1>1. CASE phase = "done"
  <2>1. <<root, 0>> \in R
    BY <1>1 DEF Placed
  <2>2. PICK n, x : n = root /\ x = 0
    OBVIOUS
  <2>3. Deserialise(n.type, mem, x) = n
    BY <1>1, <2>1, <2>2, PlaceDeserialises
  <2> QED
    BY <1>1, <2>2, <2>3 DEF StoredValue
<1>2. CASE phase # "done"
  BY <1>2 DEF StoredValue
<1> QED
  BY <1>1, <1>2

-----------------------------------------------------------------------------
\* The buffer as a store for one value.

\* How the steps of a running serialisation end: it goes on, it returns, or it throws.
LEMMA StepOutcome ==
    ASSUME Step
    PROVE  /\ phase = "running" /\ root' = root
           /\ \/ phase' \in {"running", "done"} /\ error' = error
              \/ /\ phase' = "failed"
                 /\ error' \in {"bad_alloc", "object_size_error", "bad_variant_access"}
<1>1. /\ \A k, step : Active(k, step) => phase = "running"
      /\ \A fs : Continue(fs) => root' = root /\ phase' \in {"running", "done"} /\ error' = error
      /\ \A e, m : Throw(e, m) => root' = root /\ phase' = "failed" /\ error' = e
  BY DEF Active, Continue, Throw
<1>2. CASE SerialiseNull
  BY <1>1, <1>2 DEF SerialiseNull
<1>3. CASE SerialiseScalar
  BY <1>1, <1>3 DEF SerialiseScalar
<1>4. CASE SerialisePair \/ SerialiseTuple \/ SerialiseStaticArray \/ SerialiseRecord
  <2>1. phase = "running" /\ (PushElement \/ ReturnAfterElements)
    BY <1>1, <1>4 DEF SerialisePair, SerialiseTuple, SerialiseStaticArray, SerialiseRecord
  <2> QED
    BY <1>1, <2>1 DEF PushElement, ReturnAfterElements
<1>5. CASE SerialiseOptionalEmpty
  BY <1>1, <1>5 DEF SerialiseOptionalEmpty
<1>6. CASE SerialiseOptionalValue
  BY <1>1, <1>6 DEF SerialiseOptionalValue
<1>7. CASE SerialiseEmptyVariant \/ SerialiseValuelessVariant
  BY <1>1, <1>7 DEF SerialiseEmptyVariant, SerialiseValuelessVariant
<1>8. CASE SerialiseVariantValue
  BY <1>1, <1>8 DEF SerialiseVariantValue
<1>9. CASE BeginElements
  BY <1>1, <1>9 DEF BeginElements
<1>10. CASE SerialiseElement \/ EndElements
  BY <1>1, <1>10 DEF SerialiseElement, EndElements, PushElement
<1>11. CASE FinishArray
  BY <1>1, <1>11 DEF FinishArray
<1> QED
  BY <1>2, <1>3, <1>4, <1>5, <1>6, <1>7, <1>8, <1>9, <1>10, <1>11 DEF Step

LEMMA StoreStep ==
    ASSUME ViewInv, StoredValue = root, StoredValue' = root', SizeErrorsJustified', [Next]_vars
    PROVE  [Store!SNext]_(Store!svars)
<1>1. CASE UNCHANGED vars
  BY <1>1 DEF vars, Store!svars
<1>2. ASSUME NEW s \in Root, Serialise(s)
      PROVE  Store!Store(s)
  BY <1>2 DEF Serialise, Store!Store
<1>3. ASSUME NEW s \in Root, InitialiseThrows(s)
      PROVE  Store!Fail("bad_alloc")
  BY <1>3 DEF InitialiseThrows, Store!Fail
<1>4. CASE Step
  <2>1. phase = "running" /\ root' = root
    BY <1>4, StepOutcome
  <2>2. CASE phase' = "running" /\ error' = error
    BY <2>1, <2>2 DEF Store!svars
  <2>3. CASE phase' = "done" /\ error' = error
    BY <2>1, <2>3 DEF Store!SNext, Store!Complete
  <2>4. CASE /\ phase' = "failed"
             /\ error' \in {"bad_alloc", "object_size_error", "bad_variant_access"}
    <3>1. error' = "object_size_error" => TooBigToStore(root)
      <4> SUFFICES ASSUME error' = "object_size_error" PROVE TooBigToStore(root)
        OBVIOUS
      <4>1. PICK s : s = root
        OBVIOUS
      <4>2. s \in Source /\ root' = s
        BY <2>1, <4>1, RootAssumption DEF ViewInv, TypeOK
      <4>3. MessageSize(s) >= MaxDataOffset \/ HasLongArray[s]
        BY <4>2 DEF SizeErrorsJustified, MessageSize
      <4>4. MessageSize(s) \in Nat /\ MaxDataOffset \in Nat
        BY <4>2, SourceAssumption, TypesAssumption, MessageSizeAssumption, LimitAssumption
           DEF MessageSize
      <4>5. TooBigToStore(s)
        BY <4>3, <4>4 DEF TooBigToStore
      <4> QED
        BY <4>1, <4>5
    <3>2. PICK e : e = error'
      OBVIOUS
    <3>3. Store!Fail(e)
      BY <2>1, <2>4, <3>1, <3>2 DEF Store!Fail
    <3> QED
      BY <2>4, <3>2, <3>3 DEF Store!SNext
  <2> QED
    BY <1>4, <2>2, <2>3, <2>4, StepOutcome
<1> QED
  BY <1>1, <1>2, <1>3, <1>4 DEF Next, Store!SNext

\* serialise() and deserialise(), with every type, source and buffer, are a store
\* for one value: what deserialise() reads from a finished message is exactly the
\* source that was serialised, and a call fails for the size of its source only if
\* that is too big for the integers of the format.
THEOREM StoreImplemented == Spec => StoresValue
<1>1. Init => Store!SInit
  <2> SUFFICES ASSUME Init PROVE Store!SInit
    OBVIOUS
  <2>1. StoredValue = root
    BY DEF Init, StoredValue
  <2> QED
    BY <2>1 DEF Init, Store!SInit
<1> DEFINE HasPlaces == \E R : Placed(R)
<1>2. Init => HasPlaces
  <2> SUFFICES ASSUME Init PROVE Placed({})
    OBVIOUS
  <2>1. stack = <<>> /\ phase = "idle"
    BY DEF Init
  <2> QED
    BY <2>1 DEF Placed, PlacesWithin
<1>3. ViewInv /\ SectionsPartitionUnwritten /\ HasPlaces /\ [Next]_vars => HasPlaces'
  <2> SUFFICES ASSUME ViewInv, SectionsPartitionUnwritten, NEW R, Placed(R), [Next]_vars
               PROVE  \E S : Placed(S)'
    OBVIOUS
  <2>1. CASE Next
    BY <2>1, NextPlaced
  <2>2. CASE UNCHANGED vars
    BY <2>2, IdlePlaced
  <2> QED
    BY <2>1, <2>2
<1>4. ViewInv /\ CompleteWhenDone /\ HasPlaces => StoredValue = root
  BY StoredValueIsRoot
<1> HIDE DEF HasPlaces
<1>5. Spec => []HasPlaces
  BY <1>2, <1>3, ViewInvHolds, UnwrittenBytesPartitioned, PTL DEF Spec
<1>6. Spec => [](StoredValue = root)
  BY <1>4, <1>5, ViewInvHolds, MessagesComplete, PTL
<1>7. ViewInv /\ StoredValue = root /\ (StoredValue = root)' /\ SizeErrorsJustified' /\ [Next]_vars
         => [Store!SNext]_(Store!svars)
  BY StoreStep
<1>8. Spec => Store!Spec
  BY <1>1, <1>6, <1>7, ViewInvHolds, SizeErrorsAreJustified, PTL DEF Spec, Store!Spec
<1> QED
  BY <1>8 DEF StoresValue

-----------------------------------------------------------------------------
\* Every byte of a message is linked to its root.

\* p is a part of the place q: one of its elements, or what its offset leads to.
PartOf(p, q) ==
    LET n == q[1]
        o == q[2]
        t == n.type
    IN
    \/ p \in Parts(n, o)
    \/ /\ Kind[t] = "optional" /\ n.sub # <<>> /\ p[1] = n.sub[1]
       /\ p[2] + 1 <= MaxDataOffset /\ Holds(o, p[2] + 1, OffsetWidth)
    \/ /\ Kind[t] = "variant" /\ n.sub # <<>> /\ p[1] = n.sub[1]
       /\ p[2] <= MaxDataOffset /\ Holds(o + IndexWidth, p[2], OffsetWidth)
    \/ /\ Kind[t] = "dynamic_array"
       /\ \E at \in Nat : /\ p \in Items(n, at)
                          /\ at <= MaxDataOffset /\ Holds(o + SizeWidth, at, OffsetWidth)

\* p is an element of a dynamic_array at q that has not stored yet where it is.
Awaited(p, q) ==
    \E j \in 1 .. Len(stack) : /\ stack[j].step = "finish"
                               /\ <<stack[j].node, stack[j].fo>> = q
                               /\ p \in Items(stack[j].node, stack[j].start)

\* The places of Q are not deeper than the root.
NoDeeper(Q) == \A p \in Q : Depth[p[1].type] <= Depth[root.type]

EndsAt(Q, size) == \E p \in Q : p[2] + FixedSize[p[1].type] = size

\* Q is a set of places that all are a part of another one, up to the root, and
\* one of them ends where the message ends.
Linked(Q) ==
    /\ Q \subseteq PlaceSet
    /\ NoDeeper(Q)
    /\ phase \in {"running", "done"} => EndsAt(Q, used)
    /\ \A p \in Q : p = <<root, 0>> \/ \E q \in Q : PartOf(p, q) \/ Awaited(p, q)
    /\ \A j \in 1 .. Len(stack) : Owes(stack[j]) \subseteq Q

LEMMA PartOfKept ==
    ASSUME KeepsWritten, NEW p, p \in PlaceSet, NEW q, q \in PlaceSet, PartOf(p, q)
    PROVE  PartOf(p, q)'
<1>1. PICK n, o, x : n = q[1] /\ o = q[2] /\ x = p[2]
  OBVIOUS
<1>2. o \in Nat /\ x \in Nat
  BY <1>1 DEF PlaceSet
<1>3. OffsetWidth \in {1, 2, 4, 8} /\ o + IndexWidth \in Nat /\ o + SizeWidth \in Nat /\ x + 1 \in Nat
  BY <1>2 DEF OffsetWidth, IndexWidth, SizeWidth
<1>4. CASE p \in Parts(n, o)
  BY <1>1, <1>4 DEF PartOf, Parts
<1>5. CASE /\ Kind[n.type] = "optional" /\ n.sub # <<>> /\ p[1] = n.sub[1]
           /\ x + 1 <= MaxDataOffset /\ Holds(o, x + 1, OffsetWidth)
  <2>1. PICK v \in Nat : v = x + 1
    BY <1>3
  <2>2. Holds(o, v, OffsetWidth)'
    BY <1>2, <1>3, <1>5, <2>1, HoldsKept
  <2> QED
    BY <1>1, <1>5, <2>1, <2>2 DEF PartOf
<1>6. CASE /\ Kind[n.type] = "variant" /\ n.sub # <<>> /\ p[1] = n.sub[1]
           /\ x <= MaxDataOffset /\ Holds(o + IndexWidth, x, OffsetWidth)
  <2>1. PICK y \in Nat : y = o + IndexWidth
    BY <1>3
  <2>2. Holds(y, x, OffsetWidth)'
    BY <1>2, <1>3, <1>6, <2>1, HoldsKept
  <2> QED
    BY <1>1, <1>6, <2>1, <2>2 DEF PartOf
<1>7. CASE /\ Kind[n.type] = "dynamic_array"
           /\ \E at \in Nat : /\ p \in Items(n, at)
                              /\ at <= MaxDataOffset /\ Holds(o + SizeWidth, at, OffsetWidth)
  <2>1. PICK y \in Nat : y = o + SizeWidth
    BY <1>3
  <2>2. PICK at \in Nat : /\ p \in Items(n, at)
                          /\ at <= MaxDataOffset /\ Holds(y, at, OffsetWidth)
    BY <1>7, <2>1
  <2>3. Holds(y, at, OffsetWidth)'
    BY <1>3, <2>2, HoldsKept
  <2> QED
    BY <1>1, <1>7, <2>1, <2>2, <2>3 DEF PartOf, Items
<1> QED
  BY <1>1, <1>4, <1>5, <1>6, <1>7 DEF PartOf

\* What a new call owes is its place or that of its elements.
LEMMA CallOwed ==
    ASSUME NEW n \in Source, NEW o \in Nat, NEW via, NEW view
    PROVE  Owes(Call(n, o, via, view)) \subseteq {<<n, o>>} \cup Parts(n, o)
<1> DEFINE c == Call(n, o, via, view)
           t == n.type
<1>1. c.step = "serialise" /\ c.node = n /\ c.fo = o /\ c.i = 0
  BY DEF Call
<1>2. t \in Type /\ Len(n.sub) \in Nat /\ n.sub \in Seq(Source) /\ SubsHaveTypes(n)
  BY SourceAssumption
<1> HIDE DEF c
<1>3. CASE Kind[t] \in Contiguous
  <2>1. HasElementOffsets(t) /\ Len(n.sub) = Len(Elements[t])
    BY <1>2, <1>3, TypesAssumption DEF SubsHaveTypes
  <2> DEFINE place(i) == <<n.sub[i], c.fo + ElementOffset[t][i] - ElementOffset[t][c.i + 1]>>
             part(i) == <<n.sub[i], o + ElementOffset[t][i]>>
  <2>2. ASSUME NEW i \in 1 .. Len(n.sub)
        PROVE  place(i) = part(i)
    <3>1. ElementOffset[t][1] = 0 /\ ElementOffset[t][i] \in Nat
      <4>1. i \in 1 .. Len(Elements[t]) + 1
        BY <1>2, <2>1
      <4> QED
        BY <2>1, <4>1 DEF HasElementOffsets
    <3>2. c.i + 1 = 1
      BY <1>1
    <3> QED
      BY <1>1, <3>1, <3>2
  <2>3. c.i + 1 .. Len(n.sub) = 1 .. Len(n.sub)
    BY <1>1
  <2>4. Owes(c) = {place(i) : i \in 1 .. Len(n.sub)} /\ Parts(n, o) = {part(i) : i \in 1 .. Len(n.sub)}
    BY <1>1, <1>3, <2>3 DEF Owes, Parts
  <2> HIDE DEF place, part
  <2> QED
    BY <2>2, <2>4 DEF c
<1>4. CASE Kind[t] \notin Contiguous
  <2>1. Owes(c) = {<<n, o>>}
    BY <1>1, <1>4 DEF Owes
  <2> QED
    BY <2>1 DEF c
<1> QED
  BY <1>3, <1>4

\* The elements of a source that is not deeper than the root are not, either.
LEMMA PartsNoDeeper ==
    ASSUME NEW n \in Source, NEW o, NEW k \in Nat, Depth[n.type] <= k,
           NEW p, p \in Parts(n, o) \/ p \in Items(n, o)
    PROVE  Depth[p[1].type] <= k
<1>1. PICK i \in 1 .. Len(n.sub) : p[1] = n.sub[i]
  BY DEF Parts, Items
<1> QED
  BY <1>1, SubsLessDeep

\* The innermost call is replaced by the calls fs, after the places N became known.
LEMMA LinkedStep ==
    ASSUME ViewInv, SectionsPartitionUnwritten, Step,
           NEW fs \in Seq(Frame), Continue(fs), used' \in Nat, used' >= used,
           NEW Q, Linked(Q), NEW N, N \subseteq PlaceSet, NoDeeper(N),
           EndsAt(Q \cup N, used'),
           \A p \in N : \E q \in Q \cup N : PartOf(p, q)' \/ Awaited(p, q)',
           \A k \in 1 .. Len(fs) : Owes(fs[k]) \subseteq Q \cup N,
           NEW n, n = Top.node, NEW o, o = Top.fo,
           Top.step = "finish" => \A p \in Items(n, Top.start) : PartOf(p, <<n, o>>)'
    PROVE  Linked(Q \cup N)'
<1> DEFINE S == Q \cup N
<1>1. phase = "running" /\ root' = root /\ used \in Nat
  BY StepStaysInSection DEF Continue, ViewInv, TypeOK
<1>2. KeepsWritten
  BY StepKeepsWritten
<1>3. stack \in Seq(Frame) /\ stack # <<>> /\ Len(stack) \in Nat \ {0} /\ Len(fs) \in Nat
  BY <1>1, TopCall DEF ViewInv, TypeOK
<1>4. /\ Len(stack') = Len(stack) - 1 + Len(fs)
      /\ \A j \in 1 .. Len(stack') :
            stack'[j] = IF j < Len(stack) THEN stack[j] ELSE fs[j - Len(stack) + 1]
  BY <1>3, ContinueStack
<1>5. Q \subseteq PlaceSet /\ NoDeeper(Q)
  BY DEF Linked
<1>6. S \subseteq PlaceSet
  BY <1>5
<1>7. NoDeeper(S)'
  BY <1>1, <1>5 DEF NoDeeper
<1>8. ASSUME NEW p \in Q, p # <<root, 0>>
      PROVE  \E q \in S : PartOf(p, q)' \/ Awaited(p, q)'
  <2>1. PICK q \in Q : PartOf(p, q) \/ Awaited(p, q)
    BY <1>8 DEF Linked
  <2>2. CASE PartOf(p, q)
    BY <1>2, <1>5, <2>2, PartOfKept
  <2>3. CASE Awaited(p, q)
    <3>1. PICK j \in 1 .. Len(stack) : /\ stack[j].step = "finish"
                                       /\ <<stack[j].node, stack[j].fo>> = q
                                       /\ p \in Items(stack[j].node, stack[j].start)
      BY <2>3 DEF Awaited
    <3>2. CASE j = Len(stack)
      <4>1. stack[j] = Top
        BY <3>2 DEF Top
      <4>2. q = <<n, o>> /\ p \in Items(n, Top.start) /\ Top.step = "finish"
        BY <3>1, <4>1
      <4>3. PartOf(p, <<n, o>>)'
        BY <4>2
      <4> QED
        BY <4>2, <4>3
    <3>3. CASE j # Len(stack)
      <4>1. j \in 1 .. Len(stack') /\ stack'[j] = stack[j]
        BY <1>3, <1>4, <3>3
      <4>2. Awaited(p, q)'
        BY <3>1, <4>1 DEF Awaited, Items
      <4> QED
        BY <4>2
    <3> QED
      BY <3>2, <3>3
  <2> QED
    BY <2>1, <2>2, <2>3
<1>9. \A p \in S : p = <<root', 0>> \/ \E q \in S : PartOf(p, q)' \/ Awaited(p, q)'
  BY <1>1, <1>8
<1>10. ASSUME NEW j \in 1 .. Len(stack')
       PROVE  Owes(stack'[j]) \subseteq S
  <2>1. CASE j < Len(stack)
    <3>1. stack'[j] = stack[j]
      BY <1>4, <2>1
    <3>2. j \in 1 .. Len(stack)
      BY <1>3, <2>1
    <3> QED
      BY <3>1, <3>2 DEF Linked
  <2>2. CASE ~(j < Len(stack))
    <3>1. PICK k : k = j - Len(stack) + 1
      OBVIOUS
    <3>2. k \in 1 .. Len(fs) /\ stack'[j] = fs[k]
      BY <1>3, <1>4, <2>2, <3>1
    <3> QED
      BY <3>2
  <2> QED
    BY <2>1, <2>2
<1>11. EndsAt(S, used')
  OBVIOUS
<1> HIDE DEF S
<1>12. Linked(S)'
  BY <1>6, <1>7, <1>9, <1>10, <1>11 DEF Linked, EndsAt, Owes
<1> QED
  BY <1>12 DEF S

\* A call returns; what it has seen to is linked.
LEMMA ReturnLinked ==
    ASSUME ViewInv, SectionsPartitionUnwritten, Step, Continue(<<>>), used' = used,
           NEW Q, Linked(Q), NEW n, n = Top.node, NEW o, o = Top.fo,
           Top.step = "finish" => \A p \in Items(n, Top.start) : PartOf(p, <<n, o>>)'
    PROVE  \E S : Linked(S)'
<1> DEFINE fs == <<>>
<1>1. fs \in Seq(Frame) /\ Len(fs) = 0 /\ Continue(fs)
  BY EmptySeq
<1>2. PICK N : N = {}
  OBVIOUS
<1>3. used \in Nat /\ used' \in Nat /\ used' >= used /\ phase = "running"
  BY StepStaysInSection DEF ViewInv, TypeOK
<1>4. N \subseteq PlaceSet /\ NoDeeper(N) /\ \A p \in N : FALSE
  BY <1>2 DEF NoDeeper
<1>5. EndsAt(Q \cup N, used')
  BY <1>3 DEF Linked, EndsAt
<1>6. \A k \in 1 .. Len(fs) : FALSE
  BY <1>1
<1> HIDE DEF fs
<1>7. Linked(Q \cup N)'
  BY <1>1, <1>3, <1>4, <1>5, <1>6, LinkedStep
<1> QED
  BY <1>7

\* The parts of a known place can be added.
LEMMA PartsLinked ==
    ASSUME ViewInv, NEW e \in Source, NEW x \in Nat, Depth[e.type] <= Depth[root.type],
           x + FixedSize[e.type] <= used', used' \in Nat
    PROVE  /\ Parts(e, x) \subseteq PlaceSet /\ NoDeeper(Parts(e, x))
           /\ \A p \in Parts(e, x) : PartOf(p, <<e, x>>)'
<1>1. PICK k \in Nat : k = Depth[root.type]
  BY RootAssumption, SourceAssumption, DepthAssumption DEF ViewInv, TypeOK
<1>2. Parts(e, x) \subseteq PlaceSet
  BY PartsWithin
<1>3. NoDeeper(Parts(e, x))
  BY <1>1, PartsNoDeeper DEF NoDeeper
<1>4. \A p \in Parts(e, x) : PartOf(p, <<e, x>>)'
  BY DEF PartOf, Parts
<1> QED
  BY <1>2, <1>3, <1>4

LEMMA PushElementLinked ==
    ASSUME ViewInv, SectionsPartitionUnwritten, Step, phase = "running", PushElement,
           \/ Kind[Top.node.type] \in Contiguous
           \/ Kind[Top.node.type] = "dynamic_array" /\ Top.step = "elements",
           NEW Q, Linked(Q)
    PROVE  \E S : Linked(S)'
<1>1. PICK e, x, rest, made, N :
          /\ e = Element(Top) /\ x = Top.fo /\ rest = Advanced(Top)
          /\ made = Call(e, x, Top.via, SpanOf(Top)) /\ N = Parts(e, x)
  OBVIOUS
<1> DEFINE fs == <<rest, made>>
<1>2. Top.i < Len(Top.node.sub) /\ Continue(fs) /\ used' = used
  BY <1>1 DEF PushElement, Element, Advanced
<1>3. /\ e \in Source /\ FixedSize[e.type] \in Nat
      /\ rest \in Frame /\ made \in Frame /\ Remaining(rest) \in Nat
      /\ Remaining(Top) = FixedSize[e.type] + Remaining(rest)
  BY <1>1, <1>2, NextElement
<1>4. Top \in Frame /\ FrameOK(Top) /\ x + Remaining(Top) <= used
  BY <1>1, TopCall
<1>5. used \in Nat /\ used' \in Nat /\ used' >= used /\ x \in Nat
  BY <1>1, <1>2, <1>4 DEF ViewInv, TypeOK, Frame
<1>6. Len(stack) \in 1 .. Len(stack)
  BY TopCall
<1>7. Owes(Top) = {<<e, x>>} \cup Owes(rest) /\ Owes(Top) \subseteq Q
  BY <1>1, <1>2, <1>6, OwesElements DEF Linked, Top
<1>8. <<e, x>> \in Q /\ Depth[e.type] <= Depth[root.type]
  BY <1>7 DEF Linked, NoDeeper
<1>9. N \subseteq PlaceSet /\ NoDeeper(N) /\ \A p \in N : PartOf(p, <<e, x>>)'
  <2>1. x + FixedSize[e.type] <= used'
    BY <1>2, <1>3, <1>4, <1>5
  <2> QED
    BY <1>1, <1>3, <1>5, <1>8, <2>1, PartsLinked
<1>10. Owes(made) \subseteq {<<e, x>>} \cup N
  BY <1>1, <1>3, <1>5, CallOwed
<1>11. fs \in Seq(Frame) /\ Len(fs) = 2 /\ fs[1] = rest /\ fs[2] = made
  BY <1>3
<1>12. \A k \in 1 .. Len(fs) : k = 1 \/ k = 2
  BY <1>11
<1> HIDE DEF fs
<1>13. \A k \in 1 .. Len(fs) : Owes(fs[k]) \subseteq Q \cup N
  BY <1>7, <1>8, <1>10, <1>11, <1>12
<1>14. EndsAt(Q \cup N, used')
  BY <1>2 DEF Linked, EndsAt
<1>15. \A p \in N : \E q \in Q \cup N : PartOf(p, q)' \/ Awaited(p, q)'
  BY <1>8, <1>9
<1>16. Top.step # "finish"
  BY <1>4 DEF FrameOK, Contiguous
<1>17. PICK n : n = Top.node
  OBVIOUS
<1>18. Linked(Q \cup N)'
  BY <1>1, <1>2, <1>5, <1>9, <1>11, <1>13, <1>14, <1>15, <1>16, <1>17, LinkedStep
<1> QED
  BY <1>18

\* The value of an optional or a variant is linked by the offset stored for it,
\* and ends where the message ends.
LEMMA PushValueLinked ==
    ASSUME ViewInv, SectionsPartitionUnwritten, Step, phase = "running", Top.via # "span",
           NEW n, NEW o, n = Top.node, o = Top.fo, Top.step # "finish", Owes(Top) = {<<n, o>>},
           NEW value \in Source, ValuePushed(value), Depth[value.type] <= Depth[n.type],
           NEW at, at = used, PartOf(<<value, at>>, <<n, o>>)', NEW Q, Linked(Q)
    PROVE  \E S : Linked(S)'
<1>1. PICK made, N : /\ N = {<<value, at>>} \cup Parts(value, at)
                     /\ made = Call(value, at, Top.via, SpanAfterExtend(Top))
  OBVIOUS
<1> DEFINE fs == <<made>>
<1>2. Top \in Frame /\ Len(stack) \in 1 .. Len(stack)
  BY TopCall
<1>3. FixedSize[value.type] \in Nat /\ used \in Nat /\ at \in Nat /\ devirt \in Span /\ gen \in Nat
  BY SourceAssumption, TypesAssumption DEF ViewInv, TypeOK
<1>4. used' = at + FixedSize[value.type] /\ used' \in Nat /\ used' >= used /\ gen' \in Nat
  <2>1. PICK k \in Nat : k = FixedSize[value.type]
    BY <1>3
  <2>2. used' = used + k /\ gen' \in {gen, gen + 1}
    BY <2>1 DEF ValuePushed, ExtendThrough, Extend
  <2>3. \A a \in Nat : a + k \in Nat /\ a + k >= a /\ a + 1 \in Nat
    OBVIOUS
  <2> QED
    BY <1>3, <2>1, <2>2, <2>3
<1>5. made \in Frame
  <2>1. SpanAfterExtend(Top) \in Span
    BY <1>3, <1>4 DEF ValuePushed, SpanAfterExtend, ExtendThrough, BufferSpan, Span
  <2>2. Top.via \in {"buffer", "devirt", "span"}
    BY <1>2 DEF Frame
  <2> QED
    BY <1>1, <1>3, <2>1, <2>2, CallFrame
<1>6. fs \in Seq(Frame) /\ Len(fs) = 1 /\ fs[1] = made /\ Continue(fs)
  BY <1>1, <1>5 DEF ValuePushed
<1>7. \A k \in 1 .. Len(fs) : k = 1
  BY <1>6
<1> HIDE DEF fs
<1>8. <<n, o>> \in Q /\ n \in Source /\ Depth[n.type] <= Depth[root.type]
  <2>1. <<n, o>> \in Q
    BY <1>2 DEF Linked, Top
  <2> QED
    BY <2>1 DEF Linked, NoDeeper, PlaceSet
<1>9. Depth[value.type] <= Depth[root.type]
  <2>1. Depth[value.type] \in Nat /\ Depth[n.type] \in Nat /\ Depth[root.type] \in Nat
    BY <1>8, RootAssumption, SourceAssumption, DepthAssumption DEF ViewInv, TypeOK
  <2> QED
    BY <1>8, <2>1
<1>10. Parts(value, at) \subseteq PlaceSet /\ NoDeeper(Parts(value, at))
       /\ \A p \in Parts(value, at) : PartOf(p, <<value, at>>)'
  <2>1. at + FixedSize[value.type] <= used'
    BY <1>3, <1>4
  <2> QED
    BY <1>3, <1>4, <1>9, <2>1, PartsLinked
<1>11. N \subseteq PlaceSet /\ NoDeeper(N)
  BY <1>1, <1>3, <1>9, <1>10 DEF PlaceSet, NoDeeper
<1>12. EndsAt(Q \cup N, used')
  BY <1>1, <1>4 DEF EndsAt
<1>13. \A p \in N : \E q \in Q \cup N : PartOf(p, q)' \/ Awaited(p, q)'
  BY <1>1, <1>8, <1>10
<1>14. \A k \in 1 .. Len(fs) : Owes(fs[k]) \subseteq Q \cup N
  <2>1. Owes(made) \subseteq N
    BY <1>1, <1>3, CallOwed
  <2> QED
    BY <1>6, <1>7, <2>1
<1>15. Linked(Q \cup N)'
  BY <1>4, <1>6, <1>11, <1>12, <1>13, <1>14, LinkedStep
<1> QED
  BY <1>15

\* The value in an optional or a variant is not deeper than these.
LEMMA FirstLessDeep ==
    ASSUME NEW n \in Source, n.sub # <<>>, NEW value, value = n.sub[1]
    PROVE  Depth[value.type] <= Depth[n.type]
<1>1. n.sub \in Seq(Source)
  BY SourceAssumption
<1>2. PICK k \in Nat : k = Len(n.sub)
  BY <1>1
<1>3. k # 0
  BY <1>1, <1>2, EmptySeq
<1>4. 1 \in 1 .. Len(n.sub)
  BY <1>2, <1>3
<1> QED
  BY <1>4, SubsLessDeep

\* Nothing is left of a message that failed.
LEMMA FailedLinked ==
    ASSUME phase' = "failed", stack' = <<>>
    PROVE  \E S : Linked(S)'
<1>1. PICK S : S = {}
  OBVIOUS
<1>2. \A j \in 1 .. Len(stack') : FALSE
  OBVIOUS
<1>3. Linked(S)'
  BY <1>1, <1>2 DEF Linked, NoDeeper
<1> QED
  BY <1>3

LEMMA OptionalLinked ==
    ASSUME ViewInv, SectionsPartitionUnwritten, Step, NEW Q, Linked(Q), SerialiseOptionalValue
    PROVE  \E S : Linked(S)'
<1>1. PICK n, o, at, value : n = Top.node /\ o = Top.fo /\ at = used /\ value = n.sub[1]
  OBVIOUS
<1>2. /\ phase = "running" /\ Kind[n.type] = "optional" /\ n.sub # <<>>
      /\ value \in Source /\ at \in Nat /\ Top.via # "span"
      /\ Owes(Top) = {<<n, o>>} /\ Parts(n, o) = {}
      /\ \/ phase' = "failed" /\ stack' = <<>>
         \/ /\ at + 1 <= MaxDataOffset /\ ValuePushed(value)
            /\ Holds(o, at + 1, OffsetWidth)'
  BY <1>1, OptionalStores
<1>3. Top.step = "serialise" /\ n \in Source
  BY <1>1, <1>2, TopCall DEF SerialiseOptionalValue, Active, Frame
<1>4. Depth[value.type] <= Depth[n.type]
  BY <1>1, <1>2, <1>3, FirstLessDeep
<1>5. ASSUME at + 1 <= MaxDataOffset, ValuePushed(value), Holds(o, at + 1, OffsetWidth)'
      PROVE  \E S : Linked(S)'
  <2>1. PartOf(<<value, at>>, <<n, o>>)'
    BY <1>1, <1>2, <1>5 DEF PartOf
  <2> QED
    BY <1>1, <1>2, <1>3, <1>4, <1>5, <2>1, PushValueLinked
<1> QED
  BY <1>2, <1>5, FailedLinked

LEMMA VariantLinked ==
    ASSUME ViewInv, SectionsPartitionUnwritten, Step, NEW Q, Linked(Q), SerialiseVariantValue
    PROVE  \E S : Linked(S)'
<1>1. PICK n, o, at, value : n = Top.node /\ o = Top.fo /\ at = used /\ value = n.sub[1]
  OBVIOUS
<1>2. /\ phase = "running" /\ Kind[n.type] = "variant" /\ n.sub # <<>>
      /\ value \in Source /\ at \in Nat /\ Top.via # "span"
      /\ Owes(Top) = {<<n, o>>} /\ Parts(n, o) = {}
      /\ \/ phase' = "failed" /\ stack' = <<>>
         \/ /\ at <= MaxDataOffset /\ ValuePushed(value)
            /\ Holds(o, n.val, IndexWidth)' /\ Holds(o + IndexWidth, at, OffsetWidth)'
  BY <1>1, VariantStores
<1>3. Top.step = "serialise" /\ n \in Source
  BY <1>1, <1>2, TopCall DEF SerialiseVariantValue, Active, Frame
<1>4. Depth[value.type] <= Depth[n.type]
  BY <1>1, <1>2, <1>3, FirstLessDeep
<1>5. ASSUME at <= MaxDataOffset, ValuePushed(value), Holds(o + IndexWidth, at, OffsetWidth)'
      PROVE  \E S : Linked(S)'
  <2>1. PartOf(<<value, at>>, <<n, o>>)'
    BY <1>1, <1>2, <1>5 DEF PartOf
  <2> QED
    BY <1>1, <1>2, <1>3, <1>4, <1>5, <2>1, PushValueLinked
<1> QED
  BY <1>2, <1>5, FailedLinked

\* The last element of a dynamic_array ends where the extension for them ends.
LEMMA ItemsEnd ==
    ASSUME NEW n \in Source, Kind[n.type] = "dynamic_array", NEW at \in Nat, n.sub # <<>>,
           NEW size, size = at + FixedSize[Elements[n.type][1]] * Len(n.sub)
    PROVE  EndsAt(Items(n, at), size)
<1> DEFINE t == n.type
           width == FixedSize[Elements[t][1]]
<1>1. t \in Type /\ n.sub \in Seq(Source) /\ SubsHaveTypes(n)
  BY SourceAssumption
<1>2. PICK i \in Nat : i = Len(n.sub)
  BY <1>1
<1>3. i \in 1 .. Len(n.sub)
  <2>1. i # 0
    BY <1>1, <1>2, EmptySeq
  <2> QED
    BY <1>2, <2>1
<1>4. width \in Nat
  <2>1. Elements[t] \in Seq(Type) /\ Len(Elements[t]) = 1
    BY <1>1, TypesAssumption
  <2>2. Elements[t][1] \in Type
    BY <2>1
  <2> QED
    BY <2>2, TypesAssumption
<1>5. n.sub[i].type = Elements[t][1]
  BY <1>1, <1>3 DEF SubsHaveTypes
<1>6. PICK p : p = <<n.sub[i], at + width * (i - 1)>>
  OBVIOUS
<1>7. p \in Items(n, at)
  BY <1>3, <1>6 DEF Items
<1>8. p[2] + FixedSize[p[1].type] = size
  <2>1. FixedSize[p[1].type] = width /\ p[2] = at + width * (i - 1)
    BY <1>5, <1>6
  <2>2. size = at + width * i
    BY <1>2
  <2> HIDE DEF width
  <2>3. PICK k \in Nat : k = i - 1
    BY <1>3
  <2>4. i = k + 1
    BY <2>3
  <2>5. \A a, b \in Nat : a * (b + 1) = a * b + a /\ a * b \in Nat
    OBVIOUS
  <2>6. PICK y \in Nat : y = width * k
    BY <1>4, <2>3, <2>5
  <2>7. width * i = y + width
    BY <1>4, <2>3, <2>4, <2>5, <2>6
  <2>8. p[2] = at + y
    BY <2>1, <2>3, <2>6
  <2>9. at + y + width = at + (y + width)
    BY <1>4
  <2> QED
    BY <2>1, <2>2, <2>7, <2>8, <2>9
<1> QED
  BY <1>7, <1>8 DEF EndsAt

\* The elements of a dynamic_array wait for the array to store where they are.
LEMMA BeginElementsLinked ==
    ASSUME ViewInv, SectionsPartitionUnwritten, Step, NEW Q, Linked(Q), BeginElements
    PROVE  \E S : Linked(S)'
<1>1. PICK n, o, at, N : n = Top.node /\ o = Top.fo /\ at = used /\ N = Items(n, at)
  OBVIOUS
<1>2. /\ Kind[n.type] = "dynamic_array" /\ n \in Source /\ at \in Nat
      /\ Owes(Top) = {<<n, o>>}
      /\ \/ phase' = "failed" /\ stack' = <<>>
         \/ \E rest, loop : ElementsBegun(n, o, at, rest, loop)
  BY <1>1, BeginElementsExtends
<1>3. phase = "running" /\ Top.step = "serialise" /\ used \in Nat
  BY DEF BeginElements, Active, ViewInv, TypeOK
<1>4. stack \in Seq(Frame) /\ Len(stack) \in 1 .. Len(stack) /\ stack # <<>>
  BY <1>3, TopCall DEF ViewInv, TypeOK
<1>5. <<n, o>> \in Q /\ Depth[n.type] <= Depth[root.type]
  <2>1. <<n, o>> \in Q
    BY <1>2, <1>4 DEF Linked, Top
  <2> QED
    BY <2>1 DEF Linked, NoDeeper
<1>6. ASSUME NEW rest, NEW loop, ElementsBegun(n, o, at, rest, loop)
      PROVE  Linked(Q \cup N)'
  <2> DEFINE fs == <<rest, loop>>
  <2>1. /\ used' \in Nat /\ used' >= used /\ Continue(fs)
        /\ used' = at + FixedSize[Elements[n.type][1]] * Len(n.sub)
    BY <1>6 DEF ElementsBegun
  <2>2. fs \in Seq(Frame) /\ Len(fs) = 2 /\ fs[1] = rest /\ fs[2] = loop
    BY <1>6 DEF ElementsBegun
  <2>3. 1 \in 1 .. Len(fs) /\ \A k \in 1 .. Len(fs) : k = 1 \/ k = 2
    BY <2>2
  <2> HIDE DEF fs
  <2>4. N \subseteq PlaceSet
    <3>1. at + FixedSize[Elements[n.type][1]] * Len(n.sub) <= used'
      BY <2>1
    <3> QED
      BY <1>1, <1>2, <2>1, <3>1, ItemsWithin
  <2>5. NoDeeper(N)
    <3>1. PICK k \in Nat : k = Depth[root.type]
      BY RootAssumption, SourceAssumption, DepthAssumption DEF ViewInv, TypeOK
    <3> QED
      BY <1>1, <1>2, <1>5, <3>1, PartsNoDeeper DEF NoDeeper
  <2>6. EndsAt(Q \cup N, used')
    <3>1. CASE n.sub = <<>>
      <4>1. Len(n.sub) = 0
        BY <3>1
      <4>2. FixedSize[Elements[n.type][1]] \in Nat
        <5>1. n.type \in Type
          BY <1>2, SourceAssumption
        <5>2. Elements[n.type] \in Seq(Type) /\ Len(Elements[n.type]) = 1
          BY <1>2, <5>1, TypesAssumption
        <5>3. Elements[n.type][1] \in Type
          BY <5>2
        <5> QED
          BY <5>3, TypesAssumption
      <4>3. FixedSize[Elements[n.type][1]] * Len(n.sub) = 0
        BY <4>1, <4>2
      <4>4. used' = used
        BY <1>1, <1>3, <2>1, <4>3
      <4> QED
        BY <1>3, <4>4 DEF Linked, EndsAt
    <3>2. CASE n.sub # <<>>
      <4>1. EndsAt(N, used')
        BY <1>1, <1>2, <2>1, <3>2, ItemsEnd
      <4> QED
        BY <4>1 DEF EndsAt
    <3> QED
      BY <3>1, <3>2
  <2>7. \A k \in 1 .. Len(fs) : Owes(fs[k]) \subseteq Q \cup N
    BY <1>1, <1>5, <1>6, <2>2, <2>3 DEF ElementsBegun
  <2>8. ASSUME NEW p \in N
        PROVE  Awaited(p, <<n, o>>)'
    <3>1. PICK j : j = Len(stack)
      OBVIOUS
    <3>2. j \in 1 .. Len(stack') /\ stack'[j] = rest
      <4>1. /\ Len(stack') = Len(stack) - 1 + Len(fs)
            /\ \A i \in 1 .. Len(stack') :
                  stack'[i] = IF i < Len(stack) THEN stack[i] ELSE fs[i - Len(stack) + 1]
        BY <1>4, <2>1, <2>2, ContinueStack
      <4>2. PICK l \in Nat \ {0} : l = Len(stack)
        BY <1>4
      <4>3. Len(stack') = l - 1 + 2 /\ j = l
        BY <2>2, <3>1, <4>1, <4>2
      <4>4. j \in 1 .. Len(stack') /\ ~(j < l) /\ j - l + 1 = 1
        BY <4>2, <4>3
      <4> QED
        BY <2>2, <4>1, <4>2, <4>4
    <3>3. rest.step = "finish" /\ rest.node = n /\ rest.fo = o /\ rest.start = at
      BY <1>6 DEF ElementsBegun
    <3>4. p \in Items(rest.node, rest.start)
      BY <1>1, <3>3
    <3> QED
      BY <3>2, <3>3, <3>4 DEF Awaited, Items
  <2>9. \A p \in N : \E q \in Q \cup N : PartOf(p, q)' \/ Awaited(p, q)'
    BY <1>5, <2>8
  <2> QED
    BY <1>1, <1>3, <2>1, <2>2, <2>4, <2>5, <2>6, <2>7, <2>9, LinkedStep
<1> QED
  BY <1>2, <1>6, FailedLinked

\* A dynamic_array has stored where its elements are.
LEMMA FinishArrayLinked ==
    ASSUME ViewInv, SectionsPartitionUnwritten, Step, NEW Q, Linked(Q), FinishArray
    PROVE  \E S : Linked(S)'
<1>1. PICK n, o, at : n = Top.node /\ o = Top.fo /\ at = Top.start
  OBVIOUS
<1>2. /\ Kind[n.type] = "dynamic_array" /\ Top.step = "finish"
      /\ at \in Nat /\ Len(stack) \in 1 .. Len(stack)
      /\ Owes(Top) = {<<n, o>>} /\ Parts(n, o) = {}
      /\ \/ phase' = "failed" /\ stack' = <<>>
         \/ /\ Continue(<<>>) /\ used' = used
            /\ Len(n.sub) <= MaxArraySize /\ Holds(o, Len(n.sub), SizeWidth)'
            /\ n.sub # <<>> => at <= MaxDataOffset /\ Holds(o + SizeWidth, at, OffsetWidth)'
  BY <1>1, FinishArrayStores
<1>3. ASSUME Continue(<<>>), used' = used,
             n.sub # <<>> => at <= MaxDataOffset /\ Holds(o + SizeWidth, at, OffsetWidth)'
      PROVE  \E S : Linked(S)'
  <2>1. ASSUME NEW p \in Items(n, at)
        PROVE  PartOf(p, <<n, o>>)'
    <3>1. n.sub # <<>>
      BY DEF Items
    <3> QED
      BY <1>2, <1>3, <3>1 DEF PartOf, Items
  <2> QED
    BY <1>1, <1>3, <2>1, ReturnLinked
<1> QED
  BY <1>2, <1>3, FailedLinked

LEMMA StepLinked ==
    ASSUME ViewInv, SectionsPartitionUnwritten, Step, NEW Q, Linked(Q)
    PROVE  \E S : Linked(S)'
<1>1. phase = "running"
  BY StepStaysInSection
<1>2. PICK n, o : n = Top.node /\ o = Top.fo
  OBVIOUS
<1>3. CASE SerialiseNull \/ SerialiseScalar \/ SerialiseOptionalEmpty \/ SerialiseEmptyVariant
  <2>1. Continue(<<>>) /\ used' = used /\ Top.step = "serialise"
    BY <1>3 DEF SerialiseNull, SerialiseScalar, SerialiseOptionalEmpty, SerialiseEmptyVariant,
                Active
  <2>2. Top.step # "finish"
    BY <2>1
  <2> QED
    BY <1>2, <2>1, <2>2, ReturnLinked
<1>4. CASE \/ SerialisePair \/ SerialiseTuple \/ SerialiseStaticArray \/ SerialiseRecord
           \/ SerialiseElement \/ EndElements
  <2>1. /\ \/ Kind[Top.node.type] \in Contiguous
           \/ Kind[Top.node.type] = "dynamic_array" /\ Top.step = "elements"
        /\ \/ PushElement
           \/ Top.i = Len(Top.node.sub) /\ Continue(<<>>) /\ used' = used
    BY <1>4 DEF SerialisePair, SerialiseTuple, SerialiseStaticArray, SerialiseRecord,
                SerialiseElement, EndElements, ReturnAfterElements, Active, Contiguous
  <2>2. CASE PushElement
    BY <1>1, <2>1, <2>2, PushElementLinked
  <2>3. CASE Top.i = Len(Top.node.sub) /\ Continue(<<>>) /\ used' = used
    <3>1. FrameOK(Top)
      BY <1>1, TopCall
    <3>2. Top.step # "finish"
      BY <2>1, <3>1 DEF FrameOK, Contiguous
    <3> QED
      BY <1>2, <2>3, <3>2, ReturnLinked
  <2> QED
    BY <2>1, <2>2, <2>3
<1>5. CASE SerialiseOptionalValue
  BY <1>5, OptionalLinked
<1>6. CASE SerialiseVariantValue
  BY <1>6, VariantLinked
<1>7. CASE SerialiseValuelessVariant
  BY <1>7, FailedLinked DEF SerialiseValuelessVariant, Throw
<1>8. CASE BeginElements
  BY <1>8, BeginElementsLinked
<1>9. CASE FinishArray
  BY <1>9, FinishArrayLinked
<1> QED
  BY <1>3, <1>4, <1>5, <1>6, <1>7, <1>8, <1>9 DEF Step

LEMMA IdleLinked ==
    ASSUME ViewInv, UNCHANGED vars, NEW Q, Linked(Q)
    PROVE  Linked(Q)'
<1>1. /\ phase' = phase /\ root' = root /\ mem' = mem /\ used' = used /\ stack' = stack
  BY DEF vars
<1>2. KeepsWritten
  BY <1>1 DEF KeepsWritten, ViewInv, TypeOK
<1>3. Q \subseteq PlaceSet /\ NoDeeper(Q) /\ (phase \in {"running", "done"} => EndsAt(Q, used))
  BY DEF Linked
<1>4. ASSUME NEW p \in Q, p # <<root', 0>>
      PROVE  \E q \in Q : PartOf(p, q)' \/ Awaited(p, q)'
  <2>1. PICK q \in Q : PartOf(p, q) \/ Awaited(p, q)
    BY <1>1, <1>4 DEF Linked
  <2>2. CASE PartOf(p, q)
    BY <1>2, <1>3, <2>2, PartOfKept
  <2>3. CASE Awaited(p, q)
    BY <1>1, <2>3 DEF Awaited, Items
  <2> QED
    BY <2>1, <2>2, <2>3
<1>5. \A j \in 1 .. Len(stack') : Owes(stack'[j]) \subseteq Q
  BY <1>1 DEF Linked
<1>6. NoDeeper(Q)' /\ (phase' \in {"running", "done"} => EndsAt(Q, used'))
  BY <1>1, <1>3 DEF NoDeeper
<1> QED
  BY <1>1, <1>3, <1>4, <1>5, <1>6 DEF Linked, EndsAt, Owes

\* A call of serialise() begins with the root and its elements.
LEMMA SerialiseLinked ==
    ASSUME NEW s \in Root, Serialise(s)
    PROVE  \E S : Linked(S)'
<1>1. PICK at, made, N, Q : /\ at = 0 /\ made = Call(s, at, "buffer", BufferSpan')
                            /\ N = Parts(s, at) /\ Q = {<<s, at>>} \cup N
  OBVIOUS
<1>2. s \in Source /\ at \in Nat /\ FixedSize[s.type] \in Nat /\ Depth[s.type] \in Nat
  BY <1>1, RootAssumption, SourceAssumption, TypesAssumption, DepthAssumption
<1>3. /\ used' = FixedSize[s.type] /\ stack' = <<made>> /\ root' = s /\ phase' = "running"
      /\ used' \in Nat
  BY <1>1, <1>2 DEF Serialise
<1>4. Len(stack') = 1 /\ stack'[1] = made /\ \A j \in 1 .. Len(stack') : j = 1
  BY <1>3
<1>5. Q \subseteq PlaceSet
  <2>1. at + FixedSize[s.type] <= used'
    BY <1>1, <1>2, <1>3
  <2>2. Parts(s, at) \subseteq PlaceSet
    BY <1>2, <1>3, <2>1, PartsWithin
  <2> QED
    BY <1>1, <1>2, <2>2 DEF PlaceSet
<1>6. \A p \in Q : Depth[p[1].type] <= Depth[s.type]
  <2>1. PICK k \in Nat : k = Depth[s.type]
    BY <1>2
  <2>2. \A p \in N : Depth[p[1].type] <= k
    BY <1>1, <1>2, <2>1, PartsNoDeeper
  <2> QED
    BY <1>1, <1>2, <2>1, <2>2
<1>7. EndsAt(Q, used')
  <2>1. PICK p : p = <<s, at>>
    OBVIOUS
  <2>2. p \in Q /\ p[2] + FixedSize[p[1].type] = used'
    BY <1>1, <1>2, <1>3, <2>1
  <2> QED
    BY <2>2 DEF EndsAt
<1>8. ASSUME NEW p \in N
      PROVE  PartOf(p, <<s, at>>)'
  BY <1>1 DEF PartOf, Parts
<1>9. \A p \in Q : p = <<root', 0>> \/ \E q \in Q : PartOf(p, q)' \/ Awaited(p, q)'
  BY <1>1, <1>3, <1>8
<1>10. Owes(made) \subseteq Q
  BY <1>1, <1>2, CallOwed
<1>11. NoDeeper(Q)'
  BY <1>3, <1>6 DEF NoDeeper
<1>12. \A j \in 1 .. Len(stack') : Owes(stack'[j]) \subseteq Q
  BY <1>4, <1>10
<1>13. Linked(Q)'
  BY <1>5, <1>7, <1>9, <1>11, <1>12 DEF Linked, EndsAt, Owes
<1> QED
  BY <1>13

LEMMA NextLinked ==
    ASSUME ViewInv, SectionsPartitionUnwritten, [Next]_vars, NEW Q, Linked(Q)
    PROVE  \E S : Linked(S)'
<1>1. CASE Step
  BY <1>1, StepLinked
<1>2. CASE \E s \in Root : Serialise(s)
  BY <1>2, SerialiseLinked
<1>3. CASE \E s \in Root : InitialiseThrows(s)
  <2>1. phase' = "failed" /\ stack' = <<>>
    BY <1>3 DEF InitialiseThrows, ViewInv, TypeOK
  <2> QED
    BY <2>1, FailedLinked
<1>4. CASE UNCHANGED vars
  BY <1>4, IdleLinked
<1> QED
  BY <1>1, <1>2, <1>3, <1>4 DEF Next

\* In a finished message no elements wait for their array.
LEMMA DoneLinked ==
    ASSUME ViewInv, phase = "done", NEW Q, Linked(Q), NEW p \in Q, p # <<root, 0>>
    PROVE  \E q \in Q : PartOf(p, q)
<1>1. stack = <<>>
  BY DEF ViewInv, TypeOK
<1>2. \A j \in 1 .. Len(stack) : FALSE
  BY <1>1
<1> QED
  BY <1>2 DEF Linked, Awaited

-----------------------------------------------------------------------------
\* Reading all of a message that was cut.

\* The place p is read from the first c bytes of the message, without an error.
PlaceRead(p, R, m, c) ==
    /\ p \in R /\ p[2] + FixedSize[p[1].type] <= c
    /\ Deserialise(p[1].type, m, p[2]) # BufferBoundsError

LEMMA PartOfDeeper ==
    ASSUME NEW p, NEW q, q[1] \in Source, PartOf(p, q)
    PROVE  /\ Depth[q[1].type] \in Nat /\ Depth[p[1].type] \in Nat
           /\ Depth[p[1].type] < Depth[q[1].type]
<1>1. PICK n : n = q[1]
  OBVIOUS
<1>2. n.sub \in Seq(Source)
  BY <1>1, SourceAssumption
<1>3. \E i \in 1 .. Len(n.sub) : p[1] = n.sub[i]
  <2>1. ASSUME n.sub # <<>> PROVE 1 \in 1 .. Len(n.sub)
    <3>1. PICK k \in Nat : k = Len(n.sub)
      BY <1>2
    <3>2. k # 0
      BY <1>2, <2>1, <3>1, EmptySeq
    <3> QED
      BY <3>1, <3>2
  <2> QED
    BY <1>1, <2>1 DEF PartOf, Parts, Items
<1> QED
  BY <1>1, <1>3, SubsLessDeep

\* A part is where the reader looks for it.
LEMMA PartIsFound ==
    ASSUME ViewInv, NEW n, NEW o, NEW R, NEW m, NEW c, InPrefix(n, o, R, m, c),
           NEW e, NEW x \in Nat, PartOf(<<e, x>>, <<n, o>>)
    PROVE  \E i \in 1 .. Len(n.sub) : e = n.sub[i] /\ x = PartOffset(m, n, o, i)
<1> DEFINE t == n.type
<1>1. /\ t \in Type /\ n.sub \in Seq(Source) /\ o \in Nat /\ HasFixedDataSize(t)
      /\ Prefix(m, c) /\ o + FixedSize[t] <= c /\ c \in Nat
  BY PlaceFacts, TypesAssumption DEF InPrefix, Prefix
<1>2. n.sub # <<>> => 1 \in 1 .. Len(n.sub)
  <2>1. PICK k \in Nat : k = Len(n.sub)
    BY <1>1
  <2>2. n.sub # <<>> => k # 0
    BY <1>1, <2>1, EmptySeq
  <2> QED
    BY <2>1, <2>2
<1>3. CASE <<e, x>> \in Parts(n, o)
  <2>1. Kind[t] \in Contiguous
    BY <1>3 DEF Parts
  <2>2. PICK i \in 1 .. Len(n.sub) : <<e, x>> = <<n.sub[i], o + ElementOffset[t][i]>>
    BY <1>3, <2>1 DEF Parts
  <2>3. PartOffset(m, n, o, i) = o + ElementOffset[t][i]
    BY <2>1 DEF PartOffset, Contiguous
  <2> QED
    BY <2>2, <2>3
<1>4. CASE /\ Kind[t] = "optional" /\ n.sub # <<>> /\ e = n.sub[1]
           /\ x + 1 <= MaxDataOffset /\ Holds(o, x + 1, OffsetWidth)
  <2>1. PICK v \in Nat : v = x + 1
    OBVIOUS
  <2>2. Readable(o, v, OffsetWidth)
    BY <1>1, <1>4, <2>1, OffsetReadable
  <2>3. o + OffsetWidth <= c
    BY <1>1, <1>4 DEF HasFixedDataSize
  <2>4. UnsignedValue(m, o, OffsetWidth) = v
    BY <1>1, <2>2, <2>3, PrefixReads
  <2>5. PartOffset(m, n, o, 1) = v - 1
    BY <1>4, <2>4 DEF PartOffset, Contiguous
  <2> QED
    BY <1>2, <1>4, <2>1, <2>5
<1>5. CASE /\ Kind[t] = "variant" /\ n.sub # <<>> /\ e = n.sub[1]
           /\ x <= MaxDataOffset /\ Holds(o + IndexWidth, x, OffsetWidth)
  <2>1. PICK y \in Nat : y = o + IndexWidth
    BY <1>1 DEF IndexWidth
  <2>2. Readable(y, x, OffsetWidth)
    BY <1>5, <2>1, OffsetReadable
  <2>3. y + OffsetWidth <= c
    BY <1>1, <1>5, <2>1 DEF HasFixedDataSize, IndexWidth, OffsetWidth
  <2>4. UnsignedValue(m, y, OffsetWidth) = x
    BY <1>1, <2>2, <2>3, PrefixReads
  <2>5. PartOffset(m, n, o, 1) = x
    BY <1>5, <2>1, <2>4 DEF PartOffset, Contiguous
  <2> QED
    BY <1>2, <1>5, <2>5
<1>6. CASE /\ Kind[t] = "dynamic_array"
           /\ \E at \in Nat : /\ <<e, x>> \in Items(n, at)
                              /\ at <= MaxDataOffset /\ Holds(o + SizeWidth, at, OffsetWidth)
  <2>1. PICK y \in Nat : y = o + SizeWidth
    BY <1>1 DEF SizeWidth
  <2>2. PICK at \in Nat : /\ <<e, x>> \in Items(n, at)
                          /\ at <= MaxDataOffset /\ Holds(y, at, OffsetWidth)
    BY <1>6, <2>1
  <2>3. Readable(y, at, OffsetWidth)
    BY <2>1, <2>2, OffsetReadable
  <2>4. y + OffsetWidth <= c
    BY <1>1, <1>6, <2>1 DEF HasFixedDataSize, SizeWidth, OffsetWidth
  <2>5. UnsignedValue(m, y, OffsetWidth) = at
    BY <1>1, <2>3, <2>4, PrefixReads
  <2>6. PICK i \in 1 .. Len(n.sub) :
           e = n.sub[i] /\ x = at + FixedSize[Elements[t][1]] * (i - 1)
    BY <2>2 DEF Items
  <2>7. PartOffset(m, n, o, i) = at + FixedSize[Elements[t][1]] * (i - 1)
    BY <1>6, <2>1, <2>5 DEF PartOffset, Contiguous
  <2> QED
    BY <2>6, <2>7
<1> QED
  BY <1>3, <1>4, <1>5, <1>6 DEF PartOf

\* What deserialise() reads without an error is in the buffer.
LEMMA ReadIsInBounds ==
    ASSUME NEW m, NEW c, Prefix(m, c), NEW t \in Type, NEW o \in Nat,
           Deserialise(t, m, o) # BufferBoundsError
    PROVE  o + FixedSize[t] <= c
<1>1. IsBuffer(m) /\ c \in Nat /\ Size(m) = c /\ FixedSize[t] \in Nat
  BY BufferSize, TypesAssumption DEF Prefix, IsBuffer
<1>2. ~TooSmallFor(FixedSize[t], Size(m), o)
  BY <1>1, DeserialisersDefined DEF DeserialiseWith
<1> QED
  BY <1>1, <1>2 DEF TooSmallFor

\* Who reads a place without an error reads its parts without one.
LEMMA PartIsRead ==
    ASSUME ViewInv, phase = "done", NEW R, Placed(R), NEW m, NEW c, Prefix(m, c),
           NEW q, q \in PlaceSet, PlaceRead(q, R, m, c), NEW p, p \in PlaceSet, PartOf(p, q)
    PROVE  PlaceRead(p, R, m, c)
<1>1. PICK n, o, e, x, d : /\ n = q[1] /\ o = q[2] /\ e = p[1] /\ x = p[2]
                           /\ d = Deserialisers(m)
  OBVIOUS
<1>2. /\ q = <<n, o>> /\ p = <<e, x>> /\ n \in Source /\ e \in Source /\ o \in Nat /\ x \in Nat
      /\ n.type \in Type /\ e.type \in Type
  BY <1>1, SourceAssumption DEF PlaceSet
<1>3. /\ <<n, o>> \in R /\ o + FixedSize[n.type] <= c
      /\ Deserialise(n.type, m, o) # BufferBoundsError
  BY <1>1, <1>2 DEF PlaceRead
<1>4. InPrefix(n, o, R, m, c)
  BY <1>3 DEF InPrefix
<1>5. PICK i \in 1 .. Len(n.sub) : e = n.sub[i] /\ x = PartOffset(m, n, o, i)
  BY <1>2, <1>4, PartIsFound
<1>6. /\ DeserialiseWith(d, n.type, m, o) = Whole(n.type, n.val, PartsRead(d, m, n, o))
      /\ PartsPlaced(m, n, o, R)
  BY <1>4, PlaceReads
<1>7. Deserialise(n.type, m, o) = DeserialiseWith(d, n.type, m, o)
  <2>1. IsBuffer(m)
    BY DEF Prefix, IsBuffer
  <2> QED
    BY <1>1, <1>2, <2>1, DeserialisersDefined
<1>8. d[e.type][x] # BufferBoundsError
  <2>1. Whole(n.type, n.val, PartsRead(d, m, n, o)) # BufferBoundsError
    BY <1>3, <1>6, <1>7
  <2>2. i \in DOMAIN PartsRead(d, m, n, o) /\ PartsRead(d, m, n, o)[i] = d[e.type][x]
    BY <1>5 DEF PartsRead
  <2> QED
    BY <2>1, <2>2 DEF Whole
<1>9. Deserialise(e.type, m, x) # BufferBoundsError
  BY <1>1, <1>8 DEF Deserialise
<1>10. x + FixedSize[e.type] <= c
  BY <1>2, <1>9, ReadIsInBounds
<1>11. p \in R
  BY <1>2, <1>5, <1>6 DEF PartsPlaced
<1> QED
  BY <1>1, <1>9, <1>10, <1>11 DEF PlaceRead

\* Who reads the root without an error has read every place.
LEMMA AllIsRead ==
    ASSUME ViewInv, phase = "done", NEW R, Placed(R), NEW Q, Linked(Q), NEW m, NEW c, Prefix(m, c),
           Deserialise(root.type, m, 0) # BufferBoundsError
    PROVE  \A p \in Q : PlaceRead(p, R, m, c)
<1> DEFINE ReadFrom(k) ==
               \A p \in Q : Depth[root.type] <= Depth[p[1].type] + k => PlaceRead(p, R, m, c)
           S == {k \in Nat : ReadFrom(k)}
<1>1. PICK top \in Nat : top = Depth[root.type]
  BY RootAssumption, SourceAssumption, DepthAssumption DEF ViewInv, TypeOK
<1>2. Q \subseteq PlaceSet /\ \A p \in Q : Depth[p[1].type] <= top
  BY <1>1 DEF Linked, NoDeeper
<1>3. ASSUME NEW p \in Q, p = <<root, 0>>
      PROVE  PlaceRead(p, R, m, c)
  <2>1. PICK s, x : s = root /\ x = 0
    OBVIOUS
  <2>2. p \in R /\ p[1] = s /\ p[2] = x /\ s.type \in Type /\ x \in Nat
    BY <1>3, <2>1, RootAssumption, SourceAssumption DEF Placed, ViewInv, TypeOK
  <2>3. Deserialise(s.type, m, x) # BufferBoundsError
    BY <2>1
  <2>4. x + FixedSize[s.type] <= c
    BY <2>2, <2>3, ReadIsInBounds
  <2> QED
    BY <2>2, <2>3, <2>4 DEF PlaceRead
<1>4. ASSUME NEW p \in Q, p # <<root, 0>>
      PROVE  \E q \in Q : /\ Depth[q[1].type] \in Nat /\ Depth[p[1].type] \in Nat
                          /\ Depth[p[1].type] < Depth[q[1].type] /\ Depth[q[1].type] <= top
                          /\ PlaceRead(q, R, m, c) => PlaceRead(p, R, m, c)
  <2>1. PICK q \in Q : PartOf(p, q)
    BY <1>4, DoneLinked
  <2>2. p \in PlaceSet /\ q \in PlaceSet /\ q[1] \in Source
    BY <1>2 DEF PlaceSet
  <2>3. PlaceRead(q, R, m, c) => PlaceRead(p, R, m, c)
    BY <2>1, <2>2, PartIsRead
  <2> QED
    BY <1>2, <2>1, <2>2, <2>3, PartOfDeeper
<1>5. 0 \in S
  <2> SUFFICES ASSUME NEW p \in Q, top <= Depth[p[1].type] + 0
               PROVE  PlaceRead(p, R, m, c)
    BY <1>1
  <2>1. CASE p = <<root, 0>>
    BY <1>3, <2>1
  <2>2. CASE p # <<root, 0>>
    <3>1. \E q \in Q : /\ Depth[q[1].type] \in Nat /\ Depth[p[1].type] \in Nat
                       /\ Depth[p[1].type] < Depth[q[1].type] /\ Depth[q[1].type] <= top
      BY <1>4, <2>2
    <3> QED
      BY <1>1, <3>1
  <2> QED
    BY <2>1, <2>2
<1>6. ASSUME NEW k \in Nat, k \in S
      PROVE  k + 1 \in S
  <2> SUFFICES ASSUME NEW p \in Q, top <= Depth[p[1].type] + (k + 1)
               PROVE  PlaceRead(p, R, m, c)
    BY <1>1
  <2>1. CASE p = <<root, 0>>
    BY <1>3, <2>1
  <2>2. CASE p # <<root, 0>>
    <3>1. PICK q \in Q : /\ Depth[q[1].type] \in Nat /\ Depth[p[1].type] \in Nat
                         /\ Depth[p[1].type] < Depth[q[1].type]
                         /\ PlaceRead(q, R, m, c) => PlaceRead(p, R, m, c)
      BY <1>4, <2>2
    <3>2. top <= Depth[q[1].type] + k
      BY <1>1, <3>1
    <3>3. PlaceRead(q, R, m, c)
      BY <1>1, <1>6, <3>2
    <3> QED
      BY <3>1, <3>3
  <2> QED
    BY <2>1, <2>2
<1> HIDE DEF S
<1>7. top \in S
  BY <1>1, <1>5, <1>6, NumberInduction
<1>8. ReadFrom(top)
  BY <1>7 DEF S
<1> SUFFICES ASSUME NEW p \in Q PROVE PlaceRead(p, R, m, c)
  OBVIOUS
<1>9. Depth[p[1].type] \in Nat
  BY <1>2, SourceAssumption, DepthAssumption DEF PlaceSet
<1>10. Depth[root.type] <= Depth[p[1].type] + top
  BY <1>1, <1>9
<1> QED
  BY <1>8, <1>10

\* A message that lost a byte cannot be read to its end.
LEMMA CutIsNoticed ==
    ASSUME ViewInv, phase = "done", NEW R, Placed(R), NEW Q, Linked(Q), NEW m, NEW c, Prefix(m, c),
           c < used
    PROVE  Deserialise(root.type, m, 0) = BufferBoundsError
<1> SUFFICES ASSUME Deserialise(root.type, m, 0) # BufferBoundsError
             PROVE  FALSE
  OBVIOUS
<1>1. PICK p \in Q : p[2] + FixedSize[p[1].type] = used
  BY DEF Linked, EndsAt
<1>2. p[2] + FixedSize[p[1].type] <= c
  BY AllIsRead DEF PlaceRead
<1>3. used \in Nat /\ c \in Nat
  BY DEF ViewInv, TypeOK, Prefix
<1> QED
  BY <1>1, <1>2, <1>3

\* What the reader holds before the first call, if it holds the first bytes of
\* a message only.
CutReceived ==
    delivery = "cut" /\ status = "closed" =>
        /\ phase = "done"
        /\ \E t, c : c \in 0 .. used - 1 /\ buffer = Received(t, c)

\* A call of an accessor leaves no reader who has made none.
LEMMA ReadHasBegun ==
    ASSUME Reading!Read
    PROVE  status' # "closed"
<1>1. CASE Reading!Open
  BY <1>1 DEF Reading!Open, Reading!MoveTo, Reading!Fail
<1>2. CASE ~Reading!Open
  <2>1. status = "reading"
    BY <1>2 DEF Reading!Read, Reading!PairGet, Reading!TupleGet, Reading!RecordGet,
         Reading!GetElement, Reading!RecordToBase, Reading!OptionalHasValue,
         Reading!OptionalValue, Reading!VariantIndex, Reading!VariantGet, Reading!VariantVisit,
         Reading!VariantVisitNone, Reading!DynamicArraySize, Reading!StaticArrayAt,
         Reading!DynamicArrayAt, Reading!Holding
  <2>2. \A c, n : Reading!Return(c, n) => status' = status
    BY DEF Reading!Return
  <2>3. \A c, e : Reading!Fail(c, e) => status' = e
    BY DEF Reading!Fail
  <2>4. \A c, t, o, steps, e : Reading!MoveTo(c, t, o, steps, e) => status' \in {"reading", e}
    BY DEF Reading!MoveTo, Reading!Fail
  <2>5. CASE Reading!PairGet \/ Reading!TupleGet \/ Reading!RecordGet
    <3>1. \E t, o, steps : Reading!MoveTo("get_element", t, o, steps, "buffer_bounds_error")
      BY <2>5 DEF Reading!PairGet, Reading!TupleGet, Reading!RecordGet, Reading!GetElement
    <3> QED
      BY <2>4, <3>1
  <2>6. CASE Reading!RecordToBase
    BY <2>4, <2>6 DEF Reading!RecordToBase
  <2>7. CASE Reading!OptionalHasValue \/ Reading!VariantIndex \/ Reading!VariantVisitNone
             \/ Reading!DynamicArraySize
    BY <2>1, <2>2, <2>3, <2>7 DEF Reading!OptionalHasValue, Reading!VariantIndex,
       Reading!VariantVisitNone, Reading!DynamicArraySize
  <2>8. CASE Reading!OptionalValue
    BY <2>3, <2>4, <2>8 DEF Reading!OptionalValue
  <2>9. \A c, index, e : Reading!GetAlternative(c, index, e) => status' \in {"reading", e}
    BY <2>3, <2>4 DEF Reading!GetAlternative
  <2>10. CASE Reading!VariantGet
    BY <2>3, <2>9, <2>10 DEF Reading!VariantGet
  <2>11. CASE Reading!VariantVisit
    BY <2>3, <2>9, <2>11 DEF Reading!VariantVisit
  <2>12. CASE \E index \in 0 .. MaxIndex : Reading!StaticArrayAt(index)
    BY <2>3, <2>4, <2>12 DEF Reading!StaticArrayAt
  <2>13. CASE \E index \in 0 .. MaxIndex : Reading!DynamicArrayAt(index)
    BY <2>3, <2>4, <2>13 DEF Reading!DynamicArrayAt
  <2> QED
    BY <1>2, <2>5, <2>6, <2>7, <2>8, <2>10, <2>11, <2>12, <2>13 DEF Reading!Read
<1> QED
  BY <1>1, <1>2

LEMMA CutKept ==
    ASSUME ViewInv, CutReceived, [TransferNext]_transferVars
    PROVE  CutReceived'
<1> SUFFICES ASSUME delivery' = "cut", status' = "closed"
             PROVE  phase' = "done" /\ \E t, c : c \in 0 .. used' - 1 /\ buffer' = Received(t, c)'
  BY DEF CutReceived
<1>1. used \in Nat
  BY DEF ViewInv, TypeOK
<1>2. ASSUME UNCHANGED <<vars, buffer>>, delivery = "cut", status = "closed"
      PROVE  phase' = "done" /\ \E t, c : c \in 0 .. used' - 1 /\ buffer' = Received(t, c)'
  BY <1>2 DEF CutReceived, Received, vars
<1>3. CASE delivery = "none" /\ Next /\ UNCHANGED <<readingVars, delivery, node>>
  BY <1>3
<1>4. CASE Deliver("intact", used) \/ Deliver("padded", used + 1)
  BY <1>4 DEF Deliver
<1>5. CASE \E size \in 0 .. used - 1 : Deliver("cut", size)
  <2>1. PICK size \in 0 .. used - 1 : Deliver("cut", size)
    BY <1>5
  <2>2. PICK t : Reading!Receive(Received(t, size))
    BY <2>1 DEF Deliver
  <2>3. phase = "done" /\ UNCHANGED vars /\ buffer' = Received(t, size)
    BY <2>1, <2>2 DEF Deliver, Reading!Receive
  <2> QED
    BY <2>3 DEF Received, vars
<1>6. CASE delivery # "none" /\ Reading!Read /\ node' = Reached(node) /\ UNCHANGED <<vars, delivery>>
  BY <1>6, ReadHasBegun
<1>7. CASE UNCHANGED transferVars
  BY <1>2, <1>7 DEF transferVars, readingVars
<1> QED
  BY <1>3, <1>4, <1>5, <1>6, <1>7 DEF TransferNext

\* What is received of a message that was cut are its first bytes.
LEMMA ReceivedIsPrefix ==
    ASSUME ViewInv, CompleteWhenDone, phase = "done", NEW t, NEW c, c \in 0 .. used - 1, NEW m,
           m = Received(t, c).bytes
    PROVE  Prefix(m, c) /\ c < used
<1>1. used \in Nat /\ c \in Nat /\ c < used
  BY DEF ViewInv, TypeOK
<1>2. \A x \in 0 .. c - 1 : x \in 0 .. used - 1 /\ x < used
  BY <1>1
<1>3. m = [x \in 0 .. c - 1 |-> IF x < used THEN mem[x] ELSE 1]
  BY DEF Received
<1>4. \A x \in 0 .. used - 1 : mem[x] \in Nat
  BY MessageIsBuffer DEF Prefix
<1>5. m = [x \in 0 .. c - 1 |-> mem[x]]
  BY <1>2, <1>3
<1>6. m \in [0 .. c - 1 -> Nat] /\ \A x \in 0 .. c - 1 : m[x] = mem[x]
  BY <1>2, <1>4, <1>5
<1> QED
  BY <1>1, <1>6 DEF Prefix

\* For every table of types and every source: a message that serialise() has
\* returned, cut anywhere, makes some accessor throw buffer_bounds_error when
\* all of it is read (common.hpp: check_buffer_size_for), because every byte of
\* it is in the fixed data of something that the root leads to.
THEOREM TruncationIsNoticed == TransferSpec => []TruncationNoticed
<1> DEFINE HasPlaces == \E R : Placed(R)
           HasLinks == \E Q : Linked(Q)
<1>1. Init => HasPlaces /\ HasLinks
  <2> SUFFICES ASSUME Init PROVE Placed({}) /\ Linked({})
    OBVIOUS
  <2>1. stack = <<>> /\ phase = "idle"
    BY DEF Init
  <2> QED
    BY <2>1 DEF Placed, PlacesWithin, Linked, NoDeeper
<1>2. ViewInv /\ SectionsPartitionUnwritten /\ HasPlaces /\ [Next]_vars => HasPlaces'
  <2> SUFFICES ASSUME ViewInv, SectionsPartitionUnwritten, NEW R, Placed(R), [Next]_vars
               PROVE  \E S : Placed(S)'
    OBVIOUS
  <2>1. CASE Next
    BY <2>1, NextPlaced
  <2>2. CASE UNCHANGED vars
    BY <2>2, IdlePlaced
  <2> QED
    BY <2>1, <2>2
<1>3. ViewInv /\ SectionsPartitionUnwritten /\ HasLinks /\ [Next]_vars => HasLinks'
  BY NextLinked
<1>4. TransferInit => Init /\ CutReceived
  BY DEF TransferInit, CutReceived
<1>5. ViewInv /\ CutReceived /\ [TransferNext]_transferVars => CutReceived'
  BY CutKept
<1>6. ViewInv /\ CompleteWhenDone /\ HasPlaces /\ HasLinks /\ CutReceived => TruncationNoticed
  <2> SUFFICES ASSUME ViewInv, CompleteWhenDone, CutReceived, NEW R, Placed(R), NEW Q, Linked(Q),
                      delivery = "cut", status = "closed", buffer.type = root.type
               PROVE  Deserialise(root.type, buffer.bytes, 0) = BufferBoundsError
    BY DEF TruncationNoticed
  <2>1. phase = "done" /\ \E t, c : c \in 0 .. used - 1 /\ buffer = Received(t, c)
    BY DEF CutReceived
  <2>2. PICK m, t, c : c \in 0 .. used - 1 /\ buffer = Received(t, c) /\ m = buffer.bytes
    BY <2>1
  <2>3. Prefix(m, c) /\ c < used
    BY <2>1, <2>2, ReceivedIsPrefix
  <2> QED
    BY <2>1, <2>2, <2>3, CutIsNoticed
<1> HIDE DEF HasPlaces, HasLinks
<1>7. Spec => []HasPlaces
  BY <1>1, <1>2, ViewInvHolds, UnwrittenBytesPartitioned, PTL DEF Spec
<1>8. Spec => []HasLinks
  BY <1>1, <1>3, ViewInvHolds, UnwrittenBytesPartitioned, PTL DEF Spec
<1>9. TransferSpec => []HasPlaces /\ []HasLinks
  BY <1>4, <1>7, <1>8, TransferStep, PTL DEF TransferSpec, Spec
<1>10. TransferSpec => []ViewInv /\ []CompleteWhenDone
  BY <1>4, TransferStep, ViewInvHolds, MessagesComplete, PTL DEF TransferSpec, Spec
<1> QED
  BY <1>4, <1>5, <1>6, <1>9, <1>10, PTL DEF TransferSpec
=============================================================================
