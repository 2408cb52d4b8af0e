--------------------------- MODULE SerialiserProofs ---------------------------
(***************************************************************************)
(* Theorems about serialise(), for every table of types, every set of      *)
(* sources and every limit.                                                *)
(*                                                                         *)
(* 1. Bounds of the fixed data and validity of views (ViewInv).            *)
(* 2. Contents: the active calls share out the bytes not written yet, so   *)
(*    that a finished message is complete and no byte of it was written    *)
(*    twice with different values (SectionsPartitionUnwritten).            *)
(* 3. Size: a message is as long as its parts, no longer than the bound of *)
(*    the generator, and refused only if it is too large (SizeInv).        *)
(***************************************************************************)
EXTENDS MessageSize, SequenceTheorems, FiniteSetTheorems, TLAPS

-----------------------------------------------------------------------------
\* 1. Bounds and views.  Bytes.

LEMMA Divided ==
    ASSUME NEW a \in Nat, NEW b \in Nat \ {0}
    PROVE  /\ a \div b \in Nat /\ a % b \in Nat /\ a % b < b
           /\ a = (a % b) + b * (a \div b)
OBVIOUS

\* The lowest byte of a number, and the number above it.
LEMMA Digits ==
    ASSUME NEW v \in Nat
    PROVE  /\ v \div Radix \in Nat
           /\ v % Radix \in Byte
           /\ v = Then(v % Radix, v \div Radix)
<1>1. Radix \in Nat \ {0}
  BY RadixAssumption
<1> QED
  BY <1>1, Divided DEF Byte, Then

LEMMA ShiftedNumbers ==
    ASSUME NEW v \in Nat
    PROVE  /\ Shifted(v)[1] = v
           /\ \A k \in 1 .. 8 : Shifted(v)[k] \in Nat
           /\ \A k \in 1 .. 7 : Shifted(v)[k + 1] = Shifted(v)[k] \div Radix
<1> DEFINE s == Shifted(v)
<1>1. /\ s[1] = v
      /\ s[2] = s[1] \div Radix /\ s[3] = s[2] \div Radix /\ s[4] = s[3] \div Radix
      /\ s[5] = s[4] \div Radix /\ s[6] = s[5] \div Radix /\ s[7] = s[6] \div Radix
      /\ s[8] = s[7] \div Radix
  BY DEF Shifted
<1> HIDE DEF s
<1>2. \A n \in Nat : n \div Radix \in Nat
  BY Digits
<1>3. s[1] \in Nat /\ s[2] \in Nat /\ s[3] \in Nat /\ s[4] \in Nat
  BY <1>1, <1>2
<1>4. s[5] \in Nat /\ s[6] \in Nat /\ s[7] \in Nat /\ s[8] \in Nat
  BY <1>1, <1>2, <1>3
<1>5. \A k \in 1 .. 8 : s[k] \in Nat
  <2> SUFFICES ASSUME NEW k \in 1 .. 8
               PROVE  s[k] \in Nat
    OBVIOUS
  <2>1. k \in 1 .. 4 \/ k \in 5 .. 8
    OBVIOUS
  <2>2. CASE k \in 1 .. 4
    <3>1. k = 1 \/ k = 2 \/ k = 3 \/ k = 4
      BY <2>2
    <3> QED
      BY <1>3, <3>1
  <2>3. CASE k \in 5 .. 8
    <3>1. k = 5 \/ k = 6 \/ k = 7 \/ k = 8
      BY <2>3
    <3> QED
      BY <1>4, <3>1
  <2> QED
    BY <2>1, <2>2, <2>3
<1>6. \A k \in 1 .. 7 : s[k + 1] = s[k] \div Radix
  <2> SUFFICES ASSUME NEW k \in 1 .. 7
               PROVE  s[k + 1] = s[k] \div Radix
    OBVIOUS
  <2>1. \/ k = 1 /\ k + 1 = 2
        \/ k = 2 /\ k + 1 = 3
        \/ k = 3 /\ k + 1 = 4
        \/ k = 4 /\ k + 1 = 5
        \/ k = 5 /\ k + 1 = 6
        \/ k = 6 /\ k + 1 = 7
        \/ k = 7 /\ k + 1 = 8
    OBVIOUS
  <2> QED
    BY <1>1, <2>1, Zenon
<1> QED
  BY <1>1, <1>5, <1>6 DEF s

LEMMA LittleEndianBytes ==
    ASSUME NEW v \in Nat, NEW w \in {1, 2, 4, 8}
    PROVE  /\ LittleEndian(v, w) \in [1 .. w -> Byte]
           /\ Len(LittleEndian(v, w)) = w
<1>1. \A k \in 1 .. w : k \in 1 .. 8
  OBVIOUS
<1>2. \A k \in 1 .. w : Shifted(v)[k] % Radix \in Byte
  BY <1>1, ShiftedNumbers, Digits
<1>3. w \in Nat
  OBVIOUS
<1> QED
  BY <1>2, <1>3 DEF LittleEndian

LEMMA WrittenCells ==
    ASSUME NEW m \in [0 .. used - 1 -> Cell], NEW view, NEW at \in Nat,
           NEW v \in Nat, NEW w \in {1, 2, 4, 8}
    PROVE  Written(m, view, at, LittleEndian(v, w)) \in [0 .. used - 1 -> Cell]
<1> DEFINE bytes == LittleEndian(v, w)
<1>1. bytes \in [1 .. w -> Byte] /\ Len(bytes) = w
  BY LittleEndianBytes
<1> HIDE DEF bytes
<1>2. \A x \in Int : x \in at .. at + Len(bytes) - 1 => bytes[x - at + 1] \in Cell
  BY <1>1 DEF Cell
<1> QED
  BY <1>2 DEF Written, bytes

-----------------------------------------------------------------------------
\* Frames of new calls.

LEMMA CallFrame ==
    ASSUME NEW n \in Source, NEW at \in Nat, NEW view \in Span,
           NEW via \in {"buffer", "devirt", "span"}, via = "span" => IsFixed[n.type]
    PROVE  LET c == Call(n, at, via, view) IN
           /\ c \in Frame
           /\ FrameOK(c)
           /\ c.fo = at
           /\ Remaining(c) = FixedSize[n.type]
           /\ c.via # "span" => c.via = via
           /\ c.via = "span" => IsFixed[n.type] /\ c.span = view
<1> DEFINE c == Call(n, at, via, view)
           t == n.type
<1>1. t \in Type /\ n.sub \in Seq(Source)
  BY SourceAssumption
<1>2. FixedSize[t] \in Nat /\ IsFixed[t] \in BOOLEAN
  BY <1>1, TypesAssumption
<1>3. c \in Frame
  BY DEF Call, Frame, NoSpan, Span
<1>4. FrameOK(c)
  BY <1>1, <1>2 DEF Call, FrameOK
<1>5. Remaining(c) = FixedSize[t]
  <2>1. Kind[t] \in Contiguous => ElementOffset[t][1] = 0
    BY <1>1, TypesAssumption DEF HasElementOffsets
  <2> QED
    BY <2>1, <1>2 DEF Call, Remaining
<1> QED
  BY <1>3, <1>4, <1>5 DEF Call
-----------------------------------------------------------------------------
\* The stack of calls.

\* The span frame f sees after a step.
SpanNext(f) == IF f.via = "buffer" THEN BufferSpan'
               ELSE IF f.via = "devirt" THEN devirt' ELSE f.span

\* What the invariant says of a frame, in the state after a step.
GoodNext(f) ==
    /\ f \in Frame
    /\ FrameOK(f)
    /\ f.fo + Remaining(f) <= used'
    /\ SpanNext(f) = BufferSpan'

LEMMA ContinueStack ==
    ASSUME stack \in Seq(Frame), stack # <<>>, NEW fs \in Seq(Frame), Continue(fs)
    PROVE  /\ stack' \in Seq(Frame)
           /\ Len(stack') = Len(stack) - 1 + Len(fs)
           /\ \A j \in 1 .. Len(stack') :
                 stack'[j] = IF j < Len(stack) THEN stack[j] ELSE fs[j - Len(stack) + 1]
           /\ phase' \in {"running", "done"}
           /\ phase' = "running" <=> stack' # <<>>
<1> DEFINE below == SubSeq(stack, 1, Len(stack) - 1)
<1>1. Len(stack) \in Nat \ {0}
  BY EmptySeq
<1>2. /\ below \in Seq(Frame)
      /\ Len(below) = Len(stack) - 1
      /\ \A j \in 1 .. Len(stack) - 1 : below[j] = stack[j]
  <2>1. \A j \in 1 .. Len(stack) - 1 : stack[j] \in Frame
    BY <1>1, ElementOfSeq
  <2>2. /\ below \in Seq(Frame)
        /\ Len(below) = IF 1 <= Len(stack) - 1 THEN Len(stack) - 1 - 1 + 1 ELSE 0
        /\ \A j \in 1 .. Len(stack) - 1 - 1 + 1 : below[j] = stack[1 + j - 1]
    BY <1>1, <2>1, SubSeqProperties
  <2> HIDE DEF below
  <2>3. Len(below) = Len(stack) - 1
    <3>1. CASE Len(stack) = 1
      BY <2>2, <3>1
    <3>2. CASE Len(stack) > 1
      BY <1>1, <2>2, <3>2
    <3>3. \A k \in Nat \ {0} : k = 1 \/ k > 1
      OBVIOUS
    <3> QED
      BY <1>1, <3>1, <3>2, <3>3
  <2>4. ASSUME NEW j \in 1 .. Len(stack) - 1
        PROVE  below[j] = stack[j]
    <3>1. j \in 1 .. Len(stack) - 1 - 1 + 1 /\ 1 + j - 1 = j
      BY <1>1
    <3> QED
      BY <2>2, <3>1
  <2> QED
    BY <2>2, <2>3, <2>4
<1> HIDE DEF below
<1>3. /\ below \o fs \in Seq(Frame)
      /\ Len(below \o fs) = Len(below) + Len(fs)
      /\ \A j \in 1 .. Len(below) + Len(fs) :
            (below \o fs)[j] = IF j <= Len(below) THEN below[j] ELSE fs[j - Len(below)]
  BY <1>2, ConcatProperties
<1>4. stack' = below \o fs
  BY DEF Continue, below
<1>5. Len(fs) \in Nat
  OBVIOUS
<1>6. \A j \in 1 .. Len(stack') :
         stack'[j] = IF j < Len(stack) THEN stack[j] ELSE fs[j - Len(stack) + 1]
  <2> TAKE j \in 1 .. Len(stack')
  <2>1. j \in 1 .. Len(below) + Len(fs)
    BY <1>3, <1>4
  <2>2. CASE j < Len(stack)
    <3>1. j <= Len(below) /\ j \in 1 .. Len(stack) - 1
      BY <1>1, <1>2, <2>1, <2>2
    <3>2. stack'[j] = below[j]
      BY <1>3, <1>4, <2>1, <3>1
    <3> QED
      BY <1>2, <2>2, <3>1, <3>2
  <2>3. CASE ~(j < Len(stack))
    <3>1. j - Len(below) = j - Len(stack) + 1 /\ ~(j <= Len(below))
      BY <1>1, <1>2, <2>1, <2>3
    <3> QED
      BY <1>3, <1>4, <2>1, <2>3, <3>1
  <2> QED
    BY <2>2, <2>3
<1> QED
  BY <1>1, <1>2, <1>3, <1>4, <1>5, <1>6 DEF Continue

\* Replacing the innermost call by calls that are good and nest in the calls
\* that stay keeps the part of the invariant that is about the stack.
LEMMA StackStep ==
    ASSUME TypeOK, ViewsNest, stack # <<>>, NEW fs \in Seq(Frame), Continue(fs),
           \A j \in 1 .. Len(stack) - 1 : GoodNext(stack[j]),
           \A k \in 1 .. Len(fs) : GoodNext(fs[k]) /\ Nests(Top, fs[k]),
           \A k, l \in 1 .. Len(fs) : k < l => Nests(fs[k], fs[l])
    PROVE  /\ stack' \in Seq(Frame)
           /\ phase' \in {"running", "done"}
           /\ phase' = "running" <=> stack' # <<>>
           /\ FramesOK' /\ ViewsNest' /\ FixedDataInBounds' /\ NoDanglingView'
<1> DEFINE n == Len(stack)
<1>1. stack \in Seq(Frame) /\ n \in Nat \ {0}
  BY EmptySeq DEF TypeOK
<1>2. /\ stack' \in Seq(Frame)
      /\ Len(stack') = n - 1 + Len(fs)
      /\ \A j \in 1 .. Len(stack') : stack'[j] = IF j < n THEN stack[j] ELSE fs[j - n + 1]
      /\ phase' \in {"running", "done"}
      /\ phase' = "running" <=> stack' # <<>>
  BY <1>1, ContinueStack
<1>3. Len(fs) \in Nat /\ Len(stack') \in Nat
  BY <1>2
<1>4. ASSUME NEW j \in 1 .. Len(stack')
      PROVE  \/ j < n /\ j \in 1 .. n - 1 /\ stack'[j] = stack[j]
             \/ ~(j < n) /\ j - n + 1 \in 1 .. Len(fs) /\ stack'[j] = fs[j - n + 1]
  BY <1>1, <1>2, <1>3
<1>5. \A j \in 1 .. Len(stack') : GoodNext(stack'[j])
  BY <1>4
<1>6. FramesOK' /\ FixedDataInBounds' /\ NoDanglingView'
  <2>1. \A j \in 1 .. Len(stack') : FrameOK(stack'[j])
    BY <1>5 DEF GoodNext
  <2>2. ASSUME NEW j \in 1 .. Len(stack')
        PROVE  SpanOf(stack[j])' = BufferSpan'
    BY <1>5 DEF GoodNext, SpanNext, SpanOf, BufferSpan
  <2>3. ASSUME NEW j \in 1 .. Len(stack')
        PROVE  stack'[j].fo + Remaining(stack'[j]) <= used'
    BY <1>5 DEF GoodNext
  <2>4. FramesOK'
    BY <2>1 DEF FramesOK, FrameOK
  <2>5. NoDanglingView'
    BY <2>2 DEF NoDanglingView
  <2>6. FixedDataInBounds'
    <3>1. BufferSpan'.size = used'
      BY DEF BufferSpan
    <3> QED
      BY <2>2, <2>3, <3>1 DEF FixedDataInBounds, Remaining
  <2> QED
    BY <2>4, <2>5, <2>6
<1>7. ViewsNest'
  <2> SUFFICES ASSUME NEW j \in 1 .. Len(stack'), NEW k \in 1 .. Len(stack'), j < k
               PROVE  Nests(stack'[j], stack'[k])
    BY DEF ViewsNest, Nests
  <2>1. CASE k < n
    <3>1. /\ j \in 1 .. n /\ k \in 1 .. n /\ j < n
      BY <1>1, <1>3, <2>1
    <3>2. stack'[j] = stack[j] /\ stack'[k] = stack[k]
      BY <1>4, <2>1, <3>1
    <3> QED
      BY <3>1, <3>2 DEF ViewsNest
  <2>2. CASE ~(k < n) /\ j < n
    <3>1. Nests(stack[j], Top) /\ stack'[j] = stack[j]
      <4>1. j \in 1 .. Len(stack) /\ Len(stack) \in 1 .. Len(stack) /\ j < Len(stack)
        BY <1>1, <2>2
      <4> QED
        BY <1>4, <2>2, <4>1 DEF ViewsNest, Top
    <3>2. Nests(Top, fs[k - n + 1]) /\ stack'[k] = fs[k - n + 1]
      BY <1>4, <2>2
    <3> QED
      BY <3>1, <3>2 DEF Nests
  <2>3. CASE ~(j < n)
    <3>1. /\ ~(k < n) /\ j - n + 1 \in 1 .. Len(fs) /\ k - n + 1 \in 1 .. Len(fs)
          /\ j - n + 1 < k - n + 1
      BY <1>1, <1>4, <2>3
    <3> QED
      BY <1>4, <2>3, <3>1
  <2> QED
    BY <1>1, <2>1, <2>2, <2>3
<1> QED
  BY <1>2, <1>6, <1>7

-----------------------------------------------------------------------------
\* What one step does to the invariant, by the kind of step.

\* The innermost call of a running serialisation.
LEMMA TopCall ==
    ASSUME ViewInv, phase = "running"
    PROVE  /\ stack # <<>> /\ Len(stack) \in Nat \ {0}
           /\ Top \in Frame /\ FrameOK(Top)
           /\ Top.fo + Remaining(Top) <= used
           /\ SpanOf(Top) = BufferSpan
           /\ SubsHaveTypes(Top.node)
           /\ Top.node.sub \in Seq(Source)
           /\ Top.node.val \in Nat
           /\ Top.node.type \in Type
<1>1. stack # <<>> /\ stack \in Seq(Frame)
  BY DEF ViewInv, TypeOK
<1>2. Len(stack) \in Nat \ {0} /\ Len(stack) \in 1 .. Len(stack)
  BY <1>1, EmptySeq
<1>3. Top \in Frame
  BY <1>1, <1>2, ElementOfSeq DEF Top
<1>4. SpanOf(Top) = BufferSpan
  BY <1>2 DEF ViewInv, NoDanglingView, Top
<1>5. Top.fo + Remaining(Top) <= used
  BY <1>2, <1>4 DEF ViewInv, FixedDataInBounds, Top, BufferSpan
<1>6. FrameOK(Top)
  BY <1>2 DEF ViewInv, FramesOK, Top
<1> QED
  BY <1>1, <1>2, <1>3, <1>4, <1>5, <1>6, SourceAssumption DEF Frame

\* Without an extension, the calls that stay keep what they had.
LEMMA BelowUnchanged ==
    ASSUME ViewInv, UNCHANGED <<used, gen, devirt>>
    PROVE  \A j \in 1 .. Len(stack) : GoodNext(stack[j])
<1> TAKE j \in 1 .. Len(stack)
<1>1. stack[j] \in Frame
  BY ElementOfSeq DEF ViewInv, TypeOK
<1>2. FrameOK(stack[j])
  BY DEF ViewInv, FramesOK
<1>3. SpanOf(stack[j]) = BufferSpan
  BY DEF ViewInv, NoDanglingView
<1>4. stack[j].fo + Remaining(stack[j]) <= used
  BY <1>3 DEF ViewInv, FixedDataInBounds, BufferSpan
<1> QED
  BY <1>1, <1>2, <1>3, <1>4 DEF GoodNext, SpanOf, SpanNext, BufferSpan

\* What a call has still to write is a number.
LEMMA RemainingInt ==
    ASSUME NEW f \in Frame, FrameOK(f)
    PROVE  Remaining(f) \in Int
<1> DEFINE t == f.node.type
<1>1. f.node \in Source /\ f.i \in Nat /\ f.i <= Len(f.node.sub)
  BY DEF Frame, FrameOK
<1>2. t \in Type /\ f.node.sub \in Seq(Source) /\ SubsHaveTypes(f.node)
  BY <1>1, SourceAssumption
<1>3. FixedSize[t] \in Nat
  BY <1>2, TypesAssumption
<1>4. CASE Kind[t] \in Contiguous
  <2>1. f.i + 1 \in 1 .. Len(Elements[t]) + 1 /\ Elements[t] \in Seq(Type)
    BY <1>1, <1>2, <1>4, TypesAssumption DEF SubsHaveTypes
  <2>2. ElementOffset[t][f.i + 1] \in Nat
    BY <1>2, <1>4, <2>1, TypesAssumption DEF HasElementOffsets
  <2> QED
    BY <1>3, <1>4, <2>2 DEF Remaining
<1>5. CASE Kind[t] \notin Contiguous /\ f.step = "elements"
  <2>1. Kind[t] = "dynamic_array"
    BY <1>5 DEF FrameOK
  <2>2. Elements[t] \in Seq(Type) /\ Len(Elements[t]) = 1
    BY <1>2, <2>1, TypesAssumption
  <2>3. FixedSize[Elements[t][1]] \in Nat
    BY <2>2, TypesAssumption
  <2>4. Len(f.node.sub) \in Nat
    BY <1>2
  <2>5. Len(f.node.sub) - f.i \in Int
    BY <1>1, <2>4
  <2>6. \A a, b \in Int : a * b \in Int
    OBVIOUS
  <2>7. Remaining(f) = FixedSize[Elements[t][1]] * (Len(f.node.sub) - f.i)
    BY <1>5 DEF Remaining
  <2> HIDE DEF t
  <2> QED
    BY <2>3, <2>5, <2>6, <2>7
<1>6. CASE Kind[t] \notin Contiguous /\ f.step # "elements"
  BY <1>3, <1>6 DEF Remaining
<1> QED
  BY <1>4, <1>5, <1>6

\* An extension leaves the calls below with a current view: none of them is on
\* a span, and those on the wrapper see its refreshed span.
LEMMA BelowExtended ==
    ASSUME ViewInv, phase = "running", Top.via # "span",
           used' \in Nat, used' >= used, Top.via = "devirt" => devirt' = BufferSpan'
    PROVE  \A j \in 1 .. Len(stack) - 1 : GoodNext(stack[j])
<1> TAKE j \in 1 .. Len(stack) - 1
<1>1. Len(stack) \in Nat \ {0} /\ Top \in Frame
  BY TopCall
<1>2. j \in 1 .. Len(stack) /\ Len(stack) \in 1 .. Len(stack) /\ j < Len(stack)
  BY <1>1
<1>3. stack[j] \in Frame
  BY <1>2, ElementOfSeq DEF ViewInv, TypeOK
<1>4. FrameOK(stack[j])
  BY <1>2 DEF ViewInv, FramesOK
<1>5. SpanOf(stack[j]) = BufferSpan
  BY <1>2 DEF ViewInv, NoDanglingView
<1>6. stack[j].fo + Remaining(stack[j]) <= used
  BY <1>2, <1>5 DEF ViewInv, FixedDataInBounds, BufferSpan
<1>7. Nests(stack[j], Top)
  BY <1>2 DEF ViewInv, ViewsNest, Top
<1>8. Remaining(stack[j]) \in Int
  BY <1>3, <1>4, RemainingInt
<1>9. stack[j].fo + Remaining(stack[j]) <= used'
  <2>1. stack[j].fo \in Nat /\ used \in Nat
    BY <1>3 DEF Frame, ViewInv, TypeOK
  <2> QED
    BY <1>6, <1>8, <2>1
<1>10. SpanNext(stack[j]) = BufferSpan'
  <2>1. stack[j].via \in {"buffer", "devirt", "span"} /\ Top.via \in {"buffer", "devirt"}
    BY <1>1, <1>3 DEF Frame
  <2> QED
    BY <1>7, <2>1 DEF Nests, SpanNext
<1> QED
  BY <1>3, <1>4, <1>9, <1>10 DEF GoodNext

\* A throw leaves an empty stack, and the buffer as large as it was.
LEMMA ThrowKeepsViewInv ==
    ASSUME ViewInv, NEW e \in {"bad_alloc", "object_size_error", "bad_variant_access"},
           NEW m \in [0 .. used - 1 -> Cell], Throw(e, m)
    PROVE  ViewInv'
<1>1. TypeOK'
  BY EmptySeq DEF ViewInv, TypeOK, Throw, NoSpan, Span
<1>2. Len(stack') = 0
  BY DEF Throw
<1> QED
  BY <1>1, <1>2 DEF ViewInv, FramesOK, ViewsNest, FixedDataInBounds, NoDanglingView

\* Replacing the innermost call, whether the buffer is extended or not.
LEMMA ContinueKeepsViewInv ==
    ASSUME ViewInv, phase = "running", NEW fs \in Seq(Frame), Continue(fs),
           used' \in Nat, gen' \in Nat, devirt' \in Span, mem' \in [0 .. used' - 1 -> Cell],
           \A j \in 1 .. Len(stack) - 1 : GoodNext(stack[j]),
           \A k \in 1 .. Len(fs) : GoodNext(fs[k]) /\ Nests(Top, fs[k]),
           \A k, l \in 1 .. Len(fs) : k < l => Nests(fs[k], fs[l])
    PROVE  ViewInv'
<1>1. stack # <<>>
  BY TopCall
<1>2. /\ stack' \in Seq(Frame)
      /\ phase' \in {"running", "done"}
      /\ phase' = "running" <=> stack' # <<>>
      /\ FramesOK' /\ ViewsNest' /\ FixedDataInBounds' /\ NoDanglingView'
  BY <1>1, StackStep DEF ViewInv
<1>3. UNCHANGED <<error, root>>
  BY DEF Continue
<1> QED
  BY <1>2, <1>3 DEF ViewInv, TypeOK

\* A call that writes (m is what mem becomes) and returns.
LEMMA ReturnKeepsViewInv ==
    ASSUME ViewInv, phase = "running", Continue(<<>>), UNCHANGED <<used, gen, devirt>>,
           mem' \in [0 .. used - 1 -> Cell]
    PROVE  ViewInv'
<1>1. Len(stack) \in Nat \ {0}
  BY TopCall
<1>2. \A j \in 1 .. Len(stack) - 1 : GoodNext(stack[j])
  BY <1>1, BelowUnchanged
<1>3. <<>> \in Seq(Frame) /\ Len(<<>>) = 0
  BY EmptySeq
<1>4. used' \in Nat /\ gen' \in Nat /\ devirt' \in Span
  BY DEF ViewInv, TypeOK
<1>5. mem' \in [0 .. used' - 1 -> Cell]
  OBVIOUS
<1> QED
  BY <1>2, <1>3, <1>4, <1>5, ContinueKeepsViewInv

\* The element that PushElement is at, and the frame with it pushed.
Element(f) == f.node.sub[f.i + 1]
Advanced(f) == [f EXCEPT !.i = @ + 1, !.fo = @ + FixedSize[Element(f).type]]

\* The next element's call gets the front of the section, the rest stays.
LEMMA NextElement ==
    ASSUME ViewInv, phase = "running", Top.i < Len(Top.node.sub),
           \/ Kind[Top.node.type] \in Contiguous
           \/ Kind[Top.node.type] = "dynamic_array" /\ Top.step = "elements"
    PROVE  LET e == Element(Top)
               rest == Advanced(Top)
               call == Call(e, Top.fo, Top.via, SpanOf(Top))
           IN  /\ e \in Source /\ FixedSize[e.type] \in Nat
               /\ rest \in Frame /\ FrameOK(rest)
               /\ rest.via = Top.via /\ rest.span = Top.span
               /\ rest.fo = Top.fo + FixedSize[e.type]
               /\ Remaining(rest) \in Nat
               /\ Remaining(Top) = FixedSize[e.type] + Remaining(rest)
               /\ call \in Frame /\ FrameOK(call)
               /\ call.fo = Top.fo /\ Remaining(call) = FixedSize[e.type]
               /\ call.via # "span" => call.via = Top.via
               /\ call.via = "span" => call.span = SpanOf(Top)
               /\ Top.via = "span" => call.via = "span"
<1> DEFINE f == Top
           t == f.node.type
           e == Element(f)
           rest == Advanced(f)
           call == Call(e, f.fo, f.via, SpanOf(f))
<1> USE DEF Element, Advanced
<1>1. /\ f \in Frame /\ FrameOK(f) /\ SpanOf(f) = BufferSpan
      /\ SubsHaveTypes(f.node) /\ f.node.sub \in Seq(Source) /\ t \in Type
  BY TopCall
<1>2. f.i < Len(f.node.sub)
  OBVIOUS
<1>3. used \in Nat /\ gen \in Nat
  BY DEF ViewInv, TypeOK
<1>4. f.i \in Nat /\ f.fo \in Nat /\ f.via \in {"buffer", "devirt", "span"} /\ f.node \in Source
  BY <1>1 DEF Frame
<1>5. f.i + 1 \in 1 .. Len(f.node.sub) /\ Len(f.node.sub) \in Nat
  BY <1>1, <1>2, <1>4
<1>6. e \in Source /\ e.type \in Type /\ FixedSize[e.type] \in Nat
  <2>1. f.node.sub \in Seq(Source)
    BY <1>4, SourceAssumption
  <2>2. e \in Source
    BY <1>5, <2>1, ElementOfSeq
  <2> HIDE DEF e
  <2> QED
    BY <2>2, SourceAssumption, TypesAssumption
<1>7. Elements[t] \in Seq(Type) /\ FixedSize[t] \in Nat
  BY <1>1, TypesAssumption
<1>8. /\ Remaining(rest) \in Nat
      /\ Remaining(f) = FixedSize[e.type] + Remaining(rest)
      /\ f.via = "span" => IsFixed[e.type]
  <2>1. /\ rest.node = f.node /\ rest.i = f.i + 1 /\ rest.step = f.step
    BY <1>1 DEF Frame
  <2>2. CASE Kind[t] \in Contiguous
    <3>1. Len(f.node.sub) = Len(Elements[t]) /\ e.type = Elements[t][f.i + 1]
      BY <1>1, <1>5, <2>2 DEF SubsHaveTypes
    <3>2. /\ ElementOffset[t][f.i + 2] = ElementOffset[t][f.i + 1] + FixedSize[e.type]
          /\ ElementOffset[t][f.i + 2] <= FixedSize[t]
          /\ ElementOffset[t][f.i + 1] \in Nat /\ ElementOffset[t][f.i + 2] \in Nat
      <4>1. HasElementOffsets(t)
        BY <1>1, <2>2, TypesAssumption
      <4>2. f.i + 1 + 1 = f.i + 2 /\ f.i + 1 \in 1 .. Len(Elements[t]) + 1
            /\ f.i + 2 \in 1 .. Len(Elements[t]) + 1 /\ f.i + 1 \in 1 .. Len(Elements[t])
        <5> DEFINE i == f.i
                   n == Len(Elements[t])
        <5>1. i \in Nat /\ n \in Nat /\ i + 1 \in 1 .. n
          BY <1>4, <1>5, <3>1
        <5> HIDE DEF i, n
        <5>2. i + 1 + 1 = i + 2 /\ i + 1 \in 1 .. n + 1 /\ i + 2 \in 1 .. n + 1
          BY <5>1
        <5> QED
          BY <5>1, <5>2 DEF i, n
      <4>3. \A k \in 1 .. Len(Elements[t]) :
               /\ ElementOffset[t][k + 1] = ElementOffset[t][k] + FixedSize[Elements[t][k]]
               /\ ElementOffset[t][k + 1] <= FixedSize[t]
        BY <4>1 DEF HasElementOffsets
      <4>4. \A k \in 1 .. Len(Elements[t]) + 1 : ElementOffset[t][k] \in Nat
        BY <4>1 DEF HasElementOffsets
      <4> HIDE DEF f, e
      <4> QED
        BY <3>1, <4>2, <4>3, <4>4
    <3>3. Remaining(f) = FixedSize[t] - ElementOffset[t][f.i + 1]
      BY <2>2 DEF Remaining
    <3>4. Remaining(rest) = FixedSize[t] - ElementOffset[t][f.i + 2]
      <4>1. Remaining(rest) = FixedSize[t] - ElementOffset[t][rest.i + 1]
        BY <2>1, <2>2 DEF Remaining
      <4>2. rest.i + 1 = f.i + 2
        BY <1>4, <2>1
      <4> QED
        BY <4>1, <4>2
    <3>5. f.via = "span" => IsFixed[e.type]
      <4>1. f.step # "elements"
        BY <1>1, <2>2 DEF FrameOK, Contiguous
      <4>2. IsFixed[t] => IsFixed[Elements[t][f.i + 1]]
        <5>1. IsFixed[t] <=> HasSpanOverload(t)
          BY <1>1, TypesAssumption
        <5>2. f.i + 1 \in 1 .. Len(Elements[t])
          BY <1>5, <3>1
        <5> QED
          BY <2>2, <5>1, <5>2 DEF HasSpanOverload, Contiguous
      <4> QED
        BY <1>1, <3>1, <4>1, <4>2 DEF FrameOK
    <3> HIDE DEF f, t, e, rest
    <3> QED
      BY <1>6, <1>7, <3>2, <3>3, <3>4, <3>5
  <2>3. CASE Kind[t] = "dynamic_array" /\ f.step = "elements"
    <3>1. e.type = Elements[t][1]
      BY <1>1, <1>5, <2>3 DEF SubsHaveTypes
    <3>2. Remaining(f) = FixedSize[e.type] * (Len(f.node.sub) - f.i)
      BY <2>3, <3>1 DEF Remaining, Contiguous
    <3>3. Remaining(rest) = FixedSize[e.type] * (Len(f.node.sub) - (f.i + 1))
      BY <2>1, <2>3, <3>1 DEF Remaining, Contiguous
    <3>4. \A a \in Nat, n, k \in Nat : k < n => /\ a * (n - (k + 1)) \in Nat
                                                /\ a * (n - k) = a + a * (n - (k + 1))
      <4> TAKE a \in Nat, n \in Nat, k \in Nat
      <4> HAVE k < n
      <4>1. PICK d \in Nat : n - (k + 1) = d /\ n - k = d + 1
        OBVIOUS
      <4>2. a * (d + 1) = a + a * d /\ a * d \in Nat
        OBVIOUS
      <4> QED
        BY <4>1, <4>2
    <3>5. f.via = "span" => IsFixed[e.type]
      BY <1>1, <2>3, <3>1 DEF FrameOK
    <3>6. f.i < Len(f.node.sub)
      BY <1>2
    <3> HIDE DEF f, t, e, rest
    <3> DEFINE a == FixedSize[e.type]
               n == Len(f.node.sub)
    <3>7. a * (n - (f.i + 1)) \in Nat /\ a * (n - f.i) = a + a * (n - (f.i + 1))
      BY <1>4, <1>5, <1>6, <3>4, <3>6
    <3> QED
      BY <3>2, <3>3, <3>5, <3>7
  <2> QED
    BY <2>2, <2>3
<1>9. /\ rest \in Frame /\ FrameOK(rest) /\ rest.via = f.via /\ rest.span = f.span
      /\ rest.fo = f.fo + FixedSize[e.type]
  <2>1. /\ rest \in Frame /\ rest.via = f.via /\ rest.span = f.span /\ rest.node = f.node
        /\ rest.step = f.step /\ rest.i = f.i + 1 /\ rest.fo = f.fo + FixedSize[e.type]
    <3>1. f.i + 1 \in Nat /\ f.fo + FixedSize[e.type] \in Nat
      <4> HIDE DEF f, e
      <4> QED
        BY <1>4, <1>6
    <3>2. rest = [f EXCEPT !.i = f.i + 1, !.fo = f.fo + FixedSize[e.type]]
      OBVIOUS
    <3> HIDE DEF f, e, rest
    <3> QED
      BY <1>1, <3>1, <3>2 DEF Frame
  <2>2. FrameOK(rest)
    BY <1>1, <1>5, <2>1 DEF FrameOK
  <2> QED
    BY <2>1, <2>2
<1>10. SpanOf(f) \in Span
  BY <1>1, <1>3 DEF BufferSpan, Span
<1>11. /\ call \in Frame /\ FrameOK(call) /\ call.fo = f.fo /\ Remaining(call) = FixedSize[e.type]
       /\ call.via # "span" => call.via = f.via
       /\ call.via = "span" => call.span = SpanOf(f)
  <2>1. f.via = "span" => IsFixed[e.type]
    BY <1>8
  <2> DEFINE at == f.fo
             view == SpanOf(f)
             via == f.via
  <2>2. at \in Nat /\ view \in Span /\ via \in {"buffer", "devirt", "span"}
        /\ (via = "span" => IsFixed[e.type]) /\ call = Call(e, at, via, view)
    BY <1>4, <1>10, <2>1
  <2> HIDE DEF f, e, call, at, view, via
  <2>3. /\ call \in Frame /\ FrameOK(call) /\ call.fo = at /\ Remaining(call) = FixedSize[e.type]
        /\ call.via # "span" => call.via = via
        /\ call.via = "span" => call.span = view
    BY <1>6, <2>2, CallFrame
  <2> QED
    BY <2>3 DEF at, view, via
<1>12. f.via = "span" => call.via = "span"
  BY <1>8 DEF Call
<1> QED
  BY <1>6, <1>8, <1>9, <1>11, <1>12

LEMMA PushElementKeepsViewInv ==
    ASSUME ViewInv, phase = "running", PushElement,
           \/ Kind[Top.node.type] \in Contiguous
           \/ Kind[Top.node.type] = "dynamic_array" /\ Top.step = "elements"
    PROVE  ViewInv'
<1> DEFINE f == Top
           e == Element(f)
           rest == Advanced(f)
           call == Call(e, f.fo, f.via, SpanOf(f))
<1>1. /\ f \in Frame /\ f.fo + Remaining(f) <= used /\ SpanOf(f) = BufferSpan
      /\ Len(stack) \in Nat \ {0}
  BY TopCall
<1>2. /\ f.i < Len(f.node.sub)
      /\ Continue(<<rest, call>>)
      /\ UNCHANGED <<mem, used, gen, devirt>>
  BY DEF PushElement, Element, Advanced
<1>3. used \in Nat /\ gen \in Nat /\ devirt \in Span /\ mem \in [0 .. used - 1 -> Cell]
  BY DEF ViewInv, TypeOK
<1>4. f.fo \in Nat /\ f.via \in {"buffer", "devirt", "span"}
  BY <1>1 DEF Frame
<1>5. /\ FixedSize[e.type] \in Nat
      /\ rest \in Frame /\ FrameOK(rest)
      /\ rest.via = f.via /\ rest.span = f.span
      /\ rest.fo = f.fo + FixedSize[e.type]
      /\ Remaining(rest) \in Nat
      /\ Remaining(f) = FixedSize[e.type] + Remaining(rest)
      /\ call \in Frame /\ FrameOK(call)
      /\ call.fo = f.fo /\ Remaining(call) = FixedSize[e.type]
      /\ call.via # "span" => call.via = f.via
      /\ call.via = "span" => call.span = SpanOf(f)
      /\ f.via = "span" => call.via = "span"
  BY <1>2, NextElement
<1> HIDE DEF f, e, rest, call
<1>6. GoodNext(rest)
  <2>1. rest.fo + Remaining(rest) <= used
    BY <1>1, <1>3, <1>4, <1>5
  <2>2. SpanNext(rest) = BufferSpan'
    BY <1>1, <1>2, <1>5 DEF SpanNext, SpanOf, BufferSpan
  <2> QED
    BY <1>2, <1>5, <2>1, <2>2 DEF GoodNext
<1>7. GoodNext(call)
  <2>1. call.fo + Remaining(call) <= used
    BY <1>1, <1>3, <1>4, <1>5
  <2>2. SpanNext(call) = BufferSpan'
    BY <1>1, <1>2, <1>4, <1>5 DEF SpanNext, SpanOf, BufferSpan
  <2> QED
    BY <1>2, <1>5, <2>1, <2>2 DEF GoodNext
<1>8. Nests(Top, rest) /\ Nests(Top, call) /\ Nests(rest, call)
  BY <1>5 DEF Nests, f
<1>9. <<rest, call>> \in Seq(Frame) /\ Len(<<rest, call>>) = 2
       /\ <<rest, call>>[1] = rest /\ <<rest, call>>[2] = call
  BY <1>5
<1>10. \A j \in 1 .. Len(stack) - 1 : GoodNext(stack[j])
  BY <1>1, <1>2, BelowUnchanged
<1>11. \A k \in 1 .. 2 : k = 1 \/ k = 2
  OBVIOUS
<1> DEFINE fs == <<rest, call>>
<1>12. /\ \A k \in 1 .. Len(fs) : GoodNext(fs[k]) /\ Nests(Top, fs[k])
       /\ \A k, l \in 1 .. Len(fs) : k < l => Nests(fs[k], fs[l])
  BY <1>6, <1>7, <1>8, <1>9, <1>11
<1>13. /\ used' \in Nat /\ gen' \in Nat /\ devirt' \in Span
       /\ mem' \in [0 .. used' - 1 -> Cell]
  BY <1>2, <1>3
<1>14. fs \in Seq(Frame) /\ Continue(fs)
  BY <1>2, <1>9
<1> HIDE DEF fs
<1> QED
  BY <1>10, <1>12, <1>13, <1>14, ContinueKeepsViewInv

\* The bytes of an extended buffer.
LEMMA ExtendTyped ==
    ASSUME TypeOK, NEW count \in Nat, NEW m \in [0 .. used - 1 -> Cell], Extend(count, m)
    PROVE  /\ used' \in Nat /\ used' = used + count
           /\ gen' \in Nat
           /\ mem' \in [0 .. used' - 1 -> Cell]
           /\ BufferSpan' \in Span
<1>1. used \in Nat /\ gen \in Nat
  BY DEF TypeOK
<1>2. used' = used + count /\ used' \in Nat /\ gen' \in Nat
  BY <1>1 DEF Extend
<1>3. mem' = [x \in 0 .. used' - 1 |-> IF x < used THEN m[x] ELSE Stale]
  BY DEF Extend
<1>4. ASSUME NEW x \in 0 .. used' - 1
      PROVE  (IF x < used THEN m[x] ELSE Stale) \in Cell
  BY <1>1, <1>2 DEF Cell
<1> QED
  BY <1>2, <1>3, <1>4 DEF BufferSpan, Span

\* push_variable_subobjects() of the value of an optional or a variant: the
\* new call's section is the extension.
LEMMA PushValueKeepsViewInv ==
    ASSUME ViewInv, phase = "running", Top.via # "span",
           NEW n \in Source, NEW m \in [0 .. used - 1 -> Cell],
           ExtendThrough(Top, FixedSize[n.type], m),
           Continue(<<Call(n, SpanOf(Top).size, Top.via, SpanAfterExtend(Top))>>)
    PROVE  ViewInv'
<1> DEFINE call == Call(n, SpanOf(Top).size, Top.via, SpanAfterExtend(Top))
           fs == <<call>>
<1>1. /\ Top \in Frame /\ SpanOf(Top) = BufferSpan /\ Len(stack) \in Nat \ {0}
  BY TopCall
<1>2. Top.via \in {"buffer", "devirt"}
  BY <1>1 DEF Frame
<1>3. TypeOK /\ used \in Nat /\ devirt \in Span
  BY DEF ViewInv, TypeOK
<1>4. n.type \in Type /\ FixedSize[n.type] \in Nat
  BY SourceAssumption, TypesAssumption
<1>5. /\ used' \in Nat /\ used' = used + FixedSize[n.type] /\ gen' \in Nat
      /\ mem' \in [0 .. used' - 1 -> Cell] /\ BufferSpan' \in Span
  BY <1>3, <1>4, ExtendTyped DEF ExtendThrough
<1>6. /\ devirt' \in Span
      /\ Top.via = "devirt" => devirt' = BufferSpan'
      /\ SpanAfterExtend(Top) = BufferSpan'
  BY <1>2, <1>3, <1>5 DEF ExtendThrough, SpanAfterExtend
<1>7. SpanOf(Top).size = used
  BY <1>1 DEF BufferSpan
<1>8. call = Call(n, used, Top.via, BufferSpan')
  BY <1>6, <1>7
<1>9. /\ call \in Frame /\ FrameOK(call) /\ call.fo = used
      /\ Remaining(call) = FixedSize[n.type]
      /\ call.via # "span" => call.via = Top.via
      /\ call.via = "span" => call.span = BufferSpan'
  <2>1. Top.via \in {"buffer", "devirt", "span"} /\ (Top.via = "span" => IsFixed[n.type])
    BY <1>2
  <2> HIDE DEF call
  <2> QED
    BY <1>3, <1>5, <1>8, <2>1, CallFrame
<1> HIDE DEF call
<1>10. GoodNext(call)
  <2>1. SpanNext(call) = BufferSpan'
    BY <1>2, <1>6, <1>9 DEF SpanNext
  <2>2. call.fo + Remaining(call) <= used'
    BY <1>3, <1>4, <1>5, <1>9
  <2> QED
    BY <1>9, <2>1, <2>2 DEF GoodNext
<1>11. Nests(Top, call)
  BY <1>2, <1>9 DEF Nests
<1>12. \A j \in 1 .. Len(stack) - 1 : GoodNext(stack[j])
  <2>1. used' >= used
    BY <1>3, <1>4, <1>5
  <2> QED
    BY <1>5, <1>6, <2>1, BelowExtended
<1>13. fs \in Seq(Frame) /\ Len(fs) = 1 /\ fs[1] = call
  BY <1>9
<1>14. Continue(fs)
  BY DEF call
<1>15. /\ \A k \in 1 .. Len(fs) : GoodNext(fs[k]) /\ Nests(Top, fs[k])
       /\ \A k, l \in 1 .. Len(fs) : k < l => Nests(fs[k], fs[l])
  BY <1>10, <1>11, <1>13
<1> HIDE DEF fs
<1> QED
  BY <1>5, <1>6, <1>12, <1>13, <1>14, <1>15, ContinueKeepsViewInv

\* dynamic_array: the array's call waits below the loop over its elements,
\* which works through the wrapper, on the section just allocated for them.
LEMMA BeginElementsKeepsViewInv ==
    ASSUME ViewInv, BeginElements
    PROVE  ViewInv'
<1> DEFINE f == Top
           t == f.node.type
           element == Elements[t][1]
           count == FixedSize[element] * Len(f.node.sub)
           loop == [f EXCEPT !.step = "elements", !.fo = SpanOf(f).size, !.i = 0,
                             !.via = IF IsFixed[element] THEN "span" ELSE "devirt",
                             !.span = IF IsFixed[element] THEN devirt' ELSE NoSpan]
           rest == [f EXCEPT !.step = "finish", !.start = SpanOf(f).size]
           fs == <<rest, loop>>
<1>1. phase = "running" /\ Kind[t] = "dynamic_array" /\ f.step = "serialise"
  BY DEF BeginElements, Active
<1>2. /\ f \in Frame /\ FrameOK(f) /\ f.fo + Remaining(f) <= used /\ SpanOf(f) = BufferSpan
      /\ f.node.sub \in Seq(Source) /\ t \in Type /\ Len(stack) \in Nat \ {0}
  BY <1>1, TopCall
<1>3. /\ TypeOK /\ used \in Nat /\ gen \in Nat /\ devirt \in Span
      /\ mem \in [0 .. used - 1 -> Cell]
  BY DEF ViewInv, TypeOK
<1>4. /\ Elements[t] \in Seq(Type) /\ Len(Elements[t]) = 1 /\ ~IsFixed[t]
      /\ FixedSize[t] \in Nat
  <2>1. /\ Elements[t] \in Seq(Type) /\ FixedSize[t] \in Nat
        /\ IsFixed[t] \in BOOLEAN /\ (IsFixed[t] <=> HasSpanOverload(t))
    BY <1>2, TypesAssumption
  <2>2. Len(Elements[t]) = 1
    BY <1>1, <1>2, TypesAssumption
  <2>3. ~HasSpanOverload(t)
    BY <1>1 DEF HasSpanOverload, Contiguous
  <2> QED
    BY <2>1, <2>2, <2>3
<1>5. element \in Type /\ FixedSize[element] \in Nat /\ IsFixed[element] \in BOOLEAN
  BY <1>4, TypesAssumption
<1>6. Len(f.node.sub) \in Nat
  BY <1>2
<1>7. count \in Nat
  <2>1. \A a, b \in Nat : a * b \in Nat
    OBVIOUS
  <2> HIDE DEF element, f
  <2> QED
    BY <1>5, <1>6, <2>1
<1>8. f.via \in {"buffer", "devirt"}
  BY <1>1, <1>2, <1>4 DEF Frame, FrameOK
<1>9. CASE Throw("bad_alloc", mem)
  BY <1>3, <1>9, ThrowKeepsViewInv
<1>10. CASE Extend(count, mem) /\ devirt' = BufferSpan' /\ Continue(fs)
  <2>1. /\ used' \in Nat /\ used' = used + count /\ gen' \in Nat
        /\ mem' \in [0 .. used' - 1 -> Cell] /\ BufferSpan' \in Span
    <3> HIDE DEF count
    <3> QED
      BY <1>3, <1>7, <1>10, ExtendTyped
  <2>2. SpanOf(f).size = used
    BY <1>2 DEF BufferSpan
  <2>3. /\ rest \in Frame /\ rest.node = f.node /\ rest.step = "finish" /\ rest.i = f.i
        /\ rest.fo = f.fo /\ rest.via = f.via
    <3> HIDE DEF f
    <3> QED
      BY <1>2, <1>3, <2>2 DEF Frame
  <2>4. /\ loop \in Frame /\ loop.node = f.node /\ loop.step = "elements" /\ loop.i = 0
        /\ loop.fo = used
        /\ loop.via = IF IsFixed[element] THEN "span" ELSE "devirt"
        /\ loop.span = IF IsFixed[element] THEN BufferSpan' ELSE NoSpan
    <3>1. NoSpan \in Span
      BY DEF NoSpan, Span
    <3> HIDE DEF f, element
    <3> QED
      BY <1>2, <1>3, <1>5, <1>10, <2>1, <2>2, <3>1 DEF Frame
  <2> HIDE DEF loop, rest
  <2>5. GoodNext(rest)
    <3>1. FrameOK(rest)
      BY <1>1, <1>2, <1>8, <2>3 DEF FrameOK
    <3>2. Remaining(rest) = Remaining(f)
      BY <1>1, <2>3 DEF Remaining
    <3>3. rest.fo + Remaining(rest) <= used'
      <4>1. Remaining(f) = FixedSize[t]
        BY <1>1 DEF Remaining, Contiguous
      <4>2. f.fo \in Nat
        BY <1>2 DEF Frame
      <4> HIDE DEF f, t, count
      <4> QED
        BY <1>2, <1>3, <1>4, <1>7, <2>1, <2>3, <3>2, <4>1, <4>2
    <3>4. SpanNext(rest) = BufferSpan'
      BY <1>8, <1>10, <2>3 DEF SpanNext
    <3> QED
      BY <2>3, <3>1, <3>3, <3>4 DEF GoodNext
  <2>6. GoodNext(loop)
    <3>1. FrameOK(loop)
      BY <1>1, <1>2, <1>5, <2>4 DEF FrameOK
    <3>2. Remaining(loop) = count
      <4>1. Len(f.node.sub) - 0 = Len(f.node.sub)
        BY <1>6
      <4>2. Remaining(loop) = FixedSize[element] * (Len(f.node.sub) - 0)
        BY <1>1, <2>4 DEF Remaining, Contiguous
      <4> QED
        BY <4>1, <4>2
    <3>3. loop.fo + Remaining(loop) <= used'
      <4> HIDE DEF count
      <4> QED
        BY <1>3, <1>7, <2>1, <2>4, <3>2
    <3>4. SpanNext(loop) = BufferSpan'
      BY <1>5, <1>10, <2>4 DEF SpanNext
    <3> QED
      BY <2>4, <3>1, <3>3, <3>4 DEF GoodNext
  <2>7. Nests(Top, rest) /\ Nests(Top, loop) /\ Nests(rest, loop)
    BY <1>5, <1>8, <2>3, <2>4 DEF Nests
  <2>8. fs \in Seq(Frame) /\ Len(fs) = 2 /\ fs[1] = rest /\ fs[2] = loop
    BY <2>3, <2>4
  <2>9. \A j \in 1 .. Len(stack) - 1 : GoodNext(stack[j])
    <3>1. used' >= used
      <4> HIDE DEF count
      <4> QED
        BY <1>3, <1>7, <2>1
    <3>2. Top.via # "span"
      BY <1>8
    <3> QED
      BY <1>1, <1>10, <2>1, <3>1, <3>2, BelowExtended
  <2>10. \A k \in 1 .. 2 : k = 1 \/ k = 2
    OBVIOUS
  <2>11. /\ \A k \in 1 .. Len(fs) : GoodNext(fs[k]) /\ Nests(Top, fs[k])
         /\ \A k, l \in 1 .. Len(fs) : k < l => Nests(fs[k], fs[l])
    BY <2>5, <2>6, <2>7, <2>8, <2>10
  <2>12. devirt' \in Span
    BY <1>10, <2>1
  <2> HIDE DEF fs
  <2> QED
    BY <1>1, <1>10, <2>1, <2>8, <2>9, <2>11, <2>12, ContinueKeepsViewInv
<1> QED
  BY <1>9, <1>10 DEF BeginElements

\* The wrapper is destroyed only when no call that stays can use it.
LEMMA EndElementsKeepsViewInv ==
    ASSUME ViewInv, EndElements
    PROVE  ViewInv'
<1>1. phase = "running" /\ Continue(<<>>) /\ UNCHANGED <<mem, used, gen>>
      /\ devirt' = IF stack[Len(stack) - 1].via = "buffer" THEN NoSpan ELSE devirt
  BY DEF EndElements, Active
<1>2. Len(stack) \in Nat \ {0}
  BY <1>1, TopCall
<1>3. /\ used' \in Nat /\ gen' \in Nat /\ devirt' \in Span
      /\ mem' \in [0 .. used' - 1 -> Cell]
  BY <1>1 DEF ViewInv, TypeOK, NoSpan, Span
<1>4. <<>> \in Seq(Frame) /\ Len(<<>>) = 0
  BY EmptySeq
<1>5. ASSUME NEW j \in 1 .. Len(stack) - 1
      PROVE  GoodNext(stack[j])
  <2>1. j \in 1 .. Len(stack) /\ Len(stack) - 1 \in 1 .. Len(stack)
    BY <1>2
  <2>2. stack[j] \in Frame
    BY <2>1, ElementOfSeq DEF ViewInv, TypeOK
  <2>3. FrameOK(stack[j])
    BY <2>1 DEF ViewInv, FramesOK
  <2>4. SpanOf(stack[j]) = BufferSpan
    BY <2>1 DEF ViewInv, NoDanglingView
  <2>5. stack[j].fo + Remaining(stack[j]) <= used
    BY <2>1, <2>4 DEF ViewInv, FixedDataInBounds, BufferSpan
  <2>6. SpanNext(stack[j]) = BufferSpan'
    <3>1. CASE stack[Len(stack) - 1].via = "buffer"
      <4>1. stack[j].via = "buffer"
        <5>1. j = Len(stack) - 1 \/ j < Len(stack) - 1
          BY <1>2
        <5>2. j < Len(stack) - 1 => Nests(stack[j], stack[Len(stack) - 1])
          BY <2>1 DEF ViewInv, ViewsNest
        <5> QED
          BY <3>1, <5>1, <5>2 DEF Nests
      <4> QED
        BY <4>1 DEF SpanNext
    <3>2. CASE stack[Len(stack) - 1].via # "buffer"
      BY <1>1, <2>4, <3>2 DEF SpanNext, SpanOf, BufferSpan
    <3> QED
      BY <3>1, <3>2
  <2> QED
    BY <1>1, <2>2, <2>3, <2>5, <2>6 DEF GoodNext
<1> QED
  BY <1>1, <1>3, <1>4, <1>5, ContinueKeepsViewInv

-----------------------------------------------------------------------------
\* The actions.

LEMMA ScalarKeepsViewInv ==
    ASSUME ViewInv, SerialiseScalar
    PROVE  ViewInv'
<1>1. phase = "running" /\ Kind[Top.node.type] = "scalar" /\ Continue(<<>>)
  BY DEF SerialiseScalar, Active
<1>2. Top.fo \in Nat /\ Top.node.val \in Nat /\ Top.node.type \in Type
  BY <1>1, TopCall DEF Frame
<1>3. FixedSize[Top.node.type] \in {1, 2, 4, 8}
  BY <1>1, <1>2, TypesAssumption DEF HasFixedDataSize
<1>4. mem \in [0 .. used - 1 -> Cell]
  BY DEF ViewInv, TypeOK
<1>5. mem' \in [0 .. used - 1 -> Cell]
  BY <1>2, <1>3, <1>4, WrittenCells DEF SerialiseScalar
<1>6. UNCHANGED <<used, gen, devirt>>
  BY DEF SerialiseScalar
<1> QED
  BY <1>1, <1>5, <1>6, ReturnKeepsViewInv

\* pair, tuple, static_array, record, and the loop over a dynamic_array's
\* elements.
LEMMA ElementsKeepViewInv ==
    ASSUME ViewInv, phase = "running", PushElement \/ ReturnAfterElements,
           \/ Kind[Top.node.type] \in Contiguous
           \/ Kind[Top.node.type] = "dynamic_array" /\ Top.step = "elements"
    PROVE  ViewInv'
<1>1. CASE PushElement
  BY <1>1, PushElementKeepsViewInv
<1>2. CASE ReturnAfterElements
  <2>1. Continue(<<>>) /\ UNCHANGED <<mem, used, gen, devirt>>
    BY <1>2 DEF ReturnAfterElements
  <2>2. mem' \in [0 .. used - 1 -> Cell]
    BY <2>1 DEF ViewInv, TypeOK
  <2> QED
    BY <2>1, <2>2, ReturnKeepsViewInv
<1> QED
  BY <1>1, <1>2

LEMMA OptionalKeepsViewInv ==
    ASSUME ViewInv, SerialiseOptionalEmpty \/ SerialiseOptionalValue
    PROVE  ViewInv'
<1>1. phase = "running" /\ Kind[Top.node.type] = "optional" /\ Top.step = "serialise"
  BY DEF SerialiseOptionalEmpty, SerialiseOptionalValue, Active
<1>2. /\ Top \in Frame /\ FrameOK(Top) /\ SpanOf(Top) = BufferSpan
      /\ Top.node.sub \in Seq(Source) /\ Top.node.type \in Type
  BY <1>1, TopCall
<1>3. Top.fo \in Nat /\ Top.via \in {"buffer", "devirt", "span"}
  BY <1>2 DEF Frame
<1>4. mem \in [0 .. used - 1 -> Cell] /\ used \in Nat
  BY DEF ViewInv, TypeOK
<1>5. SpanOf(Top).size = used
  BY <1>2 DEF BufferSpan
<1>6. \A v \in Nat : Written(mem, SpanOf(Top), Top.fo, LittleEndian(v, OffsetWidth))
                        \in [0 .. used - 1 -> Cell]
  BY <1>3, <1>4, WrittenCells DEF OffsetWidth
<1>7. CASE SerialiseOptionalEmpty
  <2>1. mem' \in [0 .. used - 1 -> Cell]
    BY <1>6, <1>7 DEF SerialiseOptionalEmpty
  <2> QED
    BY <1>1, <1>7, <2>1, ReturnKeepsViewInv DEF SerialiseOptionalEmpty
<1>8. CASE SerialiseOptionalValue
  <2> DEFINE value == Top.node.sub[1]
             m == Written(mem, SpanOf(Top), Top.fo, LittleEndian(SpanOf(Top).size + 1, OffsetWidth))
  <2>1. value \in Source
    <3>1. Top.node.sub # <<>>
      BY <1>8 DEF SerialiseOptionalValue
    <3>2. 1 \in 1 .. Len(Top.node.sub)
      BY <1>2, <3>1, EmptySeq
    <3> QED
      BY <1>2, <3>2, ElementOfSeq
  <2>2. m \in [0 .. used - 1 -> Cell]
    BY <1>4, <1>5, <1>6
  <2>3. Top.via # "span"
    BY <1>1, <1>2, TypesAssumption DEF FrameOK, HasSpanOverload, Contiguous
  <2>4. \/ Throw("object_size_error", mem)
        \/ Throw("bad_alloc", m)
        \/ /\ ExtendThrough(Top, FixedSize[value.type], m)
           /\ Continue(<<Call(value, SpanOf(Top).size, Top.via, SpanAfterExtend(Top))>>)
    BY <1>8 DEF SerialiseOptionalValue
  <2> HIDE DEF value, m
  <2> QED
    BY <1>1, <1>4, <2>1, <2>2, <2>3, <2>4, ThrowKeepsViewInv, PushValueKeepsViewInv
<1> QED
  BY <1>7, <1>8

LEMMA VariantKeepsViewInv ==
    ASSUME ViewInv,
           SerialiseEmptyVariant \/ SerialiseValuelessVariant \/ SerialiseVariantValue
    PROVE  ViewInv'
<1>1. phase = "running" /\ Kind[Top.node.type] = "variant" /\ Top.step = "serialise"
  BY DEF SerialiseEmptyVariant, SerialiseValuelessVariant, SerialiseVariantValue, Active
<1>2. /\ Top \in Frame /\ FrameOK(Top) /\ SpanOf(Top) = BufferSpan
      /\ Top.node.sub \in Seq(Source) /\ Top.node.type \in Type /\ Top.node.val \in Nat
  BY <1>1, TopCall
<1>3. Top.fo \in Nat /\ Top.fo + IndexWidth \in Nat /\ Top.via \in {"buffer", "devirt", "span"}
  BY <1>2 DEF Frame, IndexWidth
<1>4. mem \in [0 .. used - 1 -> Cell] /\ used \in Nat
  BY DEF ViewInv, TypeOK
<1>5. SpanOf(Top).size = used
  BY <1>2 DEF BufferSpan
<1>6. \A v \in Nat : Written(mem, SpanOf(Top), Top.fo, LittleEndian(v, IndexWidth))
                        \in [0 .. used - 1 -> Cell]
  BY <1>3, <1>4, WrittenCells DEF IndexWidth
<1>7. \A v, w \in Nat :
         Written(Written(mem, SpanOf(Top), Top.fo, LittleEndian(v, IndexWidth)),
                 SpanOf(Top), Top.fo + IndexWidth, LittleEndian(w, OffsetWidth))
            \in [0 .. used - 1 -> Cell]
  BY <1>3, <1>6, WrittenCells DEF OffsetWidth
<1>8. CASE SerialiseEmptyVariant
  <2>1. mem' \in [0 .. used - 1 -> Cell]
    BY <1>7, <1>8 DEF SerialiseEmptyVariant
  <2> QED
    BY <1>1, <1>8, <2>1, ReturnKeepsViewInv DEF SerialiseEmptyVariant
<1>9. CASE SerialiseValuelessVariant
  BY <1>4, <1>9, ThrowKeepsViewInv DEF SerialiseValuelessVariant
<1>10. CASE SerialiseVariantValue
  <2> DEFINE value == Top.node.sub[1]
             m1 == Written(mem, SpanOf(Top), Top.fo, LittleEndian(Top.node.val, IndexWidth))
             m2 == Written(m1, SpanOf(Top), Top.fo + IndexWidth,
                           LittleEndian(SpanOf(Top).size, OffsetWidth))
  <2>1. value \in Source
    <3>1. Top.node.sub # <<>>
      BY <1>10 DEF SerialiseVariantValue
    <3>2. 1 \in 1 .. Len(Top.node.sub)
      BY <1>2, <3>1, EmptySeq
    <3> QED
      BY <1>2, <3>2, ElementOfSeq
  <2>2. m1 \in [0 .. used - 1 -> Cell] /\ m2 \in [0 .. used - 1 -> Cell]
    BY <1>2, <1>4, <1>5, <1>6, <1>7
  <2>3. Top.via # "span"
    <3>1. Elements[Top.node.type] # <<>>
      BY <1>10 DEF SerialiseVariantValue
    <3> QED
      BY <1>1, <1>2, <3>1, TypesAssumption DEF FrameOK, HasSpanOverload, Contiguous
  <2>4. \/ Throw("object_size_error", m1)
        \/ Throw("bad_alloc", m2)
        \/ /\ ExtendThrough(Top, FixedSize[value.type], m2)
           /\ Continue(<<Call(value, SpanOf(Top).size, Top.via, SpanAfterExtend(Top))>>)
    BY <1>10 DEF SerialiseVariantValue
  <2> HIDE DEF value, m1, m2
  <2> QED
    BY <1>1, <2>1, <2>2, <2>3, <2>4, ThrowKeepsViewInv, PushValueKeepsViewInv
<1> QED
  BY <1>8, <1>9, <1>10

LEMMA FinishArrayKeepsViewInv ==
    ASSUME ViewInv, FinishArray
    PROVE  ViewInv'
<1> DEFINE count == Len(Top.node.sub)
           offset == IF count > 0 THEN Top.start ELSE 0
           m1 == Written(mem, SpanOf(Top), Top.fo, LittleEndian(count, SizeWidth))
           m2 == Written(m1, SpanOf(Top), Top.fo + SizeWidth, LittleEndian(offset, OffsetWidth))
<1>1. phase = "running"
  BY DEF FinishArray, Active
<1>2. Top \in Frame /\ Top.node.sub \in Seq(Source)
  BY <1>1, TopCall
<1>3. /\ Top.fo \in Nat /\ Top.fo + SizeWidth \in Nat
      /\ count \in Nat /\ offset \in Nat
  BY <1>2 DEF Frame, SizeWidth
<1>4. mem \in [0 .. used - 1 -> Cell]
  BY DEF ViewInv, TypeOK
<1>5. m1 \in [0 .. used - 1 -> Cell]
  BY <1>3, <1>4, WrittenCells DEF SizeWidth
<1>6. m2 \in [0 .. used - 1 -> Cell]
  <2> HIDE DEF m1
  <2> QED
    BY <1>3, <1>5, WrittenCells DEF OffsetWidth
<1>7. \/ Throw("object_size_error", mem)
      \/ Throw("object_size_error", m1)
      \/ mem' = m2 /\ Continue(<<>>) /\ UNCHANGED <<used, gen, devirt>>
  BY DEF FinishArray
<1> HIDE DEF m1, m2
<1> QED
  BY <1>1, <1>4, <1>5, <1>6, <1>7, ThrowKeepsViewInv, ReturnKeepsViewInv

\* A new serialisation starts with one call, at offset 0 of a buffer that has
\* exactly its fixed data.
LEMMA SerialiseKeepsViewInv ==
    ASSUME ViewInv, NEW s \in Root, Serialise(s)
    PROVE  ViewInv'
<1> DEFINE call == Call(s, 0, "buffer", BufferSpan')
<1>1. s \in Source /\ s.type \in Type /\ FixedSize[s.type] \in Nat
  BY RootAssumption, SourceAssumption, TypesAssumption
<1>2. /\ used' = FixedSize[s.type] /\ used' \in Nat /\ gen' = 0 /\ devirt' = NoSpan
      /\ mem' \in [0 .. used' - 1 -> Cell] /\ stack' = <<call>> /\ BufferSpan' \in Span
  BY <1>1 DEF Serialise, Cell, BufferSpan, Span
<1>3. /\ call \in Frame /\ FrameOK(call) /\ call.fo = 0
      /\ Remaining(call) = FixedSize[s.type]
      /\ call.via # "span" => call.via = "buffer"
      /\ call.via = "span" => call.span = BufferSpan'
  <2>1. 0 \in Nat /\ "buffer" \in {"buffer", "devirt", "span"} /\ "buffer" # "span"
    OBVIOUS
  <2> QED
    BY <1>1, <1>2, <2>1, CallFrame
<1> HIDE DEF call
<1>4. stack' \in Seq(Frame) /\ Len(stack') = 1 /\ stack'[1] = call /\ stack' # <<>>
  BY <1>2, <1>3
<1>5. TypeOK'
  BY <1>2, <1>4 DEF TypeOK, Serialise, NoSpan, Span
<1>6. \A j \in 1 .. Len(stack') : j = 1
  BY <1>4
<1>7. FramesOK'
  BY <1>3, <1>4, <1>6 DEF FramesOK, FrameOK
<1>8. ViewsNest'
  <2>1. \A j, k \in 1 .. Len(stack') : ~(j < k)
    BY <1>4
  <2> QED
    BY <2>1 DEF ViewsNest
<1>9. NoDanglingView'
  BY <1>2, <1>3, <1>4, <1>6 DEF NoDanglingView, SpanOf, BufferSpan
<1>10. FixedDataInBounds'
  <2>1. BufferSpan'.size = used'
    BY DEF BufferSpan
  <2>2. \A j \in 1 .. Len(stack') : stack'[j].fo + Remaining(stack'[j]) <= used'
    BY <1>1, <1>2, <1>3, <1>4, <1>6
  <2> QED
    BY <1>9, <2>1, <2>2 DEF FixedDataInBounds, NoDanglingView, Remaining
<1> QED
  BY <1>5, <1>7, <1>8, <1>9, <1>10 DEF ViewInv

\* initialise() throwing, and steps that change nothing, leave the stack alone.
LEMMA IdleKeepsViewInv ==
    ASSUME ViewInv, UNCHANGED <<mem, used, gen, devirt, stack>>,
           \/ UNCHANGED vars
           \/ \E s \in Root : InitialiseThrows(s)
    PROVE  ViewInv'
<1>1. TypeOK'
  <2>1. CASE UNCHANGED vars
    BY <2>1 DEF ViewInv, TypeOK, vars
  <2>2. CASE \E s \in Root : InitialiseThrows(s)
    <3>1. stack = <<>>
      BY <2>2 DEF ViewInv, TypeOK, InitialiseThrows
    <3> QED
      BY <2>2, <3>1 DEF ViewInv, TypeOK, InitialiseThrows
  <2> QED
    BY <2>1, <2>2
<1>2. FramesOK' /\ ViewsNest'
  BY DEF ViewInv, FramesOK, FrameOK, ViewsNest, Nests
<1>3. NoDanglingView'
  BY DEF ViewInv, NoDanglingView, SpanOf, BufferSpan
<1>4. FixedDataInBounds'
  BY DEF ViewInv, FixedDataInBounds, SpanOf, BufferSpan, Remaining
<1> QED
  BY <1>1, <1>2, <1>3, <1>4 DEF ViewInv

-----------------------------------------------------------------------------

\* At every step of every serialisation, for every table of types and every
\* source: what the calls have still to write lies within the buffer, and each
\* call's view denotes the buffer's current storage.
THEOREM ViewInvHolds == Spec => []ViewInv
<1>1. Init => ViewInv
  <2> SUFFICES ASSUME Init PROVE ViewInv
    OBVIOUS
  <2>1. stack \in Seq(Frame) /\ Len(stack) = 0 /\ stack = <<>>
    BY EmptySeq DEF Init
  <2>2. mem \in [0 .. used - 1 -> Cell]
    <3>1. \A x : x \notin 0 .. 0 - 1
      OBVIOUS
    <3>2. mem = <<>> /\ used = 0 /\ DOMAIN <<>> = {}
      BY DEF Init
    <3>3. mem = [x \in 0 .. used - 1 |-> Stale]
      BY <3>1, <3>2
    <3> QED
      BY <3>3 DEF Cell
  <2>3. TypeOK
    BY <2>1, <2>2 DEF Init, TypeOK, NoSpan, Span
  <2> QED
    BY <2>1, <2>3 DEF ViewInv, FramesOK, ViewsNest, FixedDataInBounds, NoDanglingView
<1>2. ViewInv /\ [Next]_vars => ViewInv'
  <2> SUFFICES ASSUME ViewInv, [Next]_vars PROVE ViewInv'
    OBVIOUS
  <2>1. CASE SerialiseNull
    <3>1. mem' \in [0 .. used - 1 -> Cell]
      BY <2>1 DEF SerialiseNull, ViewInv, TypeOK
    <3> QED
      BY <2>1, <3>1, ReturnKeepsViewInv DEF SerialiseNull, Active
  <2>2. CASE SerialiseScalar
    BY <2>2, ScalarKeepsViewInv
  <2>3. CASE SerialisePair \/ SerialiseTuple \/ SerialiseStaticArray \/ SerialiseRecord
    <3>1. /\ phase = "running" /\ Kind[Top.node.type] \in Contiguous
          /\ PushElement \/ ReturnAfterElements
      BY <2>3 DEF SerialisePair, SerialiseTuple, SerialiseStaticArray, SerialiseRecord,
                  Active, Contiguous
    <3> QED
      BY <3>1, ElementsKeepViewInv
  <2>4. CASE SerialiseOptionalEmpty \/ SerialiseOptionalValue
    BY <2>4, OptionalKeepsViewInv
  <2>5. CASE SerialiseEmptyVariant \/ SerialiseValuelessVariant \/ SerialiseVariantValue
    BY <2>5, VariantKeepsViewInv
  <2>6. CASE BeginElements
    BY <2>6, BeginElementsKeepsViewInv
  <2>7. CASE SerialiseElement
    BY <2>7, ElementsKeepViewInv DEF SerialiseElement, Active
  <2>8. CASE EndElements
    BY <2>8, EndElementsKeepsViewInv
  <2>9. CASE FinishArray
    BY <2>9, FinishArrayKeepsViewInv
  <2>10. CASE \E s \in Root : Serialise(s)
    BY <2>10, SerialiseKeepsViewInv
  <2>11. CASE \E s \in Root : InitialiseThrows(s)
    BY <2>11, IdleKeepsViewInv DEF InitialiseThrows
  <2>12. CASE UNCHANGED vars
    BY <2>12, IdleKeepsViewInv DEF vars
  <2> QED
    BY <2>1, <2>2, <2>3, <2>4, <2>5, <2>6, <2>7, <2>8, <2>9, <2>10, <2>11, <2>12
       DEF Next, Step
<1> QED
  BY <1>1, <1>2, PTL DEF Spec

\* Type correctness of the machine.
THEOREM TypeCorrect == Spec => []TypeOK
<1>1. ViewInv => TypeOK
  BY DEF ViewInv
<1> QED
  BY <1>1, ViewInvHolds, PTL

\* The fixed data of a call is inside the buffer it was given: every write of
\* every serialiser overload is in bounds.
THEOREM WritesInBounds == Spec => []FixedDataInBounds
<1>1. ViewInv => FixedDataInBounds
  BY DEF ViewInv
<1> QED
  BY <1>1, ViewInvHolds, PTL

\* No span captured by with_buffer_for() or cached by the devirtualised wrapper
\* outlives the storage it denotes.
THEOREM ViewsStayValid == Spec => []NoDanglingView
<1>1. ViewInv => NoDanglingView
  BY DEF ViewInv
<1> QED
  BY <1>1, ViewInvHolds, PTL

-----------------------------------------------------------------------------
\* 2. Contents.

\* Replacing the contents m0 by m, a call writes its whole section, and only it.
WritesSection(f, m0, m) ==
    \A x \in 0 .. used - 1 : IF x \in Section(f) THEN m[x] # Stale ELSE m[x] = m0[x]

\* So does a store of w bytes at offset at, of the part of the section that is
\* theirs.
Stores(at, w, m0, m) ==
    \A x \in 0 .. used - 1 :
        /\ x \in at .. at + w - 1 => m[x] # Stale
        /\ x \notin at .. at + w - 1 => m[x] = m0[x]

\* As far as the writes go, all of m0 outside the section of f is in m.
StaysInSection(f, m0, m) ==
    \A x \in 0 .. used - 1 : x \notin Section(f) => m[x] = m0[x]

-----------------------------------------------------------------------------
\* Sections.

\* Every section lies within the buffer.
LEMMA SectionsWithin ==
    ASSUME ViewInv
    PROVE  \A j \in 1 .. Len(stack) : Section(stack[j]) \subseteq 0 .. used - 1
<1> TAKE j \in 1 .. Len(stack)
<1>1. stack[j] \in Frame /\ FrameOK(stack[j])
  BY ElementOfSeq DEF ViewInv, TypeOK, FramesOK
<1>2. Remaining(stack[j]) \in Int /\ stack[j].fo \in Nat
  BY <1>1, RemainingInt DEF Frame
<1>3. stack[j].fo + Remaining(stack[j]) <= used
  BY DEF ViewInv, FixedDataInBounds, NoDanglingView, BufferSpan
<1>4. used \in Nat
  BY DEF ViewInv, TypeOK
<1> QED
  BY <1>2, <1>3, <1>4 DEF Section

\* The bytes of the innermost call's section are not written yet.
LEMMA TopSectionUnwritten ==
    ASSUME ViewInv, SectionsPartitionUnwritten, phase = "running"
    PROVE  \A x \in Section(Top) : x \in 0 .. used - 1 /\ mem[x] = Stale
<1>1. Len(stack) \in 1 .. Len(stack)
  BY TopCall
<1> QED
  BY <1>1, SectionsWithin DEF SectionsPartitionUnwritten, Top

\* What a store of w bytes through a current view does.
LEMMA WrittenBytes ==
    ASSUME ViewInv, NEW m \in [0 .. used - 1 -> Cell], NEW view, view = BufferSpan,
           NEW at \in Nat, NEW v \in Nat, NEW w \in {1, 2, 4, 8}, at + w <= used
    PROVE  Stores(at, w, m, Written(m, view, at, LittleEndian(v, w)))
<1> DEFINE bytes == LittleEndian(v, w)
           m1 == Written(m, view, at, bytes)
<1>1. bytes \in [1 .. w -> Byte] /\ Len(bytes) = w
  BY LittleEndianBytes
<1> HIDE DEF bytes
<1>2. used \in Nat
  BY DEF ViewInv, TypeOK
<1>3. m1 = [x \in 0 .. used - 1 |->
              IF x < used /\ x \in at .. at + w - 1 THEN bytes[x - at + 1] ELSE m[x]]
  BY <1>1 DEF Written, BufferSpan
<1> HIDE DEF m1
<1>4. ASSUME NEW x \in 0 .. used - 1
      PROVE  IF x \in at .. at + w - 1 THEN m1[x] # Stale ELSE m1[x] = m[x]
  <2>1. CASE x \in at .. at + w - 1
    <3>1. x - at + 1 \in 1 .. w
      BY <2>1
    <3>2. m1[x] = bytes[x - at + 1]
      BY <1>2, <1>3, <2>1
    <3>3. m1[x] \in Byte
      BY <1>1, <3>1, <3>2
    <3>4. Stale \notin Byte
      BY DEF Byte, Stale
    <3> QED
      BY <2>1, <3>3, <3>4
  <2>2. CASE x \notin at .. at + w - 1
    BY <1>3, <2>2
  <2> QED
    BY <2>1, <2>2
<1> QED
  BY <1>4 DEF Stores, m1, bytes

-----------------------------------------------------------------------------
\* How the sections change when the innermost call is replaced.

LEMMA PartitionStep ==
    ASSUME ViewInv, SectionsPartitionUnwritten, phase = "running",
           NEW fs \in Seq(Frame), Continue(fs), used' \in Nat, used' >= used,
           \A k \in 1 .. Len(fs) : \A x \in Section(fs[k]) : x \in Section(Top) \/ x >= used,
           \A k, l \in 1 .. Len(fs) : k # l => Section(fs[k]) \cap Section(fs[l]) = {},
           \A x \in 0 .. used' - 1 :
              IF x \in Section(Top) \/ x >= used
              THEN mem'[x] = Stale <=> \E k \in 1 .. Len(fs) : x \in Section(fs[k])
              ELSE mem'[x] = mem[x]
    PROVE  SectionsPartitionUnwritten'
<1> DEFINE n == Len(stack)
<1>1. stack \in Seq(Frame) /\ stack # <<>> /\ n \in Nat \ {0} /\ used \in Nat
  BY TopCall DEF ViewInv, TypeOK
<1>2. /\ stack' \in Seq(Frame)
      /\ Len(stack') = n - 1 + Len(fs)
      /\ \A j \in 1 .. Len(stack') : stack'[j] = IF j < n THEN stack[j] ELSE fs[j - n + 1]
  BY <1>1, ContinueStack
<1>3. Len(fs) \in Nat /\ Len(stack') \in Nat
  BY <1>2
<1>4. ASSUME NEW j \in 1 .. Len(stack')
      PROVE  \/ j < n /\ j \in 1 .. n - 1 /\ stack'[j] = stack[j]
             \/ ~(j < n) /\ j - n + 1 \in 1 .. Len(fs) /\ stack'[j] = fs[j - n + 1]
  BY <1>1, <1>2, <1>3
<1>5. /\ \A j \in 1 .. n - 1 : j \in 1 .. n /\ j # n
      /\ n \in 1 .. n /\ stack[n] = Top
  BY <1>1 DEF Top
<1> HIDE DEF n
<1>6. /\ \A j \in 1 .. n - 1 : Section(stack[j]) \cap Section(Top) = {}
      /\ \A j, k \in 1 .. n - 1 : j # k => Section(stack[j]) \cap Section(stack[k]) = {}
  BY <1>5 DEF SectionsPartitionUnwritten, n
<1>7. \A j \in 1 .. n - 1 : \A x \in Section(stack[j]) : x \in 0 .. used - 1
  BY <1>5, SectionsWithin DEF n
<1>8. ASSUME NEW j \in 1 .. n - 1, NEW k \in 1 .. Len(fs)
      PROVE  Section(stack[j]) \cap Section(fs[k]) = {}
  <2> SUFFICES ASSUME NEW x \in Section(stack[j]), x \in Section(fs[k])
               PROVE  FALSE
    OBVIOUS
  <2>1. x \in 0 .. used - 1
    BY <1>7
  <2>2. x \in Section(Top)
    <3>1. ~(x >= used)
      BY <1>1, <2>1
    <3> QED
      BY <3>1
  <2> QED
    BY <1>6, <2>2
<1>9. ASSUME NEW j \in 1 .. Len(stack'), NEW k \in 1 .. Len(stack'), j # k
      PROVE  Section(stack'[j]) \cap Section(stack'[k]) = {}
  <2>1. CASE j < n /\ k < n
    <3>1. /\ j \in 1 .. n - 1 /\ stack'[j] = stack[j]
          /\ k \in 1 .. n - 1 /\ stack'[k] = stack[k]
      BY <1>4, <2>1
    <3> QED
      BY <1>6, <1>9, <3>1
  <2>2. CASE j < n /\ ~(k < n)
    <3>1. /\ j \in 1 .. n - 1 /\ stack'[j] = stack[j]
          /\ k - n + 1 \in 1 .. Len(fs) /\ stack'[k] = fs[k - n + 1]
      BY <1>4, <2>2
    <3> QED
      BY <1>8, <3>1
  <2>3. CASE ~(j < n) /\ k < n
    <3>1. /\ j - n + 1 \in 1 .. Len(fs) /\ stack'[j] = fs[j - n + 1]
          /\ k \in 1 .. n - 1 /\ stack'[k] = stack[k]
      BY <1>4, <2>3
    <3>2. Section(stack[k]) \cap Section(fs[j - n + 1]) = {}
      BY <1>8, <3>1
    <3> QED
      BY <3>1, <3>2
  <2>4. CASE ~(j < n) /\ ~(k < n)
    <3>1. /\ j - n + 1 \in 1 .. Len(fs) /\ stack'[j] = fs[j - n + 1]
          /\ k - n + 1 \in 1 .. Len(fs) /\ stack'[k] = fs[k - n + 1]
      BY <1>4, <2>4
    <3>2. j - n + 1 # k - n + 1
      BY <1>1, <1>3, <1>9
    <3> QED
      BY <3>1, <3>2
  <2> QED
    BY <2>1, <2>2, <2>3, <2>4
<1>10. ASSUME NEW x \in 0 .. used' - 1
       PROVE  mem'[x] = Stale <=> \E j \in 1 .. Len(stack') : x \in Section(stack'[j])
  <2>1. (\E j \in 1 .. Len(stack') : x \in Section(stack'[j]))
           <=> \/ \E j \in 1 .. n - 1 : x \in Section(stack[j])
               \/ \E k \in 1 .. Len(fs) : x \in Section(fs[k])
    <3>1. ASSUME NEW j \in 1 .. Len(stack'), x \in Section(stack'[j])
          PROVE  \/ \E i \in 1 .. n - 1 : x \in Section(stack[i])
                 \/ \E k \in 1 .. Len(fs) : x \in Section(fs[k])
      BY <1>4, <3>1
    <3>2. ASSUME NEW j \in 1 .. n - 1, x \in Section(stack[j])
          PROVE  \E i \in 1 .. Len(stack') : x \in Section(stack'[i])
      <4>1. j \in 1 .. Len(stack') /\ j < n
        BY <1>1, <1>2, <1>3
      <4> QED
        BY <1>2, <3>2, <4>1
    <3>3. ASSUME NEW k \in 1 .. Len(fs), x \in Section(fs[k])
          PROVE  \E i \in 1 .. Len(stack') : x \in Section(stack'[i])
      <4>1. /\ k + n - 1 \in 1 .. Len(stack') /\ ~(k + n - 1 < n)
            /\ (k + n - 1) - n + 1 = k
        BY <1>1, <1>2, <1>3
      <4>2. stack'[k + n - 1] = fs[k]
        BY <1>2, <4>1
      <4> QED
        BY <3>3, <4>1, <4>2
    <3> QED
      BY <3>1, <3>2, <3>3
  <2>2. CASE x \in Section(Top) \/ x >= used
    <3>1. ~ \E j \in 1 .. n - 1 : x \in Section(stack[j])
      <4> SUFFICES ASSUME NEW j \in 1 .. n - 1, x \in Section(stack[j])
                   PROVE  FALSE
        OBVIOUS
      <4>1. x \in 0 .. used - 1
        BY <1>7
      <4>2. ~(x >= used)
        BY <1>1, <4>1
      <4> QED
        BY <1>6, <2>2, <4>2
    <3> QED
      BY <2>1, <2>2, <3>1
  <2>3. CASE ~(x \in Section(Top) \/ x >= used)
    <3>1. x \in 0 .. used - 1 /\ mem'[x] = mem[x]
      BY <1>1, <2>3
    <3>2. ~ \E k \in 1 .. Len(fs) : x \in Section(fs[k])
      BY <2>3
    <3>3. mem[x] = Stale <=> \E j \in 1 .. n : x \in Section(stack[j])
      BY <3>1 DEF SectionsPartitionUnwritten, n
    <3>4. (\E j \in 1 .. n : x \in Section(stack[j]))
             <=> \E j \in 1 .. n - 1 : x \in Section(stack[j])
      <4>1. \A j \in 1 .. n : j = n \/ j \in 1 .. n - 1
        BY <1>1
      <4> QED
        BY <1>5, <2>3, <4>1
    <3> QED
      BY <2>1, <3>1, <3>2, <3>3, <3>4
  <2> QED
    BY <2>2, <2>3
<1> QED
  BY <1>9, <1>10 DEF SectionsPartitionUnwritten, Section, Remaining

\* A call that writes its section and returns.
LEMMA ReturnKeepsPartition ==
    ASSUME ViewInv, SectionsPartitionUnwritten, phase = "running", Continue(<<>>),
           used' = used, WritesSection(Top, mem, mem')
    PROVE  SectionsPartitionUnwritten'
<1>1. <<>> \in Seq(Frame) /\ Len(<<>>) = 0 /\ used \in Nat
  BY EmptySeq DEF ViewInv, TypeOK
<1>2. ASSUME NEW x \in 0 .. used' - 1
      PROVE  IF x \in Section(Top) \/ x >= used THEN mem'[x] # Stale ELSE mem'[x] = mem[x]
  BY <1>1 DEF WritesSection
<1>3. \A k \in 1 .. 0 : FALSE
  OBVIOUS
<1>4. ASSUME NEW x \in 0 .. used' - 1
      PROVE  IF x \in Section(Top) \/ x >= used
             THEN mem'[x] = Stale <=> \E k \in 1 .. Len(<<>>) : x \in Section(<<>>[k])
             ELSE mem'[x] = mem[x]
  BY <1>1, <1>2, <1>3
<1>5. used' \in Nat /\ used' >= used
  BY <1>1
<1> QED
  BY <1>1, <1>3, <1>4, <1>5, PartitionStep

\* An optional or a variant writes its section, and hands the extension to the
\* call that serialises the value.
LEMMA PushValueKeepsPartition ==
    ASSUME ViewInv, SectionsPartitionUnwritten, phase = "running", Top.via # "span",
           NEW n \in Source, NEW m, WritesSection(Top, mem, m),
           ExtendThrough(Top, FixedSize[n.type], m),
           Continue(<<Call(n, SpanOf(Top).size, Top.via, SpanAfterExtend(Top))>>)
    PROVE  SectionsPartitionUnwritten'
<1> DEFINE call == Call(n, SpanOf(Top).size, Top.via, SpanAfterExtend(Top))
           fs == <<call>>
<1>1. Top \in Frame /\ SpanOf(Top) = BufferSpan
  BY TopCall
<1>2. used \in Nat /\ gen \in Nat /\ devirt \in Span
  BY DEF ViewInv, TypeOK
<1>3. FixedSize[n.type] \in Nat
  BY SourceAssumption, TypesAssumption
<1>4. /\ used' = used + FixedSize[n.type] /\ used' \in Nat /\ gen' \in Nat
      /\ mem' = [x \in 0 .. used' - 1 |-> IF x < used THEN m[x] ELSE Stale]
  BY <1>2, <1>3 DEF ExtendThrough, Extend
<1>5. SpanAfterExtend(Top) \in Span
  BY <1>2, <1>4 DEF SpanAfterExtend, ExtendThrough, BufferSpan, Span
<1>6. SpanOf(Top).size = used /\ Top.via \in {"buffer", "devirt", "span"}
  BY <1>1 DEF BufferSpan, Frame
<1>7. call \in Frame /\ call.fo = used /\ Remaining(call) = FixedSize[n.type]
  <2>1. Top.via = "span" => IsFixed[n.type]
    OBVIOUS
  <2> QED
    BY <1>2, <1>5, <1>6, <2>1, CallFrame
<1> HIDE DEF call
<1>8. \A x : x \in Section(call) <=> x \in used .. used' - 1
  BY <1>2, <1>3, <1>4, <1>7 DEF Section
<1>9. fs \in Seq(Frame) /\ Len(fs) = 1 /\ fs[1] = call /\ Continue(fs)
  BY <1>7 DEF call
<1>10. \A k \in 1 .. Len(fs) : k = 1
  BY <1>9
<1>11. ASSUME NEW x \in 0 .. used' - 1
       PROVE  IF x \in Section(Top) \/ x >= used
              THEN mem'[x] = Stale <=> \E k \in 1 .. Len(fs) : x \in Section(fs[k])
              ELSE mem'[x] = mem[x]
  <2>1. (\E k \in 1 .. Len(fs) : x \in Section(fs[k])) <=> x \in Section(call)
    BY <1>9, <1>10
  <2>2. CASE x >= used
    <3>1. x \in used .. used' - 1
      BY <1>2, <2>2
    <3>2. mem'[x] = Stale
      BY <1>2, <1>4, <2>2
    <3>3. x \in Section(call)
      BY <1>8, <3>1
    <3> QED
      BY <2>1, <2>2, <3>2, <3>3
  <2>3. CASE ~(x >= used)
    <3>1. x \in 0 .. used - 1 /\ mem'[x] = m[x] /\ x \notin Section(call)
      BY <1>2, <1>4, <1>8, <2>3
    <3> QED
      BY <2>1, <2>3, <3>1 DEF WritesSection
  <2> QED
    BY <2>2, <2>3
<1>12. \A k \in 1 .. Len(fs) : \A x \in Section(fs[k]) : x \in Section(Top) \/ x >= used
  BY <1>2, <1>4, <1>8, <1>9, <1>10
<1>13. \A k, l \in 1 .. Len(fs) : k # l => Section(fs[k]) \cap Section(fs[l]) = {}
  BY <1>10
<1>14. used' >= used
  BY <1>2, <1>3, <1>4
<1> HIDE DEF fs
<1> QED
  BY <1>4, <1>9, <1>11, <1>12, <1>13, <1>14, PartitionStep

\* push_fixed_subobject() splits the section: the front for the element, the
\* rest for the elements after it.
LEMMA PushElementKeepsPartition ==
    ASSUME ViewInv, SectionsPartitionUnwritten, phase = "running", PushElement,
           \/ Kind[Top.node.type] \in Contiguous
           \/ Kind[Top.node.type] = "dynamic_array" /\ Top.step = "elements"
    PROVE  SectionsPartitionUnwritten'
<1> DEFINE e == Element(Top)
           rest == Advanced(Top)
           call == Call(e, Top.fo, Top.via, SpanOf(Top))
           fs == <<rest, call>>
           size == FixedSize[e.type]
<1>1. /\ Top.i < Len(Top.node.sub)
      /\ Continue(fs)
      /\ UNCHANGED <<mem, used, gen, devirt>>
  BY DEF PushElement, Element, Advanced
<1>2. /\ size \in Nat
      /\ rest \in Frame /\ rest.fo = Top.fo + size /\ Remaining(rest) \in Nat
      /\ Remaining(Top) = size + Remaining(rest)
      /\ call \in Frame /\ call.fo = Top.fo /\ Remaining(call) = size
  BY <1>1, NextElement
<1>3. Top.fo \in Nat /\ used \in Nat
  BY TopCall DEF Frame, ViewInv, TypeOK
<1> HIDE DEF rest, call, size
<1>4. fs \in Seq(Frame) /\ Len(fs) = 2 /\ fs[1] = rest /\ fs[2] = call
  BY <1>2
<1>5. \A k \in 1 .. Len(fs) : k = 1 \/ k = 2
  BY <1>4
<1> HIDE DEF fs
<1>6. /\ \A x : x \in Section(Top) <=> x \in Section(rest) \/ x \in Section(call)
      /\ \A x : ~(x \in Section(rest) /\ x \in Section(call))
  BY <1>2, <1>3 DEF Section
<1>7. \A k \in 1 .. Len(fs) : \A x \in Section(fs[k]) : x \in Section(Top) \/ x >= used
  BY <1>4, <1>5, <1>6
<1>8. \A k, l \in 1 .. Len(fs) : k # l => Section(fs[k]) \cap Section(fs[l]) = {}
  <2>1. Section(rest) \cap Section(call) = {}
    BY <1>6
  <2> QED
    BY <1>4, <1>5, <2>1
<1>9. ASSUME NEW x \in 0 .. used' - 1
      PROVE  IF x \in Section(Top) \/ x >= used
             THEN mem'[x] = Stale <=> \E k \in 1 .. Len(fs) : x \in Section(fs[k])
             ELSE mem'[x] = mem[x]
  <2>1. x \in 0 .. used - 1 /\ ~(x >= used)
    BY <1>1, <1>3
  <2>2. (\E k \in 1 .. Len(fs) : x \in Section(fs[k])) <=> x \in Section(Top)
    <3>1. 1 \in 1 .. Len(fs) /\ 2 \in 1 .. Len(fs)
      BY <1>4
    <3> QED
      BY <1>4, <1>5, <1>6, <3>1
  <2> QED
    BY <1>1, <2>1, <2>2, TopSectionUnwritten
<1>10. used' \in Nat /\ used' >= used
  BY <1>1, <1>3
<1> QED
  BY <1>1, <1>4, <1>7, <1>8, <1>9, <1>10, PartitionStep

\* The section of a call at the end of its elements is empty.
LEMMA NothingRemains ==
    ASSUME ViewInv, phase = "running", Top.i = Len(Top.node.sub),
           \/ Kind[Top.node.type] \in Contiguous
           \/ Kind[Top.node.type] = "dynamic_array" /\ Top.step = "elements"
    PROVE  Section(Top) = {}
<1> DEFINE t == Top.node.type
<1>1. /\ Top \in Frame /\ SubsHaveTypes(Top.node) /\ Top.node.sub \in Seq(Source)
      /\ t \in Type
  BY TopCall
<1>2. FixedSize[t] \in Nat /\ Elements[t] \in Seq(Type) /\ Top.fo \in Nat
  BY <1>1, TypesAssumption DEF Frame
<1>3. Remaining(Top) = 0
  <2>1. CASE Kind[t] \in Contiguous
    <3>1. Top.i = Len(Elements[t])
      BY <1>1, <2>1 DEF SubsHaveTypes
    <3>2. FixedSize[t] = ElementOffset[t][Len(Elements[t]) + 1]
      BY <1>1, <2>1, TypesAssumption DEF HasFixedDataSize
    <3> QED
      BY <1>2, <2>1, <3>1, <3>2 DEF Remaining
  <2>2. CASE Kind[t] = "dynamic_array" /\ Top.step = "elements"
    <3>1. Len(Elements[t]) = 1
      BY <1>1, <2>2, TypesAssumption
    <3>2. FixedSize[Elements[t][1]] \in Nat
      BY <1>2, <3>1, TypesAssumption
    <3>3. Len(Top.node.sub) - Top.i = 0
      BY <1>1
    <3>4. Remaining(Top) = FixedSize[Elements[t][1]] * (Len(Top.node.sub) - Top.i)
      BY <2>2 DEF Remaining, Contiguous
    <3>5. \A a \in Nat : a * 0 = 0
      OBVIOUS
    <3> QED
      BY <3>2, <3>3, <3>4, <3>5
  <2> QED
    BY <2>1, <2>2
<1> QED
  BY <1>2, <1>3 DEF Section

LEMMA ReturnAfterElementsKeepsPartition ==
    ASSUME ViewInv, SectionsPartitionUnwritten, phase = "running", Continue(<<>>),
           UNCHANGED <<mem, used>>, Section(Top) = {}
    PROVE  SectionsPartitionUnwritten'
BY ReturnKeepsPartition DEF WritesSection

\* A dynamic_array keeps its own section for later and hands the extension to
\* the loop over its elements.
LEMMA BeginElementsKeepsPartition ==
    ASSUME ViewInv, SectionsPartitionUnwritten, BeginElements
    PROVE  SectionsPartitionUnwritten'
<1> DEFINE f == Top
           t == f.node.type
           element == Elements[t][1]
           count == FixedSize[element] * Len(f.node.sub)
           loop == [f EXCEPT !.step = "elements", !.fo = SpanOf(f).size, !.i = 0,
                             !.via = IF IsFixed[element] THEN "span" ELSE "devirt",
                             !.span = IF IsFixed[element] THEN devirt' ELSE NoSpan]
           rest == [f EXCEPT !.step = "finish", !.start = SpanOf(f).size]
           fs == <<rest, loop>>
<1>1. phase = "running" /\ Kind[t] = "dynamic_array" /\ f.step = "serialise"
  BY DEF BeginElements, Active
<1>2. /\ f \in Frame /\ SpanOf(f) = BufferSpan
      /\ f.node.sub \in Seq(Source) /\ t \in Type
  BY <1>1, TopCall
<1>3. used \in Nat /\ gen \in Nat
  BY DEF ViewInv, TypeOK
<1>4. /\ Elements[t] \in Seq(Type) /\ Len(Elements[t]) = 1
      /\ element \in Type /\ FixedSize[element] \in Nat /\ IsFixed[element] \in BOOLEAN
  BY <1>1, <1>2, TypesAssumption
<1>5. count \in Nat
  <2>1. \A a, b \in Nat : a * b \in Nat
    OBVIOUS
  <2>2. Len(f.node.sub) \in Nat
    BY <1>2
  <2> HIDE DEF element, f
  <2> QED
    BY <1>4, <2>1, <2>2
<1>6. CASE Throw("bad_alloc", mem)
  BY <1>6 DEF Throw, SectionsPartitionUnwritten
<1>7. CASE Extend(count, mem) /\ devirt' = BufferSpan' /\ Continue(fs)
  <2>1. /\ used' = used + count /\ used' \in Nat /\ gen' \in Nat
        /\ mem' = [x \in 0 .. used' - 1 |-> IF x < used THEN mem[x] ELSE Stale]
    <3> HIDE DEF count
    <3> QED
      BY <1>3, <1>5, <1>7 DEF Extend
  <2>2. SpanOf(f).size = used /\ BufferSpan' \in Span /\ NoSpan \in Span
    <3>1. SpanOf(f).size = used
      BY <1>2 DEF BufferSpan
    <3>2. BufferSpan' \in Span /\ NoSpan \in Span
      BY <2>1 DEF BufferSpan, NoSpan, Span
    <3> QED
      BY <3>1, <3>2
  <2>3. rest \in Frame /\ rest.fo = f.fo /\ Remaining(rest) = Remaining(f)
    <3>1. /\ rest \in Frame /\ rest.fo = f.fo /\ rest.node = f.node
          /\ rest.step = "finish" /\ rest.i = f.i
      <4> HIDE DEF f
      <4> QED
        BY <1>2, <1>3, <2>2 DEF Frame
    <3> HIDE DEF rest
    <3> QED
      BY <1>1, <3>1 DEF Remaining
  <2>4. loop \in Frame /\ loop.fo = used /\ Remaining(loop) = count
    <3>1. /\ loop \in Frame /\ loop.fo = used /\ loop.node = f.node
          /\ loop.step = "elements" /\ loop.i = 0
      <4> HIDE DEF f, element
      <4> QED
        BY <1>2, <1>3, <1>4, <1>7, <2>2 DEF Frame
    <3> HIDE DEF loop
    <3>2. Len(f.node.sub) - 0 = Len(f.node.sub)
      BY <1>2
    <3>3. Remaining(loop) = FixedSize[element] * (Len(f.node.sub) - 0)
      BY <1>1, <3>1 DEF Remaining, Contiguous
    <3> QED
      BY <3>1, <3>2, <3>3
  <2> HIDE DEF loop, rest, count
  <2>5. fs \in Seq(Frame) /\ Len(fs) = 2 /\ fs[1] = rest /\ fs[2] = loop
    BY <2>3, <2>4
  <2>6. \A k \in 1 .. Len(fs) : k = 1 \/ k = 2
    BY <2>5
  <2> HIDE DEF fs
  <2>7. /\ Section(rest) = Section(Top)
        /\ \A x : x \in Section(loop) <=> x \in used .. used' - 1
    BY <1>3, <1>5, <2>1, <2>3, <2>4 DEF Section
  <2>8. \A x \in Section(Top) : x \in 0 .. used - 1 /\ mem[x] = Stale
    BY <1>1, TopSectionUnwritten
  <2>9. \A k \in 1 .. Len(fs) : \A x \in Section(fs[k]) : x \in Section(Top) \/ x >= used
    BY <1>3, <2>1, <2>5, <2>6, <2>7
  <2>10. \A k, l \in 1 .. Len(fs) : k # l => Section(fs[k]) \cap Section(fs[l]) = {}
    <3>1. Section(rest) \cap Section(loop) = {}
      BY <1>3, <2>1, <2>7, <2>8
    <3> QED
      BY <2>5, <2>6, <3>1
  <2>11. ASSUME NEW x \in 0 .. used' - 1
         PROVE  IF x \in Section(Top) \/ x >= used
                THEN mem'[x] = Stale <=> \E k \in 1 .. Len(fs) : x \in Section(fs[k])
                ELSE mem'[x] = mem[x]
    <3>1. 1 \in 1 .. Len(fs) /\ 2 \in 1 .. Len(fs)
      BY <2>5
    <3>2. CASE x \in Section(Top)
      <4>1. x < used /\ mem[x] = Stale
        BY <1>3, <2>8, <3>2
      <4>2. mem'[x] = Stale
        BY <2>1, <4>1
      <4> QED
        BY <2>5, <2>7, <3>1, <3>2, <4>2
    <3>3. CASE x >= used
      <4>1. x \in Section(loop) /\ mem'[x] = Stale
        BY <1>3, <2>1, <2>7, <3>3
      <4> QED
        BY <2>5, <3>1, <3>3, <4>1
    <3>4. CASE x \notin Section(Top) /\ ~(x >= used)
      <4>1. x < used
        BY <1>3, <3>4
      <4> QED
        BY <2>1, <3>4, <4>1
    <3> QED
      BY <3>2, <3>3, <3>4
  <2>12. used' >= used
    BY <1>3, <1>5, <2>1
  <2> QED
    BY <1>1, <1>7, <2>1, <2>5, <2>9, <2>10, <2>11, <2>12, PartitionStep
<1> QED
  BY <1>6, <1>7 DEF BeginElements

-----------------------------------------------------------------------------
\* What each kind of call writes.

\* Storing one integer that fills the section.
LEMMA OneWrite ==
    ASSUME ViewInv, phase = "running", NEW v \in Nat, NEW w \in {1, 2, 4, 8},
           Remaining(Top) = w
    PROVE  WritesSection(Top, mem, Written(mem, SpanOf(Top), Top.fo, LittleEndian(v, w)))
<1>1. /\ Top \in Frame /\ SpanOf(Top) = BufferSpan /\ Top.fo + Remaining(Top) <= used
  BY TopCall
<1>2. mem \in [0 .. used - 1 -> Cell]
  BY DEF ViewInv, TypeOK
<1>3. Top.fo \in Nat /\ Top.fo + w <= used
  BY <1>1 DEF Frame
<1>4. Section(Top) = Top.fo .. Top.fo + w - 1
  BY DEF Section
<1>5. Stores(Top.fo, w, mem, Written(mem, SpanOf(Top), Top.fo, LittleEndian(v, w)))
  BY <1>1, <1>2, <1>3, WrittenBytes
<1> DEFINE m == Written(mem, SpanOf(Top), Top.fo, LittleEndian(v, w))
<1> HIDE DEF m
<1>6. ASSUME NEW x \in 0 .. used - 1
      PROVE  IF x \in Section(Top) THEN m[x] # Stale ELSE m[x] = mem[x]
  <2>1. CASE x \in Section(Top)
    BY <1>4, <1>5, <2>1 DEF Stores, m
  <2>2. CASE x \notin Section(Top)
    BY <1>4, <1>5, <2>2 DEF Stores, m
  <2> QED
    BY <2>1, <2>2
<1> QED
  BY <1>6 DEF WritesSection, m

\* Storing two integers that fill the section, or only the first of them.
LEMMA TwoWrites ==
    ASSUME ViewInv, phase = "running", NEW v1 \in Nat, NEW w1 \in {1, 2, 4, 8},
           NEW v2 \in Nat, NEW w2 \in {1, 2, 4, 8}, Remaining(Top) = w1 + w2
    PROVE  LET m1 == Written(mem, SpanOf(Top), Top.fo, LittleEndian(v1, w1))
               m2 == Written(m1, SpanOf(Top), Top.fo + w1, LittleEndian(v2, w2))
           IN  StaysInSection(Top, mem, m1) /\ WritesSection(Top, mem, m2)
<1> DEFINE m1 == Written(mem, SpanOf(Top), Top.fo, LittleEndian(v1, w1))
           m2 == Written(m1, SpanOf(Top), Top.fo + w1, LittleEndian(v2, w2))
<1>1. /\ Top \in Frame /\ SpanOf(Top) = BufferSpan /\ Top.fo + Remaining(Top) <= used
  BY TopCall
<1>2. mem \in [0 .. used - 1 -> Cell] /\ used \in Nat
  BY DEF ViewInv, TypeOK
<1>3. /\ Top.fo \in Nat /\ Top.fo + w1 \in Nat
      /\ Top.fo + w1 <= used /\ Top.fo + w1 + w2 <= used
  BY <1>1, <1>2 DEF Frame
<1>4. m1 \in [0 .. used - 1 -> Cell]
  BY <1>2, <1>3, WrittenCells
<1>5. Stores(Top.fo, w1, mem, m1)
  BY <1>1, <1>2, <1>3, WrittenBytes
<1> HIDE DEF m1
<1>6. Stores(Top.fo + w1, w2, m1, m2)
  BY <1>1, <1>3, <1>4, WrittenBytes
<1> HIDE DEF m2
<1>7. \A x \in Int : x \in Section(Top) <=> \/ x \in Top.fo .. Top.fo + w1 - 1
                                           \/ x \in Top.fo + w1 .. Top.fo + w1 + w2 - 1
  BY <1>3 DEF Section
<1>8. ASSUME NEW x \in 0 .. used - 1
      PROVE  /\ x \notin Section(Top) => m1[x] = mem[x]
             /\ x \in Section(Top) => m2[x] # Stale
             /\ x \notin Section(Top) => m2[x] = mem[x]
  <2>1. x \in Int
    OBVIOUS
  <2>2. /\ x \in Top.fo .. Top.fo + w1 - 1 => m1[x] # Stale
        /\ x \notin Top.fo .. Top.fo + w1 - 1 => m1[x] = mem[x]
    BY <1>3, <1>5 DEF Stores
  <2>3. /\ x \in Top.fo + w1 .. Top.fo + w1 + w2 - 1 => m2[x] # Stale
        /\ x \notin Top.fo + w1 .. Top.fo + w1 + w2 - 1 => m2[x] = m1[x]
    BY <1>3, <1>6 DEF Stores
  <2> QED
    BY <1>7, <2>1, <2>2, <2>3
<1>9. StaysInSection(Top, mem, m1)
  BY <1>8 DEF StaysInSection
<1>10. WritesSection(Top, mem, m2)
  <2> SUFFICES ASSUME NEW x \in 0 .. used - 1
               PROVE  IF x \in Section(Top) THEN m2[x] # Stale ELSE m2[x] = mem[x]
    BY DEF WritesSection
  <2>1. CASE x \in Section(Top)
    BY <1>8, <2>1
  <2>2. CASE x \notin Section(Top)
    BY <1>8, <2>2
  <2> QED
    BY <2>1, <2>2
<1> QED
  BY <1>9, <1>10 DEF m1, m2

LEMMA ScalarWrites ==
    ASSUME ViewInv, SerialiseScalar
    PROVE  WritesSection(Top, mem, mem')
<1>1. phase = "running" /\ Kind[Top.node.type] = "scalar"
  BY DEF SerialiseScalar, Active
<1>2. Top \in Frame /\ Top.node.val \in Nat /\ Top.node.type \in Type /\ FrameOK(Top)
  BY <1>1, TopCall
<1>3. FixedSize[Top.node.type] \in {1, 2, 4, 8}
  BY <1>1, <1>2, TypesAssumption DEF HasFixedDataSize
<1>4. Remaining(Top) = FixedSize[Top.node.type]
  BY <1>1, <1>2 DEF Remaining, Contiguous, FrameOK
<1> QED
  BY <1>1, <1>2, <1>3, <1>4, OneWrite DEF SerialiseScalar

\* The offset of an optional fills its section.
LEMMA OptionalWrites ==
    ASSUME ViewInv, phase = "running", Kind[Top.node.type] = "optional", NEW v \in Nat
    PROVE  WritesSection(Top, mem,
                         Written(mem, SpanOf(Top), Top.fo, LittleEndian(v, OffsetWidth)))
<1>1. Top.node.type \in Type /\ FrameOK(Top)
  BY TopCall
<1>2. Remaining(Top) = OffsetWidth
  BY <1>1, TypesAssumption DEF Remaining, Contiguous, FrameOK, HasFixedDataSize
<1> QED
  BY <1>2, OneWrite DEF OffsetWidth

\* The index and offset of a variant fill its section.
LEMMA VariantWrites ==
    ASSUME ViewInv, phase = "running", Kind[Top.node.type] = "variant",
           NEW v1 \in Nat, NEW v2 \in Nat
    PROVE  LET m1 == Written(mem, SpanOf(Top), Top.fo, LittleEndian(v1, IndexWidth))
               m2 == Written(m1, SpanOf(Top), Top.fo + IndexWidth, LittleEndian(v2, OffsetWidth))
           IN  StaysInSection(Top, mem, m1) /\ WritesSection(Top, mem, m2)
<1>1. Top.node.type \in Type /\ FrameOK(Top)
  BY TopCall
<1>2. Remaining(Top) = IndexWidth + OffsetWidth
  BY <1>1, TypesAssumption DEF Remaining, Contiguous, FrameOK, HasFixedDataSize
<1> QED
  BY <1>2, TwoWrites DEF IndexWidth, OffsetWidth

\* The size and offset of a dynamic_array fill its section.
LEMMA ArrayWrites ==
    ASSUME ViewInv, phase = "running", Kind[Top.node.type] = "dynamic_array",
           Top.step = "finish", NEW v1 \in Nat, NEW v2 \in Nat
    PROVE  LET m1 == Written(mem, SpanOf(Top), Top.fo, LittleEndian(v1, SizeWidth))
               m2 == Written(m1, SpanOf(Top), Top.fo + SizeWidth, LittleEndian(v2, OffsetWidth))
           IN  StaysInSection(Top, mem, m1) /\ WritesSection(Top, mem, m2)
<1>1. Top.node.type \in Type
  BY TopCall
<1>2. Remaining(Top) = SizeWidth + OffsetWidth
  BY <1>1, TypesAssumption DEF Remaining, Contiguous, HasFixedDataSize
<1> QED
  BY <1>2, TwoWrites DEF SizeWidth, OffsetWidth

\* The steps of optional, variant and dynamic_array that write, as facts about
\* what they leave in the buffer.
LEMMA FinishArrayWrites ==
    ASSUME ViewInv, FinishArray
    PROVE  /\ phase = "running"
           /\ \/ phase' = "failed" /\ used' = used /\ StaysInSection(Top, mem, mem')
              \/ Continue(<<>>) /\ used' = used /\ WritesSection(Top, mem, mem')
<1> DEFINE count == Len(Top.node.sub)
           offset == IF count > 0 THEN Top.start ELSE 0
           m1 == Written(mem, SpanOf(Top), Top.fo, LittleEndian(count, SizeWidth))
           m2 == Written(m1, SpanOf(Top), Top.fo + SizeWidth, LittleEndian(offset, OffsetWidth))
<1>1. /\ phase = "running" /\ Kind[Top.node.type] = "dynamic_array" /\ Top.step = "finish"
  BY DEF FinishArray, Active
<1>2. count \in Nat /\ offset \in Nat
  BY <1>1, TopCall DEF Frame
<1>3. StaysInSection(Top, mem, m1) /\ WritesSection(Top, mem, m2)
  <2> HIDE DEF count, offset
  <2> QED
    BY <1>1, <1>2, ArrayWrites
<1>4. \/ Throw("object_size_error", mem)
      \/ Throw("object_size_error", m1)
      \/ mem' = m2 /\ Continue(<<>>) /\ UNCHANGED <<used, gen, devirt>>
  BY DEF FinishArray
<1> HIDE DEF m1, m2
<1> QED
  BY <1>1, <1>3, <1>4 DEF Throw, StaysInSection

LEMMA SerialiseOptionalValueWrites ==
    ASSUME ViewInv, SerialiseOptionalValue
    PROVE  LET value == Top.node.sub[1] IN
           /\ phase = "running" /\ Top.via # "span" /\ value \in Source
           /\ \/ phase' = "failed" /\ used' = used /\ StaysInSection(Top, mem, mem')
              \/ \E m : /\ WritesSection(Top, mem, m)
                        /\ ExtendThrough(Top, FixedSize[value.type], m)
                        /\ Continue(<<Call(value, SpanOf(Top).size, Top.via,
                                           SpanAfterExtend(Top))>>)
<1> DEFINE value == Top.node.sub[1]
           m == Written(mem, SpanOf(Top), Top.fo, LittleEndian(SpanOf(Top).size + 1, OffsetWidth))
<1>1. /\ phase = "running" /\ Kind[Top.node.type] = "optional" /\ Top.step = "serialise"
      /\ Top.node.sub # <<>>
  BY DEF SerialiseOptionalValue, Active
<1>2. /\ FrameOK(Top) /\ SpanOf(Top) = BufferSpan
      /\ Top.node.sub \in Seq(Source) /\ Top.node.type \in Type
  BY <1>1, TopCall
<1>3. value \in Source
  <2>1. 1 \in 1 .. Len(Top.node.sub)
    BY <1>1, <1>2, EmptySeq
  <2> QED
    BY <1>2, <2>1, ElementOfSeq
<1>4. Top.via # "span"
  BY <1>1, <1>2, TypesAssumption DEF FrameOK, HasSpanOverload, Contiguous
<1>5. WritesSection(Top, mem, m)
  <2>1. SpanOf(Top).size + 1 \in Nat
    BY <1>2 DEF BufferSpan, ViewInv, TypeOK
  <2> QED
    BY <1>1, <2>1, OptionalWrites
<1>6. \/ Throw("object_size_error", mem)
      \/ Throw("bad_alloc", m)
      \/ /\ ExtendThrough(Top, FixedSize[value.type], m)
         /\ Continue(<<Call(value, SpanOf(Top).size, Top.via, SpanAfterExtend(Top))>>)
  BY DEF SerialiseOptionalValue
<1> HIDE DEF value, m
<1>7. StaysInSection(Top, mem, mem) /\ StaysInSection(Top, mem, m)
  BY <1>5 DEF StaysInSection, WritesSection
<1> QED
  BY <1>1, <1>3, <1>4, <1>5, <1>6, <1>7 DEF Throw, value

LEMMA SerialiseVariantValueWrites ==
    ASSUME ViewInv, SerialiseVariantValue
    PROVE  LET value == Top.node.sub[1] IN
           /\ phase = "running" /\ Top.via # "span" /\ value \in Source
           /\ \/ phase' = "failed" /\ used' = used /\ StaysInSection(Top, mem, mem')
              \/ \E m : /\ WritesSection(Top, mem, m)
                        /\ ExtendThrough(Top, FixedSize[value.type], m)
                        /\ Continue(<<Call(value, SpanOf(Top).size, Top.via,
                                           SpanAfterExtend(Top))>>)
<1> DEFINE value == Top.node.sub[1]
           m1 == Written(mem, SpanOf(Top), Top.fo, LittleEndian(Top.node.val, IndexWidth))
           m2 == Written(m1, SpanOf(Top), Top.fo + IndexWidth,
                         LittleEndian(SpanOf(Top).size, OffsetWidth))
<1>1. /\ phase = "running" /\ Kind[Top.node.type] = "variant" /\ Top.step = "serialise"
      /\ Elements[Top.node.type] # <<>> /\ Top.node.sub # <<>>
  BY DEF SerialiseVariantValue, Active
<1>2. /\ FrameOK(Top) /\ SpanOf(Top) = BufferSpan /\ Top.node.val \in Nat
      /\ Top.node.sub \in Seq(Source) /\ Top.node.type \in Type
  BY <1>1, TopCall
<1>3. value \in Source
  <2>1. 1 \in 1 .. Len(Top.node.sub)
    BY <1>1, <1>2, EmptySeq
  <2> QED
    BY <1>2, <2>1, ElementOfSeq
<1>4. Top.via # "span"
  BY <1>1, <1>2, TypesAssumption DEF FrameOK, HasSpanOverload, Contiguous
<1>5. StaysInSection(Top, mem, m1) /\ WritesSection(Top, mem, m2)
  <2>1. SpanOf(Top).size \in Nat
    BY <1>2 DEF BufferSpan, ViewInv, TypeOK
  <2> QED
    BY <1>1, <1>2, <2>1, VariantWrites
<1>6. \/ Throw("object_size_error", m1)
      \/ Throw("bad_alloc", m2)
      \/ /\ ExtendThrough(Top, FixedSize[value.type], m2)
         /\ Continue(<<Call(value, SpanOf(Top).size, Top.via, SpanAfterExtend(Top))>>)
  BY DEF SerialiseVariantValue
<1> HIDE DEF value, m1, m2
<1>7. StaysInSection(Top, mem, m2)
  BY <1>5 DEF StaysInSection, WritesSection
<1> QED
  BY <1>1, <1>3, <1>4, <1>5, <1>6, <1>7 DEF Throw, value

LEMMA EmptyVariantWrites ==
    ASSUME ViewInv, SerialiseEmptyVariant
    PROVE  WritesSection(Top, mem, mem')
<1>1. phase = "running" /\ Kind[Top.node.type] = "variant"
  BY DEF SerialiseEmptyVariant, Active
<1>2. 0 \in Nat
  OBVIOUS
<1> QED
  BY <1>1, <1>2, VariantWrites DEF SerialiseEmptyVariant

-----------------------------------------------------------------------------
\* Every step keeps the partition, and writes only in the section of the
\* innermost call.

LEMMA ElementsKeepPartition ==
    ASSUME ViewInv, SectionsPartitionUnwritten, phase = "running",
           PushElement \/ ReturnAfterElements,
           \/ Kind[Top.node.type] \in Contiguous
           \/ Kind[Top.node.type] = "dynamic_array" /\ Top.step = "elements"
    PROVE  SectionsPartitionUnwritten'
<1>1. CASE PushElement
  BY <1>1, PushElementKeepsPartition
<1>2. CASE ReturnAfterElements
  <2>1. Section(Top) = {}
    BY <1>2, NothingRemains DEF ReturnAfterElements
  <2> QED
    BY <1>2, <2>1, ReturnAfterElementsKeepsPartition DEF ReturnAfterElements
<1> QED
  BY <1>1, <1>2

LEMMA StepKeepsPartition ==
    ASSUME ViewInv, SectionsPartitionUnwritten, Step
    PROVE  SectionsPartitionUnwritten'
<1>1. CASE SerialiseNull
  <2>1. phase = "running" /\ Kind[Top.node.type] = "null" /\ Continue(<<>>)
        /\ UNCHANGED <<mem, used>>
    BY <1>1 DEF SerialiseNull, Active
  <2>2. Top \in Frame /\ Top.node.type \in Type /\ FrameOK(Top)
    BY <2>1, TopCall
  <2>3. Remaining(Top) = 0
    BY <2>1, <2>2, TypesAssumption DEF Remaining, Contiguous, FrameOK, HasFixedDataSize
  <2>4. Section(Top) = {}
    BY <2>2, <2>3 DEF Section, Frame
  <2> QED
    BY <2>1, <2>4, ReturnAfterElementsKeepsPartition
<1>2. CASE SerialiseScalar
  BY <1>2, ScalarWrites, ReturnKeepsPartition DEF SerialiseScalar, Active
<1>3. CASE SerialisePair \/ SerialiseTuple \/ SerialiseStaticArray \/ SerialiseRecord
  <2>1. /\ phase = "running" /\ Kind[Top.node.type] \in Contiguous
        /\ PushElement \/ ReturnAfterElements
    BY <1>3 DEF SerialisePair, SerialiseTuple, SerialiseStaticArray, SerialiseRecord,
                Active, Contiguous
  <2> QED
    BY <2>1, ElementsKeepPartition
<1>4. CASE SerialiseOptionalEmpty
  <2>1. WritesSection(Top, mem, mem')
    <3>1. phase = "running" /\ Kind[Top.node.type] = "optional" /\ 0 \in Nat
      BY <1>4 DEF SerialiseOptionalEmpty, Active
    <3> QED
      BY <1>4, <3>1, OptionalWrites DEF SerialiseOptionalEmpty
  <2> QED
    BY <1>4, <2>1, ReturnKeepsPartition DEF SerialiseOptionalEmpty, Active
<1>5. CASE SerialiseOptionalValue
  <2>1. CASE phase' = "failed"
    BY <2>1 DEF SectionsPartitionUnwritten
  <2> QED
    BY <1>5, <2>1, SerialiseOptionalValueWrites, PushValueKeepsPartition
<1>6. CASE SerialiseEmptyVariant
  BY <1>6, EmptyVariantWrites, ReturnKeepsPartition DEF SerialiseEmptyVariant, Active
<1>7. CASE SerialiseValuelessVariant
  BY <1>7 DEF SerialiseValuelessVariant, Throw, SectionsPartitionUnwritten
<1>8. CASE SerialiseVariantValue
  <2>1. CASE phase' = "failed"
    BY <2>1 DEF SectionsPartitionUnwritten
  <2> QED
    BY <1>8, <2>1, SerialiseVariantValueWrites, PushValueKeepsPartition
<1>9. CASE BeginElements
  BY <1>9, BeginElementsKeepsPartition
<1>10. CASE SerialiseElement
  BY <1>10, ElementsKeepPartition DEF SerialiseElement, Active
<1>11. CASE EndElements
  <2>1. Section(Top) = {}
    BY <1>11, NothingRemains DEF EndElements, Active
  <2> QED
    BY <1>11, <2>1, ReturnAfterElementsKeepsPartition DEF EndElements, Active
<1>12. CASE FinishArray
  <2>1. CASE phase' = "failed"
    BY <2>1 DEF SectionsPartitionUnwritten
  <2> QED
    BY <1>12, <2>1, FinishArrayWrites, ReturnKeepsPartition
<1> QED
  BY <1>1, <1>2, <1>3, <1>4, <1>5, <1>6, <1>7, <1>8, <1>9, <1>10, <1>11, <1>12 DEF Step

LEMMA ExtendKeepsContents ==
    ASSUME ViewInv, NEW count \in Nat, NEW m, Extend(count, m)
    PROVE  \A x \in 0 .. used - 1 : mem'[x] = m[x]
<1>1. used \in Nat /\ used' = used + count
  BY DEF ViewInv, TypeOK, Extend
<1> TAKE x \in 0 .. used - 1
<1>2. x \in 0 .. used' - 1 /\ x < used
  BY <1>1
<1> QED
  BY <1>2 DEF Extend

LEMMA StepStaysInSection ==
    ASSUME ViewInv, Step
    PROVE  phase = "running" /\ StaysInSection(Top, mem, mem')
<1>1. CASE mem' = mem /\ phase = "running"
  BY <1>1 DEF StaysInSection
<1>2. CASE SerialiseScalar
  BY <1>2, ScalarWrites DEF SerialiseScalar, Active, WritesSection, StaysInSection
<1>3. CASE SerialiseOptionalEmpty
  <2>1. phase = "running" /\ Kind[Top.node.type] = "optional" /\ 0 \in Nat
    BY <1>3 DEF SerialiseOptionalEmpty, Active
  <2> QED
    BY <1>3, <2>1, OptionalWrites DEF SerialiseOptionalEmpty, WritesSection, StaysInSection
<1>4. ASSUME NEW value \in Source, NEW m, WritesSection(Top, mem, m),
             ExtendThrough(Top, FixedSize[value.type], m)
      PROVE  StaysInSection(Top, mem, mem')
  <2>1. FixedSize[value.type] \in Nat
    BY SourceAssumption, TypesAssumption
  <2>2. \A x \in 0 .. used - 1 : mem'[x] = m[x]
    BY <1>4, <2>1, ExtendKeepsContents DEF ExtendThrough
  <2> QED
    BY <1>4, <2>2 DEF WritesSection, StaysInSection
<1>5. CASE SerialiseOptionalValue
  BY <1>4, <1>5, SerialiseOptionalValueWrites
<1>6. CASE SerialiseEmptyVariant
  BY <1>6, EmptyVariantWrites DEF SerialiseEmptyVariant, Active, WritesSection, StaysInSection
<1>7. CASE SerialiseVariantValue
  BY <1>4, <1>7, SerialiseVariantValueWrites
<1>8. CASE BeginElements
  <2> DEFINE element == Elements[Top.node.type][1]
             count == FixedSize[element] * Len(Top.node.sub)
  <2>1. phase = "running" /\ Kind[Top.node.type] = "dynamic_array"
    BY <1>8 DEF BeginElements, Active
  <2>2. CASE mem' = mem
    BY <1>1, <2>1, <2>2
  <2>3. CASE Extend(count, mem)
    <3>1. Top.node.sub \in Seq(Source) /\ Top.node.type \in Type
      BY <2>1, TopCall
    <3>2. Elements[Top.node.type] \in Seq(Type) /\ Len(Elements[Top.node.type]) = 1
      BY <2>1, <3>1, TypesAssumption
    <3>3. FixedSize[element] \in Nat /\ Len(Top.node.sub) \in Nat
      BY <3>1, <3>2, TypesAssumption
    <3>4. \A a, b \in Nat : a * b \in Nat
      OBVIOUS
    <3> HIDE DEF element
    <3>5. count \in Nat
      BY <3>3, <3>4
    <3> HIDE DEF count
    <3> QED
      BY <2>1, <2>3, <3>5, ExtendKeepsContents DEF StaysInSection
  <2> QED
    BY <1>8, <2>2, <2>3 DEF BeginElements, Throw
<1>9. CASE FinishArray
  BY <1>9, FinishArrayWrites DEF WritesSection, StaysInSection
<1>10. CASE \/ SerialiseNull \/ SerialisePair \/ SerialiseTuple \/ SerialiseStaticArray
            \/ SerialiseRecord \/ SerialiseValuelessVariant \/ SerialiseElement \/ EndElements
  BY <1>1, <1>10 DEF SerialiseNull, SerialisePair, SerialiseTuple, SerialiseStaticArray,
       SerialiseRecord, SerialiseValuelessVariant, SerialiseElement, EndElements,
       PushElement, ReturnAfterElements, Active, Throw
<1> QED
  BY <1>2, <1>3, <1>5, <1>6, <1>7, <1>8, <1>9, <1>10 DEF Step

-----------------------------------------------------------------------------

LEMMA NextKeepsPartition ==
    ASSUME ViewInv, SectionsPartitionUnwritten, [Next]_vars
    PROVE  SectionsPartitionUnwritten'
<1>1. CASE Step
  BY <1>1, StepKeepsPartition
<1>2. CASE \E s \in Root : Serialise(s)
  <2> SUFFICES ASSUME NEW s \in Root, Serialise(s) PROVE SectionsPartitionUnwritten'
    BY <1>2
  <2> DEFINE call == Call(s, 0, "buffer", BufferSpan')
  <2>1. s \in Source /\ s.type \in Type /\ FixedSize[s.type] \in Nat
    BY RootAssumption, SourceAssumption, TypesAssumption
  <2>2. /\ used' = FixedSize[s.type] /\ used' \in Nat
        /\ mem' = [x \in 0 .. used' - 1 |-> Stale] /\ stack' = <<call>>
        /\ BufferSpan' \in Span
    BY <2>1 DEF Serialise, BufferSpan, Span
  <2>3. call \in Frame /\ call.fo = 0 /\ Remaining(call) = FixedSize[s.type]
    <3> DEFINE at == 0
               via == "buffer"
               view == BufferSpan'
    <3>1. /\ at \in Nat /\ via \in {"buffer", "devirt", "span"} /\ via # "span"
          /\ view \in Span /\ call = Call(s, at, via, view)
      BY <2>2
    <3> HIDE DEF at, via, view, call
    <3>2. call \in Frame /\ call.fo = at /\ Remaining(call) = FixedSize[s.type]
      BY <2>1, <3>1, CallFrame
    <3> QED
      BY <3>2 DEF at
  <2> HIDE DEF call
  <2>4. Len(stack') = 1 /\ stack'[1] = call /\ \A j \in 1 .. Len(stack') : j = 1
    BY <2>2
  <2>5. Section(stack'[1]) = 0 .. used' - 1
    BY <2>2, <2>3, <2>4 DEF Section
  <2>6. \A x \in 0 .. used' - 1 :
            mem'[x] = Stale <=> \E j \in 1 .. Len(stack') : x \in Section(stack'[j])
    <3>1. 1 \in 1 .. Len(stack')
      BY <2>4
    <3> QED
      BY <2>2, <2>5, <3>1
  <2> QED
    BY <2>4, <2>6 DEF SectionsPartitionUnwritten, Section, Remaining
<1>3. CASE \E s \in Root : InitialiseThrows(s)
  BY <1>3 DEF InitialiseThrows, SectionsPartitionUnwritten
<1>4. CASE UNCHANGED vars
  <2>1. stack' = stack /\ used' = used /\ mem' = mem /\ phase' = phase
    BY <1>4 DEF vars
  <2> SUFFICES ASSUME phase \in {"running", "done"}
               PROVE  /\ \A j, k \in 1 .. Len(stack') :
                            j # k => Section(stack'[j]) \cap Section(stack'[k]) = {}
                      /\ \A x \in 0 .. used' - 1 :
                            mem'[x] = Stale <=> \E j \in 1 .. Len(stack') : x \in Section(stack'[j])
    BY <2>1 DEF SectionsPartitionUnwritten, Section, Remaining
  <2> QED
    BY <2>1 DEF SectionsPartitionUnwritten
<1> QED
  BY <1>1, <1>2, <1>3, <1>4 DEF Next

\* At every step, for every table of types and every source, each byte that is
\* not written yet belongs to exactly one of the active calls.
THEOREM UnwrittenBytesPartitioned == Spec => []SectionsPartitionUnwritten
<1>1. Init => SectionsPartitionUnwritten
  BY DEF Init, SectionsPartitionUnwritten
<1>2. ViewInv /\ SectionsPartitionUnwritten /\ [Next]_vars => SectionsPartitionUnwritten'
  BY NextKeepsPartition
<1> QED
  BY <1>1, <1>2, ViewInvHolds, PTL DEF Spec

\* A serialisation that ends with a message has written every byte of it.
THEOREM MessagesComplete == Spec => []CompleteWhenDone
<1>1. ViewInv /\ SectionsPartitionUnwritten => CompleteWhenDone
  <2> SUFFICES ASSUME ViewInv, SectionsPartitionUnwritten, phase = "done",
                      NEW x \in 0 .. used - 1
               PROVE  mem[x] # Stale
    BY DEF CompleteWhenDone
  <2>1. stack = <<>>
    BY DEF ViewInv, TypeOK
  <2>2. \A j \in 1 .. Len(stack) : FALSE
    BY <2>1
  <2> QED
    BY <2>2 DEF SectionsPartitionUnwritten
<1> QED
  BY <1>1, ViewInvHolds, UnwrittenBytesPartitioned, PTL

\* No byte of a message is written twice with different values.
THEOREM NothingOverwritten == Spec => NoOverwrite
<1>1. ViewInv /\ SectionsPartitionUnwritten /\ [Next]_vars
        => [phase = "running" =>
              \A x \in 0 .. used - 1 : mem[x] # Stale => mem'[x] = mem[x]]_vars
  <2> SUFFICES ASSUME ViewInv, SectionsPartitionUnwritten, Next, phase = "running",
                      NEW x \in 0 .. used - 1, mem[x] # Stale
               PROVE  mem'[x] = mem[x]
    OBVIOUS
  <2>1. Step
    BY DEF Next, Serialise, InitialiseThrows
  <2>2. x \notin Section(Top)
    BY TopSectionUnwritten
  <2> QED
    BY <2>1, <2>2, StepStaysInSection DEF StaysInSection
<1> QED
  BY <1>1, ViewInvHolds, UnwrittenBytesPartitioned, PTL DEF Spec, NoOverwrite

-----------------------------------------------------------------------------
\* 3. Size.  Induction over numbers.

\* A set of numbers that contains 0 and with each number the next contains all:
\* otherwise, of its members below one that is missing, the successor function
\* would map them into those that are not 0, of which there is one less.
LEMMA NumberInduction ==
    ASSUME NEW S, 0 \in S, \A k \in Nat : k \in S => k + 1 \in S
    PROVE  \A k \in Nat : k \in S
<1> SUFFICES ASSUME NEW n \in Nat, n \notin S
             PROVE  FALSE
  OBVIOUS
<1> DEFINE A == S \cap (0 .. n)
           B == A \ {0}
           succ == [k \in A |-> k + 1]
<1>1. IsFiniteSet(0 .. n)
  BY FS_Interval
<1>2. IsFiniteSet(A) /\ 0 \in A
  <2>1. A \in SUBSET (0 .. n) /\ 0 \in A
    OBVIOUS
  <2> HIDE DEF A
  <2> QED
    BY <1>1, <2>1, FS_Subset
<1>3. succ \in [A -> B]
  OBVIOUS
<1>4. IsFiniteSet(B) /\ Cardinality(B) < Cardinality(A)
  <2> HIDE DEF A
  <2>1. IsFiniteSet(B) /\ Cardinality(B) = Cardinality(A) - 1
    BY <1>2, FS_RemoveElement
  <2>2. Cardinality(A) \in Nat
    BY <1>2, FS_CardinalityType
  <2> QED
    BY <2>1, <2>2
<1>5. \E x, y \in A : x # y /\ succ[x] = succ[y]
  <2> HIDE DEF A, B, succ
  <2> QED
    BY <1>2, <1>3, <1>4, FS_PigeonHole
<1> QED
  BY <1>5

\* A set of numbers has a least member, if it has one at all.
LEMMA LeastNumber ==
    ASSUME NEW T, T \subseteq Nat, T # {}
    PROVE  \E m \in T : \A k \in T : m <= k
<1> SUFFICES ASSUME \A m \in T : \E k \in T : k < m
             PROVE  FALSE
  OBVIOUS
<1> DEFINE S == {n \in Nat : \A k \in T : n <= k}
<1>1. 0 \in S
  OBVIOUS
<1>2. ASSUME NEW n \in Nat, n \in S
      PROVE  n + 1 \in S
  <2>1. n \notin T
    BY <1>2
  <2>2. \A k \in T : n <= k /\ n # k
    BY <1>2, <2>1
  <2> QED
    BY <2>2
<1> HIDE DEF S
<1>3. \A n \in Nat : n \in S
  BY <1>1, <1>2, NumberInduction
<1>4. PICK k \in T : TRUE
  OBVIOUS
<1>5. k \in Nat /\ k + 1 \in S
  BY <1>3, <1>4
<1> QED
  BY <1>4, <1>5 DEF S

\* The possible values have a largest size.
LEMMA LargestOfSizes ==
    ASSUME NEW t, NEW n \in Nat, NEW sizes \in [1 .. n -> Nat], Possible[t] \subseteq 1 .. n
    PROVE  Largest(t, sizes) \in Nat /\ \A i \in Possible[t] : sizes[i] <= Largest(t, sizes)
<1> DEFINE A == {0} \cup {sizes[i] : i \in Possible[t]}
           bounds == {b \in Nat : \A a \in A : a <= b}
           S == {k \in Nat : k <= n => \E b \in Nat : \A i \in 1 .. k : sizes[i] <= b}
<1>1. A \subseteq Nat /\ 0 \in A /\ \A i \in Possible[t] : sizes[i] \in A
  OBVIOUS
<1>2. 0 \in S
  OBVIOUS
<1>3. ASSUME NEW k \in Nat, k \in S
      PROVE  k + 1 \in S
  <2> SUFFICES ASSUME k + 1 <= n
               PROVE  \E b \in Nat : \A i \in 1 .. k + 1 : sizes[i] <= b
    OBVIOUS
  <2>1. PICK b \in Nat : \A i \in 1 .. k : sizes[i] <= b
    BY <1>3
  <2>2. sizes[k + 1] \in Nat
    OBVIOUS
  <2>3. \A i \in 1 .. k + 1 : i \in 1 .. k \/ i = k + 1
    OBVIOUS
  <2>4. \A i \in 1 .. k : sizes[i] \in Nat
    OBVIOUS
  <2> WITNESS b + sizes[k + 1] \in Nat
  <2> QED
    BY <2>1, <2>2, <2>3, <2>4
<1> HIDE DEF S
<1>4. n \in S
  BY <1>2, <1>3, NumberInduction
<1>5. bounds # {} /\ bounds \subseteq Nat
  <2>1. PICK b \in Nat : \A i \in 1 .. n : sizes[i] <= b
    BY <1>4 DEF S
  <2>2. \A a \in A : a <= b
    BY <2>1
  <2> QED
    BY <2>2
<1>6. PICK m \in bounds : \A b \in bounds : m <= b
  <2> HIDE DEF bounds
  <2> QED
    BY <1>5, LeastNumber
<1>7. m \in A
  <2> SUFFICES ASSUME m \notin A
               PROVE  FALSE
    OBVIOUS
  <2>1. m \in Nat /\ \A a \in A : a <= m /\ a # m
    BY <1>6
  <2>2. m # 0 /\ m - 1 \in Nat /\ \A a \in A : a <= m - 1
    BY <1>1, <2>1
  <2>3. m - 1 \in bounds
    BY <2>2
  <2> QED
    BY <1>6, <2>1, <2>3
<1>8. Largest(t, sizes) = Max(A)
  BY DEF Largest
<1>9. m \in A /\ \A a \in A : m >= a
  BY <1>1, <1>6, <1>7
<1> HIDE DEF A, bounds
<1>10. Max(A) \in A /\ \A a \in A : Max(A) >= a
  BY <1>9, Zenon DEF Max
<1> QED
  BY <1>1, <1>8, <1>10

-----------------------------------------------------------------------------
\* The bound of the generator, type by type.

LEMMA TypeFacts ==
    ASSUME NEW t \in Type
    PROVE  /\ Elements[t] \in Seq(Type) /\ Len(Elements[t]) \in Nat
           /\ FixedSize[t] \in Nat /\ MaxSerialisedSize[t] \in Nat
           /\ \A i \in 1 .. Len(Elements[t]) :
                 /\ Elements[t][i] \in Type
                 /\ FixedSize[Elements[t][i]] \in Nat
                 /\ MaxSerialisedSize[Elements[t][i]] \in Nat
<1>1. /\ Elements[t] \in Seq(Type) /\ FixedSize[t] \in Nat
      /\ MaxSerialisedSize[t] \in Nat
  BY TypesAssumption, GeneratorAssumption
<1>2. \A i \in 1 .. Len(Elements[t]) : Elements[t][i] \in Type
  BY <1>1, ElementOfSeq
<1> QED
  BY <1>1, <1>2, TypesAssumption, GeneratorAssumption

\* What the elements from each one on may need, in all.
LEMMA ElementsNeed ==
    ASSUME NEW t \in Type
    PROVE  /\ MaxSizeFrom[t] \in [1 .. Len(Elements[t]) + 1 -> Nat]
           /\ MaxSizeFrom[t][Len(Elements[t]) + 1] = 0
           /\ \A i \in 1 .. Len(Elements[t]) :
                 MaxSizeFrom[t][i] = MaxSerialisedSize[Elements[t][i]] + MaxSizeFrom[t][i + 1]
<1>1. HasMaxSerialisedSize(t)
  BY GeneratorAssumption
<1>2. Elements[t] \in Seq(Type)
  BY TypeFacts
<1>3. \A i \in 1 .. Len(Elements[t]) : ElementSizes(t)[i] = MaxSerialisedSize[Elements[t][i]]
  BY <1>2 DEF ElementSizes
<1> QED
  BY <1>1, <1>3 DEF HasMaxSerialisedSize

\* If no element's message can be shorter than its fixed data, the elements
\* from each one on may need at least the fixed data that is left for them.
LEMMA ElementsNeedFixedData ==
    ASSUME NEW t \in Type, Kind[t] \in Contiguous,
           \A i \in 1 .. Len(Elements[t]) :
              FixedSize[Elements[t][i]] <= MaxSerialisedSize[Elements[t][i]]
    PROVE  \A i \in 1 .. Len(Elements[t]) + 1 :
              FixedSize[t] - ElementOffset[t][i] <= MaxSizeFrom[t][i]
<1>1. PICK n \in Nat : n = Len(Elements[t])
  BY TypeFacts
<1> DEFINE Enough(i) == FixedSize[t] - ElementOffset[t][i] <= MaxSizeFrom[t][i]
           S == {k \in Nat : k <= n => Enough(n + 1 - k)}
<1>2. /\ ElementOffset[t] \in [1 .. n + 1 -> Nat]
      /\ FixedSize[t] = ElementOffset[t][n + 1]
      /\ \A i \in 1 .. n :
            ElementOffset[t][i + 1] = ElementOffset[t][i] + FixedSize[Elements[t][i]]
  BY <1>1, TypesAssumption DEF HasElementOffsets, HasFixedDataSize
<1>3. /\ MaxSizeFrom[t] \in [1 .. n + 1 -> Nat] /\ MaxSizeFrom[t][n + 1] = 0
      /\ \A i \in 1 .. n :
            MaxSizeFrom[t][i] = MaxSerialisedSize[Elements[t][i]] + MaxSizeFrom[t][i + 1]
  BY <1>1, ElementsNeed
<1>4. /\ FixedSize[t] \in Nat
      /\ \A i \in 1 .. n : /\ FixedSize[Elements[t][i]] \in Nat
                           /\ MaxSerialisedSize[Elements[t][i]] \in Nat
                           /\ FixedSize[Elements[t][i]] <= MaxSerialisedSize[Elements[t][i]]
  BY <1>1, TypeFacts
<1>5. 0 \in S
  BY <1>2, <1>3, <1>4
<1>6. ASSUME NEW k \in Nat, k \in S
      PROVE  k + 1 \in S
  <2> SUFFICES ASSUME k + 1 <= n
               PROVE  Enough(n + 1 - (k + 1))
    OBVIOUS
  <2>1. PICK i \in 1 .. n : i = n + 1 - (k + 1) /\ i + 1 = n + 1 - k
    OBVIOUS
  <2>2. FixedSize[t] - ElementOffset[t][i + 1] <= MaxSizeFrom[t][i + 1]
    BY <1>6, <2>1
  <2>3. /\ ElementOffset[t][i] \in Nat /\ ElementOffset[t][i + 1] \in Nat
        /\ MaxSizeFrom[t][i] \in Nat /\ MaxSizeFrom[t][i + 1] \in Nat
    BY <1>2, <1>3
  <2>4. /\ ElementOffset[t][i + 1] = ElementOffset[t][i] + FixedSize[Elements[t][i]]
        /\ MaxSizeFrom[t][i] = MaxSerialisedSize[Elements[t][i]] + MaxSizeFrom[t][i + 1]
    BY <1>2, <1>3
  <2>5. FixedSize[t] - ElementOffset[t][i] <= MaxSizeFrom[t][i]
    <3>1. PICK all \in Nat, fixed \in Nat, size \in Nat :
             /\ all = FixedSize[t] /\ fixed = FixedSize[Elements[t][i]]
             /\ size = MaxSerialisedSize[Elements[t][i]] /\ fixed <= size
      BY <1>4
    <3>2. PICK here \in Nat, next \in Nat, need \in Nat, rest \in Nat :
             /\ here = ElementOffset[t][i] /\ next = ElementOffset[t][i + 1]
             /\ need = MaxSizeFrom[t][i] /\ rest = MaxSizeFrom[t][i + 1]
      BY <2>3
    <3>3. next = here + fixed /\ need = size + rest /\ all - next <= rest
      BY <2>2, <2>4, <3>1, <3>2
    <3>4. fixed <= size
      BY <3>1
    <3>5. all - here <= need
      BY <3>3, <3>4
    <3> QED
      BY <3>1, <3>2, <3>5
  <2> QED
    BY <2>1, <2>5
<1> HIDE DEF S
<1>7. \A k \in Nat : k \in S
  BY <1>5, <1>6, NumberInduction
<1>8. ASSUME NEW i \in 1 .. n + 1
      PROVE  Enough(i)
  <2>1. PICK k \in Nat : k = n + 1 - i /\ k <= n /\ n + 1 - k = i
    OBVIOUS
  <2>2. k \in S
    BY <1>7
  <2> QED
    BY <2>1, <2>2 DEF S
<1> QED
  BY <1>1, <1>8

\* max_serialised_size() of a type that refers to variable data.
LEMMA SizeWithValue ==
    ASSUME NEW t \in Type
    PROVE  /\ Kind[t] \in {"optional", "variant"} =>
                 \A i \in Possible[t] :
                    FixedSize[t] + MaxSerialisedSize[Elements[t][i]] <= MaxSerialisedSize[t]
           /\ Kind[t] = "dynamic_array" =>
                 MaxSerialisedSize[t] = FixedSize[t] + MaxSize[t] * MaxSerialisedSize[Elements[t][1]]
           /\ Kind[t] \in Contiguous => MaxSerialisedSize[t] = MaxSizeFrom[t][1]
           /\ Kind[t] \notin Contiguous => FixedSize[t] <= MaxSerialisedSize[t]
<1> DEFINE sizes == ElementSizes(t)
<1>1. PICK n \in Nat : n = Len(Elements[t])
  BY TypeFacts
<1>2. /\ sizes \in [1 .. n -> Nat]
      /\ \A i \in 1 .. n : sizes[i] = MaxSerialisedSize[Elements[t][i]]
  BY <1>1, TypeFacts DEF ElementSizes
<1>3. MaxSerialisedSize[t] = SizeFromElements(t, sizes, MaxSizeFrom[t][1])
  BY GeneratorAssumption DEF HasMaxSerialisedSize
<1>4. /\ FixedSize[t] \in Nat /\ MaxSize[t] \in Nat /\ Kind[t] \in Kinds
      /\ Possible[t] \subseteq 1 .. n
  BY <1>1, TypesAssumption, GeneratorAssumption
<1> HIDE DEF sizes
<1>5. Largest(t, sizes) \in Nat /\ \A i \in Possible[t] : sizes[i] <= Largest(t, sizes)
  BY <1>2, <1>4, LargestOfSizes
<1>6. CASE Kind[t] \in {"optional", "variant"}
  <2>1. MaxSerialisedSize[t] = FixedSize[t] + Largest(t, sizes)
    BY <1>3, <1>6 DEF SizeFromElements, WithValue, Contiguous
  <2>2. \A i \in Possible[t] :
           FixedSize[t] + MaxSerialisedSize[Elements[t][i]] <= MaxSerialisedSize[t]
    BY <1>2, <1>4, <1>5, <2>1
  <2> QED
    BY <1>1, <1>4, <1>5, <1>6, <2>1, <2>2 DEF Contiguous
<1>7. CASE Kind[t] = "dynamic_array"
  <2>1. n = 1
    BY <1>1, <1>7, TypesAssumption
  <2>2. sizes[1] = MaxSerialisedSize[Elements[t][1]] /\ sizes[1] \in Nat
    BY <1>2, <2>1
  <2>3. MaxSerialisedSize[t] = FixedSize[t] + MaxSize[t] * sizes[1]
    BY <1>3, <1>7 DEF SizeFromElements, WithValue, Contiguous
  <2>4. \A a, b \in Nat : a * b \in Nat
    OBVIOUS
  <2>5. MaxSize[t] * sizes[1] \in Nat
    BY <1>4, <2>2, <2>4
  <2>6. \A a, b \in Nat : a <= a + b
    OBVIOUS
  <2>7. FixedSize[t] <= MaxSerialisedSize[t]
    BY <1>4, <2>3, <2>5, <2>6
  <2> QED
    BY <1>7, <2>2, <2>3, <2>7 DEF Contiguous
<1>8. CASE Kind[t] \in Contiguous
  BY <1>3, <1>8 DEF SizeFromElements, Contiguous
<1>9. CASE Kind[t] \in {"null", "scalar"}
  BY <1>3, <1>4, <1>9 DEF SizeFromElements, Contiguous
<1> QED
  BY <1>4, <1>6, <1>7, <1>8, <1>9 DEF Kinds, Contiguous

\* No bound is less than the fixed data.
LEMMA MaxCoversFixedData ==
    \A t \in Type : FixedSize[t] <= MaxSerialisedSize[t]
<1> DEFINE bad == {t \in Type : ~(FixedSize[t] <= MaxSerialisedSize[t])}
           depths == {Depth[t] : t \in bad}
<1> SUFFICES ASSUME bad # {}
             PROVE  FALSE
  OBVIOUS
<1>1. depths \subseteq Nat /\ depths # {}
  BY DepthAssumption
<1>2. PICK d \in depths : \A e \in depths : d <= e
  <2> HIDE DEF depths
  <2> QED
    BY <1>1, LeastNumber
<1>3. PICK t \in bad : d = Depth[t]
  BY <1>2
<1>4. Kind[t] \in Contiguous
  BY <1>3, SizeWithValue
<1>5. ASSUME NEW i \in 1 .. Len(Elements[t])
      PROVE  FixedSize[Elements[t][i]] <= MaxSerialisedSize[Elements[t][i]]
  <2> DEFINE e == Elements[t][i]
  <2>1. e \in Type /\ Depth[e] < Depth[t]
    BY <1>3, <1>4, TypeFacts, DepthAssumption
  <2>2. Depth[e] \in Nat /\ Depth[t] \in Nat
    BY <1>3, <2>1, DepthAssumption
  <2>3. Depth[e] \notin depths
    BY <1>2, <1>3, <2>1, <2>2
  <2> QED
    BY <2>1, <2>3
<1>6. FixedSize[t] - ElementOffset[t][1] <= MaxSizeFrom[t][1]
  <2>1. 1 \in 1 .. Len(Elements[t]) + 1
    BY <1>3, TypeFacts
  <2> QED
    BY <1>3, <1>4, <1>5, <2>1, ElementsNeedFixedData
<1>7. ElementOffset[t][1] = 0 /\ FixedSize[t] \in Nat
  BY <1>3, <1>4, TypesAssumption DEF HasElementOffsets
<1>8. MaxSerialisedSize[t] = MaxSizeFrom[t][1]
  BY <1>3, <1>4, SizeWithValue
<1>9. FixedSize[t] <= MaxSerialisedSize[t]
  BY <1>6, <1>7, <1>8
<1> QED
  BY <1>3, <1>9

-----------------------------------------------------------------------------
\* What the active calls will still do to the size of the buffer.

\* How much call f, and those that it will make, will extend the buffer.
Pending(f) ==
    IF f.step = "finish" THEN 0
    ELSE IF f.step = "elements" \/ Kind[f.node.type] \in Contiguous
    THEN VariableSizeFrom[f.node][f.i + 1]
    ELSE VariableSize[f.node]

\* How much it can be if all is generated: what its section and the variable
\* data together may need, less the section, which is already allocated.
MaxPending(f) ==
    LET t == f.node.type IN
    CASE f.step = "finish" -> 0
      [] f.step = "elements" ->
            MaxSerialisedSize[Elements[t][1]] * (Len(f.node.sub) - f.i) - Remaining(f)
      [] f.step = "serialise" /\ Kind[t] \in Contiguous -> MaxSizeFrom[t][f.i + 1] - Remaining(f)
      [] OTHER -> MaxSerialisedSize[t] - FixedSize[t]

\* Whether f has an array that is too long still to come, or to be refused.
HasLongToCome(f) ==
    IF f.step = "finish" THEN IsLongArray(f.node)
    ELSE IF f.step = "elements" \/ Kind[f.node.type] \in Contiguous
    THEN \E i \in f.i + 1 .. Len(f.node.sub) : HasLongArray[f.node.sub[i]]
    ELSE HasLongArray[f.node]

\* The sizes that the buffer will have when the calls s return, if it has this
\* size now: p[j] when call j does, p[Len(s) + 1] now.
Sizes(s, size, p) ==
    /\ p \in [1 .. Len(s) + 1 -> Nat]
    /\ p[Len(s) + 1] = size
    /\ \A j \in 1 .. Len(s) : p[j] = p[j + 1] + Pending(s[j])

\* Bounds of these sizes, if all is generated.
Bounds(s, size, q) ==
    /\ q \in [1 .. Len(s) + 1 -> Nat]
    /\ size <= q[Len(s) + 1]
    /\ \A j \in 1 .. Len(s) :
          /\ s[j].node \in Generated /\ MaxPending(s[j]) \in Nat
          /\ q[j + 1] + MaxPending(s[j]) <= q[j]

\* The inductive invariant: the sizes to come lead to the size of the message,
\* and remain within the bound; an array that is too long has not been passed.
SizeInv ==
    phase \in {"running", "done"} =>
        /\ error = "none"
        /\ \E p : Sizes(stack, used, p) /\ p[1] = MessageSize(root)
        /\ root \in Generated =>
              \E q : Bounds(stack, used, q) /\ q[1] = MaxSerialisedSize[root.type]
        /\ HasLongArray[root] <=> \E j \in 1 .. Len(stack) : HasLongToCome(stack[j])
        /\ \A j \in 1 .. Len(stack) : stack[j].start <= used

\* Each size to come is as large as the next, and so the first is as large as
\* the last.
LEMMA SizesGrow ==
    ASSUME NEW s, NEW n \in Nat, n = Len(s), NEW p \in [1 .. n + 1 -> Nat],
           \A j \in 1 .. n : p[j + 1] <= p[j]
    PROVE  p[n + 1] <= p[1]
<1> DEFINE S == {k \in Nat : k <= n => p[k + 1] <= p[1]}
<1>1. 0 \in S
  OBVIOUS
<1>2. ASSUME NEW k \in Nat, k \in S
      PROVE  k + 1 \in S
  <2> SUFFICES ASSUME k + 1 <= n
               PROVE  p[k + 1 + 1] <= p[1]
    OBVIOUS
  <2>1. k + 1 \in 1 .. n /\ k + 1 \in 1 .. n + 1 /\ k + 1 + 1 \in 1 .. n + 1
    OBVIOUS
  <2>2. p[k + 1 + 1] <= p[k + 1] /\ p[k + 1] <= p[1]
    BY <1>2, <2>1
  <2>3. p[k + 1 + 1] \in Nat /\ p[k + 1] \in Nat /\ p[1] \in Nat
    BY <2>1
  <2> QED
    BY <2>2, <2>3
<1> HIDE DEF S
<1>3. n \in S
  BY <1>1, <1>2, NumberInduction
<1> QED
  BY <1>3 DEF S

\* The stack t is s with the innermost call replaced by the calls fs.
Replaces(s, fs, t) ==
    /\ Len(s) \in Nat \ {0} /\ Len(fs) \in Nat
    /\ Len(t) = Len(s) - 1 + Len(fs)
    /\ \A j \in 1 .. Len(t) :
          t[j] = IF j < Len(s) THEN s[j] ELSE fs[j - Len(s) + 1]

\* The sizes to come when the innermost call is replaced by calls that will
\* extend the buffer by as much: up to the call that stays they are the same.
LEMMA SizesReplaced ==
    ASSUME NEW s, NEW fs, NEW t, Replaces(s, fs, t),
           NEW size, NEW p, Sizes(s, size, p),
           NEW size2, NEW r, Sizes(fs, size2, r), r[1] = p[Len(s)]
    PROVE  \E p2 : Sizes(t, size2, p2) /\ p2[1] = p[1]
<1>1. PICK n \in Nat, m \in Nat : n = Len(s) /\ m = Len(fs) /\ n # 0
  BY DEF Replaces
<1> DEFINE p2 == [j \in 1 .. n + m |-> IF j <= n THEN p[j] ELSE r[j - n + 1]]
<1>2. Len(t) = n - 1 + m /\ Len(t) + 1 = n + m
  BY <1>1 DEF Replaces
<1>3. /\ p \in [1 .. n + 1 -> Nat] /\ \A j \in 1 .. n : p[j] = p[j + 1] + Pending(s[j])
      /\ r \in [1 .. m + 1 -> Nat] /\ \A j \in 1 .. m : r[j] = r[j + 1] + Pending(fs[j])
      /\ r[m + 1] = size2 /\ r[1] = p[n]
  BY <1>1 DEF Sizes
<1>4. p2 \in [1 .. n + m -> Nat]
  <2> SUFFICES ASSUME NEW j \in 1 .. n + m
               PROVE  (IF j <= n THEN p[j] ELSE r[j - n + 1]) \in Nat
    OBVIOUS
  <2>1. IF j <= n THEN j \in 1 .. n + 1 ELSE j - n + 1 \in 1 .. m + 1
    OBVIOUS
  <2> QED
    BY <1>3, <2>1
<1>5. \A j \in 1 .. n + m : j >= n => p2[j] = r[j - n + 1]
  <2> TAKE j \in 1 .. n + m
  <2> HAVE j >= n
  <2>1. CASE j = n
    <3>1. j - n + 1 = 1
      BY <2>1
    <3> QED
      BY <1>3, <2>1, <3>1
  <2>2. CASE j # n
    BY <2>2
  <2> QED
    BY <2>1, <2>2
<1>6. p2[n + m] = size2 /\ p2[1] = p[1]
  <2>1. n + m \in 1 .. n + m /\ n + m >= n /\ (n + m) - n + 1 = m + 1
        /\ 1 \in 1 .. n + m /\ 1 <= n
    BY <1>1
  <2>2. p2[n + m] = r[m + 1]
    BY <1>5, <2>1
  <2> QED
    BY <1>3, <2>1, <2>2
<1>7. ASSUME NEW j \in 1 .. n + m - 1
      PROVE  p2[j] = p2[j + 1] + Pending(t[j])
  <2>1. j \in 1 .. n + m /\ j + 1 \in 1 .. n + m /\ j \in 1 .. Len(t)
    BY <1>2
  <2>2. CASE j < n
    <3>1. t[j] = s[j]
      BY <1>1, <2>1, <2>2 DEF Replaces
    <3>2. p2[j] = p[j] /\ p2[j + 1] = p[j + 1] /\ j \in 1 .. n
      BY <2>1, <2>2
    <3> QED
      BY <1>3, <3>1, <3>2
  <2>3. CASE ~(j < n)
    <3>1. PICK k \in 1 .. m : k = j - n + 1 /\ k + 1 = (j + 1) - n + 1
      BY <2>3
    <3>2. t[j] = fs[k]
      BY <1>1, <2>1, <2>3, <3>1 DEF Replaces
    <3>3. p2[j] = r[k] /\ p2[j + 1] = r[k + 1]
      BY <1>5, <2>1, <2>3, <3>1
    <3> QED
      BY <1>3, <3>2, <3>3
  <2> QED
    BY <2>2, <2>3
<1> HIDE DEF p2
<1>8. Sizes(t, size2, p2)
  BY <1>2, <1>4, <1>6, <1>7 DEF Sizes
<1> QED
  BY <1>6, <1>8

\* The same for their bounds, where the calls fs may need less than the call
\* that they replace.
LEMMA BoundsReplaced ==
    ASSUME NEW s, NEW fs, NEW t, Replaces(s, fs, t),
           NEW size, NEW q, Bounds(s, size, q),
           NEW size2 \in Nat, NEW r, Bounds(fs, size2, r), r[1] <= q[Len(s)]
    PROVE  \E q2 : Bounds(t, size2, q2) /\ q2[1] = q[1]
<1>1. PICK n \in Nat, m \in Nat : n = Len(s) /\ m = Len(fs) /\ n # 0
  BY DEF Replaces
<1> DEFINE q2 == [j \in 1 .. n + m |-> IF j <= n THEN q[j] ELSE r[j - n + 1]]
<1>2. Len(t) = n - 1 + m /\ Len(t) + 1 = n + m
  BY <1>1 DEF Replaces
<1>3. /\ q \in [1 .. n + 1 -> Nat]
      /\ \A j \in 1 .. n : /\ s[j].node \in Generated /\ MaxPending(s[j]) \in Nat
                           /\ q[j + 1] + MaxPending(s[j]) <= q[j]
      /\ r \in [1 .. m + 1 -> Nat]
      /\ \A j \in 1 .. m : /\ fs[j].node \in Generated /\ MaxPending(fs[j]) \in Nat
                           /\ r[j + 1] + MaxPending(fs[j]) <= r[j]
      /\ size2 <= r[m + 1] /\ r[1] <= q[n]
  BY <1>1 DEF Bounds
<1>4. q2 \in [1 .. n + m -> Nat]
  <2> SUFFICES ASSUME NEW j \in 1 .. n + m
               PROVE  (IF j <= n THEN q[j] ELSE r[j - n + 1]) \in Nat
    OBVIOUS
  <2>1. IF j <= n THEN j \in 1 .. n + 1 ELSE j - n + 1 \in 1 .. m + 1
    OBVIOUS
  <2> QED
    BY <1>3, <2>1
<1>5. \A j \in 1 .. n + m :
         IF j < n THEN q2[j] = q[j] /\ q2[j + 1] = q[j + 1]
         ELSE r[j - n + 1] <= q2[j] /\ r[j - n + 1] \in Nat
  <2> TAKE j \in 1 .. n + m
  <2>1. CASE j < n
    BY <2>1
  <2>2. CASE j = n
    <3>1. j - n + 1 = 1 /\ q2[j] = q[n] /\ 1 \in 1 .. m + 1
      BY <2>2
    <3> QED
      BY <1>3, <2>2, <3>1
  <2>3. CASE j > n
    <3>1. q2[j] = r[j - n + 1] /\ j - n + 1 \in 1 .. m + 1 /\ ~(j < n)
      BY <2>3
    <3>2. r[j - n + 1] \in Nat
      BY <1>3, <3>1
    <3> QED
      BY <3>1, <3>2
  <2> QED
    BY <2>1, <2>2, <2>3
<1>6. q2[1] = q[1]
  BY <1>1
<1>7. size2 <= q2[n + m]
  <2>1. n + m \in 1 .. n + m /\ ~(n + m < n) /\ (n + m) - n + 1 = m + 1
    BY <1>1
  <2>2. r[m + 1] <= q2[n + m] /\ r[m + 1] \in Nat /\ q2[n + m] \in Nat
    BY <1>4, <1>5, <2>1
  <2> QED
    BY <1>3, <2>2
<1>8. ASSUME NEW j \in 1 .. n + m - 1
      PROVE  /\ t[j].node \in Generated /\ MaxPending(t[j]) \in Nat
             /\ q2[j + 1] + MaxPending(t[j]) <= q2[j]
  <2>1. j \in 1 .. n + m /\ j + 1 \in 1 .. n + m /\ j \in 1 .. Len(t)
    BY <1>2
  <2>2. CASE j < n
    <3>1. t[j] = s[j]
      BY <1>1, <2>1, <2>2 DEF Replaces
    <3>2. q2[j] = q[j] /\ q2[j + 1] = q[j + 1] /\ j \in 1 .. n
      BY <1>5, <2>1, <2>2
    <3> QED
      BY <1>3, <3>1, <3>2
  <2>3. CASE ~(j < n)
    <3>1. PICK k \in 1 .. m : k = j - n + 1 /\ k + 1 = (j + 1) - n + 1
      BY <2>3
    <3>2. t[j] = fs[k]
      BY <1>1, <2>1, <2>3, <3>1 DEF Replaces
    <3>3. r[k] <= q2[j] /\ r[k] \in Nat /\ q2[j + 1] = r[k + 1]
      <4>1. ~(j + 1 <= n)
        BY <2>3
      <4> QED
        BY <1>5, <2>1, <2>3, <3>1, <4>1
    <3>4. /\ fs[k].node \in Generated /\ MaxPending(fs[k]) \in Nat
          /\ r[k + 1] + MaxPending(fs[k]) <= r[k]
      BY <1>3
    <3>5. q2[j] \in Nat /\ r[k + 1] \in Nat
      <4>1. k + 1 \in 1 .. m + 1
        BY <3>1
      <4> HIDE DEF q2
      <4>2. q2[j] \in Nat
        BY <1>4, <2>1
      <4>3. r[k + 1] \in Nat
        BY <1>3, <4>1
      <4> QED
        BY <4>2, <4>3
    <3>6. PICK p \in Nat : p = MaxPending(fs[k])
      BY <3>4
    <3>7. r[k + 1] + p <= q2[j]
      BY <3>3, <3>4, <3>5, <3>6
    <3> QED
      BY <3>2, <3>3, <3>4, <3>6, <3>7
  <2> QED
    BY <2>2, <2>3
<1> HIDE DEF q2
<1>9. Bounds(t, size2, q2)
  BY <1>2, <1>4, <1>7, <1>8 DEF Bounds
<1> QED
  BY <1>6, <1>9

-----------------------------------------------------------------------------
\* How the innermost call hands over what is to come.

\* When the buffer grows from size to size2, the calls fs that replace f will
\* extend it by what remains of f's part, and are as far from an array that is
\* too long.
HandsOver(f, fs, size, size2) ==
    /\ size <= size2
    /\ \E r : Sizes(fs, size2, r) /\ r[1] = size + Pending(f)
    /\ f.node \in Generated => \E r : Bounds(fs, size2, r) /\ r[1] <= size + MaxPending(f)
    /\ HasLongToCome(f) <=> \E k \in 1 .. Len(fs) : HasLongToCome(fs[k])
    /\ \A k \in 1 .. Len(fs) : fs[k].start <= size2

\* The parts of f that two calls take over, or one.
Splits(f, b, c, growth) ==
    /\ Pending(b) \in Nat /\ Pending(c) \in Nat
    /\ Pending(f) = growth + (Pending(b) + Pending(c))
    /\ f.node \in Generated =>
          /\ b.node \in Generated /\ MaxPending(b) \in Nat
          /\ c.node \in Generated /\ MaxPending(c) \in Nat
          /\ growth + (MaxPending(b) + MaxPending(c)) <= MaxPending(f)
    /\ HasLongToCome(f) <=> HasLongToCome(b) \/ HasLongToCome(c)

Passes(f, c, growth) ==
    /\ Pending(c) \in Nat /\ Pending(f) = growth + Pending(c)
    /\ f.node \in Generated =>
          /\ c.node \in Generated /\ MaxPending(c) \in Nat
          /\ growth + MaxPending(c) <= MaxPending(f)
    /\ HasLongToCome(f) <=> HasLongToCome(c)

Finishes(f) ==
    /\ Pending(f) = 0
    /\ f.node \in Generated => MaxPending(f) \in Nat
    /\ ~ HasLongToCome(f)

LEMMA HandOverToTwo ==
    ASSUME NEW f, NEW b, NEW c, NEW growth \in Nat, NEW size \in Nat,
           Splits(f, b, c, growth), b.start <= size + growth, c.start <= size + growth,
           f.node \in Generated => MaxPending(f) \in Nat
    PROVE  HandsOver(f, <<b, c>>, size, size + growth)
<1> DEFINE fs == <<b, c>>
           size2 == size + growth
           r == <<size2 + (Pending(c) + Pending(b)), size2 + Pending(c), size2>>
           x == <<size2 + (MaxPending(c) + MaxPending(b)), size2 + MaxPending(c), size2>>
<1>1. /\ Len(fs) = 2 /\ fs[1] = b /\ fs[2] = c
      /\ \A k \in 1 .. Len(fs) : k = 1 \/ k = 2
      /\ 1 \in 1 .. Len(fs) /\ 2 \in 1 .. Len(fs)
  OBVIOUS
<1>2. size2 \in Nat /\ size <= size2
  OBVIOUS
<1>3. Sizes(fs, size2, r) /\ r[1] = size + Pending(f)
  <2>1. Pending(b) \in Nat /\ Pending(c) \in Nat /\ Pending(f) = growth + (Pending(b) + Pending(c))
    BY DEF Splits
  <2>2. r \in [1 .. 3 -> Nat]
    BY <1>2, <2>1
  <2>3. r[1] = r[2] + Pending(b) /\ r[2] = r[3] + Pending(c) /\ r[3] = size2
    BY <1>2, <2>1
  <2>4. r[1] = size + Pending(f)
    BY <2>1
  <2> HIDE DEF r, size2, fs
  <2> QED
    BY <1>1, <2>2, <2>3, <2>4 DEF Sizes
<1>4. ASSUME f.node \in Generated
      PROVE  Bounds(fs, size2, x) /\ x[1] <= size + MaxPending(f)
  <2>1. /\ MaxPending(b) \in Nat /\ MaxPending(c) \in Nat /\ MaxPending(f) \in Nat
        /\ growth + (MaxPending(b) + MaxPending(c)) <= MaxPending(f)
        /\ b.node \in Generated /\ c.node \in Generated
    BY <1>4 DEF Splits
  <2>2. x \in [1 .. 3 -> Nat]
    BY <1>2, <2>1
  <2>3. /\ x[2] + MaxPending(b) <= x[1] /\ x[3] + MaxPending(c) <= x[2] /\ size2 <= x[3]
    BY <1>2, <2>1
  <2>4. x[1] <= size + MaxPending(f)
    BY <2>1
  <2> HIDE DEF x, size2, fs
  <2> QED
    BY <1>1, <2>1, <2>2, <2>3, <2>4 DEF Bounds
<1>5. HasLongToCome(f) <=> \E k \in 1 .. Len(fs) : HasLongToCome(fs[k])
  BY <1>1 DEF Splits
<1>6. \A k \in 1 .. Len(fs) : fs[k].start <= size2
  BY <1>1
<1> HIDE DEF r, x, fs, size2
<1> QED
  BY <1>2, <1>3, <1>4, <1>5, <1>6 DEF HandsOver, fs, size2

LEMMA HandOverToOne ==
    ASSUME NEW f, NEW c, NEW growth \in Nat, NEW size \in Nat,
           Passes(f, c, growth), c.start <= size + growth,
           f.node \in Generated => MaxPending(f) \in Nat
    PROVE  HandsOver(f, <<c>>, size, size + growth)
<1> DEFINE fs == <<c>>
           size2 == size + growth
           r == <<size2 + Pending(c), size2>>
           x == <<size2 + MaxPending(c), size2>>
<1>1. /\ Len(fs) = 1 /\ fs[1] = c
      /\ \A k \in 1 .. Len(fs) : k = 1
      /\ 1 \in 1 .. Len(fs)
  OBVIOUS
<1>2. size2 \in Nat /\ size <= size2
  OBVIOUS
<1>3. Sizes(fs, size2, r) /\ r[1] = size + Pending(f)
  <2>1. Pending(c) \in Nat /\ Pending(f) = growth + Pending(c)
    BY DEF Passes
  <2>2. r \in [1 .. 2 -> Nat]
    BY <1>2, <2>1
  <2>3. r[1] = r[2] + Pending(c) /\ r[2] = size2 /\ r[1] = size + Pending(f)
    BY <1>2, <2>1
  <2> HIDE DEF r, size2, fs
  <2> QED
    BY <1>1, <2>2, <2>3 DEF Sizes
<1>4. ASSUME f.node \in Generated
      PROVE  Bounds(fs, size2, x) /\ x[1] <= size + MaxPending(f)
  <2>1. /\ MaxPending(c) \in Nat /\ MaxPending(f) \in Nat
        /\ growth + MaxPending(c) <= MaxPending(f)
        /\ c.node \in Generated
    BY <1>4 DEF Passes
  <2>2. x \in [1 .. 2 -> Nat]
    BY <1>2, <2>1
  <2>3. x[2] + MaxPending(c) <= x[1] /\ size2 <= x[2] /\ x[1] <= size + MaxPending(f)
    BY <1>2, <2>1
  <2> HIDE DEF x, size2, fs
  <2> QED
    BY <1>1, <2>1, <2>2, <2>3 DEF Bounds
<1>5. HasLongToCome(f) <=> \E k \in 1 .. Len(fs) : HasLongToCome(fs[k])
  BY <1>1 DEF Passes
<1>6. \A k \in 1 .. Len(fs) : fs[k].start <= size2
  BY <1>1
<1> HIDE DEF r, x, fs, size2
<1> QED
  BY <1>2, <1>3, <1>4, <1>5, <1>6 DEF HandsOver, fs, size2

LEMMA HandOverToNone ==
    ASSUME NEW f, NEW size \in Nat, Finishes(f)
    PROVE  HandsOver(f, <<>>, size, size)
<1> DEFINE r == <<size>>
<1>1. Len(<<>>) = 0 /\ \A k \in 1 .. Len(<<>>) : FALSE
  OBVIOUS
<1>2. r \in [1 .. 1 -> Nat] /\ r[1] = size
  OBVIOUS
<1> HIDE DEF r
<1>3. Sizes(<<>>, size, r) /\ Bounds(<<>>, size, r)
  BY <1>1, <1>2 DEF Sizes, Bounds
<1>4. r[1] = size + Pending(f) /\ (f.node \in Generated => r[1] <= size + MaxPending(f))
  BY <1>2 DEF Finishes
<1> QED
  BY <1>1, <1>3, <1>4 DEF HandsOver, Finishes

\* A step in which the innermost call hands over keeps the invariant.
LEMMA HandOverKeepsSizeInv ==
    ASSUME ViewInv, SizeInv, phase = "running", NEW fs \in Seq(Frame), Continue(fs),
           used' \in Nat, HandsOver(Top, fs, used, used')
    PROVE  SizeInv'
<1>1. stack \in Seq(Frame) /\ stack # <<>> /\ Len(stack) \in Nat \ {0} /\ used \in Nat
  BY TopCall DEF ViewInv, TypeOK
<1>2. Replaces(stack, fs, stack')
  BY <1>1, ContinueStack DEF Replaces
<1>3. root' = root /\ error' = error /\ phase' \in {"running", "done"}
  BY DEF Continue
<1>4. PICK n \in Nat \ {0} : n = Len(stack) /\ n \in 1 .. n /\ Top = stack[n]
  BY <1>1 DEF Top
<1>5. \E p : Sizes(stack', used', p) /\ p[1] = MessageSize(root)
  <2>1. PICK p : Sizes(stack, used, p) /\ p[1] = MessageSize(root)
    BY DEF SizeInv
  <2>2. p[n] = used + Pending(Top)
    BY <1>4, <2>1 DEF Sizes
  <2>3. PICK r : Sizes(fs, used', r) /\ r[1] = used + Pending(Top)
    BY DEF HandsOver
  <2>4. r[1] = p[Len(stack)]
    BY <1>4, <2>2, <2>3
  <2> QED
    BY <1>2, <2>1, <2>3, <2>4, SizesReplaced
<1>6. ASSUME root \in Generated
      PROVE  \E q : Bounds(stack', used', q) /\ q[1] = MaxSerialisedSize[root.type]
  <2>1. PICK q : Bounds(stack, used, q) /\ q[1] = MaxSerialisedSize[root.type]
    BY <1>6 DEF SizeInv
  <2>2. /\ q \in [1 .. n + 1 -> Nat] /\ used <= q[n + 1]
        /\ Top.node \in Generated /\ MaxPending(Top) \in Nat /\ q[n + 1] + MaxPending(Top) <= q[n]
    BY <1>4, <2>1 DEF Bounds
  <2>3. PICK r : Bounds(fs, used', r) /\ r[1] <= used + MaxPending(Top)
    BY <2>2 DEF HandsOver
  <2>4. r[1] \in Nat
    <3>1. Len(fs) \in Nat /\ 1 \in 1 .. Len(fs) + 1
      OBVIOUS
    <3> QED
      BY <2>3, <3>1 DEF Bounds
  <2>5. q[n] \in Nat /\ q[n + 1] \in Nat
    BY <1>4, <2>2
  <2>6. r[1] <= q[Len(stack)]
    BY <1>1, <1>4, <2>2, <2>3, <2>4, <2>5
  <2> QED
    BY <1>2, <2>1, <2>3, <2>6, BoundsReplaced
<1>7. PICK m \in Nat : m = Len(fs)
  OBVIOUS
<1>8. /\ Len(stack') = n - 1 + m
      /\ \A j \in 1 .. Len(stack') : stack'[j] = IF j < n THEN stack[j] ELSE fs[j - n + 1]
  BY <1>2, <1>4, <1>7 DEF Replaces
<1>9. ASSUME NEW j \in 1 .. Len(stack')
      PROVE  \/ j \in 1 .. n - 1 /\ j \in 1 .. n /\ stack'[j] = stack[j]
             \/ j - n + 1 \in 1 .. m /\ stack'[j] = fs[j - n + 1]
  BY <1>8
<1>10. HasLongArray[root] <=> \E j \in 1 .. Len(stack') : HasLongToCome(stack'[j])
  <2>1. HasLongArray[root] <=> \E j \in 1 .. n : HasLongToCome(stack[j])
    BY <1>4 DEF SizeInv
  <2>2. HasLongToCome(stack[n]) <=> \E k \in 1 .. m : HasLongToCome(fs[k])
    BY <1>4, <1>7 DEF HandsOver
  <2>3. \A j \in 1 .. n : j = n \/ j \in 1 .. n - 1
    OBVIOUS
  <2>4. ASSUME NEW k \in 1 .. m
        PROVE  \E j \in 1 .. Len(stack') : stack'[j] = fs[k]
    <3>1. k + n - 1 \in 1 .. Len(stack') /\ ~(k + n - 1 < n) /\ (k + n - 1) - n + 1 = k
      BY <1>8
    <3> QED
      BY <1>8, <3>1
  <2>5. ASSUME NEW k \in 1 .. n - 1
        PROVE  \E j \in 1 .. Len(stack') : stack'[j] = stack[k]
    <3>1. k \in 1 .. Len(stack') /\ k < n
      BY <1>8
    <3> QED
      BY <1>8, <3>1
  <2>6. ASSUME NEW j \in 1 .. Len(stack'), HasLongToCome(stack'[j])
        PROVE  HasLongArray[root]
    BY <1>9, <2>1, <2>2, <2>6
  <2>7. ASSUME HasLongArray[root]
        PROVE  \E j \in 1 .. Len(stack') : HasLongToCome(stack'[j])
    <3>1. PICK j \in 1 .. n : HasLongToCome(stack[j])
      BY <2>1, <2>7
    <3>2. CASE j = n
      BY <2>2, <2>4, <3>1, <3>2
    <3>3. CASE j \in 1 .. n - 1
      BY <2>5, <3>1, <3>3
    <3> QED
      BY <2>3, <3>2, <3>3
  <2> QED
    BY <2>6, <2>7
<1>11. \A j \in 1 .. Len(stack') : stack'[j].start <= used'
  <2> TAKE j \in 1 .. Len(stack')
  <2>1. CASE j \in 1 .. n /\ stack'[j] = stack[j]
    <3>1. stack[j].start <= used /\ used <= used'
      BY <1>4, <2>1 DEF SizeInv, HandsOver
    <3>2. stack[j].start \in Nat
      <4>1. stack[j] \in Frame
        BY <1>1, <1>4, <2>1, ElementOfSeq
      <4> QED
        BY <4>1 DEF Frame
    <3> QED
      BY <1>1, <2>1, <3>1, <3>2
  <2>2. CASE j - n + 1 \in 1 .. m /\ stack'[j] = fs[j - n + 1]
    BY <1>7, <2>2 DEF HandsOver
  <2> QED
    BY <1>9, <2>1, <2>2
<1>12. error = "none"
  BY DEF SizeInv
<1> QED
  BY <1>3, <1>5, <1>6, <1>10, <1>11, <1>12
     DEF SizeInv, MessageSize, Sizes, Bounds, Pending, MaxPending, HasLongToCome, IsLongArray, Remaining

-----------------------------------------------------------------------------
\* What is to come of a source.

LEMMA SourceFacts ==
    ASSUME NEW n \in Source
    PROVE  /\ n.type \in Type /\ n.sub \in Seq(Source) /\ Len(n.sub) \in Nat
           /\ SubsHaveTypes(n)
           /\ FixedSize[n.type] \in Nat /\ MaxSerialisedSize[n.type] \in Nat
           /\ FixedSize[n.type] <= MaxSerialisedSize[n.type]
           /\ VariableSize[n] \in Nat
           /\ VariableSizeFrom[n] \in [1 .. Len(n.sub) + 1 -> Nat]
           /\ VariableSizeFrom[n][Len(n.sub) + 1] = 0
           /\ \A i \in 1 .. Len(n.sub) :
                 /\ n.sub[i] \in Source
                 /\ VariableSizeFrom[n][i] = VariableSize[n.sub[i]] + VariableSizeFrom[n][i + 1]
           /\ VariableSize[n] = PartsAsVariable(n) + VariableSizeFrom[n][1]
           /\ HasLongArray[n] <=>
                 IsLongArray(n) \/ \E i \in 1 .. Len(n.sub) : HasLongArray[n.sub[i]]
           /\ n \in Generated <=> CanGenerate(n)
<1>1. n.type \in Type /\ n.sub \in Seq(Source) /\ SubsHaveTypes(n)
  BY SourceAssumption
<1>2. FixedSize[n.type] <= MaxSerialisedSize[n.type]
  BY <1>1, MaxCoversFixedData
<1>3. \A i \in 1 .. Len(n.sub) : n.sub[i] \in Source
  BY <1>1, ElementOfSeq
<1>4. HasVariableSize(n) /\ VariableSize[n] \in Nat
  BY MessageSizeAssumption
<1>5. HasLongArray[n] <=>
         IsLongArray(n) \/ \E i \in 1 .. Len(n.sub) : HasLongArray[n.sub[i]]
  BY MessageSizeAssumption
<1>6. n \in Generated <=> CanGenerate(n)
  BY GeneratorAssumption
<1> QED
  BY <1>1, <1>2, <1>3, <1>4, <1>5, <1>6, TypeFacts DEF HasVariableSize

LEMMA GeneratedParts ==
    ASSUME NEW n \in Generated
    PROVE  /\ n \in Source
           /\ \A i \in 1 .. Len(n.sub) : n.sub[i] \in Generated
           /\ Kind[n.type] = "dynamic_array" => Len(n.sub) <= MaxSize[n.type]
           /\ Kind[n.type] = "optional" /\ n.sub # <<>> => 1 \in Possible[n.type]
           /\ Kind[n.type] = "variant" /\ n.sub # <<>> => n.val + 1 \in Possible[n.type]
<1>1. n \in Source /\ CanGenerate(n)
  BY GeneratorAssumption
<1>2. DOMAIN n.sub = 1 .. Len(n.sub)
  BY <1>1, SourceFacts
<1> QED
  BY <1>1, <1>2 DEF CanGenerate, CanBeOutermost

\* All that a new call will do is to come.
LEMMA CallPending ==
    ASSUME NEW n \in Source, NEW at \in Nat, NEW view, NEW via, NEW c, c = Call(n, at, via, view)
    PROVE  /\ c.node = n /\ c.start = 0
           /\ Pending(c) = VariableSize[n]
           /\ MaxPending(c) = MaxSerialisedSize[n.type] - FixedSize[n.type]
           /\ Pending(c) \in Nat /\ MaxPending(c) \in Nat
           /\ HasLongToCome(c) <=> HasLongArray[n]
<1> DEFINE t == n.type
<1>1. c.node = n /\ c.start = 0 /\ c.step = "serialise" /\ c.i = 0
  BY DEF Call
<1>2. /\ t \in Type /\ FixedSize[t] \in Nat /\ MaxSerialisedSize[t] \in Nat
      /\ FixedSize[t] <= MaxSerialisedSize[t]
      /\ VariableSize[n] \in Nat
      /\ VariableSize[n] = PartsAsVariable(n) + VariableSizeFrom[n][1]
      /\ VariableSizeFrom[n] \in [1 .. Len(n.sub) + 1 -> Nat]
      /\ Len(n.sub) \in Nat
  BY SourceFacts
<1>3. Pending(c) = VariableSize[n]
  <2>1. CASE Kind[t] \in Contiguous
    <3>1. Pending(c) = VariableSizeFrom[n][0 + 1]
      BY <1>1, <2>1 DEF Pending
    <3>2. PartsAsVariable(n) = 0 /\ VariableSizeFrom[n][1] \in Nat
      BY <1>2, <2>1 DEF PartsAsVariable
    <3> QED
      BY <1>2, <3>1, <3>2
  <2>2. CASE Kind[t] \notin Contiguous
    BY <1>1, <2>2 DEF Pending
  <2> QED
    BY <2>1, <2>2
<1>4. MaxPending(c) = MaxSerialisedSize[t] - FixedSize[t]
  <2>1. CASE Kind[t] \in Contiguous
    <3>1. MaxPending(c) = MaxSizeFrom[t][0 + 1] - Remaining(c)
      BY <1>1, <2>1 DEF MaxPending
    <3>2. MaxSerialisedSize[t] = MaxSizeFrom[t][1]
      BY <1>2, <2>1, SizeWithValue
    <3>3. Remaining(c) = FixedSize[t] - ElementOffset[t][0 + 1]
      BY <1>1, <2>1 DEF Remaining
    <3>4. ElementOffset[t][1] = 0
      BY <1>2, <2>1, TypesAssumption DEF HasElementOffsets
    <3> QED
      BY <1>2, <3>1, <3>2, <3>3, <3>4
  <2>2. CASE Kind[t] \notin Contiguous
    BY <1>1, <2>2 DEF MaxPending
  <2> QED
    BY <2>1, <2>2
<1>5. HasLongToCome(c) <=> HasLongArray[n]
  <2>1. CASE Kind[t] \in Contiguous
    <3>1. HasLongToCome(c) <=> \E i \in 0 + 1 .. Len(n.sub) : HasLongArray[n.sub[i]]
      BY <1>1, <2>1 DEF HasLongToCome
    <3>2. ~IsLongArray(n)
      BY <2>1 DEF IsLongArray, Contiguous
    <3>3. 0 + 1 = 1
      OBVIOUS
    <3> QED
      BY <3>1, <3>2, <3>3, SourceFacts
  <2>2. CASE Kind[t] \notin Contiguous
    BY <1>1, <2>2 DEF HasLongToCome
  <2> QED
    BY <2>1, <2>2
<1> QED
  BY <1>1, <1>2, <1>3, <1>4, <1>5

\* A call that has been given a place for its element, and the element's call.
LEMMA ElementSplits ==
    ASSUME ViewInv, phase = "running", Top.i < Len(Top.node.sub),
           \/ Kind[Top.node.type] \in Contiguous /\ Top.step = "serialise"
           \/ Kind[Top.node.type] = "dynamic_array" /\ Top.step = "elements",
           NEW c, c = Call(Element(Top), Top.fo, Top.via, SpanOf(Top))
    PROVE  /\ Splits(Top, Advanced(Top), c, 0)
           /\ Advanced(Top).start = Top.start /\ c.start = 0
<1> DEFINE f == Top
           n == f.node
           t == n.type
           e == Element(f)
           rest == Advanced(f)
<1>1. PICK i \in Nat, len \in Nat : i = f.i /\ len = Len(n.sub) /\ i + 1 \in 1 .. len
  BY TopCall DEF Frame
<1>2. n \in Source /\ t \in Type /\ f \in Frame /\ f.fo \in Nat
  BY TopCall DEF Frame
<1>3. /\ e \in Source /\ e = n.sub[i + 1] /\ FixedSize[e.type] \in Nat
      /\ MaxSerialisedSize[e.type] \in Nat /\ VariableSize[e] \in Nat
  BY <1>1, <1>2, SourceFacts DEF Element
<1>4. /\ rest.node = n /\ rest.step = f.step /\ rest.i = i + 1 /\ rest.start = f.start
  BY <1>1, <1>2 DEF Advanced, Frame
<1>5. /\ Remaining(rest) \in Nat /\ Remaining(f) = FixedSize[e.type] + Remaining(rest)
  BY NextElement
<1>6. /\ c.node = e /\ c.start = 0
      /\ Pending(c) = VariableSize[e] /\ Pending(c) \in Nat
      /\ MaxPending(c) = MaxSerialisedSize[e.type] - FixedSize[e.type]
      /\ MaxPending(c) \in Nat
      /\ HasLongToCome(c) <=> HasLongArray[e]
  <2> HIDE DEF e, rest, n, t
  <2> QED
    BY <1>2, <1>3, CallPending DEF e
<1>7. Pending(rest) \in Nat /\ Pending(f) = Pending(rest) + Pending(c)
  <2>1. Pending(f) = VariableSizeFrom[n][i + 1]
    BY <1>1 DEF Pending, Contiguous
  <2>2. Pending(rest) = VariableSizeFrom[n][i + 1 + 1]
    BY <1>4 DEF Pending, Contiguous
  <2>3. /\ VariableSizeFrom[n][i + 1] = VariableSize[e] + VariableSizeFrom[n][i + 1 + 1]
        /\ VariableSizeFrom[n][i + 1 + 1] \in Nat
    <3>1. i + 1 \in 1 .. Len(n.sub) /\ i + 1 + 1 \in 1 .. Len(n.sub) + 1
      BY <1>1
    <3>2. /\ VariableSizeFrom[n] \in [1 .. Len(n.sub) + 1 -> Nat]
          /\ \A k \in 1 .. Len(n.sub) :
                VariableSizeFrom[n][k] = VariableSize[n.sub[k]] + VariableSizeFrom[n][k + 1]
      BY <1>2, SourceFacts
    <3>3. VariableSizeFrom[n][i + 1] = VariableSize[n.sub[i + 1]] + VariableSizeFrom[n][i + 1 + 1]
      BY <3>1, <3>2
    <3>4. VariableSizeFrom[n][i + 1 + 1] \in Nat
      BY <3>1, <3>2
    <3> HIDE DEF n, e
    <3> QED
      BY <1>3, <3>3, <3>4
  <2> HIDE DEF f, n, e, rest
  <2> QED
    BY <1>3, <1>6, <2>1, <2>2, <2>3
<1>8. MaxPending(rest) \in Nat /\ MaxPending(f) = MaxPending(rest) + MaxPending(c)
  <2>1. CASE Kind[t] \in Contiguous /\ f.step = "serialise"
    <3>1. MaxPending(f) = MaxSizeFrom[t][i + 1] - Remaining(f)
      BY <1>1, <2>1 DEF MaxPending
    <3>2. MaxPending(rest) = MaxSizeFrom[t][i + 1 + 1] - Remaining(rest)
      BY <1>4, <2>1 DEF MaxPending
    <3>3. len = Len(Elements[t]) /\ e.type = Elements[t][i + 1]
      <4>1. SubsHaveTypes(n)
        BY <1>2, SourceFacts
      <4> QED
        BY <1>1, <1>3, <2>1, <4>1 DEF SubsHaveTypes
    <3>4. i + 1 + 1 \in 1 .. len + 1 /\ i + 1 \in 1 .. len + 1
      BY <1>1
    <3>5. /\ MaxSizeFrom[t][i + 1] = MaxSerialisedSize[e.type] + MaxSizeFrom[t][i + 1 + 1]
          /\ MaxSizeFrom[t][i + 1] \in Nat /\ MaxSizeFrom[t][i + 1 + 1] \in Nat
      BY <1>1, <1>2, <3>3, <3>4, ElementsNeed
    <3>6. Remaining(rest) <= MaxSizeFrom[t][i + 1 + 1]
      <4>1. Remaining(rest) = FixedSize[t] - ElementOffset[t][i + 1 + 1]
        BY <1>4, <2>1 DEF Remaining
      <4>2. FixedSize[t] - ElementOffset[t][i + 1 + 1] <= MaxSizeFrom[t][i + 1 + 1]
        BY <1>2, <2>1, <3>3, <3>4, TypeFacts, MaxCoversFixedData, ElementsNeedFixedData
      <4> QED
        BY <4>1, <4>2
    <3> HIDE DEF f, n, e, rest, t
    <3>7. PICK me \in Nat, fe \in Nat, mr \in Nat, rr \in Nat :
              /\ me = MaxSerialisedSize[e.type] /\ fe = FixedSize[e.type]
              /\ mr = MaxSizeFrom[t][i + 1 + 1] /\ rr = Remaining(rest)
      BY <1>3, <1>5, <3>5
    <3>8. MaxPending(f) = (me + mr) - (fe + rr)
      BY <1>5, <3>1, <3>5, <3>7
    <3>9. MaxPending(rest) = mr - rr /\ MaxPending(c) = me - fe /\ rr <= mr
      BY <1>6, <3>2, <3>6, <3>7
    <3> QED
      BY <3>8, <3>9
  <2>2. CASE Kind[t] = "dynamic_array" /\ f.step = "elements"
    <3>1. e.type = Elements[t][1]
      <4>1. SubsHaveTypes(n)
        BY <1>2, SourceFacts
      <4> QED
        BY <1>1, <1>3, <2>2, <4>1 DEF SubsHaveTypes
    <3>2. MaxPending(f) = MaxSerialisedSize[e.type] * (len - i) - Remaining(f)
      BY <1>1, <2>2, <3>1 DEF MaxPending
    <3>3. MaxPending(rest) = MaxSerialisedSize[e.type] * (len - (i + 1)) - Remaining(rest)
      BY <1>1, <1>4, <2>2, <3>1 DEF MaxPending
    <3>4. Remaining(rest) = FixedSize[e.type] * (len - (i + 1))
      BY <1>1, <1>4, <2>2, <3>1 DEF Remaining, Contiguous
    <3>5. PICK d \in Nat : len - (i + 1) = d /\ len - i = d + 1
      <4>1. i + 1 <= len
        BY <1>1
      <4>2. len - (i + 1) \in Nat /\ len - i = len - (i + 1) + 1
        BY <4>1
      <4> QED
        BY <4>2
    <3>6. \A a, b, k \in Nat : b <= a => /\ b * k <= a * k /\ a * k \in Nat
                                         /\ a * (k + 1) = a * k + a
      OBVIOUS
    <3>7. FixedSize[e.type] <= MaxSerialisedSize[e.type]
      BY <1>3, SourceFacts
    <3> HIDE DEF f, n, e, rest, t
    <3>8. PICK me \in Nat, fe \in Nat : /\ me = MaxSerialisedSize[e.type]
                                        /\ fe = FixedSize[e.type]
      BY <1>3
    <3>9. fe <= me
      BY <3>7, <3>8
    <3>10. fe * d <= me * d /\ me * d \in Nat /\ me * (d + 1) = me * d + me
      BY <3>6, <3>9
    <3>11. \A a, b \in Nat : a * b \in Nat
      OBVIOUS
    <3>12. PICK u \in Nat, v \in Nat : u = me * d /\ v = fe * d
      BY <3>11
    <3>13. MaxPending(f) = (u + me) - (fe + v)
      BY <1>5, <3>2, <3>4, <3>5, <3>8, <3>10, <3>12
    <3>14. MaxPending(rest) = u - v /\ MaxPending(c) = me - fe /\ v <= u
      BY <1>6, <3>3, <3>4, <3>5, <3>8, <3>10, <3>12
    <3> QED
      BY <3>9, <3>13, <3>14
  <2> QED
    BY <2>1, <2>2
<1>9. n \in Generated => rest.node \in Generated /\ c.node \in Generated
  BY <1>1, <1>3, <1>4, <1>6, GeneratedParts
<1>10. HasLongToCome(f) <=> HasLongToCome(rest) \/ HasLongToCome(c)
  <2>1. f.step = "elements" \/ (Kind[t] \in Contiguous /\ f.step = "serialise")
    OBVIOUS
  <2>2. \A k : k \in i + 1 .. len <=> k = i + 1 \/ k \in i + 1 + 1 .. len
    BY <1>1
  <2>3. HasLongToCome(f) <=> \E k \in i + 1 .. len : HasLongArray[n.sub[k]]
    BY <1>1, <2>1 DEF HasLongToCome
  <2>4. HasLongToCome(rest) <=> \E k \in i + 1 + 1 .. len : HasLongArray[n.sub[k]]
    BY <1>1, <1>4, <2>1 DEF HasLongToCome
  <2>5. HasLongToCome(c) <=> HasLongArray[n.sub[i + 1]]
    BY <1>3, <1>6
  <2> HIDE DEF f, n, e, rest, t
  <2> QED
    BY <2>2, <2>3, <2>4, <2>5
<1> HIDE DEF f, n, e, rest, t
<1>11. Splits(f, rest, c, 0)
  BY <1>6, <1>7, <1>8, <1>9, <1>10 DEF Splits, n
<1> QED
  BY <1>4, <1>6, <1>11 DEF f, rest

\* A call extends the buffer, or leaves it alone, and whatever it may still need
\* is at least what it has been given.
LEMMA PendingNat ==
    ASSUME NEW f \in Frame, FrameOK(f)
    PROVE  Pending(f) \in Nat /\ MaxPending(f) \in Nat
<1> DEFINE n == f.node
           t == n.type
<1>1. PICK i \in Nat, len \in Nat : i = f.i /\ len = Len(n.sub) /\ i <= len
  <2>1. f.i \in Nat /\ Len(n.sub) \in Nat /\ f.i <= Len(n.sub)
    BY SourceFacts DEF Frame, FrameOK
  <2> QED
    BY <2>1
<1>2. n \in Source /\ t \in Type /\ f.step \in {"serialise", "elements", "finish"}
  BY SourceFacts DEF Frame
<1>3. i + 1 \in 1 .. len + 1
  BY <1>1
<1>4. VariableSizeFrom[n] \in [1 .. len + 1 -> Nat] /\ VariableSize[n] \in Nat
  BY <1>1, <1>2, SourceFacts
<1>5. Pending(f) \in Nat
  BY <1>1, <1>3, <1>4 DEF Pending
<1>6. CASE f.step = "finish"
  BY <1>5, <1>6 DEF MaxPending
<1>7. CASE f.step = "elements"
  <2>1. Kind[t] = "dynamic_array"
    BY <1>7 DEF FrameOK
  <2> DEFINE e == Elements[t][1]
  <2>2. e \in Type
    <3>1. Len(Elements[t]) = 1
      BY <1>2, <2>1, TypesAssumption
    <3>2. 1 \in 1 .. Len(Elements[t])
      BY <3>1
    <3> QED
      BY <1>2, <3>2, TypeFacts
  <2>3. PICK me \in Nat, fe \in Nat :
            me = MaxSerialisedSize[e] /\ fe = FixedSize[e] /\ fe <= me
    BY <2>2, MaxCoversFixedData, TypesAssumption, GeneratorAssumption
  <2>4. PICK d \in Nat : d = len - i
    BY <1>1
  <2>5. Remaining(f) = fe * d
    BY <1>1, <1>7, <2>1, <2>3, <2>4 DEF Remaining, Contiguous
  <2>6. MaxPending(f) = me * d - Remaining(f)
    BY <1>1, <1>7, <2>3, <2>4 DEF MaxPending
  <2>7. \A a, b, k \in Nat : b <= a => b * k <= a * k /\ a * k \in Nat /\ b * k \in Nat
    OBVIOUS
  <2>8. fe * d <= me * d /\ me * d \in Nat /\ fe * d \in Nat
    BY <2>3, <2>7
  <2> HIDE DEF e, n, t
  <2>9. PICK u \in Nat, v \in Nat : u = me * d /\ v = fe * d /\ v <= u
    BY <2>8
  <2>10. MaxPending(f) = u - v
    BY <2>5, <2>6, <2>9
  <2> QED
    BY <1>5, <2>9, <2>10
<1>8. CASE f.step = "serialise" /\ Kind[t] \in Contiguous
  <2>1. MaxPending(f) = MaxSizeFrom[t][i + 1] - Remaining(f)
    BY <1>1, <1>8 DEF MaxPending
  <2>2. Remaining(f) = FixedSize[t] - ElementOffset[t][i + 1]
    BY <1>1, <1>8 DEF Remaining
  <2>3. len = Len(Elements[t])
    BY <1>1, <1>2, <1>8, SourceFacts DEF SubsHaveTypes
  <2>4. FixedSize[t] - ElementOffset[t][i + 1] <= MaxSizeFrom[t][i + 1]
    BY <1>2, <1>3, <1>8, <2>3, TypeFacts, MaxCoversFixedData, ElementsNeedFixedData
  <2>5. MaxSizeFrom[t][i + 1] \in Nat
    BY <1>2, <1>3, <2>3, ElementsNeed
  <2>6. FixedSize[t] \in Nat /\ ElementOffset[t][i + 1] \in Nat
    <3>1. FixedSize[t] \in Nat /\ HasElementOffsets(t)
      BY <1>2, <1>8, TypesAssumption
    <3>2. ElementOffset[t] \in [1 .. Len(Elements[t]) + 1 -> Nat]
      BY <3>1 DEF HasElementOffsets
    <3> HIDE DEF t
    <3>3. ElementOffset[t][i + 1] \in Nat
      BY <1>3, <2>3, <3>2
    <3> QED
      BY <3>1, <3>3
  <2> HIDE DEF n, t
  <2>7. PICK mf \in Nat, ft \in Nat, eo \in Nat :
            mf = MaxSizeFrom[t][i + 1] /\ ft = FixedSize[t] /\ eo = ElementOffset[t][i + 1]
    BY <2>5, <2>6
  <2>8. MaxPending(f) = mf - (ft - eo) /\ ft - eo <= mf
    BY <2>1, <2>2, <2>4, <2>7
  <2> QED
    BY <1>5, <2>8
<1>9. CASE f.step = "serialise" /\ Kind[t] \notin Contiguous
  <2>1. MaxPending(f) = MaxSerialisedSize[t] - FixedSize[t]
    BY <1>9 DEF MaxPending
  <2>2. /\ FixedSize[t] \in Nat /\ MaxSerialisedSize[t] \in Nat
        /\ FixedSize[t] <= MaxSerialisedSize[t]
    BY <1>2, MaxCoversFixedData, TypeFacts
  <2> QED
    BY <1>5, <2>1, <2>2
<1> QED
  BY <1>2, <1>6, <1>7, <1>8, <1>9

\* The buffer is never larger than the message will be, nor than the bound.
LEMMA UsedWithinMessage ==
    ASSUME ViewInv, SizeInv, phase \in {"running", "done"}
    PROVE  /\ used \in Nat
           /\ used <= MessageSize(root)
           /\ root \in Generated => used <= MaxSerialisedSize[root.type]
<1>1. used \in Nat /\ stack \in Seq(Frame)
  BY DEF ViewInv, TypeOK
<1>2. PICK n \in Nat : n = Len(stack)
  BY <1>1
<1>3. ASSUME NEW j \in 1 .. n
      PROVE  Pending(stack[j]) \in Nat
  <2>1. stack[j] \in Frame
    BY <1>1, <1>2, ElementOfSeq
  <2>2. FrameOK(stack[j])
    BY <1>2 DEF ViewInv, FramesOK
  <2> QED
    BY <2>1, <2>2, PendingNat
<1>4. used <= MessageSize(root)
  <2>1. PICK p : Sizes(stack, used, p) /\ p[1] = MessageSize(root)
    BY DEF SizeInv
  <2>2. /\ p \in [1 .. n + 1 -> Nat] /\ p[n + 1] = used
        /\ \A j \in 1 .. n : p[j] = p[j + 1] + Pending(stack[j])
    BY <1>2, <2>1 DEF Sizes
  <2>3. ASSUME NEW j \in 1 .. n
        PROVE  p[j + 1] <= p[j]
    <3>1. p[j + 1] \in Nat /\ p[j] = p[j + 1] + Pending(stack[j])
      BY <2>2
    <3> QED
      BY <1>3, <3>1
  <2>4. p[n + 1] <= p[1]
    BY <1>2, <2>2, <2>3, SizesGrow
  <2> QED
    BY <2>1, <2>2, <2>4
<1>5. ASSUME root \in Generated
      PROVE  used <= MaxSerialisedSize[root.type]
  <2>1. PICK q : Bounds(stack, used, q) /\ q[1] = MaxSerialisedSize[root.type]
    BY <1>5 DEF SizeInv
  <2>2. /\ q \in [1 .. n + 1 -> Nat] /\ used <= q[n + 1]
        /\ \A j \in 1 .. n : MaxPending(stack[j]) \in Nat /\ q[j + 1] + MaxPending(stack[j]) <= q[j]
    BY <1>2, <2>1 DEF Bounds
  <2>3. ASSUME NEW j \in 1 .. n
        PROVE  q[j + 1] <= q[j]
    <3>1. q[j + 1] \in Nat /\ q[j] \in Nat
      BY <2>2
    <3> QED
      BY <2>2, <3>1
  <2>4. q[n + 1] <= q[1]
    BY <1>2, <2>2, <2>3, SizesGrow
  <2>5. q[n + 1] \in Nat /\ q[1] \in Nat
    BY <2>2
  <2> QED
    BY <1>1, <2>1, <2>2, <2>4, <2>5
<1> QED
  BY <1>1, <1>4, <1>5

-----------------------------------------------------------------------------
\* What one step does to the invariant, by the kind of step.

\* A call that has nothing left to do returns.
LEMMA ReturnKeepsSizeInv ==
    ASSUME ViewInv, SizeInv, phase = "running", Finishes(Top), Continue(<<>>), used' = used
    PROVE  SizeInv'
<1>1. used \in Nat
  BY DEF ViewInv, TypeOK
<1>2. HandsOver(Top, <<>>, used, used')
  BY <1>1, HandOverToNone
<1>3. <<>> \in Seq(Frame)
  OBVIOUS
<1> QED
  BY <1>1, <1>2, <1>3, HandOverKeepsSizeInv

\* Every call began where the buffer ended at the time.
LEMMA TopStart ==
    ASSUME ViewInv, SizeInv, phase = "running"
    PROVE  /\ used \in Nat /\ error = "none"
           /\ Top \in Frame /\ FrameOK(Top)
           /\ Top.start \in Nat /\ Top.start <= used
           /\ Top.node \in Source /\ Top.node.type \in Type /\ Top.fo \in Nat /\ Top.i \in Nat
           /\ Len(Top.node.sub) \in Nat
           /\ MaxPending(Top) \in Nat
<1>1. Top \in Frame /\ FrameOK(Top) /\ Len(stack) \in Nat \ {0}
  BY TopCall
<1>2. Len(stack) \in 1 .. Len(stack)
  BY <1>1
<1>3. Top.start <= used
  BY <1>2 DEF SizeInv, Top
<1>4. used \in Nat
  BY DEF ViewInv, TypeOK
<1>5. /\ Top.start \in Nat /\ Top.node \in Source /\ Top.fo \in Nat /\ Top.i \in Nat
  <2> HIDE DEF Top
  <2> QED
    BY <1>1 DEF Frame
<1>6. Top.node.type \in Type /\ Len(Top.node.sub) \in Nat
  BY <1>5, SourceFacts
<1>7. MaxPending(Top) \in Nat
  BY <1>1, PendingNat
<1> QED
  BY <1>1, <1>3, <1>4, <1>5, <1>6, <1>7 DEF SizeInv

LEMMA PushElementKeepsSizeInv ==
    ASSUME ViewInv, SizeInv, phase = "running", PushElement,
           \/ Kind[Top.node.type] \in Contiguous /\ Top.step = "serialise"
           \/ Kind[Top.node.type] = "dynamic_array" /\ Top.step = "elements"
    PROVE  SizeInv'
<1> DEFINE rest == Advanced(Top)
           c == Call(Element(Top), Top.fo, Top.via, SpanOf(Top))
           fs == <<rest, c>>
<1>1. Top.i < Len(Top.node.sub) /\ used' = used
  BY DEF PushElement
<1>2. Continue(fs)
  BY DEF PushElement, Element, Advanced
<1>3. Splits(Top, rest, c, 0) /\ rest.start = Top.start /\ c.start = 0
  BY <1>1, ElementSplits
<1>4. rest \in Frame /\ c \in Frame
  BY <1>1, NextElement
<1> HIDE DEF rest, c
<1>5. fs \in Seq(Frame)
  BY <1>4
<1>6. used \in Nat /\ Top.start <= used /\ MaxPending(Top) \in Nat
  BY TopStart
<1>7. PICK growth \in Nat : growth = 0
  OBVIOUS
<1>8. used + growth = used /\ rest.start <= used + growth /\ c.start <= used + growth
  BY <1>3, <1>6, <1>7
<1>9. Splits(Top, rest, c, growth)
  BY <1>3, <1>7
<1>10. HandsOver(Top, fs, used, used + growth)
  BY <1>6, <1>8, <1>9, HandOverToTwo
<1> HIDE DEF fs
<1> QED
  BY <1>1, <1>2, <1>5, <1>6, <1>8, <1>10, HandOverKeepsSizeInv

\* After its last element a call returns, and so does the loop of an array.
LEMMA LoopFinishes ==
    ASSUME ViewInv, SizeInv, phase = "running", Top.i = Len(Top.node.sub),
           \/ Kind[Top.node.type] \in Contiguous /\ Top.step = "serialise"
           \/ Kind[Top.node.type] = "dynamic_array" /\ Top.step = "elements"
    PROVE  Finishes(Top)
<1>1. Top.node \in Source /\ MaxPending(Top) \in Nat /\ Len(Top.node.sub) \in Nat
  BY TopStart
<1>2. VariableSizeFrom[Top.node][Len(Top.node.sub) + 1] = 0
  BY <1>1, SourceFacts
<1>3. Pending(Top) = 0
  BY <1>2 DEF Pending, Contiguous
<1>4. Top.i + 1 .. Len(Top.node.sub) = {}
  BY <1>1
<1> QED
  BY <1>1, <1>3, <1>4 DEF Finishes, HasLongToCome

\* A source without variable data is serialised at once.
LEMMA LeafFinishes ==
    ASSUME ViewInv, SizeInv, phase = "running", Top.step = "serialise",
           Kind[Top.node.type] \in {"null", "scalar", "optional", "variant"},
           Len(Top.node.sub) = 0
    PROVE  Finishes(Top)
<1>1. Top.node \in Source /\ MaxPending(Top) \in Nat /\ Top.i \in Nat
  BY TopStart
<1>2. /\ VariableSizeFrom[Top.node][0 + 1] = 0
      /\ VariableSize[Top.node] = PartsAsVariable(Top.node) + VariableSizeFrom[Top.node][1]
      /\ Top.node.sub \in Seq(Source)
  BY <1>1, SourceFacts
<1>3. PartsAsVariable(Top.node) = 0
  BY <1>2 DEF PartsAsVariable
<1>4. Pending(Top) = 0
  BY <1>2, <1>3 DEF Pending, Contiguous
<1>5. ~HasLongArray[Top.node]
  BY <1>1, SourceFacts DEF IsLongArray
<1> QED
  BY <1>1, <1>4, <1>5 DEF Finishes, HasLongToCome, Contiguous

\* An optional or a variant allocates the fixed data of its value and passes
\* the rest of its part to the value's call.
LEMMA ValuePasses ==
    ASSUME ViewInv, SizeInv, phase = "running", Top.step = "serialise",
           Kind[Top.node.type] \in {"optional", "variant"}, Top.node.sub # <<>>,
           NEW value, value = Top.node.sub[1],
           NEW at \in Nat, NEW view, NEW via, NEW c, c = Call(value, at, via, view)
    PROVE  /\ value \in Source /\ FixedSize[value.type] \in Nat
           /\ Passes(Top, c, FixedSize[value.type]) /\ c.start = 0
<1> DEFINE n == Top.node
           t == n.type
<1>1. n \in Source /\ t \in Type /\ n.sub \in Seq(Source) /\ SubsHaveTypes(n)
  BY TopStart, SourceFacts
<1>2. Len(n.sub) \in Nat \ {0}
  BY <1>1, EmptySeq
<1>3. Len(n.sub) = 1
  <2>1. Len(n.sub) > 0
    BY <1>2
  <2>2. CASE Kind[t] = "variant"
    BY <1>1, <2>1, <2>2 DEF SubsHaveTypes
  <2>3. CASE Kind[t] = "optional"
    <3>1. Len(n.sub) <= 1
      BY <1>1, <2>3 DEF SubsHaveTypes
    <3>2. \A k \in Nat \ {0} : k <= 1 => k = 1
      OBVIOUS
    <3> QED
      BY <1>2, <3>1, <3>2
  <2> QED
    BY <2>2, <2>3
<1>4. PICK k \in 1 .. Len(Elements[t]) :
         /\ value.type = Elements[t][k]
         /\ n \in Generated => k \in Possible[t]
  <2>1. CASE Kind[t] = "optional"
    <3>1. Len(Elements[t]) = 1
      BY <1>1, <2>1, TypesAssumption
    <3>2. value.type = Elements[t][1]
      BY <1>1, <1>3, <2>1 DEF SubsHaveTypes
    <3>3. n \in Generated => 1 \in Possible[t]
      BY <2>1, GeneratedParts
    <3> QED
      BY <3>1, <3>2, <3>3
  <2>2. CASE Kind[t] = "variant"
    <3>1. n.val \in Nat
      BY <1>1, SourceAssumption
    <3>2. n.val < Len(Elements[t]) /\ value.type = Elements[t][n.val + 1]
      BY <1>1, <1>3, <2>2 DEF SubsHaveTypes
    <3>3. n.val + 1 \in 1 .. Len(Elements[t])
      BY <1>1, <3>1, <3>2, TypeFacts
    <3>4. n \in Generated => n.val + 1 \in Possible[t]
      BY <2>2, GeneratedParts
    <3> QED
      BY <3>2, <3>3, <3>4
  <2> QED
    BY <2>1, <2>2
<1>5. value \in Source /\ value = n.sub[1] /\ 1 \in 1 .. Len(n.sub)
  BY <1>1, <1>3, SourceFacts
<1>6. /\ FixedSize[value.type] \in Nat /\ MaxSerialisedSize[value.type] \in Nat
      /\ FixedSize[value.type] <= MaxSerialisedSize[value.type]
  BY <1>5, SourceFacts
<1>7. /\ c.start = 0 /\ c.node = value
      /\ Pending(c) = VariableSize[value] /\ Pending(c) \in Nat
      /\ MaxPending(c) = MaxSerialisedSize[value.type] - FixedSize[value.type]
      /\ MaxPending(c) \in Nat
      /\ HasLongToCome(c) <=> HasLongArray[value]
  BY <1>5, CallPending
<1>8. Pending(Top) = FixedSize[value.type] + Pending(c)
  <2>1. Pending(Top) = VariableSize[n]
    BY DEF Pending, Contiguous
  <2>2. PartsAsVariable(n) = FixedSize[value.type]
    <3>1. PartsAsVariable(n) = FixedSize[value.type] * 1
      BY <1>3, <1>5 DEF PartsAsVariable, Contiguous
    <3> QED
      BY <1>6, <3>1
  <2>3. /\ VariableSize[n] = PartsAsVariable(n) + VariableSizeFrom[n][1]
        /\ VariableSizeFrom[n][1 + 1] = 0
        /\ VariableSizeFrom[n][1] = VariableSize[n.sub[1]] + VariableSizeFrom[n][1 + 1]
    <3>1. VariableSizeFrom[n][Len(n.sub) + 1] = 0
      BY <1>1, SourceFacts
    <3>2. \A i \in 1 .. Len(n.sub) :
             VariableSizeFrom[n][i] = VariableSize[n.sub[i]] + VariableSizeFrom[n][i + 1]
      BY <1>1, SourceFacts
    <3>3. VariableSize[n] = PartsAsVariable(n) + VariableSizeFrom[n][1]
      BY <1>1, SourceFacts
    <3> QED
      BY <1>3, <1>5, <3>1, <3>2, <3>3
  <2>4. VariableSize[value] \in Nat
    BY <1>7
  <2> HIDE DEF n
  <2> QED
    BY <1>5, <1>6, <1>7, <2>1, <2>2, <2>3, <2>4
<1>9. n \in Generated => FixedSize[value.type] + MaxPending(c) <= MaxPending(Top)
  <2> SUFFICES ASSUME n \in Generated
               PROVE  FixedSize[value.type] + MaxPending(c) <= MaxPending(Top)
    OBVIOUS
  <2>1. MaxPending(Top) = MaxSerialisedSize[t] - FixedSize[t]
    BY DEF MaxPending, Contiguous
  <2>2. FixedSize[t] + MaxSerialisedSize[value.type] <= MaxSerialisedSize[t]
    <3>1. k \in Possible[t]
      BY <1>4
    <3>2. t \in Type /\ Kind[t] \in {"optional", "variant"}
      BY <1>1
    <3> HIDE DEF t, n
    <3> QED
      BY <1>4, <3>1, <3>2, SizeWithValue
  <2>3. FixedSize[t] \in Nat /\ MaxSerialisedSize[t] \in Nat
    BY <1>1, TypeFacts
  <2> HIDE DEF t
  <2> QED
    BY <1>6, <1>7, <2>1, <2>2, <2>3
<1>10. n \in Generated => value \in Generated
  BY <1>5, GeneratedParts
<1>11. HasLongToCome(Top) <=> HasLongToCome(c)
  <2>1. HasLongToCome(Top) <=> HasLongArray[n]
    BY DEF HasLongToCome, Contiguous
  <2>2. ~IsLongArray(n)
    BY DEF IsLongArray
  <2>3. \A i \in 1 .. Len(n.sub) : i = 1
    BY <1>3
  <2>4. HasLongArray[n] <=> \E i \in 1 .. Len(n.sub) : HasLongArray[n.sub[i]]
    BY <1>1, <2>2, SourceFacts
  <2> QED
    BY <1>5, <1>7, <2>1, <2>3, <2>4
<1>12. Passes(Top, c, FixedSize[value.type])
  BY <1>7, <1>8, <1>9, <1>10, <1>11 DEF Passes
<1> QED
  BY <1>5, <1>6, <1>7, <1>12

LEMMA PushValueKeepsSizeInv ==
    ASSUME ViewInv, SizeInv, phase = "running", Top.step = "serialise",
           Kind[Top.node.type] \in {"optional", "variant"}, Top.node.sub # <<>>,
           NEW value, value = Top.node.sub[1], NEW m,
           ExtendThrough(Top, FixedSize[value.type], m),
           Continue(<<Call(value, SpanOf(Top).size, Top.via, SpanAfterExtend(Top))>>)
    PROVE  SizeInv'
<1>1. /\ used \in Nat /\ MaxPending(Top) \in Nat /\ Top \in Frame
      /\ Top.via \in {"buffer", "devirt", "span"}
  <2>1. Top \in Frame
    BY TopStart
  <2> HIDE DEF Top
  <2> QED
    BY <2>1, TopStart DEF Frame
<1>2. SpanOf(Top).size = used
  BY TopCall DEF BufferSpan
<1>3. PICK view : view = SpanAfterExtend(Top)
  OBVIOUS
<1> DEFINE c == Call(value, used, Top.via, view)
           fs == <<c>>
<1>4. Continue(fs)
  BY <1>2, <1>3
<1>5. /\ value \in Source /\ FixedSize[value.type] \in Nat
      /\ Passes(Top, c, FixedSize[value.type]) /\ c.start = 0
  <2> HIDE DEF c
  <2> QED
    BY <1>1, ValuePasses DEF c
<1>6. PICK growth \in Nat : growth = FixedSize[value.type]
  BY <1>5
<1>7. used' = used + growth
  BY <1>6 DEF ExtendThrough, Extend
<1>8. used' \in Nat /\ view \in Span
  <2>1. gen' \in Nat
    BY DEF ExtendThrough, Extend, ViewInv, TypeOK
  <2>2. BufferSpan' \in Span
    BY <1>1, <1>6, <1>7, <2>1 DEF BufferSpan, Span
  <2> QED
    BY <1>1, <1>3, <1>6, <1>7, <2>2 DEF SpanAfterExtend, ExtendThrough
<1>9. c \in Frame
  <2> HIDE DEF Top
  <2> QED
    BY <1>1, <1>5, <1>8 DEF Call, Frame, NoSpan, Span
<1>10. fs \in Seq(Frame)
  <2> HIDE DEF c
  <2> QED
    BY <1>9
<1> HIDE DEF c
<1>11. Passes(Top, c, growth) /\ c.start <= used + growth
  <2>1. 0 <= used + growth
    BY <1>7, <1>8
  <2> HIDE DEF Top
  <2> QED
    BY <1>5, <1>6, <2>1
<1>12. HandsOver(Top, fs, used, used + growth)
  BY <1>1, <1>11, HandOverToOne
<1> HIDE DEF fs
<1> QED
  BY <1>4, <1>7, <1>8, <1>10, <1>12, HandOverKeepsSizeInv

\* A dynamic_array allocates the fixed data of its elements; the loop over them
\* does the rest, and the array's call only has its own fixed data to write.
LEMMA ArraySplits ==
    ASSUME NEW f \in Frame, f.step = "serialise", Kind[f.node.type] = "dynamic_array",
           NEW rest, rest.node = f.node, rest.step = "finish",
           NEW loop, loop.node = f.node, loop.step = "elements", loop.i = 0
    PROVE  LET growth == FixedSize[Elements[f.node.type][1]] * Len(f.node.sub) IN
           growth \in Nat /\ Splits(f, rest, loop, growth)
<1> DEFINE n == f.node
           t == n.type
           e == Elements[t][1]
           growth == FixedSize[e] * Len(n.sub)
<1>1. /\ n \in Source /\ t \in Type /\ n.sub \in Seq(Source) /\ SubsHaveTypes(n)
  BY SourceFacts DEF Frame
<1>2. e \in Type
  <2>1. Len(Elements[t]) = 1
    BY <1>1, TypesAssumption
  <2>2. 1 \in 1 .. Len(Elements[t])
    BY <2>1
  <2> QED
    BY <1>1, <2>2, TypeFacts
<1>3. PICK len \in Nat : len = Len(n.sub)
  BY <1>1
<1>4. PICK me \in Nat, fe \in Nat : me = MaxSerialisedSize[e] /\ fe = FixedSize[e] /\ fe <= me
  BY <1>2, TypeFacts, MaxCoversFixedData
<1>5. \A a, b \in Nat : a * b \in Nat
  OBVIOUS
<1>6. PICK u \in Nat, v \in Nat : u = me * len /\ v = fe * len /\ v <= u
  <2>1. \A a, b, k \in Nat : b <= a => b * k <= a * k
    OBVIOUS
  <2>2. fe * len <= me * len
    BY <1>4, <2>1
  <2> QED
    BY <1>5, <2>2
<1>7. growth = v
  BY <1>3, <1>4, <1>6
<1>8. PICK w \in Nat : w = VariableSizeFrom[n][1]
  <2>1. 1 \in 1 .. Len(n.sub) + 1
    BY <1>3
  <2>2. VariableSizeFrom[n] \in [1 .. Len(n.sub) + 1 -> Nat]
    BY <1>1, SourceFacts
  <2> HIDE DEF n
  <2> QED
    BY <2>1, <2>2
<1>9. Pending(f) = v + w
  <2>1. Pending(f) = VariableSize[n]
    BY DEF Pending, Contiguous
  <2>2. PartsAsVariable(n) = v
    <3>1. CASE n.sub = <<>>
      <4>1. len = 0 /\ PartsAsVariable(n) = 0
        BY <1>3, <3>1 DEF PartsAsVariable
      <4>2. \A a \in Nat : a * 0 = 0
        OBVIOUS
      <4> QED
        BY <1>4, <1>6, <4>1, <4>2
    <3>2. CASE n.sub # <<>>
      <4>1. 1 \in 1 .. Len(n.sub)
        BY <1>1, <3>2, EmptySeq
      <4>2. n.sub[1].type = e
        BY <1>1, <4>1 DEF SubsHaveTypes
      <4>3. PartsAsVariable(n) = FixedSize[e] * Len(n.sub)
        BY <3>2, <4>2 DEF PartsAsVariable, Contiguous
      <4> QED
        BY <1>3, <1>4, <1>6, <4>3
    <3> QED
      BY <3>1, <3>2
  <2>3. VariableSize[n] = PartsAsVariable(n) + VariableSizeFrom[n][1]
    BY <1>1, SourceFacts
  <2> QED
    BY <1>8, <2>1, <2>2, <2>3
<1>10. Pending(rest) = 0 /\ Pending(loop) = w
  <2>1. Pending(loop) = VariableSizeFrom[n][0 + 1]
    BY DEF Pending
  <2>2. 0 + 1 = 1
    OBVIOUS
  <2> QED
    BY <1>8, <2>1, <2>2 DEF Pending
<1>11. MaxPending(rest) = 0 /\ MaxPending(loop) = u - v
  <2>1. Remaining(loop) = FixedSize[e] * (len - 0)
    BY <1>3 DEF Remaining, Contiguous
  <2>2. MaxPending(loop) = MaxSerialisedSize[e] * (len - 0) - Remaining(loop)
    BY <1>3 DEF MaxPending
  <2>3. len - 0 = len
    OBVIOUS
  <2>4. MaxPending(rest) = 0
    BY DEF MaxPending
  <2> QED
    BY <1>4, <1>6, <2>1, <2>2, <2>3, <2>4
<1>12. ASSUME n \in Generated
       PROVE  u <= MaxPending(f)
  <2>1. len <= MaxSize[t] /\ MaxSize[t] \in Nat
    BY <1>1, <1>3, <1>12, GeneratedParts, GeneratorAssumption
  <2>2. \A a, b, k \in Nat : b <= a => k * b <= a * k
    OBVIOUS
  <2>3. u <= MaxSize[t] * me
    BY <1>6, <2>1, <2>2
  <2>4. MaxPending(f) = MaxSerialisedSize[t] - FixedSize[t]
    BY DEF MaxPending, Contiguous
  <2>5. MaxSerialisedSize[t] = FixedSize[t] + MaxSize[t] * me
    BY <1>1, <1>4, SizeWithValue
  <2>6. PICK x \in Nat : x = MaxSize[t] * me
    BY <1>5, <2>1
  <2>7. FixedSize[t] \in Nat
    BY <1>1, TypeFacts
  <2> HIDE DEF n, t, e
  <2>8. MaxPending(f) = x
    BY <2>4, <2>5, <2>6, <2>7
  <2> QED
    BY <2>3, <2>6, <2>8
<1>13. HasLongToCome(f) <=> HasLongToCome(rest) \/ HasLongToCome(loop)
  <2>1. HasLongToCome(f) <=> HasLongArray[n]
    BY DEF HasLongToCome, Contiguous
  <2>2. HasLongToCome(rest) <=> IsLongArray(n)
    BY DEF HasLongToCome
  <2>3. HasLongToCome(loop) <=> \E i \in 0 + 1 .. Len(n.sub) : HasLongArray[n.sub[i]]
    BY DEF HasLongToCome
  <2>4. 0 + 1 = 1
    OBVIOUS
  <2>5. HasLongArray[n] <=> IsLongArray(n) \/ \E i \in 1 .. Len(n.sub) : HasLongArray[n.sub[i]]
    BY <1>1, SourceFacts
  <2> QED
    BY <2>1, <2>2, <2>3, <2>4, <2>5
<1> HIDE DEF n, t, e, growth
<1>14. u - v \in Nat /\ v + (0 + (u - v)) = u /\ v + (0 + w) = v + w
  BY <1>6
<1>15. Splits(f, rest, loop, v)
  <2>1. Pending(rest) \in Nat /\ Pending(loop) \in Nat
    BY <1>10
  <2>2. Pending(f) = v + (Pending(rest) + Pending(loop))
    BY <1>9, <1>10, <1>14
  <2>3. MaxPending(rest) \in Nat /\ MaxPending(loop) \in Nat
    BY <1>11, <1>14
  <2>4. f.node \in Generated => v + (MaxPending(rest) + MaxPending(loop)) <= MaxPending(f)
    BY <1>11, <1>12, <1>14 DEF n
  <2> QED
    BY <1>13, <2>1, <2>2, <2>3, <2>4 DEF Splits
<1> QED
  BY <1>7, <1>15 DEF growth, e, t, n

LEMMA BeginElementsKeepsSizeInv ==
    ASSUME ViewInv, SizeInv, BeginElements, phase' # "failed"
    PROVE  SizeInv'
<1> DEFINE f == Top
           t == f.node.type
           element == Elements[t][1]
           count == FixedSize[element] * Len(f.node.sub)
           loop == [f EXCEPT !.step = "elements", !.fo = SpanOf(f).size, !.i = 0,
                             !.via = IF IsFixed[element] THEN "span" ELSE "devirt",
                             !.span = IF IsFixed[element] THEN devirt' ELSE NoSpan]
           rest == [f EXCEPT !.step = "finish", !.start = SpanOf(f).size]
           fs == <<rest, loop>>
<1>1. phase = "running" /\ Kind[t] = "dynamic_array" /\ f.step = "serialise"
  BY DEF BeginElements, Active
<1>2. Extend(count, mem) /\ devirt' = BufferSpan' /\ Continue(fs)
  BY DEF BeginElements, Throw
<1>3. /\ f \in Frame /\ used \in Nat /\ f.start <= used /\ MaxPending(f) \in Nat
      /\ f.start \in Nat /\ SpanOf(f).size = used
  BY <1>1, TopStart, TopCall DEF BufferSpan
<1>4. PICK view : view = devirt'
  OBVIOUS
<1>5. /\ rest.node = f.node /\ rest.step = "finish" /\ rest.start = used
      /\ loop.node = f.node /\ loop.step = "elements" /\ loop.i = 0 /\ loop.start = f.start
  <2> HIDE DEF f
  <2> QED
    BY <1>3 DEF Frame
<1>6. count \in Nat /\ Splits(f, rest, loop, count)
  <2>1. f \in Frame /\ f.step = "serialise" /\ Kind[f.node.type] = "dynamic_array"
    BY <1>1, <1>3
  <2> HIDE DEF f, rest, loop
  <2> QED
    BY <1>5, <2>1, ArraySplits
<1>7. PICK growth \in Nat : growth = count
  BY <1>6
<1>8. used' = used + growth /\ used' \in Nat
  <2> HIDE DEF count
  <2>1. used' = used + count
    BY <1>2 DEF Extend
  <2> QED
    BY <1>3, <1>7, <2>1
<1>9. devirt' \in Span
  <2>1. gen' \in Nat
    <3>1. gen \in Nat
      BY DEF ViewInv, TypeOK
    <3>2. gen' = gen \/ gen' = gen + 1
      BY <1>2 DEF Extend
    <3> QED
      BY <3>1, <3>2
  <2> QED
    BY <1>2, <1>8, <2>1 DEF BufferSpan, Span
<1>10. rest \in Frame /\ loop \in Frame
  <2>1. NoSpan \in Span
    BY DEF NoSpan, Span
  <2> HIDE DEF f, element
  <2> QED
    BY <1>3, <1>9, <2>1 DEF Frame
<1>11. rest.start <= used + growth /\ loop.start <= used + growth
  <2> HIDE DEF f, rest, loop
  <2> QED
    BY <1>3, <1>5, <1>7
<1> HIDE DEF f, rest, loop, count
<1>12. fs \in Seq(Frame)
  BY <1>10
<1>13. HandsOver(f, fs, used, used + growth)
  BY <1>3, <1>6, <1>7, <1>11, HandOverToTwo
<1> HIDE DEF fs
<1> QED
  BY <1>1, <1>2, <1>8, <1>12, <1>13, HandOverKeepsSizeInv DEF f

-----------------------------------------------------------------------------
\* The invariant holds at every step, and a message or an array is too large
\* whenever that is what is thrown.

TooLarge == MessageSize(root) >= MaxDataOffset \/ HasLongArray[root]

\* What every step of a serialisation does.
SizeStep ==
    /\ SizeInv'
    /\ root' = root
    /\ error' = "object_size_error" => TooLarge

LEMMA ContinueIsSizeStep ==
    ASSUME SizeInv, phase = "running", NEW fs, Continue(fs), SizeInv'
    PROVE  SizeStep
BY DEF SizeStep, SizeInv, Continue

LEMMA ThrowIsSizeStep ==
    ASSUME NEW e, NEW m, Throw(e, m), e = "object_size_error" => TooLarge
    PROVE  SizeStep
BY DEF SizeStep, SizeInv, Throw

LEMMA OptionalIsSizeStep ==
    ASSUME ViewInv, SizeInv, SerialiseOptionalEmpty \/ SerialiseOptionalValue
    PROVE  SizeStep
<1>1. phase = "running" /\ Kind[Top.node.type] = "optional" /\ Top.step = "serialise"
  BY DEF SerialiseOptionalEmpty, SerialiseOptionalValue, Active
<1>2. SpanOf(Top).size = used
  BY <1>1, TopCall DEF BufferSpan
<1>3. CASE SerialiseOptionalEmpty
  <2>1. Continue(<<>>) /\ used' = used /\ Len(Top.node.sub) = 0
    BY <1>3 DEF SerialiseOptionalEmpty
  <2> QED
    BY <1>1, <2>1, LeafFinishes, ReturnKeepsSizeInv, ContinueIsSizeStep
<1>4. CASE SerialiseOptionalValue
  <2> DEFINE value == Top.node.sub[1]
             m == Written(mem, SpanOf(Top), Top.fo, LittleEndian(SpanOf(Top).size + 1, OffsetWidth))
             fs == <<Call(value, SpanOf(Top).size, Top.via, SpanAfterExtend(Top))>>
  <2>1. Top.node.sub # <<>>
    BY <1>4 DEF SerialiseOptionalValue
  <2>2. \/ used + 1 > MaxDataOffset /\ Throw("object_size_error", mem)
        \/ Throw("bad_alloc", m)
        \/ ExtendThrough(Top, FixedSize[value.type], m) /\ Continue(fs)
    BY <1>2, <1>4 DEF SerialiseOptionalValue
  <2>3. used + 1 > MaxDataOffset => TooLarge
    <3>1. used \in Nat /\ used <= MessageSize(root) /\ MaxDataOffset \in Nat
      BY <1>1, UsedWithinMessage, LimitAssumption
    <3>2. MessageSize(root) \in Nat
      BY RootAssumption, SourceFacts DEF ViewInv, TypeOK, MessageSize
    <3> QED
      BY <3>1, <3>2 DEF TooLarge
  <2>4. ASSUME ExtendThrough(Top, FixedSize[value.type], m), Continue(fs)
        PROVE  SizeStep
    <3>1. SizeInv'
      <4> HIDE DEF value, m
      <4> QED
        BY <1>1, <2>1, <2>4, PushValueKeepsSizeInv DEF value
    <3> HIDE DEF fs
    <3> QED
      BY <1>1, <2>4, <3>1, ContinueIsSizeStep
  <2> HIDE DEF value, m, fs
  <2> QED
    BY <2>2, <2>3, <2>4, ThrowIsSizeStep
<1> QED
  BY <1>3, <1>4

LEMMA VariantIsSizeStep ==
    ASSUME ViewInv, SizeInv,
           SerialiseEmptyVariant \/ SerialiseValuelessVariant \/ SerialiseVariantValue
    PROVE  SizeStep
<1>1. phase = "running" /\ Kind[Top.node.type] = "variant" /\ Top.step = "serialise"
  BY DEF SerialiseEmptyVariant, SerialiseValuelessVariant, SerialiseVariantValue, Active
<1>2. SpanOf(Top).size = used
  BY <1>1, TopCall DEF BufferSpan
<1>3. CASE SerialiseEmptyVariant
  <2>1. Continue(<<>>) /\ used' = used /\ Elements[Top.node.type] = <<>>
    BY <1>3 DEF SerialiseEmptyVariant
  <2>2. Len(Top.node.sub) = 0
    <3>1. Top.node \in Source /\ Len(Top.node.sub) \in Nat /\ SubsHaveTypes(Top.node)
      BY <1>1, TopStart, TopCall
    <3>2. Top.node.val \in Nat /\ Len(Elements[Top.node.type]) = 0
      BY <2>1, <3>1, SourceAssumption
    <3>3. ~(Len(Top.node.sub) > 0)
      BY <1>1, <3>1, <3>2 DEF SubsHaveTypes
    <3> QED
      BY <3>1, <3>3
  <2> QED
    BY <1>1, <2>1, <2>2, LeafFinishes, ReturnKeepsSizeInv, ContinueIsSizeStep
<1>4. CASE SerialiseValuelessVariant
  BY <1>4, ThrowIsSizeStep DEF SerialiseValuelessVariant
<1>5. CASE SerialiseVariantValue
  <2> DEFINE value == Top.node.sub[1]
             m1 == Written(mem, SpanOf(Top), Top.fo, LittleEndian(Top.node.val, IndexWidth))
             m2 == Written(m1, SpanOf(Top), Top.fo + IndexWidth,
                           LittleEndian(SpanOf(Top).size, OffsetWidth))
             fs == <<Call(value, SpanOf(Top).size, Top.via, SpanAfterExtend(Top))>>
  <2>1. Top.node.sub # <<>>
    BY <1>5 DEF SerialiseVariantValue
  <2>2. \/ used > MaxDataOffset /\ Throw("object_size_error", m1)
        \/ Throw("bad_alloc", m2)
        \/ ExtendThrough(Top, FixedSize[value.type], m2) /\ Continue(fs)
    BY <1>2, <1>5 DEF SerialiseVariantValue
  <2>3. used > MaxDataOffset => TooLarge
    <3>1. used \in Nat /\ used <= MessageSize(root) /\ MaxDataOffset \in Nat
      BY <1>1, UsedWithinMessage, LimitAssumption
    <3>2. MessageSize(root) \in Nat
      BY RootAssumption, SourceFacts DEF ViewInv, TypeOK, MessageSize
    <3> QED
      BY <3>1, <3>2 DEF TooLarge
  <2>4. ASSUME ExtendThrough(Top, FixedSize[value.type], m2), Continue(fs)
        PROVE  SizeStep
    <3>1. SizeInv'
      <4> HIDE DEF value, m2
      <4> QED
        BY <1>1, <2>1, <2>4, PushValueKeepsSizeInv DEF value
    <3> HIDE DEF fs
    <3> QED
      BY <1>1, <2>4, <3>1, ContinueIsSizeStep
  <2> HIDE DEF value, m1, m2, fs
  <2> QED
    BY <2>2, <2>3, <2>4, ThrowIsSizeStep
<1> QED
  BY <1>3, <1>4, <1>5

LEMMA FinishArrayIsSizeStep ==
    ASSUME ViewInv, SizeInv, FinishArray
    PROVE  SizeStep
<1> DEFINE count == Len(Top.node.sub)
           offset == IF count > 0 THEN Top.start ELSE 0
           m1 == Written(mem, SpanOf(Top), Top.fo, LittleEndian(count, SizeWidth))
<1>1. phase = "running" /\ Kind[Top.node.type] = "dynamic_array" /\ Top.step = "finish"
  BY DEF FinishArray, Active
<1>2. \/ count > MaxArraySize /\ Throw("object_size_error", mem)
      \/ offset > MaxDataOffset /\ Throw("object_size_error", m1)
      \/ ~(count > MaxArraySize) /\ Continue(<<>>) /\ used' = used
  BY DEF FinishArray
<1>3. HasLongToCome(Top) <=> IsLongArray(Top.node)
  BY <1>1 DEF HasLongToCome
<1>4. IsLongArray(Top.node) <=> count > MaxArraySize
  BY <1>1 DEF IsLongArray
<1>5. count > MaxArraySize => TooLarge
  <2>1. Len(stack) \in 1 .. Len(stack)
    BY <1>1, TopCall
  <2>2. HasLongToCome(Top) => HasLongArray[root]
    BY <1>1, <2>1 DEF SizeInv, Top
  <2> QED
    BY <1>3, <1>4, <2>2 DEF TooLarge
<1>6. offset > MaxDataOffset => TooLarge
  <2>1. /\ used \in Nat /\ used <= MessageSize(root) /\ MaxDataOffset \in Nat
        /\ Top.start \in Nat /\ Top.start <= used
    BY <1>1, TopStart, UsedWithinMessage, LimitAssumption
  <2>2. MessageSize(root) \in Nat
    BY RootAssumption, SourceFacts DEF ViewInv, TypeOK, MessageSize
  <2> QED
    BY <2>1, <2>2 DEF TooLarge
<1>7. ASSUME ~(count > MaxArraySize), Continue(<<>>), used' = used
      PROVE  SizeStep
  <2>1. Finishes(Top)
    BY <1>1, <1>3, <1>4, <1>7 DEF Finishes, Pending, MaxPending
  <2> QED
    BY <1>1, <1>7, <2>1, ReturnKeepsSizeInv, ContinueIsSizeStep
<1> HIDE DEF count, offset, m1
<1> QED
  BY <1>2, <1>5, <1>6, <1>7, ThrowIsSizeStep

LEMMA ElementsAreSizeSteps ==
    ASSUME ViewInv, SizeInv, phase = "running",
           \/ Kind[Top.node.type] \in Contiguous /\ Top.step = "serialise"
           \/ Kind[Top.node.type] = "dynamic_array" /\ Top.step = "elements",
           \/ PushElement
           \/ Top.i = Len(Top.node.sub) /\ Continue(<<>>) /\ used' = used
    PROVE  SizeStep
<1>1. CASE PushElement
  <2>1. SizeInv'
    BY <1>1, PushElementKeepsSizeInv
  <2> QED
    BY <1>1, <2>1, ContinueIsSizeStep DEF PushElement
<1>2. CASE Top.i = Len(Top.node.sub) /\ Continue(<<>>) /\ used' = used
  BY <1>2, LoopFinishes, ReturnKeepsSizeInv, ContinueIsSizeStep
<1> QED
  BY <1>1, <1>2

LEMMA StepIsSizeStep ==
    ASSUME ViewInv, SizeInv, Step
    PROVE  SizeStep
<1>1. CASE SerialiseNull \/ SerialiseScalar
  <2>1. /\ phase = "running" /\ Top.step = "serialise" /\ Continue(<<>>) /\ used' = used
        /\ Kind[Top.node.type] \in {"null", "scalar"}
    BY <1>1 DEF SerialiseNull, SerialiseScalar, Active
  <2>2. Len(Top.node.sub) = 0
    BY <2>1, TopCall DEF SubsHaveTypes
  <2> QED
    BY <2>1, <2>2, LeafFinishes, ReturnKeepsSizeInv, ContinueIsSizeStep
<1>2. CASE SerialisePair \/ SerialiseTuple \/ SerialiseStaticArray \/ SerialiseRecord
  <2>1. /\ phase = "running" /\ Kind[Top.node.type] \in Contiguous /\ Top.step = "serialise"
        /\ PushElement \/ ReturnAfterElements
    BY <1>2 DEF SerialisePair, SerialiseTuple, SerialiseStaticArray, SerialiseRecord,
                Active, Contiguous
  <2> QED
    BY <2>1, ElementsAreSizeSteps DEF ReturnAfterElements
<1>3. CASE SerialiseOptionalEmpty \/ SerialiseOptionalValue
  BY <1>3, OptionalIsSizeStep
<1>4. CASE SerialiseEmptyVariant \/ SerialiseValuelessVariant \/ SerialiseVariantValue
  BY <1>4, VariantIsSizeStep
<1>5. CASE BeginElements
  <2>1. CASE phase' = "failed"
    <3>1. Throw("bad_alloc", mem)
      BY <1>5, <2>1 DEF BeginElements, Continue
    <3> QED
      BY <3>1, ThrowIsSizeStep
  <2>2. CASE phase' # "failed"
    <3>1. SizeInv' /\ phase = "running"
      BY <1>5, <2>2, BeginElementsKeepsSizeInv DEF BeginElements, Active
    <3>2. \E fs : Continue(fs)
      BY <1>5, <2>2 DEF BeginElements, Throw
    <3> QED
      BY <3>1, <3>2, ContinueIsSizeStep
  <2> QED
    BY <2>1, <2>2
<1>6. CASE SerialiseElement \/ EndElements
  BY <1>6, ElementsAreSizeSteps DEF SerialiseElement, EndElements, Active
<1>7. CASE FinishArray
  BY <1>7, FinishArrayIsSizeStep
<1> QED
  BY <1>1, <1>2, <1>3, <1>4, <1>5, <1>6, <1>7 DEF Step

\* At the start everything is still to come.
LEMMA SerialiseKeepsSizeInv ==
    ASSUME NEW s \in Root, Serialise(s)
    PROVE  SizeInv'
<1>1. PICK view : view = BufferSpan'
  OBVIOUS
<1> DEFINE c == Call(s, 0, "buffer", view)
<1>2. /\ stack' = <<c>> /\ used' = FixedSize[s.type] /\ root' = s /\ error' = "none"
  BY <1>1 DEF Serialise
<1>3. s \in Source
  BY RootAssumption
<1>4. /\ c.node = s /\ c.start = 0
      /\ Pending(c) = VariableSize[s]
      /\ MaxPending(c) = MaxSerialisedSize[s.type] - FixedSize[s.type]
      /\ MaxPending(c) \in Nat
      /\ HasLongToCome(c) <=> HasLongArray[s]
  <2>1. 0 \in Nat
    OBVIOUS
  <2> HIDE DEF c
  <2> QED
    BY <1>3, <2>1, CallPending DEF c
<1>5. PICK fixed \in Nat, variable \in Nat, bound \in Nat :
          /\ fixed = FixedSize[s.type] /\ variable = VariableSize[s]
          /\ bound = MaxSerialisedSize[s.type] /\ fixed <= bound
  BY <1>3, SourceFacts
<1> HIDE DEF c
<1> DEFINE fs == <<c>>
           p == <<fixed + variable, fixed>>
           q == <<bound, fixed>>
<1>6. Len(fs) = 1 /\ fs[1] = c /\ \A j \in 1 .. Len(fs) : j = 1
  OBVIOUS
<1>7. p \in [1 .. 2 -> Nat] /\ p[1] = p[2] + variable /\ p[2] = fixed /\ p[1] = fixed + variable
  OBVIOUS
<1>8. /\ q \in [1 .. 2 -> Nat] /\ q[2] + (bound - fixed) <= q[1] /\ fixed <= q[2]
      /\ q[1] = bound
  BY <1>5
<1> HIDE DEF fs, p, q
<1>9. Sizes(fs, fixed, p) /\ p[1] = MessageSize(s)
  BY <1>4, <1>5, <1>6, <1>7 DEF Sizes, MessageSize
<1>10. s \in Generated => Bounds(fs, fixed, q) /\ q[1] = MaxSerialisedSize[s.type]
  BY <1>4, <1>5, <1>6, <1>8 DEF Bounds
<1>11. HasLongArray[s] <=> \E j \in 1 .. Len(fs) : HasLongToCome(fs[j])
  <2>1. 1 \in 1 .. Len(fs)
    BY <1>6
  <2> QED
    BY <1>4, <1>6, <2>1
<1>12. \A j \in 1 .. Len(fs) : fs[j].start <= fixed
  BY <1>4, <1>5, <1>6
<1>13. stack' = fs /\ used' = fixed
  BY <1>2, <1>5 DEF fs
<1>14. (\E x : Sizes(stack, used, x) /\ x[1] = MessageSize(root))'
  <2>1. \E x : Sizes(fs, fixed, x) /\ x[1] = MessageSize(s)
    BY <1>9
  <2> QED
    BY <1>2, <1>13, <2>1 DEF Sizes, MessageSize, Pending
<1>15. (root \in Generated =>
           \E x : Bounds(stack, used, x) /\ x[1] = MaxSerialisedSize[root.type])'
  <2>1. root' = s /\ (s \in Generated => Bounds(fs, fixed, q) /\ q[1] = MaxSerialisedSize[s.type])
    BY <1>2, <1>10
  <2>2. \A j : MaxPending(stack[j])' = MaxPending(fs[j])
    BY <1>13 DEF MaxPending, Remaining
  <2>3. PICK x : x = q
    OBVIOUS
  <2>4. ASSUME s \in Generated
        PROVE  (Bounds(stack, used, x) /\ x[1] = MaxSerialisedSize[root.type])'
    BY <1>13, <2>1, <2>2, <2>3, <2>4 DEF Bounds
  <2> QED
    BY <2>1, <2>4
<1>16. (HasLongArray[root] <=> \E j \in 1 .. Len(stack) : HasLongToCome(stack[j]))'
  BY <1>2, <1>11, <1>13 DEF HasLongToCome, IsLongArray
<1>17. (\A j \in 1 .. Len(stack) : stack[j].start <= used)'
  BY <1>12, <1>13
<1> QED
  BY <1>2, <1>14, <1>15, <1>16, <1>17 DEF SizeInv

\* The inductive invariant of the theorems below.
MessageSizeInv ==
    /\ ViewInv
    /\ SizeInv
    /\ error = "object_size_error" => TooLarge

LEMMA MessageSizeInvHolds == Spec => []MessageSizeInv
<1>1. Init => SizeInv /\ (error = "object_size_error" => TooLarge)
  BY DEF Init, SizeInv
<1>2. ViewInv /\ SizeInv /\ (error = "object_size_error" => TooLarge) /\ [Next]_vars
         => SizeInv' /\ (error = "object_size_error" => TooLarge)'
  <2> SUFFICES ASSUME ViewInv, SizeInv, error = "object_size_error" => TooLarge, [Next]_vars
               PROVE  SizeInv' /\ (error = "object_size_error" => TooLarge)'
    OBVIOUS
  <2>1. CASE Step
    <3>1. SizeStep
      BY <2>1, StepIsSizeStep
    <3> QED
      BY <3>1 DEF SizeStep, TooLarge, MessageSize
  <2>2. CASE \E s \in Root : Serialise(s)
    BY <2>2, SerialiseKeepsSizeInv DEF Serialise
  <2>3. CASE \E s \in Root : InitialiseThrows(s)
    BY <2>3 DEF InitialiseThrows, SizeInv
  <2>4. CASE UNCHANGED vars
    <3>1. /\ phase' = phase /\ error' = error /\ root' = root /\ used' = used
          /\ stack' = stack
      BY <2>4 DEF vars
    <3>2. (error = "object_size_error" => TooLarge)'
      BY <3>1 DEF TooLarge, MessageSize
    <3>3. ASSUME phase \in {"running", "done"}
          PROVE  /\ (\E p : Sizes(stack, used, p) /\ p[1] = MessageSize(root))'
                 /\ (root \in Generated =>
                        \E q : Bounds(stack, used, q) /\ q[1] = MaxSerialisedSize[root.type])'
      <4>1. PICK p : Sizes(stack, used, p) /\ p[1] = MessageSize(root)
        BY <3>3 DEF SizeInv
      <4>2. (Sizes(stack, used, p) /\ p[1] = MessageSize(root))'
        BY <3>1, <4>1 DEF Sizes, Pending, MessageSize
      <4>3. ASSUME root \in Generated
            PROVE  (\E q : Bounds(stack, used, q) /\ q[1] = MaxSerialisedSize[root.type])'
        <5>1. PICK q : Bounds(stack, used, q) /\ q[1] = MaxSerialisedSize[root.type]
          BY <3>3, <4>3 DEF SizeInv
        <5>2. \A j : MaxPending(stack[j])' = MaxPending(stack[j])
          BY <3>1 DEF MaxPending, Remaining
        <5>3. Bounds(stack, used, q)'
          BY <3>1, <5>1, <5>2 DEF Bounds
        <5>4. (q[1] = MaxSerialisedSize[root.type])'
          BY <3>1, <5>1
        <5> QED
          BY <5>3, <5>4
      <4> QED
        BY <3>1, <4>2, <4>3
    <3>4. SizeInv'
      BY <3>1, <3>3 DEF SizeInv, HasLongToCome, IsLongArray
    <3> QED
      BY <3>2, <3>4
  <2> QED
    BY <2>1, <2>2, <2>3, <2>4 DEF Next
<1>3. ViewInv /\ SizeInv /\ (error = "object_size_error" => TooLarge) <=> MessageSizeInv
  BY DEF MessageSizeInv
<1> QED
  BY <1>1, <1>2, <1>3, ViewInvHolds, PTL DEF Spec

\* The size of a message is exactly the sum of its parts': nothing is allocated
\* that is not part of some value, whatever is nested in what.
THEOREM MessagesCompact == Spec => []CompactWhenDone
<1>1. MessageSizeInv => CompactWhenDone
  <2> SUFFICES ASSUME ViewInv, SizeInv, phase = "done" PROVE used = MessageSize(root)
    BY DEF MessageSizeInv, CompactWhenDone
  <2>1. stack = <<>>
    BY DEF ViewInv, TypeOK
  <2>2. Len(stack) = 0
    BY <2>1
  <2>3. PICK p : Sizes(stack, used, p) /\ p[1] = MessageSize(root)
    BY DEF SizeInv
  <2> QED
    BY <2>2, <2>3 DEF Sizes
<1> QED
  BY <1>1, MessageSizeInvHolds, PTL

\* object_size_error is thrown only if the message or an array in it is too
\* large, and no message contains an array that is too long.
THEOREM SizeErrorsAreJustified == Spec => []SizeErrorsJustified
<1>1. MessageSizeInv => SizeErrorsJustified
  <2> SUFFICES ASSUME MessageSizeInv PROVE SizeErrorsJustified
    OBVIOUS
  <2>1. ASSUME phase = "done"
        PROVE  ~ HasLongArray[root]
    <3>1. stack = <<>>
      BY <2>1 DEF MessageSizeInv, ViewInv, TypeOK
    <3>2. \A j \in 1 .. Len(stack) : FALSE
      BY <3>1
    <3> QED
      BY <2>1, <3>2 DEF MessageSizeInv, SizeInv
  <2> QED
    BY <2>1 DEF MessageSizeInv, SizeErrorsJustified, TooLarge
<1> QED
  BY <1>1, MessageSizeInvHolds, PTL

\* While a source that the generator can make is being serialised, the buffer
\* is never larger than the generator's max_serialised_size().
THEOREM GeneratorBoundHolds == Spec => []WithinGeneratorBound
<1>1. MessageSizeInv => WithinGeneratorBound
  BY UsedWithinMessage DEF MessageSizeInv, WithinGeneratorBound
<1> QED
  BY <1>1, MessageSizeInvHolds, PTL
=============================================================================
