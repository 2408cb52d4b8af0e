------------------------- MODULE BenchBuffersProofs -------------------------
(***************************************************************************)
(* For batches of any number of messages of any size: the spans of the     *)
(* benchmark's buffers are defined and hold what was written, messages     *)
(* that were kept never change, and the computed capacity suffices.        *)
(***************************************************************************)
EXTENDS BenchBuffers, TLAPS

Active == {"ready", "serialising"}

\* A sequential_buffer of the benchmark has at most MaxMessage bytes for each
\* message of the batch, and messages that are complete lie below the current.
InBudget ==
    /\ Len(message) <= MaxMessage
    /\ pc \in Active => done < Samples
    /\ pc = "ready" /\ kind = "sequential" => used <= done * MaxMessage
    /\ pc = "serialising" /\ kind = "sequential" => start <= done * MaxMessage

KeptBelow ==
    /\ kind = "preallocated" => start = 0 /\ Len(kept) = 0
    /\ \A k \in 1 .. Len(kept) :
          kept[k].from + kept[k].len <= IF pc = "serialising" THEN start ELSE used

\* The inductive invariant.
BatchInv ==
    TypeOK /\ SpanDefined /\ SpanHoldsMessage /\ InBudget /\ KeptBelow
    /\ KeptAsWritten /\ CapacitySuffices

\* A sequence of n bytes that are not written.
LEMMA UnwrittenType ==
    ASSUME NEW n \in Nat
    PROVE  /\ Unwritten(n) \in Seq(Byte \cup {Stale})
           /\ Len(Unwritten(n)) = n
           /\ \A j \in 1 .. n : Unwritten(n)[j] = Stale
BY DEF Unwritten

\* What a sequence is after n bytes that are not written were appended.
LEMMA Lengthened ==
    ASSUME NEW S, NEW s \in Seq(S), NEW u \in Seq(S), NEW x,
           \A j \in 1 .. Len(u) : u[j] = x
    PROVE  /\ s \o u \in Seq(S)
           /\ Len(s \o u) = Len(s) + Len(u)
           /\ \A j \in 1 .. Len(s) : (s \o u)[j] = s[j]
           /\ \A j \in 1 .. Len(s \o u) : j > Len(s) => (s \o u)[j] = x
<1>1. s \o u \in Seq(S) /\ Len(s \o u) = Len(s) + Len(u)
  OBVIOUS
<1>2. \A j \in 1 .. Len(s) : (s \o u)[j] = s[j]
  OBVIOUS
<1>3. ASSUME NEW j \in 1 .. Len(s \o u), j > Len(s) PROVE (s \o u)[j] = x
  <2>1. (s \o u)[j] = u[j - Len(s)] /\ j - Len(s) \in 1 .. Len(u)
    BY <1>1, <1>3
  <2>. QED  BY <2>1
<1>. QED  BY <1>1, <1>2, <1>3

\* One more message of MaxMessage bytes fits while fewer than Samples are done.
LEMMA OneMoreFits ==
    ASSUME NEW d \in 0 .. Samples, d < Samples
    PROVE  /\ d * MaxMessage \in Nat
           /\ (d + 1) * MaxMessage = d * MaxMessage + MaxMessage
           /\ MaxMessage * Samples \in Nat
           /\ d * MaxMessage + MaxMessage <= MaxMessage * Samples
<1>1. PICK r \in Nat : Samples = d + 1 + r
  <2>1. Samples - d - 1 \in Nat
    BY BatchAssumption
  <2>. QED  BY <2>1, BatchAssumption
<1>2. MaxMessage * Samples = d * MaxMessage + MaxMessage + MaxMessage * r
  BY <1>1, BatchAssumption
<1>3. MaxMessage * r \in Nat /\ d * MaxMessage \in Nat
  BY BatchAssumption
<1>. QED  BY <1>2, <1>3, BatchAssumption

\* Initially nothing is written, kept or sent.
LEMMA InitBatchInv == Init => BatchInv
<1>. SUFFICES ASSUME Init PROVE BatchInv
  OBVIOUS
<1>1. kind \in {"preallocated", "sequential"} /\ capacity \in Nat
  BY KindsAssumption, CapacityAssumption DEF Init
<1>2. TypeOK
  BY <1>1, BatchAssumption DEF Init, TypeOK
<1>. QED
  BY <1>2, BatchAssumption
  DEF Init, BatchInv, SpanDefined, SpanHoldsMessage, InBudget, Active, KeptBelow,
      KeptAsWritten, CapacitySuffices

-----------------------------------------------------------------------------
\* The steps.  What the current message and the storage of a message mean is
\* unchanged by the steps that neither extend nor write.

LEMMA SetUpStep == BatchInv /\ SetUp => BatchInv'
<1>. SUFFICES ASSUME BatchInv, SetUp PROVE BatchInv'
  OBVIOUS
<1>1. /\ pc' = "ready" /\ done' = 0 /\ message' = <<>> /\ kept' = <<>> /\ sent' = <<>>
      /\ UNCHANGED <<kind, capacity, cells>>
      /\ kind = "sequential" => used' = 0 /\ start' = 0
      /\ kind = "preallocated" => used' = used /\ start' = start
  BY DEF SetUp, Clear, BatchInv, TypeOK
<1>2. TypeOK'
  BY <1>1, BatchAssumption DEF BatchInv, TypeOK
<1>3. SpanDefined' /\ SpanHoldsMessage'
  BY <1>1 DEF BatchInv, TypeOK, SpanDefined, SpanHoldsMessage
<1>4. InBudget' /\ KeptBelow'
  BY <1>1, BatchAssumption DEF BatchInv, TypeOK, InBudget, Active, KeptBelow
<1>5. KeptAsWritten' /\ CapacitySuffices'
  BY <1>1 DEF KeptAsWritten, CapacitySuffices
<1>. QED
  BY <1>2, <1>3, <1>4, <1>5 DEF BatchInv

\* Spans that are kept denote the same bytes if those bytes are not changed.
LEMMA KeptUnchanged ==
    ASSUME BatchInv, UNCHANGED <<kept, sent>>,
           \A k \in 1 .. Len(kept) : \A j \in 1 .. kept[k].len :
               cells'[kept[k].from + j] = cells[kept[k].from + j]
    PROVE  KeptAsWritten'
BY DEF BatchInv, KeptAsWritten, BytesOf

LEMMA BeginStep ==
    ASSUME BatchInv, NEW size \in 0 .. MaxMessage, Begin(size)
    PROVE  BatchInv'
<1>1. /\ pc = "ready" /\ pc' = "serialising" /\ message' = Unwritten(size)
      /\ UNCHANGED <<kind, capacity, cells, done, kept, sent>>
  BY DEF Begin
<1>2. \/ kind = "preallocated" /\ size <= capacity /\ used' = size /\ start' = start
      \/ kind = "sequential" /\ used + size <= capacity /\ used' = used + size /\ start' = used
  BY BatchAssumption DEF Begin, InitialisePreallocated, InitialiseSequential, BatchInv, TypeOK
<1>3. used' \in 0 .. capacity /\ start' \in 0 .. capacity /\ start' <= used'
      /\ used' - start' = size
  BY <1>2, BatchAssumption DEF BatchInv, TypeOK, KeptBelow
<1>4. /\ size \in Nat
      /\ message' \in Seq(Byte \cup {Stale}) /\ Len(message') = size
      /\ \A j \in 1 .. size : message'[j] = Stale
  BY <1>1, UnwrittenType, BatchAssumption
<1>5. TypeOK'
  BY <1>1, <1>3, <1>4 DEF BatchInv, TypeOK
<1>6. SpanDefined' /\ SpanHoldsMessage'
  BY <1>1, <1>3, <1>4 DEF SpanDefined, SpanHoldsMessage
<1>7. InBudget'
  <2>1. kind = "sequential" => start' = used
    BY <1>2
  <2>. QED  BY <1>1, <1>4, <2>1 DEF BatchInv, InBudget, Active
<1>8. KeptBelow'
  BY <1>1, <1>2 DEF BatchInv, KeptBelow
<1>9. KeptAsWritten'
  BY <1>1, KeptUnchanged
<1>10. CapacitySuffices'
  BY <1>1 DEF CapacitySuffices
<1>. QED
  BY <1>5, <1>6, <1>7, <1>8, <1>9, <1>10 DEF BatchInv

\* With the computed capacity there is room for any message that begins.
LEMMA RoomForMessage ==
    ASSUME BatchInv, pc \in Active, capacity >= EnoughFor(kind)
    PROVE  /\ kind = "preallocated" => MaxMessage <= capacity
           /\ kind = "sequential" =>
                 (IF pc = "ready" THEN used ELSE start) + MaxMessage <= capacity
<1>1. done \in 0 .. Samples /\ done < Samples /\ capacity \in Nat
      /\ used \in Nat /\ start \in Nat
  BY DEF BatchInv, TypeOK, InBudget
<1>2. /\ done * MaxMessage \in Nat /\ MaxMessage * Samples \in Nat
      /\ done * MaxMessage + MaxMessage <= MaxMessage * Samples
  BY <1>1, OneMoreFits
<1>3. kind = "sequential" =>
         (IF pc = "ready" THEN used ELSE start) <= done * MaxMessage
  BY DEF BatchInv, InBudget, Active
<1>. QED
  BY <1>1, <1>2, <1>3, BatchAssumption DEF EnoughFor

LEMMA BeginThrowsStep ==
    ASSUME BatchInv, NEW size \in 0 .. MaxMessage, BeginThrows(size)
    PROVE  BatchInv'
<1>1. /\ pc = "ready" /\ pc' = "unwound" /\ message' = <<>>
      /\ UNCHANGED <<kind, capacity, cells, used, done, kept, sent>>
  BY DEF BeginThrows
<1>2. \/ kind = "preallocated" /\ capacity < size /\ start' = start
      \/ kind = "sequential" /\ capacity < used + size /\ start' = used
  BY DEF BeginThrows
<1>3. TypeOK' /\ SpanDefined' /\ SpanHoldsMessage'
  BY <1>1, <1>2 DEF BatchInv, TypeOK, SpanDefined, SpanHoldsMessage
<1>4. InBudget' /\ KeptBelow'
  BY <1>1, <1>2, BatchAssumption DEF BatchInv, InBudget, Active, KeptBelow
<1>5. KeptAsWritten'
  BY <1>1, KeptUnchanged
<1>6. ~(capacity >= EnoughFor(kind))
  <2>. SUFFICES ASSUME capacity >= EnoughFor(kind) PROVE FALSE
    OBVIOUS
  <2>1. /\ kind = "preallocated" => MaxMessage <= capacity
        /\ kind = "sequential" => used + MaxMessage <= capacity
    BY <1>1, RoomForMessage DEF Active
  <2>. QED
    BY <1>2, <2>1, BatchAssumption DEF BatchInv, TypeOK
<1>7. CapacitySuffices'
  BY <1>1, <1>6 DEF CapacitySuffices, EnoughFor
<1>. QED
  BY <1>3, <1>4, <1>5, <1>7 DEF BatchInv

LEMMA ExtendStep ==
    ASSUME BatchInv, NEW count \in 1 .. MaxMessage, Extend(count)
    PROVE  BatchInv'
<1> DEFINE m == Unwritten(count)
<1>1. /\ pc = "serialising" /\ Len(message) + count <= MaxMessage
      /\ used' = used + count /\ message' = message \o m
      /\ UNCHANGED <<kind, capacity, cells, start, pc, done, kept, sent>>
      /\ used + count <= capacity
  BY BatchAssumption DEF Extend, CanExtend, BatchInv, TypeOK
<1>2. /\ count \in Nat /\ message \in Seq(Byte \cup {Stale})
      /\ used \in 0 .. capacity /\ start \in 0 .. capacity /\ capacity \in Nat
      /\ used - start = Len(message) /\ start <= used
  BY <1>1, BatchAssumption DEF BatchInv, TypeOK, SpanHoldsMessage, SpanDefined
<1>3. /\ m \in Seq(Byte \cup {Stale}) /\ Len(m) = count
      /\ \A j \in 1 .. count : m[j] = Stale
  BY <1>2, UnwrittenType
<1> HIDE DEF m
<1>4. /\ message' \in Seq(Byte \cup {Stale}) /\ Len(message') = Len(message) + count
      /\ \A j \in 1 .. Len(message) : message'[j] = message[j]
      /\ \A j \in 1 .. Len(message') : j > Len(message) => message'[j] = Stale
  <2>1. /\ message \o m \in Seq(Byte \cup {Stale})
        /\ Len(message \o m) = Len(message) + Len(m)
        /\ \A j \in 1 .. Len(message) : (message \o m)[j] = message[j]
        /\ \A j \in 1 .. Len(message \o m) : j > Len(message) => (message \o m)[j] = Stale
    <3>1. \A j \in 1 .. Len(m) : m[j] = Stale
      BY <1>3
    <3>. QED  BY <1>2, <1>3, <3>1, Lengthened
  <2>. QED  BY <1>1, <1>3, <2>1
<1>5. TypeOK'
  BY <1>1, <1>2, <1>4 DEF BatchInv, TypeOK
<1>6. SpanDefined' /\ SpanHoldsMessage'
  <2>1. used' - start' = Len(message') /\ start' <= used'
    BY <1>1, <1>2, <1>4
  <2>2. ASSUME NEW j \in 1 .. Len(message'), message'[j] # Stale
        PROVE  cells'[start' + j] = message'[j]
    BY <1>1, <1>2, <1>4, <2>2 DEF BatchInv, SpanHoldsMessage
  <2>. QED
    BY <2>1, <2>2 DEF SpanDefined, SpanHoldsMessage
<1>7. InBudget' /\ KeptBelow'
  BY <1>1, <1>4 DEF BatchInv, InBudget, Active, KeptBelow
<1>8. KeptAsWritten'
  BY <1>1, KeptUnchanged
<1>9. CapacitySuffices'
  BY <1>1 DEF BatchInv, CapacitySuffices, EnoughFor
<1>. QED
  BY <1>5, <1>6, <1>7, <1>8, <1>9 DEF BatchInv

LEMMA ExtendThrowsStep ==
    ASSUME BatchInv, NEW count \in 1 .. MaxMessage, ExtendThrows(count)
    PROVE  BatchInv'
<1>1. /\ pc = "serialising" /\ pc' = "unwound" /\ Len(message) + count <= MaxMessage
      /\ capacity < used + count
      /\ UNCHANGED <<kind, capacity, cells, used, start, done, message, kept, sent>>
  BY DEF ExtendThrows, CanExtend, buffer
<1>2. TypeOK' /\ SpanDefined' /\ SpanHoldsMessage'
  BY <1>1 DEF BatchInv, TypeOK, SpanDefined, SpanHoldsMessage
<1>3. start <= used /\ used \in Nat /\ start \in Nat /\ used - start = Len(message)
      /\ capacity \in Nat
  BY <1>1 DEF BatchInv, TypeOK, SpanDefined, SpanHoldsMessage
<1>4. InBudget'
  BY <1>1 DEF BatchInv, InBudget, Active
<1>5. KeptBelow'
  <2>1. ASSUME NEW k \in 1 .. Len(kept) PROVE kept[k].from + kept[k].len <= used
    <3>1. kept[k] \in Span
      BY DEF BatchInv, TypeOK
    <3>2. kept[k].from \in Nat /\ kept[k].len \in Nat
      BY <3>1 DEF Span
    <3>3. kept[k].from + kept[k].len <= start
      BY <1>1 DEF BatchInv, KeptBelow
    <3>. QED  BY <1>3, <3>2, <3>3
  <2>. QED  BY <1>1, <2>1 DEF BatchInv, KeptBelow
<1>6. KeptAsWritten'
  BY <1>1, KeptUnchanged
<1>7. ~(capacity >= EnoughFor(kind))
  <2>. SUFFICES ASSUME capacity >= EnoughFor(kind) PROVE FALSE
    OBVIOUS
  <2>1. /\ kind = "preallocated" => MaxMessage <= capacity /\ start = 0
        /\ kind = "sequential" => start + MaxMessage <= capacity
        /\ kind \in {"preallocated", "sequential"}
    BY <1>1, RoomForMessage DEF Active, BatchInv, KeptBelow, TypeOK
  <2>. QED
    BY <1>1, <1>3, <2>1, BatchAssumption
<1>8. CapacitySuffices'
  BY <1>1, <1>7 DEF CapacitySuffices, EnoughFor
<1>. QED
  BY <1>2, <1>4, <1>5, <1>6, <1>8 DEF BatchInv

LEMMA WriteStep ==
    ASSUME BatchInv, NEW j \in 1 .. Len(message), NEW v \in Byte, Write(j, v)
    PROVE  BatchInv'
<1>1. /\ pc = "serialising"
      /\ message' = [message EXCEPT ![j] = v]
      /\ cells' = [cells EXCEPT ![start + j] = v]
      /\ UNCHANGED <<kind, capacity, used, start, pc, done, kept, sent>>
  BY DEF Write
<1>2. /\ message \in Seq(Byte \cup {Stale}) /\ cells \in [1 .. capacity -> Byte \cup {Zero}]
      /\ used \in 0 .. capacity /\ start \in 0 .. capacity /\ capacity \in Nat
      /\ used - start = Len(message)
  BY <1>1 DEF BatchInv, TypeOK, SpanHoldsMessage
<1>3. /\ message' \in Seq(Byte \cup {Stale}) /\ Len(message') = Len(message)
      /\ \A i \in 1 .. Len(message) : message'[i] = IF i = j THEN v ELSE message[i]
  BY <1>1, <1>2
<1>4. /\ cells' \in [1 .. capacity -> Byte \cup {Zero}]
      /\ \A i \in 1 .. capacity : cells'[i] = IF i = start + j THEN v ELSE cells[i]
  BY <1>1, <1>2
<1>5. TypeOK' /\ SpanDefined'
  BY <1>1, <1>3, <1>4 DEF BatchInv, TypeOK, SpanDefined
<1>6. SpanHoldsMessage'
  <2>1. ASSUME NEW i \in 1 .. Len(message'), message'[i] # Stale
        PROVE  cells'[start' + i] = message'[i]
    <3>1. i \in 1 .. Len(message) /\ start + i \in 1 .. capacity
      BY <1>2, <1>3
    <3>2. (i = j) <=> (start + i = start + j)
      BY <1>2, <3>1
    <3>3. CASE i = j
      BY <1>1, <1>3, <1>4, <3>1, <3>3
    <3>4. CASE i # j
      BY <1>1, <1>3, <1>4, <2>1, <3>1, <3>2, <3>4 DEF BatchInv, SpanHoldsMessage
    <3>. QED  BY <3>3, <3>4
  <2>. QED
    BY <1>1, <1>2, <1>3, <2>1 DEF SpanHoldsMessage
<1>7. InBudget' /\ KeptBelow'
  BY <1>1, <1>3 DEF BatchInv, InBudget, Active, KeptBelow
<1>8. KeptAsWritten'
  <2>1. ASSUME NEW k \in 1 .. Len(kept), NEW i \in 1 .. kept[k].len
        PROVE  cells'[kept[k].from + i] = cells[kept[k].from + i]
    <3>1. kept[k].from \in Nat /\ kept[k].len \in Nat
      <4>1. kept[k] \in Span
        BY DEF BatchInv, TypeOK
      <4>. QED  BY <4>1 DEF Span
    <3>2. kept[k].from + kept[k].len <= start
      BY <1>1 DEF BatchInv, KeptBelow
    <3>3. kept[k].from + i \in 1 .. capacity /\ kept[k].from + i # start + j
      <4>1. kept[k].from + i \in 1 .. start
        BY <3>1, <3>2, <1>2
      <4>2. start \in Nat /\ start <= capacity /\ capacity \in Nat /\ j \in 1 .. Len(message)
        BY <1>2
      <4>. QED  BY <4>1, <4>2
    <3>. QED  BY <1>4, <3>3
  <2>. QED
    BY <1>1, <2>1, KeptUnchanged
<1>9. CapacitySuffices'
  BY <1>1 DEF BatchInv, CapacitySuffices, EnoughFor
<1>. QED
  BY <1>5, <1>6, <1>7, <1>8, <1>9 DEF BatchInv

LEMMA ReturnStep == BatchInv /\ Return => BatchInv'
<1>. SUFFICES ASSUME BatchInv, Return PROVE BatchInv'
  OBVIOUS
<1> DEFINE s == [from |-> start, len |-> used - start]
           Later(x) == [j \in 1 .. x.len |-> cells'[x.from + j]]
<1>1. /\ pc = "serialising" /\ done' = done + 1
      /\ pc' = IF done + 1 < Samples THEN "ready" ELSE "sampled"
      /\ \A j \in 1 .. Len(message) : message[j] # Stale
      /\ UNCHANGED <<kind, capacity, cells, used, start, message>>
  BY DEF Return, buffer
<1>2. \/ kind = "sequential" /\ kept' = Append(kept, s) /\ sent' = Append(sent, message)
      \/ kind = "preallocated" /\ kept' = kept /\ sent' = sent
  BY DEF Return, CurrentSpan
<1>3. /\ message \in Seq(Byte \cup {Stale}) /\ cells \in [1 .. capacity -> Byte \cup {Zero}]
      /\ used \in 0 .. capacity /\ start \in 0 .. capacity /\ capacity \in Nat
      /\ used - start = Len(message) /\ start <= used
      /\ kept \in Seq(Span) /\ sent \in Seq(Seq(Byte)) /\ Len(kept) = Len(sent)
      /\ done \in 0 .. Samples /\ done < Samples
  BY <1>1
  DEF BatchInv, TypeOK, SpanHoldsMessage, SpanDefined, InBudget, Active, KeptAsWritten
<1>4. message \in Seq(Byte)
  BY <1>1, <1>3
<1>5. s \in Span /\ s.from = start /\ s.len = used - start
  BY <1>3 DEF Span
<1>6. BytesOf(s) = message
  <2>1. \A j \in 1 .. Len(message) : cells[start + j] = message[j]
    BY <1>1 DEF BatchInv, SpanHoldsMessage
  <2>. QED
    BY <1>3, <1>5, <2>1 DEF BytesOf
<1>7. \A x : Later(x) = BytesOf(x)
  BY <1>1 DEF BytesOf
<1>8. KeptAsWritten' <=> /\ Len(kept') = Len(sent')
                         /\ \A k \in 1 .. Len(kept') : Later(kept'[k]) = sent'[k]
  BY DEF KeptAsWritten, BytesOf
<1> HIDE DEF s, Later
<1>9. TypeOK'
  <2>1. kept' \in Seq(Span) /\ sent' \in Seq(Seq(Byte))
    <3>1. Append(kept, s) \in Seq(Span)
      BY <1>3, <1>5
    <3>2. Append(sent, message) \in Seq(Seq(Byte))
      BY <1>3, <1>4
    <3>. QED  BY <1>2, <1>3, <3>1, <3>2
  <2>2. done' \in 0 .. Samples
    BY <1>1, <1>3, BatchAssumption
  <2>. QED
    BY <1>1, <2>1, <2>2 DEF BatchInv, TypeOK
<1>10. SpanDefined' /\ SpanHoldsMessage' /\ CapacitySuffices'
  BY <1>1 DEF BatchInv, SpanDefined, SpanHoldsMessage, CapacitySuffices
<1>11. InBudget'
  <2>1. CASE kind = "sequential"
    <3>1. start <= done * MaxMessage /\ Len(message) <= MaxMessage
      BY <1>1, <2>1 DEF BatchInv, InBudget
    <3>2. done * MaxMessage \in Nat /\ (done + 1) * MaxMessage = done * MaxMessage + MaxMessage
      BY <1>3, OneMoreFits
    <3>3. used <= (done + 1) * MaxMessage
      BY <1>3, <3>1, <3>2, BatchAssumption
    <3>. QED
      BY <1>1, <1>3, <3>1, <3>3 DEF InBudget, Active
  <2>2. CASE kind # "sequential"
    BY <1>1, <1>3, <2>2 DEF BatchInv, InBudget, Active
  <2>. QED  BY <2>1, <2>2
<1>12. KeptBelow' /\ KeptAsWritten'
  <2>1. CASE kind = "preallocated" /\ kept' = kept /\ sent' = sent
    BY <1>1, <2>1, KeptUnchanged DEF BatchInv, KeptBelow
  <2>2. CASE kind = "sequential" /\ kept' = Append(kept, s) /\ sent' = Append(sent, message)
    <3>1. /\ Len(kept') = Len(kept) + 1 /\ Len(sent') = Len(sent) + 1
          /\ \A k \in 1 .. Len(kept) : kept'[k] = kept[k] /\ sent'[k] = sent[k]
          /\ kept'[Len(kept) + 1] = s /\ sent'[Len(kept) + 1] = message
      BY <1>3, <1>4, <1>5, <2>2
    <3>2. ASSUME NEW k \in 1 .. Len(kept')
          PROVE  kept'[k].from + kept'[k].len <= used /\ Later(kept'[k]) = sent'[k]
      <4>1. CASE k = Len(kept) + 1
        <5>1. kept'[k] = s /\ sent'[k] = message
          BY <3>1, <4>1
        <5>2. Later(kept'[k]) = BytesOf(s)
          BY <1>7, <5>1
        <5>. QED  BY <1>3, <1>5, <1>6, <5>1, <5>2
      <4>2. CASE k \in 1 .. Len(kept)
        <5>1. kept[k] \in Span /\ kept[k].from + kept[k].len <= start
              /\ BytesOf(kept[k]) = sent[k]
          BY <1>1, <1>3, <4>2 DEF BatchInv, KeptBelow, KeptAsWritten
        <5>2. kept'[k] = kept[k] /\ sent'[k] = sent[k]
          BY <3>1, <4>2
        <5>3. Later(kept'[k]) = BytesOf(kept[k])
          BY <1>7, <5>2
        <5>4. kept[k].from \in Nat /\ kept[k].len \in Nat
          BY <5>1 DEF Span
        <5>5. start \in Nat /\ used \in Nat /\ start <= used
          BY <1>3
        <5>6. kept[k].from + kept[k].len <= used
          BY <5>1, <5>4, <5>5
        <5>. QED  BY <5>1, <5>2, <5>3, <5>6
      <4>. QED  BY <1>3, <3>1, <4>1, <4>2
    <3>3. pc' # "serialising" /\ used' = used /\ kind' # "preallocated"
      BY <1>1, <2>2
    <3>4. KeptBelow'
      BY <3>2, <3>3 DEF KeptBelow
    <3>5. KeptAsWritten'
      BY <1>3, <1>8, <3>1, <3>2
    <3>. QED  BY <3>4, <3>5
  <2>. QED
    BY <1>2, <2>1, <2>2
<1>. QED
  BY <1>9, <1>10, <1>11, <1>12 DEF BatchInv

LEMMA NextBatchStep == BatchInv /\ NextBatch => BatchInv'
<1>. SUFFICES ASSUME BatchInv, NextBatch PROVE BatchInv'
  OBVIOUS
<1>1. /\ pc = "sampled" /\ pc' \in {"setup", "over"}
      /\ UNCHANGED <<kind, capacity, cells, used, start, done, message, kept, sent>>
  BY DEF NextBatch, buffer
<1>2. TypeOK' /\ SpanDefined' /\ SpanHoldsMessage' /\ CapacitySuffices'
  BY <1>1 DEF BatchInv, TypeOK, SpanDefined, SpanHoldsMessage, CapacitySuffices
<1>3. InBudget' /\ KeptBelow'
  BY <1>1 DEF BatchInv, InBudget, Active, KeptBelow
<1>4. KeptAsWritten'
  BY <1>1, KeptUnchanged
<1>. QED
  BY <1>2, <1>3, <1>4 DEF BatchInv

LEMMA StutterStep == BatchInv /\ UNCHANGED vars => BatchInv'
BY DEF vars, buffer, BatchInv, TypeOK, SpanDefined, SpanHoldsMessage, InBudget, Active,
   KeptBelow, KeptAsWritten, BytesOf, CapacitySuffices, EnoughFor

LEMMA NextBatchInv == BatchInv /\ [Next]_vars => BatchInv'
<1>. SUFFICES ASSUME BatchInv, [Next]_vars PROVE BatchInv'
  OBVIOUS
<1>1. CASE SetUp
  BY <1>1, SetUpStep
<1>2. ASSUME NEW size \in 0 .. MaxMessage, Begin(size) \/ BeginThrows(size)
      PROVE  BatchInv'
  BY <1>2, BeginStep, BeginThrowsStep
<1>3. ASSUME NEW count \in 1 .. MaxMessage, Extend(count) \/ ExtendThrows(count)
      PROVE  BatchInv'
  BY <1>3, ExtendStep, ExtendThrowsStep
<1>4. ASSUME NEW j \in 1 .. Len(message), NEW v \in Byte, Write(j, v)
      PROVE  BatchInv'
  BY <1>4, WriteStep
<1>5. CASE Return
  BY <1>5, ReturnStep
<1>6. CASE NextBatch
  BY <1>6, NextBatchStep
<1>7. CASE UNCHANGED vars
  BY <1>7, StutterStep
<1>. QED
  BY <1>1, <1>2, <1>3, <1>4, <1>5, <1>6, <1>7 DEF Next

-----------------------------------------------------------------------------

\* Every reachable state of the benchmark's loops satisfies the inductive
\* invariant (benchmark.hpp:47-65 over buffers.hpp).
THEOREM BatchInvHolds == Spec => []BatchInv
BY InitBatchInv, NextBatchInv, PTL DEF Spec

\* Sizes and positions stay within the storage that was allocated
\* (buffers.hpp:30-52, 88-118).
THEOREM BenchTypeCorrect == Spec => []TypeOK
<1>1. BatchInv => TypeOK
  BY DEF BatchInv
<1>. QED  BY <1>1, BatchInvHolds, PTL

\* subspan(_current_start) is defined whenever span() can be called, also
\* after a clear() and after an initialise() that threw (buffers.hpp:104-106).
THEOREM SpansDefined == Spec => []SpanDefined
<1>1. BatchInv => SpanDefined
  BY DEF BatchInv
<1>. QED  BY <1>1, BatchInvHolds, PTL

\* span() has the size of the current message and holds what was written to
\* it (buffers.hpp:43-57, 97-106).
THEOREM SpansHoldMessages == Spec => []SpanHoldsMessage
<1>1. BatchInv => SpanHoldsMessage
  BY DEF BatchInv
<1>. QED  BY <1>1, BatchInvHolds, PTL

\* The spans in object_buffers hold the messages of the batch, unchanged,
\* until the next batch (benchmark_deserialise.hpp:44-49).
THEOREM KeptMessagesUnchanged == Spec => []KeptAsWritten
<1>1. BatchInv => KeptAsWritten
  BY DEF BatchInv
<1>. QED  BY <1>1, BatchInvHolds, PTL

\* The capacity that the benchmarks compute is enough for every batch
\* (benchmark_serialise.hpp:36, benchmark_deserialise.hpp:30).
THEOREM ComputedCapacitySuffices == Spec => []CapacitySuffices
<1>1. BatchInv => CapacitySuffices
  BY DEF BatchInv
<1>. QED  BY <1>1, BatchInvHolds, PTL
=============================================================================
