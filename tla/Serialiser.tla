------------------------------ MODULE Serialiser ------------------------------
(***************************************************************************)
(* serialpp::serialise() (include/serialpp/common.hpp) and the serialisers *)
(* of scalar.hpp, pair.hpp, tuple.hpp, static_array.hpp, record.hpp,       *)
(* optional.hpp, variant.hpp and dynamic_array.hpp, over any               *)
(* serialise_buffer.                                                       *)
(*                                                                         *)
(* The nested calls serialiser<T>::serialise(source, buffer, fixed_offset) *)
(* are an explicit stack of frames.  Each frame holds the local state of   *)
(* one call: its source, its running fixed offset, and what it was given   *)
(* as `buffer`: the buffer itself, the devirtualised wrapper with its      *)
(* cached span, or a span captured by with_buffer_for().  The buffer may   *)
(* move its bytes, or throw bad_alloc, whenever it is initialised or       *)
(* extended, which is what a serialise_buffer may do (common.hpp:32-41).   *)
(***************************************************************************)
EXTENDS Integers, Sequences, SourceTree

CONSTANTS
    Root,              \* the sources that callers serialise
    MaxDataOffset,     \* numeric_limits<data_offset_t>::max()
    MaxArraySize,      \* max_dynamic_array_size
    MaxMoves           \* bound on reallocations during one call

ASSUME RootAssumption == Root \subseteq Source
ASSUME LimitAssumption ==
    /\ MaxDataOffset \in Nat /\ Fits(MaxDataOffset, OffsetWidth)
    /\ MaxArraySize \in Nat /\ Fits(MaxArraySize, SizeWidth)

VARIABLES
    phase,             \* "idle", "running", "done", or "failed" after a throw
    error,             \* what was thrown, or "none"
    root,              \* the source being serialised
    mem,               \* the used bytes of the buffer, indexed from 0
    used,              \* how many there are
    gen,               \* which storage the buffer has: changes when it moves
    devirt,            \* the span cached by the devirtualised wrapper
    stack              \* the active serialise() calls, the innermost last

vars == <<phase, error, root, mem, used, gen, devirt, stack>>

\* A byte of the message; Stale if this call has not written it yet, so that
\* it holds whatever was in memory before.
Stale == Radix
Cell == Byte \cup {Stale}

\* A std::span over the buffer: the storage it points into and its size.
Span == [gen : Nat, size : Nat]
NoSpan == [gen |-> 0, size |-> 0]
BufferSpan == [gen |-> gen, size |-> used]

\* One active call.
Frame == [node : Source, step : {"serialise", "elements", "finish"}, fo : Nat, i : Nat,
          start : Nat, via : {"buffer", "devirt", "span"}, span : Span]

Top == stack[Len(stack)]

\* What buffer.span() (or the span itself) is for frame f.
SpanOf(f) == IF f.via = "buffer" THEN BufferSpan
             ELSE IF f.via = "devirt" THEN devirt ELSE f.span

-----------------------------------------------------------------------------

\* The frame of a call serialise(n, buffer, at), where `buffer` is what `via`
\* says and has span `view`: with_buffer_for() hands a fixed-size type the span.
Call(n, at, via, view) ==
    [node |-> n, step |-> "serialise", fo |-> at, i |-> 0, start |-> 0,
     via |-> IF IsFixed[n.type] THEN "span" ELSE via,
     span |-> IF IsFixed[n.type] THEN view ELSE NoSpan]

\* The bytes m after `bytes` are stored at offset `at` of span `view`.  Only
\* the part inside a span of the current storage reaches the message; the
\* rest would be a wild write, which FixedDataInBounds and NoDanglingView
\* exclude.
Written(m, view, at, bytes) ==
    [x \in DOMAIN m |->
        IF view.gen = gen /\ x < view.size /\ x \in at .. at + Len(bytes) - 1
        THEN bytes[x - at + 1] ELSE m[x]]

\* The innermost call is replaced by the calls fs; the outermost one returning
\* ends the serialisation.
Continue(fs) ==
    /\ stack' = SubSeq(stack, 1, Len(stack) - 1) \o fs
    /\ phase' = IF stack' = <<>> THEN "done" ELSE "running"
    /\ UNCHANGED <<error, root>>

\* The innermost call, a source of kind k at the given step.
Active(k, step) ==
    /\ phase = "running"
    /\ Kind[Top.node.type] = k
    /\ Top.step = step

\* An exception leaves every call; the buffer keeps what was written, m.
Throw(e, m) ==
    /\ phase' = "failed"
    /\ error' = e
    /\ mem' = m
    /\ stack' = <<>>
    /\ devirt' = NoSpan
    /\ UNCHANGED <<root, used, gen>>

\* buffer.extend(count), when the buffer holds m: the new bytes are not
\* initialised, the storage may move.
Extend(count, m) ==
    /\ used' = used + count
    /\ mem' = [x \in 0 .. used' - 1 |-> IF x < used THEN m[x] ELSE Stale]
    /\ gen' \in {g \in {gen, gen + 1} : g <= MaxMoves}

\* Faulty: the wrapper keeps the span it has.
ExtendBehindWrapper(f, count, m) ==
    /\ Extend(count, m)
    /\ UNCHANGED devirt

\* extend() as called by frame f: the devirtualised wrapper, if it goes through
\* it, refreshes its cached span.
ExtendThrough(f, count, m) ==
    /\ Extend(count, m)
    /\ devirt' = IF f.via = "devirt" THEN BufferSpan' ELSE devirt

\* What buffer.span() is for a frame that went through ExtendThrough.
SpanAfterExtend(f) == IF f.via = "devirt" THEN devirt' ELSE BufferSpan'

-----------------------------------------------------------------------------

Init ==
    /\ phase = "idle"
    /\ error = "none"
    /\ root \in Root
    /\ mem = <<>>
    /\ used = 0
    /\ gen = 0
    /\ devirt = NoSpan
    /\ stack = <<>>

\* serialise(source, buffer): initialise the buffer, serialise at offset 0.
\* A buffer can be used again after a success or a failure.
Serialise(s) ==
    /\ phase # "running"
    /\ phase' = "running"
    /\ error' = "none"
    /\ root' = s
    /\ used' = FixedSize[s.type]
    /\ mem' = [x \in 0 .. used' - 1 |-> Stale]
    /\ gen' = 0
    /\ devirt' = NoSpan
    /\ stack' = <<Call(s, 0, "buffer", BufferSpan')>>

\* initialise() throws bad_alloc: the buffer is as it was.
InitialiseThrows(s) ==
    /\ phase # "running"
    /\ phase' = "failed"
    /\ error' = "bad_alloc"
    /\ root' = s
    /\ UNCHANGED <<mem, used, gen, devirt, stack>>

SerialiseNull ==
    /\ Active("null", "serialise")
    /\ Continue(<<>>)
    /\ UNCHANGED <<mem, used, gen, devirt>>

SerialiseScalar ==
    LET f == Top IN
    /\ Active("scalar", "serialise")
    /\ mem' = Written(mem, SpanOf(f), f.fo, LittleEndian(f.node.val, FixedSize[f.node.type]))
    /\ Continue(<<>>)
    /\ UNCHANGED <<used, gen, devirt>>

\* Faulty: the running offset stays where it is.
PushElementInPlace ==
    LET f == Top
        e == f.node.sub[f.i + 1]
        rest == [f EXCEPT !.i = @ + 1]
    IN
    /\ f.i < Len(f.node.sub)
    /\ Continue(<<rest, Call(e, f.fo, f.via, SpanOf(f))>>)
    /\ UNCHANGED <<mem, used, gen, devirt>>

\* Faulty: never moves on from an element.
PushElementAgain ==
    LET f == Top
        e == f.node.sub[f.i + 1]
    IN
    /\ f.i < Len(f.node.sub)
    /\ Continue(<<f, Call(e, f.fo, f.via, SpanOf(f))>>)
    /\ UNCHANGED <<mem, used, gen, devirt>>

\* push_fixed_subobject() of the next element at the running fixed offset,
\* which then moves past that element.
PushElement ==
    LET f == Top
        e == f.node.sub[f.i + 1]
        rest == [f EXCEPT !.i = @ + 1, !.fo = @ + FixedSize[e.type]]
    IN
    /\ f.i < Len(f.node.sub)
    /\ Continue(<<rest, Call(e, f.fo, f.via, SpanOf(f))>>)
    /\ UNCHANGED <<mem, used, gen, devirt>>

\* Return after the last element.
ReturnAfterElements ==
    /\ Top.i = Len(Top.node.sub)
    /\ Continue(<<>>)
    /\ UNCHANGED <<mem, used, gen, devirt>>

SerialisePair ==
    /\ Active("pair", "serialise")
    /\ PushElement \/ ReturnAfterElements

SerialiseTuple ==
    /\ Active("tuple", "serialise")
    /\ PushElement \/ ReturnAfterElements

SerialiseStaticArray ==
    /\ Active("static_array", "serialise")
    /\ PushElement \/ ReturnAfterElements

SerialiseRecord ==
    /\ Active("record", "serialise")
    /\ PushElement \/ ReturnAfterElements

-----------------------------------------------------------------------------
\* optional: the offset of the value plus 1, or 0 if there is none.

\* Faulty: leaves the offset to whatever the buffer holds.
SerialiseOptionalEmptySkips ==
    LET f == Top IN
    /\ Active("optional", "serialise")
    /\ f.node.sub = <<>>
    /\ Continue(<<>>)
    /\ UNCHANGED <<mem, used, gen, devirt>>

\* Faulty: allocates variable data for the value it does not have.
SerialiseOptionalEmptyAllocates ==
    LET f == Top
        m == Written(mem, SpanOf(f), f.fo, LittleEndian(0, OffsetWidth))
    IN
    /\ Active("optional", "serialise")
    /\ f.node.sub = <<>>
    /\ ExtendThrough(f, FixedSize[Elements[f.node.type][1]], m)
    /\ Continue(<<>>)

SerialiseOptionalEmpty ==
    LET f == Top IN
    /\ Active("optional", "serialise")
    /\ f.node.sub = <<>>
    /\ mem' = Written(mem, SpanOf(f), f.fo, LittleEndian(0, OffsetWidth))
    /\ Continue(<<>>)
    /\ UNCHANGED <<used, gen, devirt>>

\* Faulty: stores an offset that its bytes cannot hold.
SerialiseOptionalValueUnchecked ==
    LET f == Top
        variableOffset == SpanOf(f).size
        value == f.node.sub[1]
        m == Written(mem, SpanOf(f), f.fo, LittleEndian(variableOffset + 1, OffsetWidth))
    IN
    /\ Active("optional", "serialise")
    /\ f.node.sub # <<>>
    /\ \/ /\ ExtendThrough(f, FixedSize[value.type], m)
          /\ Continue(<<Call(value, variableOffset, f.via, SpanAfterExtend(f))>>)
       \/ Throw("bad_alloc", m)

SerialiseOptionalValue ==
    LET f == Top
        variableOffset == SpanOf(f).size
        value == f.node.sub[1]
        m == Written(mem, SpanOf(f), f.fo, LittleEndian(variableOffset + 1, OffsetWidth))
    IN
    /\ Active("optional", "serialise")
    /\ f.node.sub # <<>>
    /\ IF variableOffset + 1 > MaxDataOffset
       THEN Throw("object_size_error", mem)
       ELSE \/ /\ ExtendThrough(f, FixedSize[value.type], m)
               /\ Continue(<<Call(value, variableOffset, f.via, SpanAfterExtend(f))>>)
            \/ Throw("bad_alloc", m)

-----------------------------------------------------------------------------
\* variant: the index of the alternative and the offset of its value.

SerialiseEmptyVariant ==
    LET f == Top IN
    /\ Active("variant", "serialise")
    /\ Elements[f.node.type] = <<>>
    /\ mem' = Written(Written(mem, SpanOf(f), f.fo, LittleEndian(0, IndexWidth)),
                      SpanOf(f), f.fo + IndexWidth, LittleEndian(0, OffsetWidth))
    /\ Continue(<<>>)
    /\ UNCHANGED <<used, gen, devirt>>

SerialiseValuelessVariant ==
    /\ Active("variant", "serialise")
    /\ Elements[Top.node.type] # <<>>
    /\ Top.node.sub = <<>>
    /\ Throw("bad_variant_access", mem)

SerialiseVariantValue ==
    LET f == Top
        variableOffset == SpanOf(f).size
        value == f.node.sub[1]
        m1 == Written(mem, SpanOf(f), f.fo, LittleEndian(f.node.val, IndexWidth))
        m2 == Written(m1, SpanOf(f), f.fo + IndexWidth, LittleEndian(variableOffset, OffsetWidth))
    IN
    /\ Active("variant", "serialise")
    /\ Elements[f.node.type] # <<>>
    /\ f.node.sub # <<>>
    /\ IF variableOffset > MaxDataOffset
       THEN Throw("object_size_error", m1)
       ELSE \/ /\ ExtendThrough(f, FixedSize[value.type], m2)
               /\ Continue(<<Call(value, variableOffset, f.via, SpanAfterExtend(f))>>)
            \/ Throw("bad_alloc", m2)

-----------------------------------------------------------------------------
\* dynamic_array: the number of elements and the offset of the first, which is
\* 0 if there are none.  The elements come first, then the size and the offset.

\* Faulty: allocates one element too many.
BeginElementsOneTooMany ==
    LET f == Top
        variableOffset == SpanOf(f).size
        element == Elements[f.node.type][1]
        loop == [f EXCEPT !.step = "elements", !.fo = variableOffset, !.i = 0,
                          !.via = IF IsFixed[element] THEN "span" ELSE "devirt",
                          !.span = IF IsFixed[element] THEN devirt' ELSE NoSpan]
    IN
    /\ Active("dynamic_array", "serialise")
    /\ Extend(FixedSize[element] * (Len(f.node.sub) + 1), mem)
    /\ devirt' = BufferSpan'
    /\ Continue(<<[f EXCEPT !.step = "finish", !.start = variableOffset], loop>>)

\* _serialise_elements(): wraps the buffer unless it already is the wrapper,
\* then extends it for all elements at once.
BeginElements ==
    LET f == Top
        variableOffset == SpanOf(f).size
        element == Elements[f.node.type][1]
        loop == [f EXCEPT !.step = "elements", !.fo = variableOffset, !.i = 0,
                          !.via = IF IsFixed[element] THEN "span" ELSE "devirt",
                          !.span = IF IsFixed[element] THEN devirt' ELSE NoSpan]
    IN
    /\ Active("dynamic_array", "serialise")
    /\ \/ /\ Extend(FixedSize[element] * Len(f.node.sub), mem)
          /\ devirt' = BufferSpan'
          /\ Continue(<<[f EXCEPT !.step = "finish", !.start = variableOffset], loop>>)
       \/ Throw("bad_alloc", mem)

SerialiseElement ==
    /\ Active("dynamic_array", "elements")
    /\ PushElement

\* The end of _serialise_elements(): its wrapper, if it made one, is gone.
EndElements ==
    /\ Active("dynamic_array", "elements")
    /\ Top.i = Len(Top.node.sub)
    /\ devirt' = IF stack[Len(stack) - 1].via = "buffer" THEN NoSpan ELSE devirt
    /\ Continue(<<>>)
    /\ UNCHANGED <<mem, used, gen>>

\* Faulty: takes an array of the largest size for one that is too long.
FinishArrayNeverFull ==
    LET f == Top
        count == Len(f.node.sub)
        offset == IF count > 0 THEN f.start ELSE 0
        m1 == Written(mem, SpanOf(f), f.fo, LittleEndian(count, SizeWidth))
        m2 == Written(m1, SpanOf(f), f.fo + SizeWidth, LittleEndian(offset, OffsetWidth))
    IN
    /\ Active("dynamic_array", "finish")
    /\ IF count >= MaxArraySize THEN Throw("object_size_error", mem)
       ELSE IF offset > MaxDataOffset THEN Throw("object_size_error", m1)
       ELSE /\ mem' = m2
            /\ Continue(<<>>)
            /\ UNCHANGED <<used, gen, devirt>>

FinishArray ==
    LET f == Top
        count == Len(f.node.sub)
        offset == IF count > 0 THEN f.start ELSE 0
        m1 == Written(mem, SpanOf(f), f.fo, LittleEndian(count, SizeWidth))
        m2 == Written(m1, SpanOf(f), f.fo + SizeWidth, LittleEndian(offset, OffsetWidth))
    IN
    /\ Active("dynamic_array", "finish")
    /\ IF count > MaxArraySize THEN Throw("object_size_error", mem)
       ELSE IF offset > MaxDataOffset THEN Throw("object_size_error", m1)
       ELSE /\ mem' = m2
            /\ Continue(<<>>)
            /\ UNCHANGED <<used, gen, devirt>>

-----------------------------------------------------------------------------

\* A step of the running serialisation.
Step ==
    \/ SerialiseNull \/ SerialiseScalar
    \/ SerialisePair \/ SerialiseTuple \/ SerialiseStaticArray \/ SerialiseRecord
    \/ SerialiseOptionalEmpty \/ SerialiseOptionalValue
    \/ SerialiseEmptyVariant \/ SerialiseValuelessVariant \/ SerialiseVariantValue
    \/ BeginElements \/ SerialiseElement \/ EndElements \/ FinishArray

Next == Step \/ \E s \in Root : Serialise(s) \/ InitialiseThrows(s)

Spec == Init /\ [][Next]_vars

\* The calling thread keeps running: serialise() never waits for anything.
FairSpec == Spec /\ WF_vars(Step)

-----------------------------------------------------------------------------

\* The fixed data frame f has still to write, as a number of bytes from f.fo.
Remaining(f) ==
    LET t == f.node.type IN
    IF Kind[t] \in Contiguous THEN FixedSize[t] - ElementOffset[t][f.i + 1]
    ELSE IF f.step = "elements" THEN FixedSize[Elements[t][1]] * (Len(f.node.sub) - f.i)
    ELSE FixedSize[t]

\* Type correctness of the machine.
TypeOK ==
    /\ phase \in {"idle", "running", "done", "failed"}
    /\ error \in {"none", "bad_alloc", "object_size_error", "bad_variant_access"}
    /\ root \in Root
    /\ used \in Nat
    /\ gen \in Nat
    /\ mem \in [0 .. used - 1 -> Cell]
    /\ devirt \in Span
    /\ stack \in Seq(Frame)
    /\ phase = "running" <=> stack # <<>>

\* The obligation serialiser<T> puts on every caller (common.hpp:72-73): the
\* section of fixed data a call still has to write lies within the buffer.
FixedDataInBounds ==
    \A j \in 1 .. Len(stack) : stack[j].fo + Remaining(stack[j]) <= SpanOf(stack[j]).size

\* No call writes through an outdated view: a span captured by with_buffer_for()
\* and the span cached by the devirtualised wrapper (buffers.hpp:170-173) denote
\* the buffer's current storage and its full size whenever a call can use them.
NoDanglingView ==
    \A j \in 1 .. Len(stack) : SpanOf(stack[j]) = BufferSpan

\* The sections of fixed data that the active calls have still to write.
Section(f) == f.fo .. f.fo + Remaining(f) - 1

\* The active calls share the unwritten bytes out among themselves: every byte
\* not written yet is in the section of exactly one call, and no byte in a
\* section has been written (the allocation discipline of push_fixed_subobject
\* and push_variable_subobjects, common.hpp:276-301).
SectionsPartitionUnwritten ==
    phase \in {"running", "done"} =>
        /\ \A j, k \in 1 .. Len(stack) :
              j # k => Section(stack[j]) \cap Section(stack[k]) = {}
        /\ \A x \in 0 .. used - 1 :
              mem[x] = Stale <=> \E j \in 1 .. Len(stack) : x \in Section(stack[j])

\* A message is complete when serialise() returns: every byte up to the end of
\* the buffer was written by this call, none is left over from memory.
CompleteWhenDone ==
    phase = "done" => \A x \in 0 .. used - 1 : mem[x] # Stale

\* Within one serialisation no byte is written a second time with another
\* value, by the same call or by another: not when sections are nested, not
\* when dynamic_array writes its size and offset after its elements.
NoOverwrite ==
    [][phase = "running" => \A x \in 0 .. used - 1 : mem[x] # Stale => mem'[x] = mem[x]]_vars

-----------------------------------------------------------------------------

\* What a frame's local state is like at every step: the element counter has
\* not run past the source, only dynamic_array has steps of its own, and a span
\* is what a call works on only if what it serialises has a fixed size.
FrameOK(f) ==
    LET t == f.node.type IN
    /\ f.i <= Len(f.node.sub)
    /\ f.step # "serialise" => Kind[t] = "dynamic_array"
    /\ f.via = "span" => IF f.step = "elements" THEN IsFixed[Elements[t][1]] ELSE IsFixed[t]

FramesOK == \A j \in 1 .. Len(stack) : FrameOK(stack[j])

\* How a call's view relates to that of a call nested in it: calls on the
\* buffer are outermost, and inside a call on a span everything is on a span.
Nests(outer, inner) ==
    /\ inner.via = "buffer" => outer.via = "buffer"
    /\ outer.via = "span" => inner.via = "span"

ViewsNest == \A j, k \in 1 .. Len(stack) : j < k => Nests(stack[j], stack[k])

\* The inductive invariant behind the bounds and the views: whoever extends the
\* buffer has no span below it and, if the wrapper is in use, goes through it.
ViewInv == TypeOK /\ FramesOK /\ ViewsNest /\ FixedDataInBounds /\ NoDanglingView

\* Every call of serialise() ends, with a message or with an exception.
Terminates == phase = "running" ~> phase # "running"
=============================================================================
