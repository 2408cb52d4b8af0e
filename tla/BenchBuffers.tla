---------------------------- MODULE BenchBuffers ----------------------------
(***************************************************************************)
(* The fixed-capacity buffers of the benchmark (helpers/buffers.hpp) under *)
(* the loops that use them:                                                *)
(*   - benchmark_serialise writes every message of a batch over the last   *)
(*     one, in a preallocated_buffer;                                      *)
(*   - benchmark_deserialise writes all messages of a batch one after the  *)
(*     other into a sequential_buffer, keeps a span of each, and then      *)
(*     reads them all.                                                     *)
(* serialise() is what module Serialiser shows it to be: it initialises    *)
(* the buffer, extends it, writes every byte once, in some order.          *)
(***************************************************************************)
EXTENDS Integers, Sequences

CONSTANTS
    Kinds,         \* the buffers in use: "preallocated", "sequential"
    Capacities,    \* arguments of the constructors
    Samples,       \* samples_per_batch
    MaxMessage,    \* max_serialised_size() of the source generator
    Byte, Zero,    \* values written, and the initial content
    Stale          \* ghost: a byte that the message has not written yet

ASSUME KindsAssumption == Kinds \subseteq {"preallocated", "sequential"}
ASSUME CapacityAssumption == Capacities \subseteq Nat
ASSUME BatchAssumption == Samples \in Nat \ {0} /\ MaxMessage \in Nat
ASSUME StaleAssumption == Stale \notin Byte \cup {Zero}

VARIABLES
    kind,          \* which buffer the benchmark constructed
    capacity,      \* preallocated_buffer::_capacity
    cells,         \* the bytes at preallocated_buffer::_data
    used,          \* preallocated_buffer::_used
    start,         \* sequential_buffer::_current_start, else 0
    pc,            \* where the benchmark is
    done,          \* messages of this batch that are complete
    message,       \* ghost: what serialise() wrote since initialise()
    kept,          \* object_buffers: spans of the complete messages
    sent           \* ghost: the content of the messages of object_buffers

buffer == <<kind, capacity, cells, used, start>>
vars == <<buffer, pc, done, message, kept, sent>>

Span == [from : Nat, len : Nat]

\* The bytes that a span denotes now.
BytesOf(s) == [j \in 1 .. s.len |-> cells[s.from + j]]

\* span(): the part of the storage that belongs to the current message.
CurrentSpan == [from |-> start, len |-> used - start]

Unwritten(n) == [j \in 1 .. n |-> Stale]

-----------------------------------------------------------------------------

Init ==
    /\ kind \in Kinds
    /\ capacity \in Capacities
    /\ cells = [j \in 1 .. capacity |-> Zero]
    /\ used = 0
    /\ start = 0
    /\ pc = "setup"
    /\ done = 0
    /\ message = <<>>
    /\ kept = <<>>
    /\ sent = <<>>

\* Faulty: the size of the underlying buffer is not reset.
ClearKeepsSize ==
    /\ start' = 0
    /\ UNCHANGED used

\* Faulty: the start of the current message is not reset.
ClearKeepsStart ==
    /\ used' = 0
    /\ UNCHANGED start

\* sequential_buffer::clear()
Clear ==
    /\ used' = 0
    /\ start' = 0

\* A batch begins: the sources are generated, and what the last batch wrote
\* is forgotten.
SetUp ==
    /\ pc = "setup"
    /\ pc' = "ready"
    /\ done' = 0
    /\ message' = <<>>
    /\ kept' = <<>>
    /\ sent' = <<>>
    /\ \/ kind = "sequential" /\ Clear
       \/ kind = "preallocated" /\ UNCHANGED <<used, start>>
    /\ UNCHANGED <<kind, capacity, cells>>

\* serialise() calls preallocated_buffer::initialise(size).
InitialisePreallocated(size) ==
    /\ kind = "preallocated"
    /\ ~(capacity < size)
    /\ used' = size
    /\ UNCHANGED start

\* Faulty: the new message begins where the last one did.
InitialiseSequentialInPlace(size) ==
    /\ kind = "sequential"
    /\ ~(capacity < used + size)
    /\ used' = used + size
    /\ UNCHANGED start

\* serialise() calls sequential_buffer::initialise(size).
InitialiseSequential(size) ==
    /\ kind = "sequential"
    /\ ~(capacity < used + size)
    /\ start' = used
    /\ used' = used + size

Begin(size) ==
    /\ pc = "ready"
    /\ InitialisePreallocated(size) \/ InitialiseSequential(size)
    /\ message' = Unwritten(size)
    /\ pc' = "serialising"
    /\ UNCHANGED <<kind, capacity, cells, done, kept, sent>>

\* initialise() throws bad_alloc, after a sequential_buffer has moved on to
\* the new message; the benchmark ends.
BeginThrows(size) ==
    /\ pc = "ready"
    /\ \/ /\ kind = "preallocated"
          /\ capacity < size
          /\ UNCHANGED start
       \/ /\ kind = "sequential"
          /\ capacity < used + size
          /\ start' = used
    /\ message' = <<>>
    /\ pc' = "unwound"
    /\ UNCHANGED <<kind, capacity, cells, used, done, kept, sent>>

\* A serialiser allocates `count` more bytes; the two classes do the same.
CanExtend(count) ==
    /\ pc = "serialising"
    /\ Len(message) + count <= MaxMessage

\* Faulty: the capacity is not checked.
ExtendUnchecked(count) ==
    /\ CanExtend(count)
    /\ used' = used + count
    /\ message' = message \o Unwritten(count)
    /\ UNCHANGED <<kind, capacity, cells, start, pc, done, kept, sent>>

\* Faulty: the buffer gets the size of the extension only.
ExtendShrinks(count) ==
    /\ CanExtend(count)
    /\ ~(capacity < used + count)
    /\ used' = start + count
    /\ message' = message \o Unwritten(count)
    /\ UNCHANGED <<kind, capacity, cells, start, pc, done, kept, sent>>

Extend(count) ==
    /\ CanExtend(count)
    /\ ~(capacity < used + count)
    /\ used' = used + count
    /\ message' = message \o Unwritten(count)
    /\ UNCHANGED <<kind, capacity, cells, start, pc, done, kept, sent>>

ExtendThrows(count) ==
    /\ CanExtend(count)
    /\ capacity < used + count
    /\ pc' = "unwound"
    /\ UNCHANGED <<buffer, done, message, kept, sent>>

\* A serialiser writes byte j of span().
Write(j, v) ==
    /\ pc = "serialising"
    /\ message[j] = Stale
    /\ message' = [message EXCEPT ![j] = v]
    /\ cells' = [cells EXCEPT ![start + j] = v]
    /\ UNCHANGED <<kind, capacity, used, start, pc, done, kept, sent>>

\* serialise() returns, and the span of the message is kept.
Return ==
    /\ pc = "serialising"
    /\ \A j \in 1 .. Len(message) : message[j] # Stale
    /\ done' = done + 1
    /\ pc' = IF done + 1 < Samples THEN "ready" ELSE "sampled"
    /\ \/ /\ kind = "sequential"
          /\ kept' = Append(kept, CurrentSpan)
          /\ sent' = Append(sent, message)
       \/ /\ kind = "preallocated"
          /\ UNCHANGED <<kept, sent>>
    /\ UNCHANGED <<buffer, message>>

\* while (time < test_time): another batch, or the benchmark is over.
NextBatch ==
    /\ pc = "sampled"
    /\ pc' \in {"setup", "over"}
    /\ UNCHANGED <<buffer, done, message, kept, sent>>

Next ==
    \/ SetUp
    \/ \E size \in 0 .. MaxMessage : Begin(size) \/ BeginThrows(size)
    \/ \E count \in 1 .. MaxMessage : Extend(count) \/ ExtendThrows(count)
    \/ \E j \in 1 .. Len(message), v \in Byte : Write(j, v)
    \/ Return
    \/ NextBatch

Spec == Init /\ [][Next]_vars

-----------------------------------------------------------------------------

TypeOK ==
    /\ kind \in {"preallocated", "sequential"}
    /\ capacity \in Nat
    /\ cells \in [1 .. capacity -> Byte \cup {Zero}]
    /\ used \in 0 .. capacity
    /\ start \in 0 .. capacity
    /\ pc \in {"setup", "ready", "serialising", "sampled", "over", "unwound"}
    /\ done \in 0 .. Samples
    /\ message \in Seq(Byte \cup {Stale})
    /\ kept \in Seq(Span)
    /\ sent \in Seq(Seq(Byte))

\* span() of a sequential_buffer takes subspan(_current_start) of the used
\* bytes, which is defined only if the start is not beyond them; this must
\* also be so after clear() and after an initialise() that threw
\* (buffers.hpp:88-92, 104-106, 115-118).
SpanDefined == start <= used

\* While a message is written, span() has its size and holds what has been
\* written to it so far, whichever buffer it is and however often it was
\* extended (buffers.hpp:43-57, 97-106).
SpanHoldsMessage ==
    pc = "serialising" =>
        /\ used - start = Len(message)
        /\ \A j \in 1 .. Len(message) :
               message[j] # Stale => cells[start + j] = message[j]

\* Until the next batch, every span in object_buffers holds the message
\* that was complete when it was pushed, although more messages have been
\* written into the same storage, or begun and abandoned, since then
\* (benchmark_deserialise.hpp:46-49).
KeptAsWritten ==
    /\ Len(kept) = Len(sent)
    /\ \A k \in 1 .. Len(kept) : BytesOf(kept[k]) = sent[k]

\* The capacity the benchmarks ask for.
EnoughFor(k) == IF k = "sequential" THEN MaxMessage * Samples ELSE MaxMessage

\* With the capacity that the benchmarks compute, no message of any batch
\* runs out of space (benchmark_serialise.hpp:36, benchmark_deserialise.hpp:30).
CapacitySuffices == capacity >= EnoughFor(kind) => pc # "unwound"
=============================================================================
