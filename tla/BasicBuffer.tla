----------------------------- MODULE BasicBuffer -----------------------------
(***************************************************************************)
(* serialpp::basic_buffer (include/serialpp/buffers.hpp): the growable,    *)
(* movable byte buffer a message is serialised into.  Several buffer       *)
(* objects share one free store, so that moves, swaps and destructions     *)
(* can leak, double-free or alias storage; a caller holds one view (a      *)
(* std::span it got from span(), initialise() or extend()) across          *)
(* operations, as the doc comments of initialise() and extend() allow.     *)
(*                                                                         *)
(* A byte is a member of Byte, or Garbage when nobody has written it since *)
(* its storage was allocated.  `new` takes any free address, or throws.    *)
(***************************************************************************)
EXTENDS Integers, Sequences

CONSTANTS
    Buffer,        \* the basic_buffer objects of the program
    Address,       \* addresses that new std::byte[] can return
    Null,          \* nullptr
    Byte,          \* byte values that callers write
    Zero,          \* the byte 0 that preloading writes
    Garbage,       \* content of memory that was never written
    Capacities,    \* capacity arguments of the constructor
    Requests,      \* size and count arguments of initialise() and extend()
    MaxUsed        \* bound on a buffer's size, for model checking

ASSUME NullAssumption == Null \notin Address \cup Buffer
ASSUME NoContentAssumption == Null \notin Seq(Byte \cup {Zero, Garbage})
ASSUME SizesAssumption == Capacities \subseteq Nat /\ Requests \subseteq Nat

VARIABLES
    obj,           \* the members of every buffer object
    allocated,     \* the addresses that are allocated
    cells,         \* the bytes stored at every address
    view,          \* a view some caller holds, with its documented validity
    threw          \* whether the last operation threw bad_alloc

vars == <<obj, allocated, cells, view, threw>>

Cell == Byte \cup {Zero, Garbage}

\* The members of a basic_buffer; live is FALSE outside the object's lifetime.
Object == [live : BOOLEAN, data : Address \cup {Null}, capacity : Nat, used : Nat]

Dead == [live |-> FALSE, data |-> Null, capacity |-> 0, used |-> 0]

\* What the move constructor leaves behind: nullptr, 0, 0.
MovedFrom == [live |-> TRUE, data |-> Null, capacity |-> 0, used |-> 0]

\* A view: the buffer it was got from, the storage and size it denotes, and
\* whether the doc comments still promise that it is usable.
View == [ok : BOOLEAN, owner : Buffer \cup {Null},
         data : Address \cup {Null}, len : Nat]

NoView == [ok |-> FALSE, owner |-> Null, data |-> Null, len |-> 0]

\* data[0 .. used-1], what span() returns.
Content(b) == [i \in 1 .. obj[b].used |-> cells[obj[b].data][i]]

Fill(n, c) == [i \in 1 .. n |-> c]

-----------------------------------------------------------------------------

Init ==
    /\ obj = [b \in Buffer |-> Dead]
    /\ allocated = {}
    /\ cells = [a \in Address |-> <<>>]
    /\ view = NoView
    /\ threw = FALSE

\* new std::byte[] at `a` holding `content`, then delete[] of `old`.
Replace(old, a, content) ==
    /\ a \notin allocated
    /\ allocated' = (allocated \ {old}) \cup {a}
    /\ cells' = [x \in Address |-> IF x = a THEN content
                                   ELSE IF x = old THEN <<>> ELSE cells[x]]

\* delete[] of `old`, which may be nullptr.
Release(old) ==
    /\ allocated' = allocated \ {old}
    /\ cells' = [x \in Address |-> IF x = old THEN <<>> ELSE cells[x]]

\* Views got from b are no longer usable.
ViewsInvalidated(b) == IF view.owner = b THEN NoView ELSE view

\* basic_buffer(capacity, preload)
Construct(b, c, preload, a) ==
    /\ ~obj[b].live
    /\ Replace(Null, a, Fill(c, IF preload THEN Zero ELSE Garbage))
    /\ obj' = [obj EXCEPT ![b] = [live |-> TRUE, data |-> a, capacity |-> c, used |-> 0]]
    /\ threw' = FALSE
    /\ UNCHANGED view

\* The allocation of the constructor throws: there is no object.
ConstructThrows(b) ==
    /\ ~obj[b].live
    /\ threw' = TRUE
    /\ UNCHANGED <<obj, allocated, cells, view>>

\* Faulty: the last of the requested bytes is not counted as used.
InitialiseInPlaceShort(b, size) ==
    /\ obj[b].live
    /\ ~(obj[b].capacity < size)
    /\ obj' = [obj EXCEPT ![b].used = size - 1]
    /\ threw' = FALSE
    /\ UNCHANGED <<allocated, cells, view>>

\* initialise(size) when the capacity suffices: no reallocation, views survive.
InitialiseInPlace(b, size) ==
    /\ obj[b].live
    /\ ~(obj[b].capacity < size)
    /\ obj' = [obj EXCEPT ![b].used = size]
    /\ threw' = FALSE
    /\ UNCHANGED <<allocated, cells, view>>

\* Faulty: _capacity is not updated.
InitialiseKeepsCapacity(b, size, a) ==
    /\ obj[b].live
    /\ obj[b].capacity < size
    /\ Replace(obj[b].data, a, Fill(size, Garbage))
    /\ obj' = [obj EXCEPT ![b] = [@ EXCEPT !.data = a, !.used = size]]
    /\ view' = ViewsInvalidated(b)
    /\ threw' = FALSE

\* Faulty: also reallocates when the capacity is just enough.
InitialiseReallocatesEarly(b, size, a) ==
    /\ obj[b].live
    /\ obj[b].capacity <= size
    /\ Replace(obj[b].data, a, Fill(size, Garbage))
    /\ obj' = [obj EXCEPT ![b] = [@ EXCEPT !.data = a, !.capacity = size, !.used = size]]
    /\ view' = IF obj[b].capacity < size THEN ViewsInvalidated(b) ELSE view
    /\ threw' = FALSE

\* initialise(size) beyond the capacity: exactly `size` fresh bytes, old ones lost.
InitialiseReallocates(b, size, a) ==
    /\ obj[b].live
    /\ obj[b].capacity < size
    /\ Replace(obj[b].data, a, Fill(size, Garbage))
    /\ obj' = [obj EXCEPT ![b] = [@ EXCEPT !.data = a, !.capacity = size, !.used = size]]
    /\ view' = ViewsInvalidated(b)
    /\ threw' = FALSE

\* size_t(new_used * 1.5)
GrownCapacity(newUsed) == (newUsed * 3) \div 2

\* extend(count) when the capacity suffices.
ExtendInPlace(b, count) ==
    LET newUsed == obj[b].used + count IN
    /\ obj[b].live
    /\ newUsed <= MaxUsed
    /\ ~(obj[b].capacity < newUsed)
    /\ obj' = [obj EXCEPT ![b].used = newUsed]
    /\ threw' = FALSE
    /\ UNCHANGED <<allocated, cells, view>>

\* Faulty: the used bytes are not copied.
ExtendForgets(b, count, a) ==
    LET newUsed == obj[b].used + count
        newCapacity == GrownCapacity(newUsed)
    IN
    /\ obj[b].live
    /\ newUsed <= MaxUsed
    /\ obj[b].capacity < newUsed
    /\ Replace(obj[b].data, a, Fill(newCapacity, Garbage))
    /\ obj' = [obj EXCEPT ![b] = [@ EXCEPT !.data = a, !.capacity = newCapacity, !.used = newUsed]]
    /\ view' = ViewsInvalidated(b)
    /\ threw' = FALSE

\* extend(count) beyond the capacity: the used bytes are copied to new storage.
ExtendReallocates(b, count, a) ==
    LET newUsed == obj[b].used + count
        newCapacity == GrownCapacity(newUsed)
        copied == [i \in 1 .. newCapacity |->
                      IF i <= obj[b].used THEN cells[obj[b].data][i] ELSE Garbage]
    IN
    /\ obj[b].live
    /\ newUsed <= MaxUsed
    /\ obj[b].capacity < newUsed
    /\ Replace(obj[b].data, a, copied)
    /\ obj' = [obj EXCEPT ![b] = [@ EXCEPT !.data = a, !.capacity = newCapacity, !.used = newUsed]]
    /\ view' = ViewsInvalidated(b)
    /\ threw' = FALSE

\* The allocation of initialise() throws, before the buffer is touched.
InitialiseThrows(b, size) ==
    /\ obj[b].live
    /\ obj[b].capacity < size
    /\ threw' = TRUE
    /\ UNCHANGED <<obj, allocated, cells, view>>

\* The allocation of extend() throws, before the buffer is touched.
ExtendThrows(b, count) ==
    /\ obj[b].live
    /\ obj[b].used + count <= MaxUsed
    /\ obj[b].capacity < obj[b].used + count
    /\ threw' = TRUE
    /\ UNCHANGED <<obj, allocated, cells, view>>

\* A caller keeps the span of b.
TakeView(b) ==
    /\ obj[b].live
    /\ view' = [ok |-> TRUE, owner |-> b, data |-> obj[b].data, len |-> obj[b].used]
    /\ threw' = FALSE
    /\ UNCHANGED <<obj, allocated, cells>>

\* A caller writes a byte through the view it holds.
WriteThroughView(i, v) ==
    /\ view.ok
    /\ i \in 1 .. view.len
    /\ cells' = [cells EXCEPT ![view.data] = [@ EXCEPT ![i] = v]]
    /\ threw' = FALSE
    /\ UNCHANGED <<obj, allocated, view>>

\* Faulty: other keeps its members.
MoveConstructCopies(b, other) ==
    /\ ~obj[b].live
    /\ obj[other].live
    /\ obj' = [obj EXCEPT ![b] = obj[other]]
    /\ view' = IF view.owner = other THEN [view EXCEPT !.owner = b] ELSE view
    /\ threw' = FALSE
    /\ UNCHANGED <<allocated, cells>>

\* basic_buffer(basic_buffer&& other): b takes over everything other owns.
MoveConstruct(b, other) ==
    /\ ~obj[b].live
    /\ obj[other].live
    /\ obj' = [obj EXCEPT ![other] = MovedFrom, ![b] = obj[other]]
    /\ view' = IF view.owner = other THEN [view EXCEPT !.owner = b] ELSE view
    /\ threw' = FALSE
    /\ UNCHANGED <<allocated, cells>>

\* b = std::move(other): the parameter is move-constructed from other, swapped
\* with b and destroyed with what b owned.  b and other may be the same object.
MoveAssign(b, other) ==
    LET parameter == obj[other]
        moved == [obj EXCEPT ![other] = MovedFrom]
    IN
    /\ obj[b].live
    /\ obj[other].live
    /\ obj' = [moved EXCEPT ![b] = parameter]
    /\ Release(moved[b].data)
    /\ view' = IF view.owner = other THEN [view EXCEPT !.owner = b]
               ELSE ViewsInvalidated(b)
    /\ threw' = FALSE

\* swap(b, other)
Swap(b, other) ==
    /\ obj[b].live
    /\ obj[other].live
    /\ obj' = [obj EXCEPT ![b] = obj[other], ![other] = obj[b]]
    /\ view' = [view EXCEPT !.owner = IF @ = b THEN other ELSE IF @ = other THEN b ELSE @]
    /\ threw' = FALSE
    /\ UNCHANGED <<allocated, cells>>

\* ~basic_buffer(): the unique pointer deletes the storage.
Destroy(b) ==
    /\ obj[b].live
    /\ Release(obj[b].data)
    /\ obj' = [obj EXCEPT ![b] = Dead]
    /\ view' = ViewsInvalidated(b)
    /\ threw' = FALSE

Next ==
    \/ \E b \in Buffer, c \in Capacities, preload \in BOOLEAN, a \in Address :
          Construct(b, c, preload, a)
    \/ \E b \in Buffer, n \in Requests :
          \/ InitialiseInPlace(b, n)
          \/ InitialiseThrows(b, n)
          \/ ExtendInPlace(b, n)
          \/ ExtendThrows(b, n)
    \/ \E b \in Buffer, n \in Requests, a \in Address :
          \/ InitialiseReallocates(b, n, a)
          \/ ExtendReallocates(b, n, a)
    \/ \E b \in Buffer : ConstructThrows(b) \/ TakeView(b) \/ Destroy(b)
    \/ \E i \in 1 .. view.len, v \in Byte : WriteThroughView(i, v)
    \/ \E b, other \in Buffer :
          \/ MoveConstruct(b, other)
          \/ MoveAssign(b, other)
          \/ Swap(b, other)

Spec == Init /\ [][Next]_vars

-----------------------------------------------------------------------------

\* Type correctness: the members, the free store and the view have their types.
TypeOK ==
    /\ obj \in [Buffer -> Object]
    /\ allocated \subseteq Address
    /\ cells \in [Address -> Seq(Cell)]
    /\ view \in View
    /\ threw \in BOOLEAN

\* Storage is owned by exactly one live buffer and is as long as its capacity:
\* no sequence of moves, swaps, reallocations and destructions of buffers.hpp
\* leaks an allocation, frees one twice or lets two buffers share one.
Owns(b, a) == obj[b].live /\ obj[b].data = a

Ownership ==
    /\ \A b \in Buffer : ~obj[b].live => obj[b] = Dead
    /\ \A b \in Buffer : obj[b].data # Null => obj[b].data \in allocated
    /\ \A a \in allocated : \E b \in Buffer : Owns(b, a)
    /\ \A b, c \in Buffer : obj[b].data = obj[c].data /\ obj[b].data # Null => b = c

\* The used bytes lie within the allocation, also for a moved-from buffer
\* (the assertion _data || _used == 0 of extend()).
Extent ==
    \A b \in Buffer :
        /\ obj[b].used <= obj[b].capacity
        /\ obj[b].data = Null => obj[b].capacity = 0
        /\ obj[b].data # Null => Len(cells[obj[b].data]) = obj[b].capacity

\* A view stays usable exactly as the comments of initialise() and extend()
\* say: until its buffer reallocates (or dies), it denotes bytes that the
\* buffer it follows still owns.
ViewUsable ==
    view.ok => /\ view.owner \in Buffer
               /\ obj[view.owner].live
               /\ obj[view.owner].data = view.data
               /\ view.len <= obj[view.owner].capacity

-----------------------------------------------------------------------------

\* What the buffers are worth to their users: the sequence of used bytes.
Value == [b \in Buffer |-> IF obj[b].live THEN Content(b) ELSE Null]

Abstract == INSTANCE SerialiseBuffer WITH content <- Value, Nothing <- Null

\* basic_buffer is a serialise_buffer with value semantics (common.hpp:32-41 and
\* the comments of buffers.hpp): extend() keeps the content, moves and swaps
\* transfer it, no operation on one buffer changes another, and an operation
\* that throws changes nothing (the strong guarantee).
ImplementsSerialiseBuffer == Abstract!Spec
=============================================================================
