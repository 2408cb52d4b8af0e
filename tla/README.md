# Serialise++ in TLA+

Models, model-checking runs and machine-checked proofs for Serialise++, a
header-only C++20 library that turns typed values into bytes and reads them back
without copying (`include/serialpp/`), and for the helpers of its benchmark.
Paths and line numbers below are those of the repository.

The library has no threads, files or network. What makes it hard is of another
kind: a message is written by a tree of nested calls that share one buffer; the
buffer may move its bytes whenever it grows, while the calls around hold offsets
and views into it; some calls write their own fixed data before and some after
the calls they make; memory is not cleared, so that a byte that was forgotten
holds the bytes of an earlier message; allocations and size checks fail in the
middle of a message and the buffer is used again afterwards; and the reader
computes positions in another way than the writer.

## 1. Inventory

| component | state | operations | interacts with |
| --- | --- | --- | --- |
| `common.hpp` | none of its own | `serialise` (2 and 3 arguments), `deserialise`, `with_buffer_for`, `push_fixed_subobject`, `push_variable_subobjects`, `to_data_offset`, `check_buffer_size_for` | calls every serialiser and deserialiser, and the buffer |
| `basic_buffer` (`buffers.hpp`) | storage, capacity, used size | construct, move, assign, swap, destroy, `initialise`, `extend`, `span` | called by serialisers; hands out spans that a reallocation invalidates |
| `devirtualised_virtual_buffer`, `virtual_buffer_impl` (`buffers.hpp`) | a reference and a cached span | `extend`, `span` | made by `dynamic_array` around any other buffer |
| scalars (`scalar.hpp`) | none | serialise and read integers, bool, bytes, floats; `null` | leaves of every tree |
| `pair`, `tuple`, `static_array`, `record` | running fixed offset of a call | serialise elements one after the other; read them at computed offsets | recursive; records inherit fields |
| `optional`, `variant` | running fixed offset of a call | offset (and index) in the fixed data, value in the variable data | extend the buffer, may throw `object_size_error`, `bad_variant_access` |
| `dynamic_array` | a type-erased range; during a call, count and offsets | visit the range, serialise all elements, then size and offset | wraps the buffer, extends it once for all elements |
| `constexpr_unique_ptr`, `small_any` (`utility.hpp`) | a pointer; an inline object with its visitor | own, move, destroy, visit | storage of `basic_buffer`; ranges of `dynamic_array` |
| type lists, names (`utility.hpp`) | compile time | concatenation, lookup | layout of tuples and records |
| benchmark buffers | fixed storage, used size, start of the current message | `initialise`, `extend`, `span`, `clear` | serialisers |
| benchmark random engines | four 64-bit states | `generate` | source generator |
| benchmark loops, consumer, output | local | measure and print | everything above |

What makes each correct:

* *buffers*: storage has exactly one owner and is never leaked or freed twice;
  the used bytes lie inside it; growing keeps the content; a failed operation
  changes nothing; a span remains usable exactly as long as documented.
* *the wrapper*: its cached span is the buffer's span whenever somebody uses it.
* *serialisers*: every write is inside the buffer and through a current view;
  the calls divide the buffer among themselves without overlap or gap; every
  byte is written, and written once; the message has no padding.
* *serialise with deserialise*: the value read is the value written, or the call
  failed, and it fails for size only if the message exceeds the limits.
* *deserialisers*: whatever a buffer contains, nothing outside it is read, and
  every accessor arrives at the part it names, or throws.
* *type-erased sources*: the range is destroyed exactly once and survives moves.

`PROJECT.json` lists the hazards one by one with the line at which each bites.

## 2. Modules

| module | models | notes |
| --- | --- | --- |
| `SourceTree` | types and `serialise_source` values, and the bytes of their numbers | constants with assumptions: for each type its kind, elements, fixed size (of scalars 1, 2, 4 or 8 bytes), element offsets; a byte has `Radix` values |
| `Layout` | `fixed_data_size`, `tuple_element_offset`, `named_field_offset`, record inheritance, `fixed_size_serialisable` | recursive operators, as the templates are; gives the constants of `SourceTree` |
| `Serialiser` | `serialise()` and all serialisers | the state machine |
| `Deserialiser` | `deserialise()` and all deserialisers | a recursive function: what the deserialiser of each type returns at each offset |
| `MessageSize` | how long a message is, and which sources are too large | sizes of sources as tables, tied together by `MessageSizeAssumption` |
| `SerialiserStore` | `Serialiser` and `Deserialiser` together | the refinement mapping to `MessageStore` |
| `MessageStore` | abstract: a store for one value | what `serialise()` and `deserialise()` promise together |
| `Reader` | the accessors of all deserialisers, on any buffer | a caller that follows them one call at a time |
| `Transfer` | `Serialiser` and `Reader` composed | the message arrives intact, with bytes behind it, or cut off |
| `Scalars` | the serialisers and deserialisers of scalars, byte by byte | two machines of any byte order |
| `RangeSource` | `serialise_source<dynamic_array>` with its `small_any` | who owns the elements of a range |
| `ElementSource` | abstract: views and owned elements | what a source of a `dynamic_array` promises its user |
| `UniquePtr` | `constexpr_unique_ptr` | |
| `BasicBuffer` | `basic_buffer` | several objects over one free store, and a caller that keeps a view |
| `SerialiseBuffer` | abstract: byte sequences | what the concept `serialise_buffer` and the comments of `buffers.hpp` promise |
| `BenchBuffers` | `preallocated_buffer`, `sequential_buffer` and the batch loops of the benchmark | one buffer of either kind, batch after batch |
| `SourceGenerator` | `random_source_generator<T>` without the randomness | which sources can be made, and `max_serialised_size()`, with a `max_size` for each array and the values that are possible for each optional and variant; `max_serialised_size()` is a table that `GeneratorAssumption` ties to the code's formulas |
| `MCTypes` | | the tables of twenty-eight types, compared with `Layout`, that several instances use |
| `MCSerialiser`, `MCVariantFormat`, `MCReader`, `MCTransfer`, `MCRangeSource`, `MCUniquePtr`, `MCBasicBuffer`, `MCBenchBuffers` | | instances for TLC |
| `SerialiserProofs`, `TransferProofs`, `ReaderProofs`, `ScalarsProofs`, `BasicBufferProofs`, `BenchBuffersProofs`, `RangeSourceProofs`, `UniquePtrProofs` | | theorems, each about the module of its name; `SerialiserProofs` also about `MessageSize`, `TransferProofs` also about `SerialiserStore` |

### Serialiser

The nested C++ calls become an explicit stack. A frame is one active call
`serialiser<T>::serialise(source, buffer, fixed_offset)`: its source (`node`), the
running offset (`fo`), the number of elements done (`i`), where a `dynamic_array`'s
elements start (`start`), and what it got as `buffer`: the buffer itself
(`via = "buffer"`), the devirtualised wrapper (`"devirt"`), or a span that
`with_buffer_for` captured (`"span"`, with the span in the frame). Every write and
every extension of a call is part of one action, together with the calls it makes
next. `dynamic_array` needs three: `BeginElements` (read the offset, wrap, extend),
`SerialiseElement`, and `FinishArray` (check and write size and offset), since
arbitrary calls run in between.

The buffer is its used bytes (`mem`), its size (`used`) and the identity of its
storage (`gen`). Each `extend()` may change `gen` (reallocate) or throw `bad_alloc`:
the concept allows it, and `basic_buffer` does both. A byte that this call has not
written is `Stale`, whatever memory held. A write takes effect only where its span
denotes current storage (`Written`), so a write through an outdated view is lost in
the model as it would be in the program, and the invariants exclude it.
After a throw the stack is gone and the buffer keeps what it has; the next
`Serialise` uses it again. A range that is empty is modelled as an extension by
zero bytes; `dynamic_array` may skip the call for owned empty ranges, which is the
case in which nothing moves or throws.

A number is stored as `LittleEndian` has it and read by `UnsignedValue`: each byte is a
remainder by `Radix`, `Shifted` is the number after the shifts by 0 to 7 bytes, and
`Then` puts a byte below the number that the bytes above it make. What does not fit
its bytes loses what is above them, so that a check that is missing shows.

Types are finite trees given by constants, so one machine covers every program;
`IsFixed` selects the span overloads as `fixed_size_serialisable` does.

What the templates compute by recursion over types is given to the machine as
tables, or is a recursive function as `Deserialisers` is, because both can be
reasoned about: `Depth` numbers the types such that the elements of a type are
less deep than the type, so that every recursion ends. The instances compute the
tables with the recursive operators of `Layout` and `MCSerialiser`.

### Reader and Transfer

`cursor` is the deserialiser the caller holds: a type and `_fixed_offset` in `buffer`.
An accessor either returns a number (`Return`), arrives at another deserialiser
(`MoveTo`, which is `deserialise<T>(_buffer, offset)` with its bounds check), or
throws (`Fail`); deserialisers are immutable, so that one cursor shows every
sequence of calls. `status` says what was thrown, or how the program died: by an
assertion, in builds that have them (`asserts`), or by an exception that leaves a
`noexcept` function. `operator[]`, `operator*` and `get` of the caller who
respects their preconditions are the checked accessors without the error.
Offsets are computed in `std::size_t` with `AddressSpace` values; only
`dynamic_array` can wrap around, since every other sum is within data that was
checked before. It does not where a `std::size_t` has room for the largest offset and
the largest array behind it (`EnoughAddresses`), as one of 64 bits has unless an element
has 4 GiB of fixed data. With one of 32 bits `ElementsInBuffer` does not hold: a damaged
offset behind the buffer can give other data of the buffer for an element, without the
`buffer_bounds_error` of `ProgrammingGuide.md:302`. `CursorInBounds` holds with both.

`Transfer` runs `Serialiser` until a message is complete, hands its bytes to a
`Reader` that expects the type or one of its base records, and follows in the source
what the accessors name (`node`: the subobject that the last step of `path` leads to),
so that `ReadsAsWritten` can compare what each accessor returns with the part of the
source it should have come from. A message is smaller than the reader's address
space, as it is in a program that holds it in memory.

### RangeSource

`visitor` is `_visitor_func`, `data` what `_data` was last made to hold, `heap` the
blocks of the ranges that are too large for the inline buffer. A `Store` stands for
the elements of one container or owning range; whoever holds it releases it.
`Large` containers go to the heap. A moved-from object is not destroyed by
`small_any` (`utility.hpp:213`); the model takes it to own nothing, as is so for
`std::vector`, `std::array` of such elements, `views::all` of them and
`constexpr_unique_ptr`. A container that keeps memory when it is moved from, and is
small enough for the inline buffer, would leak it; that is a condition on the
caller's types which the library does not state.
`ConstructFrom` takes an rvalue container, `ConstructView` an lvalue or a borrowed
range, and `ConstructAdaptor` an rvalue that is a view but no borrowed range, as
`vector | transform` is: one that is empty is not stored, though the container that it
views may grow. Constructing may throw for want of a heap block or because a
range or an element cannot be moved, inline too.
`Emplace` is what `small_any` offers: its one caller only uses it on an empty one,
the model on any.

`ElementSource` is the user's view: absent, a view of a container, or the owner of
so many elements. `ImplementsElementSource` maps the machine to it; what is
compared is whether elements are taken exactly when a constructor succeeds, and
that serialising shows a viewed container as it is then.

### UniquePtr

Each object is made once and the model counts its deletions. `NullsOwners` says
whether `nullptr` is assigned to pointers that own something. The library does not;
the run `unique_ptr` checks its use, `unique_ptr_null` the other.

### Scalars

One value is written and read a byte per step where the code loops, and in one step
where it copies. `Memory` is the object representation on a machine; the copies are
reversed on big-endian ones. `Power` is what a shift by whole bytes multiplies by. In
constant expressions and on mixed-endian machines the loops are used. Received bytes may
also come from elsewhere (`source = {}`).

### BasicBuffer

An object is its three members and whether it is alive; `cells` are the bytes at
each address and `allocated` the free store's view of them. `new` returns any
unallocated address, or throws, in the constructor, in `initialise()` and in
`extend()`. `view` is a span some caller keeps, with a ghost flag that says whether
the comments of `buffers.hpp` still promise that it is valid; it follows its
storage through moves and swaps.

### BenchBuffers

`benchmark_serialise` writes each message over the last one in a
`preallocated_buffer`; `benchmark_deserialise` clears a `sequential_buffer`, writes
all messages of a batch into it and keeps a span of each (`kept`, the code's
`object_buffers`) to read them later. Both are one loop here, with the kind of the
buffer chosen at the start. `Begin`, `Extend` and `Write` are the calls that a
serialisation makes; that it writes every byte once is what the runs and theorems
about `Serialiser` show, and `Return` relies on it. Ghosts record what was written:
`message` since the last `initialise()`, `sent` for the kept messages. An exception
ends the benchmark. The constructor takes any capacity; which one is enough is the
question `CapacitySuffices` answers, given that a message is at most `MaxMessage`
bytes long. `SourceGenerator` closes that gap: `WithinGeneratorBound` compares
`max_serialised_size()` with what `Serialiser` allocates for every source that can be
generated.

Definitions whose comment begins with "Faulty:" are not part of the
specifications. Each is a plausible bug in the definition that follows it, kept to
show that a property notices it: with the definition replaced by the faulty one
the property fails (`PROJECT.json`, "mutants").

## 3. Runs

| run | checks | result |
| --- | --- | --- |
| `basic_buffer` | `TypeOK`, `Ownership`, `Extent`, `ViewUsable`, and that `BasicBuffer` implements `SerialiseBuffer` | holds, 78,254 distinct states |
| `serialise` | `ViewInv`, `SectionsPartitionUnwritten`, `CompleteWhenDone`, `CompactWhenDone`, `SizeErrorsJustified`, `NoOverwrite`, `Terminates`, and that `Serialiser` with `Deserialiser` implements `MessageStore` (`StoresValue`); `WithinGeneratorBound` | holds, 18,940 distinct states |
| `bench_buffers` | `TypeOK`, `SpanDefined`, `SpanHoldsMessage`, `KeptAsWritten`, `CapacitySuffices` | holds, 24,748 distinct states |
| `reader` | `CursorInBounds`, `OnlyOffsetsMislead`, `ElementsInBuffer` | holds, 207,794 distinct states |
| `transfer` | `ReadsAsWritten`, `TruncationNoticed` | holds, 313,548 distinct states |
| `range_source` | `OneOwner`, `VisitorKnowsType`, and that `RangeSource` implements `ElementSource` | holds, 5,414 distinct states |
| `unique_ptr` | `DeletedOnce`, `OneOwner` | holds, 216 distinct states |
| `scalars` | `ImageIsLittleEndian`, `RoundTrip`, `AnyBytesAreAValue` | holds, 40,108 distinct states |
| `variant_index` | that assertions do not fail on malformed buffers | violated: see below |
| `variant_visit` | that errors in malformed buffers can be handled | violated: see below |
| `unique_ptr_null` | that an object is deleted once | violated: see below |
| `variant_format` | what `SerialisationFormat.md` says of a variant's fixed data | violated: see below |

**Bounds.** `basic_buffer`: two buffers, three addresses, sizes up to 3, requests
0..2, capacities 0 and 2. Two buffers are the most one operation involves; a move
assignment and a reallocation need two addresses at once, the third keeps `new`
from having to return the one just freed; the sizes reach every branch, growth
from 0, and repeated growth. Addresses and buffers are symmetric.

`serialise`: types of each kind and the nestings in which calls interfere: optionals
inside arrays, arrays of arrays (whose inner call finds the wrapper in place), arrays of
variants that contain arrays, fixed-size pairs in arrays (a captured span), derived
records, a record of an 8-byte scalar and an array of such, and empty tuples, arrays and
variants. A byte has three values (`Radix = 3`), so that an offset or a size of four
bytes is at most 80, and `MaxDataOffset = MaxArraySize = 80`, the largest number that
fits, as in the code. Most messages stay below; those of `LimitRoot` have so much
variable data that the last optional, variant or array, or an optional late in an array,
is at the largest offset (that of an optional is stored plus one) or the first that does
not fit and would be stored as 0, and arrays of `null` have 80 and 81 elements. Without
any one of the four checks, of an optional's, a variant's or an array's offset or of an
array's size, a message results that deserialises to another value. The number 5293 takes
all 8 bytes of its scalar. One reallocation per call
(`MaxMoves = 1`) already makes every older view outdated. The tables of `MCSerialiser`
are compared by `LayoutAssumption` with what the recursive operators of `Layout`
compute, and the serialisers' running offsets with the deserialisers' named and indexed
ones.

`bench_buffers`: three messages of up to two bytes, so that a message has a kept one
and one to come; capacities 6 and 2, as the benchmarks compute them, and 1, 2 and 3,
with which the first or a later message runs out of space, in `initialise()` or in
`extend()`. Batches follow each other without bound. Deadlock is not checked: the
benchmark ends after its last batch or with an exception.

`reader`: nine types that between them contain every kind, one of them with an
8-byte scalar. Each number stored in
the fixed data takes values that are right, off by little, or far out, in all
combinations, and every such buffer is cut off within its fixed data, at its end,
and within its variable data, which holds an array that points to its own end.
Indices up to 2 exceed the arrays from inside and outside. `AddressSpace` is that of a
`std::size_t` of eight bytes (`EnoughAddresses`); the far offset is so close to the
largest of four bytes that the second element of an array there would be found at the
start of the buffer if the sum were computed in four bytes. A
caller never waits for the next call, so that deadlock, the end of the reading,
is not checked.

`transfer`: messages of one source of each composite type with an empty part, cut at
every length, and with one byte behind. Limits and reallocations, which `serialise`
covers, are out of the way (no message is too large, `MaxMoves = 0`).

`range_source`: two sources, since a move involves two, and two containers, one
small and one large; four stores, as many as two sources and two containers can
hold, so that a lack of stores never prevents a step. An adaptor goes inline or to the
heap, whichever its type is large enough for. Zero elements, one (a list
that fits the inline buffer) and two (one that does not).

`unique_ptr`: three pointers and four objects; assignment, also of a pointer to
itself, involves two pointers and a temporary. Deletions are counted to two, at
which the machine stops.

`scalars`: bytes of four values (an even number, so that numbers have a sign), which
does not matter to the shifts and keeps four-byte integers within 256 patterns;
widths of one, two and four bytes. The theorems of `ScalarsProofs` hold for every width,
and `serialise` and `transfer` store and read numbers of eight bytes.

**Fairness.** `Terminates` assumes weak fairness of `Step`: the calling thread keeps
running. `serialise()` waits for nothing and every branch of `Step` is its own
code or an exception, so nothing else is needed; that a caller ever calls is not
assumed.

**Findings.** Each is a run that TLC finds violated.

`SerialisationFormat.md:146` gives a variant's index one byte, the code
two (`variant.hpp:32`, `std::uint16_t`). A reader written from the document takes the
offset from the wrong place. `variant_format` shows it on the smallest variant.

`ProgrammingGuide.md:299` promises a `deserialise_error` for a malformed buffer. A
variant's index that names no alternative is only asserted (`variant.hpp:152`);
without assertions the visitor gets whatever is at the offset as the last
alternative (`variant_index`).

`visit()` is `noexcept` if the visitor is (`variant.hpp:129`), but finding the value
throws `buffer_bounds_error` for a bad offset, which ends the program where
`ProgrammingGuide.md:304` lets the caller expect an exception (`variant_visit`).

`constexpr_unique_ptr::operator=(nullptr_t)` deletes the object and keeps the
pointer (`utility.hpp:141`), so that the destructor deletes the object again, where
the tests of the class want one destruction (`test_utility.cpp:64`). The library
assigns `nullptr` only to a pointer that was moved from (`buffers.hpp:35`) and is not
affected (`unique_ptr_null`).

## 4. Theorems

All for arbitrary types of the library (their scalars have 1, 2, 4 or 8 bytes, as the
C++ types of `scalar.hpp` have on every target with 8-bit bytes), sources, limits, numbers
of values of a byte (256 in the code), numbers of buffers and addresses.

*`SerialiserProofs`.* The contract in `common.hpp:72-73` makes every caller
responsible for the bounds of the writes of the calls it makes, which is not
inductive by itself: that a nested call stays in bounds after the buffer moved
depends on how it got its view, and on what the callers around it do later.
`ViewInv` adds what is needed: `FramesOK` (the counter has not run past the source;
only calls on fixed-size types work on a captured span), `ViewsNest` (a call on the
buffer has no call on a wrapper or span around it, and below a call on a span there
are only spans), `FixedDataInBounds`, `NoDanglingView`. The key steps: a call that
extends is not on a span, so by `ViewsNest` no call around it is, and if the wrapper
is in use the extension goes through it, which refreshes the cached span for all.
Theorems: `ViewInvHolds`, and from it `TypeCorrect`, `WritesInBounds`,
`ViewsStayValid`.

On top of `ViewInv`: the sections of fixed data that the active
calls still have to write are disjoint and are exactly the bytes not written yet
(`UnwrittenBytesPartitioned`). Writing removes a prefix from one section, a nested
call takes a part of its caller's, an extension adds fresh bytes that go to one
call. When the last call has returned nothing is left (`MessagesComplete`), and
since calls write only in their own sections, no written byte changes
(`NothingOverwritten`).

The size of messages needs a third invariant. `MessageSizeInv` is `ViewInv`, `SizeInv`
and that a failure for size has a reason: while `serialise()` runs, the size of the
message is the bytes allocated plus what each active call will still allocate for the
parts that it has not come to, so that the end of the buffer, which is what an offset
becomes, never exceeds the size of the message. From it: the finished message has no
byte too many (`MessagesCompact`), it fails for its size only if it is too large
(`SizeErrorsAreJustified`), and, since a source that can be generated is no larger than
`max_serialised_size()`, the buffers of the benchmark never have to grow
(`GeneratorBoundHolds`), whatever `max_size` each array's generator has and whichever
values of an optional or a variant have a positive probability. The last one is an
induction on the depth of types. The library's induction theorem takes an operator as a
parameter; in its place stands `NumberInduction`, whose parameter is a set, and which is
proved by counting: if a number were missing, adding 1 would map the members below it
one to one into those other than 0, which are fewer. That a set of numbers has a least
member follows (`LeastNumber`).

*`TransferProofs`.* `MessagesReadAsWritten`: a complete message reads as the source it
was written from. A message is a graph of places linked by offsets, and what the reader
finds at a place depends on calls of `serialise()` that ended in another order than they
began, so that no statement about one call is inductive. The invariant says that there
is a set `R` of places, pairs of a source and the offset of its fixed data, which
contains the root at 0 and in which every place either holds its encoding (`Encoded`:
its own bytes are right and the places that it leads to are in `R`) or is owed by an
active call (`Owes`). A call that stores an offset adds the place that it points to,
which the call that it makes then owes; a contiguous call owes the places of the
elements it has not come to; a `dynamic_array` owes itself until `FinishArray`, when all
its elements are in `R`. What is encoded stays so, because no call writes what is
written: that is `SectionsPartitionUnwritten` again. When `serialise()` returns, nobody
owes anything (`DoneEncoded`), and a reader at a place of `R` stays in `R`: one lemma
for each accessor shows that the number it reads is the one stored (`NumberReads`, by
`StoredReads`: each byte is the lowest digit of what is above the bytes before it, down
to the last, which is all that is left of a number that fits), that the place it
computes is the one meant, also for a base record and in the modular arithmetic of
`std::size_t`, and that the bounds check passes.

`StoreImplemented` is the refinement of `MessageStore`. `DeserialisersDefined` shows
that the recursive function has the value that its definition says, by induction on
the depth of types. `PlaceDeserialises`, again by induction on the depth, shows that
`deserialise()` of a place of `R` is the source there, so that the value stored is
the root when `serialise()` returns; every step of `serialise()` is then a step of the
store or none (`StoreStep`), its failures for size by `SizeErrorsAreJustified`.

`TruncationIsNoticed`: a message that was cut is not read to the end. `R` does not
suffice, as it may contain places that nothing refers to. A second set `Q` of places
is `Linked`: each is a part of another place of `Q` (`PartOf`) or awaited by the
call of a `dynamic_array` that has not written its offset (`Awaited`), unless it is the
root; none is deeper than the root; and the fixed data of one of them ends where the
message ends. An extension always serves the fixed data of new parts, which is
why the last byte belongs to a place. When `serialise()` returned, nothing is awaited,
and by induction on the difference of depth to the root, a deserialiser that reads
the root without an error has read every place of `Q` (`AllIsRead`), the one at the
end as well, and each inside the buffer: it was not cut (`CutIsNoticed`).

*`ReaderProofs`.* `ReaderInv` is `TypeOK`, `CursorInBounds` and `OnlyOffsetsMislead`, and
is inductive. Every deserialiser is made by `MoveTo`, whose check gives
`CursorInBounds` whatever the offset is, wrapped around or not. What needs the
invariant is the converse, that the check can fail only for stored offsets: an
element's section lies in its parent's (`ElementOffset` grows up to `FixedSize`, a
base's fixed data is no longer than the derived record's), and the parent's is in
the buffer. It holds for every type, buffer and width of `std::size_t`. Given
`EnoughAddresses`, the sum that finds an element is less than `AddressSpace`
(`FourBytesAtMost`: no four bytes hold more than `LargestNumber`), so that the check is
made for the offset where the element has to be (`ElementFound`). Theorems:
`ReaderInvHolds`, `ReaderTypeCorrect`, `DeserialisersInBounds`, `FixedDataReadable`,
`ElementsInArrays`.

*`ScalarsProofs`.* For integers and floating point numbers of every width and bytes of
every even number of values. A number and its bytes determine each other
(`BytesIdentify`, `BytesHaveNumber`): dividing by `Power[k]` leaves a quotient whose last
digit is byte `k` and a remainder whose digits are the bytes before it (`NextByte`).
`ScalarInv` says of the loop that writes that after `i` bytes its local variable is the
quotient by `Power[i]` and the fixed data has the first `i` bytes; of the loop that
reads that its local variable is the remainder. The copies do the whole at once, on
big-endian machines reversed twice. Theorems: `ImagesAreLittleEndian`,
`ScalarsComeBack`, `AllBytesAreValues`.

*`BasicBufferProofs`.* `BufferInv`, the conjunction of the four invariants, is
inductive; they need each other: a write through a view is inside the storage by
`Extent`, affects one buffer only by `Ownership`, and a reallocation leaves other
owners' storage alone. Theorems: `BufferInvHolds`, `BufferTypeCorrect`,
`StorageHasOneOwner`, `UsedBytesInStorage`, `ViewsStayUsable`. The same facts give the
refinement, `BuffersHaveValueSemantics`: every operation maps to the operation of
`SerialiseBuffer` on byte sequences, and what it does to storage leaves the content of
all other buffers as it is.

*`RangeSourceProofs`.* `RangeInv` is `TypeOK`, `OneOwner` and `VisitorKnowsType`; the
destructor finds what it has to release because of the latter, and releases nothing
that another still has because of the former. Theorems: `RangeInvHolds`,
`RangesHaveOneOwner`, `VisitorsKnowTypes`, and the refinement of `ElementSource`,
`SourcesAreElementSources`.

*`UniquePtrProofs`.* Ownership is proved object by object (`StageInv`): an object is new
and nobody's, owned by exactly one pointer, or deleted once and nobody's, and every
operation takes each object from one stage to the next. The theorems `PtrInvHolds`,
`ObjectsDeletedOnce` and `ObjectsHaveOneOwner` assume `~NullsOwners`, the way the
library uses the class; without it they are false, as `unique_ptr_null` shows.

*`BenchBuffersProofs`.* `BatchInv` adds to the run's invariants what carries them from
one message to the next: `InBudget`, by which the messages that are complete take
at most `MaxMessage` bytes each, and `KeptBelow`, by which kept spans end where the
current message starts. A write lands in the current message and so in no kept
span; a message that begins when fewer than `Samples` are done has room for
`MaxMessage` bytes. Theorems, for every batch size and message bound:
`BatchInvHolds`, `BenchTypeCorrect`, `SpansDefined`, `SpansHoldMessages`,
`KeptMessagesUnchanged`, `ComputedCapacitySuffices`.

Assumptions used, all of which TLC evaluates in the runs:

* types and sources are well formed, which the C++ type system enforces:
  `TypesAssumption`, `SourceAssumption` (a scalar's value fits its width, a variant has
  no more alternatives than its index can count), `RootAssumption`, `BasesAssumption`
  and its equal in `ReadingAssumption` (`BasesHaveFirstFields`: a record starts with
  the fields of its base, `record.hpp:147-159`); `SourceFieldsAssumption`: a source is
  its type, its value and its parts;
* types are finite trees: `DepthAssumption`. A field, an element and a value have to be
  serialisable, hence complete, where the type that contains them is named
  (`record.hpp`, `dynamic_array.hpp`, `optional.hpp`), so that no type contains itself;
* the tables of sizes are what the code's sums say of each entry:
  `MessageSizeAssumption`, `GeneratorAssumption`;
* the limits fit the integers that hold them, being their `numeric_limits`:
  `LimitAssumption`;
* sizes are numbers, and `std::size_t` and a byte have some values: `SizesAssumption`,
  `SizeAssumption`, `KindsAssumption`, `CapacityAssumption`, `BatchAssumption`,
  `AddressAssumption`, `UseAssumption`, `BufferAssumption`, `WidthAssumption`,
  `WideAssumption` (of `ElementsInArrays` alone, as `EnoughAddresses`),
  `RadixAssumption` (a byte has at least two values; in `Scalars` an even number of them,
  so that numbers have a sign);
* the model values that stand for "none" are none of the others: `NullAssumption`,
  `NoContentAssumption`, `StorageAssumption`, `ContainerAssumption`, `StaleAssumption`,
  `ErrorAssumption`.

Every invariant, action property and refinement that a passing run checks is the
statement of a theorem. Only model-checked are:

* liveness, `Terminates`: the prover has no rules for fairness and `ENABLED`;
* that the tables of the instances are what recursion over types and sources
  computes. The operators of `Layout` and `MCSerialiser` are `RECURSIVE`, which the prover
  cannot expand; TLC evaluates their equality with the tables (`LayoutAssumption`).
  `Serialiser`, `Reader`, `Transfer` and what they extend have no such operator;
* the four violations of section 3, which are counterexamples.

## 5. Not modelled, and the plan

The writer and its buffer came first, since every message depends on them and
since their failures are silent; then the benchmark's buffers, the reader, sources
and ownership. What is left is the composition of `Serialiser` with `BasicBuffer` in
place of the abstract buffer: `Serialiser` asks of its buffer what `SerialiseBuffer`
promises and `BasicBuffer` is shown to keep, namely that content is kept by `extend()`
and that a failed call changes nothing.

Not modelled:

* constant evaluation of `serialise_source<dynamic_array>`: a union member takes the
  place of the inline buffer, owned as `UniquePtr` describes; the compiler rejects
  leaks and double deletion in constant expressions by itself;
* `random_state` and the values it draws: data, on whose distribution nothing in the
  benchmarks depends;
* lifetimes of what `elements()` returns, which references its deserialiser;
* wording of exceptions, timing and printing of the benchmark;
* `size_t` wrap-around when writing (`_used + count`) and the floating-point growth
  factor above 2^53 bytes: `object_size_error` ends a message long before, except
  for a single array of huge elements on a 32-bit target;
* tests and build files, which are read as evidence.
