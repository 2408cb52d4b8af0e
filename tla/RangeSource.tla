------------------------------ MODULE RangeSource ------------------------------
(***************************************************************************)
(* serialise_source<dynamic_array<T>> (dynamic_array.hpp), with the        *)
(* small_any of utility.hpp inside it: who owns the elements of a          *)
(* type-erased range while sources are constructed from the caller's       *)
(* containers, moved, serialised and destroyed, and operations throw.      *)
(*                                                                         *)
(* A source is a small_any: a pointer to a function that knows the type of *)
(* what is in its inline buffer (visitor), and the buffer (data).  The     *)
(* buffer holds a range, either a view of a container of the caller or one *)
(* that owns its elements, or the owner of a heap block that holds the     *)
(* range.  The elements of a container or of an owning range are in a      *)
(* store, which must be released exactly once.  A braced list is moved to  *)
(* a std::array, whose elements the store then stands for.                 *)
(***************************************************************************)
EXTENDS Integers

CONSTANTS
    Source, Container, Store, Block,
    Large,             \* the containers whose owning_view exceeds the inline buffer
    InlineSize,        \* the longest braced list that fits the inline buffer
    MaxSize            \* bound on the number of elements

ASSUME ContainerAssumption == Large \subseteq Container /\ Container \cap Source = {}
ASSUME SizeAssumption == InlineSize \in Nat /\ MaxSize \in Nat

VARIABLES
    visitor,           \* _visitor_func: "none", "range" or "owner"; "absent" if
                       \* there is no such source
    data,              \* _data: what the inline buffer was last made to hold
    heap,              \* the range in each heap block
    container,         \* the store of each of the caller's containers
    elements,          \* how many elements are in each store, or Free
    out                \* ghost: what the last call gave: a number of elements
                       \* serialised, or a code below

rangeVars == <<visitor, data, heap, container, elements, out>>

Free == -1             \* no such store
NoStore == "NoStore"   \* what a container has that was moved from
Null == "Null"

\* Results of calls.
Returned == -1
Threw == -2

Nothing == [kind |-> "nothing", at |-> Null]
View(c) == [kind |-> "view", at |-> c]
Owning(x) == [kind |-> "owning", at |-> x]
Owner(b) == [kind |-> "owner", at |-> b]

AnyRange == {Nothing} \cup {View(c) : c \in Container} \cup {Owning(x) : x \in Store \cup {NoStore}}

\* What a heap block may hold.
StoredRange == {View(c) : c \in Container} \cup {Owning(x) : x \in Store}

\* Stores and blocks are not what stands for the lack of one.
ASSUME StorageAssumption == NoStore \notin Store /\ Null \notin Block

Size(x) == IF x = NoStore THEN 0 ELSE elements[x]

\* std::ranges::size of a range.
RangeSize(r) == IF r.kind = "view" THEN Size(container[r.at]) ELSE Size(r.at)

\* What a moved-from object is: the standard containers and
\* constexpr_unique_ptr leave nothing behind; a view is copied.
MovedFrom(r) ==
    IF r.kind = "owning" THEN Owning(NoStore) ELSE IF r.kind = "owner" THEN Owner(Null) ELSE r

\* The range that a visitor of source s is given.
RangeOf(s) ==
    IF visitor[s] = "range" THEN data[s]
    ELSE IF visitor[s] = "owner" /\ data[s].at # Null THEN heap[data[s].at]
    ELSE Nothing

\* The stores and the blocks that are destroyed with what source s holds.
StoresOf(s) == IF RangeOf(s).kind = "owning" THEN {RangeOf(s).at} \ {NoStore} ELSE {}
BlocksOf(s) == IF visitor[s] = "owner" THEN {data[s].at} \ {Null} ELSE {}

HoldersOf(x) == {c \in Container : container[c] = x} \cup {s \in Source : x \in StoresOf(s)}
OwnersOf(b) == {s \in Source : b \in BlocksOf(s)}

Release(stores, blocks) ==
    /\ elements' = [x \in Store |-> IF x \in stores THEN Free ELSE elements[x]]
    /\ heap' = [b \in Block |-> IF b \in blocks THEN Nothing ELSE heap[b]]

-----------------------------------------------------------------------------

Init ==
    /\ visitor = [s \in Source |-> "absent"]
    /\ data = [s \in Source |-> Nothing]
    /\ heap = [b \in Block |-> Nothing]
    /\ container = [c \in Container |-> NoStore]
    /\ elements = [x \in Store |-> Free]
    /\ out = Returned

\* The caller gives container c other elements; its storage stays, if it has any.
Assign(c, n) ==
    /\ \E x \in Store :
          /\ IF container[c] = NoStore THEN elements[x] = Free ELSE x = container[c]
          /\ container' = [container EXCEPT ![c] = x]
          /\ elements' = [elements EXCEPT ![x] = n]
    /\ out' = Returned
    /\ UNCHANGED <<visitor, data, heap>>

\* serialise_source()
ConstructEmpty(s) ==
    /\ visitor[s] = "absent"
    /\ visitor' = [visitor EXCEPT ![s] = "none"]
    /\ data' = [data EXCEPT ![s] = Nothing]
    /\ out' = Returned
    /\ UNCHANGED <<heap, container, elements>>

\* serialise_source(range) of an lvalue: views::all makes a ref_view, which is
\* small, and is stored even if the range is empty.
ConstructView(s, c) ==
    /\ visitor[s] = "absent"
    /\ visitor' = [visitor EXCEPT ![s] = "range"]
    /\ data' = [data EXCEPT ![s] = View(c)]
    /\ out' = Returned
    /\ UNCHANGED <<heap, container, elements>>

\* The range r is put into source s: into its inline buffer, or into a new heap
\* block.
Put(s, r, small) ==
    \/ /\ small
       /\ visitor' = [visitor EXCEPT ![s] = "range"]
       /\ data' = [data EXCEPT ![s] = r]
       /\ UNCHANGED heap
    \/ \E b \in Block :
          /\ ~small
          /\ heap[b] = Nothing
          /\ visitor' = [visitor EXCEPT ![s] = "owner"]
          /\ data' = [data EXCEPT ![s] = Owner(b)]
          /\ heap' = [heap EXCEPT ![b] = r]

\* serialise_source(range) of an rvalue: moved into an owning_view; an empty
\* one is not stored, and so not moved.
ConstructFrom(s, c) ==
    /\ visitor[s] = "absent"
    /\ IF Size(container[c]) = 0
       THEN /\ visitor' = [visitor EXCEPT ![s] = "none"]
            /\ data' = [data EXCEPT ![s] = Nothing]
            /\ UNCHANGED <<heap, container>>
       ELSE /\ Put(s, Owning(container[c]), c \notin Large)
            /\ container' = [container EXCEPT ![c] = NoStore]
    /\ out' = Returned
    /\ UNCHANGED elements

\* Faulty: moves the elements before it allocates.
ConstructFromMovesFirst(s, c) ==
    /\ visitor[s] = "absent"
    /\ Size(container[c]) > 0
    /\ c \in Large
    /\ container' = [container EXCEPT ![c] = NoStore]
    /\ Release({container[c]}, {})
    /\ out' = Threw
    /\ UNCHANGED <<visitor, data>>

\* There is no memory for the heap block, and the range has not been moved yet,
\* or its move constructor throws: the empty source is gone.
ConstructFromThrows(s, c) ==
    /\ visitor[s] = "absent"
    /\ Size(container[c]) > 0
    /\ out' = Threw
    /\ UNCHANGED <<visitor, data, heap, container, elements>>

\* serialise_source(range) of an rvalue that is itself a view of the elements in
\* c, but no borrowed range, as std::views::transform(c, f) is: if it is empty
\* now, it is not stored, whatever c has later.
ConstructAdaptor(s, c, small) ==
    /\ visitor[s] = "absent"
    /\ IF Size(container[c]) = 0
       THEN /\ visitor' = [visitor EXCEPT ![s] = "none"]
            /\ data' = [data EXCEPT ![s] = Nothing]
            /\ UNCHANGED heap
       ELSE Put(s, View(c), small)
    /\ out' = Returned
    /\ UNCHANGED <<container, elements>>

\* serialise_source({...}) of n elements.
ConstructList(s, n) ==
    /\ visitor[s] = "absent"
    /\ IF n = 0
       THEN /\ visitor' = [visitor EXCEPT ![s] = "none"]
            /\ data' = [data EXCEPT ![s] = Nothing]
            /\ UNCHANGED <<heap, elements>>
       ELSE \E x \in Store :
               /\ elements[x] = Free
               /\ elements' = [elements EXCEPT ![x] = n]
               /\ Put(s, Owning(x), n <= InlineSize)
    /\ out' = Returned
    /\ UNCHANGED container

\* There is no memory for the heap block, or an element cannot be moved.
ConstructListThrows(s, n) ==
    /\ visitor[s] = "absent"
    /\ n > 0
    /\ out' = Threw
    /\ UNCHANGED <<visitor, data, heap, container, elements>>

-----------------------------------------------------------------------------

\* Faulty: the moved-from source keeps its visitor.
MoveConstructShares(s, d) ==
    /\ visitor[s] # "absent"
    /\ visitor[d] = "absent"
    /\ visitor' = [visitor EXCEPT ![d] = visitor[s]]
    /\ data' = [data EXCEPT ![d] = IF visitor[s] = "none" THEN Nothing ELSE data[s],
                            ![s] = MovedFrom(data[s])]
    /\ out' = Returned
    /\ UNCHANGED <<heap, container, elements>>

\* serialise_source d(move(s)): s forgets what it holds without destroying it,
\* after everything that may throw.
MoveConstruct(s, d) ==
    /\ visitor[s] # "absent"
    /\ visitor[d] = "absent"
    /\ visitor' = [visitor EXCEPT ![d] = visitor[s], ![s] = "none"]
    /\ data' = [data EXCEPT ![d] = IF visitor[s] = "none" THEN Nothing ELSE data[s],
                            ![s] = MovedFrom(data[s])]
    /\ out' = Returned
    /\ UNCHANGED <<heap, container, elements>>

\* The move constructor of the range in s throws.
MoveConstructThrows(s, d) ==
    /\ visitor[s] = "range"
    /\ visitor[d] = "absent"
    /\ out' = Threw
    /\ UNCHANGED <<visitor, data, heap, container, elements>>

\* Faulty: destroys the owner, but not the block.
DestroyOwnerOnly(s) ==
    /\ visitor[s] # "absent"
    /\ visitor' = [visitor EXCEPT ![s] = "absent"]
    /\ data' = [data EXCEPT ![s] = Nothing]
    /\ Release(IF visitor[s] = "range" THEN StoresOf(s) ELSE {}, {})
    /\ out' = Returned
    /\ UNCHANGED container

\* ~serialise_source()
Destroy(s) ==
    /\ visitor[s] # "absent"
    /\ visitor' = [visitor EXCEPT ![s] = "absent"]
    /\ data' = [data EXCEPT ![s] = Nothing]
    /\ Release(StoresOf(s), BlocksOf(s))
    /\ out' = Returned
    /\ UNCHANGED container

\* small_any::emplace of the (small) container c moved into an owning_view,
\* whatever it holds: destroys that, then constructs, which may throw.
Emplace(s, c) ==
    /\ visitor[s] # "absent"
    /\ c \notin Large
    /\ Release(StoresOf(s), BlocksOf(s))
    /\ \/ /\ visitor' = [visitor EXCEPT ![s] = "range"]
          /\ data' = [data EXCEPT ![s] = Owning(container[c])]
          /\ container' = [container EXCEPT ![c] = NoStore]
          /\ out' = Returned
       \/ /\ visitor' = [visitor EXCEPT ![s] = "none"]
          /\ data' = [data EXCEPT ![s] = Nothing]
          /\ out' = Threw
          /\ UNCHANGED container

\* _serialise_elements(): the elements of the range as it is now; none if there
\* is no range.
Serialise(s) ==
    /\ visitor[s] # "absent"
    /\ out' = IF RangeOf(s) = Nothing THEN 0 ELSE RangeSize(RangeOf(s))
    /\ UNCHANGED <<visitor, data, heap, container, elements>>

Next ==
    \/ \E c \in Container, n \in 0 .. MaxSize : Assign(c, n)
    \/ \E s \in Source :
          \/ ConstructEmpty(s) \/ Destroy(s) \/ Serialise(s)
          \/ \E n \in 0 .. MaxSize : ConstructList(s, n) \/ ConstructListThrows(s, n)
          \/ \E c \in Container :
                \/ ConstructView(s, c) \/ ConstructFrom(s, c) \/ ConstructFromThrows(s, c)
                \/ Emplace(s, c)
                \/ \E small \in BOOLEAN : ConstructAdaptor(s, c, small)
          \/ \E d \in Source \ {s} : MoveConstruct(s, d) \/ MoveConstructThrows(s, d)

Spec == Init /\ [][Next]_rangeVars

-----------------------------------------------------------------------------

\* Type correctness of the machine.
TypeOK ==
    /\ visitor \in [Source -> {"absent", "none", "range", "owner"}]
    /\ data \in [Source -> AnyRange \cup {Owner(b) : b \in Block \cup {Null}}]
    /\ heap \in [Block -> {Nothing} \cup StoredRange]
    /\ container \in [Container -> Store \cup {NoStore}]
    /\ elements \in [Store -> Nat \cup {Free}]
    /\ out \in Nat \cup {Returned, Threw}

\* Every store that exists has exactly one holder that will release it, a
\* container or a source, and every heap block one source; nothing that was
\* released is still held.
OneOwner ==
    /\ \A x \in Store :
          IF elements[x] = Free THEN HoldersOf(x) = {}
          ELSE \E h \in Container \cup Source : HoldersOf(x) = {h}
    /\ \A b \in Block :
          IF heap[b] = Nothing THEN OwnersOf(b) = {} ELSE \E s \in Source : OwnersOf(b) = {s}

\* What a visitor function finds is an object of its type, and an owner that
\* owns something (dynamic_array.hpp:194, assert(wrapper)).
VisitorKnowsType ==
    \A s \in Source :
        /\ visitor[s] = "range" => data[s].kind \in {"view", "owning"}
        /\ visitor[s] = "owner" => data[s].kind = "owner" /\ data[s].at \in Block

-----------------------------------------------------------------------------

\* What each source is to its user.
UserSource(s) ==
    LET r == RangeOf(s) IN
    [kind |-> IF visitor[s] = "absent" THEN "absent" ELSE IF r.kind = "view" THEN "view" ELSE "owns",
     at |-> IF r.kind = "view" THEN r.at ELSE "Nowhere",
     size |-> IF r.kind = "owning" THEN RangeSize(r) ELSE 0]

UserSources == [s \in Source |-> UserSource(s)]
Contents == [c \in Container |-> Size(container[c])]

Elements == INSTANCE ElementSource WITH source <- UserSources, content <- Contents

\* The sources are, to their user, elements taken over or views; type erasure,
\* the inline buffer and the heap do not show, nor does a constructor that
\* throws.
ImplementsElementSource == Elements!Spec
=============================================================================
