--------------------------- MODULE BasicBufferProofs ---------------------------
(***************************************************************************)
(* Theorems about basic_buffer, for any number of buffers, addresses and   *)
(* sizes: no sequence of operations leaks or shares storage, the used      *)
(* bytes lie within it, and views stay usable as documented; and to its    *)
(* callers each buffer is a sequence of bytes, as SerialiseBuffer has it.  *)
(***************************************************************************)
EXTENDS BasicBuffer, SequenceTheorems, TLAPS

\* The parts of the invariant support each other: a write through a view is in
\* the storage because of Extent, storage has one owner because of Ownership.
BufferInv == TypeOK /\ Ownership /\ Extent /\ ViewUsable

-----------------------------------------------------------------------------

LEMMA FillSeq ==
    ASSUME NEW n \in Nat, NEW c \in Cell
    PROVE  Fill(n, c) \in Seq(Cell) /\ Len(Fill(n, c)) = n
BY DEF Fill

LEMMA Constants ==
    /\ Null \notin Address /\ Null \notin Buffer
    /\ Zero \in Cell /\ Garbage \in Cell
    /\ Dead \in Object /\ MovedFrom \in Object /\ NoView \in View
BY NullAssumption DEF Cell, Dead, MovedFrom, Object, NoView, View

\* The members of a buffer.
LEMMA Members ==
    ASSUME BufferInv, NEW b \in Buffer
    PROVE  /\ obj[b] \in Object
           /\ obj[b].live \in BOOLEAN
           /\ obj[b].data \in Address \cup {Null}
           /\ obj[b].capacity \in Nat /\ obj[b].used \in Nat
           /\ obj[b].used <= obj[b].capacity
           /\ obj[b].data # Null => /\ obj[b].live
                                    /\ obj[b].data \in allocated
                                    /\ cells[obj[b].data] \in Seq(Cell)
                                    /\ Len(cells[obj[b].data]) = obj[b].capacity
BY DEF BufferInv, TypeOK, Ownership, Extent, Object, Dead

-----------------------------------------------------------------------------
\* Operations that change neither the storage nor its owners.

LEMMA InPlace ==
    ASSUME BufferInv, NEW b \in Buffer, obj[b].live, NEW n \in Nat, n <= obj[b].capacity,
           obj' = [obj EXCEPT ![b].used = n], threw' = FALSE,
           UNCHANGED <<allocated, cells, view>>
    PROVE  BufferInv'
<1> DEFINE o == [obj[b] EXCEPT !.used = n]
<1>1. obj[b] \in Object /\ obj \in [Buffer -> Object]
  BY Members DEF BufferInv, TypeOK
<1>2. /\ o \in Object /\ o.live = obj[b].live /\ o.data = obj[b].data
      /\ o.capacity = obj[b].capacity /\ o.used = n
  BY <1>1 DEF Object
<1>3. obj' = [obj EXCEPT ![b] = o]
  OBVIOUS
<1> HIDE DEF o
<1>4. \A c \in Buffer : /\ obj'[c] \in Object
                        /\ obj'[c].live = obj[c].live
                        /\ obj'[c].data = obj[c].data
                        /\ obj'[c].capacity = obj[c].capacity
                        /\ c # b => obj'[c] = obj[c]
                        /\ c = b => obj'[c] = o
  BY <1>1, <1>2, <1>3
<1>5. TypeOK'
  BY <1>1, <1>2, <1>3 DEF BufferInv, TypeOK
<1>6. Ownership'
  BY <1>4 DEF BufferInv, Ownership, Owns
<1>7. Extent'
  BY <1>2, <1>4 DEF BufferInv, Extent
<1>8. ViewUsable'
  BY <1>4 DEF BufferInv, ViewUsable
<1> QED
  BY <1>5, <1>6, <1>7, <1>8 DEF BufferInv

LEMMA Unchanged ==
    ASSUME BufferInv, UNCHANGED <<obj, allocated, cells, view>>, threw' \in BOOLEAN
    PROVE  BufferInv'
BY DEF BufferInv, TypeOK, Ownership, Owns, Extent, ViewUsable

LEMMA TakeViewStep ==
    ASSUME BufferInv, NEW b \in Buffer, TakeView(b)
    PROVE  BufferInv'
<1>1. view' \in View /\ view'.ok = TRUE /\ view'.owner = b /\ view'.data = obj[b].data
      /\ view'.len = obj[b].used
  BY Members DEF TakeView, View
<1>2. UNCHANGED <<obj, allocated, cells>> /\ threw' = FALSE /\ obj[b].live
  BY DEF TakeView
<1>3. TypeOK' /\ Ownership' /\ Extent'
  BY <1>1, <1>2 DEF BufferInv, TypeOK, Ownership, Owns, Extent
<1>4. ViewUsable'
  BY <1>1, <1>2, Members DEF ViewUsable
<1> QED
  BY <1>3, <1>4 DEF BufferInv

LEMMA WriteThroughViewStep ==
    ASSUME BufferInv, NEW i \in 1 .. view.len, NEW v \in Byte, WriteThroughView(i, v)
    PROVE  BufferInv'
<1> DEFINE a == view.data
           s == [cells[a] EXCEPT ![i] = v]
<1>1. view.ok /\ cells' = [cells EXCEPT ![a] = s] /\ threw' = FALSE
      /\ UNCHANGED <<obj, allocated, view>>
  BY DEF WriteThroughView
<1>2. view \in View /\ view.len \in Nat /\ cells \in [Address -> Seq(Cell)]
  BY DEF BufferInv, TypeOK, View
<1>3. /\ view.owner \in Buffer /\ obj[view.owner].data = a
      /\ view.len <= obj[view.owner].capacity
  BY <1>1 DEF BufferInv, ViewUsable
<1>4. a # Null /\ a \in Address
  <2>1. obj[view.owner].capacity # 0
    BY <1>2, <1>3, Members
  <2> QED
    BY <1>3, <2>1, Members DEF BufferInv, Extent
<1>5. cells[a] \in Seq(Cell)
  BY <1>2, <1>4
<1>6. s \in Seq(Cell) /\ Len(s) = Len(cells[a])
  <2>1. v \in Cell /\ DOMAIN cells[a] = 1 .. Len(cells[a]) /\ Len(cells[a]) \in Nat
    BY <1>5 DEF Cell
  <2>2. \A k \in 1 .. Len(cells[a]) : s[k] \in Cell
    BY <1>5, <2>1, ElementOfSeq
  <2> HIDE DEF a
  <2>3. s \in [1 .. Len(cells[a]) -> Cell]
    BY <2>1, <2>2
  <2> HIDE DEF s
  <2> QED
    BY <2>1, <2>3
<1> HIDE DEF s
<1>7. /\ \A x \in Address : cells'[x] \in Seq(Cell) /\ Len(cells'[x]) = Len(cells[x])
      /\ cells' \in [Address -> Seq(Cell)]
  BY <1>1, <1>2, <1>6
<1>8. TypeOK' /\ Ownership' /\ ViewUsable'
  BY <1>1, <1>7 DEF BufferInv, TypeOK, Ownership, Owns, ViewUsable
<1>9. Extent'
  BY <1>1, <1>7, Members DEF BufferInv, Extent
<1> QED
  BY <1>8, <1>9 DEF BufferInv

-----------------------------------------------------------------------------
\* Operations that replace or release storage, or hand it on.

\* The free store and the cells after a replacement of `old` by `a`.
LEMMA ReplaceStep ==
    ASSUME BufferInv, NEW old \in Address \cup {Null}, NEW a \in Address,
           NEW content \in Seq(Cell), Replace(old, a, content)
    PROVE  /\ a \notin allocated
           /\ allocated' = (allocated \ {old}) \cup {a} /\ allocated' \subseteq Address
           /\ cells' \in [Address -> Seq(Cell)]
           /\ cells'[a] = content
           /\ \A x \in Address : x # a /\ x # old => cells'[x] = cells[x]
<1>1. <<>> \in Seq(Cell)
  OBVIOUS
<1> QED
  BY <1>1 DEF Replace, BufferInv, TypeOK

\* A buffer gets new storage a of n bytes, of which u are used, for what it had.
LEMMA Reallocate ==
    ASSUME BufferInv, NEW b \in Buffer, NEW a \in Address, NEW n \in Nat, NEW u \in Nat,
           u <= n, NEW content \in Seq(Cell), Len(content) = n,
           Replace(obj[b].data, a, content),
           NEW o \in Object, o.live = TRUE, o.data = a, o.capacity = n, o.used = u,
           obj' = [obj EXCEPT ![b] = o],
           view' = ViewsInvalidated(b) \/ (view' = view /\ ~obj[b].live), threw' = FALSE
    PROVE  BufferInv'
<1>0. obj[b].data \in Address \cup {Null}
  BY Members
<1>1. /\ a \notin allocated
      /\ allocated' = (allocated \ {obj[b].data}) \cup {a} /\ allocated' \subseteq Address
      /\ cells' \in [Address -> Seq(Cell)]
      /\ cells'[a] = content
      /\ \A x \in Address : x # a /\ x # obj[b].data => cells'[x] = cells[x]
  BY <1>0, ReplaceStep
<1>2. /\ obj \in [Buffer -> Object] /\ obj' \in [Buffer -> Object]
      /\ obj'[b] = o /\ \A c \in Buffer : c # b => obj'[c] = obj[c]
  BY DEF BufferInv, TypeOK
<1>3. view' \in View
  BY Constants DEF ViewsInvalidated, BufferInv, TypeOK
<1>4. TypeOK'
  BY <1>1, <1>2, <1>3 DEF TypeOK
<1>5. \A c \in Buffer : c # b /\ obj[c].data # Null =>
          /\ obj[c].data \in allocated /\ obj[c].data # a /\ obj[c].data # obj[b].data
          /\ obj[c].data \in Address
  BY <1>1, Members DEF BufferInv, Ownership
<1>6. Ownership'
  <2>1. \A c \in Buffer : ~obj'[c].live => obj'[c] = Dead
    BY <1>2 DEF BufferInv, Ownership
  <2>2. \A c \in Buffer : obj'[c].data # Null => obj'[c].data \in allocated'
    BY <1>1, <1>2, <1>5
  <2>3. ASSUME NEW x \in allocated'
        PROVE  \E c \in Buffer : Owns(c, x)'
    <3>1. CASE x = a
      BY <1>2, <3>1 DEF Owns
    <3>2. CASE x # a
      <4>1. x \in allocated /\ x # obj[b].data
        BY <1>1, <3>2
      <4>2. PICK c \in Buffer : Owns(c, x)
        BY <4>1 DEF BufferInv, Ownership
      <4>3. c # b
        BY <4>1, <4>2 DEF Owns
      <4> QED
        BY <1>2, <4>2, <4>3 DEF Owns
    <3> QED
      BY <3>1, <3>2
  <2>4. \A c, d \in Buffer : obj'[c].data = obj'[d].data /\ obj'[c].data # Null => c = d
    BY <1>2, <1>5 DEF BufferInv, Ownership
  <2> QED
    BY <2>1, <2>2, <2>3, <2>4 DEF Ownership, Owns
<1>7. Extent'
  <2> SUFFICES ASSUME NEW c \in Buffer
               PROVE  /\ obj'[c].used <= obj'[c].capacity
                      /\ obj'[c].data = Null => obj'[c].capacity = 0
                      /\ obj'[c].data # Null => Len(cells'[obj'[c].data]) = obj'[c].capacity
    BY DEF Extent
  <2>1. CASE c = b
    BY <1>1, <1>2, <2>1, Constants
  <2>2. CASE c # b
    BY <1>1, <1>2, <1>5, <2>2 DEF BufferInv, Extent
  <2> QED
    BY <2>1, <2>2
<1>8. ViewUsable'
  <2> SUFFICES ASSUME view'.ok
               PROVE  /\ view'.owner \in Buffer
                      /\ obj'[view'.owner].live
                      /\ obj'[view'.owner].data = view'.data
                      /\ view'.len <= obj'[view'.owner].capacity
    BY DEF ViewUsable
  <2>1. view' = view /\ view.owner # b
    <3>1. CASE view' = ViewsInvalidated(b)
      BY <3>1 DEF ViewsInvalidated, NoView
    <3>2. CASE view' = view /\ ~obj[b].live
      BY <3>2 DEF BufferInv, ViewUsable
    <3> QED
      BY <3>1, <3>2
  <2> QED
    BY <1>2, <2>1 DEF BufferInv, ViewUsable
<1> QED
  BY <1>4, <1>6, <1>7, <1>8 DEF BufferInv

LEMMA ConstructStep ==
    ASSUME BufferInv, NEW b \in Buffer, NEW c \in Capacities, NEW preload \in BOOLEAN,
           NEW a \in Address, Construct(b, c, preload, a)
    PROVE  BufferInv'
<1> DEFINE o == [live |-> TRUE, data |-> a, capacity |-> c, used |-> 0]
           content == Fill(c, IF preload THEN Zero ELSE Garbage)
<1>1. c \in Nat
  BY SizesAssumption
<1>2. content \in Seq(Cell) /\ Len(content) = c
  BY <1>1, Constants, FillSeq
<1>3. o \in Object /\ o.live = TRUE /\ o.data = a /\ o.capacity = c /\ o.used = 0
  BY <1>1 DEF Object
<1>4. ~obj[b].live /\ obj[b].data = Null
  BY DEF Construct, BufferInv, Ownership, Dead
<1>5. /\ Replace(Null, a, content) /\ obj' = [obj EXCEPT ![b] = o]
      /\ threw' = FALSE /\ view' = view
  BY DEF Construct
<1> HIDE DEF o, content
<1>6. Replace(obj[b].data, a, content)
  BY <1>4, <1>5
<1> QED
  <2> DEFINE used == 0
  <2>1. used \in Nat /\ used <= c /\ o.used = used
    BY <1>1, <1>3
  <2> HIDE DEF used
  <2> QED
    BY <1>1, <1>2, <1>3, <1>4, <1>5, <1>6, <2>1, Reallocate

LEMMA InitialiseReallocatesStep ==
    ASSUME BufferInv, NEW b \in Buffer, NEW size \in Requests, NEW a \in Address,
           InitialiseReallocates(b, size, a)
    PROVE  BufferInv'
<1> DEFINE o == [obj[b] EXCEPT !.data = a, !.capacity = size, !.used = size]
           content == Fill(size, Garbage)
<1>1. size \in Nat
  BY SizesAssumption
<1>2. content \in Seq(Cell) /\ Len(content) = size
  BY <1>1, Constants, FillSeq
<1>3. /\ Replace(obj[b].data, a, content) /\ obj' = [obj EXCEPT ![b] = o]
      /\ threw' = FALSE /\ view' = ViewsInvalidated(b) /\ obj[b].live
  BY DEF InitialiseReallocates
<1>4. obj[b] \in Object
  BY Members
<1>5. o \in Object /\ o.live = TRUE /\ o.data = a /\ o.capacity = size /\ o.used = size
  BY <1>1, <1>3, <1>4 DEF Object
<1> HIDE DEF o, content
<1> QED
  <2>1. size <= size
    BY <1>1
  <2> QED
    BY <1>1, <1>2, <1>3, <1>5, <2>1, Reallocate

LEMMA ExtendReallocatesStep ==
    ASSUME BufferInv, NEW b \in Buffer, NEW count \in Requests, NEW a \in Address,
           ExtendReallocates(b, count, a)
    PROVE  BufferInv'
<1> DEFINE newUsed == obj[b].used + count
           newCapacity == GrownCapacity(newUsed)
           copied == [i \in 1 .. newCapacity |->
                         IF i <= obj[b].used THEN cells[obj[b].data][i] ELSE Garbage]
           o == [obj[b] EXCEPT !.data = a, !.capacity = newCapacity, !.used = newUsed]
<1>1. /\ count \in Nat /\ obj[b] \in Object
      /\ obj[b].used \in Nat /\ obj[b].capacity \in Nat /\ obj[b].used <= obj[b].capacity
  BY SizesAssumption, Members
<1>2. newUsed \in Nat /\ newCapacity \in Nat /\ newUsed <= newCapacity
  BY <1>1 DEF GrownCapacity
<1>3. /\ Replace(obj[b].data, a, copied) /\ obj' = [obj EXCEPT ![b] = o]
      /\ threw' = FALSE /\ view' = ViewsInvalidated(b) /\ obj[b].live
  BY DEF ExtendReallocates
<1>4. \A i \in 1 .. obj[b].used : cells[obj[b].data][i] \in Cell
  <2> SUFFICES ASSUME NEW i \in 1 .. obj[b].used
               PROVE  cells[obj[b].data][i] \in Cell
    OBVIOUS
  <2>1. obj[b].capacity # 0
    BY <1>1
  <2>2. obj[b].data # Null
    BY <2>1 DEF BufferInv, Extent
  <2>3. cells[obj[b].data] \in Seq(Cell) /\ Len(cells[obj[b].data]) = obj[b].capacity
    BY <2>2, Members
  <2>4. i \in 1 .. Len(cells[obj[b].data])
    BY <1>1, <2>3
  <2> QED
    BY <2>3, <2>4, ElementOfSeq
<1>5. o \in Object /\ o.live = TRUE /\ o.data = a /\ o.capacity = newCapacity
      /\ o.used = newUsed
  <2> HIDE DEF newUsed, newCapacity
  <2> QED
    BY <1>1, <1>2, <1>3 DEF Object
<1>6. copied \in Seq(Cell) /\ Len(copied) = newCapacity
  <2> HIDE DEF newCapacity
  <2>1. \A i \in 1 .. newCapacity :
           (IF i <= obj[b].used THEN cells[obj[b].data][i] ELSE Garbage) \in Cell
    BY <1>1, <1>2, <1>4, Constants
  <2>2. copied \in [1 .. newCapacity -> Cell]
    BY <2>1
  <2> HIDE DEF copied
  <2> QED
    BY <1>2, <2>2
<1> HIDE DEF newUsed, newCapacity, o, copied
<1> QED
  BY <1>2, <1>3, <1>5, <1>6, Reallocate

\* The free store and the cells after a release; releasing nullptr does nothing.
LEMMA ReleaseStep ==
    ASSUME BufferInv, NEW old \in Address \cup {Null}, Release(old)
    PROVE  /\ allocated' = allocated \ {old} /\ allocated' \subseteq Address
           /\ cells' \in [Address -> Seq(Cell)]
           /\ \A x \in Address : x # old => cells'[x] = cells[x]
<1>1. <<>> \in Seq(Cell)
  OBVIOUS
<1> QED
  BY <1>1 DEF Release, BufferInv, TypeOK

LEMMA ReleaseNull ==
    ASSUME BufferInv, UNCHANGED <<allocated, cells>>
    PROVE  Release(Null)
BY Constants DEF Release, BufferInv, TypeOK

\* b hands back what it had and takes over what other had.
LEMMA TakeOver ==
    ASSUME BufferInv, NEW b \in Buffer, NEW other \in Buffer, b # other, obj[other].live,
           Release(obj[b].data),
           obj' = [obj EXCEPT ![other] = MovedFrom, ![b] = obj[other]],
           threw' = FALSE,
           view' = (IF view.owner = other THEN [view EXCEPT !.owner = b]
                    ELSE ViewsInvalidated(b))
           \/ (~obj[b].live /\ view' = (IF view.owner = other THEN [view EXCEPT !.owner = b]
                                       ELSE view))
    PROVE  BufferInv'
<1>1. /\ allocated' = allocated \ {obj[b].data} /\ allocated' \subseteq Address
      /\ cells' \in [Address -> Seq(Cell)]
      /\ \A x \in Address : x # obj[b].data => cells'[x] = cells[x]
  <2>1. obj[b].data \in Address \cup {Null}
    BY Members
  <2> QED
    BY <2>1, ReleaseStep
<1>2. /\ obj[other] \in Object /\ obj' \in [Buffer -> Object]
      /\ obj'[b] = obj[other] /\ obj'[other] = MovedFrom
      /\ \A c \in Buffer : c # b /\ c # other => obj'[c] = obj[c]
  BY Constants DEF BufferInv, TypeOK
<1>3. view \in View
  BY DEF BufferInv, TypeOK
<1>4. /\ view' \in View
      /\ view'.ok => /\ view.ok /\ view'.data = view.data /\ view'.len = view.len
                     /\ view.owner = other => view'.owner = b
                     /\ view.owner # other => view'.owner = view.owner /\ view.owner # b
  <2>1. CASE view.owner = other
    BY <1>3, <2>1 DEF View
  <2>2. CASE view.owner # other /\ view' = ViewsInvalidated(b)
    BY <1>3, <2>2, Constants DEF ViewsInvalidated, NoView
  <2>3. CASE view.owner # other /\ view' = view /\ ~obj[b].live
    BY <1>3, <2>3 DEF BufferInv, ViewUsable
  <2> QED
    BY <2>1, <2>2, <2>3
<1>5. TypeOK'
  BY <1>1, <1>2, <1>4 DEF TypeOK
<1>6. MovedFrom.live = TRUE /\ MovedFrom.data = Null /\ MovedFrom.capacity = 0
      /\ MovedFrom.used = 0
  BY DEF MovedFrom
<1>7. \A c \in Buffer : c # b /\ obj[c].data # Null =>
          /\ obj[c].data # obj[b].data /\ obj[c].data \in allocated'
          /\ obj[c].data \in Address /\ cells'[obj[c].data] = cells[obj[c].data]
  BY <1>1, Members DEF BufferInv, Ownership
<1>8. Ownership'
  <2>1. \A c \in Buffer : ~obj'[c].live => obj'[c] = Dead
    BY <1>2, <1>6 DEF BufferInv, Ownership
  <2>2. \A c \in Buffer : obj'[c].data # Null => obj'[c].data \in allocated'
    BY <1>2, <1>6, <1>7
  <2>3. ASSUME NEW x \in allocated'
        PROVE  \E c \in Buffer : Owns(c, x)'
    <3>1. x \in allocated /\ x # obj[b].data /\ x # Null
      BY <1>1, Constants
    <3>2. PICK c \in Buffer : Owns(c, x)
      BY <3>1 DEF BufferInv, Ownership
    <3>3. CASE c = other
      BY <1>2, <3>2, <3>3 DEF Owns
    <3>4. CASE c # other
      BY <1>2, <3>1, <3>2, <3>4 DEF Owns
    <3> QED
      BY <3>3, <3>4
  <2>4. \A c, d \in Buffer : obj'[c].data = obj'[d].data /\ obj'[c].data # Null => c = d
    BY <1>2, <1>6 DEF BufferInv, Ownership
  <2> QED
    BY <2>1, <2>2, <2>3, <2>4 DEF Ownership, Owns
<1>9. Extent'
  <2> SUFFICES ASSUME NEW c \in Buffer
               PROVE  /\ obj'[c].used <= obj'[c].capacity
                      /\ obj'[c].data = Null => obj'[c].capacity = 0
                      /\ obj'[c].data # Null => Len(cells'[obj'[c].data]) = obj'[c].capacity
    BY DEF Extent
  <2>1. CASE c = b
    BY <1>2, <1>7, <2>1 DEF BufferInv, Extent
  <2>2. CASE c = other
    BY <1>2, <1>6, <2>2
  <2>3. CASE c # b /\ c # other
    BY <1>2, <1>7, <2>3 DEF BufferInv, Extent
  <2> QED
    BY <2>1, <2>2, <2>3
<1>10. ViewUsable'
  BY <1>2, <1>4 DEF BufferInv, ViewUsable
<1> QED
  BY <1>5, <1>8, <1>9, <1>10 DEF BufferInv

LEMMA MoveConstructStep ==
    ASSUME BufferInv, NEW b \in Buffer, NEW other \in Buffer, MoveConstruct(b, other)
    PROVE  BufferInv'
<1>1. /\ ~obj[b].live /\ obj[other].live /\ b # other /\ threw' = FALSE
      /\ obj' = [obj EXCEPT ![other] = MovedFrom, ![b] = obj[other]]
      /\ view' = IF view.owner = other THEN [view EXCEPT !.owner = b] ELSE view
  BY DEF MoveConstruct
<1>2. obj[b].data = Null
  BY <1>1 DEF BufferInv, Ownership, Dead
<1>3. Release(obj[b].data)
  BY <1>2, ReleaseNull DEF MoveConstruct
<1> QED
  BY <1>1, <1>3, TakeOver

LEMMA MoveAssignStep ==
    ASSUME BufferInv, NEW b \in Buffer, NEW other \in Buffer, MoveAssign(b, other)
    PROVE  BufferInv'
<1> DEFINE moved == [obj EXCEPT ![other] = MovedFrom]
<1>1. /\ obj[other].live /\ obj' = [moved EXCEPT ![b] = obj[other]]
      /\ Release(moved[b].data) /\ threw' = FALSE
      /\ view' = IF view.owner = other THEN [view EXCEPT !.owner = b] ELSE ViewsInvalidated(b)
  BY DEF MoveAssign
<1>2. obj \in [Buffer -> Object] /\ view \in View /\ cells \in [Address -> Seq(Cell)]
      /\ allocated \subseteq Address
  BY DEF BufferInv, TypeOK
<1>3. CASE b = other
  <2>1. obj' = obj
    BY <1>1, <1>2, <1>3
  <2>2. moved[b].data = Null
    BY <1>2, <1>3 DEF MovedFrom
  <2>3. allocated' = allocated /\ cells' = cells
    BY <1>1, <1>2, <2>2, Constants DEF Release
  <2>4. view' = view
    BY <1>1, <1>2, <1>3 DEF ViewsInvalidated, View
  <2> QED
    BY <1>1, <2>1, <2>3, <2>4, Unchanged
<1>4. CASE b # other
  <2>1. Release(obj[b].data)
    BY <1>1, <1>2, <1>4
  <2> QED
    BY <1>1, <1>4, <2>1, TakeOver
<1> QED
  BY <1>3, <1>4

LEMMA SwapStep ==
    ASSUME BufferInv, NEW b \in Buffer, NEW other \in Buffer, Swap(b, other)
    PROVE  BufferInv'
<1>1. /\ obj[b].live /\ obj[other].live /\ threw' = FALSE
      /\ obj' = [obj EXCEPT ![b] = obj[other], ![other] = obj[b]]
      /\ allocated' = allocated /\ cells' = cells
      /\ view' = [view EXCEPT !.owner = IF @ = b THEN other ELSE IF @ = other THEN b ELSE @]
  BY DEF Swap
<1>2. obj \in [Buffer -> Object] /\ view \in View
  BY DEF BufferInv, TypeOK
<1>3. /\ obj' \in [Buffer -> Object] /\ obj'[b] = obj[other] /\ obj'[other] = obj[b]
      /\ \A c \in Buffer : c # b /\ c # other => obj'[c] = obj[c]
  BY <1>1, <1>2
<1>4. /\ view' \in View /\ view'.ok = view.ok /\ view'.data = view.data
      /\ view'.len = view.len
      /\ view.owner = b => view'.owner = other
      /\ view.owner = other => view'.owner = b
      /\ view.owner # b /\ view.owner # other => view'.owner = view.owner
  BY <1>1, <1>2 DEF View
<1>5. TypeOK'
  BY <1>1, <1>3, <1>4 DEF BufferInv, TypeOK
<1>6. Ownership'
  <2>1. \A c \in Buffer : ~obj'[c].live => obj'[c] = Dead
    BY <1>1, <1>3 DEF BufferInv, Ownership
  <2>2. \A c \in Buffer : obj'[c].data # Null => obj'[c].data \in allocated'
    BY <1>1, <1>3 DEF BufferInv, Ownership
  <2>3. ASSUME NEW x \in allocated'
        PROVE  \E c \in Buffer : Owns(c, x)'
    <3>1. PICK c \in Buffer : Owns(c, x)
      BY <1>1 DEF BufferInv, Ownership
    <3> QED
      BY <1>1, <1>3, <3>1 DEF Owns
  <2>4. \A c, d \in Buffer : obj'[c].data = obj'[d].data /\ obj'[c].data # Null => c = d
    BY <1>3 DEF BufferInv, Ownership
  <2> QED
    BY <2>1, <2>2, <2>3, <2>4 DEF Ownership, Owns
<1>7. Extent'
  BY <1>1, <1>3 DEF BufferInv, Extent
<1>8. ViewUsable'
  BY <1>1, <1>3, <1>4 DEF BufferInv, ViewUsable
<1> QED
  BY <1>5, <1>6, <1>7, <1>8 DEF BufferInv

LEMMA DestroyStep ==
    ASSUME BufferInv, NEW b \in Buffer, Destroy(b)
    PROVE  BufferInv'
<1>1. /\ obj' = [obj EXCEPT ![b] = Dead] /\ Release(obj[b].data)
      /\ threw' = FALSE /\ view' = ViewsInvalidated(b)
  BY DEF Destroy
<1>2. /\ allocated' = allocated \ {obj[b].data} /\ allocated' \subseteq Address
      /\ cells' \in [Address -> Seq(Cell)]
      /\ \A x \in Address : x # obj[b].data => cells'[x] = cells[x]
  <2>1. obj[b].data \in Address \cup {Null}
    BY Members
  <2> QED
    BY <1>1, <2>1, ReleaseStep
<1>3. /\ obj' \in [Buffer -> Object] /\ obj'[b] = Dead
      /\ \A c \in Buffer : c # b => obj'[c] = obj[c]
  BY <1>1, Constants DEF BufferInv, TypeOK
<1>4. Dead.data = Null /\ Dead.capacity = 0 /\ Dead.used = 0 /\ Dead.live = FALSE
  BY DEF Dead
<1>5. view' \in View /\ (view'.ok => view' = view /\ view.owner # b)
  BY <1>1, Constants DEF ViewsInvalidated, NoView, BufferInv, TypeOK
<1>6. \A c \in Buffer : c # b /\ obj[c].data # Null =>
          /\ obj[c].data # obj[b].data /\ obj[c].data \in allocated'
          /\ obj[c].data \in Address /\ cells'[obj[c].data] = cells[obj[c].data]
  BY <1>2, Members DEF BufferInv, Ownership
<1>7. TypeOK'
  BY <1>1, <1>2, <1>3, <1>5 DEF TypeOK
<1>8. Ownership'
  <2>1. \A c \in Buffer : ~obj'[c].live => obj'[c] = Dead
    BY <1>3 DEF BufferInv, Ownership
  <2>2. \A c \in Buffer : obj'[c].data # Null => obj'[c].data \in allocated'
    BY <1>3, <1>4, <1>6
  <2>3. ASSUME NEW x \in allocated'
        PROVE  \E c \in Buffer : Owns(c, x)'
    <3>1. x \in allocated /\ x # obj[b].data
      BY <1>2
    <3>2. PICK c \in Buffer : Owns(c, x)
      BY <3>1 DEF BufferInv, Ownership
    <3> QED
      BY <1>3, <3>1, <3>2 DEF Owns
  <2>4. \A c, d \in Buffer : obj'[c].data = obj'[d].data /\ obj'[c].data # Null => c = d
    BY <1>3, <1>4 DEF BufferInv, Ownership
  <2> QED
    BY <2>1, <2>2, <2>3, <2>4 DEF Ownership, Owns
<1>9. Extent'
  <2> SUFFICES ASSUME NEW c \in Buffer
               PROVE  /\ obj'[c].used <= obj'[c].capacity
                      /\ obj'[c].data = Null => obj'[c].capacity = 0
                      /\ obj'[c].data # Null => Len(cells'[obj'[c].data]) = obj'[c].capacity
    BY DEF Extent
  <2>1. CASE c = b
    BY <1>3, <1>4, <2>1
  <2>2. CASE c # b
    BY <1>3, <1>6, <2>2 DEF BufferInv, Extent
  <2> QED
    BY <2>1, <2>2
<1>10. ViewUsable'
  BY <1>3, <1>5 DEF BufferInv, ViewUsable
<1> QED
  BY <1>7, <1>8, <1>9, <1>10 DEF BufferInv

-----------------------------------------------------------------------------

LEMMA InitBufferInv ==
    Init => BufferInv
<1> SUFFICES ASSUME Init
             PROVE  BufferInv
  OBVIOUS
<1>1. \A b \in Buffer : obj[b] = Dead
  BY DEF Init
<1>2. TypeOK
  <2>1. <<>> \in Seq(Cell)
    OBVIOUS
  <2> QED
    BY <2>1, Constants DEF Init, TypeOK
<1>3. Ownership /\ Extent
  BY <1>1 DEF Init, Ownership, Extent, Dead
<1>4. ViewUsable
  BY DEF Init, ViewUsable, NoView
<1> QED
  BY <1>2, <1>3, <1>4 DEF BufferInv

LEMMA NextBufferInv ==
    BufferInv /\ [Next]_vars => BufferInv'
<1> SUFFICES ASSUME BufferInv, [Next]_vars
             PROVE  BufferInv'
  OBVIOUS
<1>0. ASSUME NEW b \in Buffer, ConstructThrows(b)
      PROVE  BufferInv'
  BY <1>0, Unchanged DEF ConstructThrows
<1>1. ASSUME NEW b \in Buffer, NEW c \in Capacities, NEW preload \in BOOLEAN,
             NEW a \in Address, Construct(b, c, preload, a)
      PROVE  BufferInv'
  BY <1>1, ConstructStep
<1>2. ASSUME NEW b \in Buffer, NEW n \in Requests, InitialiseInPlace(b, n)
      PROVE  BufferInv'
  <2>1. n \in Nat /\ n <= obj[b].capacity
    BY <1>2, SizesAssumption, Members DEF InitialiseInPlace
  <2> QED
    BY <1>2, <2>1, InPlace DEF InitialiseInPlace
<1>3. ASSUME NEW b \in Buffer, NEW n \in Requests, ExtendInPlace(b, n)
      PROVE  BufferInv'
  <2> DEFINE newUsed == obj[b].used + n
  <2>1. newUsed \in Nat /\ newUsed <= obj[b].capacity
    BY <1>3, SizesAssumption, Members DEF ExtendInPlace
  <2>2. /\ obj[b].live /\ obj' = [obj EXCEPT ![b].used = newUsed] /\ threw' = FALSE
        /\ UNCHANGED <<allocated, cells, view>>
    BY <1>3 DEF ExtendInPlace
  <2> HIDE DEF newUsed
  <2> QED
    BY <2>1, <2>2, InPlace
<1>4. ASSUME NEW b \in Buffer, NEW n \in Requests, InitialiseThrows(b, n) \/ ExtendThrows(b, n)
      PROVE  BufferInv'
  BY <1>4, Unchanged DEF InitialiseThrows, ExtendThrows
<1>5. ASSUME NEW b \in Buffer, NEW n \in Requests, NEW a \in Address,
             InitialiseReallocates(b, n, a)
      PROVE  BufferInv'
  BY <1>5, InitialiseReallocatesStep
<1>6. ASSUME NEW b \in Buffer, NEW n \in Requests, NEW a \in Address,
             ExtendReallocates(b, n, a)
      PROVE  BufferInv'
  BY <1>6, ExtendReallocatesStep
<1>7. ASSUME NEW b \in Buffer, TakeView(b)
      PROVE  BufferInv'
  BY <1>7, TakeViewStep
<1>8. ASSUME NEW b \in Buffer, Destroy(b)
      PROVE  BufferInv'
  BY <1>8, DestroyStep
<1>9. ASSUME NEW i \in 1 .. view.len, NEW v \in Byte, WriteThroughView(i, v)
      PROVE  BufferInv'
  BY <1>9, WriteThroughViewStep
<1>10. ASSUME NEW b \in Buffer, NEW other \in Buffer, MoveConstruct(b, other)
       PROVE  BufferInv'
  BY <1>10, MoveConstructStep
<1>11. ASSUME NEW b \in Buffer, NEW other \in Buffer, MoveAssign(b, other)
       PROVE  BufferInv'
  BY <1>11, MoveAssignStep
<1>12. ASSUME NEW b \in Buffer, NEW other \in Buffer, Swap(b, other)
       PROVE  BufferInv'
  BY <1>12, SwapStep
<1>13. CASE UNCHANGED vars
  BY <1>13, Unchanged DEF vars, BufferInv, TypeOK
<1> QED
  BY <1>0, <1>1, <1>2, <1>3, <1>4, <1>5, <1>6, <1>7, <1>8, <1>9, <1>10, <1>11, <1>12, <1>13
     DEF Next

\* The inductive invariant holds in every reachable state.
THEOREM BufferInvHolds ==
    Spec => []BufferInv
<1> QED
  BY InitBufferInv, NextBufferInv, PTL DEF Spec

\* The members, the free store and the view always have their types.
THEOREM BufferTypeCorrect ==
    Spec => []TypeOK
<1>1. BufferInv => TypeOK
  BY DEF BufferInv
<1> QED
  BY <1>1, BufferInvHolds, PTL

\* basic_buffer neither leaks, shares nor double-frees storage: every
\* allocation has exactly one live owner and every owner's storage is
\* allocated, whatever constructors, moves, swaps and reallocations run.
THEOREM StorageHasOneOwner ==
    Spec => []Ownership
<1>1. BufferInv => Ownership
  BY DEF BufferInv
<1> QED
  BY <1>1, BufferInvHolds, PTL

\* The used bytes of span() lie within the storage, as long as the capacity
\* says; a buffer without storage has none (the assertion of extend()).
THEOREM UsedBytesInStorage ==
    Spec => []Extent
<1>1. BufferInv => Extent
  BY DEF BufferInv
<1> QED
  BY <1>1, BufferInvHolds, PTL

\* A span the comments of initialise() and extend() promise to be valid lies
\* in the storage of the buffer it follows.
THEOREM ViewsStayUsable ==
    Spec => []ViewUsable
<1>1. BufferInv => ViewUsable
  BY DEF BufferInv
<1> QED
  BY <1>1, BufferInvHolds, PTL

-----------------------------------------------------------------------------
\* basic_buffer implements serialise_buffer.  To its user a buffer is the sequence
\* of its used bytes; storage, capacity and views do not matter.

\* What the content of a buffer is, and when there is one.
ContentFacts ==
    \A b \in Buffer :
        /\ Content(b) \in Seq(Cell) /\ Len(Content(b)) = obj[b].used
        /\ \A i \in 1 .. obj[b].used : Content(b)[i] = cells[obj[b].data][i]
        /\ obj[b].used = 0 => Content(b) = <<>>
        /\ Value[b] = IF obj[b].live THEN Content(b) ELSE Null
        /\ Abstract!Live(b) <=> obj[b].live

LEMMA Contents == BufferInv => ContentFacts
<1> SUFFICES ASSUME BufferInv, NEW b \in Buffer
             PROVE  ContentFacts!(b)
  BY DEF ContentFacts
<1>1. obj[b].used \in Nat /\ obj[b].used <= obj[b].capacity /\ obj[b].capacity \in Nat
  BY Members
<1>2. \A i \in 1 .. obj[b].used : cells[obj[b].data][i] \in Cell
  <2> SUFFICES ASSUME NEW i \in 1 .. obj[b].used
               PROVE  cells[obj[b].data][i] \in Cell
    OBVIOUS
  <2>1. obj[b].data # Null
    BY <1>1 DEF BufferInv, Extent
  <2>2. cells[obj[b].data] \in Seq(Cell) /\ i \in 1 .. Len(cells[obj[b].data])
    BY <1>1, <2>1, Members
  <2> QED
    BY <2>2, ElementOfSeq
<1>3. Content(b) \in [1 .. obj[b].used -> Cell]
  BY <1>2 DEF Content
<1>4. Content(b) \in Seq(Cell) /\ Len(Content(b)) = obj[b].used
  BY <1>1, <1>3
<1>5. obj[b].used = 0 => Content(b) = <<>>
  BY <1>4, EmptySeq
<1>6. Null \notin Seq(Cell)
  BY NoContentAssumption DEF Cell
<1>7. Value[b] = IF obj[b].live THEN Content(b) ELSE Null
  BY DEF Value
<1> QED
  BY <1>4, <1>5, <1>6, <1>7 DEF Content, Abstract!Live

LEMMA ContentsAfter == BufferInv' => ContentFacts'
BY Contents, PTL

\* A buffer nobody touched, whose storage nobody wrote, has its content.
LEMMA ContentKept ==
    ASSUME BufferInv, NEW c \in Buffer, NEW d \in Buffer, obj'[d] = obj[c],
           obj[c].data # Null => cells'[obj[c].data] = cells[obj[c].data]
    PROVE  Value'[d] = Value[c]
<1>1. CASE obj[c].data # Null
  BY <1>1 DEF Value, Content
<1>2. CASE obj[c].data = Null
  <2>1. obj[c].used = 0
    BY <1>2, Members DEF BufferInv, Extent
  <2> QED
    BY <2>1 DEF Value, Content
<1> QED
  BY <1>1, <1>2

\* Nothing of the storage of other buffers is touched.
LEMMA OthersUntouched ==
    ASSUME BufferInv, NEW b \in Buffer,
           \A c \in Buffer : c # b => obj'[c] = obj[c],
           \A x \in allocated : x # obj[b].data => cells'[x] = cells[x]
    PROVE  Abstract!OthersKept({b})
<1> SUFFICES ASSUME NEW c \in Buffer, c # b
             PROVE  Value'[c] = Value[c]
  BY DEF Abstract!OthersKept
<1>1. obj[c].data # Null => obj[c].data \in allocated /\ obj[c].data # obj[b].data
  BY DEF BufferInv, Ownership
<1> QED
  BY <1>1, ContentKept

\* A reallocation of b leaves the content of the other buffers alone.
LEMMA ReallocationKeepsOthers ==
    ASSUME BufferInv, NEW b \in Buffer, NEW a \in Address, NEW content \in Seq(Cell),
           Replace(obj[b].data, a, content),
           NEW o, obj' = [obj EXCEPT ![b] = o]
    PROVE  obj'[b] = o /\ cells'[a] = content /\ Abstract!OthersKept({b})
<1>0. obj[b].data \in Address \cup {Null}
  BY Members
<1>1. allocated \subseteq Address /\ obj \in [Buffer -> Object]
  BY DEF BufferInv, TypeOK
<1>2. /\ a \notin allocated /\ cells'[a] = content
      /\ \A x \in Address : x # a /\ x # obj[b].data => cells'[x] = cells[x]
  BY <1>0, ReplaceStep
<1>3. obj'[b] = o /\ \A c \in Buffer : c # b => obj'[c] = obj[c]
  BY <1>1
<1> QED
  BY <1>1, <1>2, <1>3, OthersUntouched

LEMMA InitialiseInPlaceImplements ==
    ASSUME BufferInv, BufferInv', NEW b \in Buffer, NEW n \in Requests,
           InitialiseInPlace(b, n)
    PROVE  Abstract!AInitialise(b, n)
<1>1. obj \in [Buffer -> Object] /\ obj[b] \in Object
  BY Members DEF BufferInv, TypeOK
<1>2. /\ obj[b].live /\ obj'[b].live /\ obj'[b].used = n /\ cells' = cells
      /\ \A c \in Buffer : c # b => obj'[c] = obj[c]
  BY <1>1 DEF InitialiseInPlace, Object
<1>3. Abstract!OthersKept({b})
  BY <1>2, OthersUntouched
<1> QED
  BY <1>2, <1>3, Contents, ContentsAfter DEF ContentFacts, Abstract!AInitialise

LEMMA InitialiseReallocatesImplements ==
    ASSUME BufferInv, BufferInv', NEW b \in Buffer, NEW n \in Requests, NEW a \in Address,
           InitialiseReallocates(b, n, a)
    PROVE  Abstract!AInitialise(b, n)
<1> DEFINE content == Fill(n, Garbage)
           o == [obj[b] EXCEPT !.data = a, !.capacity = n, !.used = n]
<1>1. obj[b] \in Object /\ content \in Seq(Cell)
  BY Members, SizesAssumption, Constants, FillSeq
<1>2. /\ obj[b].live /\ Replace(obj[b].data, a, content) /\ obj' = [obj EXCEPT ![b] = o]
  BY DEF InitialiseReallocates
<1>3. o.live = obj[b].live /\ o.used = n
  BY <1>1 DEF Object
<1> HIDE DEF content, o
<1>4. obj'[b] = o /\ Abstract!OthersKept({b})
  BY <1>1, <1>2, ReallocationKeepsOthers
<1> QED
  BY <1>2, <1>3, <1>4, Contents, ContentsAfter DEF ContentFacts, Abstract!AInitialise

LEMMA ExtendInPlaceImplements ==
    ASSUME BufferInv, BufferInv', NEW b \in Buffer, NEW n \in Requests, ExtendInPlace(b, n)
    PROVE  Abstract!AExtend(b, n)
<1> DEFINE newUsed == obj[b].used + n
<1>1. /\ obj \in [Buffer -> Object] /\ obj[b] \in Object /\ obj[b].used \in Nat
      /\ n \in Nat
  BY Members, SizesAssumption DEF BufferInv, TypeOK
<1>2. /\ obj[b].live /\ newUsed <= MaxUsed /\ cells' = cells
      /\ obj' = [obj EXCEPT ![b].used = newUsed]
  BY DEF ExtendInPlace
<1>3. newUsed \in Nat /\ \A i \in 1 .. obj[b].used : i \in 1 .. newUsed
  BY <1>1
<1> HIDE DEF newUsed
<1>4. /\ obj'[b].live /\ obj'[b].used = newUsed /\ obj'[b].data = obj[b].data
      /\ \A c \in Buffer : c # b => obj'[c] = obj[c]
  BY <1>1, <1>2 DEF Object
<1>5. Abstract!OthersKept({b})
  BY <1>2, <1>4, OthersUntouched
<1>6. /\ Value[b] = Content(b) /\ Len(Value[b]) = obj[b].used
      /\ Value'[b] = Content(b)' /\ Len(Value'[b]) = newUsed /\ Abstract!Live(b)
  BY <1>2, <1>4, Contents, ContentsAfter DEF ContentFacts
<1>7. \A i \in 1 .. obj[b].used : Value'[b][i] = Value[b][i]
  BY <1>2, <1>3, <1>4, <1>6, Contents, ContentsAfter DEF ContentFacts
<1> QED
  BY <1>2, <1>5, <1>6, <1>7 DEF newUsed, Abstract!AExtend

LEMMA ExtendReallocatesImplements ==
    ASSUME BufferInv, BufferInv', NEW b \in Buffer, NEW n \in Requests, NEW a \in Address,
           ExtendReallocates(b, n, a)
    PROVE  Abstract!AExtend(b, n)
<1> DEFINE newUsed == obj[b].used + n
           newCapacity == GrownCapacity(newUsed)
           copied == [i \in 1 .. newCapacity |->
                         IF i <= obj[b].used THEN cells[obj[b].data][i] ELSE Garbage]
           o == [obj[b] EXCEPT !.data = a, !.capacity = newCapacity, !.used = newUsed]
<1>1. obj[b] \in Object /\ obj[b].used \in Nat /\ n \in Nat
  BY Members, SizesAssumption
<1>2. /\ obj[b].live /\ newUsed <= MaxUsed /\ Replace(obj[b].data, a, copied)
      /\ obj' = [obj EXCEPT ![b] = o]
  BY DEF ExtendReallocates
<1>3. /\ newUsed \in Nat /\ newCapacity \in Nat
      /\ \A i \in 1 .. obj[b].used : i \in 1 .. newUsed /\ i \in 1 .. newCapacity
  BY <1>1 DEF GrownCapacity
<1> HIDE DEF newUsed, newCapacity
<1>4. o.live = obj[b].live /\ o.used = newUsed /\ o.data = a
  BY <1>1 DEF Object
<1>5. \A i \in 1 .. obj[b].used : copied[i] = cells[obj[b].data][i]
  BY <1>1, <1>3
<1>6. copied \in Seq(Cell)
  <2>1. ContentFacts
    BY Contents
  <2>2. \A i \in 1 .. newCapacity :
           (IF i <= obj[b].used THEN cells[obj[b].data][i] ELSE Garbage) \in Cell
    <3> SUFFICES ASSUME NEW i \in 1 .. newCapacity, i <= obj[b].used
                 PROVE  cells[obj[b].data][i] \in Cell
      BY Constants
    <3>1. i \in 1 .. obj[b].used
      BY <1>1, <1>3
    <3>2. Content(b)[i] = cells[obj[b].data][i] /\ Content(b)[i] \in Cell
      BY <2>1, <3>1, ElementOfSeq DEF ContentFacts
    <3> QED
      BY <3>2
  <2>3. copied \in [1 .. newCapacity -> Cell]
    BY <2>2
  <2> HIDE DEF copied
  <2> QED
    BY <1>3, <2>3
<1> HIDE DEF copied, o
<1>7. obj'[b] = o /\ cells'[a] = copied /\ Abstract!OthersKept({b})
  BY <1>2, <1>6, ReallocationKeepsOthers
<1>8. /\ Value[b] = Content(b) /\ Len(Value[b]) = obj[b].used
      /\ Value'[b] = Content(b)' /\ Len(Value'[b]) = newUsed /\ Abstract!Live(b)
  <2>1. ContentFacts /\ ContentFacts'
    BY Contents, ContentsAfter
  <2>2. Value[b] = Content(b) /\ Len(Content(b)) = obj[b].used /\ Abstract!Live(b)
    BY <1>2, <2>1 DEF ContentFacts
  <2>3. obj'[b].live /\ obj'[b].used = newUsed
    BY <1>2, <1>4, <1>7
  <2>4. Value'[b] = Content(b)' /\ Len(Content(b)') = newUsed
    BY <2>1, <2>3 DEF ContentFacts
  <2> QED
    BY <2>2, <2>4
<1>9. \A i \in 1 .. obj[b].used : Value'[b][i] = Value[b][i]
  BY <1>3, <1>4, <1>5, <1>7, <1>8, Contents, ContentsAfter DEF ContentFacts
<1> QED
  BY <1>2, <1>7, <1>8, <1>9 DEF newUsed, Abstract!AExtend

LEMMA ConstructImplements ==
    ASSUME BufferInv, BufferInv', NEW b \in Buffer, NEW c \in Capacities,
           NEW preload \in BOOLEAN, NEW a \in Address, Construct(b, c, preload, a)
    PROVE  Abstract!ACreate(b)
<1> DEFINE o == [live |-> TRUE, data |-> a, capacity |-> c, used |-> 0]
           content == Fill(c, IF preload THEN Zero ELSE Garbage)
<1>1. /\ ~obj[b].live /\ Replace(Null, a, content) /\ obj' = [obj EXCEPT ![b] = o]
  BY DEF Construct
<1>2. obj[b].data = Null /\ content \in Seq(Cell) /\ o.live = TRUE /\ o.used = 0
  BY <1>1, SizesAssumption, Constants, FillSeq DEF BufferInv, Ownership, Dead
<1> HIDE DEF o, content
<1>3. Replace(obj[b].data, a, content)
  BY <1>1, <1>2
<1>4. obj'[b] = o /\ Abstract!OthersKept({b})
  BY <1>1, <1>2, <1>3, ReallocationKeepsOthers
<1>5. Value'[b] = <<>> /\ ~Abstract!Live(b)
  BY <1>1, <1>2, <1>4, Contents, ContentsAfter DEF ContentFacts
<1> QED
  BY <1>4, <1>5 DEF Abstract!ACreate, Abstract!OthersKept, Value

LEMMA DestroyImplements ==
    ASSUME BufferInv, BufferInv', NEW b \in Buffer, Destroy(b)
    PROVE  Abstract!ADestroy(b)
<1>1. obj[b].live /\ obj' = [obj EXCEPT ![b] = Dead] /\ Release(obj[b].data)
  BY DEF Destroy
<1>2. /\ obj \in [Buffer -> Object] /\ obj[b].data \in Address \cup {Null}
      /\ allocated \subseteq Address
  BY Members DEF BufferInv, TypeOK
<1>3. obj'[b].live = FALSE /\ \A c \in Buffer : c # b => obj'[c] = obj[c]
  BY <1>1, <1>2 DEF Dead
<1>4. \A x \in Address : x # obj[b].data => cells'[x] = cells[x]
  BY <1>1, <1>2, ReleaseStep
<1>5. Abstract!OthersKept({b})
  BY <1>2, <1>3, <1>4, OthersUntouched
<1>6. Value'[b] = Null /\ Abstract!Live(b)
  BY <1>1, <1>3, Contents, ContentsAfter DEF ContentFacts
<1> QED
  BY <1>5, <1>6 DEF Abstract!ADestroy, Abstract!OthersKept, Value

\* What b becomes when it takes over what other had.
LEMMA TakeOverImplements ==
    ASSUME BufferInv, BufferInv', NEW b \in Buffer, NEW other \in Buffer, b # other,
           obj[other].live, Release(obj[b].data),
           obj' = [obj EXCEPT ![other] = MovedFrom, ![b] = obj[other]]
    PROVE  Abstract!AMove(b, other)
<1>1. /\ obj \in [Buffer -> Object] /\ obj[b].data \in Address \cup {Null}
      /\ allocated \subseteq Address
  BY Members DEF BufferInv, TypeOK
<1>2. /\ obj'[b] = obj[other] /\ obj'[other] = MovedFrom
      /\ \A c \in Buffer : c # b /\ c # other => obj'[c] = obj[c]
  BY <1>1
<1>3. \A x \in Address : x # obj[b].data => cells'[x] = cells[x]
  BY <1>1, ReleaseStep
<1>4. \A c \in Buffer : c # b /\ obj[c].data # Null => cells'[obj[c].data] = cells[obj[c].data]
  BY <1>3, Members DEF BufferInv, Ownership, TypeOK
<1>5. Value'[b] = Value[other]
  BY <1>2, <1>4, ContentKept
<1>6. \A c \in Buffer : c # b /\ c # other => Value'[c] = Value[c]
  BY <1>2, <1>4, ContentKept
<1>7. Value'[other] = <<>> /\ Abstract!Live(other)
  <2>1. obj'[other].live = TRUE /\ obj'[other].used = 0
    BY <1>2 DEF MovedFrom
  <2>2. ContentFacts /\ ContentFacts'
    BY Contents, ContentsAfter
  <2>3. Value'[other] = <<>>
    BY <2>1, <2>2 DEF ContentFacts
  <2>4. Abstract!Live(other)
    BY <2>2 DEF ContentFacts
  <2> QED
    BY <2>3, <2>4
<1> QED
  BY <1>5, <1>6, <1>7 DEF Abstract!AMove, Value

LEMMA MoveConstructImplements ==
    ASSUME BufferInv, BufferInv', NEW b \in Buffer, NEW other \in Buffer,
           MoveConstruct(b, other)
    PROVE  Abstract!AMove(b, other)
<1>1. /\ ~obj[b].live /\ obj[other].live /\ b # other
      /\ obj' = [obj EXCEPT ![other] = MovedFrom, ![b] = obj[other]]
  BY DEF MoveConstruct
<1>2. obj[b].data = Null
  BY <1>1 DEF BufferInv, Ownership, Dead
<1>3. Release(obj[b].data)
  BY <1>2, ReleaseNull DEF MoveConstruct
<1> QED
  BY <1>1, <1>3, TakeOverImplements

LEMMA MoveAssignImplements ==
    ASSUME BufferInv, BufferInv', NEW b \in Buffer, NEW other \in Buffer,
           MoveAssign(b, other)
    PROVE  Abstract!AMove(b, other)
<1> DEFINE moved == [obj EXCEPT ![other] = MovedFrom]
<1>1. /\ obj[other].live /\ obj' = [moved EXCEPT ![b] = obj[other]]
      /\ Release(moved[b].data)
  BY DEF MoveAssign
<1>2. obj \in [Buffer -> Object] /\ cells \in [Address -> Seq(Cell)]
  BY DEF BufferInv, TypeOK
<1>3. CASE b = other
  <2>1. obj' = obj /\ moved[b].data = Null
    BY <1>1, <1>2, <1>3 DEF MovedFrom
  <2>2. cells' = cells
    BY <1>1, <1>2, <2>1, Constants DEF Release
  <2>3. Value' = Value
    BY <2>1, <2>2 DEF Value, Content
  <2>4. Abstract!Live(other)
    BY <1>1, Contents DEF ContentFacts
  <2> QED
    BY <1>3, <2>3, <2>4 DEF Abstract!AMove, Value
<1>4. CASE b # other
  <2>1. Release(obj[b].data)
    BY <1>1, <1>2, <1>4
  <2> QED
    BY <1>1, <1>4, <2>1, TakeOverImplements
<1> QED
  BY <1>3, <1>4

LEMMA SwapImplements ==
    ASSUME BufferInv, NEW b \in Buffer, NEW other \in Buffer, Swap(b, other)
    PROVE  Abstract!ASwap(b, other)
<1>1. /\ obj[b].live /\ obj[other].live /\ cells' = cells
      /\ obj' = [obj EXCEPT ![b] = obj[other], ![other] = obj[b]]
  BY DEF Swap
<1>2. obj \in [Buffer -> Object]
  BY DEF BufferInv, TypeOK
<1>3. /\ obj'[b] = obj[other] /\ obj'[other] = obj[b]
      /\ \A c \in Buffer : c # b /\ c # other => obj'[c] = obj[c]
  BY <1>1, <1>2
<1>4. /\ Value'[b] = Value[other] /\ Value'[other] = Value[b]
      /\ \A c \in Buffer : c # b /\ c # other => Value'[c] = Value[c]
  BY <1>1, <1>3, ContentKept
<1>5. Abstract!Live(b) /\ Abstract!Live(other)
  BY <1>1, Contents DEF ContentFacts
<1> QED
  BY <1>4, <1>5 DEF Abstract!ASwap, Value

\* A byte written through a view is a byte of the buffer the view follows, or
\* lies beyond its used bytes, and in no other buffer.
LEMMA WriteThroughViewImplements ==
    ASSUME BufferInv, BufferInv', NEW i \in 1 .. view.len, NEW v \in Byte,
           WriteThroughView(i, v)
    PROVE  \/ Abstract!AObserve
           \/ \E b \in Buffer : Abstract!AWrite(b, v)
<1> DEFINE a == view.data
           s == [cells[a] EXCEPT ![i] = v]
<1>1. /\ view.ok /\ cells' = [cells EXCEPT ![a] = s] /\ obj' = obj
  BY DEF WriteThroughView
<1>2. PICK b \in Buffer : obj[b].live /\ obj[b].data = a /\ view.len <= obj[b].capacity
  BY <1>1 DEF BufferInv, ViewUsable
<1>3. /\ view.len \in Nat /\ cells \in [Address -> Seq(Cell)] /\ allocated \subseteq Address
  BY DEF BufferInv, TypeOK, View
<1>4. obj[b].capacity \in Nat /\ obj[b].used \in Nat /\ obj[b].used <= obj[b].capacity
  BY <1>2, Members
<1>5. a # Null /\ a \in Address /\ Len(cells[a]) = obj[b].capacity
  <2>1. obj[b].capacity # 0
    BY <1>2, <1>3, <1>4
  <2>2. obj[b].data # Null
    BY <1>2, <2>1 DEF BufferInv, Extent
  <2> QED
    BY <1>2, <2>2, Members
<1>6. /\ cells[a] \in Seq(Cell) /\ i \in 1 .. Len(cells[a])
      /\ \A k \in 1 .. Len(cells[a]) : s[k] = IF k = i THEN v ELSE cells[a][k]
  BY <1>2, <1>3, <1>4, <1>5
<1> HIDE DEF a, s
<1>7. cells'[a] = s /\ \A x \in allocated : x # a => cells'[x] = cells[x]
  BY <1>1, <1>3, <1>5
<1>8. Abstract!OthersKept({b})
  BY <1>1, <1>2, <1>7, OthersUntouched
<1>9. /\ Value[b] = Content(b) /\ Content(b) \in Seq(Cell) /\ Len(Content(b)) = obj[b].used
      /\ Value'[b] = Content(b)' /\ Content(b)' \in Seq(Cell)
      /\ Len(Content(b)') = obj[b].used
      /\ \A k \in 1 .. obj[b].used : /\ Content(b)[k] = cells[a][k]
                                     /\ Content(b)'[k] = s[k]
      /\ Abstract!Live(b)
  BY <1>1, <1>2, <1>7, Contents, ContentsAfter DEF ContentFacts
<1>10. \A k \in 1 .. obj[b].used : k \in 1 .. Len(cells[a])
  BY <1>4, <1>5
<1>11. CASE i \in 1 .. obj[b].used
  <2>1. Content(b)' = [Content(b) EXCEPT ![i] = v]
    <3>1. PICK old, new, u : old = Content(b) /\ new = Content(b)' /\ u = obj[b].used
      OBVIOUS
    <3>2. \A k \in 1 .. u : new[k] = IF k = i THEN v ELSE old[k]
      BY <1>6, <1>9, <1>10, <3>1
    <3>3. old \in Seq(Cell) /\ Len(old) = u /\ new \in Seq(Cell) /\ Len(new) = u
      BY <1>9, <3>1
    <3>4. new = [old EXCEPT ![i] = v]
      BY <3>2, <3>3
    <3> QED
      BY <3>1, <3>4
  <2>2. Value' = [Value EXCEPT ![b] = [@ EXCEPT ![i] = v]]
    BY <1>8, <1>9, <2>1 DEF Abstract!OthersKept, Value
  <2> QED
    BY <1>2, <1>9, <1>11, <2>2 DEF Abstract!AWrite
<1>12. CASE i \notin 1 .. obj[b].used
  <2>1. Content(b)' = Content(b)
    <3>1. PICK old, new, u : old = Content(b) /\ new = Content(b)' /\ u = obj[b].used
      OBVIOUS
    <3>2. \A k \in 1 .. u : new[k] = old[k]
      BY <1>6, <1>9, <1>10, <1>12, <3>1
    <3>3. old \in Seq(Cell) /\ Len(old) = u /\ new \in Seq(Cell) /\ Len(new) = u
      BY <1>9, <3>1
    <3>4. new = old
      BY <3>2, <3>3, SeqEqual
    <3> QED
      BY <3>1, <3>4
  <2>2. Value' = Value
    BY <1>8, <1>9, <2>1 DEF Abstract!OthersKept, Value
  <2> QED
    BY <2>2 DEF Abstract!AObserve
<1> QED
  BY <1>11, <1>12

\* A step that changes neither the members nor the bytes.
LEMMA ContentUnchanged ==
    ASSUME UNCHANGED <<obj, cells>>
    PROVE  Value' = Value
BY DEF Value, Content

LEMMA NextImplements ==
    BufferInv /\ BufferInv' /\ [Next]_vars => [Abstract!ANext]_(Abstract!avars)
<1> SUFFICES ASSUME BufferInv, BufferInv', [Next]_vars
             PROVE  [Abstract!ANext]_(Abstract!avars)
  OBVIOUS
<1>1. CASE UNCHANGED vars
  BY <1>1, ContentUnchanged DEF vars, Abstract!avars
<1>2. ASSUME NEW b \in Buffer, ConstructThrows(b)
      PROVE  Abstract!ANext
  BY <1>2, ContentUnchanged DEF ConstructThrows, Abstract!ANext
<1>3. ASSUME NEW b \in Buffer, NEW n \in Requests, InitialiseThrows(b, n) \/ ExtendThrows(b, n)
      PROVE  Abstract!ANext
  BY <1>3, ContentUnchanged DEF InitialiseThrows, ExtendThrows, Abstract!ANext
<1>4. ASSUME NEW b \in Buffer, TakeView(b)
      PROVE  Abstract!ANext
  BY <1>4, ContentUnchanged DEF TakeView, Abstract!ANext, Abstract!AObserve
<1>5. ASSUME NEW b \in Buffer, NEW c \in Capacities, NEW preload \in BOOLEAN,
             NEW a \in Address, Construct(b, c, preload, a)
      PROVE  Abstract!ANext
  BY <1>5, ConstructImplements DEF Construct, Abstract!ANext
<1>6. ASSUME NEW b \in Buffer, Destroy(b)
      PROVE  Abstract!ANext
  BY <1>6, DestroyImplements DEF Destroy, Abstract!ANext
<1>7. ASSUME NEW b \in Buffer, NEW n \in Requests, InitialiseInPlace(b, n)
      PROVE  Abstract!ANext
  BY <1>7, InitialiseInPlaceImplements DEF InitialiseInPlace, Abstract!ANext
<1>8. ASSUME NEW b \in Buffer, NEW n \in Requests, NEW a \in Address,
             InitialiseReallocates(b, n, a)
      PROVE  Abstract!ANext
  BY <1>8, InitialiseReallocatesImplements DEF InitialiseReallocates, Abstract!ANext
<1>9. ASSUME NEW b \in Buffer, NEW n \in Requests, ExtendInPlace(b, n)
      PROVE  Abstract!ANext
  BY <1>9, ExtendInPlaceImplements DEF ExtendInPlace, Abstract!ANext
<1>10. ASSUME NEW b \in Buffer, NEW n \in Requests, NEW a \in Address,
              ExtendReallocates(b, n, a)
       PROVE  Abstract!ANext
  BY <1>10, ExtendReallocatesImplements DEF ExtendReallocates, Abstract!ANext
<1>11. ASSUME NEW i \in 1 .. view.len, NEW v \in Byte, WriteThroughView(i, v)
       PROVE  Abstract!ANext
  BY <1>11, WriteThroughViewImplements DEF WriteThroughView, Abstract!ANext
<1>12. ASSUME NEW b \in Buffer, NEW other \in Buffer, MoveConstruct(b, other)
       PROVE  Abstract!ANext
  BY <1>12, MoveConstructImplements DEF MoveConstruct, Abstract!ANext
<1>13. ASSUME NEW b \in Buffer, NEW other \in Buffer, MoveAssign(b, other)
       PROVE  Abstract!ANext
  BY <1>13, MoveAssignImplements DEF MoveAssign, Abstract!ANext
<1>14. ASSUME NEW b \in Buffer, NEW other \in Buffer, Swap(b, other)
       PROVE  Abstract!ANext
  BY <1>14, SwapImplements DEF Swap, Abstract!ANext
<1> QED
  BY <1>1, <1>2, <1>3, <1>4, <1>5, <1>6, <1>7, <1>8, <1>9, <1>10, <1>11, <1>12, <1>13, <1>14
     DEF Next

\* basic_buffer is a serialise_buffer with value semantics: extend() keeps the
\* bytes, moves and swaps transfer them, no operation on one buffer changes
\* another, and an operation that throws changes nothing (common.hpp:32-47 and
\* the comments of buffers.hpp).
THEOREM BuffersHaveValueSemantics == Spec => ImplementsSerialiseBuffer
<1>1. Init => Abstract!AInit
  BY DEF Init, Abstract!AInit, Value, Dead
<1>2. BufferInv /\ BufferInv' /\ [Next]_vars => [Abstract!ANext]_(Abstract!avars)
  BY NextImplements
<1> QED
  BY <1>1, <1>2, BufferInvHolds, PTL DEF Spec, ImplementsSerialiseBuffer, Abstract!Spec
=============================================================================
