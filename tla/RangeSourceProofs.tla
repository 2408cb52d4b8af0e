--------------------------- MODULE RangeSourceProofs ---------------------------
(***************************************************************************)
(* Theorems about serialise_source<dynamic_array<T>>, for any number of    *)
(* sources, containers and elements: elements and heap blocks have one     *)
(* owner, and the sources are what ElementSource promises.                 *)
(***************************************************************************)
EXTENDS RangeSource, TLAPS

\* The parts support each other: what a source releases is its own because of
\* OneOwner, and is there to be found because of VisitorKnowsType.
RangeInv == TypeOK /\ OneOwner /\ VisitorKnowsType

-----------------------------------------------------------------------------
\* What follows from the invariant in one state.

LEMMA Records ==
    /\ \A x : Owning(x) # Nothing /\ Owning(x).kind = "owning" /\ Owning(x).at = x
    /\ \A b : Owner(b).kind = "owner" /\ Owner(b).at = b
    /\ \A c : View(c).kind = "view" /\ View(c).at = c
BY DEF Owning, Owner, View, Nothing

\* What a source holds, by what its visitor says.
LEMMA SourceFacts ==
    ASSUME RangeInv, NEW s \in Source
    PROVE  /\ visitor[s] \in {"absent", "none", "range", "owner"}
           /\ RangeOf(s) \in AnyRange
           /\ StoresOf(s) \subseteq Store /\ BlocksOf(s) \subseteq Block
           /\ \A x \in Store : x \in StoresOf(s) <=> RangeOf(s) = Owning(x)
           /\ visitor[s] \in {"absent", "none"} => /\ RangeOf(s) = Nothing
                                                   /\ StoresOf(s) = {} /\ BlocksOf(s) = {}
           /\ visitor[s] = "range" => RangeOf(s) = data[s] /\ BlocksOf(s) = {}
           /\ visitor[s] = "owner" => /\ data[s].at \in Block /\ data[s] = Owner(data[s].at)
                                      /\ BlocksOf(s) = {data[s].at}
                                      /\ RangeOf(s) = heap[data[s].at]
<1>1. /\ visitor[s] \in {"absent", "none", "range", "owner"}
      /\ data[s] \in AnyRange \cup {Owner(b) : b \in Block \cup {Null}}
      /\ \A b \in Block : heap[b] \in {Nothing} \cup StoredRange
  BY DEF RangeInv, TypeOK, StoredRange
<1>2. CASE visitor[s] \in {"absent", "none"}
  <2>1. RangeOf(s) = Nothing /\ BlocksOf(s) = {}
    BY <1>2 DEF RangeOf, BlocksOf
  <2>2. StoresOf(s) = {}
    BY <2>1 DEF StoresOf, Nothing
  <2> QED
    BY <1>2, <2>1, <2>2 DEF AnyRange, Nothing, Owning
<1>3. CASE visitor[s] = "range"
  <2>1. RangeOf(s) = data[s] /\ BlocksOf(s) = {}
    BY <1>3 DEF RangeOf, BlocksOf
  <2>2. data[s] \in AnyRange
    BY <1>1, <1>3 DEF RangeInv, VisitorKnowsType, Owner, AnyRange
  <2>3. StoresOf(s) \subseteq Store /\ \A x \in Store : x \in StoresOf(s) <=> RangeOf(s) = Owning(x)
    BY <2>1, <2>2, StorageAssumption DEF StoresOf, AnyRange, Nothing, View, Owning
  <2> QED
    BY <1>3, <2>1, <2>2, <2>3
<1>4. CASE visitor[s] = "owner"
  <2>1. data[s].kind = "owner" /\ data[s].at \in Block
    BY <1>4 DEF RangeInv, VisitorKnowsType
  <2>2. data[s] = Owner(data[s].at)
    BY <1>1, <2>1 DEF AnyRange, Nothing, View, Owning, Owner
  <2>3. BlocksOf(s) = {data[s].at} /\ RangeOf(s) = heap[data[s].at]
    BY <1>4, <2>1, StorageAssumption DEF BlocksOf, RangeOf
  <2>4. RangeOf(s) \in AnyRange
    BY <1>1, <2>1, <2>3 DEF AnyRange, StoredRange
  <2>5. StoresOf(s) \subseteq Store /\ \A x \in Store : x \in StoresOf(s) <=> RangeOf(s) = Owning(x)
    BY <2>4, StorageAssumption DEF StoresOf, AnyRange, Nothing, View, Owning
  <2> QED
    BY <1>4, <2>1, <2>2, <2>3, <2>4, <2>5
<1> QED
  BY <1>1, <1>2, <1>3, <1>4

LEMMA InHolders ==
    ASSUME NEW x \in Store
    PROVE  /\ \A c \in Container : c \in HoldersOf(x) <=> container[c] = x
           /\ \A s \in Source : s \in HoldersOf(x) <=> x \in StoresOf(s)
BY ContainerAssumption DEF HoldersOf

\* What a source holds, nobody else does.
LEMMA HeldByOne ==
    ASSUME RangeInv, NEW s \in Source
    PROVE  /\ \A x \in StoresOf(s) : HoldersOf(x) = {s} /\ elements[x] \in Nat
           /\ \A b \in BlocksOf(s) : OwnersOf(b) = {s} /\ heap[b] # Nothing
<1>1. ASSUME NEW x \in StoresOf(s)
      PROVE  HoldersOf(x) = {s} /\ elements[x] \in Nat
  <2>1. x \in Store /\ s \in HoldersOf(x)
    BY SourceFacts, InHolders
  <2>2. elements[x] # Free /\ \E h \in Container \cup Source : HoldersOf(x) = {h}
    BY <2>1 DEF RangeInv, OneOwner
  <2> QED
    BY <2>1, <2>2 DEF RangeInv, TypeOK
<1>2. ASSUME NEW b \in BlocksOf(s)
      PROVE  OwnersOf(b) = {s} /\ heap[b] # Nothing
  <2>1. b \in Block /\ s \in OwnersOf(b)
    BY SourceFacts DEF OwnersOf
  <2>2. heap[b] # Nothing /\ \E r \in Source : OwnersOf(b) = {r}
    BY <2>1 DEF RangeInv, OneOwner
  <2> QED
    BY <2>1, <2>2 DEF RangeInv, TypeOK
<1> QED
  BY <1>1, <1>2

LEMMA HeldByContainer ==
    ASSUME RangeInv, NEW c \in Container
    PROVE  /\ container[c] \in Store \cup {NoStore}
           /\ container[c] # NoStore => /\ container[c] \in Store
                                        /\ HoldersOf(container[c]) = {c}
                                        /\ elements[container[c]] \in Nat
           /\ Size(container[c]) \in Nat
<1>1. container[c] \in Store \cup {NoStore}
  BY DEF RangeInv, TypeOK
<1>2. ASSUME container[c] # NoStore
      PROVE  HoldersOf(container[c]) = {c} /\ elements[container[c]] \in Nat
  <2>1. c \in HoldersOf(container[c])
    BY <1>1, <1>2, InHolders
  <2>2. /\ elements[container[c]] # Free
        /\ \E h \in Container \cup Source : HoldersOf(container[c]) = {h}
    BY <1>1, <1>2, <2>1 DEF RangeInv, OneOwner
  <2> QED
    BY <1>1, <1>2, <2>1, <2>2 DEF RangeInv, TypeOK
<1> QED
  BY <1>1, <1>2 DEF Size

\* What a source is to its user follows from the range it has.
LEMMA UserFacts ==
    ASSUME RangeInv, NEW s \in Source
    PROVE  /\ visitor[s] = "absent" => UserSource(s) = Elements!Absent
           /\ visitor[s] # "absent" /\ RangeOf(s) = Nothing => UserSource(s) = Elements!Owns(0)
           /\ \A c \in Container : visitor[s] # "absent" /\ RangeOf(s) = View(c)
                  => UserSource(s) = Elements!View(c)
           /\ \A x \in Store \cup {NoStore} : visitor[s] # "absent" /\ RangeOf(s) = Owning(x)
                  => UserSource(s) = Elements!Owns(Size(x))
           /\ visitor[s] # "absent" => UserSource(s) # Elements!Absent
BY SourceFacts DEF UserSource, Elements!Absent, Elements!Owns, Elements!View, Nothing, View,
   Owning, RangeSize

-----------------------------------------------------------------------------
\* What a step does to one source.

\* Nothing, if it leaves alone what the source holds.
LEMMA SourceKept ==
    ASSUME RangeInv, NEW s \in Source, visitor'[s] = visitor[s], data'[s] = data[s],
           \A b \in BlocksOf(s) : heap'[b] = heap[b],
           \A x \in StoresOf(s) : elements'[x] = elements[x]
    PROVE  /\ RangeOf(s)' = RangeOf(s) /\ StoresOf(s)' = StoresOf(s)
           /\ BlocksOf(s)' = BlocksOf(s) /\ UserSource(s)' = UserSource(s)
<1>1. BlocksOf(s)' = BlocksOf(s)
  BY DEF BlocksOf
<1>2. RangeOf(s)' = RangeOf(s)
  <2>1. CASE visitor[s] = "owner"
    BY <2>1, SourceFacts, StorageAssumption DEF RangeOf
  <2>2. CASE visitor[s] # "owner"
    BY <2>2 DEF RangeOf
  <2> QED
    BY <2>1, <2>2
<1>3. StoresOf(s)' = StoresOf(s)
  BY <1>2 DEF StoresOf
<1>4. UserSource(s)' = UserSource(s)
  <2>1. RangeOf(s).kind = "owning" => RangeSize(RangeOf(s))' = RangeSize(RangeOf(s))
    <3> SUFFICES ASSUME RangeOf(s).kind = "owning"
                 PROVE  RangeSize(RangeOf(s))' = RangeSize(RangeOf(s))
      OBVIOUS
    <3>1. RangeOf(s).at = NoStore \/ RangeOf(s).at \in StoresOf(s)
      BY DEF StoresOf
    <3> QED
      BY <1>2, <3>1 DEF RangeSize, Size
  <2> QED
    BY <1>2, <2>1 DEF UserSource
<1> QED
  BY <1>1, <1>2, <1>3, <1>4

LEMMA BecomesEmpty ==
    ASSUME NEW s \in Source, visitor'[s] \in {"absent", "none"}
    PROVE  /\ RangeOf(s)' = Nothing /\ StoresOf(s)' = {} /\ BlocksOf(s)' = {}
           /\ UserSource(s)' = IF visitor'[s] = "absent" THEN Elements!Absent
                               ELSE Elements!Owns(0)
<1>1. RangeOf(s)' = Nothing
  BY DEF RangeOf
<1> QED
  BY <1>1 DEF StoresOf, BlocksOf, Nothing, UserSource, Elements!Absent, Elements!Owns

LEMMA BecomesView ==
    ASSUME NEW s \in Source, NEW c \in Container, visitor'[s] = "range", data'[s] = View(c)
    PROVE  /\ RangeOf(s)' = View(c) /\ StoresOf(s)' = {} /\ BlocksOf(s)' = {}
           /\ UserSource(s)' = Elements!View(c)
<1>1. RangeOf(s)' = View(c)
  BY DEF RangeOf
<1> QED
  BY <1>1 DEF StoresOf, BlocksOf, View, UserSource, Elements!View

\* The inline buffer, or block b, gets the range r.
LEMMA HasRange ==
    ASSUME NEW s \in Source, NEW r,
           \/ visitor'[s] = "range" /\ data'[s] = r
           \/ /\ visitor'[s] = "owner"
              /\ \E b \in Block : data'[s] = Owner(b) /\ heap'[b] = r
    PROVE  /\ visitor'[s] # "absent" /\ RangeOf(s)' = r
           /\ BlocksOf(s)' = IF visitor'[s] = "owner" THEN {data'[s].at} ELSE {}
<1>1. CASE visitor'[s] = "range"
  BY <1>1 DEF RangeOf, BlocksOf
<1>2. CASE visitor'[s] = "owner"
  <2>1. PICK b \in Block : data'[s] = Owner(b) /\ heap'[b] = r
    BY <1>2
  <2>2. data'[s].at = b /\ b # Null
    BY <2>1, StorageAssumption DEF Owner
  <2> QED
    BY <1>2, <2>1, <2>2 DEF RangeOf, BlocksOf
<1> QED
  BY <1>1, <1>2

\* The inline buffer, or block b, gets a range that owns x.
LEMMA BecomesOwning ==
    ASSUME NEW s \in Source, NEW x \in Store \cup {NoStore},
           \/ visitor'[s] = "range" /\ data'[s] = Owning(x)
           \/ /\ visitor'[s] = "owner"
              /\ \E b \in Block : data'[s] = Owner(b) /\ heap'[b] = Owning(x)
    PROVE  /\ RangeOf(s)' = Owning(x) /\ StoresOf(s)' = {x} \ {NoStore}
           /\ BlocksOf(s)' = IF visitor'[s] = "owner" THEN {data'[s].at} ELSE {}
           /\ UserSource(s)' = Elements!Owns(Size(x)')
<1>1. /\ RangeOf(s)' = Owning(x)
      /\ BlocksOf(s)' = IF visitor'[s] = "owner" THEN {data'[s].at} ELSE {}
      /\ visitor'[s] # "absent"
  BY HasRange
<1>2. Owning(x).kind = "owning" /\ Owning(x).at = x
  BY DEF Owning
<1>3. UserSource(s)' = Elements!Owns(Size(x)')
  BY <1>1, <1>2 DEF UserSource, Elements!Owns, RangeSize, Size
<1> QED
  BY <1>1, <1>2, <1>3 DEF StoresOf

\* The holders of a store after a step.
LEMMA SameHolders ==
    ASSUME NEW x \in Store, \A c \in Container : container'[c] = x <=> container[c] = x,
           \A s \in Source : x \in StoresOf(s)' <=> x \in StoresOf(s)
    PROVE  HoldersOf(x)' = HoldersOf(x)
BY DEF HoldersOf

LEMMA OneHolder ==
    ASSUME NEW x \in Store, NEW h \in Container \cup Source,
           \A c \in Container : container'[c] = x <=> c = h,
           \A s \in Source : x \in StoresOf(s)' <=> s = h
    PROVE  HoldersOf(x)' = {h}
BY DEF HoldersOf

LEMMA OneOwnerAfter ==
    ASSUME \A x \in Store : IF elements'[x] = Free THEN HoldersOf(x)' = {}
                            ELSE \E h \in Container \cup Source : HoldersOf(x)' = {h},
           \A b \in Block : IF heap'[b] = Nothing THEN OwnersOf(b)' = {}
                            ELSE \E s \in Source : OwnersOf(b)' = {s}
    PROVE  OneOwner'
BY DEF OneOwner

-----------------------------------------------------------------------------
\* The refinement mapping after a step.

LEMMA UsersChange ==
    ASSUME NEW s \in Source, NEW v, UserSource(s)' = v,
           \A r \in Source \ {s} : UserSource(r)' = UserSource(r)
    PROVE  UserSources' = [UserSources EXCEPT ![s] = v]
BY DEF UserSources

LEMMA UsersKept ==
    ASSUME \A r \in Source : UserSource(r)' = UserSource(r)
    PROVE  UserSources' = UserSources
BY DEF UserSources

LEMMA ContentsChange ==
    ASSUME NEW c \in Container, NEW n, Size(container[c])' = n,
           \A d \in Container \ {c} : Size(container[d])' = Size(container[d])
    PROVE  Contents' = [Contents EXCEPT ![c] = n]
BY DEF Contents

LEMMA ContentsKept ==
    ASSUME \A d \in Container : Size(container[d])' = Size(container[d])
    PROVE  Contents' = Contents
BY DEF Contents

\* What a container has changes only with the container or its store.
LEMMA ContainerKept ==
    ASSUME NEW c \in Container, container'[c] = container[c],
           container[c] # NoStore => elements'[container[c]] = elements[container[c]]
    PROVE  Size(container[c])' = Size(container[c])
BY DEF Size

-----------------------------------------------------------------------------
\* The operations: each keeps the invariant and is what it should be to the
\* user.

LEMMA AssignStep ==
    ASSUME RangeInv, NEW c \in Container, NEW n \in 0 .. MaxSize, Assign(c, n)
    PROVE  RangeInv' /\ Elements!Assign(c, n)
<1>1. PICK x \in Store :
          /\ IF container[c] = NoStore THEN elements[x] = Free ELSE x = container[c]
          /\ container' = [container EXCEPT ![c] = x]
          /\ elements' = [elements EXCEPT ![x] = n]
  BY DEF Assign
<1>2. UNCHANGED <<visitor, data, heap>> /\ out' = Returned
  BY DEF Assign
<1>3. /\ container \in [Container -> Store \cup {NoStore}]
      /\ elements \in [Store -> Nat \cup {Free}] /\ n \in Nat
  BY SizeAssumption DEF RangeInv, TypeOK
<1>4. HoldersOf(x) \subseteq {c}
  BY <1>1, <1>3, HeldByContainer DEF RangeInv, OneOwner
<1>5. \A r \in Source : x \notin StoresOf(r)
  BY <1>4, InHolders, ContainerAssumption
<1>6. \A r \in Source : /\ RangeOf(r)' = RangeOf(r) /\ StoresOf(r)' = StoresOf(r)
                        /\ BlocksOf(r)' = BlocksOf(r) /\ UserSource(r)' = UserSource(r)
  <2> SUFFICES ASSUME NEW r \in Source
               PROVE  /\ RangeOf(r)' = RangeOf(r) /\ StoresOf(r)' = StoresOf(r)
                      /\ BlocksOf(r)' = BlocksOf(r) /\ UserSource(r)' = UserSource(r)
    OBVIOUS
  <2>1. \A y \in StoresOf(r) : elements'[y] = elements[y]
    BY <1>1, <1>3, <1>5, SourceFacts
  <2> QED
    BY <1>2, <2>1, SourceKept
<1>7. \A d \in Container : d # c => container'[d] = container[d] /\ container[d] # x
  BY <1>1, <1>3, <1>4, InHolders
<1>8. HoldersOf(x)' = {c}
  BY <1>1, <1>3, <1>5, <1>6, <1>7, OneHolder, ContainerAssumption
<1>9. ASSUME NEW y \in Store, y # x
      PROVE  HoldersOf(y)' = HoldersOf(y) /\ elements'[y] = elements[y]
  <2>1. container[c] # y /\ container'[c] # y
    BY <1>1, <1>3, <1>9, StorageAssumption
  <2>2. \A d \in Container : container'[d] = y <=> container[d] = y
    BY <1>7, <2>1
  <2> QED
    BY <1>1, <1>3, <1>6, <1>9, <2>2, SameHolders
<1>10. OneOwner'
  <2>1. \A y \in Store : IF elements'[y] = Free THEN HoldersOf(y)' = {}
                         ELSE \E h \in Container \cup Source : HoldersOf(y)' = {h}
    BY <1>1, <1>3, <1>8, <1>9 DEF RangeInv, OneOwner, Free
  <2>2. \A b \in Block : OwnersOf(b)' = OwnersOf(b)
    BY <1>6 DEF OwnersOf
  <2> QED
    BY <1>2, <2>1, <2>2, OneOwnerAfter DEF RangeInv, OneOwner
<1>11. TypeOK' /\ VisitorKnowsType'
  BY <1>1, <1>2, <1>3 DEF RangeInv, TypeOK, VisitorKnowsType
<1>12. UserSources' = UserSources
  BY <1>6, UsersKept
<1>13. Contents' = [Contents EXCEPT ![c] = n]
  <2>1. Size(container[c])' = n
    BY <1>1, <1>3, StorageAssumption DEF Size
  <2>2. \A d \in Container \ {c} : Size(container[d])' = Size(container[d])
    BY <1>1, <1>3, <1>7, ContainerKept
  <2> QED
    BY <2>1, <2>2, ContentsChange
<1> QED
  BY <1>2, <1>10, <1>11, <1>12, <1>13
  DEF RangeInv, Elements!Assign, Elements!Returned, Returned

\* A source is made that owns nothing.
LEMMA MakeEmpty ==
    ASSUME RangeInv, NEW s \in Source, visitor[s] \in {"absent", "none"},
           visitor' = [visitor EXCEPT ![s] = "none"], data' = [data EXCEPT ![s] = Nothing],
           out' = Returned, UNCHANGED <<heap, container, elements>>
    PROVE  RangeInv' /\ UserSources' = [UserSources EXCEPT ![s] = Elements!Owns(0)]
           /\ Contents' = Contents
<1>1. /\ visitor \in [Source -> {"absent", "none", "range", "owner"}]
      /\ data \in [Source -> AnyRange \cup {Owner(b) : b \in Block \cup {Null}}]
  BY DEF RangeInv, TypeOK
<1>2. \A r \in Source \ {s} : visitor'[r] = visitor[r] /\ data'[r] = data[r]
  BY <1>1
<1>3. \A r \in Source \ {s} : /\ StoresOf(r)' = StoresOf(r) /\ BlocksOf(r)' = BlocksOf(r)
                              /\ UserSource(r)' = UserSource(r)
  BY <1>2, SourceKept
<1>4. /\ visitor'[s] = "none" /\ StoresOf(s)' = {} /\ BlocksOf(s)' = {}
      /\ UserSource(s)' = Elements!Owns(0)
  BY <1>1, BecomesEmpty
<1>5. StoresOf(s) = {} /\ BlocksOf(s) = {}
  BY SourceFacts
<1>6. \A x \in Store : HoldersOf(x)' = HoldersOf(x)
  BY <1>3, <1>4, <1>5, SameHolders
<1>7. \A b \in Block : OwnersOf(b)' = OwnersOf(b)
  BY <1>3, <1>4, <1>5 DEF OwnersOf
<1>8. OneOwner'
  BY <1>6, <1>7, OneOwnerAfter DEF RangeInv, OneOwner
<1>9. TypeOK'
  BY <1>1 DEF RangeInv, TypeOK, AnyRange
<1>10. VisitorKnowsType'
  BY <1>2, <1>4 DEF RangeInv, VisitorKnowsType
<1> QED
  BY <1>3, <1>4, <1>8, <1>9, <1>10, UsersChange, ContentsKept, ContainerKept DEF RangeInv

LEMMA ConstructViewStep ==
    ASSUME RangeInv, NEW s \in Source, NEW c \in Container, ConstructView(s, c)
    PROVE  RangeInv' /\ Elements!Construct(s)
<1>1. /\ visitor \in [Source -> {"absent", "none", "range", "owner"}]
      /\ data \in [Source -> AnyRange \cup {Owner(b) : b \in Block \cup {Null}}]
  BY DEF RangeInv, TypeOK
<1>2. /\ visitor[s] = "absent" /\ visitor' = [visitor EXCEPT ![s] = "range"]
      /\ data' = [data EXCEPT ![s] = View(c)] /\ out' = Returned
      /\ UNCHANGED <<heap, container, elements>>
  BY DEF ConstructView
<1>3. \A r \in Source \ {s} : visitor'[r] = visitor[r] /\ data'[r] = data[r]
  BY <1>1, <1>2
<1>4. \A r \in Source \ {s} : /\ StoresOf(r)' = StoresOf(r) /\ BlocksOf(r)' = BlocksOf(r)
                              /\ UserSource(r)' = UserSource(r)
  BY <1>2, <1>3, SourceKept
<1>5. /\ visitor'[s] = "range" /\ data'[s] = View(c)
      /\ StoresOf(s)' = {} /\ BlocksOf(s)' = {} /\ UserSource(s)' = Elements!View(c)
  BY <1>1, <1>2, BecomesView
<1>6. StoresOf(s) = {} /\ BlocksOf(s) = {}
  BY <1>2, SourceFacts
<1>7. \A x \in Store : HoldersOf(x)' = HoldersOf(x)
  BY <1>2, <1>4, <1>5, <1>6, SameHolders
<1>8. \A b \in Block : OwnersOf(b)' = OwnersOf(b)
  BY <1>4, <1>5, <1>6 DEF OwnersOf
<1>9. OneOwner'
  BY <1>2, <1>7, <1>8, OneOwnerAfter DEF RangeInv, OneOwner
<1>10. TypeOK'
  BY <1>1, <1>2 DEF RangeInv, TypeOK, AnyRange
<1>11. VisitorKnowsType'
  BY <1>3, <1>5 DEF RangeInv, VisitorKnowsType, View
<1>12. UserSources' = [UserSources EXCEPT ![s] = Elements!View(c)] /\ Contents' = Contents
  BY <1>2, <1>4, <1>5, UsersChange, ContentsKept, ContainerKept
<1>13. UserSources[s] = Elements!Absent
  BY <1>2, UserFacts DEF UserSources
<1> QED
  BY <1>2, <1>9, <1>10, <1>11, <1>12, <1>13
  DEF RangeInv, Elements!Construct, Elements!Becomes, Elements!Returned, Returned

\* Source s gets the range r, in its inline buffer or in a new block; what the
\* others have stays.
LEMMA PutRange ==
    ASSUME RangeInv, NEW s \in Source, visitor[s] = "absent", NEW r \in StoredRange,
           NEW small \in BOOLEAN, Put(s, r, small),
           elements' \in [Store -> Nat \cup {Free}],
           \A q \in Source : \A y \in StoresOf(q) : elements'[y] = elements[y],
           container' \in [Container -> Store \cup {NoStore}],
           out' = Returned
    PROVE  /\ TypeOK' /\ VisitorKnowsType'
           /\ visitor'[s] # "absent" /\ RangeOf(s)' = r
           /\ StoresOf(s) = {}
           /\ \A q \in Source \ {s} : StoresOf(q)' = StoresOf(q) /\ UserSource(q)' = UserSource(q)
           /\ \A b \in Block : IF heap'[b] = Nothing THEN OwnersOf(b)' = {}
                               ELSE \E q \in Source : OwnersOf(b)' = {q}
<1>1. /\ visitor \in [Source -> {"absent", "none", "range", "owner"}]
      /\ data \in [Source -> AnyRange \cup {Owner(b) : b \in Block \cup {Null}}]
      /\ heap \in [Block -> {Nothing} \cup StoredRange]
  BY DEF RangeInv, TypeOK
<1>2. r \in AnyRange /\ r # Nothing /\ r.kind \in {"view", "owning"}
  BY DEF StoredRange, AnyRange, Nothing, View, Owning
<1>3. \/ /\ visitor' = [visitor EXCEPT ![s] = "range"]
         /\ data' = [data EXCEPT ![s] = r] /\ heap' = heap
      \/ \E b \in Block : /\ heap[b] = Nothing
                          /\ visitor' = [visitor EXCEPT ![s] = "owner"]
                          /\ data' = [data EXCEPT ![s] = Owner(b)]
                          /\ heap' = [heap EXCEPT ![b] = r]
  BY DEF Put
<1>4. /\ visitor' \in [Source -> {"absent", "none", "range", "owner"}]
      /\ data' \in [Source -> AnyRange \cup {Owner(b) : b \in Block \cup {Null}}]
      /\ heap' \in [Block -> {Nothing} \cup StoredRange]
      /\ \A q \in Source \ {s} : visitor'[q] = visitor[q] /\ data'[q] = data[q]
  BY <1>1, <1>2, <1>3
<1>5. \/ visitor'[s] = "range" /\ data'[s] = r /\ heap' = heap
      \/ /\ visitor'[s] = "owner"
         /\ \E b \in Block : /\ heap[b] = Nothing
                             /\ data'[s] = Owner(b) /\ heap'[b] = r
                             /\ \A a \in Block \ {b} : heap'[a] = heap[a]
  BY <1>1, <1>3
<1>6. /\ visitor'[s] # "absent" /\ RangeOf(s)' = r
      /\ BlocksOf(s)' = IF visitor'[s] = "owner" THEN {data'[s].at} ELSE {}
  BY <1>5, HasRange
<1>7. \A q \in Source \ {s} : /\ StoresOf(q)' = StoresOf(q) /\ BlocksOf(q)' = BlocksOf(q)
                              /\ UserSource(q)' = UserSource(q)
  <2> SUFFICES ASSUME NEW q \in Source \ {s}
               PROVE  /\ StoresOf(q)' = StoresOf(q) /\ BlocksOf(q)' = BlocksOf(q)
                      /\ UserSource(q)' = UserSource(q)
    OBVIOUS
  <2>1. \A b \in BlocksOf(q) : heap[b] # Nothing
    BY HeldByOne
  <2>2. \A b \in BlocksOf(q) : heap'[b] = heap[b]
    BY <1>5, <2>1, SourceFacts
  <2> QED
    BY <1>4, <2>2, SourceKept
<1>8. StoresOf(s) = {} /\ BlocksOf(s) = {}
  BY SourceFacts
<1>9. ASSUME NEW b \in Block
      PROVE  IF heap'[b] = Nothing THEN OwnersOf(b)' = {}
             ELSE \E q \in Source : OwnersOf(b)' = {q}
  <2>1. CASE visitor'[s] = "owner" /\ b = data'[s].at
    <3>1. heap[b] = Nothing /\ heap'[b] = r
      BY <1>5, <2>1, Records
    <3>2. OwnersOf(b) = {}
      BY <3>1 DEF RangeInv, OneOwner
    <3>3. OwnersOf(b)' = {s}
      BY <1>6, <1>7, <2>1, <3>2 DEF OwnersOf
    <3> QED
      BY <1>2, <3>1, <3>3
  <2>2. CASE ~(visitor'[s] = "owner" /\ b = data'[s].at)
    <3>1. heap'[b] = heap[b]
      BY <1>5, <2>2, Records
    <3>2. OwnersOf(b)' = OwnersOf(b)
      BY <1>6, <1>7, <1>8, <2>2 DEF OwnersOf
    <3> QED
      BY <3>1, <3>2 DEF RangeInv, OneOwner
  <2> QED
    BY <2>1, <2>2
<1>10. TypeOK'
  BY <1>4 DEF TypeOK, StoredRange
<1>11. VisitorKnowsType'
  BY <1>2, <1>4, <1>5 DEF RangeInv, VisitorKnowsType, Owner
<1> QED
  BY <1>6, <1>7, <1>8, <1>9, <1>10, <1>11

\* Source s gets a range that owns the store x, which no source has and no
\* container keeps.
LEMMA PutStep ==
    ASSUME RangeInv, NEW s \in Source, visitor[s] = "absent", NEW x \in Store,
           NEW small \in BOOLEAN, Put(s, Owning(x), small),
           \A r \in Source : x \notin StoresOf(r),
           elements' \in [Store -> Nat \cup {Free}], elements'[x] \in Nat,
           \A y \in Store : y # x => elements'[y] = elements[y],
           container' \in [Container -> Store \cup {NoStore}],
           \A c \in Container : container'[c] # x,
           \A y \in Store : y # x => \A c \in Container : container'[c] = y <=> container[c] = y,
           out' = Returned
    PROVE  /\ RangeInv'
           /\ UserSources' = [UserSources EXCEPT ![s] = Elements!Owns(elements'[x])]
<1>1. Owning(x) \in StoredRange
  BY DEF StoredRange
<1>2. \A q \in Source : \A y \in StoresOf(q) : elements'[y] = elements[y]
  BY SourceFacts
<1>3. /\ TypeOK' /\ VisitorKnowsType'
      /\ visitor'[s] # "absent" /\ RangeOf(s)' = Owning(x)
      /\ StoresOf(s) = {}
      /\ \A q \in Source \ {s} : StoresOf(q)' = StoresOf(q) /\ UserSource(q)' = UserSource(q)
      /\ \A b \in Block : IF heap'[b] = Nothing THEN OwnersOf(b)' = {}
                          ELSE \E q \in Source : OwnersOf(b)' = {q}
  BY <1>1, <1>2, PutRange
<1>4. StoresOf(s)' = {x} /\ UserSource(s)' = Elements!Owns(elements'[x])
  BY <1>3, Records, StorageAssumption
  DEF StoresOf, UserSource, Elements!Owns, RangeSize, Size
<1>5. HoldersOf(x)' = {s}
  BY <1>3, <1>4, OneHolder, ContainerAssumption
<1>6. \A y \in Store : y # x => HoldersOf(y)' = HoldersOf(y)
  BY <1>3, <1>4, SameHolders
<1>7. \A y \in Store : IF elements'[y] = Free THEN HoldersOf(y)' = {}
                       ELSE \E h \in Container \cup Source : HoldersOf(y)' = {h}
  BY <1>5, <1>6 DEF RangeInv, OneOwner, Free
<1>8. OneOwner'
  BY <1>3, <1>7, OneOwnerAfter
<1> QED
  BY <1>3, <1>4, <1>8, UsersChange DEF RangeInv

LEMMA ConstructAdaptorStep ==
    ASSUME RangeInv, NEW s \in Source, NEW c \in Container, NEW small \in BOOLEAN,
           ConstructAdaptor(s, c, small)
    PROVE  RangeInv' /\ Elements!Construct(s)
<1>1. visitor[s] = "absent" /\ out' = Returned /\ UNCHANGED <<container, elements>>
  BY DEF ConstructAdaptor
<1>2. /\ container \in [Container -> Store \cup {NoStore}]
      /\ elements \in [Store -> Nat \cup {Free}]
  BY DEF RangeInv, TypeOK
<1>3. UserSources[s] = Elements!Absent
  BY <1>1, UserFacts DEF UserSources
<1>4. CASE Size(container[c]) = 0
  <2>1. /\ visitor' = [visitor EXCEPT ![s] = "none"] /\ data' = [data EXCEPT ![s] = Nothing]
        /\ UNCHANGED heap
    BY <1>4 DEF ConstructAdaptor
  <2>2. /\ RangeInv' /\ UserSources' = [UserSources EXCEPT ![s] = Elements!Owns(0)]
        /\ Contents' = Contents
    BY <1>1, <2>1, MakeEmpty
  <2>3. 0 \in 0 .. MaxSize
    BY SizeAssumption
  <2> QED
    BY <1>1, <1>3, <2>2, <2>3
    DEF Elements!Construct, Elements!Becomes, Elements!Returned, Returned
<1>5. CASE Size(container[c]) # 0
  <2>1. Put(s, View(c), small)
    BY <1>5 DEF ConstructAdaptor
  <2>2. View(c) \in StoredRange
    BY DEF StoredRange
  <2>3. \A q \in Source : \A y \in StoresOf(q) : elements'[y] = elements[y]
    BY <1>1
  <2>4. /\ TypeOK' /\ VisitorKnowsType'
        /\ visitor'[s] # "absent" /\ RangeOf(s)' = View(c)
        /\ StoresOf(s) = {}
        /\ \A q \in Source \ {s} : StoresOf(q)' = StoresOf(q) /\ UserSource(q)' = UserSource(q)
        /\ \A b \in Block : IF heap'[b] = Nothing THEN OwnersOf(b)' = {}
                            ELSE \E q \in Source : OwnersOf(b)' = {q}
    BY <1>1, <1>2, <2>1, <2>2, <2>3, PutRange
  <2>5. StoresOf(s)' = {} /\ UserSource(s)' = Elements!View(c)
    BY <2>4, Records DEF StoresOf, UserSource, Elements!View
  <2>6. \A x \in Store : HoldersOf(x)' = HoldersOf(x)
    BY <1>1, <2>4, <2>5, SameHolders
  <2>7. OneOwner'
    BY <1>1, <2>4, <2>6, OneOwnerAfter DEF RangeInv, OneOwner
  <2>8. UserSources' = [UserSources EXCEPT ![s] = Elements!View(c)] /\ Contents' = Contents
    BY <1>1, <2>4, <2>5, UsersChange, ContentsKept, ContainerKept
  <2> QED
    BY <1>1, <1>3, <2>4, <2>7, <2>8
    DEF RangeInv, Elements!Construct, Elements!Becomes, Elements!Returned, Returned
<1> QED
  BY <1>4, <1>5

LEMMA ConstructFromStep ==
    ASSUME RangeInv, NEW s \in Source, NEW c \in Container, ConstructFrom(s, c)
    PROVE  RangeInv' /\ Elements!Construct(s)
<1> DEFINE x == container[c]
<1>1. visitor[s] = "absent" /\ out' = Returned /\ elements' = elements
  BY DEF ConstructFrom
<1>2. /\ container \in [Container -> Store \cup {NoStore}]
      /\ elements \in [Store -> Nat \cup {Free}]
  BY DEF RangeInv, TypeOK
<1>3. UserSources[s] = Elements!Absent
  BY <1>1, UserFacts DEF UserSources
<1>4. Contents[c] = Size(x)
  BY DEF Contents
<1>5. CASE Size(x) = 0
  <2>1. /\ visitor' = [visitor EXCEPT ![s] = "none"] /\ data' = [data EXCEPT ![s] = Nothing]
        /\ UNCHANGED <<heap, container>>
    BY <1>5 DEF ConstructFrom
  <2>2. /\ RangeInv' /\ UserSources' = [UserSources EXCEPT ![s] = Elements!Owns(0)]
        /\ Contents' = Contents
    BY <1>1, <2>1, MakeEmpty
  <2>3. Elements!Becomes(s, Elements!Owns(Contents[c]), [Contents EXCEPT ![c] = 0])
    <3>1. [Contents EXCEPT ![c] = 0] = Contents
      BY <1>4, <1>5 DEF Contents
    <3> QED
      BY <1>1, <1>4, <1>5, <2>2, <3>1 DEF Elements!Becomes, Elements!Returned, Returned
  <2> QED
    BY <1>3, <2>2, <2>3 DEF Elements!Construct
<1>6. CASE Size(x) # 0
  <2>1. Put(s, Owning(x), c \notin Large) /\ container' = [container EXCEPT ![c] = NoStore]
    BY <1>6 DEF ConstructFrom
  <2>2. x # NoStore /\ Size(x) = elements[x]
    BY <1>6 DEF Size
  <2>3. x \in Store /\ HoldersOf(x) = {c} /\ elements[x] \in Nat
    BY <2>2, HeldByContainer
  <2>4. \A r \in Source : x \notin StoresOf(r)
    BY <2>3, InHolders, ContainerAssumption
  <2>5. \A d \in Container : d # c => container[d] # x /\ container'[d] = container[d]
    BY <1>2, <2>1, <2>3, InHolders
  <2>6. container'[c] = NoStore /\ container' \in [Container -> Store \cup {NoStore}]
    BY <1>2, <2>1
  <2>7. \A d \in Container : container'[d] # x
    BY <2>2, <2>5, <2>6
  <2>8. \A y \in Store : y # x => \A d \in Container : container'[d] = y <=> container[d] = y
    BY <2>5, <2>6, StorageAssumption
  <2> HIDE DEF x
  <2>9. RangeInv' /\ UserSources' = [UserSources EXCEPT ![s] = Elements!Owns(elements'[x])]
    BY <1>1, <1>2, <2>1, <2>3, <2>4, <2>6, <2>7, <2>8, PutStep
  <2>10. Contents' = [Contents EXCEPT ![c] = 0]
    <3>1. Size(container[c])' = 0
      BY <2>6 DEF Size
    <3>2. \A d \in Container \ {c} : Size(container[d])' = Size(container[d])
      BY <1>1, <2>5, ContainerKept
    <3> QED
      BY <3>1, <3>2, ContentsChange
  <2>11. Elements!Becomes(s, Elements!Owns(Contents[c]), [Contents EXCEPT ![c] = 0])
    BY <1>1, <1>4, <2>2, <2>9, <2>10 DEF Elements!Becomes, Elements!Returned, Returned
  <2> QED
    BY <1>3, <2>9, <2>11 DEF Elements!Construct
<1> QED
  BY <1>5, <1>6

LEMMA ConstructListStep ==
    ASSUME RangeInv, NEW s \in Source, NEW n \in 0 .. MaxSize, ConstructList(s, n)
    PROVE  RangeInv' /\ Elements!Construct(s)
<1>1. visitor[s] = "absent" /\ out' = Returned /\ container' = container
  BY DEF ConstructList
<1>2. /\ container \in [Container -> Store \cup {NoStore}]
      /\ elements \in [Store -> Nat \cup {Free}] /\ n \in Nat
  BY SizeAssumption DEF RangeInv, TypeOK
<1>3. UserSources[s] = Elements!Absent
  BY <1>1, UserFacts DEF UserSources
<1>4. CASE n = 0
  <2>1. /\ visitor' = [visitor EXCEPT ![s] = "none"] /\ data' = [data EXCEPT ![s] = Nothing]
        /\ UNCHANGED <<heap, elements>>
    BY <1>4 DEF ConstructList
  <2>2. /\ RangeInv' /\ UserSources' = [UserSources EXCEPT ![s] = Elements!Owns(0)]
        /\ Contents' = Contents
    BY <1>1, <2>1, MakeEmpty
  <2> QED
    BY <1>1, <1>3, <1>4, <2>2
    DEF Elements!Construct, Elements!Becomes, Elements!Returned, Returned
<1>5. CASE n # 0
  <2>1. PICK x \in Store : /\ elements[x] = Free /\ elements' = [elements EXCEPT ![x] = n]
                           /\ Put(s, Owning(x), n <= InlineSize)
    BY <1>5 DEF ConstructList
  <2>2. HoldersOf(x) = {}
    BY <2>1 DEF RangeInv, OneOwner
  <2>3. (\A r \in Source : x \notin StoresOf(r)) /\ \A c \in Container : container[c] # x
    BY <2>2, InHolders
  <2>4. /\ elements' \in [Store -> Nat \cup {Free}] /\ elements'[x] = n
        /\ \A y \in Store : y # x => elements'[y] = elements[y]
    BY <1>2, <2>1
  <2>5. RangeInv' /\ UserSources' = [UserSources EXCEPT ![s] = Elements!Owns(elements'[x])]
    <3> DEFINE small == n <= InlineSize
    <3>1. small \in BOOLEAN /\ Put(s, Owning(x), small)
      BY <2>1
    <3> HIDE DEF small
    <3> QED
      BY <1>1, <1>2, <2>3, <2>4, <3>1, PutStep
  <2>6. Contents' = Contents
    BY <1>1, <1>2, <2>3, <2>4, ContentsKept, ContainerKept
  <2> QED
    BY <1>1, <1>3, <2>4, <2>5, <2>6
    DEF Elements!Construct, Elements!Becomes, Elements!Returned, Returned
<1> QED
  BY <1>4, <1>5

\* What s holds is released; nobody else loses anything.
LEMMA ReleaseStep ==
    ASSUME RangeInv, NEW s \in Source, Release(StoresOf(s), BlocksOf(s)),
           \A r \in Source \ {s} : visitor'[r] = visitor[r] /\ data'[r] = data[r]
    PROVE  /\ elements' \in [Store -> Nat \cup {Free}]
           /\ heap' \in [Block -> {Nothing} \cup StoredRange]
           /\ \A x \in Store : elements'[x] = IF x \in StoresOf(s) THEN Free ELSE elements[x]
           /\ \A b \in Block : heap'[b] = IF b \in BlocksOf(s) THEN Nothing ELSE heap[b]
           /\ \A r \in Source \ {s} : /\ StoresOf(r)' = StoresOf(r) /\ BlocksOf(r)' = BlocksOf(r)
                                      /\ UserSource(r)' = UserSource(r)
           /\ \A c \in Container : container[c] # NoStore
                  => elements'[container[c]] = elements[container[c]]
<1>1. /\ elements \in [Store -> Nat \cup {Free}]
      /\ heap \in [Block -> {Nothing} \cup StoredRange]
  BY DEF RangeInv, TypeOK
<1>2. /\ elements' = [x \in Store |-> IF x \in StoresOf(s) THEN Free ELSE elements[x]]
      /\ heap' = [b \in Block |-> IF b \in BlocksOf(s) THEN Nothing ELSE heap[b]]
  BY DEF Release
<1>3. ASSUME NEW r \in Source \ {s}
      PROVE  /\ StoresOf(r)' = StoresOf(r) /\ BlocksOf(r)' = BlocksOf(r)
             /\ UserSource(r)' = UserSource(r)
  <2>1. \A x \in StoresOf(r) : elements'[x] = elements[x]
    <3>1. \A x \in StoresOf(r) : x \in Store /\ x \notin StoresOf(s)
      BY SourceFacts, HeldByOne
    <3> QED
      BY <1>2, <3>1
  <2>2. \A b \in BlocksOf(r) : heap'[b] = heap[b]
    <3>1. \A b \in BlocksOf(r) : b \in Block /\ b \notin BlocksOf(s)
      BY SourceFacts, HeldByOne
    <3> QED
      BY <1>2, <3>1
  <2> QED
    BY <2>1, <2>2, SourceKept
<1>4. ASSUME NEW c \in Container, container[c] # NoStore
      PROVE  elements'[container[c]] = elements[container[c]]
  <2>1. container[c] \in Store /\ container[c] \notin StoresOf(s)
    BY <1>4, HeldByContainer, InHolders, ContainerAssumption
  <2> QED
    BY <1>2, <2>1
<1> QED
  BY <1>1, <1>2, <1>3, <1>4

\* A source is left with nothing, or gone.
LEMMA ReleaseToEmpty ==
    ASSUME RangeInv, NEW s \in Source, NEW v \in {"absent", "none"},
           Release(StoresOf(s), BlocksOf(s)),
           visitor' = [visitor EXCEPT ![s] = v], data' = [data EXCEPT ![s] = Nothing],
           container' = container, out' \in {Returned, Threw}
    PROVE  /\ RangeInv' /\ Contents' = Contents
           /\ UserSources' = [UserSources EXCEPT
                  ![s] = IF v = "absent" THEN Elements!Absent ELSE Elements!Owns(0)]
<1>1. /\ visitor \in [Source -> {"absent", "none", "range", "owner"}]
      /\ data \in [Source -> AnyRange \cup {Owner(b) : b \in Block \cup {Null}}]
  BY DEF RangeInv, TypeOK
<1>2. \A r \in Source \ {s} : visitor'[r] = visitor[r] /\ data'[r] = data[r]
  BY <1>1
<1>3. /\ elements' \in [Store -> Nat \cup {Free}]
      /\ heap' \in [Block -> {Nothing} \cup StoredRange]
      /\ \A x \in Store : elements'[x] = IF x \in StoresOf(s) THEN Free ELSE elements[x]
      /\ \A b \in Block : heap'[b] = IF b \in BlocksOf(s) THEN Nothing ELSE heap[b]
      /\ \A r \in Source \ {s} : /\ StoresOf(r)' = StoresOf(r) /\ BlocksOf(r)' = BlocksOf(r)
                                 /\ UserSource(r)' = UserSource(r)
      /\ \A c \in Container : container[c] # NoStore
             => elements'[container[c]] = elements[container[c]]
  BY <1>2, ReleaseStep
<1>4. /\ visitor'[s] = v /\ StoresOf(s)' = {} /\ BlocksOf(s)' = {}
      /\ UserSource(s)' = IF v = "absent" THEN Elements!Absent ELSE Elements!Owns(0)
  BY <1>1, BecomesEmpty
<1>5. ASSUME NEW x \in Store
      PROVE  IF elements'[x] = Free THEN HoldersOf(x)' = {}
             ELSE \E h \in Container \cup Source : HoldersOf(x)' = {h}
  <2>1. CASE x \in StoresOf(s)
    <3>1. HoldersOf(x) = {s}
      BY <2>1, HeldByOne
    <3>2. HoldersOf(x)' = {}
      <4>1. \A c \in Container : container'[c] # x
        BY <3>1, InHolders, ContainerAssumption
      <4>2. \A r \in Source : x \notin StoresOf(r)'
        BY <1>3, <1>4, <3>1, InHolders
      <4> QED
        BY <4>1, <4>2 DEF HoldersOf
    <3> QED
      BY <1>3, <2>1, <3>2
  <2>2. CASE x \notin StoresOf(s)
    BY <1>3, <1>4, <2>2, SameHolders DEF RangeInv, OneOwner
  <2> QED
    BY <2>1, <2>2
<1>6. ASSUME NEW b \in Block
      PROVE  IF heap'[b] = Nothing THEN OwnersOf(b)' = {} ELSE \E r \in Source : OwnersOf(b)' = {r}
  <2>1. CASE b \in BlocksOf(s)
    <3>1. OwnersOf(b)' = {}
      BY <1>3, <1>4, <2>1, HeldByOne DEF OwnersOf
    <3> QED
      BY <1>3, <2>1, <3>1
  <2>2. CASE b \notin BlocksOf(s)
    <3>1. OwnersOf(b)' = OwnersOf(b)
      BY <1>3, <1>4, <2>2 DEF OwnersOf
    <3> QED
      BY <1>3, <2>2, <3>1 DEF RangeInv, OneOwner
  <2> QED
    BY <2>1, <2>2
<1>7. OneOwner'
  BY <1>5, <1>6, OneOwnerAfter
<1>8. TypeOK'
  BY <1>1, <1>3 DEF RangeInv, TypeOK, AnyRange
<1>9. VisitorKnowsType'
  BY <1>2, <1>4 DEF RangeInv, VisitorKnowsType
<1> QED
  BY <1>3, <1>4, <1>7, <1>8, <1>9, UsersChange, ContentsKept, ContainerKept DEF RangeInv

LEMMA DestroyStep ==
    ASSUME RangeInv, NEW s \in Source, Destroy(s)
    PROVE  RangeInv' /\ Elements!Destroy(s)
<1>1. /\ visitor[s] # "absent" /\ Release(StoresOf(s), BlocksOf(s))
      /\ visitor' = [visitor EXCEPT ![s] = "absent"] /\ data' = [data EXCEPT ![s] = Nothing]
      /\ container' = container /\ out' = Returned
  BY DEF Destroy
<1>2. /\ RangeInv' /\ UserSources' = [UserSources EXCEPT ![s] = Elements!Absent]
      /\ Contents' = Contents
  BY <1>1, ReleaseToEmpty
<1>3. UserSources[s] # Elements!Absent
  BY <1>1, UserFacts DEF UserSources
<1> QED
  BY <1>1, <1>2, <1>3 DEF Elements!Destroy, Elements!Becomes, Elements!Returned, Returned

\* d gets what s held, in the inline buffer or on the heap; s gives it up without
\* destroying it.
LEMMA MoveConstructStep ==
    ASSUME RangeInv, NEW s \in Source, NEW d \in Source, MoveConstruct(s, d)
    PROVE  RangeInv' /\ Elements!Move(s, d)
<1>1. /\ visitor \in [Source -> {"absent", "none", "range", "owner"}]
      /\ data \in [Source -> AnyRange \cup {Owner(b) : b \in Block \cup {Null}}]
  BY DEF RangeInv, TypeOK
<1>2. /\ visitor[s] # "absent" /\ visitor[d] = "absent" /\ s # d
      /\ visitor' = [visitor EXCEPT ![d] = visitor[s], ![s] = "none"]
      /\ data' = [data EXCEPT ![d] = IF visitor[s] = "none" THEN Nothing ELSE data[s],
                              ![s] = MovedFrom(data[s])]
      /\ out' = Returned /\ UNCHANGED <<heap, container, elements>>
  BY DEF MoveConstruct
<1>3. /\ visitor'[d] = visitor[s] /\ visitor'[s] = "none"
      /\ visitor[s] # "none" => data'[d] = data[s]
      /\ \A r \in Source : r # s /\ r # d => visitor'[r] = visitor[r] /\ data'[r] = data[r]
  BY <1>1, <1>2
<1>4. RangeOf(d)' = RangeOf(s) /\ BlocksOf(d)' = BlocksOf(s)
  <2>1. CASE visitor[s] = "none"
    BY <1>3, <2>1 DEF RangeOf, BlocksOf
  <2>2. CASE visitor[s] = "range"
    BY <1>3, <2>2 DEF RangeOf, BlocksOf
  <2>3. CASE visitor[s] = "owner"
    <3>1. visitor'[d] = "owner" /\ data'[d] = data[s] /\ heap' = heap
      BY <1>2, <1>3, <2>3
    <3>2. RangeOf(s) = heap[data[s].at] /\ data[s].at # Null
      BY <2>3, SourceFacts, StorageAssumption
    <3> QED
      BY <2>3, <3>1, <3>2 DEF RangeOf, BlocksOf
  <2> QED
    BY <1>1, <1>2, <2>1, <2>2, <2>3
<1>5. StoresOf(d)' = StoresOf(s)
  BY <1>4 DEF StoresOf
<1>6. UserSource(d)' = UserSource(s)
  <2>1. RangeSize(RangeOf(d))' = RangeSize(RangeOf(s))
    BY <1>2, <1>4 DEF RangeSize, Size
  <2> QED
    BY <1>2, <1>3, <1>4, <2>1 DEF UserSource
<1>7. StoresOf(s)' = {} /\ BlocksOf(s)' = {} /\ UserSource(s)' = Elements!Owns(0)
  BY <1>3, BecomesEmpty
<1>8. StoresOf(d) = {} /\ BlocksOf(d) = {}
  BY <1>2, SourceFacts
<1>9. \A r \in Source : r # s /\ r # d =>
          /\ StoresOf(r)' = StoresOf(r) /\ BlocksOf(r)' = BlocksOf(r)
          /\ UserSource(r)' = UserSource(r)
  BY <1>2, <1>3, SourceKept
<1>10. ASSUME NEW x \in Store
       PROVE  IF elements'[x] = Free THEN HoldersOf(x)' = {}
              ELSE \E h \in Container \cup Source : HoldersOf(x)' = {h}
  <2>1. CASE x \in StoresOf(s)
    <3>1. HoldersOf(x) = {s} /\ elements[x] # Free
      BY <2>1, HeldByOne DEF Free
    <3>2. \A c \in Container : container'[c] = x <=> c = d
      BY <1>2, <3>1, InHolders, ContainerAssumption
    <3>3. \A r \in Source : x \in StoresOf(r)' <=> r = d
      BY <1>2, <1>5, <1>7, <1>9, <2>1, <3>1, InHolders
    <3>4. HoldersOf(x)' = {d}
      BY <3>2, <3>3, OneHolder
    <3> QED
      BY <1>2, <3>1, <3>4
  <2>2. CASE x \notin StoresOf(s)
    <3>1. HoldersOf(x)' = HoldersOf(x)
      BY <1>2, <1>5, <1>7, <1>8, <1>9, <2>2, SameHolders
    <3> QED
      BY <1>2, <3>1 DEF RangeInv, OneOwner
  <2> QED
    BY <2>1, <2>2
<1>11. ASSUME NEW b \in Block
       PROVE  IF heap'[b] = Nothing THEN OwnersOf(b)' = {}
              ELSE \E r \in Source : OwnersOf(b)' = {r}
  <2>1. CASE b \in BlocksOf(s)
    <3>1. OwnersOf(b) = {s} /\ heap[b] # Nothing
      BY <2>1, HeldByOne, Records
    <3>2. OwnersOf(b)' = {d}
      BY <1>2, <1>4, <1>7, <1>9, <2>1, <3>1 DEF OwnersOf
    <3> QED
      BY <1>2, <3>1, <3>2
  <2>2. CASE b \notin BlocksOf(s)
    <3>1. OwnersOf(b)' = OwnersOf(b)
      BY <1>4, <1>7, <1>8, <1>9, <2>2 DEF OwnersOf
    <3> QED
      BY <1>2, <3>1 DEF RangeInv, OneOwner
  <2> QED
    BY <2>1, <2>2
<1>12. TypeOK'
  <2>1. MovedFrom(data[s]) \in AnyRange \cup {Owner(b) : b \in Block \cup {Null}}
    BY <1>1 DEF MovedFrom, AnyRange
  <2>2. /\ visitor' \in [Source -> {"absent", "none", "range", "owner"}]
        /\ data' \in [Source -> AnyRange \cup {Owner(b) : b \in Block \cup {Null}}]
    BY <1>1, <1>2, <2>1 DEF AnyRange
  <2> QED
    BY <1>2, <2>2 DEF RangeInv, TypeOK
<1>13. VisitorKnowsType'
  BY <1>3 DEF RangeInv, VisitorKnowsType
<1>14. OneOwner'
  BY <1>10, <1>11, OneOwnerAfter
<1>15. UserSources' = [UserSources EXCEPT ![d] = UserSources[s], ![s] = Elements!Owns(0)]
  BY <1>6, <1>7, <1>9 DEF UserSources
<1>16. Contents' = Contents
  BY <1>2, ContentsKept, ContainerKept
<1>17. UserSources[s] # Elements!Absent /\ UserSources[d] = Elements!Absent
  BY <1>2, UserFacts DEF UserSources
<1> QED
  BY <1>2, <1>12, <1>13, <1>14, <1>15, <1>16, <1>17
  DEF RangeInv, Elements!Move, Elements!Returned, Returned

\* What s held is destroyed first; then it takes over container c, or is left
\* with nothing if that throws.
LEMMA EmplaceStep ==
    ASSUME RangeInv, NEW s \in Source, NEW c \in Container, Emplace(s, c)
    PROVE  RangeInv' /\ Elements!Replace(s)
<1>0. PICK x \in Store \cup {NoStore} : x = container[c]
  BY HeldByContainer
<1>1. /\ visitor \in [Source -> {"absent", "none", "range", "owner"}]
      /\ data \in [Source -> AnyRange \cup {Owner(b) : b \in Block \cup {Null}}]
      /\ container \in [Container -> Store \cup {NoStore}]
  BY DEF RangeInv, TypeOK
<1>2. visitor[s] # "absent" /\ Release(StoresOf(s), BlocksOf(s))
  BY DEF Emplace
<1>3. UserSources[s] # Elements!Absent
  BY <1>2, UserFacts DEF UserSources
<1>4. CASE /\ visitor' = [visitor EXCEPT ![s] = "none"]
           /\ data' = [data EXCEPT ![s] = Nothing]
           /\ out' = Threw /\ container' = container
  <2>1. /\ RangeInv' /\ UserSources' = [UserSources EXCEPT ![s] = Elements!Owns(0)]
        /\ Contents' = Contents
    BY <1>2, <1>4, ReleaseToEmpty
  <2> QED
    BY <1>3, <1>4, <2>1 DEF Elements!Replace, Elements!Threw, Threw
<1>5. CASE /\ visitor' = [visitor EXCEPT ![s] = "range"]
           /\ data' = [data EXCEPT ![s] = Owning(container[c])]
           /\ container' = [container EXCEPT ![c] = NoStore] /\ out' = Returned
  <2>1. \A r \in Source \ {s} : visitor'[r] = visitor[r] /\ data'[r] = data[r]
    BY <1>1, <1>5
  <2>2. /\ elements' \in [Store -> Nat \cup {Free}]
        /\ heap' \in [Block -> {Nothing} \cup StoredRange]
        /\ \A y \in Store : elements'[y] = IF y \in StoresOf(s) THEN Free ELSE elements[y]
        /\ \A b \in Block : heap'[b] = IF b \in BlocksOf(s) THEN Nothing ELSE heap[b]
        /\ \A r \in Source \ {s} : /\ StoresOf(r)' = StoresOf(r) /\ BlocksOf(r)' = BlocksOf(r)
                                   /\ UserSource(r)' = UserSource(r)
        /\ \A d \in Container : container[d] # NoStore
               => elements'[container[d]] = elements[container[d]]
    BY <1>2, <2>1, ReleaseStep
  <2>3. x \in Store \cup {NoStore} /\ visitor'[s] = "range" /\ data'[s] = Owning(x)
    BY <1>0, <1>1, <1>5
  <2>4. /\ StoresOf(s)' = {x} \ {NoStore} /\ BlocksOf(s)' = {}
        /\ UserSource(s)' = Elements!Owns(Size(x)')
    BY <2>3, BecomesOwning
  <2>5. Size(x)' = Size(x)
    BY <1>0, <2>2 DEF Size
  <2>6. /\ container'[c] = NoStore
        /\ \A d \in Container : d # c => container'[d] = container[d]
        /\ container' \in [Container -> Store \cup {NoStore}]
    BY <1>1, <1>5
  <2>7. ASSUME x # NoStore
        PROVE  x \in Store /\ HoldersOf(x) = {c} /\ x \notin StoresOf(s) /\ elements[x] # Free
    BY <1>0, <2>7, HeldByContainer, InHolders, ContainerAssumption DEF Free
  <2>8. ASSUME NEW y \in Store
        PROVE  IF elements'[y] = Free THEN HoldersOf(y)' = {}
               ELSE \E h \in Container \cup Source : HoldersOf(y)' = {h}
    <3>1. CASE y \in StoresOf(s)
      <4>1. HoldersOf(y) = {s} /\ y # x
        BY <2>7, <3>1, HeldByOne, StorageAssumption
      <4>2. \A d \in Container : container'[d] # y
        BY <2>6, <4>1, InHolders, ContainerAssumption, StorageAssumption
      <4>3. \A r \in Source : y \notin StoresOf(r)'
        BY <2>2, <2>4, <4>1, InHolders
      <4>4. HoldersOf(y)' = {}
        BY <4>2, <4>3 DEF HoldersOf
      <4> QED
        BY <2>2, <3>1, <4>4
    <3>2. CASE y = x
      <4>1. HoldersOf(y) = {c} /\ y \notin StoresOf(s) /\ elements[y] # Free
        BY <2>7, <3>2, StorageAssumption
      <4>2. \A d \in Container : container'[d] # y
        BY <2>6, <4>1, InHolders, StorageAssumption
      <4>3. \A r \in Source : y \in StoresOf(r)' <=> r = s
        BY <2>2, <2>4, <3>2, <4>1, InHolders, ContainerAssumption, StorageAssumption
      <4>4. HoldersOf(y)' = {s}
        BY <4>2, <4>3, OneHolder, ContainerAssumption
      <4> QED
        BY <2>2, <4>1, <4>4
    <3>3. CASE y # x /\ y \notin StoresOf(s)
      <4>1. \A d \in Container : container'[d] = y <=> container[d] = y
        BY <1>0, <2>6, <3>3, StorageAssumption
      <4>2. \A r \in Source : y \in StoresOf(r)' <=> y \in StoresOf(r)
        BY <2>2, <2>4, <3>3
      <4>3. HoldersOf(y)' = HoldersOf(y)
        BY <4>1, <4>2, SameHolders
      <4> QED
        BY <2>2, <3>3, <4>3 DEF RangeInv, OneOwner
    <3> QED
      BY <3>1, <3>2, <3>3
  <2>9. ASSUME NEW b \in Block
        PROVE  IF heap'[b] = Nothing THEN OwnersOf(b)' = {}
               ELSE \E r \in Source : OwnersOf(b)' = {r}
    <3>1. CASE b \in BlocksOf(s)
      <4>1. OwnersOf(b)' = {}
        BY <2>2, <2>4, <3>1, HeldByOne DEF OwnersOf
      <4> QED
        BY <2>2, <3>1, <4>1
    <3>2. CASE b \notin BlocksOf(s)
      <4>1. OwnersOf(b)' = OwnersOf(b)
        BY <2>2, <2>4, <3>2 DEF OwnersOf
      <4> QED
        BY <2>2, <3>2, <4>1 DEF RangeInv, OneOwner
    <3> QED
      BY <3>1, <3>2
  <2>10. OneOwner'
    BY <2>8, <2>9, OneOwnerAfter
  <2>11. TypeOK'
    BY <1>1, <1>5, <2>2, <2>3, <2>6 DEF RangeInv, TypeOK, AnyRange
  <2>12. VisitorKnowsType'
    BY <2>1, <2>3, Records DEF RangeInv, VisitorKnowsType
  <2>13. Contents' = [Contents EXCEPT ![c] = 0]
    <3>1. Size(container[c])' = 0
      BY <2>6 DEF Size
    <3>2. \A d \in Container \ {c} : Size(container[d])' = Size(container[d])
      BY <2>2, <2>6, ContainerKept
    <3> QED
      BY <3>1, <3>2, ContentsChange
  <2>14. UserSources' = [UserSources EXCEPT ![s] = Elements!Owns(Contents[c])]
    <3>1. Contents[c] = Size(x)
      BY <1>0 DEF Contents
    <3> QED
      BY <2>2, <2>4, <2>5, <3>1, UsersChange
  <2> QED
    BY <1>3, <1>5, <2>10, <2>11, <2>12, <2>13, <2>14
    DEF RangeInv, Elements!Replace, Elements!Becomes, Elements!Returned, Returned
<1> QED
  BY <1>4, <1>5 DEF Emplace

LEMMA RangeUnchanged ==
    ASSUME RangeInv, UNCHANGED <<visitor, data, heap, container, elements>>,
           out' \in Nat \cup {Returned, Threw}
    PROVE  RangeInv' /\ UserSources' = UserSources /\ Contents' = Contents
<1>1. \A r \in Source : /\ StoresOf(r)' = StoresOf(r) /\ BlocksOf(r)' = BlocksOf(r)
                        /\ UserSource(r)' = UserSource(r)
  BY SourceKept
<1>2. \A x \in Store : HoldersOf(x)' = HoldersOf(x)
  BY <1>1, SameHolders
<1>3. \A b \in Block : OwnersOf(b)' = OwnersOf(b)
  BY <1>1 DEF OwnersOf
<1>4. OneOwner'
  BY <1>2, <1>3, OneOwnerAfter DEF RangeInv, OneOwner
<1>5. TypeOK' /\ VisitorKnowsType'
  BY DEF RangeInv, TypeOK, VisitorKnowsType
<1> QED
  BY <1>1, <1>4, <1>5, UsersKept, ContentsKept, ContainerKept DEF RangeInv

LEMMA SerialiseStep ==
    ASSUME RangeInv, NEW s \in Source, Serialise(s)
    PROVE  RangeInv' /\ Elements!Serialise(s)
<1>1. /\ visitor[s] # "absent" /\ UNCHANGED <<visitor, data, heap, container, elements>>
      /\ out' = IF RangeOf(s) = Nothing THEN 0 ELSE RangeSize(RangeOf(s))
  BY DEF Serialise
<1>2. UserSources[s] # Elements!Absent /\ UserSources[s] = UserSource(s)
  BY <1>1, UserFacts DEF UserSources
<1>3. /\ out' \in Nat
      /\ out' = IF UserSources[s].kind = "view" THEN Contents[UserSources[s].at]
                ELSE UserSources[s].size
  <2>1. CASE RangeOf(s) = Nothing
    <3>1. UserSource(s) = Elements!Owns(0)
      BY <1>1, <2>1, UserFacts
    <3> QED
      BY <1>1, <1>2, <2>1, <3>1 DEF Elements!Owns
  <2>2. ASSUME NEW c \in Container, RangeOf(s) = View(c)
        PROVE  <1>3
    <3>1. UserSource(s) = Elements!View(c)
      BY <1>1, <2>2, UserFacts
    <3>2. out' = Size(container[c]) /\ out' \in Nat
      BY <1>1, <2>2, HeldByContainer DEF RangeSize, View, Nothing
    <3> QED
      BY <1>2, <3>1, <3>2 DEF Elements!View, Contents
  <2>3. ASSUME NEW x \in Store \cup {NoStore}, RangeOf(s) = Owning(x)
        PROVE  <1>3
    <3>1. UserSource(s) = Elements!Owns(Size(x))
      BY <1>1, <2>3, UserFacts
    <3>2. out' = Size(x)
      BY <1>1, <2>3, Records DEF RangeSize
    <3>3. Size(x) \in Nat
      BY <2>3, SourceFacts, HeldByOne, StorageAssumption DEF Size
    <3> QED
      BY <1>2, <3>1, <3>2, <3>3 DEF Elements!Owns
  <2> QED
    BY <2>1, <2>2, <2>3, SourceFacts DEF AnyRange
<1> QED
  BY <1>1, <1>2, <1>3, RangeUnchanged DEF Elements!Serialise

\* A constructor that throws has not moved anything yet.
LEMMA ThrowStep ==
    ASSUME RangeInv, out' = Threw, UNCHANGED <<visitor, data, heap, container, elements>>
    PROVE  RangeInv' /\ Elements!Throw
BY RangeUnchanged DEF Elements!Throw, Elements!Threw, Threw

LEMMA ConstructEmptyStep ==
    ASSUME RangeInv, NEW s \in Source, ConstructEmpty(s)
    PROVE  RangeInv' /\ Elements!Construct(s)
<1>1. /\ visitor[s] = "absent" /\ out' = Returned
      /\ visitor' = [visitor EXCEPT ![s] = "none"] /\ data' = [data EXCEPT ![s] = Nothing]
      /\ UNCHANGED <<heap, container, elements>>
  BY DEF ConstructEmpty
<1>2. /\ RangeInv' /\ UserSources' = [UserSources EXCEPT ![s] = Elements!Owns(0)]
      /\ Contents' = Contents
  BY <1>1, MakeEmpty
<1>3. UserSources[s] = Elements!Absent
  BY <1>1, UserFacts DEF UserSources
<1>4. 0 \in 0 .. MaxSize
  BY SizeAssumption
<1> QED
  BY <1>1, <1>2, <1>3, <1>4
  DEF Elements!Construct, Elements!Becomes, Elements!Returned, Returned

-----------------------------------------------------------------------------

LEMMA RangeInvInit == Init => RangeInv /\ Elements!Init
<1> SUFFICES ASSUME Init
             PROVE  RangeInv /\ Elements!Init
  OBVIOUS
<1>1. TypeOK /\ VisitorKnowsType
  BY DEF Init, TypeOK, VisitorKnowsType, AnyRange
<1>2. \A s \in Source : StoresOf(s) = {} /\ BlocksOf(s) = {} /\ RangeOf(s) = Nothing
  BY DEF Init, StoresOf, BlocksOf, RangeOf, Nothing
<1>3. OneOwner
  <2>1. \A x \in Store : HoldersOf(x) = {}
    BY <1>2, StorageAssumption DEF Init, HoldersOf
  <2>2. \A b \in Block : OwnersOf(b) = {}
    BY <1>2 DEF OwnersOf
  <2> QED
    BY <2>1, <2>2 DEF Init, OneOwner
<1>4. Elements!Init
  <2>1. \A s \in Source : UserSource(s) = Elements!Absent
    BY <1>1, <1>3, UserFacts DEF RangeInv, Init
  <2> QED
    BY <2>1 DEF Init, Elements!Init, UserSources, Contents, Size, Elements!Returned, Returned
<1> QED
  BY <1>1, <1>3, <1>4 DEF RangeInv

LEMMA RangeInvNext ==
    RangeInv /\ [Next]_rangeVars => RangeInv' /\ [Elements!Next]_(Elements!elementVars)
<1> SUFFICES ASSUME RangeInv, [Next]_rangeVars
             PROVE  RangeInv' /\ [Elements!Next]_(Elements!elementVars)
  OBVIOUS
<1>1. CASE UNCHANGED rangeVars
  <2>1. out' \in Nat \cup {Returned, Threw} /\ UNCHANGED <<visitor, data, heap, container, elements>>
    BY <1>1 DEF rangeVars, RangeInv, TypeOK
  <2> QED
    BY <1>1, <2>1, RangeUnchanged DEF rangeVars, Elements!elementVars
<1>2. ASSUME NEW c \in Container, NEW n \in 0 .. MaxSize, Assign(c, n)
      PROVE  RangeInv' /\ Elements!Next
  BY <1>2, AssignStep DEF Elements!Next
<1>3. ASSUME NEW s \in Source, ConstructEmpty(s) \/ Destroy(s) \/ Serialise(s)
      PROVE  RangeInv' /\ Elements!Next
  BY <1>3, ConstructEmptyStep, DestroyStep, SerialiseStep DEF Elements!Next
<1>4. ASSUME NEW s \in Source, NEW n \in 0 .. MaxSize, ConstructList(s, n)
      PROVE  RangeInv' /\ Elements!Next
  BY <1>4, ConstructListStep DEF Elements!Next
<1>5. ASSUME NEW s \in Source, NEW c \in Container,
             ConstructView(s, c) \/ ConstructFrom(s, c) \/ Emplace(s, c)
      PROVE  RangeInv' /\ Elements!Next
  BY <1>5, ConstructViewStep, ConstructFromStep, EmplaceStep DEF Elements!Next
<1>6. ASSUME NEW s \in Source, NEW c \in Container, ConstructFromThrows(s, c)
      PROVE  RangeInv' /\ Elements!Next
  BY <1>6, ThrowStep DEF Elements!Next, ConstructFromThrows
<1>9. ASSUME NEW s \in Source, NEW n \in 0 .. MaxSize, ConstructListThrows(s, n)
      PROVE  RangeInv' /\ Elements!Next
  BY <1>9, ThrowStep DEF Elements!Next, ConstructListThrows
<1>10. ASSUME NEW s \in Source, NEW c \in Container, NEW small \in BOOLEAN,
              ConstructAdaptor(s, c, small)
       PROVE  RangeInv' /\ Elements!Next
  BY <1>10, ConstructAdaptorStep DEF Elements!Next
<1>7. ASSUME NEW s \in Source, NEW d \in Source, MoveConstruct(s, d)
      PROVE  RangeInv' /\ Elements!Next
  BY <1>7, MoveConstructStep DEF Elements!Next
<1>8. ASSUME NEW s \in Source, NEW d \in Source, MoveConstructThrows(s, d)
      PROVE  RangeInv' /\ Elements!Next
  BY <1>8, ThrowStep DEF Elements!Next, MoveConstructThrows
<1> QED
  BY <1>1, <1>2, <1>3, <1>4, <1>5, <1>6, <1>7, <1>8, <1>9, <1>10 DEF Next

\* Type correctness, ownership and the visitors' types hold in every state.
THEOREM RangeInvHolds == Spec => []RangeInv
<1>1. Init => RangeInv
  BY RangeInvInit
<1>2. RangeInv /\ [Next]_rangeVars => RangeInv'
  BY RangeInvNext
<1> QED
  BY <1>1, <1>2, PTL DEF Spec

\* The elements of a range and the heap block it may be in are released exactly
\* once, by the one source or container that holds them, however sources are
\* constructed, moved, replaced and destroyed, and whatever throws
\* (dynamic_array.hpp:93-160, utility.hpp:200-297).
THEOREM RangesHaveOneOwner == Spec => []OneOwner
BY RangeInvHolds, PTL DEF RangeInv

\* A visitor function finds an object of its type in the buffer, and an owner
\* that owns something (the assertion of dynamic_array.hpp:194).
THEOREM VisitorsKnowTypes == Spec => []VisitorKnowsType
BY RangeInvHolds, PTL DEF RangeInv

\* A source is to its user a view of a container or the owner of elements it took
\* over: neither type erasure, nor the place of the range, nor an operation that
\* throws can be told from outside (ProgrammingGuide.md:123-145).
THEOREM SourcesAreElementSources == Spec => ImplementsElementSource
<1>1. Init => Elements!Init
  BY RangeInvInit
<1>2. RangeInv /\ [Next]_rangeVars => [Elements!Next]_(Elements!elementVars)
  BY RangeInvNext
<1> QED
  BY <1>1, <1>2, RangeInvHolds, PTL DEF Spec, ImplementsElementSource, Elements!Spec
=============================================================================
