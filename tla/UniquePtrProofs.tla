---------------------------- MODULE UniquePtrProofs ----------------------------
(***************************************************************************)
(* Theorems about constexpr_unique_ptr, for any number of pointers and     *)
(* objects, as the library uses it: nullptr is assigned only to pointers   *)
(* that own nothing.                                                       *)
(***************************************************************************)
EXTENDS UniquePtr, TLAPS

PtrTypeOK ==
    /\ pointer \in [Pointer -> Object \cup {Null, Absent}]
    /\ made \subseteq Object
    /\ deletes \in [Object -> Nat]

\* Only an object that was made is owned or deleted, so that a new one has no
\* owner yet.
OnlyMade ==
    /\ \A p \in Pointer : pointer[p] \in Object => pointer[p] \in made
    /\ \A o \in Object : deletes[o] > 0 => o \in made

PtrInv == PtrTypeOK /\ OnlyMade /\ DeletedOnce /\ OneOwner

\* PtrInv object by object, without sets of owners: an object is new, or owned
\* by one pointer, or deleted and owned by none.
New(o) == o \notin made /\ deletes[o] = 0 /\ \A p \in Pointer : pointer[p] # o
OwnedBy(o, p) ==
    /\ o \in made /\ deletes[o] = 0
    /\ \A q \in Pointer : pointer[q] = o <=> q = p
Deleted(o) == o \in made /\ deletes[o] = 1 /\ \A p \in Pointer : pointer[p] # o

Stage(o) == New(o) \/ Deleted(o) \/ \E p \in Pointer : OwnedBy(o, p)

StageInv == PtrTypeOK /\ \A o \in Object : Stage(o)

LEMMA Stages == PtrInv <=> StageInv
<1>1. ASSUME PtrInv, NEW o \in Object
      PROVE  Stage(o)
  <2>1. deletes[o] \in Nat /\ deletes[o] <= 1
    BY <1>1 DEF PtrInv, PtrTypeOK, DeletedOnce
  <2>2. CASE o \notin made
    BY <1>1, <2>1, <2>2 DEF PtrInv, OnlyMade, Stage, New
  <2>3. CASE o \in made /\ deletes[o] = 1
    BY <1>1, <2>3 DEF PtrInv, DeletedOnce, Owners, Stage, Deleted
  <2>4. CASE o \in made /\ deletes[o] = 0
    <3>1. PICK p \in Pointer : Owners(o) = {p}
      BY <1>1, <2>4 DEF PtrInv, OneOwner
    <3> QED
      BY <2>4, <3>1 DEF Owners, OwnedBy, Stage
  <2> QED
    BY <2>1, <2>2, <2>3, <2>4
<1>2. ASSUME PtrTypeOK, \A o \in Object : Stage(o)
      PROVE  PtrInv
  <2>1. DeletedOnce
    BY <1>2 DEF DeletedOnce, Owners, Stage, New, Deleted, OwnedBy
  <2>2. OnlyMade
    BY <1>2 DEF PtrTypeOK, OnlyMade, Stage, New, Deleted, OwnedBy
  <2>3. ASSUME NEW o \in made, deletes[o] = 0
        PROVE  \E p \in Pointer : Owners(o) = {p}
    <3>1. o \in Object
      BY <1>2 DEF PtrTypeOK
    <3>2. PICK p \in Pointer : OwnedBy(o, p)
      BY <1>2, <2>3, <3>1 DEF Stage, New, Deleted
    <3> QED
      BY <3>2 DEF Owners, OwnedBy
  <2> QED
    BY <1>2, <2>1, <2>2, <2>3 DEF PtrInv, OneOwner
<1> QED
  BY <1>1, <1>2 DEF PtrInv, StageInv

-----------------------------------------------------------------------------
\* The operations, by what they do to the owners.

\* Deleting what p owns, which p then gives up for w: null, no pointer, or a
\* new object.
LEMMA GiveUp ==
    ASSUME PtrInv, NEW p \in Pointer, Exists(p),
           NEW w \in (Object \ made) \cup {Null, Absent},
           pointer' = [pointer EXCEPT ![p] = w], Delete(pointer[p]),
           made' = made \cup ({w} \ {Null, Absent})
    PROVE  PtrInv'
<1>1. PtrTypeOK /\ \A o \in Object : Stage(o)
  BY Stages DEF StageInv
<1>2. pointer[p] \in Object \cup {Null}
  BY <1>1 DEF PtrTypeOK, Exists
<1>3. \A o \in Object : deletes'[o] = IF o = pointer[p] THEN deletes[o] + 1 ELSE deletes[o]
  BY <1>1, NullAssumption DEF Delete, PtrTypeOK
<1>4. PtrTypeOK'
  BY <1>1, <1>2, NullAssumption DEF PtrTypeOK, Delete
<1>5. ASSUME NEW o \in Object
      PROVE  Stage(o)'
  <2>1. \A q \in Pointer : pointer'[q] = IF q = p THEN w ELSE pointer[q]
    BY <1>1 DEF PtrTypeOK
  <2>2. CASE New(o)
    <3>1. CASE o = w
      BY <1>3, <2>1, <2>2, <3>1, NullAssumption DEF New, OwnedBy, Stage
    <3>2. CASE o # w
      BY <1>3, <2>1, <2>2, <3>2, NullAssumption DEF New, Stage
    <3> QED
      BY <3>1, <3>2
  <2>3. CASE Deleted(o)
    BY <1>3, <2>1, <2>3, NullAssumption DEF Deleted, Stage
  <2>4. ASSUME NEW q \in Pointer, OwnedBy(o, q)
        PROVE  Stage(o)'
    <3>1. o # w
      BY <2>4, NullAssumption DEF OwnedBy
    <3>2. CASE q = p
      BY <1>1, <1>3, <2>1, <2>4, <3>1, <3>2 DEF OwnedBy, Deleted, Stage
    <3>3. CASE q # p
      BY <1>3, <2>1, <2>4, <3>1, <3>3 DEF OwnedBy, Stage
    <3> QED
      BY <3>2, <3>3
  <2> QED
    BY <1>1, <2>2, <2>3, <2>4 DEF Stage
<1>6. StageInv'
  BY <1>4, <1>5 DEF StageInv
<1> QED
  BY <1>6, Stages, PTL

\* Handing on what q owns to p, which owns nothing.
LEMMA HandOn ==
    ASSUME PtrInv, NEW p \in Pointer, NEW q \in Pointer, p # q, pointer[p] \notin Object,
           pointer' = [pointer EXCEPT ![p] = pointer[q], ![q] = Null],
           UNCHANGED <<made, deletes>>
    PROVE  PtrInv'
<1>1. PtrTypeOK /\ \A o \in Object : Stage(o)
  BY Stages DEF StageInv
<1>2. PtrTypeOK'
  BY <1>1 DEF PtrTypeOK
<1>3. \A r \in Pointer :
          pointer'[r] = IF r = q THEN Null ELSE IF r = p THEN pointer[q] ELSE pointer[r]
  BY <1>1 DEF PtrTypeOK
<1>4. ASSUME NEW o \in Object
      PROVE  Stage(o)'
  <2>1. CASE New(o)
    BY <1>3, <2>1, NullAssumption DEF New, Stage
  <2>2. CASE Deleted(o)
    BY <1>3, <2>2, NullAssumption DEF Deleted, Stage
  <2>3. ASSUME NEW r \in Pointer, OwnedBy(o, r)
        PROVE  Stage(o)'
    <3>1. r # p
      BY <2>3 DEF OwnedBy
    <3>2. OwnedBy(o, IF r = q THEN p ELSE r)'
      BY <1>3, <2>3, <3>1, NullAssumption DEF OwnedBy
    <3> QED
      BY <3>2 DEF Stage
  <2> QED
    BY <1>1, <2>1, <2>2, <2>3 DEF Stage
<1>5. StageInv'
  BY <1>2, <1>4 DEF StageInv
<1> QED
  BY <1>5, Stages, PTL

LEMMA SwapStep ==
    ASSUME PtrInv, NEW p \in Pointer, NEW q \in Pointer, Swap(p, q)
    PROVE  PtrInv'
<1>1. PtrTypeOK /\ \A o \in Object : Stage(o)
  BY Stages DEF StageInv
<1>2. PtrTypeOK'
  BY <1>1 DEF Swap, PtrTypeOK
<1>3. \A r \in Pointer :
          pointer'[r] = IF r = q THEN pointer[p] ELSE IF r = p THEN pointer[q] ELSE pointer[r]
  BY <1>1 DEF Swap, PtrTypeOK
<1>4. UNCHANGED <<made, deletes>>
  BY DEF Swap
<1>5. ASSUME NEW o \in Object
      PROVE  Stage(o)'
  <2>1. CASE New(o)
    BY <1>3, <1>4, <2>1 DEF New, Stage
  <2>2. CASE Deleted(o)
    BY <1>3, <1>4, <2>2 DEF Deleted, Stage
  <2>3. ASSUME NEW r \in Pointer, OwnedBy(o, r)
        PROVE  Stage(o)'
    <3>1. OwnedBy(o, IF r = q THEN p ELSE IF r = p THEN q ELSE r)'
      BY <1>3, <1>4, <2>3 DEF OwnedBy
    <3> QED
      BY <3>1 DEF Stage
  <2> QED
    BY <1>1, <2>1, <2>2, <2>3 DEF Stage
<1>6. StageInv'
  BY <1>2, <1>5 DEF StageInv
<1> QED
  BY <1>6, Stages, PTL

\* p takes what q owns and deletes what it owned itself; if they are the same
\* pointer nothing is deleted and it gets back what it had.
LEMMA MoveAssignStep ==
    ASSUME PtrInv, NEW p \in Pointer, NEW q \in Pointer, MoveAssign(p, q)
    PROVE  PtrInv'
<1> DEFINE moved == [pointer EXCEPT ![q] = Null]
<1>1. PtrTypeOK /\ \A o \in Object : Stage(o)
  BY Stages DEF StageInv
<1>2. /\ pointer' = [moved EXCEPT ![p] = pointer[q]] /\ Delete(moved[p]) /\ made' = made
      /\ Exists(p) /\ Exists(q)
  BY DEF MoveAssign
<1>3. moved \in [Pointer -> Object \cup {Null, Absent}]
  BY <1>1 DEF PtrTypeOK
<1>4. \A r \in Pointer :
          pointer'[r] = IF r = p THEN pointer[q] ELSE IF r = q THEN Null ELSE pointer[r]
  BY <1>1, <1>2 DEF PtrTypeOK
<1>5. moved[p] = IF p = q THEN Null ELSE pointer[p]
  BY <1>1 DEF PtrTypeOK
<1>6. moved[p] \in Object \cup {Null}
  BY <1>1, <1>2, <1>5 DEF PtrTypeOK, Exists
<1> HIDE DEF moved
<1>7. \A o \in Object : deletes'[o] = IF o = moved[p] THEN deletes[o] + 1 ELSE deletes[o]
  BY <1>1, <1>2, <1>6, NullAssumption DEF Delete, PtrTypeOK
<1>8. PtrTypeOK'
  <2>1. pointer' \in [Pointer -> Object \cup {Null, Absent}]
    BY <1>1, <1>2, <1>3 DEF PtrTypeOK
  <2>2. deletes' \in [Object -> Nat]
    BY <1>1, <1>2, <1>6 DEF PtrTypeOK, Delete
  <2> QED
    BY <1>1, <1>2, <2>1, <2>2 DEF PtrTypeOK
<1>9. ASSUME NEW o \in Object
      PROVE  Stage(o)'
  <2>1. CASE New(o)
    BY <1>2, <1>4, <1>5, <1>7, <2>1, NullAssumption DEF New, Stage
  <2>2. CASE Deleted(o)
    BY <1>2, <1>4, <1>5, <1>7, <2>2, NullAssumption DEF Deleted, Stage
  <2>3. ASSUME NEW r \in Pointer, OwnedBy(o, r)
        PROVE  Stage(o)'
    <3>1. CASE r = q
      <4>1. OwnedBy(o, p)'
        BY <1>2, <1>4, <1>5, <1>7, <2>3, <3>1, NullAssumption DEF OwnedBy
      <4> QED
        BY <4>1 DEF Stage
    <3>2. CASE r = p /\ p # q
      <4>1. Deleted(o)'
        BY <1>1, <1>2, <1>4, <1>5, <1>7, <2>3, <3>2, NullAssumption DEF OwnedBy, Deleted
      <4> QED
        BY <4>1 DEF Stage
    <3>3. CASE r # p /\ r # q
      <4>1. OwnedBy(o, r)'
        BY <1>2, <1>4, <1>5, <1>7, <2>3, <3>3, NullAssumption DEF OwnedBy
      <4> QED
        BY <4>1 DEF Stage
    <3> QED
      BY <3>1, <3>2, <3>3
  <2> QED
    BY <1>1, <2>1, <2>2, <2>3 DEF Stage
<1>10. StageInv'
  BY <1>8, <1>9 DEF StageInv
<1> QED
  BY <1>10, Stages, PTL

\* A pointer that does not exist yet begins to own a new object.
LEMMA ConstructStep ==
    ASSUME PtrInv, NEW p \in Pointer, NEW w \in Object \cup {Null}, Construct(p, w)
    PROVE  PtrInv'
<1>1. PtrTypeOK /\ \A o \in Object : Stage(o)
  BY Stages DEF StageInv
<1>2. /\ pointer' = [pointer EXCEPT ![p] = w] /\ made' = made \cup ({w} \ {Null})
      /\ UNCHANGED deletes /\ pointer[p] = Absent /\ (w = Null \/ w \in Object \ made)
  BY DEF Construct, Exists, Argument, Make
<1>3. PtrTypeOK'
  BY <1>1, <1>2 DEF PtrTypeOK
<1>4. \A r \in Pointer : pointer'[r] = IF r = p THEN w ELSE pointer[r]
  BY <1>1, <1>2 DEF PtrTypeOK
<1>5. ASSUME NEW o \in Object
      PROVE  Stage(o)'
  <2>1. CASE New(o) /\ o = w
    BY <1>2, <1>4, <2>1, NullAssumption DEF New, OwnedBy, Stage
  <2>2. CASE New(o) /\ o # w
    BY <1>2, <1>4, <2>2, NullAssumption DEF New, Stage
  <2>3. CASE Deleted(o)
    BY <1>2, <1>4, <2>3, NullAssumption DEF Deleted, Stage
  <2>4. ASSUME NEW r \in Pointer, OwnedBy(o, r)
        PROVE  Stage(o)'
    <3>1. OwnedBy(o, r)'
      BY <1>2, <1>4, <2>4, NullAssumption DEF OwnedBy
    <3> QED
      BY <3>1 DEF Stage
  <2> QED
    BY <1>1, <2>1, <2>2, <2>3, <2>4 DEF Stage
<1>6. StageInv'
  BY <1>3, <1>5 DEF StageInv
<1> QED
  BY <1>6, Stages, PTL

-----------------------------------------------------------------------------

LEMMA PtrInvInit == Init => PtrInv
BY NullAssumption DEF Init, PtrInv, PtrTypeOK, OnlyMade, DeletedOnce, OneOwner, Owners

LEMMA PtrInvNext == ~NullsOwners /\ PtrInv /\ [Next]_ptrVars => PtrInv'
<1> SUFFICES ASSUME ~NullsOwners, PtrInv, [Next]_ptrVars
             PROVE  PtrInv'
  OBVIOUS
<1>1. CASE UNCHANGED ptrVars
  BY <1>1 DEF ptrVars, PtrInv, PtrTypeOK, OnlyMade, DeletedOnce, OneOwner, Owners
<1>2. ASSUME NEW p \in Pointer, AssignNull(p)
      PROVE  PtrInv'
  \* The pointer is null, so that there is nothing to delete.
  <2>1. pointer[p] = Null /\ UNCHANGED <<pointer, made, deletes>>
    BY <1>2 DEF AssignNull, Delete
  <2> QED
    BY <2>1 DEF PtrInv, PtrTypeOK, OnlyMade, DeletedOnce, OneOwner, Owners
<1>3. ASSUME NEW p \in Pointer, Destroy(p)
      PROVE  PtrInv'
  <2>1. /\ Exists(p) /\ pointer' = [pointer EXCEPT ![p] = Absent] /\ Delete(pointer[p])
        /\ made' = made \cup ({Absent} \ {Null, Absent})
    BY <1>3 DEF Destroy
  <2> QED
    BY <2>1, GiveUp
<1>4. ASSUME NEW p \in Pointer, NEW o \in Object \cup {Null}, Reset(p, o)
      PROVE  PtrInv'
  <2>1. /\ Exists(p) /\ pointer' = [pointer EXCEPT ![p] = o] /\ Delete(pointer[p])
        /\ made' = made \cup ({o} \ {Null, Absent})
        /\ o \in (Object \ made) \cup {Null, Absent}
    BY <1>4, NullAssumption DEF Reset, Argument, Make
  <2> QED
    BY <2>1, GiveUp
<1>5. ASSUME NEW p \in Pointer, NEW q \in Pointer, MoveConstruct(p, q)
      PROVE  PtrInv'
  <2>1. /\ p # q /\ pointer[p] \notin Object
        /\ pointer' = [pointer EXCEPT ![p] = pointer[q], ![q] = Null]
        /\ UNCHANGED <<made, deletes>>
    BY <1>5, NullAssumption DEF MoveConstruct, Exists
  <2> QED
    BY <2>1, HandOn
<1> QED
  BY <1>1, <1>2, <1>3, <1>4, <1>5, ConstructStep, MoveAssignStep, SwapStep DEF Next

\* If nullptr is assigned only to pointers that own nothing, as in the library
\* (buffers.hpp:35), then whatever sequence of constructions, moves, resets,
\* swaps and destructions: an object is new, or owned by one pointer, or deleted
\* once and owned by none.
THEOREM PtrInvHolds ==
    ASSUME ~NullsOwners
    PROVE  Spec => []PtrInv
<1>1. Init => PtrInv
  BY PtrInvInit
<1>2. PtrInv /\ [Next]_ptrVars => PtrInv'
  BY PtrInvNext
<1> QED
  BY <1>1, <1>2, PTL DEF Spec

\* No object is deleted twice, or while a pointer still has it
\* (utility.hpp:118-197).
THEOREM ObjectsDeletedOnce ==
    ASSUME ~NullsOwners
    PROVE  Spec => []DeletedOnce
BY PtrInvHolds, PTL DEF PtrInv

\* No object leaks, and no two pointers share one: what was made and not deleted
\* has one owner (utility.hpp:118-197).
THEOREM ObjectsHaveOneOwner ==
    ASSUME ~NullsOwners
    PROVE  Spec => []OneOwner
BY PtrInvHolds, PTL DEF PtrInv
=============================================================================
