------------------------------- MODULE UniquePtr -------------------------------
(***************************************************************************)
(* constexpr_unique_ptr (utility.hpp): objects made with new, and the      *)
(* pointers that own them.                                                 *)
(***************************************************************************)
EXTENDS Integers

CONSTANTS
    Pointer, Object,
    Null,              \* nullptr
    Absent,            \* in place of the value of a pointer that does not exist
    NullsOwners        \* whether nullptr is ever assigned to a pointer that owns
                       \* an object; the library assigns it to pointers that were
                       \* moved from (buffers.hpp:35)

ASSUME NullAssumption == Null # Absent /\ {Null, Absent} \cap Object = {}
ASSUME UseAssumption == NullsOwners \in BOOLEAN

VARIABLES
    pointer,           \* _pointer of each constexpr_unique_ptr
    made,              \* the objects that were made
    deletes            \* how often each object was deleted

ptrVars == <<pointer, made, deletes>>

\* _delete()
Delete(o) == deletes' = IF o = Null THEN deletes ELSE [deletes EXCEPT ![o] = @ + 1]

Exists(p) == pointer[p] # Absent

\* What an argument of pointer type is: nullptr or a new object.
Argument(o) == o = Null \/ o \in Object \ made
Make(o) == made' = made \cup ({o} \ {Null})

\* Objects are never deleted more than twice, so that the model is finite.
Bounded == \A o \in Object : deletes[o] < 2

-----------------------------------------------------------------------------

Init ==
    /\ pointer = [p \in Pointer |-> Absent]
    /\ made = {}
    /\ deletes = [o \in Object |-> 0]

\* constexpr_unique_ptr(), constexpr_unique_ptr(ptr)
Construct(p, o) ==
    /\ ~Exists(p) /\ Argument(o)
    /\ pointer' = [pointer EXCEPT ![p] = o]
    /\ Make(o)
    /\ UNCHANGED deletes

\* Faulty: the other pointer keeps its object.
MoveConstructKeeps(p, q) ==
    /\ ~Exists(p) /\ Exists(q)
    /\ pointer' = [pointer EXCEPT ![p] = pointer[q]]
    /\ UNCHANGED <<made, deletes>>

\* constexpr_unique_ptr p(move(q))
MoveConstruct(p, q) ==
    /\ ~Exists(p) /\ Exists(q)
    /\ pointer' = [pointer EXCEPT ![p] = pointer[q], ![q] = Null]
    /\ UNCHANGED <<made, deletes>>

\* p = move(q): a temporary takes q's object, is swapped with p, and deletes
\* what p had.  p and q may be the same, and then nothing is deleted.
MoveAssign(p, q) ==
    /\ Exists(p) /\ Exists(q)
    /\ LET moved == [pointer EXCEPT ![q] = Null] IN
       /\ pointer' = [moved EXCEPT ![p] = pointer[q]]
       /\ Delete(moved[p])
    /\ UNCHANGED made

\* p = nullptr: deletes, and does not set _pointer.
AssignNull(p) ==
    /\ Exists(p)
    /\ NullsOwners \/ pointer[p] = Null
    /\ Delete(pointer[p])
    /\ UNCHANGED <<pointer, made>>

\* Faulty: does not delete what the pointer has.
ResetForgets(p, o) ==
    /\ Exists(p) /\ Argument(o)
    /\ pointer' = [pointer EXCEPT ![p] = o]
    /\ Make(o)
    /\ UNCHANGED deletes

Reset(p, o) ==
    /\ Exists(p) /\ Argument(o)
    /\ Delete(pointer[p])
    /\ pointer' = [pointer EXCEPT ![p] = o]
    /\ Make(o)

Swap(p, q) ==
    /\ Exists(p) /\ Exists(q)
    /\ pointer' = [pointer EXCEPT ![p] = pointer[q], ![q] = pointer[p]]
    /\ UNCHANGED <<made, deletes>>

\* ~constexpr_unique_ptr()
Destroy(p) ==
    /\ Exists(p)
    /\ Delete(pointer[p])
    /\ pointer' = [pointer EXCEPT ![p] = Absent]
    /\ UNCHANGED made

Next ==
    /\ Bounded
    /\ \E p \in Pointer :
          \/ AssignNull(p) \/ Destroy(p)
          \/ \E o \in Object \cup {Null} : Construct(p, o) \/ Reset(p, o)
          \/ \E q \in Pointer : MoveConstruct(p, q) \/ MoveAssign(p, q) \/ Swap(p, q)

Spec == Init /\ [][Next]_ptrVars

-----------------------------------------------------------------------------

Owners(o) == {p \in Pointer : pointer[p] = o}

\* Nothing is deleted twice, or deleted while a pointer still has it.
DeletedOnce ==
    \A o \in Object : deletes[o] <= 1 /\ (deletes[o] = 1 => Owners(o) = {})

\* An object that was made and not deleted has one owner, which will delete it:
\* nothing leaks, and no two pointers share an object.
OneOwner ==
    \A o \in made : deletes[o] = 0 => \E p \in Pointer : Owners(o) = {p}

\* What the tests of the class say of each object: it is made once and, by the
\* end of the scope, deleted once (test_utility.cpp:64, .destructs = 1).
NeverDeletedTwice == \A o \in Object : deletes[o] <= 1
=============================================================================
