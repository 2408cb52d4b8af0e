----------------------------- MODULE ElementSource -----------------------------
(***************************************************************************)
(* What serialise_source<dynamic_array<T>> promises its user               *)
(* (ProgrammingGuide.md:123-145): it views a range of the caller, whose    *)
(* later changes it shows, or it owns elements, which it took from a range *)
(* or a list.  An operation that throws takes nothing from the caller.     *)
(***************************************************************************)
EXTENDS Integers

CONSTANTS Source, Container, MaxSize

VARIABLES
    source,            \* of each source: absent, a view of a container, or the
                       \* owner of a number of elements
    content,           \* how many elements are in each container
    out                \* how many elements were serialised, or a code

elementVars == <<source, content, out>>

Returned == -1
Threw == -2

Absent == [kind |-> "absent", at |-> "Nowhere", size |-> 0]
View(c) == [kind |-> "view", at |-> c, size |-> 0]
Owns(n) == [kind |-> "owns", at |-> "Nowhere", size |-> n]

Init ==
    /\ source = [s \in Source |-> Absent]
    /\ content = [c \in Container |-> 0]
    /\ out = Returned

Assign(c, n) ==
    /\ content' = [content EXCEPT ![c] = n]
    /\ out' = Returned
    /\ UNCHANGED source

\* A source gets a value it did not have; the caller's containers change to k.
Becomes(s, value, k) ==
    /\ source' = [source EXCEPT ![s] = value]
    /\ content' = k
    /\ out' = Returned

Construct(s) ==
    /\ source[s] = Absent
    /\ \/ \E n \in 0 .. MaxSize : Becomes(s, Owns(n), content)
       \/ \E c \in Container : Becomes(s, View(c), content)
       \/ \E c \in Container : Becomes(s, Owns(content[c]), [content EXCEPT ![c] = 0])

\* Replacing what a source has: if that throws, it has nothing.
Replace(s) ==
    /\ source[s] # Absent
    /\ \/ \E c \in Container : Becomes(s, Owns(content[c]), [content EXCEPT ![c] = 0])
       \/ /\ source' = [source EXCEPT ![s] = Owns(0)]
          /\ out' = Threw
          /\ UNCHANGED content

Move(s, d) ==
    /\ source[s] # Absent
    /\ source[d] = Absent
    /\ source' = [source EXCEPT ![d] = source[s], ![s] = Owns(0)]
    /\ out' = Returned
    /\ UNCHANGED content

Destroy(s) ==
    /\ source[s] # Absent
    /\ Becomes(s, Absent, content)

\* A constructor throws.
Throw ==
    /\ out' = Threw
    /\ UNCHANGED <<source, content>>

Serialise(s) ==
    /\ source[s] # Absent
    /\ out' = IF source[s].kind = "view" THEN content[source[s].at] ELSE source[s].size
    /\ UNCHANGED <<source, content>>

Next ==
    \/ \E c \in Container, n \in 0 .. MaxSize : Assign(c, n)
    \/ \E s \in Source : Construct(s) \/ Replace(s) \/ Destroy(s) \/ Serialise(s)
    \/ \E s, d \in Source : Move(s, d)
    \/ Throw

Spec == Init /\ [][Next]_elementVars
=============================================================================
