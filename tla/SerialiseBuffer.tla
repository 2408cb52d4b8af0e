--------------------------- MODULE SerialiseBuffer ---------------------------
(***************************************************************************)
(* What a serialise_buffer promises (the concept of common.hpp:32-47 and   *)
(* the comments of buffers.hpp): a sequence of bytes that can be replaced  *)
(* by initialise(), lengthened by extend() and written in place.  Movable  *)
(* buffers have value semantics: a move takes the content and leaves an    *)
(* empty buffer.  Storage, capacity and views do not appear here.          *)
(***************************************************************************)
EXTENDS Integers, Sequences

CONSTANTS Buffer, Byte, Nothing, Requests, MaxUsed

VARIABLES
    content,       \* the bytes of every live buffer, Nothing for the others
    threw          \* whether the last operation threw

avars == <<content, threw>>

Live(b) == content[b] # Nothing

AInit ==
    /\ content = [b \in Buffer |-> Nothing]
    /\ threw = FALSE

OthersKept(S) == \A c \in Buffer \ S : content'[c] = content[c]

ACreate(b) ==
    /\ ~Live(b)
    /\ content' = [content EXCEPT ![b] = <<>>]

\* A new serialisation: `size` bytes of unspecified value.
AInitialise(b, size) ==
    /\ Live(b)
    /\ Len(content'[b]) = size
    /\ OthersKept({b})

\* `count` more bytes of unspecified value; the previous content is kept.
AExtend(b, count) ==
    LET size == Len(content[b]) IN
    /\ Live(b)
    /\ size + count <= MaxUsed
    /\ Len(content'[b]) = size + count
    /\ \A i \in 1 .. size : content'[b][i] = content[b][i]
    /\ OthersKept({b})

AWrite(b, v) ==
    /\ Live(b)
    /\ \E i \in 1 .. Len(content[b]) :
          content' = [content EXCEPT ![b] = [@ EXCEPT ![i] = v]]

\* b takes the content of other, which is left empty unless it is b itself.
AMove(b, other) ==
    /\ Live(other)
    /\ content' = [[content EXCEPT ![other] = <<>>] EXCEPT ![b] = content[other]]

ASwap(b, other) ==
    /\ Live(b) /\ Live(other)
    /\ content' = [content EXCEPT ![b] = content[other], ![other] = content[b]]

ADestroy(b) ==
    /\ Live(b)
    /\ content' = [content EXCEPT ![b] = Nothing]

AObserve == UNCHANGED content

ANext ==
    \/ threw' = TRUE /\ UNCHANGED content
    \/ /\ threw' = FALSE
       /\ \/ AObserve
          \/ \E b \in Buffer : ACreate(b) \/ ADestroy(b)
          \/ \E b \in Buffer, n \in Requests : AInitialise(b, n) \/ AExtend(b, n)
          \/ \E b \in Buffer, v \in Byte : AWrite(b, v)
          \/ \E b, other \in Buffer : AMove(b, other) \/ ASwap(b, other)

Spec == AInit /\ [][ANext]_avars
=============================================================================
