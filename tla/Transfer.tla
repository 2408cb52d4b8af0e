------------------------------- MODULE Transfer -------------------------------
(***************************************************************************)
(* A message from its serialisation to its last accessor: Serialiser and   *)
(* Reader composed.  When serialise() has returned, the bytes are handed   *)
(* to a reader: as they are, followed by other bytes (as in a buffer that  *)
(* holds more than one message), or without the last ones.                 *)
(***************************************************************************)
EXTENDS SerialiserStore

CONSTANTS Bases, MaxIndex, AddressSpace

VARIABLES buffer, asserts, status, cursor, path, call, result,
          delivery,         \* ghost: how the message arrived, or "none" if not yet
          node              \* ghost: the source that the cursor's object was made from

readingVars == <<buffer, asserts, status, cursor, path, call, result>>
transferVars == <<vars, readingVars, delivery, node>>

\* Only the reader opens messages, so that there is no need for a set of them.
Reading == INSTANCE Reader WITH Buffer <- {}

ASSUME ReadingAssumption == Reading!BasesHaveFirstFields /\ AddressSpace \in Nat \ {0}

\* The first `size` bytes of the message, and anything behind it, as a reader
\* who expects t gets it.
Received(t, size) ==
    [type |-> t, size |-> size,
     bytes |-> [x \in 0 .. size - 1 |-> IF x < used THEN mem[x] ELSE 1]]

\* The caller passes the message on; the reader, whose memory holds it, may
\* expect a base of its type.
Deliver(how, size) ==
    /\ phase = "done"
    /\ delivery = "none"
    /\ size < AddressSpace
    /\ delivery' = how
    /\ node' = root
    /\ \E t \in {root.type} \cup Bases[root.type] : Reading!Receive(Received(t, size))
    /\ UNCHANGED vars

\* The subobject of n that an accessor has led to, if it led to one.
Reached(n) == IF path' = path THEN n ELSE n.sub[path'[Len(path')]]

TransferInit ==
    /\ Init
    /\ Reading!Init
    /\ delivery = "none"
    /\ node = root

TransferNext ==
    \/ /\ delivery = "none"
       /\ Next
       /\ UNCHANGED <<readingVars, delivery, node>>
    \/ Deliver("intact", used)
    \/ Deliver("padded", used + 1)
    \/ \E size \in 0 .. used - 1 : Deliver("cut", size)
    \/ /\ delivery # "none"
       /\ Reading!Read
       /\ node' = Reached(node)
       /\ UNCHANGED <<vars, delivery>>

TransferSpec == TransferInit /\ [][TransferNext]_transferVars

-----------------------------------------------------------------------------

\* What a call has returned is what is in the subobject n of the source.
ReturnedFrom(n) ==
    /\ cursor.type \in {n.type} \cup Bases[n.type]
    /\ Kind[n.type] = "scalar" => result = n.val
    /\ call = "index" => result = n.val
    /\ call \in {"size", "has_value"} => result = Len(n.sub)

\* A complete message reads, by every sequence of accessors and as a record of
\* its own or of a base type, as the source that was serialised: each accessor
\* arrives at the subobject it names, no bounds error or assertion occurs, and
\* the errors that occur are the caller's.
ReadsAsWritten ==
    delivery \in {"intact", "padded"} /\ Reading!Opened =>
        /\ ReturnedFrom(node)
        /\ status \in {"reading", "bad_optional_access", "bad_variant_access", "out_of_range"}
        /\ status = "bad_optional_access" => node.sub = <<>>
        /\ status = "bad_variant_access" => Len(Elements[node.type]) > 1

\* Who reads all of a message that has lost bytes at its end notices: some
\* accessor throws buffer_bounds_error.  (A message has no byte that its reader
\* does not need.)
TruncationNoticed ==
    delivery = "cut" /\ status = "closed" /\ buffer.type = root.type =>
        Deserialise(root.type, buffer.bytes, 0) = BufferBoundsError
=============================================================================
