---------------------------- MODULE SerialiserStore ----------------------------
(***************************************************************************)
(* serialise() and deserialise() together: the buffer is a store for one   *)
(* value (MessageStore).                                                   *)
(***************************************************************************)
EXTENDS MessageSize, Deserialiser

\* No offset in a message exceeds its size, nor the stored one its size plus 1.
TooBigToStore(s) == MessageSize(s) + 1 > MaxDataOffset \/ HasLongArray[s]

\* The value of a finished message is what deserialise() makes of it.
StoredValue == IF phase = "done" THEN Deserialise(root.type, mem, 0) ELSE root

Store == INSTANCE MessageStore WITH
    Value <- Root,
    TooBig <- TooBigToStore,
    Failures <- {"bad_alloc", "object_size_error", "bad_variant_access"},
    status <- phase,
    failure <- error,
    value <- StoredValue

\* deserialise() reads back exactly the value that was serialised, whatever the
\* buffer held before and however often its storage moved; the serialiser and
\* the deserialiser of every type agree on the format.
StoresValue == Store!Spec
=============================================================================
