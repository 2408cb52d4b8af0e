----------------------------- MODULE MessageStore -----------------------------
(***************************************************************************)
(* What serialise() and deserialise() promise together (README.md and      *)
(* ProgrammingGuide.md): a buffer stores one value.  A caller gives a      *)
(* value to store; the store either ends up holding exactly that value, as *)
(* deserialise() reads it, or the call fails.  It fails for the value's    *)
(* size only if the value is TooBig.                                       *)
(***************************************************************************)
CONSTANTS Value, TooBig(_), Failures

VARIABLES
    status,        \* "idle", "running", "done" or "failed"
    failure,       \* why the last call failed, or "none"
    value          \* the value being stored, and then the one that is stored

svars == <<status, failure, value>>

SInit == status = "idle" /\ failure = "none" /\ value \in Value

\* A caller asks for v to be stored.
Store(v) ==
    /\ status # "running"
    /\ status' = "running"
    /\ failure' = "none"
    /\ value' = v

Complete ==
    /\ status = "running"
    /\ status' = "done"
    /\ UNCHANGED <<failure, value>>

Fail(e) ==
    /\ status' = "failed"
    /\ failure' = e
    /\ \/ status = "running" /\ value' = value
       \/ status # "running" /\ value' \in Value
    /\ e = "object_size_error" => TooBig(value)

SNext ==
    \/ \E v \in Value : Store(v)
    \/ Complete
    \/ \E e \in Failures : Fail(e)

Spec == SInit /\ [][SNext]_svars
=============================================================================
