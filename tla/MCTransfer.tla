------------------------------ MODULE MCTransfer ------------------------------
(***************************************************************************)
(* Messages of every kind of type, delivered complete and cut off.         *)
(***************************************************************************)
EXTENDS Transfer, MCSerialiser

\* One full source of each type, with an empty part where it has several.
TransferRoot ==
    {s \in MCRoot :
        /\ s.type \in {"arrFlat", "arrVar", "tuple", "tuple0", "base", "derived", "pair", "wide"}
        /\ s.type = "arrFlat" => s.sub[1] # s.sub[2]
        /\ s.type = "wide" => Len(s.sub[2].sub) = 1
        /\ s.type = "derived" => s.sub[3].sub # <<>>}
    \cup {s \in ArrArr : Len(s.sub) = 2 /\ Len(s.sub[1].sub) # Len(s.sub[2].sub)}
    \cup {s \in Sarr : s.sub[1] # s.sub[2]} \cup Var0
=============================================================================
