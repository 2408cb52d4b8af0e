----------------------------- MODULE MCSerialiser -----------------------------
(***************************************************************************)
(* serialise() over one type of each kind and the nestings that interact:  *)
(* variable data inside elements of a dynamic_array, arrays of arrays      *)
(* (whose inner call reuses the outer's wrapper), fixed-size types below   *)
(* variable-size ones, derived records, empty arrays, tuples and variants. *)
(***************************************************************************)
EXTENDS SerialiserStore, MCTypes

Node(t, v, s) == [type |-> t, val |-> v, sub |-> s]

Scalars(t, S) == {Node(t, v, <<>>) : v \in S}
Optionals(t, S) == {Node(t, 0, <<>>)} \cup {Node(t, 0, <<x>>) : x \in S}
Arrays(t, S) == {Node(t, 0, q) : q \in {<<>>} \cup {<<x>> : x \in S} \cup {<<x, y>> : x, y \in S}}

\* Alternatives are numbered from 0; the variant without a value is valueless,
\* or the only value of variant<>.
Alternative(t, i, S) == {Node(t, i, <<x>>) : x \in S}
NoAlternative(t) == {Node(t, 0, <<>>)}

\* The sources of each type, and those worth serialising by themselves: for
\* every kind an empty and a full one, and the nestings named above.
U8 == Scalars("u8", {1, 2})
U16 == Scalars("u16", {6})
U64 == Scalars("u64", {5293})
Nulls == Scalars("null", {0})
Opt8 == Optionals("opt8", Scalars("u8", {1}))
OptNull == Optionals("optNull", Nulls)
Arr16 == Arrays("arr16", U16)
ArrOpt == Arrays("arrOpt", Opt8)
ArrArr == Arrays("arrArr", Arr16)
Flat == {Node("flat", 0, <<x, y>>) : x \in U8, y \in U16}
ArrFlat == {Node("arrFlat", 0, <<x, y>>) : x, y \in Flat}
Pair == {Node("pair", 0, <<x, y>>) : x \in {a \in ArrOpt : Len(a.sub) # 1}, y \in Opt8}
Tuple == {Node("tuple", 0, <<x, y, z>>) : x \in Opt8, y \in Nulls, z \in Arr16}
Tuple0 == {Node("tuple0", 0, <<>>)}
Sarr == {Node("sarr", 0, <<x, y>>) : x, y \in Opt8}
Sarr0 == {Node("sarr0", 0, <<>>)}
Var0 == NoAlternative("var0")
Var == NoAlternative("var") \cup Alternative("var", 0, Scalars("u8", {1}))
       \cup Alternative("var", 1, Arr16) \cup Alternative("var", 2, Sarr)
Base == {Node("base", 0, <<x, y>>) : x \in U8, y \in OptNull}
Derived == {Node("derived", 0, <<x, y, v, w>>) :
               x \in Scalars("u8", {2}), y \in OptNull, v \in Var, w \in Var0}
ArrVar == {Node("arrVar", 0, <<x, y>>) : x \in Alternative("var", 1, Arr16),
                                         y \in Alternative("var", 0, Scalars("u8", {1}))}
Arr64 == Arrays("arr64", U64)
Wide == {Node("wide", 0, <<x, y>>) : x \in U64, y \in Arr64}

Copies(t, x, n) == Node(t, 0, [i \in 1 .. n |-> x])
Full8 == Scalars("u8", {1})
Long8 == {Copies("arr8", x, n) : x \in Full8, n \in {66, 67, 68}}
LongVar == {Node("var", 1, <<Copies("arr16", x, n)>>) : x \in U16, n \in {29, 30}}
One8 == {Copies("arr8", x, 1) : x \in Full8}
LimitVar == Alternative("var", 0, Scalars("u8", {2}))

\* Sources that just reach, or just exceed, what the format can hold: with three
\* values to a byte, an offset or a size of four bytes is at most 80, and 81
\* would be stored as 0.  The value of the last optional (stored plus 1) or
\* variant, or the first element of the last array, is at offset 79, 80 or
\* beyond; so is that of an optional late in an array; and arrays of 80 and 81.
LimitRoot ==
    {Node("arr8Opt", 0, <<x, y>>) : x \in Long8, y \in Optionals("opt8", Full8)}
    \cup {Node("arr8Var", 0, <<x, y>>) : x \in Long8, y \in LimitVar}
    \cup {Node("varArr8", 0, <<x, y>>) : x \in LongVar, y \in One8}
    \cup {Copies("arrOpt", Node("opt8", 0, <<x>>), n) : x \in Full8, n \in {14, 15}}
    \cup {Copies("arrNull", x, n) : x \in Nulls, n \in {80, 81}}

MCRoot == LimitRoot \cup Base \cup Wide \cup Tuple0 \cup Sarr0 \cup ArrFlat \cup ArrVar
          \cup {a \in ArrArr : Len(a.sub) = 2 /\ a.sub[1] # a.sub[2]}
          \cup {p \in Pair : p.sub[1].sub # <<>> => p.sub[2].sub # <<>>}
          \cup {t \in Tuple : t.sub[1].sub # <<>>}
          \cup {d \in Derived : d.sub[2].sub = <<>> => d.sub[3].val # 2}

MCSource == MCRoot \cup U8 \cup U16 \cup Nulls \cup Opt8 \cup OptNull \cup Arr16 \cup ArrOpt
            \cup Flat \cup Sarr \cup Var0 \cup Var \cup U64 \cup Arr64 \cup Long8 \cup One8
            \cup LongVar \cup LimitVar \cup UNION {{v.sub[1]} : v \in LongVar}

-----------------------------------------------------------------------------

\* The tables of MessageSize, computed over the tree of a source or a type.
RECURSIVE VariableSizeOf(_), SumOverSubs(_)
VariableSizeOf(s) == PartsAsVariable(s) + SumOverSubs(s.sub)
SumOverSubs(q) == IF q = <<>> THEN 0 ELSE VariableSizeOf(Head(q)) + SumOverSubs(Tail(q))

MCVariableSize == [s \in Source |-> VariableSizeOf(s)]

MCVariableSizeFrom ==
    [s \in Source |->
        [i \in 1 .. Len(s.sub) + 1 |-> SumOverSubs(SubSeq(s.sub, i, Len(s.sub)))]]

RECURSIVE LongArrayIn(_)
LongArrayIn(s) == IsLongArray(s) \/ \E i \in DOMAIN s.sub : LongArrayIn(s.sub[i])

MCHasLongArray == [s \in Source |-> LongArrayIn(s)]

\* The settings of the generators: different sizes, an alternative of
\* probability 0.
MCMaxSize == [t \in MCType |-> IF t = "arr16" THEN 1 ELSE 2]
MCPossible == [t \in MCType |-> IF t = "var" THEN {1, 3} ELSE DOMAIN Elements[t]]

RECURSIVE MaxSerialisedSizeOf(_)
MaxSerialisedSizeOf(t) ==
    LET sizes == [i \in DOMAIN Elements[t] |-> MaxSerialisedSizeOf(Elements[t][i])] IN
    SizeFromElements(t, sizes, SumFunction(sizes))

MCMaxSerialisedSize == [t \in MCType |-> MaxSerialisedSizeOf(t)]

MCMaxSizeFrom ==
    [t \in MCType |->
        [i \in 1 .. Len(Elements[t]) + 1 |->
            SumFunctionOnSet(ElementSizes(t), i .. Len(Elements[t]))]]

RECURSIVE AllGenerated(_)
AllGenerated(s) == CanBeOutermost(s) /\ \A i \in DOMAIN s.sub : AllGenerated(s.sub[i])

MCGenerated == {s \in Source : AllGenerated(s)}
=============================================================================
