-------------------------------- MODULE MCTypes --------------------------------
(***************************************************************************)
(* The types of the instances: one of each kind and the nestings that      *)
(* interact, and pairs whose parts end where offsets reach their limit.    *)
(***************************************************************************)
EXTENDS Integers, Sequences

D == INSTANCE Layout WITH Schema <- <<>>

MCSchema ==
    [ null     |-> D!NullType,
      u8       |-> D!Scalar(1),
      u16      |-> D!Scalar(2),
      u64      |-> D!Scalar(8),
      opt8     |-> D!OptionalOf("u8"),
      optNull  |-> D!OptionalOf("null"),
      arr16    |-> D!DynamicArrayOf("u16"),
      arrOpt   |-> D!DynamicArrayOf("opt8"),
      arrArr   |-> D!DynamicArrayOf("arr16"),
      flat     |-> D!PairOf("u8", "u16"),
      arrFlat  |-> D!DynamicArrayOf("flat"),
      pair     |-> D!PairOf("arrOpt", "opt8"),
      tuple    |-> D!TupleOf(<<"opt8", "null", "arr16">>),
      tuple0   |-> D!TupleOf(<<>>),
      sarr     |-> D!StaticArrayOf("opt8", 2),
      sarr0    |-> D!StaticArrayOf("opt8", 0),
      var0     |-> D!VariantOf(<<>>),
      var      |-> D!VariantOf(<<"u8", "arr16", "sarr">>),
      base     |-> D!RecordOf(<<D!Field("a", "u8"), D!Field("b", "optNull")>>),
      derived  |-> D!DerivedRecordOf("base", <<D!Field("c", "var"), D!Field("d", "var0")>>),
      arrVar   |-> D!DynamicArrayOf("var"),
      arr64    |-> D!DynamicArrayOf("u64"),
      wide     |-> D!RecordOf(<<D!Field("id", "u64"), D!Field("items", "arr64")>>),
      arr8     |-> D!DynamicArrayOf("u8"),
      arrNull  |-> D!DynamicArrayOf("null"),
      arr8Opt  |-> D!PairOf("arr8", "opt8"),
      arr8Var  |-> D!PairOf("arr8", "var"),
      varArr8  |-> D!PairOf("var", "arr8") ]

L == INSTANCE Layout WITH Schema <- MCSchema

\* The layout of these types, written out; LayoutAssumption compares it with
\* what the library's templates compute.
MCType == DOMAIN MCSchema

MCKind == [t \in MCType |-> MCSchema[t].kind]

MCElements ==
    [t \in MCType |->
        CASE t \in {"opt8", "sarr0"} -> IF t = "opt8" THEN <<"u8">> ELSE <<>>
          [] t = "optNull" -> <<"null">>
          [] t = "arr16" -> <<"u16">>
          [] t = "arrOpt" -> <<"opt8">>
          [] t = "arrArr" -> <<"arr16">>
          [] t = "arrFlat" -> <<"flat">>
          [] t = "arrVar" -> <<"var">>
          [] t = "arr64" -> <<"u64">>
          [] t = "wide" -> <<"u64", "arr64">>
          [] t = "arr8" -> <<"u8">>
          [] t = "arrNull" -> <<"null">>
          [] t = "arr8Opt" -> <<"arr8", "opt8">>
          [] t = "arr8Var" -> <<"arr8", "var">>
          [] t = "varArr8" -> <<"var", "arr8">>
          [] t = "flat" -> <<"u8", "u16">>
          [] t = "pair" -> <<"arrOpt", "opt8">>
          [] t = "tuple" -> <<"opt8", "null", "arr16">>
          [] t = "sarr" -> <<"opt8", "opt8">>
          [] t = "var" -> <<"u8", "arr16", "sarr">>
          [] t = "base" -> <<"u8", "optNull">>
          [] t = "derived" -> <<"u8", "optNull", "var", "var0">>
          [] OTHER -> <<>>]

MCFixedSize ==
    [ null |-> 0, u8 |-> 1, u16 |-> 2, opt8 |-> 4, optNull |-> 4, arr16 |-> 8,
      arrOpt |-> 8, arrArr |-> 8, flat |-> 3, arrFlat |-> 8, pair |-> 12,
      tuple |-> 12, tuple0 |-> 0, sarr |-> 8, sarr0 |-> 0, var0 |-> 6, var |-> 6,
      base |-> 5, derived |-> 17, arrVar |-> 8, u64 |-> 8, arr64 |-> 8, wide |-> 16,
      arr8 |-> 8, arrNull |-> 8, arr8Opt |-> 12, arr8Var |-> 14, varArr8 |-> 14 ]

MCElementOffset ==
    [ flat |-> <<0, 1, 3>>, pair |-> <<0, 8, 12>>, tuple |-> <<0, 4, 4, 12>>,
      tuple0 |-> <<0>>, sarr |-> <<0, 4, 8>>, sarr0 |-> <<0>>,
      base |-> <<0, 1, 5>>, derived |-> <<0, 1, 5, 11, 17>>,
      wide |-> <<0, 8, 16>>, arr8Opt |-> <<0, 8, 12>>, arr8Var |-> <<0, 8, 14>>,
      varArr8 |-> <<0, 6, 14>> ]

MCIsFixed ==
    [t \in MCType |-> t \in {"null", "u8", "u16", "u64", "flat", "tuple0", "sarr0", "var0"}]

\* The record types from which a record type derives.
MCBases == [t \in MCType |-> IF t = "derived" THEN {"base"} ELSE {}]

\* How deep a type is nested.
MCDepth ==
    [ null |-> 0, u8 |-> 0, u16 |-> 0, opt8 |-> 1, optNull |-> 1, arr16 |-> 1,
      arrOpt |-> 2, arrArr |-> 2, flat |-> 1, arrFlat |-> 2, pair |-> 3, tuple |-> 2,
      tuple0 |-> 0, sarr |-> 2, sarr0 |-> 0, var0 |-> 0, var |-> 3, base |-> 2,
      derived |-> 4, arrVar |-> 4, u64 |-> 0, arr64 |-> 1, wide |-> 2, arr8 |-> 1,
      arrNull |-> 1, arr8Opt |-> 2, arr8Var |-> 4, varArr8 |-> 4 ]

ASSUME LayoutAssumption ==
    \A t \in MCType :
        /\ MCElements[t] = L!ElementTypes(t)
        /\ MCFixedSize[t] = L!FixedDataSize(t)
        /\ MCIsFixed[t] = L!FixedSizeSerialisable(t)
        /\ MCKind[t] \in {"pair", "tuple", "static_array", "record"} =>
              /\ MCElementOffset[t] = L!SerialisedOffsets(t)
              /\ \A i \in 1 .. Len(MCElements[t]) :
                    L!DeserialisedOffset(t, i) = MCElementOffset[t][i]
        /\ MCKind[t] = "record" =>
              L!AllFieldsUnique(L!Fields(t)) /\ MCBases[t] = L!BaseRecords(t)
=============================================================================
