--------------------------- MODULE SourceGenerator ---------------------------
(***************************************************************************)
(* random_source_generator<T> of the benchmark, without the randomness:    *)
(* which sources it can make, and the bound on the size of their messages  *)
(* (max_serialised_size) by which the benchmark sizes its buffers.         *)
(* A generator belongs to a type; where two generators of one type differ  *)
(* in their settings, the type goes by two names.  What the recursive      *)
(* member functions return is given as tables; GeneratorAssumption states  *)
(* of each entry how the code computes it from those of the types or       *)
(* sources inside.                                                         *)
(***************************************************************************)
EXTENDS SourceTree, FiniteSetsExt

CONSTANTS
    MaxSize,               \* max_size of each dynamic_array's generator
    Possible,              \* which elements of an optional or a variant have a
                           \* positive probability
    MaxSerialisedSize,     \* max_serialised_size() of each type's generator
    MaxSizeFrom,           \* its sum over the elements of a type from each one on
    Generated              \* the sources that operator() can return; a min_size
                           \* or a certain probability only leaves some out

\* The largest value that an optional or a variant may get, 0 if there is none.
Largest(t, sizes) == Max({0} \cup {sizes[i] : i \in Possible[t]})

\* Faulty: the offset, size or index in the fixed data is forgotten.
WithValueOnly(t, size) == size

\* The fixed data of t and the values that it refers to.
WithValue(t, size) == FixedSize[t] + size

\* max_serialised_size() of t, from those of its elements and their sum.
SizeFromElements(t, sizes, sum) ==
    CASE Kind[t] \in {"null", "scalar"} -> FixedSize[t]
      [] Kind[t] \in Contiguous -> sum
      [] Kind[t] \in {"optional", "variant"} -> WithValue(t, Largest(t, sizes))
      [] Kind[t] = "dynamic_array" -> WithValue(t, MaxSize[t] * sizes[1])

\* The sizes of the elements of t, summed from the last one to the first.
ElementSizes(t) == [i \in DOMAIN Elements[t] |-> MaxSerialisedSize[Elements[t][i]]]

HasMaxSerialisedSize(t) ==
    LET n == Len(Elements[t]) IN
    /\ MaxSizeFrom[t] \in [1 .. n + 1 -> Nat]
    /\ MaxSizeFrom[t][n + 1] = 0
    /\ \A i \in 1 .. n : MaxSizeFrom[t][i] = ElementSizes(t)[i] + MaxSizeFrom[t][i + 1]
    /\ MaxSerialisedSize[t] = SizeFromElements(t, ElementSizes(t), MaxSizeFrom[t][1])

\* What operator() makes itself: arrays of at most max_size elements, optionals
\* whose value is possible, variants with a possible value unless there are no
\* alternatives.
CanBeOutermost(s) ==
    LET t == s.type IN
    /\ Kind[t] = "dynamic_array" => Len(s.sub) <= MaxSize[t]
    /\ Kind[t] = "optional" => s.sub = <<>> \/ 1 \in Possible[t]
    /\ Kind[t] = "variant" => IF s.sub = <<>> THEN Elements[t] = <<>> ELSE s.val + 1 \in Possible[t]

\* operator(): everything inside is generated, too.
CanGenerate(s) == CanBeOutermost(s) /\ \A i \in DOMAIN s.sub : s.sub[i] \in Generated

ASSUME GeneratorAssumption ==
    /\ MaxSize \in [Type -> Nat]
    /\ \A t \in Type : Possible[t] \subseteq DOMAIN Elements[t]
    /\ MaxSerialisedSize \in [Type -> Nat]
    /\ \A t \in Type : HasMaxSerialisedSize(t)
    /\ Generated = {s \in Source : CanGenerate(s)}
=============================================================================
