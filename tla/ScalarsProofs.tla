---------------------------- MODULE ScalarsProofs -----------------------------
(***************************************************************************)
(* Scalars of every width, with bytes of every (even) number of values.    *)
(*                                                                         *)
(* A number below Power[w] and its w bytes determine each other: of its    *)
(* first k bytes the number they make up is the remainder of division by   *)
(* Power[k], and each byte is the next digit of it.  The loop that writes  *)
(* has, after i bytes, the quotient by Power[i] in its local variable, and *)
(* the loop that reads the remainder; a machine that copies its memory     *)
(* does all of that in one step.                                           *)
(***************************************************************************)
EXTENDS Scalars, FiniteSetTheorems, TLAPS

-----------------------------------------------------------------------------
\* Numbers.

LEMMA Divided ==
    ASSUME NEW a \in Nat, NEW b \in Nat \ {0}
    PROVE  /\ a \div b \in Nat /\ a % b \in Nat /\ a % b < b
           /\ a = b * (a \div b) + (a % b)
OBVIOUS

\* y < z, multiplied by x.
LEMMA SmallerProduct ==
    ASSUME NEW x \in Nat, NEW y \in Nat, NEW z \in Nat, y < z
    PROVE  \E p, q \in Nat : p = x * y /\ q = x * z /\ p + x <= q
<1>1. PICK e \in Nat : z = y + 1 + e
  <2>1. z - (y + 1) \in Nat /\ z = y + 1 + (z - (y + 1))
    OBVIOUS
  <2> QED
    BY <2>1
<1>2. \A a, b \in Nat : a * b \in Nat
  OBVIOUS
<1>3. PICK p \in Nat, q \in Nat, r \in Nat : p = x * y /\ q = x * z /\ r = x * e
  BY <1>2
<1>4. \A a, b, c \in Nat : a * (b + 1 + c) = a * b + a + a * c
  OBVIOUS
<1>5. q = p + x + r
  BY <1>1, <1>3, <1>4
<1>6. p + x <= q
  BY <1>5
<1> QED
  BY <1>3, <1>6

\* Division with remainder is unique.
DividesInto(a, b, q, r) ==
    b \in Nat \ {0} /\ q \in Nat /\ r \in Nat /\ r < b /\ a = b * q + r

LEMMA DivisionUnique ==
    ASSUME NEW a, NEW b, NEW q, NEW r, DividesInto(a, b, q, r)
    PROVE  a \div b = q /\ a % b = r
<1> DEFINE p == a \div b
           s == a % b
<1>1. b \in Nat \ {0} /\ q \in Nat /\ r \in Nat /\ r < b /\ a = b * q + r
  BY DEF DividesInto
<1>2. b * q \in Nat /\ a \in Nat
  <2>1. \A x, y \in Nat : x * y \in Nat
    OBVIOUS
  <2>2. b * q \in Nat
    BY <1>1, <2>1
  <2> QED
    BY <1>1, <2>2
<1>3. p \in Nat /\ s \in Nat /\ s < b /\ a = b * p + s
  BY <1>1, <1>2, Divided
<1> HIDE DEF p, s
<1>4. \A x, y \in Nat : x >= y + 1 => b * x >= b * y + b
  BY <1>1
<1>5. ~(p >= q + 1) /\ ~(q >= p + 1)
  BY <1>1, <1>2, <1>3, <1>4
<1>6. p = q
  BY <1>1, <1>3, <1>5
<1>7. s = r
  BY <1>1, <1>2, <1>3, <1>6
<1> QED
  BY <1>6, <1>7 DEF p, s

\* A set of numbers that contains 0 and with each number the next contains all:
\* otherwise, of its members below one that is missing, the successor function
\* would map them into those that are not 0, of which there is one less.
LEMMA NumberInduction ==
    ASSUME NEW S, 0 \in S, \A k \in Nat : k \in S => k + 1 \in S
    PROVE  \A k \in Nat : k \in S
<1> SUFFICES ASSUME NEW n \in Nat, n \notin S
             PROVE  FALSE
  OBVIOUS
<1> DEFINE A == S \cap (0 .. n)
           B == A \ {0}
           succ == [k \in A |-> k + 1]
<1>1. IsFiniteSet(0 .. n)
  BY FS_Interval
<1>2. IsFiniteSet(A) /\ 0 \in A
  <2>1. A \in SUBSET (0 .. n) /\ 0 \in A
    OBVIOUS
  <2> HIDE DEF A
  <2> QED
    BY <1>1, <2>1, FS_Subset
<1>3. succ \in [A -> B]
  OBVIOUS
<1>4. IsFiniteSet(B) /\ Cardinality(B) < Cardinality(A)
  <2> HIDE DEF A
  <2>1. IsFiniteSet(B) /\ Cardinality(B) = Cardinality(A) - 1
    BY <1>2, FS_RemoveElement
  <2>2. Cardinality(A) \in Nat
    BY <1>2, FS_CardinalityType
  <2> QED
    BY <2>1, <2>2
<1>5. \E x, y \in A : x # y /\ succ[x] = succ[y]
  <2> HIDE DEF A, B, succ
  <2> QED
    BY <1>2, <1>3, <1>4, FS_PigeonHole
<1> QED
  BY <1>5

-----------------------------------------------------------------------------
\* Powers and bytes.

\* The powers of Radix up to the n-th one.
Powers(g, n) == g[0] = 1 /\ \A k \in 0 .. n - 1 : g[k + 1] = Radix * g[k]

LEMMA PowersExist ==
    \A n \in Nat : \E g : Powers(g, n)
<1> DEFINE S == {n \in Nat : \E g : Powers(g, n)}
<1>1. 0 \in S
  <2>1. Powers([k \in {0} |-> 1], 0)
    BY DEF Powers
  <2> QED
    BY <2>1
<1>2. ASSUME NEW n \in Nat, n \in S
      PROVE  n + 1 \in S
  <2>1. PICK g : Powers(g, n)
    BY <1>2
  <2>2. PICK y : y = Radix * g[n]
    OBVIOUS
  <2> DEFINE h == [k \in 0 .. n + 1 |-> IF k = n + 1 THEN y ELSE g[k]]
  <2>3. h[0] = 1
    BY <2>1 DEF Powers
  <2>4. ASSUME NEW k \in 0 .. n
        PROVE  h[k + 1] = Radix * h[k]
    <3>1. h[k] = g[k]
      OBVIOUS
    <3>2. CASE k = n
      <4>1. h[k + 1] = y
        BY <3>2
      <4> QED
        BY <2>2, <3>1, <3>2, <4>1
    <3>3. CASE k # n
      <4>1. h[k + 1] = g[k + 1] /\ k \in 0 .. n - 1
        BY <3>3
      <4> QED
        BY <2>1, <3>1, <4>1 DEF Powers
    <3> QED
      BY <3>2, <3>3
  <2>5. (n + 1) - 1 = n
    OBVIOUS
  <2> HIDE DEF h
  <2>6. Powers(h, n + 1)
    BY <2>3, <2>4, <2>5 DEF Powers
  <2> QED
    BY <2>6
<1> HIDE DEF S
<1>3. \A n \in Nat : n \in S
  BY <1>1, <1>2, NumberInduction
<1> QED
  BY <1>3 DEF S

LEMMA PowersUnique ==
    ASSUME NEW n \in Nat, NEW g, NEW h, Powers(g, n), Powers(h, n)
    PROVE  g[n] = h[n]
<1> DEFINE S == {k \in Nat : k <= n => g[k] = h[k]}
<1>1. 0 \in S
  BY DEF Powers
<1>2. ASSUME NEW k \in Nat, k \in S
      PROVE  k + 1 \in S
  <2> SUFFICES ASSUME k + 1 <= n PROVE g[k + 1] = h[k + 1]
    OBVIOUS
  <2>1. k \in 0 .. n - 1 /\ g[k] = h[k]
    BY <1>2
  <2> QED
    BY <2>1 DEF Powers
<1> HIDE DEF S
<1>3. n \in S
  BY <1>1, <1>2, NumberInduction
<1> QED
  BY <1>3 DEF S

\* The recursion of Power is well-founded.
LEMMA PowerDefined ==
    /\ Power[0] = 1
    /\ \A k \in Nat : Power[k + 1] = Radix * Power[k]
<1> DEFINE D(g) == [k \in Nat |-> IF k = 0 THEN 1 ELSE Radix * g[k - 1]]
           upTo(k) == CHOOSE g : Powers(g, k)
           F == [k \in Nat |-> upTo(k)[k]]
<1>1. \A k \in Nat : Powers(upTo(k), k)
  BY PowersExist
<1> HIDE DEF upTo
<1>2. F[0] = 1
  <2>1. F[0] = upTo(0)[0] /\ Powers(upTo(0), 0)
    BY <1>1
  <2> QED
    BY <2>1 DEF Powers
<1>3. ASSUME NEW k \in Nat
      PROVE  F[k + 1] = Radix * F[k]
  <2>1. PICK g, h, j : g = upTo(k) /\ h = upTo(j) /\ j = k + 1
    OBVIOUS
  <2>2. j \in Nat /\ j - 1 = k
    BY <2>1
  <2>3. F[k] = g[k] /\ F[j] = h[j] /\ Powers(g, k) /\ Powers(h, j)
    BY <1>1, <2>1, <2>2
  <2>4. h[j] = Radix * h[k]
    BY <2>1, <2>2, <2>3 DEF Powers
  <2>5. Powers(h, k)
    BY <2>1, <2>2, <2>3 DEF Powers
  <2>6. h[k] = g[k]
    BY <2>3, <2>5, PowersUnique
  <2> QED
    BY <2>1, <2>3, <2>4, <2>6
<1> HIDE DEF F
<1>4. ASSUME NEW k \in Nat
      PROVE  F[k] = IF k = 0 THEN 1 ELSE Radix * F[k - 1]
  <2>1. CASE k = 0
    BY <1>2, <2>1
  <2>2. CASE k # 0
    <3>1. PICK j \in Nat : k = j + 1
      BY <2>2
    <3>2. k - 1 = j /\ F[j + 1] = Radix * F[j]
      BY <1>3, <3>1
    <3> QED
      BY <2>2, <3>1, <3>2
  <2> QED
    BY <2>1, <2>2
<1>5. F = D(F)
  BY <1>4 DEF F
<1>6. Power = CHOOSE g : g = D(g)
  BY DEF Power
<1>7. PICK p : p = Power
  OBVIOUS
<1>8. p = D(p)
  BY <1>5, <1>6, <1>7
<1>9. p[0] = 1
  BY <1>8
<1>10. ASSUME NEW k \in Nat
       PROVE  p[k + 1] = Radix * p[k]
  <2>1. PICK j \in Nat : j = k + 1
    OBVIOUS
  <2>2. j # 0 /\ j - 1 = k
    BY <2>1
  <2>3. p[j] = IF j = 0 THEN 1 ELSE Radix * p[j - 1]
    BY <1>8
  <2> QED
    BY <2>1, <2>2, <2>3
<1> QED
  BY <1>7, <1>9, <1>10

LEMMA PowerIsPositive == \A k \in Nat : Power[k] \in Nat \ {0}
<1> DEFINE S == {k \in Nat : Power[k] \in Nat \ {0}}
<1>1. 0 \in S
  BY PowerDefined
<1>2. ASSUME NEW k \in Nat, k \in S
      PROVE  k + 1 \in S
  <2>1. \A x, y \in Nat \ {0} : x * y \in Nat \ {0}
    OBVIOUS
  <2>2. Radix \in Nat \ {0} /\ Power[k] \in Nat \ {0}
    BY <1>2, RadixAssumption
  <2>3. Radix * Power[k] \in Nat \ {0}
    BY <2>1, <2>2
  <2> QED
    BY <2>3, PowerDefined
<1> HIDE DEF S
<1>3. \A k \in Nat : k \in S
  BY <1>1, <1>2, NumberInduction
<1> QED
  BY <1>3 DEF S

\* Dividing by c * b is dividing by b and then by c.
IsProduct(d, c, b) == c \in Nat \ {0} /\ b \in Nat \ {0} /\ d = c * b

LEMMA DividedTwice ==
    ASSUME NEW u \in Nat, NEW b, NEW c, NEW d, IsProduct(d, c, b)
    PROVE  /\ u \div d = (u \div b) \div c
           /\ u % d = (u % b) + ((u \div b) % c) * b
<1>1. c \in Nat \ {0} /\ b \in Nat \ {0} /\ d = c * b
  BY DEF IsProduct
<1>2. PICK p, r : p = u \div b /\ r = u % b
  OBVIOUS
<1>3. p \in Nat /\ r \in Nat /\ r < b /\ u = b * p + r
  BY <1>1, <1>2, Divided
<1>4. PICK q, e : q = p \div c /\ e = p % c
  OBVIOUS
<1>5. q \in Nat /\ e \in Nat /\ e < c /\ p = c * q + e
  BY <1>1, <1>3, <1>4, Divided
<1>6. \A x, y \in Nat : x * y \in Nat
  OBVIOUS
<1>7. PICK f : f = e * b
  OBVIOUS
<1>8. f \in Nat /\ f + b <= d /\ d \in Nat
  <2>1. \A x, y \in Nat : y \in Nat \ {0} /\ e + 1 <= x => e * y + y <= x * y
    BY <1>5
  <2> QED
    BY <1>1, <1>5, <1>6, <1>7, <2>1
<1>9. f + r \in Nat /\ f + r < d /\ d \in Nat \ {0}
  BY <1>1, <1>3, <1>8
<1>10. u = d * q + (f + r)
  <2>1. b * (c * q + e) + r = (c * b) * q + (e * b + r)
    BY <1>1, <1>3, <1>5
  <2> QED
    BY <1>1, <1>3, <1>5, <1>7, <2>1
<1>11. u \div d = q /\ u % d = f + r
  <2>1. PICK x : x = f + r
    OBVIOUS
  <2>2. DividesInto(u, d, q, x)
    BY <1>5, <1>9, <1>10, <2>1 DEF DividesInto
  <2> QED
    BY <2>1, <2>2, DivisionUnique
<1>12. f + r = r + e * b
  BY <1>3, <1>7, <1>8
<1> QED
  BY <1>2, <1>4, <1>11, <1>12

\* The byte that is next.
LEMMA NextByte ==
    ASSUME NEW u \in Nat, NEW k \in Nat
    PROVE  /\ u \div Power[k + 1] = (u \div Power[k]) \div Radix
           /\ u % Power[k + 1] = (u % Power[k]) + ByteOf(u, k) * Power[k]
           /\ ByteOf(u, k) \in Byte /\ u \div Power[k] \in Nat
           /\ u % Power[k] \in Nat /\ u % Power[k] < Power[k]
<1>1. PICK b, d : b = Power[k] /\ d = Power[k + 1]
  OBVIOUS
<1>2. Radix \in Nat \ {0} /\ b \in Nat \ {0} /\ d = Radix * b
  BY <1>1, RadixAssumption, PowerIsPositive, PowerDefined
<1>3. PICK p : p = u \div b
  OBVIOUS
<1>4. p \in Nat /\ u % b \in Nat /\ u % b < b
  BY <1>2, <1>3, Divided
<1>5. p % Radix \in Nat /\ p % Radix < Radix
  BY <1>2, <1>4, Divided
<1>6. ByteOf(u, k) = p % Radix
  BY <1>1, <1>3 DEF ByteOf
<1>7. u \div d = p \div Radix /\ u % d = (u % b) + (p % Radix) * b
  <2>1. IsProduct(d, Radix, b)
    BY <1>2 DEF IsProduct
  <2> QED
    BY <1>3, <2>1, DividedTwice
<1>8. p % Radix \in Byte
  BY <1>2, <1>5 DEF Byte
<1> QED
  BY <1>1, <1>3, <1>4, <1>6, <1>7, <1>8

\* A number of w bytes is its remainder of division by Power[w].
LEMMA SmallIsRest ==
    ASSUME NEW w \in Nat, NEW u \in Pattern(w)
    PROVE  u \in Nat /\ u % Power[w] = u
<1>1. PICK b \in Nat \ {0} : b = Power[w]
  BY PowerIsPositive
<1>2. u \in Nat /\ u < b
  BY <1>1 DEF Pattern
<1>3. DividesInto(u, b, 0, u)
  BY <1>1, <1>2 DEF DividesInto
<1>4. u % b = u
  BY <1>3, DivisionUnique
<1> QED
  BY <1>1, <1>2, <1>4

\* The first w bytes make up the number modulo Power[w].
LEMMA SameBytesSameRest ==
    ASSUME NEW u \in Nat, NEW v \in Nat, NEW w \in Nat,
           \A k \in 0 .. w - 1 : ByteOf(u, k) = ByteOf(v, k)
    PROVE  u % Power[w] = v % Power[w]
<1> DEFINE S == {k \in Nat : k <= w => u % Power[k] = v % Power[k]}
<1>1. 0 \in S
  <2>1. Power[0] = 1 /\ u % 1 = 0 /\ v % 1 = 0
    BY PowerDefined
  <2> QED
    BY <2>1
<1>2. ASSUME NEW k \in Nat, k \in S
      PROVE  k + 1 \in S
  <2> SUFFICES ASSUME k + 1 <= w PROVE u % Power[k + 1] = v % Power[k + 1]
    OBVIOUS
  <2>1. k \in 0 .. w - 1 /\ u % Power[k] = v % Power[k]
    BY <1>2
  <2> QED
    <3>1. /\ u % Power[k + 1] = (u % Power[k]) + ByteOf(u, k) * Power[k]
          /\ v % Power[k + 1] = (v % Power[k]) + ByteOf(v, k) * Power[k]
      BY NextByte
    <3> QED
      BY <2>1, <3>1
<1> HIDE DEF S
<1>3. w \in S
  BY <1>1, <1>2, NumberInduction
<1> QED
  BY <1>3 DEF S

\* Numbers of the same width with the same bytes are the same.
LEMMA BytesIdentify ==
    ASSUME NEW w \in Nat, NEW u \in Pattern(w), NEW v \in Pattern(w),
           LittleEndian(u, w) = LittleEndian(v, w)
    PROVE  u = v
<1>1. \A k \in 0 .. w - 1 : ByteOf(u, k) = ByteOf(v, k)
  <2>1. \A k \in 0 .. w - 1 : LittleEndian(u, w)[k] = ByteOf(u, k) /\ LittleEndian(v, w)[k] = ByteOf(v, k)
    BY DEF LittleEndian
  <2> QED
    BY <2>1
<1>2. u \in Nat /\ v \in Nat
  BY SmallIsRest
<1>3. u % Power[w] = v % Power[w]
  BY <1>1, <1>2, SameBytesSameRest
<1> QED
  BY <1>3, SmallIsRest

\* Numbers that are the same modulo Power[w] have the same first w bytes.
LEMMA SameRestSameBytes ==
    ASSUME NEW u \in Nat, NEW v \in Nat, NEW w \in Nat, u % Power[w] = v % Power[w]
    PROVE  \A k \in 0 .. w - 1 : ByteOf(u, k) = ByteOf(v, k)
<1> DEFINE S == {n \in Nat : \A k \in Nat : k + n = w => u % Power[k] = v % Power[k]}
<1>1. ASSUME NEW k \in Nat, u % Power[k + 1] = v % Power[k + 1]
      PROVE  u % Power[k] = v % Power[k] /\ ByteOf(u, k) = ByteOf(v, k)
  <2>1. PICK b \in Nat \ {0} : b = Power[k]
    BY PowerIsPositive
  <2>2. PICK r, s, d, e : r = u % b /\ s = v % b /\ d = ByteOf(u, k) /\ e = ByteOf(v, k)
    OBVIOUS
  <2>3. /\ r \in Nat /\ r < b /\ s \in Nat /\ s < b /\ d \in Nat /\ e \in Nat
        /\ r + d * b = s + e * b
    <3>1. /\ u % Power[k + 1] = (u % Power[k]) + ByteOf(u, k) * Power[k]
          /\ v % Power[k + 1] = (v % Power[k]) + ByteOf(v, k) * Power[k]
          /\ ByteOf(u, k) \in Byte /\ ByteOf(v, k) \in Byte
          /\ u % Power[k] \in Nat /\ u % Power[k] < Power[k]
          /\ v % Power[k] \in Nat /\ v % Power[k] < Power[k]
      BY NextByte
    <3>2. r + d * b = s + e * b
      BY <1>1, <2>1, <2>2, <3>1
    <3>3. d \in Nat /\ e \in Nat
      BY <2>2, <3>1 DEF Byte
    <3> QED
      BY <2>1, <2>2, <3>1, <3>2, <3>3
  <2>4. PICK x : x = b * d + r
    OBVIOUS
  <2>5. x = b * e + s
    <3>1. \A i1, i2 \in Nat : i1 * i2 = i2 * i1 /\ i1 * i2 \in Nat
      OBVIOUS
    <3>2. PICK y \in Nat, z \in Nat : y = d * b /\ z = e * b
      BY <2>1, <2>3, <3>1
    <3>3. b * d = y /\ b * e = z
      BY <2>3, <3>1, <3>2
    <3> QED
      BY <2>3, <2>4, <3>2, <3>3
  <2>6. x \div b = d /\ x % b = r
    <3>1. DividesInto(x, b, d, r)
      BY <2>3, <2>4 DEF DividesInto
    <3> QED
      BY <3>1, DivisionUnique
  <2>7. x \div b = e /\ x % b = s
    <3>1. DividesInto(x, b, e, s)
      BY <2>3, <2>5 DEF DividesInto
    <3> QED
      BY <3>1, DivisionUnique
  <2> QED
    BY <2>1, <2>2, <2>6, <2>7
<1>2. 0 \in S
  OBVIOUS
<1>3. ASSUME NEW n \in Nat, n \in S
      PROVE  n + 1 \in S
  <2> SUFFICES ASSUME NEW k \in Nat, k + (n + 1) = w PROVE u % Power[k] = v % Power[k]
    OBVIOUS
  <2>1. (k + 1) + n = w /\ k + 1 \in Nat
    OBVIOUS
  <2>2. u % Power[k + 1] = v % Power[k + 1]
    BY <1>3, <2>1
  <2> QED
    BY <1>1, <2>2
<1> HIDE DEF S
<1>4. \A n \in Nat : n \in S
  BY <1>2, <1>3, NumberInduction
<1> SUFFICES ASSUME NEW k \in 0 .. w - 1 PROVE ByteOf(u, k) = ByteOf(v, k)
  OBVIOUS
<1>5. PICK n \in Nat : (k + 1) + n = w
  <2>1. w - (k + 1) \in Nat /\ (k + 1) + (w - (k + 1)) = w
    OBVIOUS
  <2> QED
    BY <2>1
<1>6. k + 1 \in Nat /\ n \in S
  BY <1>4
<1>7. u % Power[k + 1] = v % Power[k + 1]
  BY <1>5, <1>6 DEF S
<1> QED
  BY <1>1, <1>7

\* Any bytes are those of some number.
LEMMA BytesHaveNumber ==
    ASSUME NEW w \in Nat, NEW bytes, bytes \in [0 .. w - 1 -> Byte]
    PROVE  \E u \in Pattern(w) : LittleEndian(u, w) = bytes
<1> DEFINE S == {n \in Nat : n <= w =>
                     \E u \in Nat : u < Power[n] /\ \A k \in 0 .. n - 1 : ByteOf(u, k) = bytes[k]}
<1>1. 0 \in S
  <2>1. 0 \in Nat /\ 0 < Power[0] /\ \A k \in 0 .. 0 - 1 : FALSE
    BY PowerDefined
  <2> QED
    BY <2>1
<1>2. ASSUME NEW n \in Nat, n \in S
      PROVE  n + 1 \in S
  <2> SUFFICES ASSUME n + 1 <= w
               PROVE  \E u \in Nat : /\ u < Power[n + 1]
                                     /\ \A k \in 0 .. n : ByteOf(u, k) = bytes[k]
    OBVIOUS
  <2>1. PICK u \in Nat : u < Power[n] /\ \A k \in 0 .. n - 1 : ByteOf(u, k) = bytes[k]
    BY <1>2
  <2>2. PICK b \in Nat \ {0}, d \in Nat : b = Power[n] /\ d = bytes[n] /\ d < Radix
    <3>1. n \in 0 .. w - 1
      OBVIOUS
    <3> QED
      BY <3>1, PowerIsPositive, RadixAssumption DEF Byte
  <2>3. PICK v : v = b * d + u
    OBVIOUS
  <2>4. v \in Nat
    <3>1. \A x, y \in Nat : x * y \in Nat
      OBVIOUS
    <3>2. b * d \in Nat
      BY <3>1
    <3> QED
      BY <2>1, <2>3, <3>2
  <2>5. v \div b = d /\ v % b = u
    <3>1. DividesInto(v, b, d, u)
      BY <2>1, <2>2, <2>3 DEF DividesInto
    <3> QED
      BY <3>1, DivisionUnique
  <2>6. u % b = u
    <3>1. DividesInto(u, b, 0, u)
      BY <2>1, <2>2 DEF DividesInto
    <3> QED
      BY <3>1, DivisionUnique
  <2>7. ByteOf(v, n) = d
    <3>1. DividesInto(d, Radix, 0, d)
      BY <2>2, RadixAssumption DEF DividesInto
    <3>2. d % Radix = d
      BY <3>1, DivisionUnique
    <3> QED
      BY <2>2, <2>5, <3>2 DEF ByteOf
  <2>8. \A k \in 0 .. n - 1 : ByteOf(v, k) = ByteOf(u, k)
    BY <2>2, <2>4, <2>5, <2>6, SameRestSameBytes
  <2>9. v < Power[n + 1]
    <3>1. Power[n + 1] = Radix * b
      BY <2>2, PowerDefined
    <3>2. PICK p \in Nat, q \in Nat : p = b * d /\ q = b * Radix /\ p + b <= q
      BY <2>2, SmallerProduct, RadixAssumption
    <3>3. \A x, y \in Nat : x * y = y * x
      OBVIOUS
    <3>4. Power[n + 1] = q
      BY <3>1, <3>2, <3>3, RadixAssumption
    <3>5. v = p + u
      BY <2>3, <3>2
    <3>6. u < b
      BY <2>1, <2>2
    <3>7. v < q
      BY <3>2, <3>5, <3>6
    <3> QED
      BY <3>4, <3>7
  <2>10. \A k \in 0 .. n : ByteOf(v, k) = bytes[k]
    <3> SUFFICES ASSUME NEW k \in 0 .. n PROVE ByteOf(v, k) = bytes[k]
      OBVIOUS
    <3>1. k = n \/ k \in 0 .. n - 1
      OBVIOUS
    <3> QED
      BY <2>1, <2>2, <2>7, <2>8, <3>1
  <2> QED
    BY <2>4, <2>9, <2>10
<1> HIDE DEF S
<1>3. w \in S
  BY <1>1, <1>2, NumberInduction
<1>4. PICK u \in Nat : u < Power[w] /\ \A k \in 0 .. w - 1 : ByteOf(u, k) = bytes[k]
  BY <1>3 DEF S
<1>5. u \in Pattern(w)
  BY <1>4, PowerIsPositive DEF Pattern
<1>6. LittleEndian(u, w) = bytes
  BY <1>4 DEF LittleEndian
<1> QED
  BY <1>5, <1>6

-----------------------------------------------------------------------------
\* Values and patterns.

LEMMA ScalarFacts ==
    ASSUME NEW t \in Scalar
    PROVE  /\ t.width \in Nat
           /\ t.kind \in {"null", "bool", "byte", "unsigned", "signed", "floating"}
           /\ t.kind = "bool" => t.width = 1
           /\ t.kind = "signed" => t.width # 0
BY WidthAssumption DEF Scalar

\* A number that is less than the divisor is the remainder.
LEMMA SmallRest ==
    ASSUME NEW a \in Nat, NEW b \in Nat \ {0}, a < b
    PROVE  a % b = a
<1>1. DividesInto(a, b, 0, a)
  BY DEF DividesInto
<1> QED
  BY <1>1, DivisionUnique

\* The numbers of a signed type are split in two halves.
LEMMA PowerIsEven ==
    ASSUME NEW w \in Nat \ {0}
    PROVE  \E h \in Nat \ {0} : Power[w] = 2 * h /\ Power[w] \div 2 = h
<1>1. PICK k \in Nat : w = k + 1
  <2>1. w - 1 \in Nat /\ w = (w - 1) + 1
    OBVIOUS
  <2> QED
    BY <2>1
<1>2. PICK b \in Nat \ {0} : b = Power[k]
  BY PowerIsPositive
<1>3. PICK r \in Nat \ {0} : Radix = 2 * r
  <2>1. Radix \in Nat /\ Radix % 2 = 0 /\ Radix > 1
    BY RadixAssumption
  <2>2. Radix \div 2 \in Nat \ {0} /\ Radix = 2 * (Radix \div 2)
    BY <2>1
  <2> QED
    BY <2>2
<1>4. PICK h : h = r * b
  OBVIOUS
<1>5. h \in Nat \ {0}
  <2>1. \A x, y \in Nat \ {0} : x * y \in Nat \ {0}
    OBVIOUS
  <2> QED
    BY <1>4, <2>1
<1>6. Power[w] = 2 * h
  <2>1. Power[w] = Radix * b
    BY <1>1, <1>2, PowerDefined
  <2>2. (2 * r) * b = 2 * (r * b)
    OBVIOUS
  <2> QED
    BY <1>3, <1>4, <2>1, <2>2
<1>7. Power[w] \div 2 = h
  BY <1>5, <1>6
<1> QED
  BY <1>5, <1>6, <1>7

\* static_cast to the unsigned type.
LEMMA SignedPattern ==
    ASSUME NEW w \in Nat \ {0}, NEW v \in -(Power[w] \div 2) .. Power[w] \div 2 - 1
    PROVE  /\ TwosComplement(v, w) \in Pattern(w)
           /\ SignedValue(TwosComplement(v, w), w) = v
<1>1. PICK h \in Nat \ {0}, b \in Nat \ {0} : b = Power[w] /\ b = 2 * h /\ b \div 2 = h
  BY PowerIsEven, PowerIsPositive
<1>2. v \in Int /\ -h <= v /\ v < h
  BY <1>1
<1>3. CASE v >= 0
  <2>1. v \in Nat /\ v < b
    BY <1>1, <1>2, <1>3
  <2>2. v % b = v
    BY <2>1, SmallRest
  <2> QED
    BY <1>1, <1>2, <2>1, <2>2 DEF TwosComplement, SignedValue, Pattern
<1>4. CASE v < 0
  <2>1. v + b \in Nat /\ v + b < b /\ v + b >= h
    BY <1>1, <1>2, <1>4
  <2>2. v % b = v + b
    <3>1. \A x \in Int : -b <= x /\ x < 0 => x % b = x + b
      OBVIOUS
    <3> QED
      BY <1>1, <1>2, <1>4, <3>1
  <2>3. PICK u : u = v % b
    OBVIOUS
  <2>4. u \in Nat /\ u < b /\ ~(u < h) /\ u - b = v
    BY <1>1, <1>2, <2>1, <2>2, <2>3
  <2>5. TwosComplement(v, w) = u
    BY <1>1, <2>3 DEF TwosComplement
  <2> QED
    BY <1>1, <2>4, <2>5 DEF SignedValue, Pattern
<1> QED
  BY <1>2, <1>3, <1>4

\* static_cast to the signed type.
LEMMA PatternSigned ==
    ASSUME NEW w \in Nat \ {0}, NEW u \in Pattern(w), NEW v, v = SignedValue(u, w)
    PROVE  /\ v \in -(Power[w] \div 2) .. Power[w] \div 2 - 1
           /\ v % Power[w] = u
<1>1. PICK h \in Nat \ {0}, b \in Nat \ {0} : b = Power[w] /\ b = 2 * h /\ b \div 2 = h
  BY PowerIsEven, PowerIsPositive
<1>2. u \in Nat /\ u < b
  BY <1>1 DEF Pattern
<1>3. CASE u < h
  <2>1. v = u
    BY <1>1, <1>3 DEF SignedValue
  <2>2. u % b = u
    BY <1>2, SmallRest
  <2> QED
    BY <1>1, <1>2, <1>3, <2>1, <2>2
<1>4. CASE ~(u < h)
  <2>1. v = u - b
    BY <1>1, <1>4 DEF SignedValue
  <2>2. v \in Int /\ -h <= v /\ v < 0
    BY <1>1, <1>2, <1>4, <2>1
  <2>3. v % b = v + b
    <3>1. \A x \in Int : -b <= x /\ x < 0 => x % b = x + b
      OBVIOUS
    <3> QED
      BY <1>1, <2>2, <3>1
  <2> QED
    BY <1>1, <1>2, <2>1, <2>2, <2>3
<1> QED
  BY <1>3, <1>4

\* What is serialised in place of a value has its width, and gives it back.
LEMMA PatternOfValue ==
    ASSUME NEW t \in Scalar, NEW v \in Values(t), NEW u, u = ToPattern(t, v)
    PROVE  /\ u \in Pattern(t.width) /\ FromPattern(t, u) = v
           /\ t.kind # "bool" => u = v % Power[t.width]
           /\ t.kind = "bool" => u = BoolByte(v) /\ v \in BOOLEAN
<1>1. PICK w \in Nat : w = t.width
  BY ScalarFacts
<1>2. CASE t.kind = "bool"
  <2>1. w = 1 /\ v \in BOOLEAN /\ u = BoolByte(v) /\ FromPattern(t, u) = ByteBool(u)
    BY <1>1, <1>2, ScalarFacts DEF Values, ToPattern, FromPattern
  <2>2. Power[w] = Radix
    <3>1. Power[0 + 1] = Radix * Power[0] /\ Power[0] = 1 /\ 0 + 1 = 1
      BY PowerDefined
    <3> QED
      BY <2>1, <3>1, RadixAssumption
  <2>3. u \in 0 .. Radix - 1
    BY <2>1, RadixAssumption DEF BoolByte
  <2>4. ByteBool(u) = v
    BY <2>1 DEF ByteBool, BoolByte
  <2> QED
    BY <1>1, <1>2, <2>1, <2>2, <2>3, <2>4 DEF Pattern
<1>3. CASE t.kind = "signed"
  <2>1. w # 0
    BY <1>1, <1>3, ScalarFacts
  <2>2. /\ v \in -(Power[w] \div 2) .. Power[w] \div 2 - 1
        /\ u = TwosComplement(v, w) /\ FromPattern(t, u) = SignedValue(u, w)
    BY <1>1, <1>3 DEF Values, ToPattern, FromPattern
  <2>3. u \in Pattern(w) /\ SignedValue(u, w) = v
    BY <2>1, <2>2, SignedPattern
  <2>4. u = v % Power[w]
    BY <2>2 DEF TwosComplement
  <2> QED
    BY <1>1, <1>3, <2>2, <2>3, <2>4
<1>4. CASE t.kind \notin {"bool", "signed"}
  <2>1. v \in Pattern(w) /\ u = v /\ FromPattern(t, u) = u
    BY <1>1, <1>4 DEF Values, ToPattern, FromPattern
  <2>2. v % Power[w] = v
    BY <2>1, SmallIsRest
  <2> QED
    BY <1>1, <1>4, <2>1, <2>2
<1> QED
  BY <1>2, <1>3, <1>4

\* Any pattern is that of a value.
LEMMA ValueOfPattern ==
    ASSUME NEW t \in Scalar, NEW u \in Pattern(t.width), NEW v, v = FromPattern(t, u)
    PROVE  /\ v \in Values(t)
           /\ t.kind # "bool" => v % Power[t.width] = u
           /\ t.kind = "bool" => v = (u # 0)
<1>1. PICK w \in Nat : w = t.width
  BY ScalarFacts
<1>2. CASE t.kind = "bool"
  BY <1>2 DEF Values, FromPattern, ByteBool
<1>3. CASE t.kind = "signed"
  <2>1. w # 0
    BY <1>1, <1>3, ScalarFacts
  <2>2. v = SignedValue(u, w)
    BY <1>1, <1>3 DEF FromPattern
  <2>3. v \in -(Power[w] \div 2) .. Power[w] \div 2 - 1 /\ v % Power[w] = u
    BY <1>1, <2>1, <2>2, PatternSigned
  <2> QED
    BY <1>1, <1>3, <2>3 DEF Values
<1>4. CASE t.kind \notin {"bool", "signed"}
  <2>1. v = u
    BY <1>4 DEF FromPattern
  <2>2. u % Power[w] = u
    BY <1>1, SmallIsRest
  <2>3. Values(t) = Pattern(w)
    BY <1>1, <1>4 DEF Values
  <2> QED
    BY <1>1, <1>4, <2>1, <2>2, <2>3
<1> QED
  BY <1>2, <1>3, <1>4

-----------------------------------------------------------------------------
\* The machines.

\* The bytes of a number are bytes.
LEMMA BytesAreBytes ==
    ASSUME NEW u \in Nat, NEW w \in Nat
    PROVE  LittleEndian(u, w) \in [0 .. w - 1 -> Byte]
<1>1. \A k \in 0 .. w - 1 : ByteOf(u, k) \in Byte
  BY NextByte
<1> QED
  BY <1>1 DEF LittleEndian

\* On each machine, what is copied is the number in little endian.
LEMMA MemoryCopied ==
    ASSUME NEW u, NEW w \in Nat, NEW order
    PROVE  (IF order = "big" THEN Reversed(Memory(u, w, order), w) ELSE Memory(u, w, order))
               = LittleEndian(u, w)
<1>1. CASE order = "big"
  <2>1. ASSUME NEW k \in 0 .. w - 1
        PROVE  Memory(u, w, order)[w - 1 - k] = ByteOf(u, k)
    <3>1. w - 1 - k \in 0 .. w - 1 /\ w - 1 - (w - 1 - k) = k
      OBVIOUS
    <3> QED
      BY <1>1, <3>1 DEF Memory
  <2> QED
    BY <1>1, <2>1 DEF Reversed, LittleEndian
<1>2. CASE order # "big"
  BY <1>2 DEF Memory, LittleEndian
<1> QED
  BY <1>1, <1>2

\* A number whose memory is what was copied from the fixed data has those bytes.
LEMMA CopiedIsFixed ==
    ASSUME NEW u, NEW w \in Nat, NEW order, NEW bytes, bytes \in [0 .. w - 1 -> Byte],
           Memory(u, w, order) = IF order = "big" THEN Reversed(bytes, w) ELSE bytes
    PROVE  LittleEndian(u, w) = bytes
<1>1. ASSUME NEW k \in 0 .. w - 1
      PROVE  ByteOf(u, k) = bytes[k]
  <2>1. CASE order = "big"
    <3>1. PICK j : j = w - 1 - k
      OBVIOUS
    <3>2. j \in 0 .. w - 1 /\ w - 1 - j = k
      BY <3>1
    <3>3. Memory(u, w, order)[j] = ByteOf(u, k)
      BY <2>1, <3>2 DEF Memory
    <3>4. Reversed(bytes, w)[j] = bytes[k]
      BY <3>2 DEF Reversed
    <3> QED
      BY <2>1, <3>3, <3>4
  <2>2. CASE order # "big"
    BY <2>2 DEF Memory
  <2> QED
    BY <2>1, <2>2
<1> QED
  BY <1>1 DEF LittleEndian

\* While a value v is written: the bytes written are those of its pattern u, and
\* the loop has shifted them out of the local variable.
Writing(v, u) ==
    /\ v \in Values(type) /\ source = {v} /\ u = ToPattern(type, v)
    /\ \A k \in 0 .. i - 1 : fixed[k] = ByteOf(u, k)
    /\ local = IF Shifts THEN u \div Power[i] ELSE u

\* After that: the fixed data holds the number u, of which i bytes are read.
Reading(u) ==
    /\ u \in Pattern(type.width) /\ LittleEndian(u, type.width) = fixed
    /\ local = u % Power[i]
    /\ source # {} => \E v \in Values(type) : source = {v} /\ u = ToPattern(type, v)
    /\ step = "done" => i = type.width /\ result = {FromPattern(type, u)}

ScalarInv ==
    /\ type \in Scalar /\ machine \in Machine /\ step \in {"write", "read", "done"}
    /\ i \in 0 .. type.width
    /\ fixed \in [0 .. type.width - 1 -> Byte]
    /\ step = "write" => \E v, u : Writing(v, u)
    /\ step # "write" => \E u : Reading(u)

LEMMA InitInv == Init => ScalarInv
<1> SUFFICES ASSUME Init PROVE ScalarInv
  OBVIOUS
<1>1. PICK w \in Nat : w = type.width
  BY ScalarFacts DEF Init
<1>2. type \in Scalar /\ machine \in Machine /\ i = 0 /\ i \in 0 .. type.width
  BY <1>1 DEF Init
<1>3. ASSUME step = "write", NEW v \in Values(type), source = {v}, local = ToPattern(type, v),
             fixed = [j \in 0 .. type.width - 1 |-> Radix - 1]
      PROVE  ScalarInv
  <2>1. PICK u : u = ToPattern(type, v)
    OBVIOUS
  <2>2. u \in Nat
    BY <1>1, <1>2, <2>1, PatternOfValue, SmallIsRest
  <2>3. u \div Power[i] = u
    BY <1>2, <2>2, PowerDefined
  <2>4. Writing(v, u)
    BY <1>2, <1>3, <2>1, <2>3 DEF Writing
  <2>5. fixed \in [0 .. type.width - 1 -> Byte]
    <3>1. Radix - 1 \in Byte
      BY RadixAssumption DEF Byte
    <3> QED
      BY <1>3, <3>1
  <2> QED
    BY <1>2, <1>3, <2>4, <2>5 DEF ScalarInv
<1>4. ASSUME step = "read", source = {}, local = 0, fixed \in [0 .. type.width - 1 -> Byte]
      PROVE  ScalarInv
  <2>1. PICK u \in Pattern(type.width) : LittleEndian(u, type.width) = fixed
    BY <1>1, <1>4, BytesHaveNumber
  <2>2. u \in Nat
    BY <1>1, <2>1, SmallIsRest
  <2>3. u % Power[i] = 0
    BY <1>2, <2>2, PowerDefined
  <2>4. Reading(u)
    BY <1>4, <2>1, <2>3 DEF Reading
  <2> QED
    BY <1>2, <1>4, <2>4 DEF ScalarInv
<1> QED
  BY <1>3, <1>4 DEF Init

LEMMA WriteByteInv ==
    ASSUME ScalarInv, WriteByte
    PROVE  ScalarInv'
<1>1. PICK v, u : Writing(v, u)
  BY DEF ScalarInv, WriteByte
<1>2. PICK t \in Scalar, w \in Nat, j \in Nat : t = type /\ w = t.width /\ j = i /\ j < w
  BY ScalarFacts DEF ScalarInv, WriteByte
<1>3. /\ UNCHANGED <<type, machine, step, source>> /\ i' = j + 1 /\ step = "write" /\ Shifts
      /\ fixed' = [fixed EXCEPT ![j] = local % Radix] /\ local' = local \div Radix
  BY <1>2 DEF WriteByte
<1>4. u \in Nat /\ v \in Values(t) /\ u = ToPattern(t, v)
  BY <1>1, <1>2, PatternOfValue, SmallIsRest DEF Writing
<1>5. local = u \div Power[j]
  BY <1>1, <1>2, <1>3 DEF Writing
<1>6. local % Radix = ByteOf(u, j) /\ local' = u \div Power[j + 1] /\ ByteOf(u, j) \in Byte
  BY <1>3, <1>4, <1>5, NextByte DEF ByteOf
<1>7. j \in 0 .. w - 1 /\ fixed \in [0 .. w - 1 -> Byte]
  BY <1>2 DEF ScalarInv
<1>8. fixed' \in [0 .. w - 1 -> Byte]
  BY <1>3, <1>6, <1>7
<1>9. \A k \in 0 .. j : fixed'[k] = ByteOf(u, k)
  <2> SUFFICES ASSUME NEW k \in 0 .. j PROVE fixed'[k] = ByteOf(u, k)
    OBVIOUS
  <2>1. k \in 0 .. w - 1
    BY <1>7
  <2>2. CASE k = j
    BY <1>3, <1>6, <1>7, <2>2
  <2>3. CASE k # j
    <3>1. k \in 0 .. i - 1
      BY <1>2, <2>3
    <3>2. fixed[k] = ByteOf(u, k)
      BY <1>1, <3>1 DEF Writing
    <3> QED
      BY <1>3, <1>7, <2>1, <2>3, <3>2
  <2> QED
    BY <2>2, <2>3
<1>10. Writing(v, u)'
  <2>1. \A k \in 0 .. i' - 1 : k \in 0 .. j
    BY <1>3
  <2>2. Shifts'
    BY <1>3 DEF Shifts
  <2> QED
    BY <1>1, <1>3, <1>6, <1>9, <2>1, <2>2 DEF Writing
<1> QED
  BY <1>2, <1>3, <1>8, <1>10 DEF ScalarInv

LEMMA CopyOutInv ==
    ASSUME ScalarInv, CopyOut
    PROVE  ScalarInv'
<1>1. PICK v, u : Writing(v, u)
  BY DEF ScalarInv, CopyOut
<1>2. PICK t \in Scalar, w \in Nat : t = type /\ w = t.width
  BY ScalarFacts DEF ScalarInv
<1>3. /\ UNCHANGED <<type, machine, step, source, local>> /\ i' = w /\ step = "write" /\ ~Shifts
      /\ fixed' = IF machine = "big" THEN Reversed(Memory(local, w, machine), w)
                  ELSE Memory(local, w, machine)
  BY <1>2 DEF CopyOut
<1>4. u \in Nat /\ local = u
  BY <1>1, <1>2, <1>3, PatternOfValue, SmallIsRest DEF Writing
<1>5. fixed' = LittleEndian(u, w)
  BY <1>3, <1>4, MemoryCopied
<1>6. fixed' \in [0 .. w - 1 -> Byte]
  BY <1>4, <1>5, BytesAreBytes
<1>7. Writing(v, u)'
  <2>1. \A k \in 0 .. i' - 1 : fixed'[k] = ByteOf(u, k)
    BY <1>3, <1>5 DEF LittleEndian
  <2>2. ~Shifts'
    BY <1>3 DEF Shifts
  <2> QED
    BY <1>1, <1>3, <1>4, <2>1, <2>2 DEF Writing
<1> QED
  BY <1>2, <1>3, <1>6, <1>7 DEF ScalarInv

LEMMA SendInv ==
    ASSUME ScalarInv, Send
    PROVE  ScalarInv'
<1>1. PICK v, u : Writing(v, u)
  BY DEF ScalarInv, Send
<1>2. PICK t \in Scalar, w \in Nat : t = type /\ w = t.width
  BY ScalarFacts DEF ScalarInv
<1>3. /\ UNCHANGED <<type, source, fixed, result>> /\ i = w /\ i' = 0 /\ local' = 0
      /\ step' = "read" /\ machine' \in Machine
  BY <1>2 DEF Send
<1>4. u \in Pattern(w) /\ u \in Nat /\ v \in Values(t) /\ u = ToPattern(t, v) /\ source = {v}
  BY <1>1, <1>2, PatternOfValue, SmallIsRest DEF Writing
<1>5. LittleEndian(u, w) = fixed
  <2>1. \A k \in 0 .. w - 1 : fixed[k] = ByteOf(u, k)
    BY <1>1, <1>3 DEF Writing
  <2>2. fixed \in [0 .. w - 1 -> Byte]
    BY <1>2 DEF ScalarInv
  <2> QED
    BY <2>1, <2>2 DEF LittleEndian
<1>6. u % Power[0] = 0
  BY <1>4, PowerDefined
<1>7. Reading(u)'
  BY <1>2, <1>3, <1>4, <1>5, <1>6 DEF Reading
<1>8. i' \in 0 .. w
  BY <1>3
<1> QED
  BY <1>2, <1>3, <1>7, <1>8 DEF ScalarInv

LEMMA ReadByteInv ==
    ASSUME ScalarInv, ReadByte
    PROVE  ScalarInv'
<1>1. PICK u : Reading(u)
  BY DEF ScalarInv, ReadByte
<1>2. PICK t \in Scalar, w \in Nat, j \in Nat : t = type /\ w = t.width /\ j = i /\ j < w
  BY ScalarFacts DEF ScalarInv, ReadByte
<1>3. /\ UNCHANGED <<type, machine, step, source, fixed, result>> /\ i' = j + 1 /\ step = "read"
      /\ local' = (local + fixed[j] * Power[j]) % Power[w]
  BY <1>2 DEF ReadByte
<1>4. u \in Pattern(w) /\ u \in Nat /\ LittleEndian(u, w) = fixed /\ local = u % Power[j]
  BY <1>1, <1>2, SmallIsRest DEF Reading
<1>5. fixed[j] = ByteOf(u, j)
  <2>1. j \in 0 .. w - 1
    BY <1>2
  <2> QED
    BY <1>4, <2>1 DEF LittleEndian
<1>6. local + fixed[j] * Power[j] = u % Power[j + 1]
  BY <1>4, <1>5, NextByte
<1>7. PICK b \in Nat \ {0}, c \in Nat \ {0}, r \in Nat :
        b = Power[j + 1] /\ c = Power[w] /\ r = u % b
  <2>1. PICK b \in Nat \ {0}, c \in Nat \ {0} : b = Power[j + 1] /\ c = Power[w]
    BY <1>2, PowerIsPositive
  <2>2. u % b \in Nat
    BY <1>4, Divided
  <2> QED
    BY <2>1, <2>2
<1>8. r \in Nat /\ r < c
  <2>1. PICK q \in Nat : u = b * q + r /\ r \in Nat
    BY <1>4, <1>7, Divided
  <2>2. \A x, y \in Nat : x * y \in Nat
    OBVIOUS
  <2>3. b * q \in Nat
    BY <2>2
  <2>4. u < c
    BY <1>4, <1>7 DEF Pattern
  <2> QED
    BY <1>4, <2>1, <2>3, <2>4
<1>9. local' = u % Power[j + 1]
  BY <1>3, <1>6, <1>7, <1>8, SmallRest
<1>10. Reading(u)'
  BY <1>1, <1>3, <1>9 DEF Reading
<1>11. i' \in 0 .. w
  BY <1>2, <1>3
<1> QED
  BY <1>2, <1>3, <1>10, <1>11 DEF ScalarInv

LEMMA CopyInInv ==
    ASSUME ScalarInv, CopyIn
    PROVE  ScalarInv'
<1>1. PICK u : Reading(u)
  BY DEF ScalarInv, CopyIn
<1>2. PICK t \in Scalar, w \in Nat : t = type /\ w = t.width
  BY ScalarFacts DEF ScalarInv
<1>3. /\ UNCHANGED <<type, machine, step, source, fixed, result>> /\ i' = w /\ step = "read"
      /\ \E x \in Pattern(w) :
            /\ local' = x
            /\ Memory(x, w, machine) = IF machine = "big" THEN Reversed(fixed, w) ELSE fixed
  BY <1>2 DEF CopyIn
<1>4. fixed \in [0 .. w - 1 -> Byte] /\ u \in Pattern(w) /\ LittleEndian(u, w) = fixed
  BY <1>1, <1>2 DEF ScalarInv, Reading
<1>5. PICK x \in Pattern(w) : local' = x /\ LittleEndian(x, w) = fixed
  BY <1>3, <1>4, CopiedIsFixed
<1>6. x = u
  BY <1>4, <1>5, BytesIdentify
<1>7. local' = u % Power[w]
  BY <1>4, <1>5, <1>6, SmallIsRest
<1>8. Reading(u)'
  BY <1>1, <1>3, <1>7 DEF Reading
<1>9. i' \in 0 .. w
  BY <1>3
<1> QED
  BY <1>2, <1>3, <1>8, <1>9 DEF ScalarInv

LEMMA ReturnInv ==
    ASSUME ScalarInv, Return
    PROVE  ScalarInv'
<1>1. PICK u : Reading(u)
  BY DEF ScalarInv, Return
<1>2. PICK t \in Scalar, w \in Nat : t = type /\ w = t.width
  BY ScalarFacts DEF ScalarInv
<1>3. /\ UNCHANGED <<type, machine, source, fixed, local, i>> /\ i = w /\ step' = "done"
      /\ result' = {FromPattern(t, local)}
  BY <1>2 DEF Return
<1>4. local = u
  BY <1>1, <1>2, <1>3, SmallIsRest DEF Reading
<1>5. Reading(u)'
  BY <1>1, <1>2, <1>3, <1>4 DEF Reading
<1> QED
  BY <1>3, <1>5 DEF ScalarInv

LEMMA ScalarInvHolds == Spec => []ScalarInv
<1>1. ScalarInv /\ [Next]_scalarVars => ScalarInv'
  <2>1. ScalarInv /\ Next => ScalarInv'
    BY WriteByteInv, CopyOutInv, SendInv, ReadByteInv, CopyInInv, ReturnInv DEF Next
  <2>2. ScalarInv /\ UNCHANGED scalarVars => ScalarInv'
    BY DEF scalarVars, ScalarInv, Writing, Reading, Shifts
  <2> QED
    BY <2>1, <2>2
<1> QED
  BY <1>1, InitInv, PTL DEF Spec

-----------------------------------------------------------------------------
\* The theorems.

\* The one byte of a bool is what it was taken from.
LEMMA OneByte ==
    ASSUME NEW u \in Pattern(1)
    PROVE  LittleEndian(u, 1)[0] = u
<1>1. Power[0] = 1 /\ Power[1] = Radix
  <2>1. Power[0 + 1] = Radix * Power[0] /\ Power[0] = 1 /\ 0 + 1 = 1
    BY PowerDefined
  <2> QED
    BY <2>1, RadixAssumption
<1>2. u \in Nat /\ u % Power[1] = u
  BY SmallIsRest
<1>3. u \div 1 = u
  BY <1>2
<1>4. ByteOf(u, 0) = u
  BY <1>1, <1>2, <1>3 DEF ByteOf
<1> QED
  BY <1>4 DEF LittleEndian

\* For bytes of any size and integers and floats of any width: the message that
\* any machine has written, with the loop of shifts or by copying its memory
\* (scalar.hpp:147-171), holds the value as the format documents it.
THEOREM ImagesAreLittleEndian == Spec => []ImageIsLittleEndian
<1>1. ScalarInv => ImageIsLittleEndian
  <2> SUFFICES ASSUME ScalarInv, step # "write", NEW v \in source
               PROVE  IF type.kind = "bool" THEN fixed[0] = (IF v THEN 1 ELSE 0)
                      ELSE fixed = LittleEndian(v % Power[type.width], type.width)
    BY DEF ImageIsLittleEndian
  <2>1. PICK u : /\ u = ToPattern(type, v) /\ v \in Values(type)
                 /\ LittleEndian(u, type.width) = fixed
    BY DEF ScalarInv, Reading
  <2>2. /\ u \in Pattern(type.width)
        /\ type.kind # "bool" => u = v % Power[type.width]
        /\ type.kind = "bool" => u = BoolByte(v) /\ type.width = 1
    BY <2>1, PatternOfValue, ScalarFacts DEF ScalarInv
  <2>3. CASE type.kind = "bool"
    BY <2>1, <2>2, <2>3, OneByte DEF BoolByte
  <2>4. CASE type.kind # "bool"
    BY <2>1, <2>2, <2>4
  <2> QED
    BY <2>3, <2>4
<1> QED
  BY <1>1, ScalarInvHolds, PTL

\* For bytes of any size and integers and floats of any width: whatever machine
\* writes a scalar and whatever machine reads it, the value comes back.
THEOREM ScalarsComeBack == Spec => []RoundTrip
<1>1. ScalarInv => RoundTrip
  <2> SUFFICES ASSUME ScalarInv, step = "done", source # {}
               PROVE  result = source
    BY DEF RoundTrip
  <2>1. PICK u, v : /\ source = {v} /\ v \in Values(type) /\ u = ToPattern(type, v)
                    /\ result = {FromPattern(type, u)}
    BY DEF ScalarInv, Reading
  <2>2. FromPattern(type, u) = v
    BY <2>1, PatternOfValue DEF ScalarInv
  <2> QED
    BY <2>1, <2>2
<1> QED
  BY <1>1, ScalarInvHolds, PTL

\* For bytes of any size and integers and floats of any width: value() gives a
\* value of the type for any bytes (scalar.hpp:175-208), and the bytes are those
\* of that value; for a bool every byte but 0 is true (scalar.hpp:264-274).
THEOREM AllBytesAreValues == Spec => []AnyBytesAreAValue
<1>1. ScalarInv => AnyBytesAreAValue
  <2> SUFFICES ASSUME ScalarInv, step = "done", NEW v \in result
               PROVE  /\ v \in Values(type)
                      /\ IF type.kind = "bool" THEN v = (fixed[0] # 0)
                         ELSE fixed = LittleEndian(v % Power[type.width], type.width)
    BY DEF AnyBytesAreAValue
  <2>1. PICK u \in Pattern(type.width) : /\ LittleEndian(u, type.width) = fixed
                                         /\ v = FromPattern(type, u)
    BY DEF ScalarInv, Reading
  <2>2. /\ v \in Values(type)
        /\ type.kind # "bool" => v % Power[type.width] = u
        /\ type.kind = "bool" => v = (u # 0) /\ type.width = 1
    BY <2>1, ValueOfPattern, ScalarFacts DEF ScalarInv
  <2>3. CASE type.kind = "bool"
    <3>1. fixed[0] = u
      BY <2>1, <2>2, <2>3, OneByte
    <3> QED
      BY <2>2, <2>3, <3>1
  <2>4. CASE type.kind # "bool"
    BY <2>1, <2>2, <2>4
  <2> QED
    BY <2>3, <2>4
<1> QED
  BY <1>1, ScalarInvHolds, PTL
=============================================================================
