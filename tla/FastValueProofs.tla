--------------------------- MODULE FastValueProofs ---------------------------
(***************************************************************************)
(* Lemmas about the operators of FastValue, for every width of int: what   *)
(* they compute is a value again, and the recursive ones are what their    *)
(* equations say.                                                          *)
(***************************************************************************)
EXTENDS FastValue, FiniteSetTheorems, FunctionTheorems, SequenceTheorems, TLAPS

(* Induction over the numbers, with a set in the place of a predicate *)

LEMMA NatLeast ==
    ASSUME NEW T \in SUBSET Nat, T # {}
    PROVE  \E x \in T : \A y \in T : x <= y
<1> DEFINE R == StrictSubsetOrdering(Nat)
<1> DEFINE Below == {0..x : x \in T}
<1>1. IsWellFoundedOn(R, FiniteSubsetsOf(Nat))
  BY FS_StrictSubsetOrderingWellFounded
<1>2. Below \subseteq FiniteSubsetsOf(Nat) /\ Below # {}
  <2>1. ASSUME NEW x \in T PROVE 0..x \in FiniteSubsetsOf(Nat)
    <3>1. x \in Nat /\ 0..x \in SUBSET Nat
      OBVIOUS
    <3>2. IsFiniteSet(0..x)
      BY <3>1, FS_Interval
    <3> QED
      BY <3>1, <3>2 DEF FiniteSubsetsOf
  <2> QED
    BY <2>1
<1>3. \E U \in Below : \A V \in Below : ~ (<<V, U>> \in R)
  <2> HIDE DEF R, Below
  <2> QED
    BY <1>1, <1>2, WFMin
<1>4. ASSUME NEW x \in T, NEW y \in T, y < x PROVE <<0..y, 0..x>> \in R
  <2>1. 0..y \subseteq 0..x /\ x \in 0..x /\ x \notin 0..y /\ 0..x \subseteq Nat
    BY <1>4
  <2> QED
    BY <2>1 DEF StrictSubsetOrdering
<1> HIDE DEF R
<1>5. PICK x \in T : \A V \in Below : ~ (<<V, 0..x>> \in R)
  BY <1>3
<1>6. ASSUME NEW y \in T PROVE ~ (y < x)
  BY <1>4, <1>5
<1> QED
  BY <1>6

LEMMA NatGreatest ==
    ASSUME NEW n \in Nat, NEW T \in SUBSET (0..n), T # {}
    PROVE  \E x \in T : \A y \in T : y <= x
<1> DEFINE U == {k \in Nat : n - k \in T}
<1>1. U \in SUBSET Nat /\ U # {}
  <2>1. PICK t \in T : TRUE
    OBVIOUS
  <2>2. n - t \in Nat /\ n - (n - t) = t
    OBVIOUS
  <2> QED
    BY <2>1, <2>2
<1>2. PICK u \in U : \A y \in U : u <= y
  BY <1>1, NatLeast
<1>3. ASSUME NEW y \in T PROVE y <= n - u
  <2>1. n - y \in Nat /\ n - (n - y) = y
    OBVIOUS
  <2>2. n - y \in U
    BY <2>1
  <2> QED
    BY <1>2, <2>2
<1> QED
  BY <1>2, <1>3

LEMMA UpTo ==
    ASSUME NEW n \in Nat, NEW P, 0 \in P, \A k \in 0..(n - 1) : k \in P => k + 1 \in P
    PROVE  0..n \subseteq P
<1> DEFINE T == {k \in 0..n : k \notin P}
<1> SUFFICES ASSUME T # {} PROVE FALSE
  OBVIOUS
<1>1. PICK x \in T : \A y \in T : x <= y
  <2>1. T \in SUBSET Nat
    OBVIOUS
  <2> HIDE DEF T
  <2> QED
    BY <2>1, NatLeast
<1>2. x - 1 \in 0..(n - 1) /\ (x - 1) + 1 = x
  BY <1>1
<1>3. x - 1 \in P
  BY <1>1, <1>2
<1> QED
  BY <1>1, <1>2, <1>3

\* h begins with v, and F goes from each number's value to that of the next.
Steps(h, n, v, F) == \A k \in 0..n : h[k] = IF k = 0 THEN v ELSE F[k][h[k - 1]]

\* A recursive function on 0..n is defined, whatever its step, which may look at the
\* number it has come to.
LEMMA Chain ==
    ASSUME NEW n \in Nat, NEW T, NEW v \in T, NEW F \in [0..n -> [T -> T]]
    PROVE  \E h : h \in [0..n -> T] /\ Steps(h, n, v, F)
<1> DEFINE Is(h, m) == h = [k \in 0..m |-> IF k = 0 THEN v ELSE F[k][h[k - 1]]]
<1> DEFINE P == {m \in 0..n : \E h \in [0..m -> T] : Is(h, m)}
<1>1. 0 \in P
  <2> DEFINE h == [k \in 0..0 |-> v]
  <2>1. h \in [0..0 -> T] /\ Is(h, 0)
    OBVIOUS
  <2> HIDE DEF h
  <2> QED
    BY <2>1
<1>2. ASSUME NEW m \in 0..(n - 1), m \in P PROVE m + 1 \in P
  <2>1. PICK h \in [0..m -> T] : Is(h, m)
    BY <1>2
  <2> DEFINE g == [k \in 0..(m + 1) |-> IF k = m + 1 THEN F[k][h[m]] ELSE h[k]]
  <2>2. g \in [0..(m + 1) -> T]
    <3>1. ASSUME NEW k \in 0..(m + 1) PROVE (IF k = m + 1 THEN F[k][h[m]] ELSE h[k]) \in T
      <4>1. m \in 0..m /\ h[m] \in T
        OBVIOUS
      <4>2. CASE k = m + 1
        <5>1. k \in 0..n /\ F[k] \in [T -> T]
          BY <4>1, <4>2
        <5> QED
          BY <4>2, <5>1
      <4>3. CASE k # m + 1
        BY <4>3
      <4> QED
        BY <4>2, <4>3
    <3> QED
      BY <3>1
  <2>3. ASSUME NEW k \in 0..(m + 1)
        PROVE  g[k] = IF k = 0 THEN v ELSE F[k][g[k - 1]]
    <3>1. CASE k = m + 1
      <4>1. k # 0 /\ k - 1 = m /\ m \in 0..(m + 1) /\ m # m + 1
        BY <3>1
      <4> QED
        BY <3>1, <4>1
    <3>2. CASE k # m + 1
      <4>1. k \in 0..m /\ g[k] = h[k]
        BY <3>2
      <4>2. h[k] = IF k = 0 THEN v ELSE F[k][h[k - 1]]
        BY <2>1, <4>1
      <4>3. k # 0 => g[k - 1] = h[k - 1]
        BY <3>2
      <4> QED
        BY <4>1, <4>2, <4>3
    <3> QED
      BY <3>1, <3>2
  <2>4. Is(g, m + 1)
    BY <2>2, <2>3
  <2>5. m + 1 \in 0..n
    OBVIOUS
  <2> HIDE DEF g
  <2> QED
    BY <2>2, <2>4, <2>5
<1> HIDE DEF P
<1>3. 0..n \subseteq P
  BY <1>1, <1>2, UpTo
<1>4. n \in P
  BY <1>3
<1>5. PICK h \in [0..n -> T] : Is(h, n)
  BY <1>4 DEF P
<1>6. Steps(h, n, v, F)
  BY <1>5 DEF Steps
<1> QED
  BY <1>6

-----------------------------------------------------------------------------
(* Powers of two, as the numbers of subsets *)

LEMMA PowerType == \A n \in Nat : 2^n \in Nat \ {0}
<1> SUFFICES ASSUME NEW n \in Nat PROVE 2^n \in Nat \ {0}
  OBVIOUS
<1>1. IsFiniteSet(1..n) /\ Cardinality(1..n) = n
  BY FS_Interval
<1>2. IsFiniteSet(SUBSET (1..n)) /\ Cardinality(SUBSET (1..n)) = 2^n
  BY <1>1, FS_SUBSET
<1>3. SUBSET (1..n) # {}
  OBVIOUS
<1> QED
  BY <1>2, <1>3, FS_CardinalityType, FS_EmptySet

LEMMA PowerZero == 2^0 = 1
<1>1. IsFiniteSet({}) /\ Cardinality({}) = 0
  BY FS_EmptySet
<1>2. Cardinality(SUBSET {}) = 2^0
  BY <1>1, FS_SUBSET
<1>3. SUBSET {} = {{}}
  OBVIOUS
<1> QED
  BY <1>2, <1>3, FS_Singleton

LEMMA PowerNext == \A n \in Nat : 2^(n + 1) = 2 * 2^n
<1> SUFFICES ASSUME NEW n \in Nat PROVE 2^(n + 1) = 2 * 2^n
  OBVIOUS
<1> DEFINE S == SUBSET (1..n)
<1> DEFINE T == SUBSET (1..(n + 1))
<1> DEFINE Sides == {0, 1}
<1>1. IsFiniteSet(S) /\ Cardinality(S) = 2^n
  <2>1. IsFiniteSet(1..n) /\ Cardinality(1..n) = n
    BY FS_Interval
  <2> QED
    BY <2>1, FS_SUBSET
<1>2. IsFiniteSet(T) /\ Cardinality(T) = 2^(n + 1)
  <2>1. IsFiniteSet(1..(n + 1)) /\ Cardinality(1..(n + 1)) = n + 1
    BY FS_Interval
  <2> QED
    BY <2>1, FS_SUBSET
<1>3. IsFiniteSet(Sides) /\ Cardinality(Sides) = 2
  <2>1. IsFiniteSet({0}) /\ Cardinality({0}) = 1
    BY FS_Singleton
  <2>2. Sides = {0} \cup {1} /\ 1 \notin {0}
    OBVIOUS
  <2> HIDE DEF Sides
  <2> QED
    BY <2>1, <2>2, FS_AddElement
<1>4. IsFiniteSet(S \X Sides) /\ Cardinality(S \X Sides) = 2^n * 2
  <2> HIDE DEF S, Sides
  <2> QED
    BY <1>1, <1>3, FS_Product
<1> DEFINE F == [p \in S \X Sides |-> IF p[2] = 0 THEN p[1] ELSE p[1] \cup {n + 1}]
<1>5. F \in [S \X Sides -> T]
  <2>1. ASSUME NEW A \in S, NEW b \in Sides
        PROVE  A \in T /\ A \cup {n + 1} \in T
    <3>1. 1..n \subseteq 1..(n + 1) /\ n + 1 \in 1..(n + 1)
      OBVIOUS
    <3> QED
      BY <3>1
  <2> HIDE DEF S, T, Sides
  <2> QED
    BY <2>1
<1>6. ASSUME NEW p \in S \X Sides, NEW q \in S \X Sides, F[p] = F[q] PROVE p = q
  <2>1. /\ p[1] \in SUBSET (1..n) /\ q[1] \in SUBSET (1..n)
        /\ p[2] \in {0, 1} /\ q[2] \in {0, 1} /\ p = <<p[1], p[2]>> /\ q = <<q[1], q[2]>>
    OBVIOUS
  <2>2. n + 1 \notin 1..n
    OBVIOUS
  <2>3. (n + 1 \in F[p] <=> p[2] = 1) /\ (n + 1 \in F[q] <=> q[2] = 1)
    BY <2>1, <2>2
  <2>4. p[1] = F[p] \ {n + 1} /\ q[1] = F[q] \ {n + 1}
    BY <2>1, <2>2
  <2> HIDE DEF F
  <2>5. p[1] = q[1] /\ p[2] = q[2]
    BY <1>6, <2>1, <2>3, <2>4
  <2> QED
    BY <2>1, <2>5
<1>7. ASSUME NEW A \in T PROVE \E p \in S \X Sides : F[p] = A
  <2>1. CASE n + 1 \in A
    <3>1. A \ {n + 1} \in S /\ 1 \in Sides
      OBVIOUS
    <3>2. <<A \ {n + 1}, 1>> \in S \X Sides
      BY <3>1
    <3>3. F[<<A \ {n + 1}, 1>>] = (A \ {n + 1}) \cup {n + 1}
      BY <3>2
    <3>4. (A \ {n + 1}) \cup {n + 1} = A
      BY <2>1
    <3> QED
      BY <3>2, <3>3, <3>4
  <2>2. CASE n + 1 \notin A
    <3>1. A \in S /\ 0 \in Sides
      <4>1. \A x \in 1..(n + 1) : x # n + 1 => x \in 1..n
        OBVIOUS
      <4> QED
        BY <2>2, <4>1
    <3>2. <<A, 0>> \in S \X Sides
      BY <3>1
    <3>3. F[<<A, 0>>] = A
      BY <3>2
    <3> QED
      BY <3>2, <3>3
  <2> QED
    BY <2>1, <2>2
<1>8. ExistsBijection(S \X Sides, T)
  <2> DEFINE D == S \X Sides
  <2>1. /\ F \in [D -> T] /\ \A p, q \in D : F[p] = F[q] => p = q
        /\ \A A \in T : \E p \in D : F[p] = A
    BY <1>5, <1>6, <1>7
  <2> HIDE DEF D, T, F
  <2>2. F \in Bijection(D, T)
    BY <2>1, Fun_IsBij
  <2>3. ExistsBijection(D, T)
    BY <2>2, Fun_ExistsBij
  <2> QED
    BY <2>3 DEF D
<1>9. Cardinality(T) = Cardinality(S \X Sides)
  <2> HIDE DEF S, T, Sides
  <2> QED
    BY <1>4, <1>8, FS_Bijection
<1> QED
  BY <1>2, <1>4, <1>9, PowerType

LEMMA PowerLarge == \A n \in Nat : 2^n >= n + 1
<1> SUFFICES ASSUME NEW n \in Nat PROVE 2^n >= n + 1
  OBVIOUS
<1> DEFINE P == {k \in Nat : 2^k >= k + 1}
<1>1. 0 \in P
  BY PowerZero
<1>2. ASSUME NEW k \in 0..(n - 1), k \in P PROVE k + 1 \in P
  <2>1. 2^(k + 1) = 2 * 2^k /\ 2^k \in Nat /\ 2^(k + 1) \in Nat
    BY PowerNext, PowerType
  <2> QED
    BY <1>2, <2>1
<1> HIDE DEF P
<1>3. 0..n \subseteq P
  BY <1>1, <1>2, UpTo
<1> QED
  BY <1>3 DEF P

-----------------------------------------------------------------------------
(* Values *)

\* What a program can come to hold: no double below its denominator 0, no reference
\* before the first item.
Sensible(v) == (v.tag = "flt64" => v.m >= 0) /\ (v.tag = "val_ref" => v.n >= 0)
Valued == {v \in Value : Sensible(v)}
Reference == {v \in Valued : v.tag = "val_ref"}

ArithOps == {"mul", "add", "sub", "div", "mod"}

LEMMA ScalarsValued ==
    /\ \A k \in Int : Int32(k) \in Valued /\ Chr8(k) \in Valued
                     /\ Scalar("boolean", k) \in Valued
    /\ \A b : Boolean(b) \in Valued
    /\ Dud \in Valued
BY DEF Int32, Chr8, Boolean, Scalar, Dud, Valued, Value, Sensible, Tags

LEMMA PointerValued ==
    ASSUME NEW o \in Object, NEW tag \in {"string", "sequence"}
    PROVE  Pointer(o, tag) \in Valued
BY DEF Pointer, Valued, Value, Sensible, Tags

LEMMA ScalarOr0Int == ASSUME NEW v \in Value PROVE ScalarOr0(v) \in Int
BY DEF ScalarOr0, HasScalar, to_scalar, Value

LEMMA Flt64Valued ==
    ASSUME NEW num \in Int, NEW den \in Int
    PROVE  Flt64(num, den) \in Valued
<1> DEFINE d == Magnitude(den)
<1> DEFINE common == {k \in 1..d : num % k = 0 /\ den % k = 0}
<1> DEFINE gcd == CHOOSE k \in common : \A e \in common : e <= k
<1> DEFINE sign == IF den < 0 THEN -1 ELSE 1
<1> DEFINE finite == den # 0 /\ Magnitude(num) <= MaxDouble * d
<1>0. Flt64(num, den) = [tag |-> "flt64",
                         n |-> sign * (IF finite THEN num \div gcd ELSE Sign(num)),
                         m |-> IF finite THEN d \div gcd ELSE 0, obj |-> NoObject]
  BY DEF Flt64
<1>a. CASE ~finite
  <2>1. sign * Sign(num) \in Int
    BY DEF Sign
  <2> HIDE DEF finite
  <2> QED
    BY <1>0, <1>a, <2>1 DEF Valued, Value, Sensible, Tags
<1> SUFFICES ASSUME finite PROVE Flt64(num, den) \in Valued
  BY <1>a
<1>1. d \in Nat \ {0} /\ den # 0
  BY DEF Magnitude
<1> HIDE DEF d, finite
<1>2. 1 \in common
  <2>1. num % 1 = 0 /\ den % 1 = 0 /\ 1 \in 1..d
    BY <1>1
  <2> QED
    BY <2>1
<1>3. gcd \in common
  <2>1. common \in SUBSET (0..d) /\ common # {}
    BY <1>1, <1>2
  <2> HIDE DEF common
  <2> QED
    BY <1>1, <2>1, NatGreatest
<1>4. gcd \in Nat \ {0} /\ gcd <= d
  <2> HIDE DEF gcd
  <2> QED
    BY <1>1, <1>3
<1>5. Flt64(num, den) = [tag |-> "flt64", n |-> sign * (num \div gcd), m |-> d \div gcd,
                         obj |-> NoObject]
  BY <1>0
<1> HIDE DEF gcd
<1>6. num \div gcd \in Int /\ sign * (num \div gcd) \in Int
  BY <1>4
<1>7. d \div gcd \in Int /\ d \div gcd >= 1
  BY <1>1, <1>4
<1> QED
  BY <1>5, <1>6, <1>7 DEF Valued, Value, Sensible, Tags

LEMMA WrapInt == ASSUME NEW k \in Int PROVE Wrap(k) \in Int
<1>1. 2^(IntBits - 1) \in Nat \ {0} /\ 2^IntBits \in Nat \ {0}
  BY PowerType, ValueAssumption
<1> QED
  BY <1>1 DEF Wrap

LEMMA TruncInt ==
    ASSUME NEW a \in Int, NEW b \in Int \ {0}
    PROVE  TruncDiv(a, b) \in Int /\ TruncMod(a, b) \in Int
<1>1. Magnitude(a) \in Nat /\ Magnitude(b) \in Nat \ {0}
  BY DEF Magnitude
<1>2. Magnitude(a) \div Magnitude(b) \in Int
  BY <1>1
<1> QED
  BY <1>2 DEF TruncDiv, TruncMod

\* Arithmetic on doubles makes one out of two whole numbers, whatever its operands.
LEMMA FltArithMakes ==
    ASSUME NEW op \in ArithOps \ {"mod"}, NEW x \in Value, NEW y \in Value
    PROVE  \E num, den \in Int : FltArith(op, x, y) = Flt64(num, den)
<1>1. x.n \in Int /\ y.n \in Int /\ x.m \in Int /\ y.m \in Int
  BY DEF Value
<1>2. CASE op = "mul"
  <2>1. x.n * y.n \in Int /\ x.m * y.m \in Int
    BY <1>1
  <2> QED
    BY <1>2, <2>1 DEF FltArith
<1>3. ASSUME NEW z, z.n \in Int, z.m \in Int
      PROVE  \E num, den \in Int : FltSum(x, z) = Flt64(num, den)
  <2>1. CASE x.m = 0 /\ z.m = 0
    BY <1>1, <1>3, <2>1 DEF FltSum
  <2>2. CASE ~(x.m = 0 /\ z.m = 0)
    <3>1. x.n * z.m + z.n * x.m \in Int /\ x.m * z.m \in Int
      BY <1>1, <1>3
    <3> QED
      BY <2>2, <3>1 DEF FltSum
  <2> QED
    BY <2>1, <2>2
<1>4. CASE op = "add"
  BY <1>1, <1>3, <1>4 DEF FltArith
<1>5. CASE op = "sub"
  <2> DEFINE z == [y EXCEPT !.n = -@]
  <2>1. z.n \in Int /\ z.m \in Int
    BY <1>1 DEF Value
  <2>2. FltArith(op, x, y) = FltSum(x, z)
    BY <1>5 DEF FltArith
  <2> HIDE DEF z
  <2> QED
    BY <1>3, <2>1, <2>2
<1>6. CASE op = "div"
  <2>1. Sign(y.n) \in Int /\ Magnitude(y.n) \in Int
    BY <1>1 DEF Sign, Magnitude
  <2>2. Sign(y.n) * x.n * y.m \in Int /\ x.m * Magnitude(y.n) \in Int
    BY <1>1, <2>1
  <2> QED
    BY <1>6, <2>2 DEF FltArith
<1> QED
  BY <1>2, <1>4, <1>5, <1>6 DEF ArithOps

\* Arithmetic on two values gives a value (fast_value.cpp:135).
LEMMA ArithValued ==
    ASSUME NEW op \in ArithOps, NEW x \in Valued, NEW y \in Valued
    PROVE  Arith(op, x, y) \in Valued
<1>1. x.n \in Int /\ y.n \in Int /\ x.m \in Int /\ y.m \in Int
  BY DEF Valued, Value
<1>2. CASE x.tag # y.tag \/ (op \in {"div", "mod"} /\ ~Truthy(y))
  BY <1>2, ScalarsValued DEF Arith
<1>3. CASE ~(x.tag # y.tag \/ (op \in {"div", "mod"} /\ ~Truthy(y)))
  <2>1. CASE x.tag = "int32"
    <3>1. op \in {"div", "mod"} => y.n \in Int \ {0}
      BY <1>1, <1>3, <2>1 DEF Truthy, IsNaN
    <3>2. IntArith(op, x.n, y.n) \in Int
      BY <1>1, <3>1, WrapInt, TruncInt DEF IntArith, ArithOps
    <3> QED
      BY <1>3, <2>1, <3>2, ScalarsValued DEF Arith
  <2>2. CASE x.tag = "flt64" /\ op # "mod"
    <3>1. FltArith(op, x, y) \in Valued
      BY <2>2, FltArithMakes, Flt64Valued DEF Valued
    <3> QED
      BY <1>3, <2>2, <3>1 DEF Arith
  <2>3. CASE x.tag # "int32" /\ ~(x.tag = "flt64" /\ op # "mod")
    BY <1>3, <2>3, ScalarsValued DEF Arith
  <2> QED
    BY <2>1, <2>2, <2>3
<1> QED
  BY <1>2, <1>3

-----------------------------------------------------------------------------
(* Heap objects *)

HeapObject == [kind : {"none", "sequence", "string"}, items : Seq(Valued),
               frozen : BOOLEAN, room : Nat, gen : Nat]

\* What push, pop and freeze keep up: the items fit in the room, and no string is
\* frozen.
Kempt == {c \in HeapObject : Len(c.items) <= c.room /\ (c.frozen => c.kind # "string")}

LEMMA KemptParts ==
    ASSUME NEW c \in Kempt
    PROVE  /\ c.kind \in {"none", "sequence", "string"} /\ c.items \in Seq(Valued)
           /\ c.frozen \in BOOLEAN /\ c.room \in Nat /\ c.gen \in Nat
           /\ Len(c.items) \in Nat /\ Len(c.items) <= c.room
           /\ c.frozen => c.kind # "string"
           /\ DOMAIN c.items = 1..Len(c.items)
           /\ \A i \in 1..Len(c.items) : c.items[i] \in Valued
<1>1. c \in HeapObject /\ Len(c.items) <= c.room /\ (c.frozen => c.kind # "string")
  BY DEF Kempt
<1>2. c.items \in Seq(Valued)
  BY <1>1 DEF HeapObject
<1>3. /\ Len(c.items) \in Nat /\ DOMAIN c.items = 1..Len(c.items)
      /\ \A i \in 1..Len(c.items) : c.items[i] \in Valued
  BY <1>2, LenProperties, ElementOfSeq
<1> QED
  BY <1>1, <1>2, <1>3 DEF HeapObject

\* An object with other items, room and buffers.
LEMMA KemptWith ==
    ASSUME NEW c \in Kempt, NEW items \in Seq(Valued), NEW room \in Nat, NEW gen \in Nat,
           Len(items) <= room
    PROVE  [c EXCEPT !.items = items, !.room = room, !.gen = gen] \in Kempt
BY DEF Kempt, HeapObject

LEMMA KeptValued ==
    ASSUME NEW c, NEW v \in Valued
    PROVE  Kept(c, v) \in Valued
<1>1. ScalarOr0(v) \in Int
  BY ScalarOr0Int DEF Valued
<1>2. ScalarOr0(v) % 128 \in Int
  BY <1>1
<1> QED
  BY <1>2, ScalarsValued DEF Kept

\* A push makes room first, and puts the item after the others, which stay; a new
\* buffer is one more (sequence_value.cpp:27).
LEMMA PushKempt ==
    ASSUME NEW c \in Kempt, NEW v \in Valued
    PROVE  LET d == push_value(c, v)
           IN /\ d \in Kempt /\ d.kind = c.kind /\ d.frozen = c.frozen
              /\ Len(d.items) = Len(c.items) + 1
              /\ \A i \in 1..Len(c.items) : d.items[i] = c.items[i]
              /\ d.gen = c.gen \/ d.gen = c.gen + 1
<1> DEFINE d == push_value(c, v)
<1> DEFINE x == Kept(c, v)
<1> DEFINE items == Append(c.items, x)
<1> DEFINE full == ~ (Len(c.items) < c.room)
<1> DEFINE room == IF full THEN (IF c.room = 0 THEN 1 ELSE 2 * c.room) ELSE c.room
<1> DEFINE gen == IF full THEN c.gen + 1 ELSE c.gen
<1>1. x \in Valued
  BY KeptValued
<1>2. /\ c.items \in Seq(Valued) /\ c.room \in Nat /\ c.gen \in Nat
      /\ Len(c.items) \in Nat /\ Len(c.items) <= c.room
  BY KemptParts
<1>3. d = [c EXCEPT !.items = items, !.room = room, !.gen = gen]
  BY KemptParts DEF push_value, Grown, Kempt, HeapObject
<1> HIDE DEF x
<1>4. /\ items \in Seq(Valued) /\ Len(items) = Len(c.items) + 1
      /\ \A i \in 1..Len(c.items) : items[i] = c.items[i]
  BY <1>1, <1>2, AppendProperties
<1>5. room \in Nat /\ gen \in Nat /\ Len(items) <= room
  BY <1>2, <1>4
<1>6. gen = c.gen \/ gen = c.gen + 1
  OBVIOUS
<1> HIDE DEF d, items, room, gen
<1>7. /\ d \in Kempt /\ d.items = items /\ d.gen = gen
      /\ d.kind = c.kind /\ d.frozen = c.frozen
  <2>1. items \in Seq(Valued)
    BY <1>4
  <2>2. d \in Kempt
    BY <1>3, <1>5, <2>1, KemptWith, Zenon
  <2>3. d.items = items /\ d.gen = gen /\ d.kind = c.kind /\ d.frozen = c.frozen
    BY <1>3 DEF Kempt, HeapObject
  <2> QED
    BY <2>2, <2>3
<1> QED
  BY <1>4, <1>6, <1>7 DEF d

\* The room that is doubled often enough is enough.
LEMMA RoomEnough ==
    ASSUME NEW r \in Nat, NEW size \in Nat
    PROVE  LET Room(k) == IF r > 0 \/ k = 0 THEN r * 2^k ELSE 2^(k - 1)
               times == CHOOSE k \in 0..size :
                           Room(k) >= size /\ (k > 0 => Room(k - 1) < size)
           IN times \in Nat /\ Room(times) \in Nat /\ Room(times) >= size
<1> DEFINE Room(k) == IF r > 0 \/ k = 0 THEN r * 2^k ELSE 2^(k - 1)
<1> DEFINE Fits(k) == Room(k) >= size /\ (k > 0 => Room(k - 1) < size)
<1>1. ASSUME NEW k \in Nat PROVE Room(k) \in Nat
  <2>1. 2^k \in Nat /\ (k > 0 => 2^(k - 1) \in Nat)
    BY PowerType
  <2> QED
    BY <2>1
<1>2. Room(size) >= size
  <2>1. CASE r > 0
    <3>1. 2^size \in Nat /\ 2^size >= size + 1
      BY PowerType, PowerLarge
    <3>2. \A a, b \in Nat : a > 0 => a * b >= b
      OBVIOUS
    <3>3. r * 2^size \in Nat /\ r * 2^size >= 2^size
      BY <2>1, <3>1, <3>2
    <3> QED
      BY <2>1, <3>1, <3>3
  <2>2. CASE r = 0 /\ size > 0
    <3>1. size - 1 \in Nat
      BY <2>2
    <3>2. 2^(size - 1) \in Nat /\ 2^(size - 1) >= (size - 1) + 1
      BY <3>1, PowerType, PowerLarge
    <3> QED
      BY <2>2, <3>2
  <2>3. CASE size = 0
    BY <1>1, <2>3
  <2> QED
    BY <2>1, <2>2, <2>3
<1> DEFINE T == {k \in 0..size : Room(k) >= size}
<1>3. T \in SUBSET Nat /\ T # {}
  <2>1. size \in T
    BY <1>2
  <2>2. T \in SUBSET Nat
    <3> HIDE DEF Room
    <3> QED
      OBVIOUS
  <2> QED
    BY <2>1, <2>2
<1>4. PICK k \in T : \A j \in T : k <= j
  <2> HIDE DEF T
  <2> QED
    BY <1>3, NatLeast
<1>5. k \in 0..size /\ Fits(k)
  <2>1. k \in 0..size /\ Room(k) >= size
    BY <1>4
  <2>2. ASSUME k > 0 PROVE Room(k - 1) < size
    <3>1. k - 1 \in Nat /\ k - 1 \in 0..size /\ ~ (k <= k - 1)
      BY <2>1, <2>2
    <3>2. k - 1 \notin T
      BY <1>4, <3>1
    <3>3. ~ (Room(k - 1) >= size) /\ Room(k - 1) \in Nat
      <4> HIDE DEF Room
      <4> QED
        BY <1>1, <3>1, <3>2
    <3> HIDE DEF Room
    <3> QED
      BY <3>3
  <2> QED
    BY <2>1, <2>2
<1> DEFINE times == CHOOSE j \in 0..size : Fits(j)
<1> HIDE DEF Fits
<1>6. times \in 0..size /\ Fits(times)
  BY <1>5
<1>7. times \in Nat
  BY <1>6
<1> HIDE DEF times, Room
<1>8. Room(times) \in Nat /\ Room(times) >= size
  BY <1>1, <1>6, <1>7 DEF Fits
<1> QED
  BY <1>7, <1>8 DEF times, Room, Fits

\* Pushing one item after the other.
LEMMA PushAllKempt ==
    ASSUME NEW c \in Kempt, NEW args \in Seq(Valued)
    PROVE  LET d == push_all(c, args)
           IN d \in Kempt /\ d.kind = c.kind /\ d.frozen = c.frozen
<1> DEFINE d == push_all(c, args)
<1> DEFINE size == Len(c.items) + Len(args)
<1> DEFINE r == c.room
<1> DEFINE Room(k) == IF r > 0 \/ k = 0 THEN r * 2^k ELSE 2^(k - 1)
<1> DEFINE times == CHOOSE k \in 0..size :
                       Room(k) >= size /\ (k > 0 => Room(k - 1) < size)
<1> DEFINE new == [i \in DOMAIN args |-> Kept(c, args[i])]
<1> DEFINE items == c.items \o new
<1>1. /\ c.items \in Seq(Valued) /\ c.room \in Nat /\ c.gen \in Nat
      /\ Len(c.items) \in Nat /\ Len(args) \in Nat /\ DOMAIN args = 1..Len(args)
      /\ \A i \in 1..Len(args) : args[i] \in Valued
  BY KemptParts, LenProperties, ElementOfSeq
<1>2. times \in Nat /\ Room(times) \in Nat /\ Room(times) >= size
  <2>1. r \in Nat /\ size \in Nat
    BY <1>1
  <2> HIDE DEF r, size
  <2> QED
    BY <2>1, RoomEnough
<1>3. new \in Seq(Valued) /\ Len(new) = Len(args)
  <2>1. \A i \in 1..Len(args) : Kept(c, args[i]) \in Valued
    BY <1>1, KeptValued
  <2>2. new \in [1..Len(args) -> Valued]
    BY <1>1, <2>1
  <2> HIDE DEF new
  <2> QED
    BY <1>1, <2>2, SeqDef, LenProperties
<1> DEFINE room == Room(times)
<1> DEFINE gen == c.gen + times
<1>4. d = [c EXCEPT !.items = items, !.room = room, !.gen = gen]
  BY DEF push_all
<1> HIDE DEF new
<1>5. items \in Seq(Valued) /\ Len(items) = size
  <2>1. \A s \in Seq(Valued) :
           s \o new \in Seq(Valued) /\ Len(s \o new) = Len(s) + Len(new)
    BY <1>3, ConcatProperties
  <2> QED
    BY <1>1, <1>3, <2>1
<1> HIDE DEF d, items, times, Room, size
<1>6. room \in Nat /\ gen \in Nat /\ Len(items) <= room
  BY <1>1, <1>2, <1>5 DEF size
<1> HIDE DEF room, gen
<1>7. d \in Kempt /\ d.kind = c.kind /\ d.frozen = c.frozen
  <2>1. items \in Seq(Valued)
    BY <1>5
  <2>2. d \in Kempt
    BY <1>4, <1>6, <2>1, KemptWith, Zenon
  <2>3. d.kind = c.kind /\ d.frozen = c.frozen
    BY <1>4 DEF Kempt, HeapObject
  <2> QED
    BY <2>2, <2>3
<1> QED
  BY <1>7 DEF d

\* A pop takes an item, unless there is none or the object is frozen.
LEMMA PopKempt ==
    ASSUME NEW c \in Kempt, NEW end
    PROVE  /\ pop_result(c, end) \in Valued /\ pop_value(c, end) \in Kempt
           /\ c.frozen => pop_value(c, end) = c
           /\ pop_value(c, end).frozen = c.frozen
<1>1. CASE ~ CanPop(c)
  BY <1>1, ScalarsValued DEF pop_result, pop_value
<1>2. CASE CanPop(c)
  <2> DEFINE s == c.items
  <2> DEFINE t == IF end = "back" THEN SubSeq(s, 1, Len(s) - 1) ELSE Tail(s)
  <2> DEFINE d == pop_value(c, end)
  <2>1. /\ s \in Seq(Valued) /\ s # <<>> /\ ~ c.frozen
        /\ Len(s) \in Nat /\ Len(s) <= c.room /\ c.room \in Nat /\ c.gen \in Nat
        /\ \A i \in 1..Len(s) : s[i] \in Valued
    BY <1>2, KemptParts DEF CanPop
  <2>2. d = [c EXCEPT !.items = t]
    BY <1>2 DEF pop_value
  <2> DEFINE room == c.room
  <2> DEFINE gen == c.gen
  <2>3. d = [c EXCEPT !.items = t, !.room = room, !.gen = gen]
    BY <2>2 DEF Kempt, HeapObject
  <2> HIDE DEF s
  <2>4. Len(s) > 0 /\ Head(s) = s[1]
    BY <2>1, EmptySeq
  <2>5. t \in Seq(Valued) /\ Len(t) <= Len(s)
    <3>1. /\ Tail(s) \in Seq(Valued) /\ Len(Tail(s)) = Len(s) - 1
      BY <2>1, HeadTailProperties
    <3>2. \A i \in 1..(Len(s) - 1) : s[i] \in Valued
      BY <2>1
    <3>3. /\ SubSeq(s, 1, Len(s) - 1) \in Seq(Valued)
          /\ Len(SubSeq(s, 1, Len(s) - 1)) =
                IF 1 <= Len(s) - 1 THEN (Len(s) - 1) - 1 + 1 ELSE 0
      BY <2>1, <2>4, <3>2, SubSeqProperties
    <3> QED
      BY <2>1, <2>4, <3>1, <3>3
  <2>6. pop_result(c, end) \in Valued
    <3>1. Len(s) \in 1..Len(s) /\ 1 \in 1..Len(s)
      BY <2>1, <2>4
    <3> QED
      BY <1>2, <2>1, <2>4, <3>1 DEF pop_result, s
  <2> HIDE DEF t, d
  <2>7. d \in Kempt /\ d.frozen = c.frozen
    <3>1. room \in Nat /\ gen \in Nat /\ Len(t) <= room
      BY <2>1, <2>5, LenProperties
    <3> HIDE DEF room, gen
    <3>2. t \in Seq(Valued)
      BY <2>5
    <3>3. d \in Kempt
      BY <2>3, <3>1, <3>2, KemptWith, Zenon
    <3>4. d.frozen = c.frozen
      BY <2>3 DEF Kempt, HeapObject
    <3> QED
      BY <3>3, <3>4
  <2> QED
    BY <2>1, <2>6, <2>7 DEF d
<1> QED
  BY <1>1, <1>2

LEMMA FreezeKempt ==
    ASSUME NEW c \in Kempt
    PROVE  /\ freeze(c) \in Kempt /\ freeze(c).items = c.items
           /\ c.frozen => freeze(c).frozen
BY DEF freeze, Kempt, HeapObject

\* An item is written over.
LEMMA ItemKempt ==
    ASSUME NEW c \in Kempt, NEW k \in 1..Len(c.items), NEW v \in Valued
    PROVE  LET d == [c EXCEPT !.items = [c.items EXCEPT ![k] = v]]
           IN d \in Kempt /\ Len(d.items) = Len(c.items)
<1> DEFINE t == [c.items EXCEPT ![k] = v]
<1> DEFINE d == [c EXCEPT !.items = t]
<1>1. /\ c.items \in Seq(Valued) /\ c.room \in Nat /\ c.gen \in Nat
      /\ Len(c.items) \in Nat /\ Len(c.items) <= c.room
  BY KemptParts
<1>2. t \in Seq(Valued) /\ Len(t) = Len(c.items)
  BY <1>1, ExceptSeq
<1> DEFINE room == c.room
<1> DEFINE gen == c.gen
<1>3. d = [c EXCEPT !.items = t, !.room = room, !.gen = gen]
  <2> HIDE DEF t
  <2> QED
    BY DEF Kempt, HeapObject
<1> HIDE DEF t, d
<1>4. room \in Nat /\ gen \in Nat /\ Len(t) <= room
  BY <1>1, <1>2
<1> HIDE DEF room, gen
<1>5. d \in Kempt /\ d.items = t
  <2>1. t \in Seq(Valued)
    BY <1>2
  <2>2. d \in Kempt
    BY <1>3, <1>4, <2>1, KemptWith, Zenon
  <2>3. d.items = t
    BY <1>3 DEF Kempt, HeapObject
  <2> QED
    BY <2>2, <2>3
<1> QED
  BY <1>2, <1>5 DEF d, t

LEMMA RoomForEnough == ASSUME NEW n \in Nat PROVE RoomFor(n) \in Nat /\ RoomFor(n) >= n
<1>1. CASE n = 0
  BY <1>1 DEF RoomFor
<1>2. CASE n # 0
  <2> DEFINE T == {e \in 0..n : 2^e >= n}
  <2>1. T \in SUBSET Nat /\ T # {}
    <3>1. 2^n \in Nat /\ 2^n >= n + 1
      BY PowerType, PowerLarge
    <3>2. n \in T
      BY <3>1
    <3> QED
      BY <3>2
  <2>2. PICK e \in T : \A d \in T : e <= d
    <3> HIDE DEF T
    <3> QED
      BY <2>1, NatLeast
  <2> DEFINE Least(x) == 2^x >= n /\ \A d \in 0..n : 2^d >= n => x <= d
  <2>3. e \in 0..n /\ Least(e)
    BY <2>2
  <2> DEFINE x == CHOOSE x \in 0..n : Least(x)
  <2>4. RoomFor(n) = 2^x
    BY <1>2 DEF RoomFor
  <2> HIDE DEF Least
  <2>5. x \in 0..n /\ Least(x)
    BY <2>3
  <2> HIDE DEF x
  <2> QED
    BY <2>4, <2>5, PowerType DEF Least
<1> QED
  BY <1>1, <1>2

LEMMA NewKempt ==
    ASSUME NEW old, old.gen \in Nat, NEW kind \in {"sequence", "string"},
           NEW items \in Seq(Valued)
    PROVE  NewObject(old, kind, items) \in Kempt
<1>1. Len(items) \in Nat
  BY LenProperties
<1>2. RoomFor(Len(items)) \in Nat /\ RoomFor(Len(items)) >= Len(items)
  BY <1>1, RoomForEnough
<1>3. old.gen + 1 \in Nat
  OBVIOUS
<1> QED
  BY <1>1, <1>2, <1>3 DEF NewObject, Kempt, HeapObject

LEMMA DestroyedKempt ==
    ASSUME NEW c \in Kempt
    PROVE  Destroyed(c) \in Kempt
<1> DEFINE d == Destroyed(c)
<1>1. <<>> \in Seq(Valued) /\ Len(<<>>) = 0
  BY EmptySeq
<1>2. c.frozen \in BOOLEAN /\ c.room \in Nat /\ c.gen + 1 \in Nat
  BY KemptParts
<1> DEFINE gen == c.gen + 1
<1>3. d = [c EXCEPT !.kind = "none", !.items = <<>>, !.gen = gen]
  BY DEF Destroyed
<1> HIDE DEF d, gen
<1>4. d \in HeapObject /\ d.kind = "none" /\ d.items = <<>> /\ d.room = c.room
  BY <1>1, <1>2, <1>3, Zenon DEF Kempt, HeapObject, gen
<1>5. Len(d.items) <= d.room
  BY <1>1, <1>2, <1>4
<1> QED
  BY <1>4, <1>5 DEF d, Kempt

\* What to_string() gives is a text.
LEMMA TextValued ==
    ASSUME NEW c \in Kempt
    PROVE  Text(c) \in Seq(Valued)
<1>1. CASE c.kind = "string"
  <2> DEFINE t == [i \in 1..Len(c.items) |-> Chr8(ScalarOr0(c.items[i]) % 128)]
  <2>1. Len(c.items) \in Nat /\ DOMAIN c.items = 1..Len(c.items)
    BY KemptParts
  <2>2. ASSUME NEW i \in 1..Len(c.items)
        PROVE  Chr8(ScalarOr0(c.items[i]) % 128) \in Valued
    <3>1. ScalarOr0(c.items[i]) \in Int
      BY KemptParts, ScalarOr0Int DEF Valued
    <3>2. ScalarOr0(c.items[i]) % 128 \in Int
      BY <3>1
    <3> QED
      BY <3>2, ScalarsValued
  <2>3. t \in [1..Len(c.items) -> Valued]
    BY <2>2
  <2>4. Text(c) = t
    BY <1>1, <2>1 DEF Text
  <2> HIDE DEF t
  <2> QED
    BY <2>1, <2>3, <2>4, SeqDef
<1>2. CASE c.kind # "string"
  <2>1. \A x, y \in Valued : <<x, y>> \in Seq(Valued)
    OBVIOUS
  <2> QED
    BY <1>2, <2>1, ScalarsValued DEF Text
<1> QED
  BY <1>1, <1>2

-----------------------------------------------------------------------------
(* Following references *)

\* What holds at 0 and goes from each number to the next holds up to n.
LEMMA ChainIn ==
    ASSUME NEW n \in Nat, NEW T, NEW h, h[0] \in T,
           \A k \in 1..n : h[k - 1] \in T => h[k] \in T
    PROVE  \A k \in 0..n : h[k] \in T
<1> DEFINE P == {k \in 0..n : h[k] \in T}
<1>1. 0 \in P
  OBVIOUS
<1>2. ASSUME NEW k \in 0..(n - 1), k \in P PROVE k + 1 \in P
  <2>1. k + 1 \in 1..n /\ (k + 1) - 1 = k /\ k + 1 \in 0..n
    OBVIOUS
  <2>2. h[k + 1] \in T
    BY <1>2, <2>1
  <2> QED
    BY <2>1, <2>2
<1> HIDE DEF P
<1>3. 0..n \subseteq P
  BY <1>1, <1>2, UpTo
<1> QED
  BY <1>3 DEF P

\* Where a sound reference leads is an item.
LEMMA SoundItem ==
    ASSUME NEW contents \in [Object -> Kempt], NEW r \in Reference, Sound(contents, r)
    PROVE  /\ r.obj \in Object /\ r.n + 1 \in 1..Len(contents[r.obj].items)
           /\ contents[r.obj].items[r.n + 1] \in Valued
<1>1. r.obj \in Object /\ r.n < Len(contents[r.obj].items) /\ r.n \in Int /\ r.n >= 0
  BY DEF Sound, Alive, Reference, Valued, Value, Sensible
<1>2. contents[r.obj] \in Kempt
  BY <1>1
<1>3. /\ Len(contents[r.obj].items) \in Nat
      /\ \A i \in 1..Len(contents[r.obj].items) : contents[r.obj].items[i] \in Valued
  BY <1>2, KemptParts
<1>4. r.n + 1 \in 1..Len(contents[r.obj].items)
  BY <1>1, <1>3
<1> QED
  BY <1>1, <1>3, <1>4

LEMMA LastRefReference ==
    ASSUME NEW contents \in [Object -> Kempt], NEW v \in Reference
    PROVE  LastRef(contents, v) \in Reference
<1> DEFINE Hop(r) == LET item == contents[r.obj].items[r.n + 1]
                     IN IF item.tag = "val_ref" THEN item ELSE r
<1> DEFINE Follow(r) == IF Sound(contents, r) THEN Hop(r) ELSE r
<1> DEFINE Is(h) == h = [k \in 0..MaxHops |-> IF k = 0 THEN v ELSE Follow(h[k - 1])]
<1>0. MaxHops \in Nat
  BY ValueAssumption
<1>1. \A r \in Reference : Follow(r) \in Reference
  BY SoundItem DEF Reference
<1> HIDE DEF Follow
<1>2. \E h : Is(h)
  <2> DEFINE F == [k \in 0..MaxHops |-> [r \in Reference |-> Follow(r)]]
  <2>1. F \in [0..MaxHops -> [Reference -> Reference]]
    BY <1>1
  <2>2. \A k \in 0..MaxHops, r \in Reference : F[k][r] = Follow(r)
    OBVIOUS
  <2> HIDE DEF F
  <2>3. PICK h : h \in [0..MaxHops -> Reference] /\ Steps(h, MaxHops, v, F)
    BY <1>0, <2>1, Chain
  <2>4. ASSUME NEW k \in 0..MaxHops
        PROVE  h[k] = IF k = 0 THEN v ELSE Follow(h[k - 1])
    <3>1. k # 0 => k - 1 \in 0..MaxHops
      BY <1>0
    <3>2. k # 0 => h[k - 1] \in Reference
      BY <2>3, <3>1
    <3> QED
      BY <2>2, <2>3, <3>2 DEF Steps
  <2>5. Is(h)
    BY <2>3, <2>4
  <2> QED
    BY <2>5
<1> DEFINE hop == CHOOSE h : Is(h)
<1>3. LastRef(contents, v) = hop[MaxHops]
  BY DEF LastRef, Follow
<1>4. Is(hop)
  BY <1>2
<1> HIDE DEF hop
<1>5. hop[0] \in Reference
  BY <1>0, <1>4
<1>6. ASSUME NEW k \in 1..MaxHops, hop[k - 1] \in Reference PROVE hop[k] \in Reference
  <2>1. k \in 0..MaxHops /\ k # 0
    BY <1>0
  <2>2. hop[k] = Follow(hop[k - 1])
    BY <1>4, <2>1
  <2> QED
    BY <1>1, <1>6, <2>2
<1> HIDE DEF Is
<1>7. \A k \in 0..MaxHops : hop[k] \in Reference
  BY <1>0, <1>5, <1>6, ChainIn
<1> QED
  BY <1>0, <1>3, <1>7

\* A reference that does not dangle ends at an item.
LEMMA LastItem ==
    ASSUME NEW contents \in [Object -> Kempt], NEW v \in Valued, v.tag = "val_ref",
           ~ Dangles(contents, v)
    PROVE  LET last == LastRef(contents, v)
           IN /\ last.obj \in Object /\ last.n + 1 \in 1..Len(contents[last.obj].items)
              /\ contents[last.obj].items[last.n + 1] \in Valued
<1>1. v \in Reference
  BY DEF Reference
<1>2. LastRef(contents, v) \in Reference
  BY <1>1, LastRefReference
<1>3. Sound(contents, LastRef(contents, v))
  BY DEF Dangles
<1> QED
  BY <1>2, <1>3, SoundItem

LEMMA ChasedValued ==
    ASSUME NEW contents \in [Object -> Kempt], NEW v \in Valued, ~ Dangles(contents, v)
    PROVE  Chased(contents, v) \in Valued
BY LastItem DEF Chased
=============================================================================
