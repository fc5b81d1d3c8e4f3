--------------------------- MODULE MCValuesProofs ---------------------------
(***************************************************************************)
(* What the value layer promises, for every width of int and any number of *)
(* items: arithmetic is C's, the comparisons agree, == goes by items, and  *)
(* what freeze() froze and references show is kept.  Doubles are fractions *)
(* in lowest terms, which the comparisons need: the invariant keeps them   *)
(* so.                                                                     *)
(***************************************************************************)
EXTENDS MCValues, FastValueProofs

-----------------------------------------------------------------------------
(* Arithmetic *)

LEMMA MultipleMod ==
    ASSUME NEW m \in Nat \ {0}, NEW q \in Int
    PROVE  (q * m) % m = 0 /\ (q * m) \div m = q
OBVIOUS

LEMMA DivMod ==
    ASSUME NEW m \in Nat \ {0}, NEW k \in Int
    PROVE  k = m * (k \div m) + (k % m) /\ k % m \in 0..(m - 1) /\ k \div m \in Int
OBVIOUS

\* What does not fit the width is taken modulo 2^width, into its range.
LEMMA WrapLaw ==
    ASSUME NEW k \in Int
    PROVE  Wrap(k) \in Ints /\ (Wrap(k) - k) % 2^IntBits = 0
<1> DEFINE h == 2^(IntBits - 1)
<1> DEFINE m == 2^IntBits
<1>1. h \in Nat \ {0} /\ m = 2 * h /\ m \in Nat \ {0}
  <2>1. IntBits - 1 \in Nat /\ (IntBits - 1) + 1 = IntBits
    BY ValueAssumption
  <2> QED
    BY <2>1, PowerType, PowerNext
<1>2. Wrap(k) = ((k + h) % m) - h /\ Ints = -h..(h - 1)
  BY DEF Wrap, Ints
<1> HIDE DEF h, m
<1> DEFINE r == (k + h) % m
<1> DEFINE q == (k + h) \div m
<1>3. k + h = m * q + r /\ r \in 0..(m - 1) /\ q \in Int
  <2>1. k + h \in Int
    BY <1>1
  <2> QED
    BY <1>1, <2>1, DivMod
<1> HIDE DEF r, q
<1>4. Wrap(k) = r - h
  BY <1>2 DEF r
<1>5. Wrap(k) \in Ints
  BY <1>1, <1>2, <1>3, <1>4
<1>6. Wrap(k) - k = (-q) * m /\ -q \in Int
  BY <1>1, <1>3, <1>4
<1>7. (Wrap(k) - k) % m = 0
  BY <1>1, <1>6, MultipleMod
<1> QED
  BY <1>5, <1>7 DEF m

\* Division rounds towards zero, and the remainder has the dividend's sign.
LEMMA TruncLaw ==
    ASSUME NEW a \in Int, NEW b \in Int \ {0}
    PROVE  LET q == TruncDiv(a, b)
               r == TruncMod(a, b)
           IN /\ a = q * b + r
              /\ Magnitude(r) < Magnitude(b)
              /\ r # 0 => (r < 0) = (a < 0)
<1> DEFINE A == Magnitude(a)
<1> DEFINE B == Magnitude(b)
<1> DEFINE Q == A \div B
<1> DEFINE R == A % B
<1> DEFINE q == TruncDiv(a, b)
<1> DEFINE r == TruncMod(a, b)
<1>1. A \in Nat /\ B \in Nat \ {0}
  BY DEF Magnitude
<1>2. (A = IF a < 0 THEN -a ELSE a) /\ (B = IF b < 0 THEN -b ELSE b)
  BY DEF Magnitude
<1>3. A = B * Q + R /\ R \in 0..(B - 1) /\ Q \in Int
  <2> HIDE DEF A, B
  <2> QED
    BY <1>1, DivMod
<1>4. q = IF (a < 0) # (b < 0) THEN -Q ELSE Q
  BY DEF TruncDiv
<1>5. r = a - b * q
  BY DEF TruncMod
<1> HIDE DEF A, B, Q, R, q, r
<1>6. r = IF a < 0 THEN -R ELSE R
  <2>1. CASE a < 0 /\ b < 0
    BY <1>2, <1>3, <1>4, <1>5, <2>1
  <2>2. CASE a < 0 /\ ~(b < 0)
    BY <1>2, <1>3, <1>4, <1>5, <2>2
  <2>3. CASE ~(a < 0) /\ b < 0
    BY <1>2, <1>3, <1>4, <1>5, <2>3
  <2>4. CASE ~(a < 0) /\ ~(b < 0)
    BY <1>2, <1>3, <1>4, <1>5, <2>4
  <2> QED
    BY <2>1, <2>2, <2>3, <2>4
<1>7. Magnitude(r) = R
  BY <1>3, <1>6 DEF Magnitude
<1>8. a = q * b + r
  <2>1. q \in Int /\ b * q \in Int /\ q * b = b * q
    BY <1>3, <1>4
  <2> QED
    BY <1>5, <2>1
<1>9. Magnitude(r) < B
  BY <1>1, <1>3, <1>7
<1>10. r # 0 => (r < 0) = (a < 0)
  BY <1>3, <1>6
<1> QED
  BY <1>8, <1>9, <1>10 DEF q, r, B

-----------------------------------------------------------------------------
(* The invariant *)

\* No number but 1 divides both.
Coprime(n, m) == \A d \in Nat \ {0} : n % d = 0 /\ m % d = 0 => d = 1

\* Numbers in the form in which == compares them: a double in lowest terms.
Number ==
    {v \in Valued : /\ v.tag \notin {"val_ref", "string", "sequence"}
                    /\ IF v.tag = "flt64" THEN v.m # 0 => Coprime(v.n, v.m) ELSE v.m = 1}

Scalars == {Int32(1), Flt64(1, 1), NaN}

ValuesInv ==
    /\ acc \in Number /\ operand \in Number
    /\ contents \in [Object -> Kempt]
    /\ contents[list].kind = "sequence" /\ contents[other].kind = "sequence"
    /\ contents[list].items \in Seq(Items) /\ contents[other].items \in Seq(Scalars)
    /\ ref \in Valued /\ (ref.tag = "val_ref" => ref.obj = list)

\* What divides the parts of a product with the rest of one number.
LEMMA DividesProduct ==
    ASSUME NEW n \in Int, NEW g \in Nat \ {0}, NEW d \in Nat \ {0},
           n % g = 0, (n \div g) % d = 0
    PROVE  n % (g * d) = 0
<1> DEFINE k == n \div g
<1> DEFINE l == k \div d
<1>1. k \in Int /\ n = g * k
  BY DivMod
<1>2. l \in Int /\ k = d * l
  <2> HIDE DEF k
  <2>1. k % d = 0
    BY DEF k
  <2> QED
    BY <1>1, <2>1, DivMod
<1> HIDE DEF k, l
<1>3. n = l * (g * d) /\ g * d \in Nat \ {0}
  BY <1>1, <1>2
<1> QED
  BY <1>2, <1>3, MultipleMod

\* A fraction in lowest terms has the least denominator of those that are equal to it.
LEMMA LowestIsLeast ==
    ASSUME NEW a \in Int, NEW m \in Nat \ {0}, Coprime(a, m),
           NEW b \in Int, NEW d \in Nat \ {0}, b * m = a * d
    PROVE  m <= d
<1> DEFINE D == {e \in Nat \ {0} : \E c \in Int : c * m = a * e}
<1>1. PICK e \in D : \A x \in D : e <= x
  <2>1. D \in SUBSET Nat /\ D # {}
    OBVIOUS
  <2> HIDE DEF D
  <2> QED
    BY <2>1, NatLeast
<1>2. PICK c \in Int : c * m = a * e
  OBVIOUS
<1> DEFINE q == m \div e
<1> DEFINE r == m % e
<1>3. e \in Nat \ {0} /\ m = e * q + r /\ r \in 0..(e - 1) /\ q \in Int
  BY DivMod
<1> HIDE DEF q, r
<1>4. r = 0
  <2> SUFFICES ASSUME r # 0 PROVE FALSE
    OBVIOUS
  <2>1. (a - q * c) * m = a * m - q * (c * m)
    BY <1>3
  <2>2. q * (c * m) = a * (e * q)
    <3>1. q * (a * e) = a * (e * q)
      BY <1>3
    <3> QED
      BY <1>2, <3>1
  <2>3. a * m - a * (e * q) = a * (m - e * q)
    BY <1>3
  <2>4. m - e * q = r
    BY <1>3
  <2>5. (a - q * c) * m = a * r
    BY <2>1, <2>2, <2>3, <2>4
  <2>6. a - q * c \in Int /\ r \in Nat \ {0}
    BY <1>3
  <2>7. r \in D
    BY <2>5, <2>6
  <2> HIDE DEF D
  <2> QED
    BY <1>1, <1>3, <2>7
<1>5. m = q * e /\ q \in Nat \ {0}
  <2>1. m = e * q
    BY <1>3, <1>4
  <2>2. q > 0
    BY <1>3, <2>1
  <2> QED
    BY <1>3, <2>1, <2>2
<1>6. a = c * q
  <2>1. (c * q) * e = a * e
    <3>1. c * (q * e) = (c * q) * e
      BY <1>3
    <3> QED
      BY <1>2, <1>5, <3>1
  <2>2. (c * q - a) * e = 0
    BY <1>3, <2>1
  <2>3. c * q - a \in Int
    BY <1>3
  <2> QED
    BY <1>3, <2>2, <2>3
<1>7. m = e * q
  BY <1>3, <1>5
<1>8. a % q = 0 /\ m % q = 0
  <2>1. (c * q) % q = 0 /\ (e * q) % q = 0
    <3>1. c \in Int /\ e \in Int
      BY <1>3
    <3> QED
      BY <1>5, <3>1, MultipleMod
  <2> QED
    BY <1>6, <1>7, <2>1
<1>9. q = 1
  BY <1>5, <1>8 DEF Coprime
<1>10. m = e
  BY <1>3, <1>5, <1>9
<1>11. d \in D
  OBVIOUS
<1> HIDE DEF D
<1> QED
  BY <1>1, <1>10, <1>11

\* So == may compare numerators and denominators.
LEMMA LowestIsEqual ==
    ASSUME NEW a \in Int, NEW m \in Nat \ {0}, Coprime(a, m),
           NEW b \in Int, NEW d \in Nat \ {0}, Coprime(b, d)
    PROVE  a * d = b * m <=> a = b /\ m = d
<1>1. ASSUME a * d = b * m PROVE a = b /\ m = d
  <2>1. m <= d
    BY <1>1, LowestIsLeast
  <2>2. d <= m
    BY <1>1, LowestIsLeast
  <2>3. m = d
    BY <2>1, <2>2
  <2>4. (a - b) * m = 0
    BY <1>1, <2>3
  <2> QED
    BY <2>3, <2>4
<1> QED
  BY <1>1

\* Flt64 takes the greatest common divisor out of both.
LEMMA Flt64Number ==
    ASSUME NEW num \in Int, NEW den \in Int
    PROVE  Flt64(num, den) \in Number
<1> DEFINE m == Magnitude(den)
<1> DEFINE common == {k \in 1..m : num % k = 0 /\ den % k = 0}
<1> DEFINE gcd == CHOOSE k \in common : \A e \in common : e <= k
<1> DEFINE sign == IF den < 0 THEN -1 ELSE 1
<1> DEFINE finite == den # 0 /\ Magnitude(num) <= MaxDouble * m
<1>0. Flt64(num, den) = [tag |-> "flt64",
                         n |-> sign * (IF finite THEN num \div gcd ELSE Sign(num)),
                         m |-> IF finite THEN m \div gcd ELSE 0, obj |-> NoObject]
  BY DEF Flt64
<1>a. CASE ~finite
  <2> HIDE DEF finite
  <2>1. Flt64(num, den).tag = "flt64" /\ Flt64(num, den).m = 0
    BY <1>0, <1>a
  <2> QED
    BY <2>1, Flt64Valued DEF Number
<1> SUFFICES ASSUME finite PROVE Flt64(num, den) \in Number
  BY <1>a
<1>1. m \in Nat \ {0} /\ (den = m \/ den = -m) /\ den # 0
  BY DEF Magnitude
<1> HIDE DEF m, finite
<1>2. gcd \in common /\ \A e \in common : e <= gcd
  <2>1. num % 1 = 0 /\ den % 1 = 0 /\ 1 \in 1..m
    BY <1>1
  <2>2. common \in SUBSET (0..m) /\ common # {}
    BY <1>1, <2>1
  <2> HIDE DEF common
  <2> QED
    BY <1>1, <2>2, NatGreatest
<1>3. Flt64(num, den) = [tag |-> "flt64", n |-> sign * (num \div gcd), m |-> m \div gcd,
                         obj |-> NoObject]
  BY <1>0
<1> HIDE DEF gcd
<1>4. gcd \in 1..m /\ num % gcd = 0 /\ den % gcd = 0
  BY <1>2
<1>5. \A e \in 1..m : num % e = 0 /\ den % e = 0 => e <= gcd
  BY <1>2
<1> DEFINE n == num \div gcd
<1> DEFINE l == m \div gcd
<1>6. gcd \in Nat \ {0} /\ num = gcd * n /\ n \in Int
  BY <1>1, <1>4, DivMod
<1>7. m = gcd * l /\ l \in Nat \ {0} /\ m % gcd = 0
  <2>1. den = gcd * (den \div gcd) /\ den \div gcd \in Int
    BY <1>4, <1>6, DivMod
  <2>2. \E j \in Int : m = j * gcd
    <3>1. m = (den \div gcd) * gcd \/ m = (-(den \div gcd)) * gcd
      BY <1>1, <1>6, <2>1
    <3>2. -(den \div gcd) \in Int
      BY <2>1
    <3> QED
      BY <2>1, <3>1, <3>2
  <2>3. m % gcd = 0
    BY <1>6, <2>2, MultipleMod
  <2>4. m = gcd * l /\ l \in Int
    BY <1>1, <1>6, <2>3, DivMod
  <2> HIDE DEF l
  <2>5. l > 0
    BY <1>1, <1>6, <2>4
  <2> QED
    BY <2>3, <2>4, <2>5
<1>8. Coprime(sign * n, l)
  <2> SUFFICES ASSUME NEW d \in Nat \ {0}, (sign * n) % d = 0, l % d = 0 PROVE d = 1
    BY DEF Coprime
  <2>1. n % d = 0
    <3> HIDE DEF n
    <3>1. sign * n \in Int /\ (n = sign * n \/ n = (-1) * (sign * n))
      BY <1>6
    <3> DEFINE x == sign * n
    <3> DEFINE j == x \div d
    <3>2. x = d * j /\ j \in Int
      <4>1. x \in Int /\ x % d = 0
        BY <3>1
      <4> HIDE DEF x
      <4> QED
        BY <4>1, DivMod
    <3> HIDE DEF x, j
    <3>3. n = j * d \/ n = (-j) * d
      BY <3>1, <3>2 DEF x
    <3>4. -j \in Int
      BY <3>2
    <3> QED
      BY <3>2, <3>3, <3>4, MultipleMod
  <2>2. num % (gcd * d) = 0
    BY <1>4, <1>6, <2>1, DividesProduct
  <2>3. m % (gcd * d) = 0
    <3>1. m \in Int /\ gcd \in Nat \ {0} /\ m % gcd = 0 /\ (m \div gcd) % d = 0
      BY <1>1, <1>6, <1>7
    <3> QED
      BY <3>1, DividesProduct
  <2> DEFINE e == gcd * d
  <2> HIDE DEF n, l
  <2>4. e \in Nat \ {0}
    BY <1>6
  <2>5. e <= m /\ den % e = 0
    <3> DEFINE j == m \div e
    <3> HIDE DEF e
    <3>1. m = e * j /\ j \in Int
      <4>1. m \in Int /\ m % e = 0
        BY <1>1, <2>3 DEF e
      <4> QED
        BY <2>4, <4>1, DivMod
    <3> HIDE DEF j
    <3>2. j > 0
      BY <1>1, <2>4, <3>1
    <3>3. e <= m
      BY <2>4, <3>1, <3>2
    <3>4. den = j * e \/ den = (-j) * e
      BY <1>1, <2>4, <3>1
    <3>5. -j \in Int
      BY <3>1
    <3> QED
      BY <2>4, <3>1, <3>3, <3>4, <3>5, MultipleMod
  <2>6. gcd * d <= gcd
    BY <1>5, <2>2, <2>4, <2>5
  <2> QED
    BY <1>6, <2>6
<1>9. sign * n \in Int
  BY <1>6
<1>10. Flt64(num, den).tag = "flt64" /\ Flt64(num, den).n = sign * n /\ Flt64(num, den).m = l
  BY <1>3
<1> QED
  BY <1>8, <1>10, Flt64Valued DEF Number

LEMMA ArithNumber ==
    ASSUME NEW op \in ArithOps, NEW x \in Number, NEW y \in Number
    PROVE  Arith(op, x, y) \in Number
<1>1. x \in Value /\ y \in Value /\ x.n \in Int /\ y.n \in Int
  BY DEF Number, Valued, Value
<1>2. Dud \in Number /\ \A k \in Int : Int32(k) \in Number
  BY ScalarsValued DEF Number, Dud, Int32, Scalar
<1>3. CASE x.tag = "int32" /\ x.tag = y.tag /\ (op \in {"div", "mod"} => Truthy(y))
  <2>1. op \in {"div", "mod"} => y.n \in Int \ {0}
    BY <1>1, <1>3 DEF Truthy, IsNaN
  <2>2. IntArith(op, x.n, y.n) \in Int
    BY <1>1, <2>1, WrapInt, TruncInt DEF IntArith, ArithOps
  <2> QED
    BY <1>2, <1>3, <2>2 DEF Arith
<1>4. CASE x.tag = "flt64" /\ op # "mod" /\ x.tag = y.tag /\ (op = "div" => Truthy(y))
  <2>1. FltArith(op, x, y) \in Number
    BY <1>1, <1>4, FltArithMakes, Flt64Number
  <2> QED
    BY <1>4, <2>1 DEF Arith
<1> QED
  BY <1>2, <1>3, <1>4 DEF Arith

LEMMA PushedItems ==
    ASSUME NEW c \in Kempt, NEW S, NEW v \in S, c.items \in Seq(S), c.kind # "string"
    PROVE  push_value(c, v).items \in Seq(S)
<1>1. push_value(c, v).items = Append(c.items, v)
  BY DEF push_value, Grown, Kept, Kempt, HeapObject
<1> QED
  BY <1>1, AppendProperties

LEMMA PoppedItems ==
    ASSUME NEW c \in Kempt, NEW S, c.items \in Seq(S), NEW end
    PROVE  /\ pop_value(c, end).items \in Seq(S) /\ pop_value(c, end).kind = c.kind
           /\ Len(pop_value(c, end).items) <= Len(c.items)
<1> DEFINE s == c.items
<1> DEFINE t == IF end = "back" THEN SubSeq(s, 1, Len(s) - 1) ELSE Tail(s)
<1>1. /\ pop_value(c, end).items = (IF CanPop(c) THEN t ELSE s)
      /\ pop_value(c, end).kind = c.kind
  BY DEF pop_value, Kempt, HeapObject
<1>2. CanPop(c) => s # <<>>
  BY DEF CanPop
<1> HIDE DEF s
<1>3. s \in Seq(S) /\ Len(s) \in Nat /\ \A i \in 1..Len(s) : s[i] \in S
  BY LenProperties, ElementOfSeq DEF s
<1>4. ASSUME s # <<>> PROVE t \in Seq(S) /\ Len(t) <= Len(s)
  <2>1. Len(s) > 0
    BY <1>3, <1>4, EmptySeq
  <2>2. Tail(s) \in Seq(S) /\ Len(Tail(s)) = Len(s) - 1
    BY <1>3, <1>4, HeadTailProperties
  <2>3. \A i \in 1..(Len(s) - 1) : s[i] \in S
    BY <1>3
  <2>4. /\ SubSeq(s, 1, Len(s) - 1) \in Seq(S)
        /\ Len(SubSeq(s, 1, Len(s) - 1)) =
              IF 1 <= Len(s) - 1 THEN (Len(s) - 1) - 1 + 1 ELSE 0
    BY <1>3, <2>1, <2>3, SubSeqProperties
  <2> QED
    BY <1>3, <2>1, <2>2, <2>4
<1> QED
  BY <1>1, <1>2, <1>3, <1>4 DEF s

LEMMA OperandsAre == Operands \subseteq Number
<1>1. 2^(IntBits - 1) \in Nat
  BY ValueAssumption, PowerType
<1>2. Ints \subseteq Int
  BY <1>1 DEF Ints
<1>3. \A k \in Int : Int32(k) \in Number /\ Chr8(k) \in Number
  BY ScalarsValued DEF Number, Int32, Chr8, Scalar
<1>4. \A b \in BOOLEAN : Boolean(b) \in Number
  BY ScalarsValued DEF Number, Boolean, Scalar
<1>5. Dud \in Number
  BY ScalarsValued DEF Number, Dud
<1>6. /\ Flt64(0, 1) \in Number /\ Flt64(1, 2) \in Number /\ Flt64(-3, 2) \in Number
      /\ Infinity \in Number /\ NaN \in Number
  BY Flt64Number DEF Infinity, NaN
<1> QED
  BY <1>2, <1>3, <1>4, <1>5, <1>6 DEF Operands

LEMMA ItemsAre ==
    /\ Items \subseteq Valued /\ Scalars \subseteq Items
    /\ \A v \in Items : v.tag # "val_ref" /\ (v.tag # "sequence" => v \in Scalars)
    /\ \A v \in Scalars : v.tag \notin {"val_ref", "string", "sequence"}
<1>1. Int32(1) \in Valued /\ Flt64(1, 1) \in Valued /\ NaN \in Valued
  BY ScalarsValued, Flt64Valued DEF NaN
<1>2. Pointer(other, "sequence") \in Valued
  BY PointerValued, ValuesAssumption DEF MCObject
<1>3. /\ Int32(1).tag = "int32" /\ Flt64(1, 1).tag = "flt64" /\ NaN.tag = "flt64"
      /\ Pointer(other, "sequence").tag = "sequence"
  BY DEF Int32, Scalar, Flt64, Pointer, NaN
<1> QED
  BY <1>1, <1>2, <1>3 DEF Items, Scalars

LEMMA ValuesStart == Init => ValuesInv
<1> SUFFICES ASSUME Init PROVE ValuesInv
  OBVIOUS
<1>1. acc \in Number /\ operand \in Number
  BY OperandsAre DEF Init
<1>2. /\ DOMAIN contents = Object
      /\ contents[list] = Empty("sequence") /\ contents[other] = Empty("sequence")
      /\ contents[text] = Empty("string")
  BY ValuesAssumption DEF Init, MCObject
<1>3. \A kind \in {"sequence", "string"} : Empty(kind) \in Kempt
  <2>1. <<>> \in Seq(Valued) /\ Len(<<>>) = 0
    BY EmptySeq
  <2> QED
    BY <2>1 DEF Empty, Kempt, HeapObject
<1>4. contents \in [Object -> Kempt]
  <2>1. \A o \in Object : Empty(IF o = text THEN "string" ELSE "sequence") \in Kempt
    BY <1>3
  <2> QED
    BY <2>1, ValuesAssumption DEF Init
<1>5. /\ contents[list].kind = "sequence" /\ contents[other].kind = "sequence"
      /\ contents[list].items = <<>> /\ contents[other].items = <<>>
  BY <1>2 DEF Empty
<1>6. contents[list].items \in Seq(Items) /\ contents[other].items \in Seq(Scalars)
  BY <1>5, EmptySeq
<1>7. ref \in Valued /\ (ref.tag = "val_ref" => ref.obj = list)
  BY ScalarsValued DEF Init, Dud
<1> QED
  BY <1>1, <1>4, <1>5, <1>6, <1>7 DEF ValuesInv

\* One object changes, and what the invariant says of it is seen to.
LEMMA ObjectChanged ==
    ASSUME ValuesInv, NEW o \in Object, NEW c \in Kempt,
           contents' = [contents EXCEPT ![o] = c], UNCHANGED <<acc, operand, ref>>,
           c.kind = contents[o].kind,
           o = list => c.items \in Seq(Items),
           o = other => c.items \in Seq(Scalars)
    PROVE  ValuesInv'
<1>1. contents' \in [Object -> Kempt]
  BY DEF ValuesInv
<1>2. list \in Object /\ other \in Object
  BY ValuesAssumption DEF MCObject
<1>3. \A p \in Object : contents'[p] = IF p = o THEN c ELSE contents[p]
  BY DEF ValuesInv
<1>4. contents'[list].kind = "sequence" /\ contents'[other].kind = "sequence"
  BY <1>2, <1>3 DEF ValuesInv
<1>5. contents'[list].items \in Seq(Items)
  <2>1. CASE o = list
    BY <1>2, <1>3, <2>1
  <2>2. CASE o # list
    BY <1>2, <1>3, <2>2 DEF ValuesInv
  <2> QED
    BY <2>1, <2>2
<1>6. contents'[other].items \in Seq(Scalars)
  <2>1. CASE o = other
    BY <1>2, <1>3, <2>1
  <2>2. CASE o # other
    BY <1>2, <1>3, <2>2 DEF ValuesInv
  <2> QED
    BY <2>1, <2>2
<1>7. Items' = Items
  BY DEF Items
<1>8. /\ acc' \in Number /\ operand' \in Number
      /\ ref' \in Valued /\ (ref'.tag = "val_ref" => ref'.obj = list)
  BY DEF ValuesInv
<1> QED
  BY <1>1, <1>4, <1>5, <1>6, <1>8 DEF ValuesInv

LEMMA ValuesNext == ValuesInv /\ [Next]_valueVars => ValuesInv'
<1> SUFFICES ASSUME ValuesInv, [Next]_valueVars PROVE ValuesInv'
  OBVIOUS
<1>0. \A o \in Object : contents[o] \in Kempt
  BY DEF ValuesInv
<1>1. ASSUME NEW op \in Operators, Compute(op) PROVE ValuesInv'
  <2>1. acc' \in Number
    BY <1>1, ArithNumber DEF Compute, ValuesInv, Operators, ArithOps
  <2> QED
    BY <1>1, <2>1 DEF Compute, ValuesInv
<1>2. ASSUME NEW o \in MCObject, NEW v \in Items, PushItem(o, v) PROVE ValuesInv'
  <2>1. o \in Object /\ v \in Valued
    BY ItemsAre, ValuesAssumption
  <2> DEFINE c == push_value(contents[o], v)
  <2>2. c \in Kempt /\ c.kind = contents[o].kind
    BY <1>0, <2>1, PushKempt
  <2>3. o = list => c.items \in Seq(Items)
    BY <1>0, <2>1, PushedItems DEF ValuesInv
  <2>4. o = other => v \in Scalars
    BY <1>2, ItemsAre, ValuesAssumption DEF PushItem
  <2>5. o = other => c.items \in Seq(Scalars)
    BY <1>0, <2>1, <2>4, PushedItems DEF ValuesInv
  <2>6. contents' = [contents EXCEPT ![o] = c] /\ UNCHANGED <<acc, operand, ref>>
    BY <1>2 DEF PushItem
  <2> HIDE DEF c
  <2> QED
    BY <2>1, <2>2, <2>3, <2>5, <2>6, ObjectChanged
<1>3. ASSUME NEW o \in MCObject, NEW end \in {"front", "back"}, PopItem(o, end)
      PROVE  ValuesInv'
  <2>1. o \in Object
    BY ValuesAssumption
  <2> DEFINE c == pop_value(contents[o], end)
  <2>2. c \in Kempt
    BY <1>0, <2>1, PopKempt
  <2>3. c.kind = contents[o].kind
    BY <1>0, <2>1, PoppedItems, KemptParts
  <2>4. o = list => c.items \in Seq(Items)
    BY <1>0, <2>1, PoppedItems DEF ValuesInv
  <2>5. o = other => c.items \in Seq(Scalars)
    BY <1>0, <2>1, PoppedItems DEF ValuesInv
  <2>6. contents' = [contents EXCEPT ![o] = c] /\ UNCHANGED <<acc, operand, ref>>
    BY <1>3 DEF PopItem
  <2> HIDE DEF c
  <2> QED
    BY <2>1, <2>2, <2>3, <2>4, <2>5, <2>6, ObjectChanged
<1>4. ASSUME NEW o \in MCObject, FreezeObject(o) PROVE ValuesInv'
  <2>1. o \in Object
    BY ValuesAssumption
  <2> DEFINE c == freeze(contents[o])
  <2>2. c \in Kempt /\ c.items = contents[o].items
    BY <1>0, <2>1, FreezeKempt
  <2>3. c.kind = contents[o].kind
    BY <1>0, <2>1 DEF freeze, Kempt, HeapObject
  <2>4. contents' = [contents EXCEPT ![o] = c] /\ UNCHANGED <<acc, operand, ref>>
    BY <1>4 DEF FreezeObject
  <2>5. (o = list => c.items \in Seq(Items)) /\ (o = other => c.items \in Seq(Scalars))
    BY <2>2 DEF ValuesInv
  <2> HIDE DEF c
  <2> QED
    BY <2>1, <2>2, <2>3, <2>4, <2>5, ObjectChanged
<1>5. ASSUME NEW pos \in 0..(MaxItems - 1), TakeRef(pos) PROVE ValuesInv'
  <2>1. list \in Object /\ pos \in Int /\ pos >= 0
    BY ValuesAssumption DEF MCObject
  <2>2. contents[list].gen \in Int
    BY <1>0, <2>1, KemptParts
  <2>3. ref' \in Valued /\ ref'.obj = list
    BY <1>5, <2>1, <2>2 DEF TakeRef, Valued, Value, Sensible, Tags
  <2> QED
    BY <1>5, <2>3 DEF TakeRef, ValuesInv
<1>6. CASE UNCHANGED valueVars
  BY <1>6 DEF valueVars, ValuesInv
<1> QED
  BY <1>1, <1>2, <1>3, <1>4, <1>5, <1>6 DEF Next

\* Numbers stay in lowest terms, objects keep their room, and the lists hold only
\* what was pushed.
THEOREM ValuesKept == Spec => []ValuesInv
BY ValuesStart, ValuesNext, PTL DEF Spec

-----------------------------------------------------------------------------
(* The properties *)

LEMMA IntsCompute == ValuesInv => IntsComputeLikeC
<1> SUFFICES ASSUME ValuesInv, Known(acc), Known(operand) PROVE IntsComputeLikeC
  BY DEF IntsComputeLikeC
<1> DEFINE a == acc.n
<1> DEFINE b == operand.n
<1> DEFINE Result(op) == Arith(op, acc, operand)
<1>1. a \in Int /\ b \in Int /\ acc.tag = "int32" /\ operand.tag = "int32"
  BY DEF ValuesInv, Number, Valued, Value, Known
<1>2. /\ Result("add").n = Wrap(a + b) /\ Result("sub").n = Wrap(a - b)
      /\ Result("mul").n = Wrap(a * b)
  BY <1>1 DEF Arith, IntArith, Int32, Scalar
<1>3. b = 0 => Result("div") = Dud /\ Result("mod") = Dud
  BY <1>1 DEF Arith, Truthy, IsNaN
<1>4. b # 0 => Result("div").n = TruncDiv(a, b) /\ Result("mod").n = TruncMod(a, b)
  BY <1>1 DEF Arith, Truthy, IntArith, Int32, Scalar
<1> HIDE DEF a, b, Result
<1>5. /\ Result("add").n \in Ints /\ (Result("add").n - (a + b)) % 2^IntBits = 0
      /\ Result("sub").n \in Ints /\ (Result("sub").n - (a - b)) % 2^IntBits = 0
      /\ Result("mul").n \in Ints /\ (Result("mul").n - a * b) % 2^IntBits = 0
  <2>1. a + b \in Int /\ a - b \in Int /\ a * b \in Int
    BY <1>1
  <2> QED
    BY <1>2, <2>1, WrapLaw
<1>6. b # 0 =>
        LET q == Result("div").n
            r == Result("mod").n
        IN /\ a = q * b + r
           /\ Magnitude(r) < Magnitude(b)
           /\ r # 0 => (r < 0) = (a < 0)
  BY <1>1, <1>4, TruncLaw
<1> QED
  BY <1>3, <1>5, <1>6 DEF IntsComputeLikeC, a, b, Result

\* For every width of int, sums, differences and products are right modulo 2^width
\* and in range, division rounds towards zero with the remainder that makes up the
\* dividend, and a zero divisor is refused (fast_value.cpp:114-349).
THEOREM IntsAreC == Spec => []IntsComputeLikeC
BY ValuesKept, IntsCompute, PTL

LEMMA FrozenStep ==
    ASSUME ValuesInv, [Next]_valueVars, NEW o \in MCObject, contents[o].frozen
    PROVE  /\ contents'[o].frozen
           /\ Len(contents'[o].items) >= Len(contents[o].items)
<1>1. o \in Object /\ contents[o] \in Kempt /\ contents \in [Object -> Kempt]
  BY ValuesAssumption DEF ValuesInv
<1>2. Len(contents[o].items) \in Nat
  BY <1>1, KemptParts
<1>3. ASSUME NEW p \in MCObject, NEW v \in Items, PushItem(p, v)
      PROVE  /\ contents'[o].frozen
             /\ Len(contents'[o].items) >= Len(contents[o].items)
  <2>1. v \in Valued
    BY ItemsAre
  <2>2. contents'[o] = contents[o] \/ contents'[o] = push_value(contents[o], v)
    BY <1>1, <1>3 DEF PushItem
  <2>3. /\ push_value(contents[o], v).frozen
        /\ Len(push_value(contents[o], v).items) = Len(contents[o].items) + 1
    BY <1>1, <2>1, PushKempt
  <2> QED
    BY <1>2, <2>2, <2>3
<1>4. ASSUME NEW p \in MCObject, NEW end \in {"front", "back"}, PopItem(p, end)
      PROVE  contents'[o] = contents[o]
  <2>1. contents'[o] = contents[o] \/ contents'[o] = pop_value(contents[o], end)
    BY <1>1, <1>4 DEF PopItem
  <2> QED
    BY <1>1, <2>1, PopKempt
<1>5. ASSUME NEW p \in MCObject, FreezeObject(p)
      PROVE  /\ contents'[o].frozen
             /\ Len(contents'[o].items) >= Len(contents[o].items)
  <2>1. contents'[o] = contents[o] \/ contents'[o] = freeze(contents[o])
    BY <1>1, <1>5 DEF FreezeObject
  <2>2. freeze(contents[o]).frozen /\ freeze(contents[o]).items = contents[o].items
    BY <1>1, FreezeKempt
  <2> QED
    BY <1>2, <2>1, <2>2
<1>6. ASSUME UNCHANGED contents
      PROVE  /\ contents'[o].frozen
             /\ Len(contents'[o].items) >= Len(contents[o].items)
  BY <1>2, <1>6
<1> QED
  BY <1>2, <1>3, <1>4, <1>5, <1>6 DEF Next, Compute, TakeRef, valueVars

\* Nothing leaves a frozen object, and it stays frozen, through any sequence of
\* pushes, pops and freezes (sequence_value.cpp:42).
THEOREM FrozenKept == Spec => FrozenKeepsItems
<1>1. ValuesInv /\ [Next]_valueVars =>
        [\A o \in MCObject : contents[o].frozen =>
            /\ contents'[o].frozen
            /\ Len(contents'[o].items) >= Len(contents[o].items)]_valueVars
  BY FrozenStep
<1> QED
  BY <1>1, ValuesKept, PTL DEF Spec, FrozenKeepsItems

\* A reference to an item that is no reference is followed no further.
LEMMA ReferenceEnds ==
    ASSUME NEW c, NEW v, Sound(c, v), c[v.obj].items[v.n + 1].tag # "val_ref"
    PROVE  LastRef(c, v) = v
<1> DEFINE Hop(r) == LET item == c[r.obj].items[r.n + 1]
                     IN IF item.tag = "val_ref" THEN item ELSE r
<1> DEFINE Follow(r) == IF Sound(c, r) THEN Hop(r) ELSE r
<1> DEFINE Is(h) == h = [k \in 0..MaxHops |-> IF k = 0 THEN v ELSE Follow(h[k - 1])]
<1>0. MaxHops \in Nat
  BY ValueAssumption
<1>1. Follow(v) = v
  OBVIOUS
<1> HIDE DEF Follow
<1>2. \E h : Is(h)
  <2> DEFINE h == [k \in 0..MaxHops |-> v]
  <2>1. ASSUME NEW k \in 0..MaxHops PROVE h[k] = IF k = 0 THEN v ELSE Follow(h[k - 1])
    <3>1. k # 0 => k - 1 \in 0..MaxHops
      BY <1>0
    <3> QED
      BY <1>1, <3>1
  <2>2. Is(h)
    BY <2>1
  <2> QED
    BY <2>2
<1> DEFINE hop == CHOOSE h : Is(h)
<1>3. LastRef(c, v) = hop[MaxHops]
  BY DEF LastRef, Follow
<1>4. Is(hop)
  BY <1>2
<1> HIDE DEF hop
<1>5. hop[0] \in {v}
  BY <1>0, <1>4
<1>6. ASSUME NEW k \in 1..MaxHops, hop[k - 1] \in {v} PROVE hop[k] \in {v}
  <2>1. k \in 0..MaxHops /\ k # 0
    BY <1>0
  <2> QED
    BY <1>1, <1>4, <1>6, <2>1
<1> HIDE DEF Is
<1> DEFINE T == {v}
<1>7. hop[0] \in T /\ \A k \in 1..MaxHops : hop[k - 1] \in T => hop[k] \in T
  BY <1>5, <1>6
<1> HIDE DEF T
<1>8. \A k \in 0..MaxHops : hop[k] \in T
  BY <1>0, <1>7, ChainIn
<1> QED
  BY <1>0, <1>3, <1>8 DEF T

LEMMA ChasedItem ==
    ASSUME NEW c, NEW v, v.tag = "val_ref", Sound(c, v),
           c[v.obj].items[v.n + 1].tag # "val_ref"
    PROVE  Chased(c, v) = c[v.obj].items[v.n + 1]
BY ReferenceEnds DEF Chased

LEMMA PushedReference ==
    ASSUME ValuesInv, [Next]_valueVars, ref.tag = "val_ref", Sound(contents, ref),
           Len(contents'[list].items) > Len(contents[list].items), Sound(contents', ref)
    PROVE  Chased(contents', ref) = Chased(contents, ref)
<1> DEFINE s == contents[list].items
<1> DEFINE t == contents'[list].items
<1>1. /\ list \in Object /\ contents[list] \in Kempt /\ contents \in [Object -> Kempt]
      /\ contents[list].kind # "string"
  BY ValuesAssumption DEF ValuesInv, MCObject
<1>2. Len(s) \in Nat /\ s \in Seq(Items)
  BY <1>1, KemptParts DEF ValuesInv
<1>3. PICK v \in Items : t = push_value(contents[list], v).items
  <2>1. ASSUME NEW p \in MCObject, NEW end \in {"front", "back"}, PopItem(p, end)
        PROVE  Len(t) <= Len(s)
    <3>1. contents'[list] = contents[list] \/ contents'[list] = pop_value(contents[list], end)
      BY <1>1, <2>1 DEF PopItem
    <3> QED
      BY <1>1, <1>2, <3>1, PoppedItems
  <2>2. ASSUME NEW p \in MCObject, FreezeObject(p) PROVE t = s
    <3>1. contents'[list] = contents[list] \/ contents'[list] = freeze(contents[list])
      BY <1>1, <2>2 DEF FreezeObject
    <3> QED
      BY <1>1, <3>1, FreezeKempt
  <2>3. ASSUME NEW p \in MCObject, NEW v \in Items, PushItem(p, v)
        PROVE  t = s \/ t = push_value(contents[list], v).items
    BY <1>1, <2>3 DEF PushItem
  <2>4. ~(t = s) /\ ~(Len(t) <= Len(s))
    BY <1>2
  <2> HIDE DEF s, t
  <2>5. ~UNCHANGED contents
    BY <2>4 DEF s, t
  <2> QED
    BY <2>1, <2>2, <2>3, <2>4, <2>5 DEF Next, Compute, TakeRef, valueVars
<1>4. ref.obj = list /\ ref.n + 1 \in 1..Len(s)
  <2>1. ref \in Reference /\ ref.obj = list
    BY DEF ValuesInv, Reference
  <2> QED
    BY <1>1, <2>1, SoundItem
<1>5. s[ref.n + 1] \in Items
  BY <1>2, <1>4, ElementOfSeq
<1>6. v \in Valued
  BY ItemsAre
<1>7. t[ref.n + 1] = s[ref.n + 1]
  BY <1>1, <1>3, <1>4, <1>6, PushKempt
<1>8. s[ref.n + 1].tag # "val_ref"
  BY <1>5, ItemsAre
<1>9. Chased(contents, ref) = s[ref.n + 1]
  BY <1>4, <1>8, ChasedItem
<1>10. Chased(contents', ref) = t[ref.n + 1]
  BY <1>4, <1>7, <1>8, ChasedItem
<1> QED
  BY <1>7, <1>9, <1>10

\* No push makes a reference show another item (fast_value.cpp:53): it is as it was,
\* or its buffer is gone.
THEOREM ReferencesKept == Spec => PushKeepsReferences
<1>1. ValuesInv /\ [Next]_valueVars =>
        [(/\ ref.tag = "val_ref" /\ Sound(contents, ref)
          /\ Len(contents'[list].items) > Len(contents[list].items)
          /\ Sound(contents', ref)) =>
            Chased(contents', ref) = Chased(contents, ref)]_valueVars
  BY PushedReference
<1> QED
  BY <1>1, ValuesKept, PTL DEF Spec, PushKeepsReferences

-----------------------------------------------------------------------------
(* Equality *)

Verdict == {"yes", "no", "undefined"}
Pairs == Value \X Value

\* == comes to two living objects of a kind and a size.
Compares(c, k, u, w) ==
    LET p == Chased(c, u)
    IN /\ k # 0 /\ ~Dangles(c, u)
       /\ p.tag = w.tag /\ ~HasScalar(p) /\ p.tag # "flt64"
       /\ NoObject \notin {to_object_ptr(p), to_object_ptr(w)}
       /\ Alive(c, p.obj) /\ Alive(c, w.obj)
       /\ <<c[p.obj].kind, Len(c[p.obj].items)>> = <<c[w.obj].kind, Len(c[w.obj].items)>>

\* What it says when it does not.
Outright(c, k, u, w) ==
    LET p == Chased(c, u)
    IN IF Dangles(c, u) THEN "undefined"
       ELSE IF p.tag # w.tag THEN "no"
       ELSE IF HasScalar(p) \/ p.tag = "flt64" THEN
          (IF p.n = w.n /\ p.m = w.m /\ ~IsNaN(p) THEN "yes" ELSE "no")
       ELSE IF NoObject \in {to_object_ptr(p), to_object_ptr(w)} THEN "no"
       ELSE IF k = 0 \/ ~Alive(c, p.obj) \/ ~Alive(c, w.obj) THEN "undefined"
       ELSE "no"

\* The first of some places.
First(D) == CHOOSE i \in D : \A j \in D : i <= j

\* What it says of two vectors of items when g says it of each two: the first that
\* are not equal decide.
OfItems(s, t, g) ==
    LET Differ == {i \in 1..Len(s) : g[<<s[i], t[i]>>] # "yes"}
    IN IF Differ = {} THEN "yes" ELSE g[<<s[First(Differ)], t[First(Differ)]>>]

Level(c, k, u, w, g) ==
    IF Compares(c, k, u, w) THEN OfItems(c[Chased(c, u).obj].items, c[w.obj].items, g)
    ELSE Outright(c, k, u, w)

LEMMA OfItemsVerdict ==
    ASSUME NEW s, NEW t, NEW g \in [Pairs -> Verdict], Len(s) \in Nat,
           \A i \in 1..Len(s) : s[i] \in Value /\ t[i] \in Value
    PROVE  /\ OfItems(s, t, g) \in Verdict
           /\ OfItems(s, t, g) = "yes" <=> \A i \in 1..Len(s) : g[<<s[i], t[i]>>] = "yes"
           /\ OfItems(s, t, g) # "yes" =>
                 \E i \in 1..Len(s) : OfItems(s, t, g) = g[<<s[i], t[i]>>]
<1> DEFINE Differ == {i \in 1..Len(s) : g[<<s[i], t[i]>>] # "yes"}
<1> DEFINE j == First(Differ)
<1>1. OfItems(s, t, g) = IF Differ = {} THEN "yes" ELSE g[<<s[j], t[j]>>]
  BY DEF OfItems
<1>2. CASE Differ = {}
  BY <1>1, <1>2 DEF Verdict
<1>3. CASE Differ # {}
  <2>1. j \in Differ
    <3>1. Differ \in SUBSET Nat
      OBVIOUS
    <3> HIDE DEF Differ
    <3> QED
      BY <1>3, <3>1, NatLeast DEF First
  <2> HIDE DEF j
  <2>2. j \in 1..Len(s) /\ <<s[j], t[j]>> \in Pairs /\ g[<<s[j], t[j]>>] # "yes"
    BY <2>1 DEF Pairs
  <2> QED
    BY <1>1, <1>3, <2>2
<1> QED
  BY <1>2, <1>3

LEMMA ComparesItems ==
    ASSUME NEW c \in [Object -> Kempt], NEW k, NEW u, NEW w, Compares(c, k, u, w)
    PROVE  LET s == c[Chased(c, u).obj].items
               t == c[w.obj].items
           IN Len(s) \in Nat /\ \A i \in 1..Len(s) : s[i] \in Value /\ t[i] \in Value
<1> DEFINE o == Chased(c, u).obj
<1>1. o \in Object /\ w.obj \in Object /\ Len(c[o].items) = Len(c[w.obj].items)
  BY DEF Compares, Alive
<1> HIDE DEF o
<1>2. c[o] \in Kempt /\ c[w.obj] \in Kempt
  BY <1>1
<1>3. /\ Len(c[o].items) \in Nat /\ \A i \in 1..Len(c[o].items) : c[o].items[i] \in Valued
      /\ \A i \in 1..Len(c[w.obj].items) : c[w.obj].items[i] \in Valued
  BY <1>2, KemptParts
<1> QED
  BY <1>1, <1>3 DEF Valued, o

LEMMA LevelVerdict ==
    ASSUME NEW c \in [Object -> Kempt], NEW k, NEW u, NEW w, NEW g \in [Pairs -> Verdict]
    PROVE  Level(c, k, u, w, g) \in Verdict
<1>1. CASE Compares(c, k, u, w)
  BY <1>1, ComparesItems, OfItemsVerdict DEF Level
<1>2. CASE ~Compares(c, k, u, w)
  BY <1>2 DEF Level, Outright, Verdict
<1> QED
  BY <1>1, <1>2

\* Equal is what its equation says, level by level: h[k] is == with k levels of
\* nesting to go.
LEMMA EqualByLevels ==
    ASSUME NEW c \in [Object -> Kempt]
    PROVE  \E h \in [0..MaxHops -> [Pairs -> Verdict]] :
              /\ \A u, w \in Value : Equal(c, u, w) = h[MaxHops][<<u, w>>]
              /\ \A k \in 0..MaxHops, u, w \in Value :
                    h[k][<<u, w>>] = Level(c, k, u, w, h[k - 1])
<1> DEFINE D == (0..MaxHops) \X Value \X Value
<1> DEFINE Body(eq, k, u, w) ==
      LET p == Chased(c, u)
          SizeAndTag(o) == <<c[o].kind, Len(c[o].items)>>
          At(i) == eq[<<k - 1, c[p.obj].items[i], c[w.obj].items[i]>>]
          Differ == {i \in 1..Len(c[p.obj].items) : At(i) # "yes"}
      IN IF Dangles(c, u) THEN "undefined"
         ELSE IF p.tag # w.tag THEN "no"
         ELSE IF HasScalar(p) \/ p.tag = "flt64" THEN
            (IF p.n = w.n /\ p.m = w.m /\ ~IsNaN(p) THEN "yes" ELSE "no")
         ELSE IF NoObject \in {to_object_ptr(p), to_object_ptr(w)} THEN "no"
         ELSE IF k = 0 \/ ~Alive(c, p.obj) \/ ~Alive(c, w.obj)
            THEN "undefined"
         ELSE IF SizeAndTag(p.obj) # SizeAndTag(w.obj) THEN "no"
         ELSE IF Differ = {} THEN "yes"
         ELSE At(CHOOSE i \in Differ : \A j \in Differ : i <= j)
<1> DEFINE Is(eq) == eq = [a \in D |-> Body(eq, a[1], a[2], a[3])]
<1> DEFINE Under(eq, k) == [q \in Pairs |-> eq[<<k - 1, q[1], q[2]>>]]
<1>0. MaxHops \in Nat
  BY ValueAssumption
<1>1. \A u, w : Equal(c, u, w) = (CHOOSE eq : Is(eq))[<<MaxHops, u, w>>]
  BY DEF Equal
\* The equation, and Level.
<1>2. ASSUME NEW eq, NEW k \in 0..MaxHops, NEW u \in Value, NEW w \in Value
      PROVE  Body(eq, k, u, w) = Level(c, k, u, w, Under(eq, k))
  <2> DEFINE p == Chased(c, u)
  <2> DEFINE s == c[p.obj].items
  <2> DEFINE t == c[w.obj].items
  <2> DEFINE At(i) == eq[<<k - 1, s[i], t[i]>>]
  <2> DEFINE Differ == {i \in 1..Len(s) : At(i) # "yes"}
  <2> DEFINE j == First(Differ)
  <2>1. CASE ~Compares(c, k, u, w)
    BY <2>1 DEF Level, Compares, Outright
  <2>2. CASE Compares(c, k, u, w)
    <3>1. Body(eq, k, u, w) = IF Differ = {} THEN "yes" ELSE At(j)
      <4>1. /\ ~Dangles(c, u) /\ ~(p.tag # w.tag) /\ ~(HasScalar(p) \/ p.tag = "flt64")
            /\ ~(NoObject \in {to_object_ptr(p), to_object_ptr(w)})
            /\ ~(k = 0 \/ ~Alive(c, p.obj) \/ ~Alive(c, w.obj))
            /\ ~(<<c[p.obj].kind, Len(c[p.obj].items)>> #
                 <<c[w.obj].kind, Len(c[w.obj].items)>>)
        BY <2>2 DEF Compares
      <4> HIDE DEF p
      <4> QED
        BY <4>1 DEF First, p
    <3>2. Len(s) \in Nat /\ \A i \in 1..Len(s) : s[i] \in Value /\ t[i] \in Value
      BY <2>2, ComparesItems
    <3> DEFINE g == Under(eq, k)
    <3> HIDE DEF s, t
    <3>3. \A i \in 1..Len(s) : g[<<s[i], t[i]>>] = At(i)
      BY <3>2 DEF Pairs
    <3> HIDE DEF g, At
    <3>4. Differ = {i \in 1..Len(s) : g[<<s[i], t[i]>>] # "yes"}
      BY <3>3
    <3>5. Differ # {} => j \in Differ
      <4>1. Differ \in SUBSET Nat
        BY <3>2
      <4> HIDE DEF Differ
      <4> QED
        BY <4>1, NatLeast DEF First
    <3>6. Differ # {} => g[<<s[j], t[j]>>] = At(j)
      <4> HIDE DEF j
      <4> QED
        BY <3>3, <3>5
    <3>7. OfItems(s, t, g) = IF Differ = {} THEN "yes" ELSE g[<<s[j], t[j]>>]
      <4> DEFINE G == {i \in 1..Len(s) : g[<<s[i], t[i]>>] # "yes"}
      <4>1. OfItems(s, t, g) = IF G = {} THEN "yes" ELSE g[<<s[First(G)], t[First(G)]>>]
        BY DEF OfItems
      <4>2. G = Differ
        BY <3>4
      <4> HIDE DEF G, Differ
      <4> QED
        BY <4>1, <4>2
    <3>8. Body(eq, k, u, w) = OfItems(s, t, g)
      BY <3>1, <3>6, <3>7
    <3> QED
      BY <2>2, <3>8 DEF Level, s, t, g
  <2> QED
    BY <2>1, <2>2
<1> HIDE DEF Body
<1>3. \E eq : Is(eq)
  <2> DEFINE T == [Pairs -> Verdict]
  <2> DEFINE start == [q \in Pairs |-> Level(c, 0, q[1], q[2], [r \in Pairs |-> "no"])]
  <2> DEFINE F == [k \in 0..MaxHops |->
                     [g \in T |-> [q \in Pairs |-> Level(c, k, q[1], q[2], g)]]]
  <2>1. [r \in Pairs |-> "no"] \in T
    BY DEF Verdict
  <2>2. start \in T
    BY <2>1, LevelVerdict
  <2>3. F \in [0..MaxHops -> [T -> T]]
    BY LevelVerdict
  <2>4. \A k \in 0..MaxHops, g \in T, q \in Pairs : F[k][g][q] = Level(c, k, q[1], q[2], g)
    OBVIOUS
  <2>5. \A q \in Pairs : start[q] = Level(c, 0, q[1], q[2], [r \in Pairs |-> "no"])
    OBVIOUS
  <2> HIDE DEF T, start, F
  <2>6. PICK h : h \in [0..MaxHops -> T] /\ Steps(h, MaxHops, start, F)
    BY <1>0, <2>2, <2>3, Chain
  <2> DEFINE eq == [a \in D |-> h[a[1]][<<a[2], a[3]>>]]
  <2>7. ASSUME NEW k \in 0..MaxHops, NEW u \in Value, NEW w \in Value
        PROVE  eq[<<k, u, w>>] = Body(eq, k, u, w)
    <3>1. eq[<<k, u, w>>] = h[k][<<u, w>>] /\ <<u, w>> \in Pairs
      BY DEF Pairs
    <3>2. CASE k = 0
      <4>1. h[k] = start
        BY <2>6, <3>2 DEF Steps
      <4>2. ~Compares(c, k, u, w)
        BY <3>2 DEF Compares
      <4>3. h[k][<<u, w>>] = Level(c, k, u, w, [r \in Pairs |-> "no"])
        BY <2>5, <3>1, <3>2, <4>1
      <4>4. \A g : Level(c, k, u, w, g) = Outright(c, k, u, w)
        BY <4>2 DEF Level
      <4> HIDE DEF eq
      <4> QED
        BY <1>2, <3>1, <4>3, <4>4
    <3>3. CASE k # 0
      <4>1. k - 1 \in 0..MaxHops
        BY <1>0, <3>3
      <4>2. h[k] = F[k][h[k - 1]] /\ h[k - 1] \in T
        BY <2>6, <3>3, <4>1 DEF Steps
      <4>3. h[k][<<u, w>>] = Level(c, k, u, w, h[k - 1])
        BY <2>4, <3>1, <4>2
      <4>4. Under(eq, k) = h[k - 1]
        <5>1. \A q \in Pairs : eq[<<k - 1, q[1], q[2]>>] = h[k - 1][q]
          BY <4>1 DEF Pairs
        <5>2. h[k - 1] = [q \in Pairs |-> h[k - 1][q]]
          BY <4>2 DEF T
        <5> HIDE DEF eq
        <5> QED
          BY <5>1, <5>2
      <4> HIDE DEF eq
      <4> QED
        BY <1>2, <3>1, <4>3, <4>4
    <3> QED
      BY <3>2, <3>3
  <2>8. Is(eq)
    <3>1. ASSUME NEW a \in D PROVE eq[a] = Body(eq, a[1], a[2], a[3])
      <4>1. PICK k \in 0..MaxHops, u \in Value, w \in Value : a = <<k, u, w>>
        OBVIOUS
      <4> HIDE DEF eq
      <4> QED
        BY <2>7, <4>1
    <3>2. eq = [a \in D |-> eq[a]]
      OBVIOUS
    <3> HIDE DEF eq, D
    <3> QED
      BY <3>1, <3>2
  <2> HIDE DEF Is, eq
  <2> QED
    BY <2>8
<1> DEFINE eq == CHOOSE f : Is(f)
<1>4. Is(eq)
  BY <1>3
<1>5. \A u, w : Equal(c, u, w) = eq[<<MaxHops, u, w>>]
  BY <1>1
<1> HIDE DEF eq
<1>6. \A k \in 0..MaxHops, u, w \in Value : eq[<<k, u, w>>] = Body(eq, k, u, w)
  <2>1. ASSUME NEW k \in 0..MaxHops, NEW u \in Value, NEW w \in Value
        PROVE  eq[<<k, u, w>>] = Body(eq, k, u, w)
    <3>1. <<k, u, w>> \in D
      OBVIOUS
    <3> HIDE DEF D
    <3> QED
      BY <1>4, <3>1
  <2> QED
    BY <2>1
<1> HIDE DEF Is
<1> DEFINE T == [Pairs -> Verdict]
<1> DEFINE h == [k \in 0..MaxHops |-> [q \in Pairs |-> eq[<<k, q[1], q[2]>>]]]
<1>7. ASSUME NEW k \in 0..MaxHops, NEW u \in Value, NEW w \in Value
      PROVE  h[k][<<u, w>>] = Level(c, k, u, w, h[k - 1])
  <2>1. h[k][<<u, w>>] = Level(c, k, u, w, Under(eq, k))
    <3>1. h[k][<<u, w>>] = eq[<<k, u, w>>]
      BY DEF Pairs
    <3> HIDE DEF h
    <3> QED
      BY <1>2, <1>6, <3>1
  <2>2. CASE k = 0
    BY <2>1, <2>2 DEF Level, Compares
  <2>3. CASE k # 0
    <3>1. k - 1 \in 0..MaxHops
      BY <1>0, <2>3
    <3>2. Under(eq, k) = h[k - 1]
      BY <3>1
    <3> QED
      BY <2>1, <3>2
  <2> QED
    BY <2>2, <2>3
<1>8. \A k \in 0..MaxHops : h[k] = [q \in Pairs |-> h[k][q]]
  OBVIOUS
<1> HIDE DEF h
<1>9. ASSUME NEW k \in 0..MaxHops, k = 0 \/ h[k - 1] \in T PROVE h[k] \in T
  <2>1. ASSUME NEW q \in Pairs PROVE h[k][q] \in Verdict
    <3>1. PICK u \in Value, w \in Value : q = <<u, w>>
      BY DEF Pairs
    <3>2. CASE k = 0
      <4>1. h[k][q] = Outright(c, k, u, w)
        BY <1>7, <3>1, <3>2 DEF Level, Compares
      <4> QED
        BY <4>1 DEF Outright, Verdict
    <3>3. CASE h[k - 1] \in T
      BY <1>7, <3>1, <3>3, LevelVerdict
    <3> QED
      BY <1>9, <3>2, <3>3
  <2> QED
    BY <1>8, <2>1
<1>10. h[0] \in T /\ \A k \in 1..MaxHops : h[k - 1] \in T => h[k] \in T
  BY <1>0, <1>9
<1> HIDE DEF T
<1>11. \A k \in 0..MaxHops : h[k] \in T
  BY <1>0, <1>10, ChainIn
<1>12. h \in [0..MaxHops -> T]
  BY <1>11 DEF h
<1>13. \A u, w \in Value : Equal(c, u, w) = h[MaxHops][<<u, w>>]
  BY <1>0, <1>5 DEF h, Pairs
<1> QED
  BY <1>7, <1>12, <1>13 DEF T

\* Two values that are no references, and are numbers, are compared at once.
LEMMA NumbersEqual ==
    ASSUME NEW c \in [Object -> Kempt], NEW x \in Value, NEW y \in Value,
           x.tag \in {"boolean", "chr8", "int32", "flt64"}
    PROVE  Equal(c, x, y) = IF x.tag = y.tag /\ x.n = y.n /\ x.m = y.m /\ ~IsNaN(x)
                            THEN "yes" ELSE "no"
<1>0. MaxHops \in 0..MaxHops
  BY ValueAssumption
<1>1. PICK h : Equal(c, x, y) = Level(c, MaxHops, x, y, h)
  <2>1. PICK h \in [0..MaxHops -> [Pairs -> Verdict]] :
          /\ \A u, w \in Value : Equal(c, u, w) = h[MaxHops][<<u, w>>]
          /\ \A k \in 0..MaxHops, u, w \in Value :
                h[k][<<u, w>>] = Level(c, k, u, w, h[k - 1])
    BY EqualByLevels
  <2> QED
    BY <1>0, <2>1
<1>2. Chased(c, x) = x /\ ~Dangles(c, x) /\ (HasScalar(x) \/ x.tag = "flt64")
  BY DEF Chased, Dangles, HasScalar
<1>3. ~Compares(c, MaxHops, x, y)
  BY <1>2 DEF Compares
<1> QED
  BY <1>1, <1>2, <1>3 DEF Level, Outright

LEMMA TagsDiffer ==
    ASSUME NEW c \in [Object -> Kempt], NEW x \in Value, NEW y \in Value,
           x.tag # "val_ref", x.tag # y.tag
    PROVE  Equal(c, x, y) = "no"
<1>0. MaxHops \in 0..MaxHops
  BY ValueAssumption
<1>1. PICK h : Equal(c, x, y) = Level(c, MaxHops, x, y, h)
  <2>1. PICK h \in [0..MaxHops -> [Pairs -> Verdict]] :
          /\ \A u, w \in Value : Equal(c, u, w) = h[MaxHops][<<u, w>>]
          /\ \A k \in 0..MaxHops, u, w \in Value :
                h[k][<<u, w>>] = Level(c, k, u, w, h[k - 1])
    BY EqualByLevels
  <2> QED
    BY <1>0, <2>1
<1>2. Chased(c, x) = x /\ ~Dangles(c, x)
  BY DEF Chased, Dangles
<1>3. ~Compares(c, MaxHops, x, y)
  BY <1>2 DEF Compares
<1> QED
  BY <1>1, <1>2, <1>3 DEF Level, Outright

\* x and y are finite, or one of them is an infinity: the sides of a comparison are
\* the same when they are one number.
LEMMA SidesAgree ==
    ASSUME NEW x \in Number, NEW y \in Number, x.tag = y.tag, ~IsNaN(x), ~IsNaN(y)
    PROVE  /\ Side(x, y) \in Int /\ Side(y, x) \in Int
           /\ Side(x, y) = Side(y, x) <=> x.n = y.n /\ x.m = y.m
<1>1. /\ x.n \in Int /\ x.m \in Int /\ y.n \in Int /\ y.m \in Int
      /\ x.tag = "flt64" => x.m >= 0 /\ y.m >= 0
  BY DEF Number, Valued, Value, Sensible
<1>2. x.n * y.m \in Int /\ y.n * x.m \in Int
  BY <1>1
<1>3. CASE x.tag # "flt64"
  <2>1. x.m = 1 /\ y.m = 1
    BY <1>3 DEF Number
  <2>2. Side(x, y) = x.n /\ Side(y, x) = y.n
    BY <1>1, <2>1 DEF Side
  <2> QED
    BY <1>1, <2>1, <2>2
<1>4. CASE x.tag = "flt64" /\ x.m # 0 /\ y.m # 0
  <2>1. x.m \in Nat \ {0} /\ y.m \in Nat \ {0}
    BY <1>1, <1>4
  <2>2. Coprime(x.n, x.m) /\ Coprime(y.n, y.m)
    BY <1>4, Zenon DEF Number
  <2>3. x.n * y.m = y.n * x.m <=> x.n = y.n /\ x.m = y.m
    BY <1>1, <2>1, <2>2, LowestIsEqual
  <2> QED
    BY <1>2, <1>4, <2>3 DEF Side
<1>5. CASE x.tag = "flt64" /\ x.m = 0 /\ y.m = 0
  BY <1>1, <1>5 DEF Side
\* One infinity: its side is no 0, and the other's is.
<1>6. ASSUME x.tag = "flt64", NEW u \in {x, y}, NEW v \in {x, y}, u.m = 0, v.m # 0
      PROVE  u.n * v.m # v.n * u.m
  <2>1. u.n # 0
    BY <1>6 DEF IsNaN
  <2>2. u.n \in Int /\ v.n \in Int /\ v.m \in Int
    BY <1>1
  <2>3. u.n * v.m # 0
    BY <1>6, <2>1, <2>2
  <2> QED
    BY <1>6, <2>2, <2>3
<1>7. CASE x.tag = "flt64" /\ (x.m = 0) # (y.m = 0)
  <2>1. x.n * y.m # y.n * x.m
    BY <1>6, <1>7
  <2>2. Side(x, y) = x.n * y.m /\ Side(y, x) = y.n * x.m /\ x.m # y.m
    BY <1>7 DEF Side
  <2> QED
    BY <1>2, <2>1, <2>2
<1> QED
  BY <1>3, <1>4, <1>5, <1>7

LEMMA OrderedNumbers == ValuesInv => NumbersAreOrdered
<1> SUFFICES ASSUME ValuesInv PROVE NumbersAreOrdered
  OBVIOUS
<1> DEFINE Is(op) == Ordered(op, acc, operand)
<1> DEFINE Same == Equal(contents, acc, operand) = "yes"
<1> DEFINE IsNumber(v) == v.tag \in {"chr8", "int32", "flt64"} /\ ~IsNaN(v)
<1> DEFINE Holding == {r \in {"lt", "equ", "gt"} : IF r = "equ" THEN Same ELSE Is(r)}
<1> DEFINE a == Side(acc, operand)
<1> DEFINE b == Side(operand, acc)
<1>0. acc \in Number /\ operand \in Number /\ acc \in Value /\ operand \in Value
  BY DEF ValuesInv, Number, Valued
<1>1. CASE acc.tag = operand.tag /\ IsNumber(acc) /\ IsNumber(operand)
  <2>1. Same <=> acc.n = operand.n /\ acc.m = operand.m
    BY <1>0, <1>1, NumbersEqual DEF ValuesInv
  <2>2. (Is("lt") <=> a < b) /\ (Is("gt") <=> a > b)
    BY <1>1 DEF Ordered
  <2>3. (Is("lte") <=> a <= b) /\ (Is("gte") <=> a >= b)
    BY <1>1 DEF Ordered
  <2>4. a \in Int /\ b \in Int /\ (Same <=> a = b)
    BY <1>0, <1>1, <2>1, SidesAgree
  <2> HIDE DEF Is, Same, a, b
  <2>5. \E r : Holding = {r}
    <3>1. CASE a < b
      <4>1. Holding = {"lt"}
        BY <2>2, <2>4, <3>1
      <4> QED
        BY <4>1
    <3>2. CASE a = b
      <4>1. Holding = {"equ"}
        BY <2>2, <2>4, <3>2
      <4> QED
        BY <4>1
    <3>3. CASE a > b
      <4>1. Holding = {"gt"}
        BY <2>2, <2>4, <3>3
      <4> QED
        BY <4>1
    <3>4. a < b \/ a = b \/ a > b
      BY <2>4
    <3> HIDE DEF Holding
    <3> QED
      BY <3>1, <3>2, <3>3, <3>4
  <2>6. Cardinality(Holding) = 1
    <3> HIDE DEF Holding
    <3> QED
      BY <2>5, FS_Singleton
  <2>7. (Is("lte") <=> Is("lt") \/ Same) /\ (Is("gte") <=> Is("gt") \/ Same)
    BY <2>2, <2>3, <2>4
  <2>8. Is("lte") \in BOOLEAN /\ Is("gte") \in BOOLEAN /\ (Is("lt") \/ Same) \in BOOLEAN
        /\ (Is("gt") \/ Same) \in BOOLEAN
    BY <1>1 DEF Is, Ordered
  <2>9. Is("lte") = (Is("lt") \/ Same) /\ Is("gte") = (Is("gt") \/ Same)
    BY <2>7, <2>8
  <2> QED
    BY <1>1, <2>6, <2>9, Zenon DEF NumbersAreOrdered, Is, Same
<1>2. CASE ~(acc.tag = operand.tag /\ IsNumber(acc) /\ IsNumber(operand))
  <2>1. ~\E op \in {"lt", "gt", "lte", "gte"} : Is(op)
    BY <1>2 DEF Ordered
  <2>2. IsNaN(acc) \/ IsNaN(operand) => ~Same
    <3>1. ASSUME IsNaN(acc) PROVE ~Same
      <4>1. acc.tag = "flt64"
        BY <3>1 DEF IsNaN
      <4> QED
        BY <1>0, <3>1, <4>1, NumbersEqual DEF ValuesInv
    <3>2. ASSUME IsNaN(operand), ~IsNaN(acc) PROVE ~Same
      <4>1. operand.tag = "flt64" /\ operand.n = 0 /\ operand.m = 0
        BY <3>2 DEF IsNaN
      <4>2. ~(acc.tag = operand.tag /\ acc.n = operand.n /\ acc.m = operand.m)
        BY <3>2, <4>1 DEF IsNaN
      <4>3. CASE acc.tag \in {"boolean", "chr8", "int32", "flt64"}
        BY <1>0, <4>2, <4>3, NumbersEqual DEF ValuesInv
      <4>4. CASE acc.tag \notin {"boolean", "chr8", "int32", "flt64"}
        <5>1. acc.tag # operand.tag /\ acc.tag \notin {"val_ref", "string", "sequence"}
          BY <1>0, <4>1, <4>4 DEF Number
        <5> QED
          BY <1>0, <5>1, TagsDiffer DEF ValuesInv
      <4> QED
        BY <4>3, <4>4
    <3> QED
      BY <3>1, <3>2
  <2> QED
    BY <1>2, <2>1, <2>2 DEF NumbersAreOrdered
<1> QED
  BY <1>1, <1>2

\* Whatever values the operators make, doubles that overflow or are no number
\* included, the six comparisons agree: of two numbers exactly one of <, == and > holds,
\* and <= and >= are what these make them, because a double in lowest terms is equal to
\* another only if their parts are; and NaN is in none of them
\* (fast_value.cpp:384-470).
THEOREM NumbersOrdered == Spec => []NumbersAreOrdered
BY ValuesKept, OrderedNumbers, PTL

LEMMA ListsEqual == ValuesInv => EqualityIsByItems
<1> SUFFICES ASSUME ValuesInv PROVE EqualityIsByItems
  OBVIOUS
<1> DEFINE s == contents[list].items
<1> DEFINE t == contents[other].items
<1> DEFINE holdsNaN == \E i \in DOMAIN s : IsNaN(s[i])
<1> DEFINE L == Pointer(list, "sequence")
<1> DEFINE O == Pointer(other, "sequence")
<1>0. /\ list \in Object /\ other \in Object /\ contents \in [Object -> Kempt]
      /\ NoObject # list /\ NoObject # other /\ MaxHops \in 0..MaxHops /\ MaxHops # 0
      /\ MaxHops - 1 \in 0..MaxHops
  BY ValueAssumption, ValuesAssumption DEF MCObject, ValuesInv
<1>1. /\ Len(s) \in Nat /\ s \in Seq(Items) /\ \A i \in 1..Len(s) : s[i] \in Items
      /\ Len(t) \in Nat /\ t \in Seq(Scalars) /\ \A i \in 1..Len(t) : t[i] \in Scalars
      /\ DOMAIN s = 1..Len(s) /\ DOMAIN t = 1..Len(t)
  BY LenProperties, ElementOfSeq DEF ValuesInv
<1>2. L \in Value /\ O \in Value
  BY <1>0, PointerValued DEF Valued
<1>3. PICK h \in [0..MaxHops -> [Pairs -> Verdict]] :
        /\ \A u, w \in Value : Equal(contents, u, w) = h[MaxHops][<<u, w>>]
        /\ \A k \in 0..MaxHops, u, w \in Value :
              h[k][<<u, w>>] = Level(contents, k, u, w, h[k - 1])
  BY <1>0, EqualByLevels
<1> DEFINE g == h[MaxHops - 1]
<1>4. g \in [Pairs -> Verdict]
  BY <1>0
<1>5. /\ Equal(contents, L, O) = Level(contents, MaxHops, L, O, g)
      /\ Equal(contents, O, L) = Level(contents, MaxHops, O, L, g)
  BY <1>0, <1>2, <1>3
\* One level down, a scalar is equal to itself and to nothing else.
<1>6. ASSUME NEW x \in Items, NEW y \in Items, x \in Scalars \/ y \in Scalars
      PROVE  g[<<x, y>>] = IF x = y /\ ~IsNaN(x) THEN "yes" ELSE "no"
  <2> DEFINE k == MaxHops - 1
  <2>1. x \in Value /\ y \in Value /\ x.tag # "val_ref"
    BY ItemsAre DEF Valued
  <2>2. g[<<x, y>>] = Level(contents, k, x, y, h[k - 1])
    BY <1>0, <1>3, <2>1
  <2>3. Chased(contents, x) = x /\ ~Dangles(contents, x)
    BY <2>1 DEF Chased, Dangles
  <2>4. x.tag = y.tag => HasScalar(x) \/ x.tag = "flt64"
    <3>1. \A v \in Scalars : HasScalar(v) \/ v.tag = "flt64"
      BY DEF Scalars, HasScalar, Int32, Scalar, Flt64, NaN
    <3> QED
      BY <1>6, <3>1 DEF HasScalar
  <2>5. x.tag = y.tag /\ x.n = y.n /\ x.m = y.m => x = y
    <3>1. /\ Int32(1).tag = "int32" /\ Pointer(other, "sequence").tag = "sequence"
          /\ Flt64(1, 1).tag = "flt64" /\ NaN.tag = "flt64"
          /\ Flt64(1, 1).obj = NoObject /\ NaN.obj = NoObject
      BY DEF Int32, Scalar, Flt64, Pointer, NaN
    <3>2. /\ Flt64(1, 1) = [tag |-> "flt64", n |-> Flt64(1, 1).n, m |-> Flt64(1, 1).m, obj |-> NoObject]
          /\ NaN = [tag |-> "flt64", n |-> NaN.n, m |-> NaN.m, obj |-> NoObject]
      BY DEF Flt64, NaN
    <3> QED
      BY <3>1, <3>2 DEF Items
  <2>6. ~Compares(contents, k, x, y)
    BY <2>3, <2>4 DEF Compares
  <2>7. Level(contents, k, x, y, h[k - 1]) = Outright(contents, k, x, y)
    BY <2>6 DEF Level
  <2> HIDE DEF k, g
  <2> QED
    BY <2>2, <2>3, <2>4, <2>5, <2>7 DEF Outright
\* The lists themselves.
<1>7. /\ L.tag = "sequence" /\ O.tag = "sequence" /\ L.obj = list /\ O.obj = other
      /\ to_object_ptr(L) = list /\ to_object_ptr(O) = other
      /\ Alive(contents, list) /\ Alive(contents, other)
      /\ contents[list].kind = contents[other].kind
  BY <1>0 DEF Pointer, to_object_ptr, Alive, ValuesInv
<1>8. /\ Chased(contents, L) = L /\ ~Dangles(contents, L)
      /\ Chased(contents, O) = O /\ ~Dangles(contents, O)
  BY <1>7 DEF Chased, Dangles
<1>9. /\ Compares(contents, MaxHops, L, O) <=> Len(s) = Len(t)
      /\ Compares(contents, MaxHops, O, L) <=> Len(s) = Len(t)
  <2> HIDE DEF L, O
  <2> QED
    BY <1>0, <1>7, <1>8 DEF Compares, HasScalar
<1>10. ASSUME Len(s) # Len(t)
       PROVE  Equal(contents, L, O) = "no" /\ Equal(contents, O, L) = "no"
  <2> HIDE DEF L, O, g
  <2> QED
    BY <1>0, <1>5, <1>7, <1>8, <1>9, <1>10 DEF Level, Outright, HasScalar
<1>11. ASSUME Len(s) = Len(t)
       PROVE  /\ Equal(contents, L, O) = IF s = t /\ ~holdsNaN THEN "yes" ELSE "no"
              /\ Equal(contents, O, L) = IF s = t /\ ~holdsNaN THEN "yes" ELSE "no"
  <2>1. /\ Equal(contents, L, O) = OfItems(s, t, g)
        /\ Equal(contents, O, L) = OfItems(t, s, g)
    <3> HIDE DEF L, O, g
    <3> QED
      BY <1>5, <1>7, <1>8, <1>9, <1>11 DEF Level
  <2> HIDE DEF s, t, g, L, O
  <2>2. \A i \in 1..Len(s) :
           /\ s[i] \in Value /\ t[i] \in Value
           /\ g[<<s[i], t[i]>>] = IF s[i] = t[i] /\ ~IsNaN(s[i]) THEN "yes" ELSE "no"
           /\ g[<<t[i], s[i]>>] = IF s[i] = t[i] /\ ~IsNaN(s[i]) THEN "yes" ELSE "no"
    BY <1>1, <1>6, <1>11, ItemsAre DEF Valued
  <2>3. s = t <=> \A i \in 1..Len(s) : s[i] = t[i]
    BY <1>1, <1>11
  <2>4. /\ OfItems(s, t, g) = "yes" <=> \A i \in 1..Len(s) : g[<<s[i], t[i]>>] = "yes"
        /\ OfItems(s, t, g) # "yes" =>
              \E i \in 1..Len(s) : OfItems(s, t, g) = g[<<s[i], t[i]>>]
    BY <1>1, <1>4, <2>2, OfItemsVerdict
  <2>5. /\ OfItems(t, s, g) = "yes" <=> \A i \in 1..Len(t) : g[<<t[i], s[i]>>] = "yes"
        /\ OfItems(t, s, g) # "yes" =>
              \E i \in 1..Len(t) : OfItems(t, s, g) = g[<<t[i], s[i]>>]
    <3>1. \A i \in 1..Len(t) : t[i] \in Value /\ s[i] \in Value
      BY <1>11, <2>2
    <3> QED
      BY <1>1, <1>4, <3>1, OfItemsVerdict
  <2>6. OfItems(s, t, g) = IF s = t /\ ~holdsNaN THEN "yes" ELSE "no"
    BY <1>1, <2>2, <2>3, <2>4
  <2>7. OfItems(t, s, g) = IF s = t /\ ~holdsNaN THEN "yes" ELSE "no"
    BY <1>1, <1>11, <2>2, <2>3, <2>5
  <2> QED
    BY <2>1, <2>6, <2>7
<1>12. Tree(list) = Tree(other) <=> s = t
  <2> DEFINE Node(v) == IF v.tag = "sequence" THEN <<"sequence", contents[v.obj].items>>
                        ELSE <<v.tag, v>>
  <2>1. /\ Tree(list) = [i \in DOMAIN s |-> Node(s[i])]
        /\ Tree(other) = [i \in DOMAIN t |-> Node(t[i])]
    BY DEF Tree
  <2>2. \A x \in Items, y \in Scalars : Node(x) = Node(y) => x = y
    BY ItemsAre
  <2> HIDE DEF Node
  <2>3. s = t => Tree(list) = Tree(other)
    BY <2>1
  <2>4. ASSUME Tree(list) = Tree(other) PROVE s = t
    <3>1. DOMAIN s = DOMAIN t
      BY <2>1, <2>4
    <3>2. Len(s) = Len(t)
      BY <1>1, <3>1
    <3>3. ASSUME NEW i \in 1..Len(s) PROVE s[i] = t[i]
      <4>1. Tree(list)[i] = Node(s[i]) /\ Tree(other)[i] = Node(t[i])
        BY <1>1, <2>1, <3>2
      <4> QED
        BY <1>1, <2>2, <2>4, <3>2, <4>1
    <3> QED
      BY <1>1, <3>2, <3>3
  <2> QED
    BY <2>3, <2>4
<1> HIDE DEF s, t
<1>13. s = t => Len(s) = Len(t)
  OBVIOUS
<1> QED
  BY <1>10, <1>11, <1>12, <1>13 DEF EqualityIsByItems, s

\* Two lists are equal exactly when their items are, and so never when one holds a
\* NaN, from either side, after any pushes, pops and freezes, one a tuple and the other
\* not included (sequence_value.cpp's operator==, fast_value.cpp:352).
THEOREM EqualByItems == Spec => []EqualityIsByItems
BY ValuesKept, ListsEqual, PTL
=============================================================================
