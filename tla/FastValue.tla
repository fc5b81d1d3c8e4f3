------------------------------ MODULE FastValue ------------------------------
(***************************************************************************)
(* The tagged value of src/src/runtime/fast_value.{hpp,cpp} and the two    *)
(* heap objects it points to, SequenceValue and StringValue.  Pure         *)
(* operators: the contents of the heap objects are an argument, a function *)
(* from addresses to records                                               *)
(*     [kind, items, frozen, room, gen]                                    *)
(* where room is the capacity of the vector of items and gen counts the    *)
(* buffers that vector has had: an item's address is only as good as its   *)
(* buffer.                                                                 *)
(***************************************************************************)
EXTENDS Addresses, Integers, Sequences

CONSTANTS
    IntBits,       \* the width of int; 32 in the code
    MaxHops,       \* bound: references followed, lists nested in lists
    MaxDouble      \* the greatest finite double, about 1.8e308 in the code

ASSUME ValueAssumption ==
    /\ IntBits \in Nat /\ IntBits >= 2
    /\ MaxHops \in Nat \ {0} /\ MaxDouble \in Nat \ {0}
    /\ NoObject \notin Object

Tags == {"dud", "boolean", "chr8", "int32", "flt64", "val_ref", "string", "sequence"}

\* n: the scalar, the numerator of a double, or the index of the item a val_ref
\* points to.  m: the denominator, or the item's buffer.
Value == [tag : Tags, n : Int, m : Int, obj : Object \cup {NoObject}]

Dud == [tag |-> "dud", n |-> 0, m |-> 1, obj |-> NoObject]
Scalar(tag, k) == [tag |-> tag, n |-> k, m |-> 1, obj |-> NoObject]
Boolean(b) == Scalar("boolean", IF b THEN 1 ELSE 0)
Int32(k) == Scalar("int32", k)
Chr8(c) == Scalar("chr8", c)
Pointer(o, tag) == [tag |-> tag, n |-> 0, m |-> 1, obj |-> o]

Character == [tag : {"chr8"}, n : Int, m : {1}, obj : {NoObject}]

\* A fraction, an infinity (1/0 and -1/0), or NaN (0/0).
Double ==
    {v \in [tag : {"flt64"}, n : Int, m : Nat, obj : {NoObject}] : v.m = 0 => v.n \in -1..1}

IsNaN(v) == v.tag = "flt64" /\ v.n = 0 /\ v.m = 0

\* What a program's text can spell: no reference, no object, no infinity and no NaN.
Spelled(v) ==
    /\ v \in Value
    /\ v.tag \notin {"val_ref", "string", "sequence"}
    /\ v.tag = "flt64" => v \in Double /\ v.m # 0

Magnitude(k) == IF k < 0 THEN -k ELSE k
Sign(k) == IF k < 0 THEN -1 ELSE IF k = 0 THEN 0 ELSE 1

\* The double nearest to num/den: in lowest terms, or an infinity when it is too large
\* or den is 0.  Rounding is left out, and with it the sign of a zero.
Flt64(num, den) ==
    LET sign == IF den < 0 THEN -1 ELSE 1
        common == {d \in 1..Magnitude(den) : num % d = 0 /\ den % d = 0}
        gcd == CHOOSE d \in common : \A e \in common : e <= d
        finite == den # 0 /\ Magnitude(num) <= MaxDouble * Magnitude(den)
    IN [tag |-> "flt64", n |-> sign * (IF finite THEN num \div gcd ELSE Sign(num)),
        m |-> IF finite THEN Magnitude(den) \div gcd ELSE 0, obj |-> NoObject]

\* to_object_ptr: a val_ref to an item that holds an object is null.
to_object_ptr(v) == IF v.tag \in {"string", "sequence"} THEN v.obj ELSE NoObject

HasScalar(v) == v.tag \in {"boolean", "chr8", "int32"}

to_scalar(v) ==
    CASE v.tag = "boolean" -> v.n % 2
      [] v.tag = "chr8" -> v.n % 128
      [] v.tag = "int32" -> v.n

ScalarOr0(v) == IF HasScalar(v) THEN to_scalar(v) ELSE 0

\* operator bool: a val_ref is false, whatever it refers to, and NaN is true.
Truthy(v) == v.tag \in {"boolean", "chr8", "int32", "flt64"} /\ (v.n # 0 \/ IsNaN(v))

-----------------------------------------------------------------------------
(* Arithmetic on values that are no references *)

\* Signed overflow wraps in the builds of this code (it is undefined in C++).
Wrap(k) == ((k + 2^(IntBits - 1)) % 2^IntBits) - 2^(IntBits - 1)

\* Mutant of TruncDiv: rounded down, as \div does.
FloorDiv(a, b) == (IF b < 0 THEN -a ELSE a) \div Magnitude(b)

\* / on int rounds towards zero, % takes its sign from the left operand.
TruncDiv(a, b) ==
    LET q == Magnitude(a) \div Magnitude(b)
    IN IF (a < 0) # (b < 0) THEN -q ELSE q

TruncMod(a, b) == a - b * TruncDiv(a, b)

\* The one quotient the processor refuses to compute.
Traps(op, x, y) ==
    /\ op \in {"div", "mod"}
    /\ x.tag = "int32" /\ y.tag = "int32"
    /\ x.n = -(2^(IntBits - 1)) /\ y.n = -1

IntArith(op, a, b) ==
    CASE op = "mul" -> Wrap(a * b)
      [] op = "add" -> Wrap(a + b)
      [] op = "sub" -> Wrap(a - b)
      [] op = "div" -> TruncDiv(a, b)
      [] op = "mod" -> TruncMod(a, b)

\* Infinities of two signs, and NaN with anything, add up to NaN.
FltSum(x, y) ==
    IF x.m = 0 /\ y.m = 0 THEN Flt64(IF x.n = y.n THEN x.n ELSE 0, 0)
    ELSE Flt64(x.n * y.m + y.n * x.m, x.m * y.m)

FltArith(op, x, y) ==
    CASE op = "mul" -> Flt64(x.n * y.n, x.m * y.m)
      [] op = "add" -> FltSum(x, y)
      [] op = "sub" -> FltSum(x, [y EXCEPT !.n = -@])
      [] op = "div" -> Flt64(Sign(y.n) * x.n * y.m, x.m * Magnitude(y.n))

\* operator*, /, %, +, - and the assigning ones with a caller: a dud on values of different
\* tags, on tags without arithmetic, and on a zero divisor.
Arith(op, x, y) ==
    IF x.tag # y.tag \/ (op \in {"div", "mod"} /\ ~Truthy(y)) THEN Dud
    ELSE CASE x.tag = "int32" -> Int32(IntArith(op, x.n, y.n))
           [] x.tag = "flt64" /\ op # "mod" -> FltArith(op, x, y)
           [] OTHER -> Dud

\* x's side of a comparison with y, over a common denominator if there is one.
Side(x, y) == IF x.m = 0 /\ y.m = 0 THEN x.n ELSE x.n * y.m

Less(x, y) == ~IsNaN(x) /\ ~IsNaN(y) /\ Side(x, y) < Side(y, x)

\* Mutant of Ordered: <= is the negation of >, >= that of <.
OrderedByNegation(op, x, y) ==
    /\ x.tag = y.tag
    /\ x.tag \in {"chr8", "int32", "flt64"}
    /\ CASE op = "lt" -> Less(x, y)
         [] op = "gt" -> Less(y, x)
         [] op = "lte" -> ~Less(y, x)
         [] op = "gte" -> ~Less(x, y)

\* operator<, >, <=, >= on values that are no references.  NaN is in none of them.
Ordered(op, x, y) ==
    /\ x.tag = y.tag
    /\ x.tag \in {"chr8", "int32", "flt64"}
    /\ ~IsNaN(x) /\ ~IsNaN(y)
    /\ CASE op = "lt" -> Side(x, y) < Side(y, x)
         [] op = "gt" -> Side(x, y) > Side(y, x)
         [] op = "lte" -> Side(x, y) <= Side(y, x)
         [] op = "gte" -> Side(x, y) >= Side(y, x)

-----------------------------------------------------------------------------
(* References *)

Alive(contents, o) == o \in Object /\ contents[o].kind # "none"

\* The item's slot still exists, in the buffer it was in.
Sound(contents, v) ==
    /\ Alive(contents, v.obj)
    /\ v.m = contents[v.obj].gen
    /\ v.n < Len(contents[v.obj].items)

\* The reference at the end of a chain of val_refs: its slot holds no val_ref.
\* (A dangling reference ends the chain early.)
LastRef(contents, v) ==
    LET Hop(r) == LET item == contents[r.obj].items[r.n + 1]
                  IN IF item.tag = "val_ref" THEN item ELSE r
        Follow(r) == IF Sound(contents, r) THEN Hop(r) ELSE r
        hop[k \in 0..MaxHops] == IF k = 0 THEN v ELSE Follow(hop[k - 1])
    IN hop[MaxHops]

\* Following v meets a dangling pointer, or goes round in a circle.
Dangles(contents, v) ==
    /\ v.tag = "val_ref"
    /\ LET last == LastRef(contents, v)
       IN \/ ~Sound(contents, last)
          \/ contents[last.obj].items[last.n + 1].tag = "val_ref"

\* The value that m_data.fv_p->operator...() works on in the end.
Chased(contents, v) ==
    IF v.tag # "val_ref" THEN v
    ELSE LET last == LastRef(contents, v) IN contents[last.obj].items[last.n + 1]

-----------------------------------------------------------------------------
(* Equality: "yes", "no", or "undefined" when it reads a freed object or    *)
(* recurses without end.  The left operand's references are followed, the   *)
(* right one's are not; != is its negation.                                 *)

\* Mutant of Equal: the items of objects are not compared.
EqualSizes(contents, x, y) ==
    IF x.tag # y.tag THEN "no"
    ELSE IF to_object_ptr(x) = NoObject THEN (IF x = y THEN "yes" ELSE "no")
    ELSE IF Len(contents[x.obj].items) = Len(contents[y.obj].items) THEN "yes" ELSE "no"

Equal(contents, x, y) ==
    LET eq[a \in (0..MaxHops) \X Value \X Value] ==
          LET u == a[2]
              w == a[3]
              p == Chased(contents, u)
              SizeAndTag(o) == <<contents[o].kind, Len(contents[o].items)>>
              At(i) == eq[<<a[1] - 1, contents[p.obj].items[i], contents[w.obj].items[i]>>]
              Differ == {i \in 1..Len(contents[p.obj].items) : At(i) # "yes"}
          IN IF Dangles(contents, u) THEN "undefined"
             ELSE IF p.tag # w.tag THEN "no"
             ELSE IF HasScalar(p) \/ p.tag = "flt64" THEN
                (IF p.n = w.n /\ p.m = w.m /\ ~IsNaN(p) THEN "yes" ELSE "no")
             ELSE IF NoObject \in {to_object_ptr(p), to_object_ptr(w)} THEN "no"
             ELSE IF a[1] = 0 \/ ~Alive(contents, p.obj) \/ ~Alive(contents, w.obj)
                THEN "undefined"
             ELSE IF SizeAndTag(p.obj) # SizeAndTag(w.obj) THEN "no"
             ELSE IF Differ = {} THEN "yes"
             ELSE At(CHOOSE i \in Differ : \A j \in Differ : i <= j)
    IN eq[<<MaxHops, x, y>>]

\* to_string() reads everything a value leads to: a freed object or an endless
\* nesting is undefined.
Printable(contents, v) ==
    LET ok[a \in (0..MaxHops) \X Value] ==
          LET u == a[2]
              p == Chased(contents, u)
          IN /\ ~Dangles(contents, u)
             /\ to_object_ptr(p) # NoObject =>
                   /\ a[1] > 0 /\ Alive(contents, p.obj)
                   /\ \A i \in DOMAIN contents[p.obj].items :
                         ok[<<a[1] - 1, contents[p.obj].items[i]>>]
    IN ok[<<MaxHops, v>>]

-----------------------------------------------------------------------------
(* The heap objects *)

\* A vector that grew to n items by pushing doubles its room when full.
RoomFor(n) == IF n = 0 THEN 0
              ELSE 2^(CHOOSE e \in 0..n : 2^e >= n /\ \A d \in 0..n : 2^d >= n => e <= d)

\* A new object at an address: no old reference into its items is good.
NewObject(old, kind, items) ==
    [kind |-> kind, items |-> items, frozen |-> FALSE,
     room |-> RoomFor(Len(items)), gen |-> old.gen + 1]

Destroyed(old) == [old EXCEPT !.kind = "none", !.items = <<>>, !.gen = @ + 1]

\* Mutant of Grown: the room is not doubled.
Unchecked(object) == object

\* A full vector takes a buffer of twice the room before it takes an item.
Grown(object) ==
    IF Len(object.items) < object.room THEN object
    ELSE [object EXCEPT !.room = IF @ = 0 THEN 1 ELSE 2 * @, !.gen = @ + 1]

\* Mutant of push_value: the item goes to the front.
push_front(object, arg) == [Grown(object) EXCEPT !.items = <<arg>> \o @]

\* A string keeps the low 7 bits of a scalar, and 0 of anything else.
Kept(object, arg) == IF object.kind = "string" THEN Chr8(ScalarOr0(arg) % 128) ELSE arg

\* push_value does not look at m_frozen.
push_value(object, arg) ==
    [Grown(object) EXCEPT !.items = Append(@, Kept(object, arg))]

\* One push after the other: the room is doubled as often as it has to be.
push_all(object, args) ==
    LET size == Len(object.items) + Len(args)
        Room(k) == IF object.room > 0 \/ k = 0 THEN object.room * 2^k ELSE 2^(k - 1)
        times == CHOOSE k \in 0..size :
                    Room(k) >= size /\ (k > 0 => Room(k - 1) < size)
    IN [object EXCEPT !.items = @ \o [i \in DOMAIN args |-> Kept(object, args[i])],
                      !.room = Room(times), !.gen = @ + times]

\* Mutant of CanPop: a frozen object gives its items away.
NotEmpty(object) == object.items # <<>>

CanPop(object) == object.items # <<>> /\ ~object.frozen

\* pop_value: mode "back" or "front"; a dud when there is nothing to take.
pop_result(object, mode) ==
    IF ~CanPop(object) THEN Dud
    ELSE IF mode = "back" THEN object.items[Len(object.items)] ELSE Head(object.items)

pop_value(object, mode) ==
    IF ~CanPop(object) THEN object
    ELSE [object EXCEPT !.items = IF mode = "back" THEN SubSeq(@, 1, Len(@) - 1)
                                  ELSE Tail(@)]

\* freeze() is an empty function of strings.
freeze(object) == [object EXCEPT !.frozen = (@ \/ object.kind = "sequence")]

\* to_string() of an object, as characters: those of a string; a sequence's
\* rendering is reduced to its pair of delimiters, so that it is told from text.
Text(object) ==
    IF object.kind = "string"
    THEN [i \in DOMAIN object.items |-> Chr8(ScalarOr0(object.items[i]) % 128)]
    ELSE IF object.frozen THEN <<Chr8(91), Chr8(93)>> ELSE <<Chr8(123), Chr8(125)>>
=============================================================================
