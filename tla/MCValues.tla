------------------------------- MODULE MCValues -------------------------------
(***************************************************************************)
(* The value layer on its own: an accumulator and an operand go through    *)
(* FastValue's operators, and a list, another list and a string through    *)
(* push_value, pop_value and freeze, while a reference into the first list *)
(* is kept.                                                                *)
(***************************************************************************)
EXTENDS FastValue, FiniteSets

CONSTANTS
    list, other, text,   \* the three objects
    MaxItems,            \* bound: items an object is given
    MaxFraction          \* bound: numerators and denominators of doubles

MCObject == {list, other, text}

ASSUME ValuesAssumption ==
    /\ Object = MCObject
    /\ list # other /\ list # text /\ other # text
    /\ MaxItems \in Nat /\ MaxFraction \in Nat

VARIABLES acc, operand, contents, ref

valueVars == <<acc, operand, contents, ref>>

Empty(kind) == [kind |-> kind, items |-> <<>>, frozen |-> FALSE, room |-> 0, gen |-> 0]

NaN == Flt64(0, 0)
Infinity == Flt64(1, 0)

Ints == -(2^(IntBits - 1))..(2^(IntBits - 1) - 1)
Operands == {Int32(k) : k \in Ints} \cup {Boolean(b) : b \in BOOLEAN} \cup
            {Chr8(c) : c \in {0, 97}} \cup {Flt64(0, 1), Flt64(1, 2), Flt64(-3, 2), Dud} \cup
            {Infinity, NaN}
Items == {Int32(1), Flt64(1, 1), NaN, Pointer(other, "sequence")}

Init ==
    /\ acc \in Operands
    /\ operand \in Operands
    /\ contents = [o \in MCObject |-> Empty(IF o = text THEN "string" ELSE "sequence")]
    /\ ref = Dud

Small(v) == v.tag = "flt64" => Magnitude(v.n) <= MaxFraction /\ v.m <= MaxFraction

Operators == {"mul", "add", "sub", "div", "mod"}

Compute(op) ==
    /\ contents[list].items = <<>> /\ contents[other].items = <<>>
    /\ contents[text].items = <<>>
    /\ ~Traps(op, acc, operand)
    /\ acc' = Arith(op, acc, operand)
    /\ Small(acc')
    /\ UNCHANGED <<operand, contents, ref>>

\* The objects are exercised with the operands out of the way, the string when
\* the lists are empty.
Idle == acc = Dud /\ operand = Dud

\* Only the first list holds the other one: nesting has an end.
PushItem(o, v) ==
    /\ Idle
    /\ Len(contents[o].items) < MaxItems
    /\ o # list => v.tag # "sequence"
    /\ o = text => contents[list].items = <<>> /\ contents[other].items = <<>>
    /\ o # text => contents[text].items = <<>>
    /\ contents' = [contents EXCEPT ![o] = push_value(@, v)]
    /\ UNCHANGED <<acc, operand, ref>>

PopItem(o, end) ==
    /\ Idle
    /\ contents' = [contents EXCEPT ![o] = pop_value(@, end)]
    /\ UNCHANGED <<acc, operand, ref>>

FreezeObject(o) ==
    /\ Idle
    /\ contents' = [contents EXCEPT ![o] = freeze(@)]
    /\ UNCHANGED <<acc, operand, ref>>

\* get_value: a reference to an item.
TakeRef(pos) ==
    /\ Idle /\ ref = Dud
    /\ pos < Len(contents[list].items)
    /\ ref' = [tag |-> "val_ref", n |-> pos, m |-> contents[list].gen, obj |-> list]
    /\ UNCHANGED <<acc, operand, contents>>

\* gen only counts buffers: bounded by what MaxItems pushes can make.
Next ==
    \/ \E op \in Operators : Compute(op)
    \/ \E o \in MCObject, v \in Items : PushItem(o, v)
    \/ \E o \in MCObject, end \in {"front", "back"} : PopItem(o, end)
    \/ \E o \in MCObject : FreezeObject(o)
    \/ \E pos \in 0..(MaxItems - 1) : TakeRef(pos)

Spec == Init /\ [][Next]_valueVars

-----------------------------------------------------------------------------
(* Reference definitions, and the operators against them                    *)

Known(v) == v.tag = "int32"

\* int arithmetic, at every value of the width: sums, differences and products
\* are right modulo 2^IntBits and in range; a quotient and its remainder make up
\* the dividend, the remainder is smaller than the divisor and never of the
\* dividend's opposite sign; and only a zero divisor is refused.
IntsComputeLikeC ==
    Known(acc) /\ Known(operand) =>
        LET a == acc.n
            b == operand.n
            Result(op) == Arith(op, acc, operand)
            Near(op, exact) == /\ Result(op).n \in Ints
                               /\ (Result(op).n - exact) % 2^IntBits = 0
        IN /\ Near("add", a + b) /\ Near("sub", a - b) /\ Near("mul", a * b)
           /\ b = 0 => Result("div") = Dud /\ Result("mod") = Dud
           /\ b # 0 /\ ~Traps("div", acc, operand) =>
                 LET q == Result("div").n
                     r == Result("mod").n
                 IN /\ a = q * b + r
                    /\ Magnitude(r) < Magnitude(b)
                    /\ r # 0 => (r < 0) = (a < 0)

\* Any two numbers of one tag, infinities included, are in exactly one of the
\* relations <, == and >, and <= and >= are what these make them.  Values of two tags
\* are in none, and NaN is in none, nor is it == to anything, itself included.
NumbersAreOrdered ==
    LET Is(op) == Ordered(op, acc, operand)
        Same == Equal(contents, acc, operand) = "yes"
        IsNumber(v) == v.tag \in {"chr8", "int32", "flt64"} /\ ~IsNaN(v)
    IN IF acc.tag = operand.tag /\ IsNumber(acc) /\ IsNumber(operand)
       THEN /\ Cardinality({r \in {"lt", "equ", "gt"} :
                               IF r = "equ" THEN Same ELSE Is(r)}) = 1
            /\ Is("lte") = (Is("lt") \/ Same)
            /\ Is("gte") = (Is("gt") \/ Same)
       ELSE /\ ~\E op \in {"lt", "gt", "lte", "gte"} : Is(op)
            /\ IsNaN(acc) \/ IsNaN(operand) => ~Same

\* Two lists are equal when they are of one length and their items are, whatever
\* their buffers, so never when one holds a NaN; and == is symmetric on values that
\* are no references.
Tree(o) ==
    [i \in DOMAIN contents[o].items |->
        LET v == contents[o].items[i]
        IN IF v.tag = "sequence" THEN <<"sequence", contents[v.obj].items>>
           ELSE <<v.tag, v>>]

EqualityIsByItems ==
    LET Same(o, p) == Equal(contents, Pointer(o, "sequence"), Pointer(p, "sequence"))
        holdsNaN == \E i \in DOMAIN contents[list].items : IsNaN(contents[list].items[i])
    IN /\ Same(list, other) = (IF Tree(list) = Tree(other) /\ ~holdsNaN THEN "yes" ELSE "no")
       /\ Same(other, list) = Same(list, other)

\* pop_value takes nothing from what freeze() froze, whatever came before.
FrozenKeepsItems ==
    [][\A o \in MCObject : contents[o].frozen =>
          /\ contents'[o].frozen
          /\ Len(contents'[o].items) >= Len(contents[o].items)]_valueVars

\* A push either leaves a kept reference with the item it shows, or leaves it
\* pointing into a buffer that is gone: it never makes it show another item.
PushKeepsReferences ==
    [][(/\ ref.tag = "val_ref" /\ Sound(contents, ref)
        /\ Len(contents'[list].items) > Len(contents[list].items)
        /\ Sound(contents', ref)) =>
          Chased(contents', ref) = Chased(contents, ref)]_valueVars
=============================================================================
