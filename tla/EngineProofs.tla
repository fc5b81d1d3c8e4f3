---------------------------- MODULE EngineProofs -----------------------------
(***************************************************************************)
(* Whatever program is run, with any registers, frames and heap: the cells *)
(* of the heap and what the objects hold stay in step, and no handler and  *)
(* no native makes a pointer dangle, but for those that Engine names.  And *)
(* if it is well formed, registers and items hold values, items fit in     *)
(* their rooms, frames and special registers are what the handlers take    *)
(* them for, only seq_obj_push extends a tuple, and calls and returns are  *)
(* those of a stack of activations.                                        *)
(***************************************************************************)
EXTENDS Engine, HeapStorageProofs, FastValueProofs

\* The length of a sequence, whatever its items.
IsSeq(s) == \E S : s \in Seq(S)

\* What a heap object holds, whatever the values.
Shape(c) ==
    DOMAIN c = {"kind", "items", "frozen", "room", "gen"} /\ IsSeq(c.items)

\* The heap is sound, and the living objects are those that cells own.
EngineInv ==
    /\ HeapInv
    /\ program \in Programs
    /\ m_memory = [r \in Regs |-> m_memory[r]]
    /\ contents = [o \in Object |-> contents[o]]
    /\ \A o \in Object : Shape(contents[o])
    /\ ~OutOfBounds => \A o \in Object : Alive(contents, o) <=> o \in Owned

-----------------------------------------------------------------------------
(* Sequences *)

\* A sequence has a length, and its places are counted from 1.
LEMMA SeqLength ==
    ASSUME NEW s, IsSeq(s)
    PROVE  Len(s) \in Nat /\ DOMAIN s = 1..Len(s)
<1>1. PICK S : s \in Seq(S)
  BY DEF IsSeq
<1> QED
  BY <1>1, LenProperties

\* A function on the numbers from 1 is a sequence.
LEMMA SeqOfFunction ==
    ASSUME NEW n \in Nat, NEW f, f = [i \in 1..n |-> f[i]]
    PROVE  IsSeq(f) /\ Len(f) = n
<1> DEFINE S == {f[i] : i \in 1..n}
<1>1. f \in [1..n -> S]
  OBVIOUS
<1>2. f \in Seq(S)
  BY <1>1, SeqDef
<1>3. Len(f) = n
  BY <1>1, <1>2, LenProperties
<1> QED
  BY <1>2, <1>3 DEF IsSeq

LEMMA SeqConcat ==
    ASSUME NEW s, IsSeq(s), NEW t, IsSeq(t)
    PROVE  /\ IsSeq(s \o t)
           /\ \A i \in DOMAIN (s \o t) :
                 \/ i \in DOMAIN s /\ (s \o t)[i] = s[i]
                 \/ \E k \in DOMAIN t : (s \o t)[i] = t[k]
<1>1. PICK S : s \in Seq(S)
  BY DEF IsSeq
<1>2. PICK T : t \in Seq(T)
  BY DEF IsSeq
<1> DEFINE U == S \cup T
<1>3. s \in Seq(U) /\ t \in Seq(U)
  BY <1>1, <1>2, SeqMonotonic
<1>4. /\ s \o t \in Seq(U) /\ Len(s \o t) = Len(s) + Len(t)
      /\ \A i \in 1 .. Len(s) + Len(t) :
            (s \o t)[i] = IF i <= Len(s) THEN s[i] ELSE t[i - Len(s)]
  BY <1>3, ConcatProperties
<1>5. Len(s) \in Nat /\ DOMAIN s = 1..Len(s) /\ Len(t) \in Nat /\ DOMAIN t = 1..Len(t)
  BY SeqLength
<1>6. DOMAIN (s \o t) = 1..(Len(s) + Len(t))
  BY <1>4, LenProperties
<1>7. ASSUME NEW i \in DOMAIN (s \o t)
      PROVE  \/ i \in DOMAIN s /\ (s \o t)[i] = s[i]
             \/ \E k \in DOMAIN t : (s \o t)[i] = t[k]
  <2>1. CASE i <= Len(s)
    BY <2>1, <1>4, <1>5, <1>6
  <2>2. CASE ~ (i <= Len(s))
    <3>1. i - Len(s) \in DOMAIN t
      BY <2>2, <1>5, <1>6
    <3> QED
      BY <3>1, <2>2, <1>4, <1>6
  <2> QED
    BY <2>1, <2>2
<1> QED
  BY <1>4, <1>7 DEF IsSeq

LEMMA SeqAppend ==
    ASSUME NEW s, IsSeq(s), NEW x
    PROVE  /\ IsSeq(Append(s, x))
           /\ \A i \in DOMAIN Append(s, x) :
                 (i \in DOMAIN s /\ Append(s, x)[i] = s[i]) \/ Append(s, x)[i] = x
<1>1. PICK S : s \in Seq(S)
  BY DEF IsSeq
<1> DEFINE T == S \cup {x}
<1>2. s \in Seq(T)
  BY <1>1, SeqMonotonic
<1>3. /\ Append(s, x) \in Seq(T) /\ Len(Append(s, x)) = Len(s) + 1
      /\ Append(s, x)[Len(s) + 1] = x /\ \A i \in 1..Len(s) : Append(s, x)[i] = s[i]
  BY <1>2, AppendProperties
<1>4. DOMAIN s = 1..Len(s) /\ Len(s) \in Nat /\ DOMAIN Append(s, x) = 1..(Len(s) + 1)
  BY <1>2, <1>3, LenProperties
<1> QED
  BY <1>3, <1>4 DEF IsSeq

\* A place of a sequence, or one past it, takes anything else.
LEMMA SeqExcept ==
    ASSUME NEW s, IsSeq(s), NEW k, NEW x
    PROVE  LET t == [s EXCEPT ![k] = x]
           IN IsSeq(t) /\ \A i \in DOMAIN t : i \in DOMAIN s /\ (t[i] = s[i] \/ t[i] = x)
<1> DEFINE t == [s EXCEPT ![k] = x]
<1>1. Len(s) \in Nat /\ DOMAIN s = 1..Len(s)
  BY SeqLength
<1>2. DOMAIN t = DOMAIN s /\ \A i \in DOMAIN s : t[i] = s[i] \/ t[i] = x
  OBVIOUS
<1>3. t = [i \in 1..Len(s) |-> t[i]]
  BY <1>1
<1>4. IsSeq(t)
  BY <1>1, <1>3, SeqOfFunction
<1> QED
  BY <1>2, <1>4

-----------------------------------------------------------------------------
(* What objects hold *)

\* A number, a character or nothing: no pointer.
Plain(v) == to_object_ptr(v) = NoObject

\* An object keeps its kind, and its items are old ones, values in X, or plain.
Becomes(c, d, X) ==
    /\ Shape(d) /\ d.kind = c.kind
    /\ \A i \in DOMAIN d.items :
          \/ \E k \in DOMAIN c.items : d.items[i] = c.items[k]
          \/ d.items[i] \in X
          \/ Plain(d.items[i])

LEMMA PlainValues ==
    /\ \A k : Plain(Int32(k)) /\ Plain(Chr8(k)) /\ Plain(Boolean(k))
    /\ \A k : Plain(Scalar("boolean", k))
    /\ Plain(Dud)
    /\ \A num, den : Plain(Flt64(num, den))
    /\ \A o, n, m : Plain([tag |-> "val_ref", n |-> n, m |-> m, obj |-> o])
BY DEF Plain, to_object_ptr, Int32, Chr8, Boolean, Scalar, Dud, Flt64

\* The value of an operation is a number or nothing.
LEMMA ArithPlain ==
    ASSUME NEW op \in Arithmetic, NEW x, NEW y
    PROVE  Plain(Arith(op, x, y))
<1>1. ASSUME op # "mod" PROVE Plain(FltArith(op, x, y))
  BY <1>1, PlainValues DEF FltArith, FltSum, Arithmetic
<1> QED
  BY <1>1, PlainValues DEF Arith

LEMMA GrownShape ==
    ASSUME NEW c, Shape(c)
    PROVE  Shape(Grown(c)) /\ Grown(c).kind = c.kind /\ Grown(c).items = c.items
BY DEF Grown, Shape

LEMMA PushShape ==
    ASSUME NEW c, Shape(c), NEW v
    PROVE  Becomes(c, push_value(c, v), {v})
<1> DEFINE d == push_value(c, v)
<1> DEFINE x == Kept(c, v)
<1>1. /\ DOMAIN d = {"kind", "items", "frozen", "room", "gen"}
      /\ d.kind = c.kind /\ d.items = Append(c.items, x)
  BY GrownShape DEF push_value, Shape
<1>2. x = v \/ Plain(x)
  BY PlainValues DEF Kept
<1> HIDE DEF d, x
<1>3. /\ IsSeq(d.items)
      /\ \A i \in DOMAIN d.items : (i \in DOMAIN c.items /\ d.items[i] = c.items[i])
                                     \/ d.items[i] = x
  BY <1>1, SeqAppend DEF Shape
<1> QED
  BY <1>1, <1>2, <1>3 DEF Becomes, Shape, d

LEMMA PushAllShape ==
    ASSUME NEW c, Shape(c), NEW args, IsSeq(args)
    PROVE  Becomes(c, push_all(c, args), {args[k] : k \in DOMAIN args})
<1> DEFINE d == push_all(c, args)
<1> DEFINE new == [i \in DOMAIN args |-> Kept(c, args[i])]
<1>1. /\ DOMAIN d = {"kind", "items", "frozen", "room", "gen"}
      /\ d.kind = c.kind /\ d.items = c.items \o new
  BY DEF push_all, Shape
<1>2. IsSeq(new) /\ \A k \in DOMAIN new : k \in DOMAIN args /\ (new[k] = args[k] \/ Plain(new[k]))
  <2>1. \A k \in DOMAIN args : Kept(c, args[k]) = args[k] \/ Plain(Kept(c, args[k]))
    BY PlainValues DEF Kept
  <2>2. Len(args) \in Nat /\ DOMAIN args = 1..Len(args)
    BY SeqLength
  <2>3. IsSeq(new)
    BY <2>2, SeqOfFunction
  <2> QED
    BY <2>1, <2>3
<1> HIDE DEF d, new
<1>3. /\ IsSeq(d.items)
      /\ \A i \in DOMAIN d.items :
            \/ i \in DOMAIN c.items /\ d.items[i] = c.items[i]
            \/ \E k \in DOMAIN new : d.items[i] = new[k]
  BY <1>1, <1>2, SeqConcat DEF Shape
<1>4. ASSUME NEW i \in DOMAIN d.items
      PROVE  \/ \E k \in DOMAIN c.items : d.items[i] = c.items[k]
             \/ d.items[i] \in {args[k] : k \in DOMAIN args}
             \/ Plain(d.items[i])
  BY <1>2, <1>3
<1> QED
  BY <1>1, <1>3, <1>4 DEF Becomes, Shape, d

LEMMA PopShape ==
    ASSUME NEW c, Shape(c), NEW end
    PROVE  /\ Becomes(c, pop_value(c, end), {})
           /\ \/ \E k \in DOMAIN c.items : pop_result(c, end) = c.items[k]
              \/ Plain(pop_result(c, end))
<1>1. CASE ~ CanPop(c)
  BY <1>1, PlainValues DEF pop_value, pop_result, Becomes
<1>2. CASE CanPop(c)
  <2> DEFINE s == c.items
  <2> DEFINE t == IF end = "back" THEN SubSeq(s, 1, Len(s) - 1) ELSE Tail(s)
  <2>0. IsSeq(s) /\ s # <<>>
    BY <1>2 DEF Shape, CanPop
  <2> HIDE DEF s
  <2>1. PICK S : s \in Seq(S)
    BY <2>0 DEF IsSeq
  <2>2. Len(s) \in Nat /\ Len(s) > 0 /\ DOMAIN s = 1..Len(s) /\ \A i \in 1..Len(s) : s[i] \in S
    BY <2>0, <2>1, LenProperties, EmptySeq
  <2>3. /\ SubSeq(s, 1, Len(s) - 1) \in Seq(S)
        /\ Len(SubSeq(s, 1, Len(s) - 1)) = Len(s) - 1
        /\ \A i \in 1..(Len(s) - 1) : SubSeq(s, 1, Len(s) - 1)[i] = s[i]
    <3>1. \A i \in 1..(Len(s) - 1) : s[i] \in S
      BY <2>2
    <3>2. /\ SubSeq(s, 1, Len(s) - 1) \in Seq(S)
          /\ Len(SubSeq(s, 1, Len(s) - 1)) =
                IF 1 <= Len(s) - 1 THEN (Len(s) - 1) - 1 + 1 ELSE 0
          /\ \A i \in 1..((Len(s) - 1) - 1 + 1) : SubSeq(s, 1, Len(s) - 1)[i] = s[1 + i - 1]
      BY <2>2, <3>1, SubSeqProperties
    <3> QED
      BY <2>2, <3>2
  <2>4. Tail(s) \in Seq(S) /\ Len(Tail(s)) = Len(s) - 1
        /\ \A i \in 1..Len(Tail(s)) : Tail(s)[i] = s[i + 1]
    BY <2>0, <2>1, HeadTailProperties
  <2>5. t \in Seq(S) /\ DOMAIN t = 1..(Len(s) - 1)
    BY <2>2, <2>3, <2>4, LenProperties
  <2>6. \A i \in DOMAIN t : \E k \in DOMAIN s : t[i] = s[k]
    <3>1. ASSUME NEW i \in 1..(Len(s) - 1) PROVE \E k \in DOMAIN s : t[i] = s[k]
      <4>1. i \in DOMAIN s /\ i + 1 \in DOMAIN s
        BY <2>2
      <4> QED
        BY <4>1, <2>3, <2>4
    <3> QED
      BY <3>1, <2>5
  <2> HIDE DEF t
  <2>7. pop_value(c, end) = [c EXCEPT !.items = t]
    BY <1>2 DEF pop_value, s, t, Shape
  <2>8. Becomes(c, pop_value(c, end), {})
    <3>1. /\ DOMAIN pop_value(c, end) = {"kind", "items", "frozen", "room", "gen"}
          /\ pop_value(c, end).kind = c.kind /\ pop_value(c, end).items = t
      BY <2>7 DEF Shape
    <3>2. IsSeq(t)
      BY <2>5 DEF IsSeq
    <3> QED
      BY <3>1, <3>2, <2>6 DEF Becomes, Shape, s
  <2>9. pop_result(c, end) = s[Len(s)] \/ pop_result(c, end) = s[1]
    <3>1. Head(s) = s[1]
      OBVIOUS
    <3> QED
      BY <3>1, <1>2 DEF pop_result, s
  <2> QED
    BY <2>2, <2>8, <2>9 DEF s
<1> QED
  BY <1>1, <1>2

LEMMA FreezeShape ==
    ASSUME NEW c, Shape(c)
    PROVE  Becomes(c, freeze(c), {})
BY DEF freeze, Becomes, Shape

\* An item is written over.
LEMMA ItemShape ==
    ASSUME NEW c, Shape(c), NEW k, NEW v
    PROVE  Becomes(c, [c EXCEPT !.items = [c.items EXCEPT ![k] = v]], {v})
<1> DEFINE t == [c.items EXCEPT ![k] = v]
<1>1. IsSeq(t) /\ \A i \in DOMAIN t : i \in DOMAIN c.items /\ (t[i] = c.items[i] \/ t[i] = v)
  BY SeqExcept DEF Shape
<1> HIDE DEF t
<1>2. /\ DOMAIN [c EXCEPT !.items = t] = {"kind", "items", "frozen", "room", "gen"}
      /\ [c EXCEPT !.items = t].kind = c.kind /\ [c EXCEPT !.items = t].items = t
  BY DEF Shape
<1>3. Becomes(c, [c EXCEPT !.items = t], {v})
  BY <1>1, <1>2 DEF Becomes, Shape
<1> QED
  BY <1>3 DEF t

\* What to_string() gives is a text.
LEMMA TextPlain ==
    ASSUME NEW c, Shape(c)
    PROVE  IsSeq(Text(c)) /\ \A i \in DOMAIN Text(c) : Plain(Text(c)[i])
<1>1. Len(c.items) \in Nat /\ DOMAIN c.items = 1..Len(c.items)
  BY SeqLength DEF Shape
<1>2. CASE c.kind = "string"
  <2>1. Text(c) = [i \in 1..Len(c.items) |-> Chr8(ScalarOr0(c.items[i]) % 128)]
    BY <1>1, <1>2 DEF Text
  <2> QED
    BY <2>1, <1>1, SeqOfFunction, PlainValues
<1>3. CASE c.kind # "string"
  <2>1. \A x, y : IsSeq(<<x, y>>) /\ DOMAIN <<x, y>> = 1..2
    <3> SUFFICES ASSUME NEW x, NEW y PROVE <<x, y>> \in Seq({x, y}) /\ DOMAIN <<x, y>> = 1..2
      BY DEF IsSeq
    <3> QED
      OBVIOUS
  <2> QED
    BY <2>1, <1>3, PlainValues DEF Text
<1> QED
  BY <1>2, <1>3

-----------------------------------------------------------------------------
(* Steps without a new object *)

\* What a register or an item of a living object holds, or what is no pointer.
Held(v) ==
    \/ Plain(v)
    \/ \E r \in Regs : v = m_memory[r]
    \/ \E o \in Object : /\ contents[o].kind # "none"
                         /\ \E i \in DOMAIN contents[o].items : v = contents[o].items[i]

RegistersMove ==
    /\ m_memory' = [r \in Regs |-> m_memory'[r]]
    /\ \A r \in Regs : Held(m_memory'[r])

ContentsMove ==
    /\ contents' = [o \in Object |-> contents'[o]]
    /\ \A o \in Object :
          /\ Shape(contents'[o]) /\ contents'[o].kind = contents[o].kind
          /\ contents[o].kind # "none" =>
                \A i \in DOMAIN contents'[o].items : Held(contents'[o].items[i])

\* Values are moved, and new ones that are no pointers come in.
Moves == UNCHANGED <<heapVars, program>> /\ RegistersMove /\ ContentsMove

LEMMA MovesInv == ASSUME EngineInv, Moves PROVE EngineInv'
<1>1. UNCHANGED heapVars /\ UNCHANGED program
  BY DEF Moves
<1>2. HeapInv'
  BY <1>1, NextInv DEF EngineInv
<1>3. OutOfBounds' = OutOfBounds /\ Owned' = Owned
  BY <1>1 DEF heapVars, OutOfBounds, Owned, OccupiedCells
<1>4. \A o \in Object : Alive(contents', o) <=> Alive(contents, o)
  BY DEF Moves, ContentsMove, Alive
<1> QED
  BY <1>1, <1>2, <1>3, <1>4 DEF EngineInv, Moves, RegistersMove, ContentsMove

LEMMA HeldGood ==
    ASSUME EngineInv, ~OutOfBounds, PointersGood, NEW v, Held(v)
    PROVE  Good(v)
BY DEF EngineInv, PointersGood, Held, Good, Plain, Alive

LEMMA MovesGood ==
    ASSUME EngineInv, ~OutOfBounds, Moves, PointersGood
    PROVE  PointersGood'
<1>1. ASSUME NEW v, Held(v)
      PROVE  to_object_ptr(v) # NoObject =>
                Alive(contents', v.obj) /\ contents'[v.obj].kind = v.tag
  BY <1>1, HeldGood DEF Moves, ContentsMove, Good, Alive
<1>2. Owned' = Owned
  BY DEF Moves, heapVars, Owned, OccupiedCells
<1>3. \A o \in Owned : o \in Object /\ contents[o].kind # "none"
  <2>1. Owned \subseteq Object
    BY DEF EngineInv, HeapInv, HeapTypeOK, Owned, OccupiedCells
  <2> QED
    BY <2>1 DEF EngineInv, Alive
<1> QED
  BY <1>1, <1>2, <1>3 DEF PointersGood, Good, Moves, RegistersMove, ContentsMove

LEMMA RegistersSame == ASSUME EngineInv, UNCHANGED m_memory PROVE RegistersMove
BY DEF EngineInv, RegistersMove, Held

LEMMA RegisterWritten ==
    ASSUME EngineInv, NEW r, NEW v, Held(v), m_memory' = [m_memory EXCEPT ![r] = v]
    PROVE  RegistersMove
<1>1. DOMAIN m_memory = Regs
  BY DEF EngineInv
<1>2. m_memory' = [q \in Regs |-> IF q = r THEN v ELSE m_memory[q]]
  BY <1>1
<1>3. m_memory' = [q \in Regs |-> m_memory'[q]]
  BY <1>2
<1>4. \A q \in Regs : m_memory'[q] = v \/ m_memory'[q] = m_memory[q]
  BY <1>2
<1> QED
  BY <1>3, <1>4 DEF RegistersMove, Held

LEMMA ContentsSame == ASSUME EngineInv, UNCHANGED contents PROVE ContentsMove
BY DEF EngineInv, ContentsMove, Held

LEMMA ObjectBecomes ==
    ASSUME EngineInv, NEW o, NEW X, NEW d, \A v \in X : Held(v),
           o \in Object => Becomes(contents[o], d, X),
           contents' = [contents EXCEPT ![o] = d]
    PROVE  ContentsMove
<1>1. DOMAIN contents = Object
  BY DEF EngineInv
<1>2. contents' = [p \in Object |-> IF p = o THEN d ELSE contents[p]]
  BY <1>1
<1>3. contents' = [p \in Object |-> contents'[p]]
  BY <1>2
<1>4. ASSUME NEW p \in Object
      PROVE  /\ Shape(contents'[p]) /\ contents'[p].kind = contents[p].kind
             /\ contents[p].kind # "none" =>
                  \A i \in DOMAIN contents'[p].items : Held(contents'[p].items[i])
  <2>1. CASE p = o
    BY <2>1, <1>2 DEF Becomes, Held
  <2>2. CASE p # o
    BY <2>2, <1>2 DEF EngineInv, Held
  <2> QED
    BY <2>1, <2>2
<1> QED
  BY <1>3, <1>4 DEF ContentsMove

\* Nothing comes in.
LEMMA ObjectKeeps ==
    ASSUME EngineInv, NEW o, NEW d, o \in Object => Becomes(contents[o], d, {}),
           contents' = [contents EXCEPT ![o] = d]
    PROVE  ContentsMove
<1> DEFINE X == {}
<1>1. \A v \in X : Held(v)
  OBVIOUS
<1>2. o \in Object => Becomes(contents[o], d, X)
  OBVIOUS
<1> HIDE DEF X
<1> QED
  BY <1>1, <1>2, ObjectBecomes

LEMMA FetchHeld ==
    ASSUME EngineInv, InRange, NEW i \in 1..3, i \in Sources(Instr.op), CanFetch(i)
    PROVE  Held(fetch_value(i))
<1>1. CASE mode(i) = "constant"
  <2>1. arg(i) + 1 \in DOMAIN Constants
    BY <1>1 DEF InRange, Constant
  <2>2. Plain(Constants[arg(i) + 1])
    BY <2>1, EngineAssumption DEF EngineInv, Constants, WellFormed, Spelled, Plain,
                                  to_object_ptr
  <2> QED
    BY <2>2, <1>1 DEF fetch_value, Held
<1>2. CASE mode(i) = "reg"
  <2>1. Abs(i) \in Regs
    BY <1>2 DEF InRange
  <2> QED
    BY <2>1, <1>2 DEF fetch_value, Held
<1> QED
  BY <1>1, <1>2 DEF CanFetch

LEMMA WrittenThrough ==
    ASSUME EngineInv, NEW ref, NEW v, Held(v), WriteThrough(ref, v)
    PROVE  ContentsMove
<1> DEFINE last == LastRef(contents, ref)
<1> DEFINE o == last.obj
<1> DEFINE k == last.n + 1
<1>1. contents' = [contents EXCEPT ![o].items[k] = v]
  BY DEF WriteThrough
<1> HIDE DEF last, k
<1> DEFINE d == [contents[o] EXCEPT !.items = [contents[o].items EXCEPT ![k] = v]]
<1>2. contents' = [contents EXCEPT ![o] = d]
  BY <1>1
<1>3. o \in Object => Becomes(contents[o], d, {v})
  BY ItemShape DEF EngineInv
<1> HIDE DEF d, o
<1> QED
  BY <1>2, <1>3, ObjectBecomes

-----------------------------------------------------------------------------
(* The handlers *)

LEMMA Stops ==
    ASSUME EngineInv, NEW status, Undefined \/ Terminate \/ Error(status)
    PROVE  Moves
<1>1. UNCHANGED <<heapVars, program, m_memory, contents>>
  BY DEF Undefined, Terminate, Error, KeepsFrame, KeepsHeap, machineVars
<1> QED
  BY <1>1, RegistersSame, ContentsSame DEF Moves

\* Only registers change, to what is held.
LEMMA Writes ==
    ASSUME EngineInv, KeepsHeap, UNCHANGED program, RegistersMove
    PROVE  Moves
BY ContentsSame DEF Moves, KeepsHeap

LEMMA ControlMoves ==
    ASSUME EngineInv, nop \/ handle_inc_dec_halt \/ handle_jump \/ handle_call
                      \/ OutOfRangeAccess
    PROVE  Moves
<1>1. CASE nop \/ handle_jump
  BY <1>1, Writes, RegistersSame DEF nop, handle_jump, KeepsFrame
<1>2. CASE handle_inc_dec_halt
  BY <1>2, Stops DEF handle_inc_dec_halt
<1>3. CASE handle_call
  BY <1>3, Stops, Writes, RegistersSame DEF handle_call
<1>4. CASE OutOfRangeAccess
  BY <1>4, Stops DEF OutOfRangeAccess
<1> QED
  BY <1>1, <1>2, <1>3, <1>4

LEMMA PushMoves == ASSUME EngineInv, handle_seq_obj_push PROVE Moves
<1>1. InRange /\ Instr.op = "seq_obj_push"
  BY DEF handle_seq_obj_push, Fetched
<1>2. CASE Error("mem_error")
  BY <1>2, Stops
<1>3. CASE Undefined
  BY <1>3, Stops
<1>4. ASSUME NEW o, CanFetch(2), KeepsFrame, UNCHANGED <<heapVars, m_memory>>,
             contents' = [contents EXCEPT ![o] = push_value(@, fetch_value(2))]
      PROVE  Moves
  <2> DEFINE v == fetch_value(2)
  <2>1. Held(v)
    <3>1. 2 \in Sources(Instr.op)
      BY <1>1 DEF Sources, Arithmetic, Comparison
    <3> QED
      BY <1>1, <1>4, <3>1, FetchHeld
  <2> HIDE DEF v
  <2> DEFINE d == push_value(contents[o], v)
  <2>2. o \in Object => Becomes(contents[o], d, {v})
    BY PushShape DEF EngineInv
  <2>3. contents' = [contents EXCEPT ![o] = d]
    BY <1>4 DEF v
  <2> HIDE DEF d
  <2>4. ContentsMove
    BY <2>1, <2>2, <2>3, ObjectBecomes
  <2> QED
    BY <1>4, <2>4, RegistersSame DEF Moves, KeepsFrame
<1> QED
  BY <1>2, <1>3, <1>4 DEF handle_seq_obj_push, OnObject

LEMMA PopMoves == ASSUME EngineInv, handle_seq_obj_pop PROVE Moves
<1> DEFINE end == IF arg(3) = 1 THEN "back" ELSE "front"
<1>1. CASE Error("mem_error")
  BY <1>1, Stops
<1>2. CASE Undefined
  BY <1>2, Stops
<1>3. ASSUME NEW o, Alive(contents, o), KeepsFrame, UNCHANGED heapVars,
             m_memory' = [m_memory EXCEPT ![Abs(1)] = pop_result(contents[o], end)],
             contents' = [contents EXCEPT ![o] = pop_value(@, end)]
      PROVE  Moves
  <2> HIDE DEF end
  <2>1. o \in Object /\ contents[o].kind # "none" /\ Shape(contents[o])
    BY <1>3 DEF Alive, EngineInv
  <2> DEFINE d == pop_value(contents[o], end)
  <2> DEFINE v == pop_result(contents[o], end)
  <2>2. Becomes(contents[o], d, {}) /\ Held(v)
    BY <2>1, PopShape DEF Held
  <2>3. contents' = [contents EXCEPT ![o] = d] /\ m_memory' = [m_memory EXCEPT ![Abs(1)] = v]
    BY <1>3
  <2> HIDE DEF d, v
  <2>4. ContentsMove
    BY <2>2, <2>3, ObjectKeeps
  <2>5. RegistersMove
    BY <2>2, <2>3, RegisterWritten
  <2> QED
    BY <1>3, <2>4, <2>5 DEF Moves, KeepsFrame
<1> QED
  BY <1>1, <1>2, <1>3 DEF handle_seq_obj_pop, OnObject

LEMMA GetMoves == ASSUME EngineInv, handle_seq_obj_get PROVE Moves
<1>1. CASE Error("mem_error") \/ Error("arg_error")
  BY <1>1, Stops
<1>2. CASE Undefined
  BY <1>2, Stops
<1>3. ASSUME NEW n, NEW m, NEW o, KeepsFrame, KeepsHeap,
             m_memory' = [m_memory EXCEPT ![Abs(1)] =
                            [tag |-> "val_ref", n |-> n, m |-> m, obj |-> o]]
      PROVE  Moves
  <2> DEFINE v == [tag |-> "val_ref", n |-> n, m |-> m, obj |-> o]
  <2>1. Held(v)
    BY PlainValues DEF Held
  <2> HIDE DEF v
  <2>2. m_memory' = [m_memory EXCEPT ![Abs(1)] = v]
    BY <1>3 DEF v
  <2> QED
    BY <1>3, <2>1, <2>2, RegisterWritten, Writes DEF KeepsFrame
<1> QED
  BY <1>1, <1>2, <1>3 DEF handle_seq_obj_get, OnObject

LEMMA FreezeMoves == ASSUME EngineInv, handle_frz_seq_obj PROVE Moves
<1>1. CASE Error("mem_error")
  BY <1>1, Stops
<1>2. CASE Undefined
  BY <1>2, Stops
<1>3. ASSUME NEW o, KeepsFrame, UNCHANGED <<heapVars, m_memory>>,
             contents' = [contents EXCEPT ![o] = freeze(@)]
      PROVE  Moves
  <2> DEFINE d == freeze(contents[o])
  <2>1. o \in Object => Becomes(contents[o], d, {})
    BY FreezeShape DEF EngineInv
  <2>2. contents' = [contents EXCEPT ![o] = d]
    BY <1>3
  <2> HIDE DEF d
  <2>3. ContentsMove
    BY <2>1, <2>2, ObjectKeeps
  <2> QED
    BY <1>3, <2>3, RegistersSame DEF Moves, KeepsFrame
<1> QED
  BY <1>1, <1>2, <1>3 DEF handle_frz_seq_obj, OnObject

LEMMA LoadMoves == ASSUME EngineInv, handle_load_const PROVE Moves
<1>1. InRange /\ Instr.op = "load_const"
  BY DEF handle_load_const, Fetched
<1> DEFINE v == Constants[arg(2) + 1]
<1>2. arg(2) + 1 \in DOMAIN Constants
  BY <1>1 DEF InRange, Constant
<1>3. Held(v)
  BY <1>2, EngineAssumption DEF EngineInv, Constants, WellFormed, Spelled, Plain,
                                to_object_ptr, Held
<1> HIDE DEF v
<1>4. m_memory' = [m_memory EXCEPT ![Abs(1)] = v] /\ KeepsHeap /\ UNCHANGED program
  BY DEF handle_load_const, WriteRaising, KeepsFrame, v
<1> QED
  BY <1>3, <1>4, RegisterWritten, Writes

LEMMA MovMoves == ASSUME EngineInv, handle_mov PROVE Moves
<1>1. InRange /\ Instr.op = "mov"
  BY DEF handle_mov, Fetched
<1> DEFINE src == fetch_value(2)
<1>2. ASSUME CanFetch(2) PROVE Held(src)
  <2>1. 2 \in Sources(Instr.op)
    BY <1>1 DEF Sources, Arithmetic, Comparison
  <2> QED
    BY <1>1, <1>2, <2>1, FetchHeld
<1>3. CASE Error("mem_error") \/ Undefined
  BY <1>3, Stops
<1>4. CASE CanFetch(2) /\ WriteThrough(m_memory[Abs(1)], src) /\ KeepsFrame
           /\ UNCHANGED <<heapVars, m_memory>>
  BY <1>2, <1>4, WrittenThrough, RegistersSame DEF Moves, KeepsFrame
<1>5. CASE CanFetch(2) /\ WriteRaising(Abs(1), src) /\ KeepsFrame /\ KeepsHeap
  <2>1. m_memory' = [m_memory EXCEPT ![Abs(1)] = src]
    BY <1>5 DEF WriteRaising
  <2> QED
    BY <1>2, <1>5, <2>1, RegisterWritten, Writes DEF KeepsFrame
<1> QED
  BY <1>3, <1>4, <1>5 DEF handle_mov

LEMMA NegMoves == ASSUME EngineInv, handle_neg PROVE Moves
<1> DEFINE dest == m_memory[Abs(1)]
<1> DEFINE negated == Scalar("boolean", 1 - Chased(contents, dest).n)
<1>1. Held(negated)
  BY PlainValues DEF Held
<1>2. CASE Undefined
  BY <1>2, Stops
<1>3. CASE KeepsFrame /\ KeepsHeap /\ UNCHANGED m_memory
  BY <1>3, RegistersSame, Writes DEF KeepsFrame
<1>4. CASE WriteThrough(dest, negated) /\ KeepsFrame /\ UNCHANGED <<heapVars, m_memory>>
  BY <1>1, <1>4, WrittenThrough, RegistersSame DEF Moves, KeepsFrame
<1>5. CASE /\ m_memory' = [m_memory EXCEPT ![Abs(1)] = negated]
           /\ KeepsFrame /\ UNCHANGED <<heapVars, contents>>
  BY <1>1, <1>5, RegisterWritten, ContentsSame DEF Moves, KeepsFrame
<1> QED
  BY <1>2, <1>3, <1>4, <1>5 DEF handle_neg

LEMMA AssigningMoves ==
    ASSUME EngineInv, NEW op \in {"mul", "add", "sub"}, handle_assigning(op)
    PROVE  Moves
<1>1. InRange /\ Instr.op = op
  BY DEF handle_assigning, Fetched
<1> DEFINE lhs == fetch_value(2)
<1> DEFINE through == Arith(op, Chased(contents, lhs), fetch_value(3))
<1> DEFINE plain == Arith(op, lhs, fetch_value(3))
<1>2. ASSUME CanFetch(2) PROVE Held(lhs)
  <2>1. 2 \in Sources(Instr.op)
    BY <1>1 DEF Sources, Arithmetic
  <2> QED
    BY <1>1, <1>2, <2>1, FetchHeld
<1>3. Held(through) /\ Held(plain)
  BY ArithPlain DEF Held, Arithmetic
<1>4. CASE Terminate \/ Undefined
  BY <1>4, Stops
<1>5. CASE /\ CanFetch(2) /\ WriteThrough(lhs, through) /\ WriteRaising(Abs(1), lhs)
           /\ KeepsFrame /\ UNCHANGED heapVars
  <2>1. m_memory' = [m_memory EXCEPT ![Abs(1)] = lhs]
    BY <1>5 DEF WriteRaising
  <2>2. ContentsMove
    BY <1>3, <1>5, WrittenThrough
  <2>3. RegistersMove
    BY <1>2, <1>5, <2>1, RegisterWritten
  <2> QED
    BY <1>5, <2>2, <2>3 DEF Moves, KeepsFrame
<1>6. CASE /\ WriteRaising(Abs(1), plain) /\ KeepsFrame /\ UNCHANGED <<heapVars, contents>>
  <2>1. m_memory' = [m_memory EXCEPT ![Abs(1)] = plain]
    BY <1>6 DEF WriteRaising
  <2>2. RegistersMove
    BY <1>3, <2>1, RegisterWritten
  <2> QED
    BY <1>6, <2>2, ContentsSame DEF Moves, KeepsFrame
<1> QED
  BY <1>4, <1>5, <1>6 DEF handle_assigning

LEMMA DividingMoves ==
    ASSUME EngineInv, NEW op \in {"div", "mod"}, handle_dividing(op)
    PROVE  Moves
<1> DEFINE v == Arith(op, Chased(contents, fetch_value(2)), fetch_value(3))
<1>1. Held(v)
  BY ArithPlain DEF Held, Arithmetic
<1>2. CASE Terminate \/ Undefined \/ Error("math_error")
  BY <1>2, Stops
<1>3. CASE WriteRaising(Abs(1), v) /\ KeepsFrame /\ KeepsHeap
  <2>1. m_memory' = [m_memory EXCEPT ![Abs(1)] = v]
    BY <1>3 DEF WriteRaising
  <2> QED
    BY <1>1, <1>3, <2>1, RegisterWritten, Writes DEF KeepsFrame
<1> QED
  BY <1>2, <1>3 DEF handle_dividing

LEMMA CmpMoves ==
    ASSUME EngineInv, NEW op \in Comparison, handle_cmp(op)
    PROVE  Moves
<1> DEFINE v == Boolean(Compared(op, fetch_value(2), fetch_value(3)) = "yes")
<1>1. Held(v)
  BY PlainValues DEF Held
<1>2. CASE Terminate \/ Undefined
  BY <1>2, Stops
<1>3. CASE WriteRaising(Abs(1), v) /\ KeepsFrame /\ KeepsHeap
  <2>1. m_memory' = [m_memory EXCEPT ![Abs(1)] = v]
    BY <1>3 DEF WriteRaising
  <2> QED
    BY <1>1, <1>3, <2>1, RegisterWritten, Writes DEF KeepsFrame
<1> QED
  BY <1>2, <1>3 DEF handle_cmp

-----------------------------------------------------------------------------
(* Steps with a new object, and collections *)

\* A text, or no items yet.
PlainItems(items) == IsSeq(items) /\ \A i \in DOMAIN items : Plain(items[i])

\* A new object, with one pointer to it.
Creates ==
    /\ UNCHANGED program
    /\ \E o \in Object, kind \in {"string", "sequence"} : \E items, r :
          /\ PlainItems(items) /\ CreateObject(o, kind, items)
          /\ m_memory' = [m_memory EXCEPT ![r] = Pointer(o, kind)]

\* Every object is destroyed.
Collects ==
    /\ UNCHANGED program /\ RegistersMove
    /\ ~OutOfBounds /\ \A c \in Cells : m_objects[c] # NoObject
    /\ m_objects' = [c \in Cells |-> NoObject]
    /\ m_hole_list' = m_hole_list \o [i \in 1..Capacity |-> i - 1]
    /\ m_overhead' = m_overhead - Capacity * ObjOverhead
    /\ contents' = [o \in Object |-> IF o \in Owned THEN Destroyed(contents[o])
                                     ELSE contents[o]]
    /\ UNCHANGED m_next_id

\* What a creation does to cells and contents.
LEMMA Created ==
    ASSUME EngineInv, NEW o \in Object, NEW kind \in {"string", "sequence"}, NEW items,
           CreateObject(o, kind, items)
    PROVE  /\ ~OutOfBounds /\ HeapInv' /\ o \notin Owned
           /\ \/ Owned' = Owned \cup {o}
              \/ Owned' = Owned /\ OutOfBounds'
           /\ contents' = [p \in Object |-> contents'[p]]
           /\ contents'[o] = NewObject(contents[o], kind, items)
           /\ \A p \in Object : p # o => contents'[p] = contents[p]
<1>1. try_create_value(o) /\ HeapInv
  BY DEF CreateObject, EngineInv
<1>2. ~OutOfBounds /\ o \notin Owned
  BY <1>1 DEF try_create_value
<1>3. HeapInv'
  BY <1>1, CreateInv
<1>4. \/ Owned' = Owned \cup {o}
      \/ Owned' = Owned /\ OutOfBounds'
  <2>1. /\ AllocatedId \in Cells => m_objects[AllocatedId] = NoObject
        /\ AllocatedId \notin Cells => m_hole_list = <<>> /\ m_next_id = Capacity
    BY <1>1, <1>2, AllocatedIsEmpty
  <2>2. CASE AllocatedId \in Cells
    <3>1. m_objects' = [m_objects EXCEPT ![AllocatedId] = o]
      BY <1>1, <2>2 DEF try_create_value
    <3> QED
      BY <1>1, <2>1, <2>2, <3>1, OccupiedAfterCreate DEF HeapInv
  <2>3. CASE AllocatedId \notin Cells
    <3>1. UNCHANGED m_objects /\ m_next_id' = m_next_id + 1
      BY <1>1, <2>1, <2>3 DEF try_create_value, allocate_id
    <3> QED
      BY <2>1, <2>3, <3>1, HeapAssumption DEF Owned, OccupiedCells, OutOfBounds
  <2> QED
    BY <2>2, <2>3
<1>5. contents' = [p \in Object |-> IF p = o THEN NewObject(contents[o], kind, items)
                                    ELSE contents[p]]
  <2>1. contents' = [contents EXCEPT ![o] = NewObject(@, kind, items)]
    BY DEF CreateObject
  <2>2. DOMAIN contents = Object
    BY DEF EngineInv
  <2> QED
    BY <2>1, <2>2
<1>6. /\ contents' = [p \in Object |-> contents'[p]]
      /\ contents'[o] = NewObject(contents[o], kind, items)
      /\ \A p \in Object : p # o => contents'[p] = contents[p]
  BY <1>5
<1> QED
  BY <1>2, <1>3, <1>4, <1>6

LEMMA CreatesInv == ASSUME EngineInv, Creates PROVE EngineInv'
<1>1. PICK o \in Object, kind \in {"string", "sequence"} : \E items, r :
          /\ PlainItems(items) /\ CreateObject(o, kind, items)
          /\ m_memory' = [m_memory EXCEPT ![r] = Pointer(o, kind)]
  BY DEF Creates
<1>2. PICK items, r : /\ PlainItems(items) /\ CreateObject(o, kind, items)
                      /\ m_memory' = [m_memory EXCEPT ![r] = Pointer(o, kind)]
  BY <1>1
<1>3. /\ ~OutOfBounds /\ HeapInv' /\ o \notin Owned
      /\ \/ Owned' = Owned \cup {o}
         \/ Owned' = Owned /\ OutOfBounds'
      /\ contents' = [p \in Object |-> contents'[p]]
      /\ contents'[o] = NewObject(contents[o], kind, items)
      /\ \A p \in Object : p # o => contents'[p] = contents[p]
  BY <1>2, Created
<1>4. contents'[o].kind = kind /\ Shape(contents'[o])
  BY <1>2, <1>3 DEF NewObject, Shape, PlainItems
<1>5. \A p \in Object : Shape(contents'[p])
  BY <1>3, <1>4 DEF EngineInv
<1>6. m_memory' = [q \in Regs |-> m_memory'[q]]
  <2>1. DOMAIN m_memory = Regs
    BY DEF EngineInv
  <2>2. m_memory' = [q \in Regs |-> IF q = r THEN Pointer(o, kind) ELSE m_memory[q]]
    BY <1>2, <2>1
  <2> QED
    BY <2>2
<1>7. ~OutOfBounds' => \A p \in Object : Alive(contents', p) <=> p \in Owned'
  <2>1. \A p \in Object : Alive(contents', p) <=> Alive(contents, p) \/ p = o
    BY <1>3, <1>4 DEF Alive
  <2> QED
    BY <1>3, <2>1 DEF EngineInv
<1>8. UNCHANGED program
  BY DEF Creates
<1> QED
  BY <1>3, <1>5, <1>6, <1>7, <1>8 DEF EngineInv

LEMMA CreatesGood == ASSUME EngineInv, Creates, PointersGood PROVE PointersGood'
<1>1. PICK o \in Object, kind \in {"string", "sequence"} : \E items, r :
          /\ PlainItems(items) /\ CreateObject(o, kind, items)
          /\ m_memory' = [m_memory EXCEPT ![r] = Pointer(o, kind)]
  BY DEF Creates
<1>2. PICK items, r : /\ PlainItems(items) /\ CreateObject(o, kind, items)
                      /\ m_memory' = [m_memory EXCEPT ![r] = Pointer(o, kind)]
  BY <1>1
<1>3. /\ ~OutOfBounds /\ o \notin Owned
      /\ Owned' \subseteq Owned \cup {o}
      /\ contents'[o] = NewObject(contents[o], kind, items)
      /\ \A p \in Object : p # o => contents'[p] = contents[p]
  BY <1>2, Created
<1>4. contents'[o].kind = kind /\ contents'[o].items = items
  BY <1>3 DEF NewObject
<1>5. ~ Alive(contents, o) /\ Owned \subseteq Object
  BY <1>3 DEF EngineInv, HeapInv, HeapTypeOK, Owned, OccupiedCells
<1>6. ASSUME NEW v, Good(v) \/ Plain(v) \/ v = Pointer(o, kind)
      PROVE  to_object_ptr(v) # NoObject =>
                Alive(contents', v.obj) /\ contents'[v.obj].kind = v.tag
  <2>1. CASE Good(v) \/ Plain(v)
    BY <2>1, <1>3, <1>5 DEF Good, Plain, Alive
  <2>2. CASE v = Pointer(o, kind)
    BY <2>2, <1>4 DEF Pointer, Alive
  <2> QED
    BY <1>6, <2>1, <2>2
<1>7. \A q \in Regs : Good(m_memory'[q]) \/ m_memory'[q] = Pointer(o, kind)
  BY <1>2 DEF EngineInv, PointersGood
<1>8. ASSUME NEW p \in Owned', NEW i \in DOMAIN contents'[p].items
      PROVE  Good(contents'[p].items[i]) \/ Plain(contents'[p].items[i])
  <2>1. CASE p = o
    BY <2>1, <1>2, <1>4 DEF PlainItems
  <2>2. CASE p # o
    BY <2>2, <1>3, <1>5 DEF PointersGood
  <2> QED
    BY <2>1, <2>2
<1> QED
  BY <1>6, <1>7, <1>8 DEF PointersGood, Good

\* A collection that does not fault finds a full heap, and leaves an empty one.
LEMMA Collected ==
    ASSUME EngineInv, Collects
    PROVE  /\ OccupiedCells = Cells /\ m_hole_list = <<>> /\ m_next_id = Capacity
           /\ m_hole_list' = [i \in 1..Capacity |-> i - 1] /\ m_overhead' = 0
           /\ OccupiedCells' = {} /\ Owned' = {}
<1>0. HeapTypeOK /\ HolesAreEmptyCells /\ FreshCellsEmpty /\ OverheadExact
  BY DEF EngineInv, HeapInv
<1>1. OccupiedCells = Cells
  BY DEF Collects, OccupiedCells
<1>2. m_hole_list = <<>>
  <2>1. ASSUME m_hole_list # <<>> PROVE FALSE
    <3>1. 1 \in DOMAIN m_hole_list /\ m_hole_list[1] \in Cells
      BY <1>0, <2>1, LenProperties, EmptySeq, ElementOfSeq DEF HeapTypeOK
    <3> QED
      BY <1>0, <3>1 DEF HolesAreEmptyCells, Collects
  <2> QED
    BY <2>1
<1>3. m_next_id = Capacity
  <2>1. m_next_id \in 0..Capacity
    <3>1. m_next_id \in 0..(Capacity + 1) /\ ~ (m_next_id > Capacity)
      BY <1>0 DEF HeapTypeOK, Collects, OutOfBounds
    <3> QED
      BY <3>1, HeapAssumption
  <2>2. m_next_id \notin Cells
    <3>1. m_next_id \in Cells => m_objects[m_next_id] = NoObject
      BY <1>0, <2>1 DEF FreshCellsEmpty
    <3> QED
      BY <3>1 DEF Collects
  <2> QED
    BY <2>1, <2>2, HeapAssumption DEF Cells
<1>4. m_overhead' = 0
  <2>1. m_overhead = ObjOverhead * Capacity
    BY <1>0, <1>1, CellsFinite DEF OverheadExact
  <2>2. m_overhead' = m_overhead - Capacity * ObjOverhead
    BY DEF Collects
  <2>3. ObjOverhead * Capacity = Capacity * ObjOverhead /\ Capacity * ObjOverhead \in Int
    BY HeapAssumption
  <2> QED
    BY <2>1, <2>2, <2>3
<1>5. m_hole_list' = [i \in 1..Capacity |-> i - 1]
  <2> DEFINE f == [i \in 1..Capacity |-> i - 1]
  <2>1. f \in [1..Capacity -> Cells]
    BY HeapAssumption DEF Cells
  <2>2. f \in Seq(Cells)
    BY <2>1, HeapAssumption, SeqDef
  <2> HIDE DEF f
  <2>3. <<>> \o f = f
    BY <2>2, ConcatEmptySeq
  <2> QED
    BY <1>2, <2>3 DEF Collects, f
<1>6. OccupiedCells' = {}
  BY DEF Collects, OccupiedCells, Cells
<1>7. Owned' = {}
  BY <1>6 DEF Owned
<1> QED
  BY <1>1, <1>2, <1>3, <1>4, <1>5, <1>6, <1>7

LEMMA CollectsInv == ASSUME EngineInv, Collects PROVE EngineInv'
<1> DEFINE f == [i \in 1..Capacity |-> i - 1]
<1>1. /\ OccupiedCells' = {} /\ Owned' = {} /\ m_overhead' = 0
      /\ m_hole_list' = f /\ m_next_id' = Capacity
  BY Collected DEF Collects
<1>2. f \in [1..Capacity -> Cells] /\ f \in Seq(Cells) /\ DOMAIN f = 1..Capacity
  <2>1. f \in [1..Capacity -> Cells]
    BY HeapAssumption DEF Cells
  <2> QED
    BY <2>1, HeapAssumption, SeqDef
<1>3. m_objects' = [c \in Cells |-> NoObject] /\ Cells' = Cells
  BY DEF Collects, Cells
<1>4. HeapTypeOK'
  BY <1>1, <1>2, <1>3, HeapAssumption DEF HeapTypeOK
<1>5. HolesAreEmptyCells'
  <2>1. \A i \in 1..Capacity : f[i] = i - 1
    OBVIOUS
  <2> HIDE DEF f
  <2>2. \A i \in DOMAIN f : f[i] < m_next_id' /\ m_objects'[f[i]] = NoObject
    BY <1>1, <1>2, <1>3, <2>1, HeapAssumption DEF Cells
  <2>3. \A i, j \in DOMAIN f : f[i] = f[j] => i = j
    BY <1>2, <2>1, HeapAssumption
  <2>4. \A c \in Cells : \E i \in DOMAIN f : f[i] = c
    <3>1. ASSUME NEW c \in Cells PROVE c + 1 \in DOMAIN f /\ f[c + 1] = c
      BY <1>2, <2>1, HeapAssumption DEF Cells
    <3> QED
      BY <3>1
  <2> QED
    BY <1>1, <1>3, <2>2, <2>3, <2>4 DEF HolesAreEmptyCells
<1> HIDE DEF f
<1>6. FreshCellsEmpty'
  BY <1>3 DEF FreshCellsEmpty
<1>7. OverheadExact'
  BY <1>1, FS_EmptySet, HeapAssumption DEF OverheadExact
<1>8. UniqueOwner'
  BY <1>1 DEF UniqueOwner
<1>9. HeapInv'
  BY <1>4, <1>5, <1>6, <1>7, <1>8 DEF HeapInv
<1>10. /\ contents' = [o \in Object |-> contents'[o]]
       /\ \A o \in Object : Shape(contents'[o]) /\ ~ Alive(contents', o)
  <2>1. contents' = [o \in Object |-> IF o \in Owned THEN Destroyed(contents[o])
                                      ELSE contents[o]]
    BY DEF Collects
  <2>2. ASSUME NEW o \in Object PROVE Shape(contents'[o]) /\ ~ Alive(contents', o)
    <3>1. CASE o \in Owned
      <4>1. contents'[o] = Destroyed(contents[o])
        BY <2>1, <3>1
      <4>2. Shape(contents[o]) /\ IsSeq(<<>>)
        BY EmptySeq DEF EngineInv, IsSeq
      <4>3. /\ DOMAIN Destroyed(contents[o]) = {"kind", "items", "frozen", "room", "gen"}
            /\ Destroyed(contents[o]).kind = "none" /\ Destroyed(contents[o]).items = <<>>
        BY <4>2 DEF Shape, Destroyed
      <4> QED
        BY <4>1, <4>2, <4>3 DEF Shape, Alive
    <3>2. CASE o \notin Owned
      BY <2>1, <3>2 DEF EngineInv, Alive, Collects
    <3> QED
      BY <3>1, <3>2
  <2>3. contents' = [o \in Object |-> contents'[o]]
    BY <2>1
  <2> QED
    BY <2>2, <2>3
<1>11. m_memory' = [r \in Regs |-> m_memory'[r]] /\ program' \in Programs
  BY DEF Collects, RegistersMove, EngineInv
<1> QED
  BY <1>1, <1>9, <1>10, <1>11 DEF EngineInv

\* It shows in the queue of holes, unless there are no cells at all.
LEMMA CollectsGood ==
    ASSUME EngineInv, Collects, PointersGood, Len(m_hole_list') <= Len(m_hole_list)
    PROVE  PointersGood'
<1> DEFINE f == [i \in 1..Capacity |-> i - 1]
<1>1. /\ m_hole_list = <<>> /\ m_hole_list' = f /\ OccupiedCells = Cells /\ Owned' = {}
  BY Collected
<1>2. Len(f) = Capacity
  BY HeapAssumption, SeqOfFunction
<1>3. Len(<<>>) = 0
  BY EmptySeq
<1>4. Capacity = 0
  BY <1>1, <1>2, <1>3, HeapAssumption
<1>5. Owned = {}
  BY <1>1, <1>4 DEF Owned, Cells
<1>6. contents' = contents
  BY <1>5 DEF Collects, EngineInv
<1>7. \A r \in Regs : Good(m_memory'[r])
  BY HeldGood DEF Collects, RegistersMove
<1> QED
  BY <1>1, <1>6, <1>7 DEF PointersGood, Good

LEMMA MakeStrCreates == ASSUME EngineInv, handle_make_str PROVE Creates \/ Moves
<1> DEFINE literal == m_objects[arg(2)]
<1>1. InRange /\ Instr.op = "make_str"
  BY DEF handle_make_str, Fetched
<1>2. literal \in Object \cup {NoObject}
  BY <1>1 DEF InRange, EngineInv, HeapInv, HeapTypeOK
<1>3. CASE Undefined
  BY <1>3, Stops
<1>4. ASSUME literal # NoObject, KeepsFrame,
             NEW o \in Object, CreateObject(o, "string", Text(contents[literal])),
             m_memory' = [m_memory EXCEPT ![Abs(1)] = Pointer(o, "string")]
      PROVE  Creates
  <2>1. PlainItems(Text(contents[literal]))
    BY <1>2, <1>4, TextPlain DEF EngineInv, PlainItems
  <2> HIDE DEF literal
  <2> QED
    BY <1>4, <2>1 DEF Creates, KeepsFrame
<1> QED
  BY <1>3, <1>4 DEF handle_make_str

LEMMA MakeSeqCreates == ASSUME EngineInv, handle_make_seq PROVE Creates
<1>1. PlainItems(<<>>)
  BY EmptySeq DEF PlainItems, IsSeq
<1>2. PICK o \in Object : /\ CreateObject(o, "sequence", <<>>)
                          /\ m_memory' = [m_memory EXCEPT ![Abs(1)] = Pointer(o, "sequence")]
  BY DEF handle_make_seq
<1>3. UNCHANGED program
  BY DEF handle_make_seq, KeepsFrame
<1> QED
  BY <1>1, <1>2, <1>3 DEF Creates

LEMMA RetMoves == ASSUME EngineInv, handle_ret PROVE Moves \/ Collects
<1>1. InRange /\ Instr.op = "ret" /\ Running
  BY DEF handle_ret, Fetched
<1>2. CASE Terminate
  BY <1>2, Stops
<1> DEFINE v == fetch_value(1)
<1>3. ASSUME CanFetch(1), NEW top, try_mark_and_sweep(top), UNCHANGED program,
             m_memory' = [m_memory EXCEPT ![m_rbp] = v]
      PROVE  Moves \/ Collects
  <2>1. Held(v)
    <3>1. 1 \in Sources(Instr.op)
      BY <1>1 DEF Sources, Arithmetic, Comparison
    <3> QED
      BY <1>1, <1>3, <3>1, FetchHeld
  <2> HIDE DEF v
  <2>2. RegistersMove
    BY <1>3, <2>1, RegisterWritten
  <2>3. CASE KeepsHeap
    BY <1>3, <2>2, <2>3, Writes
  <2>4. CASE ~ KeepsHeap
    BY <1>1, <1>3, <2>2, <2>4 DEF try_mark_and_sweep, CollectionFaults, Collects, Running
  <2> QED
    BY <2>3, <2>4
<1> QED
  BY <1>2, <1>3 DEF handle_ret

-----------------------------------------------------------------------------
(* The natives *)

\* The list of arguments is handed out.
HandsArgv ==
    /\ UNCHANGED <<heapVars, program, contents>>
    /\ Fetched("native_call") /\ NativeTable[arg(1) + 1] = "get_argv"
    /\ \E r : m_memory' = [m_memory EXCEPT ![r] = Pointer(m_program_argv_p, "sequence")]

LEMMA ArgumentHeld ==
    ASSUME EngineInv, NEW name, NEW argc, ~NativeUndefined(name, argc),
           NEW k, k \in Offsets(name)
    PROVE  Held(handle_native_fn_access(argc, k))
<1>1. BaseSlot(argc) + k \in Regs
  BY DEF NativeUndefined
<1> QED
  BY <1>1 DEF handle_native_fn_access, Held

LEMMA Returned ==
    ASSUME EngineInv, NEW v, Held(v), NEW argc, Returns(v, argc)
    PROVE  RegistersMove
<1>1. m_memory' = [m_memory EXCEPT ![BaseSlot(argc)] = v]
  BY DEF Returns, handle_native_fn_return
<1> QED
  BY <1>1, RegisterWritten

LEMMA SuccessMoves ==
    ASSUME EngineInv, UNCHANGED <<heapVars, program>>, Succeeds \/ Fails, ContentsMove
    PROVE  Moves
BY RegistersSame DEF Moves, Succeeds, Fails

\* Natives that only look at their arguments.
LEMMA AskingMoves ==
    ASSUME EngineInv, NEW argc, UNCHANGED program,
           \/ native_print_value(argc) \/ native_len_of(argc) \/ native_stoi(argc)
           \/ native_prompt(argc, {Int32(k) : k \in Ints}) \/ native_prompt(argc, Floats)
           \/ native_stof(argc)
    PROVE  Moves
<1>0. UNCHANGED <<heapVars, contents>>
  BY DEF native_print_value, native_len_of, native_stoi, native_prompt, native_stof
<1>1. ContentsMove
  BY <1>0, ContentsSame
<1>2. CASE Succeeds \/ Fails
  BY <1>0, <1>1, <1>2, SuccessMoves
<1>3. ASSUME NEW v, Plain(v), Returns(v, argc) PROVE Moves
  <2>1. RegistersMove
    BY <1>3, Returned DEF Held
  <2> QED
    BY <1>0, <1>1, <2>1 DEF Moves
<1>4. \A f \in Floats : Plain(f)
  BY TerminalAssumption DEF Double, Plain, to_object_ptr
<1>5. CASE native_print_value(argc)
  BY <1>5, <1>2 DEF native_print_value
<1>6. CASE native_len_of(argc)
  BY <1>6, <1>2, <1>3, PlainValues DEF native_len_of
<1>7. CASE native_stoi(argc)
  BY <1>7, <1>2, <1>3, PlainValues DEF native_stoi
<1>8. CASE native_prompt(argc, {Int32(k) : k \in Ints})
  BY <1>8, <1>3, PlainValues DEF native_prompt
<1>9. CASE native_prompt(argc, Floats)
  BY <1>9, <1>3, <1>4 DEF native_prompt
<1>10. CASE native_stof(argc)
  BY <1>10, <1>2, <1>3, <1>4 DEF native_stof
<1> QED
  BY <1>5, <1>6, <1>7, <1>8, <1>9, <1>10

LEMMA ListPushMoves ==
    ASSUME EngineInv, NEW argc, ~NativeUndefined("list_push_back", argc),
           UNCHANGED program, native_list_push_back(argc)
    PROVE  Moves
<1> DEFINE target == handle_native_fn_access(argc, 0)
<1> DEFINE v == handle_native_fn_access(argc, 1)
<1> DEFINE o == target.obj
<1> DEFINE d == push_value(contents[o], v)
<1>1. Held(target) /\ Held(v)
  BY ArgumentHeld DEF Offsets
<1>2. o \in Object => Becomes(contents[o], d, {v})
  BY PushShape DEF EngineInv
<1>3. CASE Fails /\ UNCHANGED contents
  BY <1>3, SuccessMoves, ContentsSame DEF native_list_push_back
<1>4. CASE /\ contents' = [contents EXCEPT ![o] = push_value(@, v)]
           /\ Returns(target, argc)
  <2>1. contents' = [contents EXCEPT ![o] = d]
    BY <1>4
  <2> HIDE DEF d, o, v, target
  <2>2. ContentsMove
    BY <1>1, <1>2, <2>1, ObjectBecomes
  <2>3. RegistersMove
    BY <1>1, <1>4, Returned
  <2> QED
    BY <2>2, <2>3 DEF Moves, native_list_push_back
<1> QED
  BY <1>3, <1>4 DEF native_list_push_back

LEMMA ListPopMoves ==
    ASSUME EngineInv, NEW argc, NEW name \in {"list_pop_back", "list_pop_front"},
           ~NativeUndefined(name, argc), UNCHANGED program,
           NEW end, native_list_pop(argc, end)
    PROVE  Moves
<1> DEFINE target == handle_native_fn_access(argc, 0)
<1> DEFINE o == target.obj
<1> DEFINE d == pop_value(contents[o], end)
<1> DEFINE old == pop_result(contents[o], end)
<1>1. CASE ~IsFlexibleList(target)
  BY <1>1, SuccessMoves, ContentsSame DEF native_list_pop
<1>2. CASE IsFlexibleList(target)
  <2>1. Alive(contents, o)
    <3>1. o \in Dereferenced(name, argc)
      BY <1>2 DEF IsFlexibleList, Dereferenced
    <3> QED
      BY <3>1 DEF NativeUndefined
  <2>2. o \in Object /\ contents[o].kind # "none" /\ Shape(contents[o])
    BY <2>1 DEF Alive, EngineInv
  <2>3. Becomes(contents[o], d, {}) /\ Held(old)
    BY <2>2, PopShape DEF Held
  <2>4. /\ contents' = [contents EXCEPT ![o] = d] /\ UNCHANGED heapVars
        /\ Fails \/ Returns(old, argc)
    BY <1>2 DEF native_list_pop
  <2> HIDE DEF d, old, o, target
  <2>5. ContentsMove
    BY <2>3, <2>4, ObjectKeeps
  <2>6. CASE Fails
    BY <2>4, <2>5, <2>6, SuccessMoves
  <2>7. CASE Returns(old, argc)
    <3>1. RegistersMove
      BY <2>3, <2>7, Returned
    <3> QED
      BY <2>4, <2>5, <3>1 DEF Moves
  <2> QED
    BY <2>4, <2>6, <2>7
<1> QED
  BY <1>1, <1>2

\* list_concat and strcat: the source's items come in.
LEMMA JoinMoves ==
    ASSUME EngineInv, NEW argc, NEW name \in {"list_concat", "strcat"},
           ~NativeUndefined(name, argc), UNCHANGED program,
           \/ name = "list_concat" /\ native_list_concat(argc)
           \/ name = "strcat" /\ native_strcat(argc)
    PROVE  Moves
<1> DEFINE source == ObjectArg(argc, 1)
<1> DEFINE target == ObjectArg(argc, 0)
<1>1. CASE Fails /\ UNCHANGED contents
  BY <1>1, SuccessMoves, ContentsSame DEF native_list_concat, native_strcat
<1>2. CASE /\ Succeeds /\ source # NoObject /\ target # NoObject
           /\ name = "list_concat" => IsFlexible(target)
           /\ contents' = [contents EXCEPT ![target] = push_all(@, contents[source].items)]
  <2> DEFINE items == contents[source].items
  <2> DEFINE d == push_all(contents[target], items)
  <2> DEFINE X == {items[k] : k \in DOMAIN items}
  <2>1. Alive(contents, source)
    <3>1. Offsets(name) = {0, 1}
      BY DEF Offsets
    <3>2. source \in Dereferenced(name, argc)
      BY <1>2, <3>1 DEF Dereferenced
    <3> QED
      BY <3>2 DEF NativeUndefined
  <2>2. source \in Object /\ contents[source].kind # "none" /\ IsSeq(items)
    BY <2>1 DEF Alive, EngineInv, Shape
  <2>3. \A v \in X : Held(v)
    BY <2>2 DEF Held
  <2>4. target \in Object => Becomes(contents[target], d, X)
    BY <2>2, PushAllShape DEF EngineInv
  <2>5. contents' = [contents EXCEPT ![target] = d]
    BY <1>2
  <2>6. UNCHANGED heapVars
    BY DEF native_list_concat, native_strcat
  <2> HIDE DEF d, X, source, target, items
  <2>7. ContentsMove
    BY <2>3, <2>4, <2>5, ObjectBecomes
  <2> QED
    BY <1>2, <2>6, <2>7, SuccessMoves
<1> QED
  BY <1>1, <1>2 DEF native_list_concat, native_strcat

LEMMA TextLength ==
    ASSUME NEW c, Shape(c), c.kind = "string"
    PROVE  Len(Text(c)) = Len(c.items) /\ DOMAIN Text(c) = 1..Len(c.items)
<1>1. Len(c.items) \in Nat /\ DOMAIN c.items = 1..Len(c.items)
  BY SeqLength DEF Shape
<1>2. Text(c) = [i \in 1..Len(c.items) |-> Chr8(ScalarOr0(c.items[i]) % 128)]
  BY <1>1 DEF Text
<1> QED
  BY <1>1, <1>2, SeqOfFunction

\* A slice that is neither refused nor thrown out of lies within the text.
LEMMA SliceItems ==
    ASSUME EngineInv, NEW argc, ~NativeUndefined("substr", argc),
           SliceFits(argc), ~SliceThrows(argc)
    PROVE  LET c == contents[ObjectArg(argc, 0)]
           IN /\ ObjectArg(argc, 0) \in Object /\ IsSeq(Slice(argc))
              /\ \A i \in DOMAIN Slice(argc) :
                    \E k \in DOMAIN Text(c) : Slice(argc)[i] = Text(c)[k]
<1> DEFINE c == contents[ObjectArg(argc, 0)]
<1> DEFINE text == Text(c)
<1> DEFINE b == SliceBegin(argc)
<1> DEFINE taken == {i \in DOMAIN text : i > b /\
                       (SliceLen(argc) < 0 \/ i <= b + SliceLen(argc))}
<1> DEFINE n == Len(c.items)
<1>1. Shape(c) /\ c.kind = "string" /\ ObjectArg(argc, 0) \in Object
  <2>1. ObjectArg(argc, 0) # NoObject /\ c.kind = "string"
    BY DEF SliceFits, TagOf
  <2>2. ObjectArg(argc, 0) \in Dereferenced("substr", argc)
    BY <2>1 DEF Dereferenced
  <2>3. Alive(contents, ObjectArg(argc, 0))
    BY <2>2 DEF NativeUndefined
  <2> QED
    BY <2>1, <2>3 DEF Alive, EngineInv
<1>2. n \in Nat /\ b \in 0..n
  BY <1>1, SeqLength DEF Shape, SliceThrows
<1>3. DOMAIN text = 1..n
  BY <1>1, TextLength
<1>4. Slice(argc) = [i \in 1..Cardinality(taken) |-> text[b + i]]
  BY DEF Slice
<1> HIDE DEF text, b, c, n
<1>5. taken \subseteq (b + 1)..n
  BY <1>2, <1>3
<1>6. IsFiniteSet((b + 1)..n) /\ Cardinality((b + 1)..n) <= n - b
  <2>1. b + 1 \in Int /\ n \in Int
    BY <1>2
  <2>2. /\ IsFiniteSet((b + 1)..n)
        /\ Cardinality((b + 1)..n) = IF b + 1 > n THEN 0 ELSE n - (b + 1) + 1
    BY <2>1, FS_Interval
  <2> QED
    BY <1>2, <2>2
<1> HIDE DEF taken
<1>7. Cardinality(taken) \in Nat /\ Cardinality(taken) <= n - b
  <2>1. /\ IsFiniteSet(taken) /\ Cardinality(taken) \in Nat
        /\ Cardinality(taken) <= Cardinality((b + 1)..n)
    BY <1>5, <1>6, FS_Subset, FS_CardinalityType
  <2>2. Cardinality((b + 1)..n) \in Nat
    BY <1>6, FS_CardinalityType
  <2> QED
    BY <1>2, <1>6, <2>1, <2>2
<1>8. \A i \in 1..Cardinality(taken) : b + i \in 1..n
  BY <1>2, <1>7
<1> DEFINE f == [i \in 1..Cardinality(taken) |-> text[b + i]]
<1>9. IsSeq(f) /\ DOMAIN f = 1..Cardinality(taken)
  BY <1>7, SeqOfFunction
<1>10. \A i \in DOMAIN f : \E k \in DOMAIN text : f[i] = text[k]
  BY <1>3, <1>8, <1>9
<1> QED
  BY <1>1, <1>4, <1>9, <1>10 DEF text, c

LEMMA SlicePlain ==
    ASSUME EngineInv, NEW argc, ~NativeUndefined("substr", argc),
           SliceFits(argc), ~SliceThrows(argc)
    PROVE  PlainItems(Slice(argc))
<1> DEFINE c == contents[ObjectArg(argc, 0)]
<1>1. /\ ObjectArg(argc, 0) \in Object /\ IsSeq(Slice(argc))
      /\ \A i \in DOMAIN Slice(argc) :
            \E k \in DOMAIN Text(c) : Slice(argc)[i] = Text(c)[k]
  BY SliceItems
<1>2. \A k \in DOMAIN Text(c) : Plain(Text(c)[k])
  BY <1>1, TextPlain DEF EngineInv
<1> QED
  BY <1>1, <1>2 DEF PlainItems

LEMMA SubstrMoves ==
    ASSUME EngineInv, NEW argc, ~NativeUndefined("substr", argc),
           ~NativeTerminates("substr", argc), UNCHANGED program, native_substr(argc)
    PROVE  Moves \/ Creates
<1>1. CASE ~SliceFits(argc)
  BY <1>1, SuccessMoves, ContentsSame DEF native_substr
<1>2. CASE SliceFits(argc)
  <2>1. PlainItems(Slice(argc))
    BY <1>2, SlicePlain DEF NativeTerminates
  <2>2. PICK o \in Object : /\ CreateObject(o, "string", Slice(argc))
                            /\ Returns(Pointer(o, "string"), argc)
    BY <1>2 DEF native_substr
  <2>3. m_memory' = [m_memory EXCEPT ![BaseSlot(argc)] = Pointer(o, "string")]
    BY <2>2 DEF Returns, handle_native_fn_return
  <2> QED
    BY <2>1, <2>2, <2>3 DEF Creates
<1> QED
  BY <1>1, <1>2

LEMMA ReadlnCreates ==
    ASSUME NEW argc, UNCHANGED program, native_readln(argc)
    PROVE  Creates
<1>1. PICK o \in Object, line \in Lines : /\ CreateObject(o, "string", line)
                                          /\ Returns(Pointer(o, "string"), argc)
  BY DEF native_readln
<1>2. line \in Seq(Character)
  BY TerminalAssumption
<1>3. PlainItems(line)
  <2>1. \A i \in DOMAIN line : line[i] \in Character
    BY <1>2, LenProperties, ElementOfSeq
  <2> QED
    BY <1>2, <2>1 DEF PlainItems, IsSeq, Plain, Character, to_object_ptr
<1>4. m_memory' = [m_memory EXCEPT ![BaseSlot(argc)] = Pointer(o, "string")]
  BY <1>1 DEF Returns, handle_native_fn_return
<1> QED
  BY <1>1, <1>3, <1>4 DEF Creates

LEMMA NativeMoves ==
    ASSUME EngineInv, handle_native_call
    PROVE  Moves \/ Creates \/ HandsArgv
<1> DEFINE name == NativeTable[arg(1) + 1]
<1> DEFINE argc == arg(2)
<1>1. CASE Undefined \/ Terminate
  BY <1>1, Stops
<1>2. CASE /\ ~NativeUndefined(name, argc) /\ ~NativeTerminates(name, argc)
           /\ Native(name, argc) /\ UNCHANGED program
  <2>0. Fetched("native_call")
    BY DEF handle_native_call
  <2>1. CASE name = "get_argv" /\ native_get_argv(argc)
    BY <1>2, <2>0, <2>1 DEF HandsArgv, native_get_argv, Returns, handle_native_fn_return
  <2> HIDE DEF name, argc
  <2>2. CASE \/ native_print_value(argc) \/ native_len_of(argc) \/ native_stoi(argc)
             \/ native_prompt(argc, {Int32(k) : k \in Ints})
             \/ native_prompt(argc, Floats) \/ native_stof(argc)
    BY <1>2, <2>2, AskingMoves
  <2>3. CASE name = "readln" /\ native_readln(argc)
    BY <1>2, <2>3, ReadlnCreates
  <2>4. CASE name = "list_push_back" /\ native_list_push_back(argc)
    BY <1>2, <2>4, ListPushMoves
  <2>5. CASE name = "list_pop_back" /\ native_list_pop(argc, "back")
    BY <1>2, <2>5, ListPopMoves
  <2>6. CASE name = "list_pop_front" /\ native_list_pop(argc, "front")
    BY <1>2, <2>6, ListPopMoves
  <2>7. CASE \/ name = "list_concat" /\ native_list_concat(argc)
             \/ name = "strcat" /\ native_strcat(argc)
    <3>1. name \in {"list_concat", "strcat"}
      BY <2>7
    <3> QED
      BY <1>2, <2>7, <3>1, JoinMoves
  <2>8. CASE name = "substr" /\ native_substr(argc)
    BY <1>2, <2>8, SubstrMoves
  <2> QED
    BY <1>2, <2>1, <2>2, <2>3, <2>4, <2>5, <2>6, <2>7, <2>8 DEF Native
<1> QED
  BY <1>1, <1>2 DEF handle_native_call

-----------------------------------------------------------------------------
(* Every step is one of four *)

LEMMA HandsArgvInv == ASSUME EngineInv, HandsArgv PROVE EngineInv'
<1>1. UNCHANGED <<heapVars, program, contents>>
  BY DEF HandsArgv
<1>2. HeapInv'
  BY <1>1, NextInv DEF EngineInv
<1>3. PICK r : m_memory' = [m_memory EXCEPT ![r] = Pointer(m_program_argv_p, "sequence")]
  BY DEF HandsArgv
<1>4. m_memory' = [q \in Regs |-> m_memory'[q]]
  <2>1. DOMAIN m_memory = Regs
    BY DEF EngineInv
  <2>2. m_memory' = [q \in Regs |-> IF q = r THEN Pointer(m_program_argv_p, "sequence")
                                    ELSE m_memory[q]]
    BY <1>3, <2>1
  <2> QED
    BY <2>2
<1>5. OutOfBounds' = OutOfBounds /\ Owned' = Owned
  BY <1>1 DEF heapVars, OutOfBounds, Owned, OccupiedCells
<1> QED
  BY <1>1, <1>2, <1>4, <1>5 DEF EngineInv, Alive, Shape

LEMMA HandsArgvGood ==
    ASSUME EngineInv, HandsArgv, PointersGood, ~StaleArgv
    PROVE  PointersGood'
<1> DEFINE v == Pointer(m_program_argv_p, "sequence")
<1>1. Good(v)
  BY DEF StaleArgv, HandsArgv
<1>2. \A q \in Regs : m_memory'[q] = v \/ m_memory'[q] = m_memory[q]
  BY DEF HandsArgv, EngineInv
<1> HIDE DEF v
<1>3. UNCHANGED contents /\ Owned' = Owned
  BY DEF HandsArgv, heapVars, Owned, OccupiedCells
<1> QED
  BY <1>1, <1>2, <1>3 DEF PointersGood, Good, Alive

LEMMA StepKinds ==
    ASSUME EngineInv, Step
    PROVE  ~OutOfBounds /\ (Moves \/ Creates \/ Collects \/ HandsArgv)
<1>1. ~OutOfBounds
  BY DEF Step, nop, handle_make_str, handle_make_seq, handle_seq_obj_push,
         handle_seq_obj_pop, handle_seq_obj_get, handle_frz_seq_obj, handle_load_const,
         handle_mov, handle_neg, handle_inc_dec_halt, handle_assigning, handle_dividing,
         handle_cmp, handle_jump, handle_call, handle_ret, handle_native_call,
         OutOfRangeAccess, Fetched, Running
<1>2. CASE nop \/ handle_inc_dec_halt \/ handle_jump \/ handle_call \/ OutOfRangeAccess
  BY <1>1, <1>2, ControlMoves
<1>3. CASE handle_make_str \/ handle_make_seq
  BY <1>1, <1>3, MakeStrCreates, MakeSeqCreates
<1>4. CASE handle_seq_obj_push \/ handle_seq_obj_pop \/ handle_seq_obj_get
           \/ handle_frz_seq_obj
  BY <1>1, <1>4, PushMoves, PopMoves, GetMoves, FreezeMoves
<1>5. CASE handle_load_const \/ handle_mov \/ handle_neg
  BY <1>1, <1>5, LoadMoves, MovMoves, NegMoves
<1>6. CASE \/ \E op \in {"mul", "add", "sub"} : handle_assigning(op)
           \/ \E op \in {"div", "mod"} : handle_dividing(op)
           \/ \E op \in Comparison : handle_cmp(op)
  BY <1>1, <1>6, AssigningMoves, DividingMoves, CmpMoves
<1>7. CASE handle_ret
  BY <1>1, <1>7, RetMoves
<1>8. CASE handle_native_call
  BY <1>1, <1>8, NativeMoves
<1> QED
  BY <1>1, <1>2, <1>3, <1>4, <1>5, <1>6, <1>7, <1>8 DEF Step

LEMMA EngineNextInv == EngineInv /\ [Next]_vars => EngineInv'
<1>1. ASSUME EngineInv, Step PROVE EngineInv'
  BY <1>1, StepKinds, MovesInv, CreatesInv, CollectsInv, HandsArgvInv
<1>2. ASSUME EngineInv, UNCHANGED vars PROVE EngineInv'
  <2>1. UNCHANGED <<heapVars, program, m_memory, contents>>
    BY <1>2 DEF vars, machineVars
  <2>2. Moves
    BY <1>2, <2>1, RegistersSame, ContentsSame DEF Moves
  <2> QED
    BY <1>2, <2>2, MovesInv
<1> QED
  BY <1>1, <1>2 DEF Next, Stopped

-----------------------------------------------------------------------------
(* The constructor *)

LEMMA InitialItemsSeq ==
    ASSUME NEW i \in DOMAIN Preloads
    PROVE  IsSeq(InitialItems(i))
<1>1. /\ Len(Literals) \in Nat /\ Len(Arguments) \in Nat
      /\ DOMAIN Literals = 1..Len(Literals) /\ DOMAIN Arguments = 1..Len(Arguments)
      /\ DOMAIN Preloads = 1..Len(Preloads)
  BY EngineAssumption, HeapAssumption, LenProperties
<1>2. i \in 1..(Len(Literals) + 1 + Len(Arguments))
  BY <1>1, EngineAssumption
<1>3. CASE i <= Len(Literals)
  <2>1. InitialItems(i) = Literals[i]
    BY <1>1, <1>2, <1>3 DEF InitialItems, ArgvCell
  <2>2. Literals[i] \in Seq(Character)
    BY <1>1, <1>2, <1>3, EngineAssumption, ElementOfSeq
  <2> QED
    BY <2>1, <2>2 DEF IsSeq
<1>4. CASE i = ArgvCell + 1
  <2>1. InitialItems(i) = [k \in 1..Len(Arguments) |-> Pointer(Preloads[i + k], "string")]
    BY <1>1, <1>4 DEF InitialItems, ArgvCell
  <2> QED
    BY <2>1, <1>1, SeqOfFunction
<1>5. CASE ~ (i <= Len(Literals)) /\ i # ArgvCell + 1
  <2>1. InitialItems(i) = Arguments[i - ArgvCell - 1]
    BY <1>5 DEF InitialItems
  <2>2. i - ArgvCell - 1 \in 1..Len(Arguments)
    BY <1>1, <1>2, <1>5 DEF ArgvCell
  <2>3. Arguments[i - ArgvCell - 1] \in Seq(Character)
    BY <2>2, EngineAssumption, ElementOfSeq
  <2> QED
    BY <2>1, <2>3 DEF IsSeq
<1> QED
  BY <1>3, <1>4, <1>5

LEMMA InitialOwned ==
    ASSUME HeapInit, NEW o
    PROVE  o \in Owned <=> \E i \in DOMAIN Preloads : Preloads[i] = o
<1>1. Len(Preloads) \in Nat /\ DOMAIN Preloads = 1..Len(Preloads)
  BY HeapAssumption, LenProperties
<1>2. OccupiedCells = 0..(Len(Preloads) - 1)
  BY InitialCells
<1>3. \A c \in OccupiedCells : m_objects[c] = Preloads[c + 1]
  BY <1>1, <1>2, HeapAssumption DEF HeapInit, OccupiedCells, Cells
<1>4. ASSUME o \in Owned PROVE \E i \in DOMAIN Preloads : Preloads[i] = o
  <2>1. PICK c \in OccupiedCells : o = m_objects[c]
    BY <1>4 DEF Owned
  <2>2. c + 1 \in DOMAIN Preloads
    BY <1>1, <1>2
  <2> QED
    BY <2>1, <2>2, <1>3
<1>5. ASSUME NEW i \in DOMAIN Preloads, Preloads[i] = o PROVE o \in Owned
  <2>1. i - 1 \in OccupiedCells /\ (i - 1) + 1 = i
    BY <1>1, <1>2
  <2> QED
    BY <2>1, <1>3, <1>5 DEF Owned
<1> QED
  BY <1>4, <1>5

LEMMA EngineInitInv == ASSUME Init PROVE EngineInv
<1>1. HeapInv
  BY InitInv DEF Init
<1>2. program \in Programs /\ m_memory = [r \in Regs |-> m_memory[r]]
  BY DEF Init
<1>3. contents = [o \in Object |-> contents[o]]
  BY DEF Init, InitialContents
<1>4. ASSUME NEW o \in Object
      PROVE  Shape(contents[o]) /\ (Alive(contents, o) <=> o \in Owned)
  <2> DEFINE never == [kind |-> "none", items |-> <<>>, frozen |-> FALSE, room |-> 0,
                       gen |-> 0]
  <2>1. CASE \E i \in DOMAIN Preloads : Preloads[i] = o
    <3> DEFINE i == CHOOSE i \in DOMAIN Preloads : Preloads[i] = o
    <3> DEFINE kind == IF i = ArgvCell + 1 THEN "sequence" ELSE "string"
    <3>1. contents[o] = NewObject(never, kind, InitialItems(i))
      BY <2>1 DEF Init, InitialContents
    <3>2. i \in DOMAIN Preloads
      BY <2>1
    <3>3. kind # "none"
      OBVIOUS
    <3> HIDE DEF i, kind, never
    <3>4. /\ DOMAIN contents[o] = {"kind", "items", "frozen", "room", "gen"}
          /\ contents[o].kind = kind /\ contents[o].items = InitialItems(i)
      BY <3>1 DEF NewObject
    <3>5. IsSeq(InitialItems(i))
      BY <3>2, InitialItemsSeq
    <3>6. o \in Owned
      BY <2>1, InitialOwned DEF Init
    <3> QED
      BY <3>3, <3>4, <3>5, <3>6 DEF Shape, Alive
  <2>2. CASE ~ \E i \in DOMAIN Preloads : Preloads[i] = o
    <3>1. contents[o] = never
      BY <2>2 DEF Init, InitialContents
    <3>2. o \notin Owned
      BY <2>2, InitialOwned DEF Init
    <3>3. IsSeq(<<>>)
      BY EmptySeq DEF IsSeq
    <3> QED
      BY <3>1, <3>2, <3>3 DEF Shape, Alive
  <2> QED
    BY <2>1, <2>2
<1> QED
  BY <1>1, <1>2, <1>3, <1>4 DEF EngineInv

-----------------------------------------------------------------------------
(* Theorems *)

\* Whatever is run, the heap is sound, every object has a kind and items, and the
\* living objects are those that cells own, until a creation overruns the vector of
\* cells (vm.cpp, heap_storage.cpp).
THEOREM EngineSafety == Spec => []EngineInv
<1>1. Init => EngineInv
  BY EngineInitInv
<1> QED
  BY <1>1, EngineNextInv, PTL DEF Spec

\* No handler, native or collection puts the holes, the score or the cells out of step
\* with the objects (heap_storage.cpp:7, 43, vm.cpp:130).
THEOREM EngineHeapInStep == Spec => []HeapInStep
<1>1. EngineInv => HeapInStep
  BY DEF EngineInv, HeapInv, HeapInStep
<1> QED
  BY <1>1, EngineSafety, PTL

\* No handler copies a pointer to an object that is gone, or to one of another kind,
\* and none destroys an object under a pointer: that takes a collection, or get_argv
\* after one (vm.cpp, mnl_utils.cpp:61).
THEOREM PointersOutlive == Spec => OnlyCollectionDangles
<1> DEFINE Keeps == PointersGood /\ Len(m_hole_list') <= Len(m_hole_list) /\ ~StaleArgv
                      => PointersGood'
<1>1. ASSUME EngineInv, [Next]_vars PROVE [Keeps]_vars
  <2>1. CASE Step
    <3> SUFFICES ASSUME PointersGood, Len(m_hole_list') <= Len(m_hole_list), ~StaleArgv
                 PROVE  PointersGood'
      OBVIOUS
    <3>1. ~OutOfBounds /\ (Moves \/ Creates \/ Collects \/ HandsArgv)
      BY <1>1, <2>1, StepKinds
    <3> QED
      BY <1>1, <3>1, MovesGood, CreatesGood, CollectsGood, HandsArgvGood
  <2>2. CASE UNCHANGED vars
    BY <2>2
  <2> QED
    BY <1>1, <2>1, <2>2 DEF Next, Stopped
<1> QED
  BY <1>1, EngineSafety, PTL DEF Spec, OnlyCollectionDangles

-----------------------------------------------------------------------------
(* What the machine keeps of its types *)

Frame == [func : Int, ip : Nat, base : Int, top : Int, status : {"ok"}]

Statuses == {"ok", "setup_error", "op_error", "arg_error", "mem_error", "math_error"}

\* The call frames and the special registers.
ControlOK ==
    /\ m_call_frames \in Seq(Frame)
    /\ m_rfi \in Int /\ m_rip \in Nat /\ m_rbp \in Int /\ m_rft \in Int
    /\ m_res \in Statuses
    /\ fault \in {"none", "undefined", "terminate"}

\* The strengthening of EngineTypeOK that the handlers keep: doubles have
\* denominators, references no negative index, and every object, dead or alive, has
\* room for its items.
TypedInv ==
    /\ EngineInv
    /\ m_memory \in [Regs -> Valued]
    /\ contents \in [Object -> Kempt]
    /\ ControlOK

\* What a step does to registers and objects.
ValuesStep == m_memory' \in [Regs -> Valued] /\ contents' \in [Object -> Kempt]

TuplesKeepSize ==
    \A o \in Object :
       Alive(contents, o) /\ contents[o].frozen /\ Alive(contents', o) =>
          Len(contents'[o].items) = Len(contents[o].items)

Steady == ValuesStep /\ (PushesFrozen \/ TuplesKeepSize)

-----------------------------------------------------------------------------
(* Registers and objects *)

LEMMA MemoryWritten ==
    ASSUME TypedInv, NEW r, NEW v \in Valued, m_memory' = [m_memory EXCEPT ![r] = v]
    PROVE  m_memory' \in [Regs -> Valued]
BY DEF TypedInv

\* One object becomes another, of the same size if it is frozen.
LEMMA ObjectTurns ==
    ASSUME TypedInv, NEW o, NEW d,
           o \in Object => /\ d \in Kempt
                           /\ contents[o].frozen => Len(d.items) = Len(contents[o].items),
           contents' = [contents EXCEPT ![o] = d]
    PROVE  contents' \in [Object -> Kempt] /\ TuplesKeepSize
<1>1. contents' = [p \in Object |-> IF p = o THEN d ELSE contents[p]]
  BY DEF TypedInv
<1>2. \A p \in Object : contents'[p] = IF p = o THEN d ELSE contents[p]
  BY <1>1
<1>3. contents' \in [Object -> Kempt]
  BY <1>1 DEF TypedInv
<1>4. TuplesKeepSize
  BY <1>2 DEF TuplesKeepSize
<1> QED
  BY <1>3, <1>4

LEMMA SteadySame ==
    ASSUME TypedInv, UNCHANGED contents, m_memory' \in [Regs -> Valued]
    PROVE  Steady
BY DEF TypedInv, Steady, ValuesStep, TuplesKeepSize

LEMMA SteadyTurn ==
    ASSUME TypedInv, m_memory' \in [Regs -> Valued], NEW o, NEW d,
           o \in Object => /\ d \in Kempt
                           /\ contents[o].frozen => Len(d.items) = Len(contents[o].items),
           contents' = [contents EXCEPT ![o] = d]
    PROVE  Steady
<1>1. contents' \in [Object -> Kempt] /\ TuplesKeepSize
  BY ObjectTurns
<1> QED
  BY <1>1 DEF Steady, ValuesStep

\* A value is written where a sound reference leads.
LEMMA SteadyThrough ==
    ASSUME TypedInv, NEW ref \in Valued, ref.tag = "val_ref", ~Dangles(contents, ref),
           NEW v \in Valued, WriteThrough(ref, v), m_memory' \in [Regs -> Valued]
    PROVE  Steady
<1> DEFINE last == LastRef(contents, ref)
<1> DEFINE o == last.obj
<1> DEFINE k == last.n + 1
<1> DEFINE d == [contents[o] EXCEPT !.items = [contents[o].items EXCEPT ![k] = v]]
<1>1. o \in Object /\ k \in 1..Len(contents[o].items)
  BY LastItem DEF TypedInv
<1>2. contents' = [contents EXCEPT ![o].items[k] = v]
  BY DEF WriteThrough
<1> HIDE DEF last, k
<1>3. contents' = [contents EXCEPT ![o] = d]
  BY <1>2
<1>4. d \in Kempt /\ Len(d.items) = Len(contents[o].items)
  <2>1. contents[o] \in Kempt
    BY <1>1 DEF TypedInv
  <2> QED
    BY <1>1, <2>1, ItemKempt
<1> HIDE DEF d, o
<1> QED
  BY <1>3, <1>4, SteadyTurn

\* A new object takes an address where none is alive.
LEMMA SteadyCreate ==
    ASSUME TypedInv, NEW o \in Object, NEW kind \in {"string", "sequence"},
           NEW items \in Seq(Valued), CreateObject(o, kind, items), NEW r,
           m_memory' = [m_memory EXCEPT ![r] = Pointer(o, kind)]
    PROVE  Steady
<1>1. m_memory' \in [Regs -> Valued]
  BY PointerValued, MemoryWritten
<1>2. /\ ~OutOfBounds /\ o \notin Owned
      /\ contents' = [p \in Object |-> contents'[p]]
      /\ contents'[o] = NewObject(contents[o], kind, items)
      /\ \A p \in Object : p # o => contents'[p] = contents[p]
  BY Created DEF TypedInv
<1>3. contents'[o] \in Kempt
  <2>1. contents[o] \in Kempt
    BY DEF TypedInv
  <2>2. contents[o].gen \in Nat
    BY <2>1, KemptParts
  <2> QED
    BY <1>2, <2>2, NewKempt
<1>4. ~Alive(contents, o)
  BY <1>2 DEF TypedInv, EngineInv
<1>5. \A p \in Object : contents'[p] \in Kempt
  BY <1>2, <1>3 DEF TypedInv
<1>6. contents' \in [Object -> Kempt]
  BY <1>2, <1>5
<1>7. TuplesKeepSize
  BY <1>2, <1>4 DEF TuplesKeepSize
<1> QED
  BY <1>1, <1>6, <1>7 DEF Steady, ValuesStep

LEMMA FetchValued ==
    ASSUME TypedInv, InRange, NEW i \in 1..3, i \in Sources(Instr.op), CanFetch(i)
    PROVE  fetch_value(i) \in Valued
<1>1. CASE mode(i) = "constant"
  <2>1. arg(i) + 1 \in DOMAIN Constants
    BY <1>1 DEF InRange, Constant
  <2>2. Spelled(Constants[arg(i) + 1])
    BY <2>1, EngineAssumption DEF TypedInv, EngineInv, Constants, WellFormed
  <2> QED
    BY <1>1, <2>2 DEF fetch_value, Spelled, Double, Valued, Sensible
<1>2. CASE mode(i) = "reg"
  <2>1. Abs(i) \in Regs
    BY <1>2 DEF InRange
  <2> QED
    BY <1>2, <2>1 DEF fetch_value, TypedInv
<1> QED
  BY <1>1, <1>2 DEF CanFetch

-----------------------------------------------------------------------------
(* The handlers, on registers and objects *)

LEMMA StopsSteady ==
    ASSUME TypedInv, NEW status, Undefined \/ Terminate \/ Error(status)
    PROVE  Steady
<1>1. UNCHANGED <<m_memory, contents>>
  BY DEF Undefined, Terminate, Error, KeepsFrame, KeepsHeap, machineVars
<1> QED
  BY <1>1, SteadySame DEF TypedInv

LEMMA ControlSteady ==
    ASSUME TypedInv, nop \/ handle_inc_dec_halt \/ handle_jump \/ handle_call
                     \/ OutOfRangeAccess
    PROVE  Steady
<1>1. CASE Undefined \/ Error("op_error")
  BY <1>1, StopsSteady
<1>2. CASE UNCHANGED <<m_memory, contents>>
  BY <1>2, SteadySame DEF TypedInv
<1> QED
  BY <1>1, <1>2 DEF nop, handle_inc_dec_halt, handle_jump, handle_call, OutOfRangeAccess,
                    KeepsHeap

LEMMA PushSteady == ASSUME TypedInv, handle_seq_obj_push PROVE Steady
<1>1. Fetched("seq_obj_push") /\ InRange /\ Instr.op = "seq_obj_push"
  BY DEF handle_seq_obj_push, Fetched
<1>2. CASE Error("mem_error") \/ Undefined
  BY <1>2, StopsSteady
<1> DEFINE o == to_object_ptr(m_memory[Abs(1)])
<1> DEFINE v == fetch_value(2)
<1>3. CASE /\ CanFetch(2) /\ Alive(contents, o) /\ UNCHANGED m_memory
           /\ contents' = [contents EXCEPT ![o] = push_value(@, v)]
  <2>1. v \in Valued
    <3>1. 2 \in Sources(Instr.op)
      BY <1>1 DEF Sources, Arithmetic, Comparison
    <3> QED
      BY <1>1, <1>3, <3>1, FetchValued
  <2>2. PushesFrozen \/ ~contents[o].frozen
    BY <1>1, <1>3 DEF PushesFrozen
  <2> HIDE DEF o, v
  <2> DEFINE d == push_value(contents[o], v)
  <2>3. o \in Object /\ contents[o] \in Kempt
    BY <1>3 DEF Alive, TypedInv
  <2>4. d \in Kempt
    BY <2>1, <2>3, PushKempt
  <2>5. contents' = [contents EXCEPT ![o] = d]
    BY <1>3
  <2> HIDE DEF d
  <2>6. contents' \in [Object -> Kempt] /\ m_memory' \in [Regs -> Valued]
    BY <1>3, <2>4, <2>5 DEF TypedInv
  <2>7. CASE ~contents[o].frozen
    BY <2>4, <2>5, <2>6, <2>7, SteadyTurn
  <2> QED
    BY <2>2, <2>6, <2>7 DEF Steady, ValuesStep
<1> QED
  BY <1>2, <1>3 DEF handle_seq_obj_push, OnObject

LEMMA PopSteady == ASSUME TypedInv, handle_seq_obj_pop PROVE Steady
<1> DEFINE end == IF arg(3) = 1 THEN "back" ELSE "front"
<1>1. CASE Error("mem_error") \/ Undefined
  BY <1>1, StopsSteady
<1>2. ASSUME NEW o, Alive(contents, o),
             m_memory' = [m_memory EXCEPT ![Abs(1)] = pop_result(contents[o], end)],
             contents' = [contents EXCEPT ![o] = pop_value(@, end)]
      PROVE  Steady
  <2> HIDE DEF end
  <2> DEFINE v == pop_result(contents[o], end)
  <2> DEFINE d == pop_value(contents[o], end)
  <2>1. o \in Object /\ contents[o] \in Kempt
    BY <1>2 DEF Alive, TypedInv
  <2>2. v \in Valued /\ d \in Kempt /\ (contents[o].frozen => d = contents[o])
    BY <2>1, PopKempt
  <2>3. /\ contents' = [contents EXCEPT ![o] = d]
        /\ m_memory' = [m_memory EXCEPT ![Abs(1)] = v]
    BY <1>2
  <2> HIDE DEF d, v
  <2>4. m_memory' \in [Regs -> Valued]
    BY <2>2, <2>3, MemoryWritten
  <2> QED
    BY <2>2, <2>3, <2>4, SteadyTurn
<1> QED
  BY <1>1, <1>2 DEF handle_seq_obj_pop, OnObject

LEMMA GetSteady == ASSUME TypedInv, handle_seq_obj_get PROVE Steady
<1>1. CASE Error("mem_error") \/ Error("arg_error") \/ Undefined
  BY <1>1, StopsSteady
<1> DEFINE o == to_object_ptr(m_memory[Abs(2)])
<1> DEFINE pos == to_scalar(fetch_value(3))
<1> DEFINE v == [tag |-> "val_ref", n |-> pos, m |-> contents[o].gen, obj |-> o]
<1>2. CASE /\ Alive(contents, o) /\ pos \in 0..(Len(contents[o].items) - 1)
           /\ m_memory' = [m_memory EXCEPT ![Abs(1)] = v] /\ UNCHANGED contents
  <2> HIDE DEF o, pos
  <2>1. o \in Object /\ contents[o] \in Kempt
    BY <1>2 DEF Alive, TypedInv
  <2>2. contents[o].gen \in Nat /\ Len(contents[o].items) \in Nat
    BY <2>1, KemptParts
  <2>3. pos \in Int /\ pos >= 0
    BY <1>2, <2>2
  <2>4. v \in Valued
    BY <2>1, <2>2, <2>3 DEF Valued, Value, Sensible, Tags
  <2> HIDE DEF v
  <2>5. m_memory' \in [Regs -> Valued]
    BY <1>2, <2>4, MemoryWritten
  <2> QED
    BY <1>2, <2>5, SteadySame
<1> QED
  BY <1>1, <1>2 DEF handle_seq_obj_get, OnObject, KeepsHeap

LEMMA FreezeSteady == ASSUME TypedInv, handle_frz_seq_obj PROVE Steady
<1>1. CASE Error("mem_error") \/ Undefined
  BY <1>1, StopsSteady
<1>2. ASSUME NEW o, Alive(contents, o), UNCHANGED m_memory,
             contents' = [contents EXCEPT ![o] = freeze(@)]
      PROVE  Steady
  <2> DEFINE d == freeze(contents[o])
  <2>1. o \in Object /\ contents[o] \in Kempt
    BY <1>2 DEF Alive, TypedInv
  <2>2. d \in Kempt /\ d.items = contents[o].items
    BY <2>1, FreezeKempt
  <2>3. contents' = [contents EXCEPT ![o] = d] /\ m_memory' \in [Regs -> Valued]
    BY <1>2 DEF TypedInv
  <2> HIDE DEF d
  <2> QED
    BY <2>2, <2>3, SteadyTurn
<1> QED
  BY <1>1, <1>2 DEF handle_frz_seq_obj, OnObject

\* The register an instruction writes first is one.
LEMMA Destination ==
    ASSUME TypedInv, NEW op, Fetched(op), 1 \in AlwaysRegisters(op)
    PROVE  Abs(1) \in Regs /\ m_memory[Abs(1)] \in Valued
<1>1. Abs(1) \in Regs
  BY DEF Fetched, InRange
<1> QED
  BY <1>1 DEF TypedInv

LEMMA LoadSteady == ASSUME TypedInv, handle_load_const PROVE Steady
<1>1. InRange /\ Instr.op = "load_const"
  BY DEF handle_load_const, Fetched
<1> DEFINE v == Constants[arg(2) + 1]
<1>2. arg(2) + 1 \in DOMAIN Constants
  BY <1>1 DEF InRange, Constant
<1>3. Spelled(v)
  BY <1>2, EngineAssumption DEF TypedInv, EngineInv, Constants, WellFormed
<1>4. v \in Valued
  BY <1>3 DEF Spelled, Double, Valued, Sensible
<1> HIDE DEF v
<1>5. m_memory' = [m_memory EXCEPT ![Abs(1)] = v] /\ UNCHANGED contents
  BY DEF handle_load_const, WriteRaising, KeepsHeap, v
<1>6. m_memory' \in [Regs -> Valued]
  BY <1>4, <1>5, MemoryWritten
<1> QED
  BY <1>5, <1>6, SteadySame

LEMMA MovSteady == ASSUME TypedInv, handle_mov PROVE Steady
<1>1. Fetched("mov") /\ InRange /\ Instr.op = "mov"
  BY DEF handle_mov, Fetched
<1> DEFINE dest == m_memory[Abs(1)]
<1> DEFINE src == fetch_value(2)
<1>2. ASSUME CanFetch(2) PROVE src \in Valued
  <2>1. 2 \in Sources(Instr.op)
    BY <1>1 DEF Sources, Arithmetic, Comparison
  <2> QED
    BY <1>1, <1>2, <2>1, FetchValued
<1>3. dest \in Valued
  <2>1. 1 \in AlwaysRegisters("mov")
    BY DEF AlwaysRegisters
  <2> QED
    BY <1>1, <2>1, Destination
<1>4. CASE Error("mem_error") \/ Undefined
  BY <1>4, StopsSteady
<1>5. CASE /\ CanFetch(2) /\ dest.tag = "val_ref" /\ ~Dangles(contents, dest)
           /\ WriteThrough(dest, src) /\ UNCHANGED m_memory
  <2>1. m_memory' \in [Regs -> Valued]
    BY <1>5 DEF TypedInv
  <2>2. src \in Valued
    BY <1>2, <1>5
  <2> HIDE DEF dest, src
  <2> QED
    BY <1>3, <1>5, <2>1, <2>2, SteadyThrough
<1>6. CASE CanFetch(2) /\ WriteRaising(Abs(1), src) /\ UNCHANGED contents
  <2>1. m_memory' = [m_memory EXCEPT ![Abs(1)] = src]
    BY <1>6 DEF WriteRaising
  <2>2. m_memory' \in [Regs -> Valued]
    BY <1>2, <1>6, <2>1, MemoryWritten
  <2> QED
    BY <1>6, <2>2, SteadySame
<1> QED
  BY <1>4, <1>5, <1>6 DEF handle_mov, KeepsHeap

LEMMA NegSteady == ASSUME TypedInv, handle_neg PROVE Steady
<1> DEFINE dest == m_memory[Abs(1)]
<1> DEFINE v == Chased(contents, dest)
<1> DEFINE negated == Scalar("boolean", 1 - v.n)
<1>1. dest \in Valued
  <2>1. Fetched("neg") /\ 1 \in AlwaysRegisters("neg")
    BY DEF handle_neg, AlwaysRegisters
  <2> QED
    BY <2>1, Destination
<1>2. CASE Undefined
  BY <1>2, StopsSteady
<1>3. CASE UNCHANGED <<m_memory, contents>>
  BY <1>3, SteadySame DEF TypedInv
<1>4. ASSUME ~Dangles(contents, dest) PROVE negated \in Valued
  <2>1. v \in Valued
    BY <1>1, <1>4, ChasedValued DEF TypedInv
  <2>2. v.n \in Int /\ 1 - v.n \in Int
    BY <2>1 DEF Valued, Value
  <2> QED
    BY <2>2, ScalarsValued
<1> HIDE DEF negated
<1>5. CASE /\ ~Dangles(contents, dest) /\ dest.tag = "val_ref"
           /\ WriteThrough(dest, negated) /\ UNCHANGED m_memory
  <2>1. m_memory' \in [Regs -> Valued]
    BY <1>5 DEF TypedInv
  <2>2. negated \in Valued
    BY <1>4, <1>5
  <2> HIDE DEF dest
  <2> QED
    BY <1>1, <1>5, <2>1, <2>2, SteadyThrough
<1>6. CASE /\ ~Dangles(contents, dest) /\ UNCHANGED contents
           /\ m_memory' = [m_memory EXCEPT ![Abs(1)] = negated]
  <2>1. m_memory' \in [Regs -> Valued]
    BY <1>4, <1>6, MemoryWritten
  <2> QED
    BY <1>6, <2>1, SteadySame
<1> QED
  BY <1>2, <1>3, <1>5, <1>6 DEF handle_neg, KeepsHeap, negated

LEMMA AssigningSteady ==
    ASSUME TypedInv, NEW op \in {"mul", "add", "sub"}, handle_assigning(op)
    PROVE  Steady
<1>1. InRange /\ Instr.op = op
  BY DEF handle_assigning, Fetched
<1> DEFINE lhs == fetch_value(2)
<1> DEFINE rhs == fetch_value(3)
<1> DEFINE through == Arith(op, Chased(contents, lhs), rhs)
<1> DEFINE plain == Arith(op, lhs, rhs)
<1>2. CASE Terminate \/ Undefined
  BY <1>2, StopsSteady
<1>3. ASSUME CanFetch(2), CanFetch(3) PROVE lhs \in Valued /\ rhs \in Valued
  <2>1. 2 \in Sources(Instr.op) /\ 3 \in Sources(Instr.op)
    BY <1>1 DEF Sources, Arithmetic
  <2> QED
    BY <1>1, <1>3, <2>1, FetchValued
<1>4. op \in ArithOps
  BY DEF ArithOps
<1>5. CASE /\ CanFetch(2) /\ CanFetch(3) /\ ~Dangles(contents, lhs)
           /\ lhs.tag = "val_ref"
           /\ WriteThrough(lhs, through) /\ WriteRaising(Abs(1), lhs)
  <2>1. lhs \in Valued /\ rhs \in Valued
    BY <1>3, <1>5
  <2> HIDE DEF lhs, rhs
  <2>2. Chased(contents, lhs) \in Valued
    BY <1>5, <2>1, ChasedValued DEF TypedInv
  <2>3. through \in Valued
    BY <1>4, <2>1, <2>2, ArithValued
  <2>4. m_memory' = [m_memory EXCEPT ![Abs(1)] = lhs]
    BY <1>5 DEF WriteRaising
  <2>5. m_memory' \in [Regs -> Valued]
    BY <2>1, <2>4, MemoryWritten
  <2> HIDE DEF through
  <2> QED
    BY <1>5, <2>1, <2>3, <2>5, SteadyThrough
<1>6. CASE /\ CanFetch(2) /\ CanFetch(3) /\ WriteRaising(Abs(1), plain)
           /\ UNCHANGED contents
  <2>1. plain \in Valued
    BY <1>3, <1>4, <1>6, ArithValued
  <2>2. m_memory' = [m_memory EXCEPT ![Abs(1)] = plain]
    BY <1>6 DEF WriteRaising
  <2> HIDE DEF plain
  <2>3. m_memory' \in [Regs -> Valued]
    BY <2>1, <2>2, MemoryWritten
  <2> QED
    BY <1>6, <2>3, SteadySame
<1> QED
  BY <1>2, <1>5, <1>6 DEF handle_assigning

LEMMA DividingSteady ==
    ASSUME TypedInv, NEW op \in {"div", "mod"}, handle_dividing(op)
    PROVE  Steady
<1>1. InRange /\ Instr.op = op
  BY DEF handle_dividing, Fetched
<1> DEFINE lhs == fetch_value(2)
<1> DEFINE rhs == fetch_value(3)
<1> DEFINE v == Arith(op, Chased(contents, lhs), rhs)
<1>2. CASE Terminate \/ Undefined \/ Error("math_error")
  BY <1>2, StopsSteady
<1>3. CASE /\ CanFetch(2) /\ CanFetch(3) /\ ~Dangles(contents, lhs)
           /\ WriteRaising(Abs(1), v) /\ UNCHANGED contents
  <2>1. lhs \in Valued /\ rhs \in Valued
    <3>1. 2 \in Sources(Instr.op) /\ 3 \in Sources(Instr.op)
      BY <1>1 DEF Sources, Arithmetic
    <3> QED
      BY <1>1, <1>3, <3>1, FetchValued
  <2> HIDE DEF lhs, rhs
  <2>2. Chased(contents, lhs) \in Valued
    BY <1>3, <2>1, ChasedValued DEF TypedInv
  <2>3. v \in Valued
    BY <2>1, <2>2, ArithValued DEF ArithOps
  <2>4. m_memory' = [m_memory EXCEPT ![Abs(1)] = v]
    BY <1>3 DEF WriteRaising
  <2> HIDE DEF v
  <2>5. m_memory' \in [Regs -> Valued]
    BY <2>3, <2>4, MemoryWritten
  <2> QED
    BY <1>3, <2>5, SteadySame
<1> QED
  BY <1>2, <1>3 DEF handle_dividing, KeepsHeap

LEMMA CmpSteady ==
    ASSUME TypedInv, NEW op \in Comparison, handle_cmp(op)
    PROVE  Steady
<1> DEFINE v == Boolean(Compared(op, fetch_value(2), fetch_value(3)) = "yes")
<1>1. CASE Terminate \/ Undefined
  BY <1>1, StopsSteady
<1>2. v \in Valued
  BY ScalarsValued
<1>3. CASE WriteRaising(Abs(1), v) /\ UNCHANGED contents
  <2>1. m_memory' = [m_memory EXCEPT ![Abs(1)] = v]
    BY <1>3 DEF WriteRaising
  <2> HIDE DEF v
  <2>2. m_memory' \in [Regs -> Valued]
    BY <1>2, <2>1, MemoryWritten
  <2> QED
    BY <1>3, <2>2, SteadySame
<1> QED
  BY <1>1, <1>3 DEF handle_cmp, KeepsHeap

LEMMA MakeSteady == ASSUME TypedInv, handle_make_str \/ handle_make_seq PROVE Steady
<1>1. CASE handle_make_str
  <2> DEFINE literal == m_objects[arg(2)]
  <2>1. CASE Undefined
    BY <2>1, StopsSteady
  <2>2. ASSUME literal # NoObject, NEW o \in Object,
               CreateObject(o, "string", Text(contents[literal])),
               m_memory' = [m_memory EXCEPT ![Abs(1)] = Pointer(o, "string")]
        PROVE  Steady
    <3>1. arg(2) \in Cells
      BY <1>1 DEF handle_make_str, Fetched, InRange
    <3>2. literal \in Object
      BY <2>2, <3>1 DEF TypedInv, EngineInv, HeapInv, HeapTypeOK
    <3>3. contents[literal] \in Kempt
      BY <3>2 DEF TypedInv
    <3> HIDE DEF literal
    <3>4. Text(contents[literal]) \in Seq(Valued)
      BY <3>3, TextValued
    <3> QED
      BY <2>2, <3>4, SteadyCreate
  <2> QED
    BY <1>1, <2>1, <2>2 DEF handle_make_str
<1>2. CASE handle_make_seq
  <2>1. PICK o \in Object : /\ CreateObject(o, "sequence", <<>>)
                            /\ m_memory' = [m_memory EXCEPT ![Abs(1)] = Pointer(o, "sequence")]
    BY <1>2 DEF handle_make_seq
  <2>2. <<>> \in Seq(Valued)
    BY EmptySeq
  <2> QED
    BY <2>1, <2>2, SteadyCreate
<1> QED
  BY <1>1, <1>2

LEMMA RetSteady == ASSUME TypedInv, handle_ret PROVE Steady
<1>1. InRange /\ Instr.op = "ret"
  BY DEF handle_ret, Fetched
<1>2. CASE Terminate
  BY <1>2, StopsSteady
<1> DEFINE v == fetch_value(1)
<1>3. ASSUME CanFetch(1), NEW top, try_mark_and_sweep(top),
             m_memory' = [m_memory EXCEPT ![m_rbp] = v]
      PROVE  Steady
  <2>1. v \in Valued
    <3>1. 1 \in Sources(Instr.op)
      BY <1>1 DEF Sources, Arithmetic, Comparison
    <3> QED
      BY <1>1, <1>3, <3>1, FetchValued
  <2> HIDE DEF v
  <2>2. m_memory' \in [Regs -> Valued]
    BY <1>3, <2>1, MemoryWritten
  <2>3. CASE UNCHANGED contents
    BY <2>2, <2>3, SteadySame
  <2>4. CASE contents' = [o \in Object |-> IF o \in Owned THEN Destroyed(contents[o])
                                           ELSE contents[o]]
    <3>1. \A o \in Object : Destroyed(contents[o]) \in Kempt
      BY DestroyedKempt DEF TypedInv
    <3>2. contents' \in [Object -> Kempt]
      BY <2>4, <3>1 DEF TypedInv
    <3>3. \A o \in Object : Destroyed(contents[o]).kind = "none"
      BY DEF Destroyed, TypedInv, Kempt, HeapObject
    <3>4. TuplesKeepSize
      BY <2>4, <3>3 DEF TuplesKeepSize, Alive
    <3> QED
      BY <2>2, <3>2, <3>4 DEF Steady, ValuesStep
  <2> QED
    BY <1>3, <2>3, <2>4 DEF try_mark_and_sweep, KeepsHeap
<1> QED
  BY <1>2, <1>3 DEF handle_ret

-----------------------------------------------------------------------------
(* The natives, on registers and objects *)

LEMMA ArgumentValued ==
    ASSUME TypedInv, NEW name, NEW argc, ~NativeUndefined(name, argc),
           NEW k, k \in Offsets(name)
    PROVE  handle_native_fn_access(argc, k) \in Valued
<1>1. BaseSlot(argc) + k \in Regs
  BY DEF NativeUndefined
<1> QED
  BY <1>1 DEF handle_native_fn_access, TypedInv

LEMMA ReturnedValued ==
    ASSUME TypedInv, NEW v \in Valued, NEW argc, Returns(v, argc)
    PROVE  m_memory' \in [Regs -> Valued]
<1>1. m_memory' = [m_memory EXCEPT ![BaseSlot(argc)] = v]
  BY DEF Returns, handle_native_fn_return
<1> QED
  BY <1>1, MemoryWritten

LEMMA OutcomeValued ==
    ASSUME TypedInv, Succeeds \/ Fails
    PROVE  m_memory' \in [Regs -> Valued]
BY DEF TypedInv, Succeeds, Fails

\* The digits a text starts with make a number.
LEMMA StoiInt ==
    ASSUME NEW text \in Seq(Valued), Digits(text) # {}
    PROVE  StoiValue(text) \in Int
<1> DEFINE n == Len(text)
<1> DEFINE D == Digits(text)
<1> DEFINE More(i, x) == 10 * x + (text[i].n - 48)
<1> DEFINE Is(h) == h = [i \in 0..n |-> IF i \notin D THEN 0 ELSE More(i, h[i - 1])]
<1>1. n \in Nat /\ \A i \in 1..n : text[i].n \in Int
  <2>1. \A i \in 1..n : text[i] \in Valued
    BY ElementOfSeq
  <2> QED
    BY <2>1, LenProperties DEF Valued, Value
<1>2. D \subseteq 1..n
  BY <1>1 DEF Digits
<1>3. \A i \in 1..n, x \in Int : More(i, x) \in Int
  BY <1>1
<1> HIDE DEF More, D, n
<1>4. \E h : Is(h)
  <2> DEFINE F == [i \in 0..n |-> [x \in Int |-> IF i \notin D THEN 0 ELSE More(i, x)]]
  <2>1. F \in [0..n -> [Int -> Int]]
    BY <1>2, <1>3
  <2>2. \A i \in 0..n, x \in Int : F[i][x] = IF i \notin D THEN 0 ELSE More(i, x)
    OBVIOUS
  <2> HIDE DEF F
  <2>3. PICK h : h \in [0..n -> Int] /\ Steps(h, n, 0, F)
    <3> DEFINE T == Int
    <3>1. 0 \in T
      OBVIOUS
    <3>2. F \in [0..n -> [T -> T]]
      BY <2>1, Zenon
    <3> HIDE DEF T
    <3>3. \E h : h \in [0..n -> T] /\ Steps(h, n, 0, F)
      BY <1>1, <3>1, <3>2, Chain
    <3> QED
      BY <3>3 DEF T
  <2>4. ASSUME NEW i \in 0..n
        PROVE  h[i] = IF i \notin D THEN 0 ELSE More(i, h[i - 1])
    <3>1. i # 0 => i - 1 \in 0..n
      BY <1>1
    <3>2. i # 0 => h[i - 1] \in Int
      BY <2>3, <3>1
    <3>3. i = 0 => i \notin D
      BY <1>2
    <3>4. h[i] = IF i = 0 THEN 0 ELSE F[i][h[i - 1]]
      BY <2>3 DEF Steps
    <3> QED
      BY <2>2, <3>2, <3>3, <3>4
  <2>5. Is(h)
    BY <2>3, <2>4
  <2> QED
    BY <2>5
<1> DEFINE last == CHOOSE i \in D : \A j \in D : j <= i
<1> DEFINE value == CHOOSE h : Is(h)
<1>5. StoiValue(text) = IF Signed(text) /\ text[1].n = 45 THEN -value[last] ELSE value[last]
  BY DEF StoiValue, More, D, n
<1>6. last \in 0..n
  <2>1. D \in SUBSET (0..n) /\ D # {}
    BY <1>1, <1>2 DEF D
  <2>2. last \in D
    BY <1>1, <2>1, NatGreatest
  <2> QED
    BY <2>1, <2>2
<1>7. Is(value)
  BY <1>4
<1> HIDE DEF last, value
<1>8. value[0] \in Int
  BY <1>1, <1>2, <1>7
<1>9. ASSUME NEW i \in 1..n, value[i - 1] \in Int PROVE value[i] \in Int
  <2>1. i \in 0..n
    BY <1>1
  <2>2. value[i] = IF i \notin D THEN 0 ELSE More(i, value[i - 1])
    BY <1>7, <2>1
  <2> QED
    BY <1>3, <1>9, <2>2, SMTT(30)
<1> HIDE DEF Is
<1>10. \A i \in 0..n : value[i] \in Int
  BY <1>1, <1>8, <1>9, ChainIn
<1> QED
  BY <1>5, <1>6, <1>10

\* Natives that only look at their arguments.
LEMMA AskingSteady ==
    ASSUME TypedInv, NEW name, NEW argc, ~NativeUndefined(name, argc),
           \/ native_print_value(argc)
           \/ name \in {"len_of", "strlen"} /\ native_len_of(argc)
           \/ name = "stoi" /\ native_stoi(argc)
           \/ native_prompt(argc, {Int32(k) : k \in Ints}) \/ native_prompt(argc, Floats)
           \/ native_stof(argc) \/ native_get_argv(argc)
    PROVE  Steady
<1>0. UNCHANGED contents
  BY DEF native_print_value, native_len_of, native_stoi, native_prompt, native_stof,
         native_get_argv
<1>1. CASE Succeeds \/ Fails
  BY <1>0, <1>1, OutcomeValued, SteadySame
<1>2. ASSUME NEW v \in Valued, Returns(v, argc) PROVE Steady
  BY <1>0, <1>2, ReturnedValued, SteadySame
<1> DEFINE o == ObjectArg(argc, 0)
<1>3. ASSUME name \in {"len_of", "strlen", "stoi"}, o # NoObject
      PROVE  o \in Object /\ contents[o] \in Kempt
  <2>1. o \in Dereferenced(name, argc)
    BY <1>3 DEF Dereferenced
  <2>2. Alive(contents, o)
    BY <2>1 DEF NativeUndefined
  <2> QED
    BY <2>2 DEF Alive, TypedInv
<1>4. \A f \in Floats : f \in Valued
  BY TerminalAssumption DEF Double, Valued, Value, Sensible, Tags
<1>5. \A k \in Ints : Int32(k) \in Valued
  BY TerminalAssumption, ScalarsValued
<1>6. CASE native_print_value(argc)
  BY <1>6, <1>1 DEF native_print_value
<1>7. CASE name \in {"len_of", "strlen"} /\ native_len_of(argc)
  <2>1. o # NoObject => Int32(Len(contents[o].items)) \in Valued
    BY <1>3, <1>7, KemptParts, ScalarsValued
  <2> QED
    BY <1>1, <1>2, <1>7, <2>1 DEF native_len_of
<1>8. CASE name = "stoi" /\ native_stoi(argc)
  <2> DEFINE text == Text(contents[o])
  <2>1. ASSUME o # NoObject, Digits(text) # {} PROVE Int32(StoiValue(text)) \in Valued
    <3>1. text \in Seq(Valued)
      BY <1>3, <1>8, <2>1, TextValued
    <3> HIDE DEF text
    <3>2. StoiValue(text) \in Int
      BY <2>1, <3>1, StoiInt
    <3> QED
      BY <3>2, ScalarsValued
  <2> QED
    BY <1>1, <1>2, <1>8, <2>1 DEF native_stoi
<1>9. CASE native_prompt(argc, {Int32(k) : k \in Ints}) \/ native_prompt(argc, Floats)
  BY <1>9, <1>2, <1>4, <1>5 DEF native_prompt
<1>10. CASE native_stof(argc)
  BY <1>10, <1>1, <1>2, <1>4 DEF native_stof
<1>11. CASE native_get_argv(argc)
  <2>1. m_program_argv_p \in Object
    <3>1. ArgvCell + 1 \in 1..Len(Preloads)
      BY EngineAssumption, LenProperties DEF ArgvCell
    <3> QED
      BY <3>1, HeapAssumption, ElementOfSeq DEF m_program_argv_p
  <2> QED
    BY <1>2, <1>11, <2>1, PointerValued DEF native_get_argv
<1> QED
  BY <1>6, <1>7, <1>8, <1>9, <1>10, <1>11

LEMMA ListPushSteady ==
    ASSUME TypedInv, NEW argc, ~NativeUndefined("list_push_back", argc),
           native_list_push_back(argc)
    PROVE  Steady
<1> DEFINE target == handle_native_fn_access(argc, 0)
<1> DEFINE v == handle_native_fn_access(argc, 1)
<1> DEFINE o == target.obj
<1> DEFINE d == push_value(contents[o], v)
<1>1. target \in Valued /\ v \in Valued
  BY ArgumentValued DEF Offsets
<1>2. CASE Fails /\ UNCHANGED contents
  BY <1>2, OutcomeValued, SteadySame
<1>3. CASE /\ IsFlexibleList(target) /\ Returns(target, argc)
           /\ contents' = [contents EXCEPT ![o] = push_value(@, v)]
  <2>1. o \in Dereferenced("list_push_back", argc)
    BY <1>3 DEF IsFlexibleList, Dereferenced
  <2>2. o \in Object /\ contents[o] \in Kempt
    BY <2>1 DEF NativeUndefined, Alive, TypedInv
  <2>3. ~contents[o].frozen
    BY <1>3 DEF IsFlexibleList, IsFlexible
  <2>4. contents' = [contents EXCEPT ![o] = d]
    BY <1>3
  <2> HIDE DEF target, v, o
  <2>5. d \in Kempt
    BY <1>1, <2>2, PushKempt
  <2>6. m_memory' \in [Regs -> Valued]
    BY <1>1, <1>3, ReturnedValued
  <2> HIDE DEF d
  <2> QED
    BY <2>3, <2>4, <2>5, <2>6, SteadyTurn
<1> QED
  BY <1>2, <1>3 DEF native_list_push_back

LEMMA ListPopSteady ==
    ASSUME TypedInv, NEW argc, NEW name \in {"list_pop_back", "list_pop_front"},
           ~NativeUndefined(name, argc), NEW end, native_list_pop(argc, end)
    PROVE  Steady
<1> DEFINE target == handle_native_fn_access(argc, 0)
<1> DEFINE o == target.obj
<1> DEFINE d == pop_value(contents[o], end)
<1> DEFINE old == pop_result(contents[o], end)
<1>1. CASE Fails /\ UNCHANGED contents
  BY <1>1, OutcomeValued, SteadySame
<1>2. CASE /\ IsFlexibleList(target) /\ (Fails \/ Returns(old, argc))
           /\ contents' = [contents EXCEPT ![o] = pop_value(@, end)]
  <2>1. o \in Dereferenced(name, argc)
    BY <1>2 DEF IsFlexibleList, Dereferenced
  <2>2. o \in Object /\ contents[o] \in Kempt
    BY <2>1 DEF NativeUndefined, Alive, TypedInv
  <2>3. old \in Valued /\ d \in Kempt /\ (contents[o].frozen => d = contents[o])
    BY <2>2, PopKempt
  <2>4. contents' = [contents EXCEPT ![o] = d] /\ (Fails \/ Returns(old, argc))
    BY <1>2
  <2> HIDE DEF d, old, o, target
  <2>5. m_memory' \in [Regs -> Valued]
    BY <2>3, <2>4, OutcomeValued, ReturnedValued
  <2> QED
    BY <2>3, <2>4, <2>5, SteadyTurn
<1> QED
  BY <1>1, <1>2 DEF native_list_pop

\* The target of list_concat is a list, the one of strcat a text: neither is a tuple.
LEMMA JoinSteady ==
    ASSUME TypedInv, NEW argc, NEW name \in {"list_concat", "strcat"},
           ~NativeUndefined(name, argc),
           \/ name = "list_concat" /\ native_list_concat(argc)
           \/ name = "strcat" /\ native_strcat(argc)
    PROVE  Steady
<1> DEFINE source == ObjectArg(argc, 1)
<1> DEFINE target == ObjectArg(argc, 0)
<1>1. CASE Fails /\ UNCHANGED contents
  BY <1>1, OutcomeValued, SteadySame
<1>2. CASE /\ Succeeds /\ source # NoObject /\ target # NoObject
           /\ IsFlexible(target) \/ (name = "strcat" /\ contents[target].kind = "string")
           /\ contents' = [contents EXCEPT ![target] = push_all(@, contents[source].items)]
  <2> DEFINE items == contents[source].items
  <2> DEFINE d == push_all(contents[target], items)
  <2>1. Alive(contents, source) /\ Alive(contents, target)
    <3>1. Offsets(name) = {0, 1}
      BY DEF Offsets
    <3>2. {source, target} \subseteq Dereferenced(name, argc)
      BY <1>2, <3>1 DEF Dereferenced
    <3> QED
      BY <3>2 DEF NativeUndefined
  <2>2. /\ source \in Object /\ contents[source] \in Kempt
        /\ target \in Object /\ contents[target] \in Kempt
    BY <2>1 DEF Alive, TypedInv
  <2>3. items \in Seq(Valued) /\ ~contents[target].frozen
    BY <1>2, <2>2, KemptParts DEF IsFlexible
  <2>4. contents' = [contents EXCEPT ![target] = d]
    BY <1>2
  <2> HIDE DEF source, target, items
  <2>5. d \in Kempt
    BY <2>2, <2>3, PushAllKempt
  <2>6. m_memory' \in [Regs -> Valued]
    BY <1>2, OutcomeValued
  <2> HIDE DEF d
  <2> QED
    BY <2>3, <2>4, <2>5, <2>6, SteadyTurn
<1> QED
  BY <1>1, <1>2 DEF native_list_concat, native_strcat, TagOf

LEMMA SubstrSteady ==
    ASSUME TypedInv, NEW argc, ~NativeUndefined("substr", argc),
           ~NativeTerminates("substr", argc), native_substr(argc)
    PROVE  Steady
<1>1. CASE Fails /\ UNCHANGED contents
  BY <1>1, OutcomeValued, SteadySame
<1>2. ASSUME SliceFits(argc), NEW o \in Object, CreateObject(o, "string", Slice(argc)),
             Returns(Pointer(o, "string"), argc)
      PROVE  Steady
  <2> DEFINE c == contents[ObjectArg(argc, 0)]
  <2>1. /\ ObjectArg(argc, 0) \in Object /\ IsSeq(Slice(argc))
        /\ \A i \in DOMAIN Slice(argc) :
              \E k \in DOMAIN Text(c) : Slice(argc)[i] = Text(c)[k]
    BY <1>2, SliceItems DEF NativeTerminates, TypedInv
  <2>2. \A k \in DOMAIN Text(c) : Text(c)[k] \in Valued
    <3>1. c \in Kempt
      BY <2>1 DEF TypedInv
    <3>2. Text(c) \in Seq(Valued)
      BY <3>1, TextValued
    <3> QED
      BY <3>2, LenProperties, ElementOfSeq
  <2>3. Slice(argc) \in Seq(Valued)
    BY <2>1, <2>2, IsASeq DEF IsSeq
  <2>4. m_memory' = [m_memory EXCEPT ![BaseSlot(argc)] = Pointer(o, "string")]
    BY <1>2 DEF Returns, handle_native_fn_return
  <2> QED
    BY <1>2, <2>3, <2>4, SteadyCreate
<1> QED
  BY <1>1, <1>2 DEF native_substr

LEMMA ReadlnSteady ==
    ASSUME TypedInv, NEW argc, native_readln(argc)
    PROVE  Steady
<1>1. PICK o \in Object, line \in Lines : /\ CreateObject(o, "string", line)
                                          /\ Returns(Pointer(o, "string"), argc)
  BY DEF native_readln
<1>2. line \in Seq(Valued)
  <2>1. line \in Seq(Character)
    BY TerminalAssumption
  <2>2. Character \subseteq Valued
    BY DEF Character, Valued, Value, Sensible, Tags
  <2> QED
    BY <2>1, <2>2
<1>3. m_memory' = [m_memory EXCEPT ![BaseSlot(argc)] = Pointer(o, "string")]
  BY <1>1 DEF Returns, handle_native_fn_return
<1> QED
  BY <1>1, <1>2, <1>3, SteadyCreate

LEMMA NativeSteady == ASSUME TypedInv, handle_native_call PROVE Steady
<1> DEFINE name == NativeTable[arg(1) + 1]
<1> DEFINE argc == arg(2)
<1>1. CASE Undefined \/ Terminate
  BY <1>1, StopsSteady
<1>2. CASE /\ ~NativeUndefined(name, argc) /\ ~NativeTerminates(name, argc)
           /\ Native(name, argc)
  <2> HIDE DEF name, argc
  <2>1. CASE \/ native_print_value(argc)
             \/ name \in {"len_of", "strlen"} /\ native_len_of(argc)
             \/ name = "stoi" /\ native_stoi(argc)
             \/ native_prompt(argc, {Int32(k) : k \in Ints})
             \/ native_prompt(argc, Floats)
             \/ native_stof(argc) \/ native_get_argv(argc)
    BY <1>2, <2>1, AskingSteady
  <2>2. CASE name = "readln" /\ native_readln(argc)
    BY <2>2, ReadlnSteady
  <2>3. CASE name = "list_push_back" /\ native_list_push_back(argc)
    BY <1>2, <2>3, ListPushSteady
  <2>4. CASE name = "list_pop_back" /\ native_list_pop(argc, "back")
    BY <1>2, <2>4, ListPopSteady
  <2>5. CASE name = "list_pop_front" /\ native_list_pop(argc, "front")
    BY <1>2, <2>5, ListPopSteady
  <2>6. CASE \/ name = "list_concat" /\ native_list_concat(argc)
             \/ name = "strcat" /\ native_strcat(argc)
    BY <1>2, <2>6, JoinSteady
  <2>7. CASE name = "substr" /\ native_substr(argc)
    BY <1>2, <2>7, SubstrSteady
  <2> QED
    BY <1>2, <2>1, <2>2, <2>3, <2>4, <2>5, <2>6, <2>7 DEF Native
<1> QED
  BY <1>1, <1>2 DEF handle_native_call

LEMMA StepSteady == ASSUME TypedInv, Step PROVE Steady
<1>1. CASE nop \/ handle_inc_dec_halt \/ handle_jump \/ handle_call \/ OutOfRangeAccess
  BY <1>1, ControlSteady
<1>2. CASE handle_make_str \/ handle_make_seq
  BY <1>2, MakeSteady
<1>3. CASE handle_seq_obj_push \/ handle_seq_obj_pop \/ handle_seq_obj_get
           \/ handle_frz_seq_obj
  BY <1>3, PushSteady, PopSteady, GetSteady, FreezeSteady
<1>4. CASE handle_load_const \/ handle_mov \/ handle_neg
  BY <1>4, LoadSteady, MovSteady, NegSteady
<1>5. CASE \/ \E op \in {"mul", "add", "sub"} : handle_assigning(op)
           \/ \E op \in {"div", "mod"} : handle_dividing(op)
           \/ \E op \in Comparison : handle_cmp(op)
  BY <1>5, AssigningSteady, DividingSteady, CmpSteady
<1>6. CASE handle_ret
  BY <1>6, RetSteady
<1>7. CASE handle_native_call
  BY <1>7, NativeSteady
<1> QED
  BY <1>1, <1>2, <1>3, <1>4, <1>5, <1>6, <1>7 DEF Step

-----------------------------------------------------------------------------
(* Frames and special registers *)

LEMMA ImmediateNat ==
    ASSUME TypedInv, InRange, NEW i, i \in Immediates(Instr.op)
    PROVE  arg(i) \in Nat
<1>1. WellFormed(program)
  BY EngineAssumption DEF TypedInv, EngineInv
<1>2. m_rfi \in DOMAIN program.chunks /\ m_rip + 1 \in DOMAIN program.chunks[m_rfi]
  BY DEF InRange, Chunk
<1> QED
  BY <1>1, <1>2 DEF WellFormed, arg, Instr, Chunk

\* A handler that stays in its function: the next instruction or the same one, the
\* same top, the register written or one more.
Plods ==
    /\ UNCHANGED <<m_call_frames, m_rfi, m_rbp>>
    /\ m_rip' = m_rip \/ m_rip' = m_rip + 1
    /\ m_rft' \in Int
    /\ m_res' \in Statuses
    /\ fault' \in {"none", "undefined", "terminate"}

LEMMA PlodsOK == ASSUME TypedInv, Plods PROVE ControlOK'
BY DEF TypedInv, ControlOK, Plods

LEMMA StopsPlod ==
    ASSUME TypedInv,
           \/ Undefined \/ Terminate
           \/ \E status \in {"op_error", "arg_error", "mem_error", "math_error"} : Error(status)
    PROVE  Plods
BY DEF TypedInv, ControlOK, Plods, Undefined, Terminate, Error, Stop, KeepsFrame, machineVars,
       Statuses

LEMMA AdvancePlods ==
    ASSUME TypedInv, KeepsFrame, Advance \/ UNCHANGED m_rip,
           m_rft' = m_rft \/ (Abs(1) \in Regs /\ m_rft' = Raised(Abs(1))),
           m_res' \in Statuses
    PROVE  Plods
BY DEF TypedInv, ControlOK, Plods, Advance, KeepsFrame, Raised, Regs

LEMMA ObjectsPlod ==
    ASSUME TypedInv,
           \/ nop \/ handle_inc_dec_halt \/ OutOfRangeAccess
           \/ handle_make_str \/ handle_make_seq
           \/ handle_seq_obj_push \/ handle_seq_obj_pop \/ handle_seq_obj_get
           \/ handle_frz_seq_obj
    PROVE  Plods
<1>1. CASE \/ Undefined
           \/ \E status \in {"op_error", "arg_error", "mem_error"} : Error(status)
  BY <1>1, StopsPlod
<1>2. CASE KeepsFrame /\ Advance /\ UNCHANGED <<m_rft, m_res>>
  BY <1>2, AdvancePlods DEF TypedInv, ControlOK
<1> QED
  BY <1>1, <1>2 DEF nop, handle_inc_dec_halt, OutOfRangeAccess, handle_make_str,
     handle_make_seq, handle_seq_obj_push, handle_seq_obj_pop, handle_seq_obj_get,
     handle_frz_seq_obj, OnObject

LEMMA RegistersPlod ==
    ASSUME TypedInv,
           \/ handle_load_const \/ handle_mov \/ handle_neg
           \/ \E op \in {"mul", "add", "sub"} : handle_assigning(op)
           \/ \E op \in {"div", "mod"} : handle_dividing(op)
           \/ \E op \in Comparison : handle_cmp(op)
    PROVE  Plods
<1>1. CASE \/ Undefined \/ Terminate
           \/ \E status \in {"arg_error", "mem_error", "math_error"} : Error(status)
  BY <1>1, StopsPlod
<1>2. PICK op : Fetched(op) /\ op \in Arithmetic \cup Comparison \cup {"load_const", "mov", "neg"}
  BY DEF handle_load_const, handle_mov, handle_neg, handle_assigning, handle_dividing,
         handle_cmp, Arithmetic
<1>3. Abs(1) \in Regs
  <2>1. 1 \in AlwaysRegisters(op)
    BY <1>2 DEF AlwaysRegisters, Arithmetic, Comparison
  <2> QED
    BY <1>2, <2>1, Destination
<1>4. CASE /\ KeepsFrame /\ (Advance \/ UNCHANGED m_rip)
           /\ m_rft' = m_rft \/ m_rft' = Raised(Abs(1))
           /\ UNCHANGED m_res \/ Stop("arg_error")
  BY <1>3, <1>4, AdvancePlods DEF TypedInv, ControlOK, Stop, Statuses
<1> QED
  BY <1>1, <1>4 DEF handle_load_const, handle_mov, handle_neg, handle_assigning,
     handle_dividing, handle_cmp, WriteRaising

LEMMA NativePlods == ASSUME TypedInv, handle_native_call PROVE Plods
<1> DEFINE name == NativeTable[arg(1) + 1]
<1> DEFINE argc == arg(2)
<1>1. CASE Undefined \/ Terminate
  BY <1>1, StopsPlod
<1>2. CASE /\ Native(name, argc) /\ Advance
           /\ UNCHANGED <<m_call_frames, m_rfi, m_rbp, fault>>
  <2> HIDE DEF name, argc
  <2>1. Succeeds \/ Fails \/ \E v : Returns(v, argc)
    BY <1>2 DEF Native, native_print_value, native_prompt, native_readln, native_len_of,
       native_list_push_back, native_list_pop, native_list_concat, native_strcat,
       native_substr, native_stoi, native_stof, native_get_argv
  <2>2. m_rft' = m_rft \/ m_rft' = m_rft + 1
    BY <2>1 DEF Succeeds, Fails, Returns, handle_native_fn_return
  <2>3. m_res' \in Statuses
    BY <2>1 DEF Succeeds, Fails, Returns, Stop, Statuses
  <2> QED
    BY <1>2, <2>2, <2>3 DEF TypedInv, ControlOK, Plods, Advance
<1> QED
  BY <1>1, <1>2 DEF handle_native_call

LEMMA JumpControl == ASSUME TypedInv, handle_jump PROVE ControlOK'
<1>1. m_rip' \in Nat
  <2>1. m_rip + 1 \in Nat
    BY DEF TypedInv, ControlOK
  <2>2. CASE Fetched("jump") /\ m_rip' = arg(1)
    BY <2>2, ImmediateNat DEF Fetched, Immediates
  <2>3. ASSUME NEW op \in {"jump_if", "jump_else"}, Fetched(op) PROVE arg(2) \in Nat
    BY <2>3, ImmediateNat DEF Fetched, Immediates
  <2> QED
    BY <2>1, <2>2, <2>3 DEF handle_jump
<1> QED
  BY <1>1 DEF TypedInv, ControlOK, handle_jump, KeepsFrame

LEMMA CallControl == ASSUME TypedInv, handle_call PROVE ControlOK'
<1>1. CASE Undefined
  BY <1>1, StopsPlod, PlodsOK
<1>2. CASE ~Undefined
  <2>1. arg(1) \in Nat /\ arg(2) \in Nat
    BY ImmediateNat DEF handle_call, Fetched, Immediates
  <2>2. SavedFrame \in Frame
    BY DEF handle_call, Fetched, Running, TypedInv, ControlOK, SavedFrame, Frame
  <2>3. m_call_frames' \in Seq(Frame)
    BY <1>2, <2>2, AppendProperties DEF handle_call, TypedInv, ControlOK
  <2> QED
    BY <1>2, <2>1, <2>3 DEF handle_call, TypedInv, ControlOK, CalleeBase
<1> QED
  BY <1>1, <1>2

LEMMA RetControl == ASSUME TypedInv, handle_ret PROVE ControlOK'
<1>1. CASE Terminate
  BY <1>1, StopsPlod, PlodsOK
<1>2. CASE ~Terminate
  <2> DEFINE caller == m_call_frames[m_rrd]
  <2>1. m_call_frames \in Seq(Frame) /\ m_rrd \in Nat \ {0}
    BY LenProperties DEF TypedInv, ControlOK, handle_ret, Fetched, Running, m_rrd
  <2>2. caller \in Frame
    BY <2>1, ElementOfSeq DEF m_rrd
  <2>3. SubSeq(m_call_frames, 1, m_rrd - 1) \in Seq(Frame)
    <3>1. \A i \in 1..(m_rrd - 1) : m_call_frames[i] \in Frame
      BY <2>1, ElementOfSeq DEF m_rrd
    <3> QED
      BY <2>1, <3>1, SubSeqProperties
  <2>4. /\ m_call_frames' = SubSeq(m_call_frames, 1, m_rrd - 1)
        /\ m_rfi' = caller.func /\ m_rip' = caller.ip /\ m_rbp' = caller.base
        /\ m_rft' = caller.top /\ m_res' = caller.status
        /\ UNCHANGED fault \/ fault' = "undefined"
    BY <1>2 DEF handle_ret, RestoredTop, try_mark_and_sweep
  <2> QED
    BY <2>2, <2>3, <2>4 DEF TypedInv, ControlOK, Frame, Statuses
<1> QED
  BY <1>1, <1>2

LEMMA StepControl == ASSUME TypedInv, Step PROVE ControlOK'
BY PlodsOK, ObjectsPlod, RegistersPlod, NativePlods, JumpControl, CallControl, RetControl
   DEF Step

-----------------------------------------------------------------------------
(* The constructor, and every step *)

LEMMA TextsValued == Seq(Character) \subseteq Seq(Valued)
<1>1. Character \subseteq Valued
  BY DEF Character, Valued, Value, Sensible, Tags
<1> QED
  BY <1>1

LEMMA InitialItemsValued ==
    ASSUME NEW i \in DOMAIN Preloads
    PROVE  InitialItems(i) \in Seq(Valued)
<1>1. /\ Len(Literals) \in Nat /\ Len(Arguments) \in Nat
      /\ DOMAIN Literals = 1..Len(Literals) /\ DOMAIN Arguments = 1..Len(Arguments)
      /\ DOMAIN Preloads = 1..Len(Preloads)
  BY EngineAssumption, HeapAssumption, LenProperties
<1>2. i \in 1..(Len(Literals) + 1 + Len(Arguments))
  BY <1>1, EngineAssumption
<1>3. CASE i <= Len(Literals)
  <2>1. InitialItems(i) = Literals[i]
    BY <1>1, <1>2, <1>3 DEF InitialItems, ArgvCell
  <2>2. Literals[i] \in Seq(Character)
    BY <1>1, <1>2, <1>3, EngineAssumption, ElementOfSeq
  <2> QED
    BY <2>1, <2>2, TextsValued
<1>4. CASE i = ArgvCell + 1
  <2> DEFINE f == [k \in 1..Len(Arguments) |-> Pointer(Preloads[i + k], "string")]
  <2>1. InitialItems(i) = f
    BY <1>1, <1>4 DEF InitialItems, ArgvCell
  <2>2. ASSUME NEW k \in 1..Len(Arguments) PROVE Pointer(Preloads[i + k], "string") \in Valued
    <3>1. i + k \in 1..Len(Preloads)
      BY <1>1, <1>2, <1>4, EngineAssumption DEF ArgvCell
    <3>2. Preloads[i + k] \in Object
      BY <3>1, HeapAssumption, ElementOfSeq
    <3> QED
      BY <3>2, PointerValued
  <2>3. f \in [1..Len(Arguments) -> Valued]
    BY <2>2
  <2> HIDE DEF f
  <2> QED
    BY <1>1, <2>1, <2>3, SeqDef
<1>5. CASE ~ (i <= Len(Literals)) /\ i # ArgvCell + 1
  <2>1. InitialItems(i) = Arguments[i - ArgvCell - 1]
    BY <1>5 DEF InitialItems
  <2>2. i - ArgvCell - 1 \in 1..Len(Arguments)
    BY <1>1, <1>2, <1>5 DEF ArgvCell
  <2>3. Arguments[i - ArgvCell - 1] \in Seq(Character)
    BY <2>2, EngineAssumption, ElementOfSeq
  <2> QED
    BY <2>1, <2>3, TextsValued
<1> QED
  BY <1>3, <1>4, <1>5

LEMMA TypedInit == ASSUME Init PROVE TypedInv
<1>1. EngineInv
  BY EngineInitInv
<1>2. m_memory \in [Regs -> Valued]
  BY ScalarsValued DEF Init
<1>3. ASSUME NEW o \in Object PROVE contents[o] \in Kempt
  <2> DEFINE never == [kind |-> "none", items |-> <<>>, frozen |-> FALSE, room |-> 0,
                       gen |-> 0]
  <2>1. CASE \E i \in DOMAIN Preloads : Preloads[i] = o
    <3> DEFINE i == CHOOSE i \in DOMAIN Preloads : Preloads[i] = o
    <3> DEFINE kind == IF i = ArgvCell + 1 THEN "sequence" ELSE "string"
    <3>1. contents[o] = NewObject(never, kind, InitialItems(i))
      BY <2>1 DEF Init, InitialContents
    <3>2. i \in DOMAIN Preloads
      BY <2>1
    <3>3. kind \in {"sequence", "string"} /\ never.gen \in Nat
      OBVIOUS
    <3> HIDE DEF i, kind, never
    <3>4. InitialItems(i) \in Seq(Valued)
      BY <3>2, InitialItemsValued
    <3> QED
      BY <3>1, <3>3, <3>4, NewKempt
  <2>2. CASE ~ \E i \in DOMAIN Preloads : Preloads[i] = o
    <3>1. contents[o] = never
      BY <2>2 DEF Init, InitialContents
    <3>2. <<>> \in Seq(Valued) /\ Len(<<>>) = 0
      BY EmptySeq
    <3> QED
      BY <3>1, <3>2 DEF Kempt, HeapObject
  <2> QED
    BY <2>1, <2>2
<1>4. contents \in [Object -> Kempt]
  BY <1>1, <1>3 DEF EngineInv
<1>5. ControlOK
  <2>1. EntryFrame \in Frame
    BY DEF EntryFrame, Frame
  <2>2. program.entry \in Int
    BY <1>1, EngineAssumption DEF EngineInv, WellFormed
  <2>3. <<EntryFrame>> \in Seq(Frame)
    BY <2>1
  <2> QED
    BY <2>2, <2>3 DEF Init, ControlOK, Statuses
<1> QED
  BY <1>1, <1>2, <1>4, <1>5 DEF TypedInv

LEMMA TypedNext == TypedInv /\ [Next]_vars => TypedInv'
<1> SUFFICES ASSUME TypedInv, [Next]_vars PROVE TypedInv'
  OBVIOUS
<1>1. EngineInv'
  BY EngineNextInv DEF TypedInv
<1>2. CASE Step
  <2>1. Steady /\ ControlOK'
    BY <1>2, StepSteady, StepControl
  <2> QED
    BY <1>1, <2>1 DEF TypedInv, Steady, ValuesStep
<1>3. CASE UNCHANGED vars
  BY <1>1, <1>3 DEF TypedInv, ControlOK, vars, machineVars
<1> QED
  BY <1>2, <1>3 DEF Next, Stopped

-----------------------------------------------------------------------------
(* Theorems *)

\* Registers and items hold values, doubles with denominators and references with an
\* index; the items of every object, living or destroyed, fit in its room; frames and
\* special registers are numbers (vm.hpp, fast_value.hpp).
THEOREM MachineTyped == Spec => []TypedInv
<1>1. Init => TypedInv
  BY TypedInit
<1> QED
  BY <1>1, TypedNext, PTL DEF Spec

\* The type invariant that is model-checked (vm.hpp, call_frame.hpp).
THEOREM EngineTypes == Spec => []EngineTypeOK
<1>1. ASSUME TypedInv PROVE EngineTypeOK
  <2>1. HeapTypeOK
    BY <1>1 DEF TypedInv, EngineInv, HeapInv
  <2>2. Valued \subseteq Value
    BY DEF Valued
  <2>3. m_memory \in [Regs -> Value]
    BY <1>1, <2>2 DEF TypedInv
  <2>4. ASSUME NEW o \in Object
        PROVE  /\ contents[o].kind \in {"none", "sequence", "string"}
               /\ contents[o].items \in Seq(Value)
               /\ Len(contents[o].items) <= contents[o].room
    <3>1. contents[o] \in Kempt
      BY <1>1 DEF TypedInv
    <3>2. Seq(Valued) \subseteq Seq(Value)
      BY <2>2
    <3> QED
      BY <3>1, <3>2, KemptParts
  <2> QED
    BY <1>1, <2>1, <2>3, <2>4 DEF EngineTypeOK, TypedInv, ControlOK, Frame, Statuses
<1> QED
  BY <1>1, MachineTyped, PTL

\* No handler, native or collection changes the size of a tuple, but for seq_obj_push:
\* a run in which that instruction meets no tuple keeps them all as they were frozen
\* (vm.cpp:267, vm.md:35).
THEOREM TuplesKeep == Spec /\ [][~PushesFrozen]_vars => FrozenSizeFixed
<1> DEFINE Fixed == \A o \in Object :
                       Alive(contents, o) /\ contents[o].frozen /\ Alive(contents, o)' =>
                          Len(contents'[o].items) = Len(contents[o].items)
<1>1. ASSUME TypedInv, [Next]_vars, [~PushesFrozen]_vars PROVE [Fixed]_vars
  <2>1. CASE Step
    <3>1. PushesFrozen \/ TuplesKeepSize
      BY <1>1, <2>1, StepSteady DEF Steady
    <3>2. TuplesKeepSize => Fixed
      BY DEF TuplesKeepSize, Alive
    <3> QED
      BY <1>1, <3>1, <3>2
  <2>2. CASE UNCHANGED vars
    BY <2>2
  <2> QED
    BY <1>1, <2>1, <2>2 DEF Next, Stopped
<1> QED
  BY <1>1, MachineTyped, PTL DEF Spec, FrozenSizeFixed

-----------------------------------------------------------------------------
(* The stack of activations *)

\* No function's registers begin below those of a caller.
FramesNest ==
    \A i \in 1..m_rrd : 0 <= BaseOf(i) /\ \A j \in i..m_rrd : BaseOf(i) <= BaseOf(j)

StackInv == TypedInv /\ FramesNest

\* The running function writes one of its own registers, if any.
Touches ==
    \/ m_memory' = m_memory
    \/ \E r \in Regs : r >= m_rbp /\ \E v : m_memory' = [m_memory EXCEPT ![r] = v]

\* A step within a function.
Stays == UNCHANGED <<m_call_frames, m_rfi, m_rbp>> /\ Touches

LEMMA OwnRegister ==
    ASSUME TypedInv, StaysInFrame, NEW op, Fetched(op), 1 \in AlwaysRegisters(op)
    PROVE  Abs(1) \in Regs /\ Abs(1) >= m_rbp
BY Destination DEF StaysInFrame, Fetched

LEMMA ObjectsStay ==
    ASSUME TypedInv, StaysInFrame,
           \/ nop \/ handle_inc_dec_halt \/ handle_jump \/ OutOfRangeAccess
           \/ handle_make_str \/ handle_make_seq
           \/ handle_seq_obj_push \/ handle_seq_obj_pop \/ handle_seq_obj_get
           \/ handle_frz_seq_obj
    PROVE  Stays
<1>1. UNCHANGED <<m_call_frames, m_rfi, m_rbp>>
  <2>1. CASE handle_jump
    BY <2>1 DEF handle_jump, KeepsFrame
  <2> QED
    BY <2>1, ObjectsPlod DEF Plods
<1>2. CASE handle_make_str \/ handle_make_seq \/ handle_seq_obj_pop \/ handle_seq_obj_get
  <2>1. PICK op \in {"make_str", "make_seq", "seq_obj_pop", "seq_obj_get"} : Fetched(op)
    BY <1>2 DEF handle_make_str, handle_make_seq, handle_seq_obj_pop, handle_seq_obj_get
  <2>2. Abs(1) \in Regs /\ Abs(1) >= m_rbp
    BY <2>1, OwnRegister DEF AlwaysRegisters
  <2>3. m_memory' = m_memory \/ \E v : m_memory' = [m_memory EXCEPT ![Abs(1)] = v]
    BY <1>2 DEF handle_make_str, handle_make_seq, handle_seq_obj_pop, handle_seq_obj_get,
       Undefined, Error, OnObject, machineVars
  <2> QED
    BY <1>1, <2>2, <2>3 DEF Stays, Touches
<1>3. CASE \/ nop \/ handle_inc_dec_halt \/ handle_jump \/ OutOfRangeAccess
           \/ handle_seq_obj_push \/ handle_frz_seq_obj
  <2>1. m_memory' = m_memory
    BY <1>3 DEF nop, handle_inc_dec_halt, handle_jump, OutOfRangeAccess,
       handle_seq_obj_push, handle_frz_seq_obj, Undefined, Error, OnObject, machineVars
  <2> QED
    BY <1>1, <2>1 DEF Stays, Touches
<1> QED
  BY <1>2, <1>3

LEMMA RegistersStay ==
    ASSUME TypedInv, StaysInFrame,
           \/ handle_load_const \/ handle_mov \/ handle_neg
           \/ \E op \in {"mul", "add", "sub"} : handle_assigning(op)
           \/ \E op \in {"div", "mod"} : handle_dividing(op)
           \/ \E op \in Comparison : handle_cmp(op)
    PROVE  Stays
<1>1. UNCHANGED <<m_call_frames, m_rfi, m_rbp>>
  BY RegistersPlod DEF Plods
<1>2. PICK op : Fetched(op) /\ op \in Arithmetic \cup Comparison \cup {"load_const", "mov", "neg"}
  BY DEF handle_load_const, handle_mov, handle_neg, handle_assigning, handle_dividing,
         handle_cmp, Arithmetic
<1>3. Abs(1) \in Regs /\ Abs(1) >= m_rbp
  <2>1. 1 \in AlwaysRegisters(op)
    BY <1>2 DEF AlwaysRegisters, Arithmetic, Comparison
  <2> QED
    BY <1>2, <2>1, OwnRegister
<1>4. m_memory' = m_memory \/ \E v : m_memory' = [m_memory EXCEPT ![Abs(1)] = v]
  BY DEF handle_load_const, handle_mov, handle_neg, handle_assigning, handle_dividing,
         handle_cmp, WriteRaising, Undefined, Terminate, Error, machineVars
<1> QED
  BY <1>1, <1>3, <1>4 DEF Stays, Touches

LEMMA NativeStays ==
    ASSUME TypedInv, StaysInFrame, handle_native_call
    PROVE  Stays
<1> DEFINE name == NativeTable[arg(1) + 1]
<1> DEFINE argc == arg(2)
<1>1. UNCHANGED <<m_call_frames, m_rfi, m_rbp>>
  BY NativePlods DEF Plods
<1>2. CASE Undefined \/ Terminate
  BY <1>1, <1>2 DEF Undefined, Terminate, machineVars, Stays, Touches
<1>3. CASE ~NativeUndefined(name, argc) /\ Native(name, argc)
  <2>1. BaseSlot(argc) >= m_rbp
    BY DEF handle_native_call, StaysInFrame, Fetched
  <2> HIDE DEF name, argc
  <2>2. BaseSlot(argc) \in Regs
    <3>1. BaseSlot(argc) + 0 \in Regs
      BY <1>3 DEF NativeUndefined
    <3>2. BaseSlot(argc) \in Int
      <4>1. argc \in Nat
        BY ImmediateNat DEF handle_native_call, Fetched, Immediates, argc
      <4> QED
        BY <4>1 DEF BaseSlot, TypedInv, ControlOK
    <3> QED
      BY <3>1, <3>2
  <2>3. Succeeds \/ Fails \/ \E v : Returns(v, argc)
    BY <1>3 DEF Native, native_print_value, native_prompt, native_readln, native_len_of,
       native_list_push_back, native_list_pop, native_list_concat, native_strcat,
       native_substr, native_stoi, native_stof, native_get_argv
  <2>4. m_memory' = m_memory \/ \E v : m_memory' = [m_memory EXCEPT ![BaseSlot(argc)] = v]
    BY <2>3 DEF Succeeds, Fails, Returns, handle_native_fn_return
  <2> QED
    BY <1>1, <2>1, <2>2, <2>4 DEF Stays, Touches
<1> QED
  BY <1>2, <1>3 DEF handle_native_call

LEMMA BasesTyped ==
    ASSUME TypedInv
    PROVE  /\ m_rrd \in Nat /\ m_rbp \in Int
           /\ \A i \in 1..m_rrd : BaseOf(i) \in Int /\ m_call_frames[i] \in Frame
<1>1. m_call_frames \in Seq(Frame) /\ m_rbp \in Int
  BY DEF TypedInv, ControlOK
<1>2. m_rrd \in Nat /\ \A i \in 1..m_rrd : m_call_frames[i] \in Frame
  BY <1>1, LenProperties, ElementOfSeq DEF m_rrd
<1>3. \A f \in Frame : f.base \in Int
  BY DEF Frame
<1>4. \A i \in 1..m_rrd : i # m_rrd => i + 1 \in 1..m_rrd
  BY <1>2
<1> QED
  BY <1>1, <1>2, <1>3, <1>4 DEF BaseOf

\* A register below the base of a callee is written by nobody.
LEMMA WindowKept ==
    ASSUME StackInv, Touches, NEW k \in 1..(m_rrd - 1),
           NEW i \in 1..(BaseOf(k + 1) - BaseOf(k))
    PROVE  m_memory'[BaseOf(k) + i - 1] = m_memory[BaseOf(k) + i - 1]
<1> DEFINE q == BaseOf(k) + i - 1
<1>1. /\ m_rrd \in Nat /\ m_rbp \in Int /\ k \in 1..m_rrd /\ k + 1 \in 1..m_rrd
      /\ BaseOf(k) \in Int /\ BaseOf(k + 1) \in Int /\ BaseOf(m_rrd) = m_rbp
  BY BasesTyped DEF StackInv, BaseOf
<1>2. 0 <= BaseOf(k) /\ BaseOf(k + 1) <= BaseOf(m_rrd)
  BY <1>1 DEF StackInv, FramesNest
<1>3. q \in Int /\ 0 <= q /\ q < m_rbp
  BY <1>1, <1>2
<1> HIDE DEF q
<1>4. ASSUME NEW r \in Regs, NEW v, r >= m_rbp, m_memory' = [m_memory EXCEPT ![r] = v]
      PROVE  m_memory'[q] = m_memory[q]
  <2>1. q \in Regs /\ q # r
    BY <1>1, <1>3, <1>4, EngineAssumption DEF Regs
  <2>2. DOMAIN m_memory = Regs
    BY DEF StackInv, TypedInv
  <2> QED
    BY <1>4, <2>1, <2>2
<1>5. m_memory'[q] = m_memory[q]
  BY <1>4 DEF Touches
<1> QED
  BY <1>5 DEF q

LEMMA StaysCallers ==
    ASSUME StackInv, Stays
    PROVE  Callers' = Callers /\ FramesNest' /\ m_rrd' = m_rrd
<1>1. m_rrd' = m_rrd /\ \A i : BaseOf(i)' = BaseOf(i)
  BY DEF Stays, m_rrd, BaseOf
<1>2. ASSUME NEW k \in 1..(m_rrd - 1), NEW i \in 1..(BaseOf(k + 1) - BaseOf(k))
      PROVE  m_memory'[BaseOf(k) + i - 1] = m_memory[BaseOf(k) + i - 1]
  BY <1>2, WindowKept DEF Stays
<1>3. Callers' = Callers
  BY <1>1, <1>2 DEF Callers, Stays, FrameControl
<1>4. FramesNest'
  BY <1>1 DEF FramesNest, StackInv
<1> QED
  BY <1>1, <1>3, <1>4

LEMMA Prefix ==
    ASSUME NEW n \in Nat, NEW m \in 0..n, NEW s, s = [k \in 1..n |-> s[k]]
    PROVE  SubSeq(s, 1, m) = [k \in 1..m |-> s[k]]
<1> DEFINE S == {s[k] : k \in 1..n}
<1>1. s \in [1..n -> S]
  OBVIOUS
<1> HIDE DEF S
<1>2. s \in Seq(S)
  BY <1>1, SeqDef
<1> QED
  BY <1>1, <1>2

LEMMA CallersLength ==
    ASSUME TypedInv, m_rrd > 0
    PROVE  Len(Callers) = m_rrd - 1 /\ Callers = [k \in 1..(m_rrd - 1) |-> Callers[k]]
<1>1. m_rrd - 1 \in Nat
  BY BasesTyped
<1>2. Callers = [k \in 1..(m_rrd - 1) |-> Callers[k]]
  BY DEF Callers
<1> QED
  BY <1>1, <1>2, SeqOfFunction

\* A call suspends the caller: its registers end where the callee's begin.
LEMMA CallSuspends ==
    ASSUME StackInv, StaysInFrame, handle_call, ~Undefined
    PROVE  FramesNest' /\ Activations!Call
<1>0. PICK n \in Nat : n = m_rrd
  BY BasesTyped DEF StackInv
<1>1. /\ n > 0 /\ m_rbp \in Int
      /\ \A i \in 1..n : BaseOf(i) \in Int /\ m_call_frames[i] \in Frame
  BY <1>0, BasesTyped DEF StackInv, handle_call, Fetched, Running
<1>2. /\ m_rrd' = n + 1 /\ m_call_frames'[n + 1] = SavedFrame
      /\ \A i \in 1..n : m_call_frames'[i] = m_call_frames[i]
  <2>1. m_call_frames \in Seq(Frame) /\ SavedFrame \in Frame
    BY DEF StackInv, handle_call, Fetched, Running, TypedInv, ControlOK, SavedFrame, Frame
  <2>2. m_call_frames' = Append(m_call_frames, SavedFrame)
    BY DEF handle_call
  <2> QED
    BY <1>0, <2>1, <2>2, AppendProperties DEF m_rrd
<1>3. m_rbp' \in Int /\ m_rbp' >= m_rbp /\ m_rip' = 0 /\ UNCHANGED m_memory
  <2>1. arg(2) \in Nat
    BY ImmediateNat DEF StackInv, handle_call, Fetched, Immediates
  <2>2. m_rbp' = CalleeBase(arg(2)) /\ m_rip' = 0 /\ UNCHANGED m_memory
    BY DEF handle_call
  <2>3. CalleeBase(arg(2)) >= m_rbp
    BY DEF handle_call, StaysInFrame, Fetched
  <2>4. CalleeBase(arg(2)) \in Int
    BY <2>1 DEF CalleeBase, StackInv, TypedInv, ControlOK
  <2> QED
    BY <2>2, <2>3, <2>4
<1>4. BaseOf(n) = m_rbp /\ BaseOf(n + 1)' = m_rbp'
  BY <1>0, <1>2 DEF BaseOf
<1>5. \A i \in 1..n : BaseOf(i)' = BaseOf(i)
  <2>1. ASSUME NEW i \in 1..n PROVE BaseOf(i)' = m_call_frames'[i + 1].base
    BY <1>0, <1>1, <1>2 DEF BaseOf
  <2>2. BaseOf(n)' = BaseOf(n)
    BY <1>0, <1>1, <1>2, <1>4, <2>1 DEF SavedFrame
  <2>3. ASSUME NEW i \in 1..n, i # n PROVE BaseOf(i)' = BaseOf(i)
    BY <1>0, <1>1, <1>2, <2>1, <2>3 DEF BaseOf
  <2> QED
    BY <2>2, <2>3
<1>6. FramesNest'
  <2>1. ASSUME NEW i \in 1..(n + 1)
        PROVE  0 <= BaseOf(i)' /\ \A j \in i..(n + 1) : BaseOf(i)' <= BaseOf(j)'
    <3>1. n \in 1..n /\ 0 <= BaseOf(n)
      BY <1>0, <1>1 DEF StackInv, FramesNest
    <3>2. CASE i = n + 1
      BY <1>0, <1>1, <1>3, <1>4, <3>1, <3>2
    <3>3. CASE i \in 1..n
      <4>1. /\ 0 <= BaseOf(i) /\ BaseOf(i) <= BaseOf(n)
            /\ \A j \in i..n : BaseOf(i) <= BaseOf(j)
        BY <1>0, <1>1, <3>3 DEF StackInv, FramesNest
      <4> QED
        BY <1>0, <1>1, <1>3, <1>4, <1>5, <3>3, <4>1
    <3> QED
      BY <1>0, <1>1, <3>2, <3>3
  <2> QED
    BY <1>0, <1>2, <2>1 DEF FramesNest
<1>7. Len(Callers) = n - 1 /\ Callers = [k \in 1..(n - 1) |-> Callers[k]]
  BY <1>0, <1>1, CallersLength DEF StackInv
<1>8. Len(Callers') = n /\ Callers' = [k \in 1..n |-> Callers'[k]]
  <2>1. Callers' = [k \in 1..n |-> Callers'[k]]
    BY <1>0, <1>1, <1>2 DEF Callers
  <2> QED
    BY <1>0, <1>1, <2>1, SeqOfFunction
<1>9. ASSUME NEW k \in 1..(n - 1) PROVE Callers'[k] = Callers[k]
  <2>1. k \in 1..n /\ k + 1 \in 1..n /\ k \in 1..(m_rrd' - 1)
    BY <1>0, <1>1, <1>2
  <2>2. /\ BaseOf(k)' = BaseOf(k) /\ BaseOf(k + 1)' = BaseOf(k + 1)
        /\ m_call_frames'[k + 1] = m_call_frames[k + 1]
    BY <1>0, <1>2, <1>5, <2>1
  <2>3. k \in 1..(m_rrd - 1)
    BY <1>0
  <2> QED
    BY <1>3, <2>1, <2>2, <2>3 DEF Callers, FrameControl
<1>10. SubSeq(Callers', 1, n - 1) = Callers
  <2>1. SubSeq(Callers', 1, n - 1) = [k \in 1..(n - 1) |-> Callers'[k]]
    BY <1>0, <1>1, <1>8, Prefix
  <2> QED
    BY <1>7, <1>9, <2>1
<1>11. Callers'[n].control = [RunningControl EXCEPT !.ip = @ + 1]
  <2>1. n \in 1..(m_rrd' - 1)
    BY <1>0, <1>1, <1>2
  <2>2. Callers'[n].control = FrameControl(SavedFrame)
    BY <1>0, <1>2, <2>1 DEF Callers, FrameControl
  <2> QED
    BY <2>2 DEF FrameControl, SavedFrame, RunningControl
<1>12. RunningControl'.ip = 0
  BY <1>3 DEF RunningControl
<1> QED
  BY <1>0, <1>1, <1>2, <1>6, <1>7, <1>8, <1>10, <1>11, <1>12 DEF Activations!Call

\* A return resumes the caller suspended last; what it writes is a register of the
\* callee's.
LEMMA RetResumes ==
    ASSUME StackInv, handle_ret, ~Terminate
    PROVE  FramesNest' /\ (Activations!Return \/ Activations!Finish)
<1>0. PICK n \in Nat : n = m_rrd
  BY BasesTyped DEF StackInv
<1> DEFINE caller == m_call_frames[n]
<1>1. /\ n > 0 /\ m_rbp \in Int /\ n \in 1..n
      /\ \A i \in 1..n : BaseOf(i) \in Int /\ m_call_frames[i] \in Frame
  BY <1>0, BasesTyped DEF StackInv, handle_ret, Fetched, Running
<1>2. /\ m_call_frames' = SubSeq(m_call_frames, 1, n - 1)
      /\ m_rfi' = caller.func /\ m_rip' = caller.ip
      /\ m_rbp' = caller.base /\ m_rft' = caller.top
      /\ Touches
  <2>1. m_rbp \in Regs /\ m_rbp >= m_rbp
    BY <1>1 DEF handle_ret, Fetched, InRange
  <2>2. \E v : m_memory' = [m_memory EXCEPT ![m_rbp] = v]
    BY DEF handle_ret
  <2> QED
    BY <1>0, <2>1, <2>2 DEF handle_ret, RestoredTop, Touches
<1>3. m_rrd' = n - 1 /\ \A i \in 1..(n - 1) : m_call_frames'[i] = m_call_frames[i]
  <2>1. m_call_frames \in Seq(Frame) /\ Len(m_call_frames) = n
    BY <1>0 DEF StackInv, TypedInv, ControlOK, m_rrd
  <2>2. m_call_frames = [i \in 1..n |-> m_call_frames[i]]
    BY <2>1, LenProperties
  <2>3. m_call_frames' = [i \in 1..(n - 1) |-> m_call_frames[i]]
    BY <1>1, <1>2, <2>2, Prefix
  <2>4. Len(m_call_frames') = n - 1
    BY <1>1, <2>3, SeqOfFunction
  <2> QED
    BY <2>3, <2>4 DEF m_rrd
<1>4. \A i \in 1..(n - 1) : BaseOf(i)' = BaseOf(i)
  <2>1. ASSUME NEW i \in 1..(n - 1), i = n - 1 PROVE BaseOf(i)' = BaseOf(i)
    BY <1>0, <1>2, <1>3, <2>1 DEF BaseOf
  <2>2. ASSUME NEW i \in 1..(n - 1), i # n - 1 PROVE BaseOf(i)' = BaseOf(i)
    <3>1. i + 1 \in 1..(n - 1) /\ i # n
      BY <2>2
    <3> QED
      BY <1>0, <1>3, <2>2, <3>1 DEF BaseOf
  <2> QED
    BY <2>1, <2>2
<1>5. FramesNest'
  <2>1. ASSUME NEW i \in 1..(n - 1)
        PROVE  0 <= BaseOf(i)' /\ \A j \in i..(n - 1) : BaseOf(i)' <= BaseOf(j)'
    <3>1. i \in 1..n /\ \A j \in i..(n - 1) : j \in i..n /\ j \in 1..(n - 1)
      OBVIOUS
    <3>2. 0 <= BaseOf(i) /\ \A j \in i..n : BaseOf(i) <= BaseOf(j)
      BY <1>0, <3>1 DEF StackInv, FramesNest
    <3> QED
      BY <1>4, <3>1, <3>2
  <2> QED
    BY <1>3, <2>1 DEF FramesNest
<1>6. Len(Callers) = n - 1 /\ Callers = [k \in 1..(n - 1) |-> Callers[k]]
  BY <1>0, <1>1, CallersLength DEF StackInv
<1>7. CASE n = 1
  <2>1. m_rrd' = 0 /\ Callers = <<>> /\ Callers' = <<>>
    <3>1. \A f : f = [k \in 1..0 |-> f[k]] => f = <<>>
      OBVIOUS
    <3>2. Callers' = [k \in 1..(n - 2) |-> Callers'[k]] /\ 1..(n - 2) = {} /\ 1..0 = {}
      BY <1>3, <1>7 DEF Callers
    <3> QED
      BY <1>3, <1>6, <1>7, <3>1, <3>2
  <2> QED
    BY <1>0, <1>5, <1>7, <2>1 DEF Activations!Finish
<1>8. CASE n > 1
  <2>1. Callers' = [k \in 1..(n - 2) |-> Callers'[k]]
    BY <1>3 DEF Callers
  <2>2. ASSUME NEW k \in 1..(n - 2) PROVE Callers'[k] = Callers[k]
    <3>1. /\ k \in 1..(m_rrd' - 1) /\ k \in 1..(m_rrd - 1)
          /\ k \in 1..(n - 1) /\ k + 1 \in 1..(n - 1)
      BY <1>0, <1>3
    <3>2. /\ BaseOf(k)' = BaseOf(k) /\ BaseOf(k + 1)' = BaseOf(k + 1)
          /\ m_call_frames'[k + 1] = m_call_frames[k + 1]
      BY <1>3, <1>4, <3>1
    <3>3. \A i \in 1..(BaseOf(k + 1) - BaseOf(k)) :
             m_memory'[BaseOf(k) + i - 1] = m_memory[BaseOf(k) + i - 1]
      BY <1>2, <3>1, WindowKept
    <3> QED
      BY <3>1, <3>2, <3>3 DEF Callers, FrameControl
  <2>3. SubSeq(Callers, 1, n - 2) = [k \in 1..(n - 2) |-> Callers[k]]
    BY <1>6, <1>8, Prefix
  <2>4. Callers' = SubSeq(Callers, 1, n - 2)
    BY <2>1, <2>2, <2>3
  <2>5. RunningControl' = Callers[n - 1].control
    <3>1. n - 1 \in 1..(m_rrd - 1) /\ (n - 1) + 1 = n
      BY <1>0, <1>8
    <3>2. Callers[n - 1].control = FrameControl(m_call_frames[n])
      BY <3>1 DEF Callers
    <3> QED
      BY <1>2, <3>2 DEF RunningControl, FrameControl
  <2>6. Callers # <<>> /\ m_rrd # 0 /\ m_rrd' # 0 /\ (n - 1) - 1 = n - 2
    BY <1>0, <1>3, <1>6, <1>8, EmptySeq
  <2> QED
    BY <1>5, <1>6, <2>4, <2>5, <2>6 DEF Activations!Return
<1> QED
  BY <1>1, <1>5, <1>7, <1>8

LEMMA StackNext ==
    ASSUME StackInv, StaysInFrame, [Next]_vars
    PROVE  /\ StackInv'
           /\ [\/ Activations!Call \/ Activations!Return
               \/ Activations!Finish \/ Activations!Local]_(Activations!stackVars)
<1>1. TypedInv'
  BY TypedNext DEF StackInv
<1>2. CASE Stays /\ Running
  <2>1. m_rrd # 0
    BY <1>2, BasesTyped DEF Running, StackInv
  <2>2. RunningControl'.func = RunningControl.func /\ RunningControl'.base = RunningControl.base
    BY <1>2 DEF Stays, RunningControl
  <2> QED
    BY <1>1, <1>2, <2>1, <2>2, StaysCallers DEF StackInv, Activations!Local
<1>3. CASE UNCHANGED vars
  <2>1. UNCHANGED machineVars
    BY <1>3 DEF vars
  <2>2. RunningControl' = RunningControl /\ m_rrd' = m_rrd
    BY <2>1 DEF machineVars, RunningControl, m_rrd
  <2>3. Stays
    BY <2>1 DEF machineVars, Stays, Touches
  <2> QED
    BY <1>1, <2>2, <2>3, StaysCallers DEF StackInv, Activations!stackVars
<1>4. CASE Step
  <2>1. Running
    BY <1>4 DEF Step, nop, handle_make_str, handle_make_seq, handle_seq_obj_push,
       handle_seq_obj_pop, handle_seq_obj_get, handle_frz_seq_obj, handle_load_const,
       handle_mov, handle_neg, handle_inc_dec_halt, handle_assigning, handle_dividing,
       handle_cmp, handle_jump, handle_call, handle_ret, handle_native_call,
       OutOfRangeAccess, Fetched
  <2>2. CASE handle_call /\ ~Undefined
    BY <1>1, <2>2, CallSuspends DEF StackInv
  <2>3. CASE handle_ret /\ ~Terminate
    BY <1>1, <2>3, RetResumes DEF StackInv
  <2>4. CASE Undefined \/ Terminate
    <3>1. Stays
      BY <2>4 DEF Undefined, Terminate, machineVars, Stays, Touches
    <3> QED
      BY <1>2, <2>1, <3>1
  <2>5. CASE ~handle_call /\ ~handle_ret
    <3>1. Stays
      BY <1>4, <2>5, ObjectsStay, RegistersStay, NativeStays DEF Step, StackInv
    <3> QED
      BY <1>2, <2>1, <3>1
  <2> QED
    BY <2>2, <2>3, <2>4, <2>5
<1> QED
  BY <1>3, <1>4 DEF Next, Stopped

\* As long as the code the engine runs stays in its frame, which the engine never
\* checks, calls and returns behave as a stack: a return resumes the caller right after
\* its call, with the registers it had below its callee's (vm.cpp:607, 654).
THEOREM EngineImplementsActivations == Spec /\ []StaysInFrame => ImplementsActivations
<1>1. ASSUME Init PROVE StackInv /\ Activations!Init
  <2>1. m_rrd = 1 /\ m_rbp = 0
    BY <1>1 DEF Init, m_rrd
  <2>2. FramesNest
    BY <2>1 DEF FramesNest, BaseOf
  <2>3. Callers = <<>>
    <3>1. \A f : f = [k \in 1..0 |-> f[k]] => f = <<>>
      OBVIOUS
    <3>2. Callers = [k \in 1..0 |-> Callers[k]]
      BY <2>1 DEF Callers
    <3> QED
      BY <3>1, <3>2
  <2> QED
    BY <1>1, <2>1, <2>2, <2>3, TypedInit DEF StackInv, Activations!Init
<1> QED
  BY <1>1, StackNext, PTL DEF Spec, ImplementsActivations, Activations!Spec

-----------------------------------------------------------------------------
(* Prepared programs stay in their frames *)

\* Where a function, running or waiting for a callee, has come to: its registers begin
\* at most one above the top, the arguments of the call it is about to make are its
\* own, and if it has no register yet, no native is near.
Settled(c) ==
    /\ c.base <= c.top + 1
    /\ c.func \in DOMAIN program.chunks =>
          LET chunk == program.chunks[c.func] IN
          /\ c.ip + 1 \in DOMAIN chunk /\ PassesArguments(chunk[c.ip + 1]) =>
                c.base <= c.top - Passed(chunk[c.ip + 1]) + 1
          /\ c.base <= c.top \/ (AsksLate(chunk) /\ ~ Opened(chunk, c.ip))

SettledInv ==
    /\ TypedInv /\ Prepared(program)
    /\ Settled(RunningControl)
    /\ \A i \in 1..m_rrd : Settled(FrameControl(m_call_frames[i]))

\* What is known of the instruction that is fetched.
LEMMA FetchedPrepared ==
    ASSUME SettledInv, InRange
    PROVE  /\ m_rip \in Nat /\ m_rbp \in Int /\ m_rft \in Int
           /\ m_rip + 1 \in DOMAIN Chunk /\ Instr = Chunk[m_rip + 1]
           /\ m_rfi \in DOMAIN program.chunks /\ Chunk = program.chunks[m_rfi]
           /\ Counted(Chunk) /\ ArgumentsInPlace(Chunk)
           /\ m_rbp <= m_rft + 1
           /\ PassesArguments(Instr) => m_rbp <= m_rft - Passed(Instr) + 1
           /\ m_rbp <= m_rft \/ (AsksLate(Chunk) /\ ~ Opened(Chunk, m_rip))
<1>1. /\ m_rip \in Nat /\ m_rbp \in Int /\ m_rft \in Int
      /\ m_rip + 1 \in DOMAIN Chunk /\ Instr = Chunk[m_rip + 1]
      /\ m_rfi \in DOMAIN program.chunks /\ Chunk = program.chunks[m_rfi]
  BY DEF SettledInv, TypedInv, ControlOK, InRange, Instr, Chunk
<1>2. Counted(Chunk) /\ ArgumentsInPlace(Chunk)
  BY <1>1 DEF SettledInv, Prepared
<1>3. Settled(RunningControl)
  BY DEF SettledInv
<1> QED
  BY <1>1, <1>2, <1>3 DEF Settled, RunningControl

\* vm.cpp:171, 607: what the engine writes, and hands to functions and natives, are
\* registers of the function that runs.
LEMMA SettledStays == ASSUME SettledInv PROVE StaysInFrame
<1> SUFFICES ASSUME Running, InRange
             PROVE  /\ 1 \in AlwaysRegisters(Instr.op) => Abs(1) >= m_rbp
                    /\ Instr.op = "call" => CalleeBase(arg(2)) >= m_rbp
                    /\ Instr.op = "native_call" => BaseSlot(arg(2)) >= m_rbp
  BY DEF StaysInFrame
<1>1. \A i \in Immediates(Instr.op) \cup (IF Instr.op \in {"nop", "halt"} THEN {} ELSE {1}) :
         arg(i) \in Nat
  BY FetchedPrepared DEF Counted, arg
<1>2. ASSUME 1 \in AlwaysRegisters(Instr.op) PROVE Abs(1) >= m_rbp
  <2>1. Instr.op \notin {"nop", "halt"}
    BY <1>2 DEF AlwaysRegisters
  <2>2. arg(1) \in Nat
    BY <1>1, <2>1
  <2> QED
    BY <2>2, FetchedPrepared DEF Abs
<1>3. ASSUME Instr.op \in CallOps PROVE arg(2) \in Nat /\ arg(2) = Passed(Instr)
  BY <1>1, <1>3 DEF CallOps, Immediates, arg, Passed
<1>4. ASSUME Instr.op \in CallOps, arg(2) > 0 PROVE m_rbp <= m_rft - arg(2) + 1
  BY <1>3, <1>4, FetchedPrepared DEF PassesArguments
<1>5. ASSUME Instr.op = "call" PROVE CalleeBase(arg(2)) >= m_rbp
  <2>1. CASE arg(2) > 0
    BY <1>3, <1>4, <1>5, <2>1, FetchedPrepared DEF CalleeBase, CallOps
  <2>2. CASE arg(2) = 0
    BY <2>2, FetchedPrepared DEF CalleeBase
  <2> QED
    BY <1>3, <1>5, <2>1, <2>2 DEF CallOps
<1>6. ASSUME Instr.op = "native_call" PROVE BaseSlot(arg(2)) >= m_rbp
  <2>1. CASE arg(2) > 0
    BY <1>3, <1>4, <1>6, <2>1, FetchedPrepared DEF BaseSlot, CallOps
  <2>2. CASE arg(2) = 0
    <3>1. PassesNone(Chunk[m_rip + 1], "native_call")
      BY <1>3, <1>6, <2>2, FetchedPrepared DEF PassesNone, CallOps
    <3>2. AsksLate(Chunk) => Opened(Chunk, m_rip)
      <4>1. (m_rip + 1) - 1 = m_rip
        BY FetchedPrepared
      <4> QED
        BY <3>1, <4>1, FetchedPrepared DEF AsksLate
    <3>3. m_rbp <= m_rft
      BY <3>2, FetchedPrepared
    <3> QED
      BY <2>2, <3>3, FetchedPrepared DEF BaseSlot
  <2> QED
    BY <1>3, <1>6, <2>1, <2>2 DEF CallOps
<1> QED
  BY <1>2, <1>5, <1>6

\* A handler that goes on to the next instruction, or stops at the same one: the top
\* does not come down, and is raised to the register of an instruction that raises it.
Proceeds ==
    /\ UNCHANGED <<m_call_frames, m_rfi, m_rbp, program>>
    /\ m_rft' \in Int /\ m_rft' >= m_rft
    /\ \/ m_rip' = m_rip
       \/ /\ InRange /\ m_rip' = m_rip + 1
          /\ Instr.op \notin Jumps
          /\ Instr.op \in Raising => m_rft' >= Abs(1)

LEMMA StopsProceed ==
    ASSUME TypedInv,
           \/ Undefined \/ Terminate
           \/ \E status \in {"op_error", "arg_error", "mem_error", "math_error"} : Error(status)
    PROVE  Proceeds
BY DEF TypedInv, ControlOK, Proceeds, Undefined, Terminate, Error, KeepsFrame, machineVars

LEMMA ObjectsProceed ==
    ASSUME TypedInv,
           \/ nop \/ handle_inc_dec_halt \/ OutOfRangeAccess
           \/ handle_make_str \/ handle_make_seq
           \/ handle_seq_obj_push \/ handle_seq_obj_pop \/ handle_seq_obj_get
           \/ handle_frz_seq_obj
    PROVE  Proceeds
<1>1. CASE \/ Undefined
           \/ \E status \in {"op_error", "arg_error", "mem_error"} : Error(status)
  BY <1>1, StopsProceed
<1>2. CASE /\ KeepsFrame /\ Advance /\ UNCHANGED m_rft
           /\ \E op \in {"nop", "make_str", "make_seq", "seq_obj_push", "seq_obj_pop",
                         "seq_obj_get", "frz_seq_obj"} : Fetched(op)
  BY <1>2 DEF TypedInv, ControlOK, Proceeds, KeepsFrame, Advance, Fetched, Jumps, Raising
<1> QED
  BY <1>1, <1>2 DEF nop, handle_inc_dec_halt, OutOfRangeAccess, handle_make_str,
     handle_make_seq, handle_seq_obj_push, handle_seq_obj_pop, handle_seq_obj_get,
     handle_frz_seq_obj, OnObject

LEMMA RegistersProceed ==
    ASSUME TypedInv,
           \/ handle_load_const \/ handle_mov \/ handle_neg
           \/ \E op \in {"mul", "add", "sub"} : handle_assigning(op)
           \/ \E op \in {"div", "mod"} : handle_dividing(op)
           \/ \E op \in Comparison : handle_cmp(op)
    PROVE  Proceeds
<1>1. CASE \/ Undefined \/ Terminate
           \/ \E status \in {"arg_error", "mem_error", "math_error"} : Error(status)
  BY <1>1, StopsProceed
<1>2. PICK op : Fetched(op) /\ op \in Arithmetic \cup Comparison \cup {"load_const", "mov", "neg"}
  BY DEF handle_load_const, handle_mov, handle_neg, handle_assigning, handle_dividing,
         handle_cmp, Arithmetic
<1>3. Abs(1) \in Int
  <2>1. 1 \in AlwaysRegisters(op)
    BY <1>2 DEF AlwaysRegisters, Arithmetic, Comparison
  <2> QED
    BY <1>2, <2>1, Destination, EngineAssumption DEF Regs
<1>4. CASE /\ KeepsFrame
           /\ \/ UNCHANGED m_rip /\ m_rft' = Raised(Abs(1))
              \/ Advance /\ m_rft' = Raised(Abs(1))
              \/ Advance /\ m_rft' = m_rft /\ op = "neg"
  BY <1>2, <1>3, <1>4 DEF TypedInv, ControlOK, Proceeds, KeepsFrame, Advance, Fetched, Jumps,
     Raising, Raised, Arithmetic, Comparison
<1>5. ASSUME handle_neg PROVE op = "neg"
  BY <1>2, <1>5 DEF handle_neg, Fetched
<1> QED
  BY <1>1, <1>4, <1>5 DEF handle_load_const, handle_mov, handle_neg, handle_assigning,
     handle_dividing, handle_cmp, WriteRaising

LEMMA NativeProceeds == ASSUME TypedInv, handle_native_call PROVE Proceeds
<1> DEFINE name == NativeTable[arg(1) + 1]
<1> DEFINE argc == arg(2)
<1>1. CASE Undefined \/ Terminate
  BY <1>1, StopsProceed
<1>2. CASE /\ Native(name, argc) /\ Advance
           /\ UNCHANGED <<m_call_frames, m_rfi, m_rbp, program, fault>>
  <2> HIDE DEF name, argc
  <2>1. Succeeds \/ Fails \/ \E v : Returns(v, argc)
    BY <1>2 DEF Native, native_print_value, native_prompt, native_readln, native_len_of,
       native_list_push_back, native_list_pop, native_list_concat, native_strcat,
       native_substr, native_stoi, native_stof, native_get_argv
  <2>2. m_rft' = m_rft \/ m_rft' = m_rft + 1
    BY <2>1 DEF Succeeds, Fails, Returns, handle_native_fn_return
  <2> QED
    BY <1>2, <2>2 DEF TypedInv, ControlOK, Proceeds, Advance, handle_native_call, Fetched,
       Jumps, Raising
<1> QED
  BY <1>1, <1>2 DEF handle_native_call

\* The frames of the callers stay as they are.
LEMMA CallersSettled ==
    ASSUME SettledInv, UNCHANGED <<m_call_frames, program>>
    PROVE  /\ Prepared(program)'
           /\ \A i \in 1..m_rrd' : Settled(FrameControl(m_call_frames[i]))'
BY DEF SettledInv, m_rrd, Settled, FrameControl

LEMMA ProceedsSettled == ASSUME SettledInv, TypedInv', Proceeds PROVE SettledInv'
<1>1. /\ m_rip \in Nat /\ m_rbp \in Int /\ m_rft \in Int /\ m_rft' \in Int /\ m_rft' >= m_rft
      /\ m_rfi' = m_rfi /\ m_rbp' = m_rbp /\ program' = program
  BY DEF SettledInv, TypedInv, ControlOK, Proceeds
<1>2. Settled(RunningControl)
  BY DEF SettledInv
<1>3. CASE m_rip' = m_rip
  <2> DEFINE chunk == program.chunks[m_rfi]
  <2>1. m_rbp <= m_rft'+ 1 /\ (m_rbp <= m_rft => m_rbp <= m_rft')
    BY <1>1, <1>2 DEF Settled, RunningControl
  <2>2. ASSUME m_rfi \in DOMAIN program.chunks, m_rip + 1 \in DOMAIN chunk,
               PassesArguments(chunk[m_rip + 1])
        PROVE  m_rbp <= m_rft' - Passed(chunk[m_rip + 1]) + 1
    <3>1. Counted(chunk)
      BY <2>2 DEF SettledInv, Prepared
    <3>2. Passed(chunk[m_rip + 1]) \in Nat
      BY <2>2, <3>1 DEF Counted, Immediates, PassesArguments, Passed, CallOps
    <3>3. m_rbp <= m_rft - Passed(chunk[m_rip + 1]) + 1
      BY <1>2, <2>2 DEF Settled, RunningControl
    <3> QED
      BY <1>1, <3>2, <3>3
  <2>3. Settled(RunningControl)'
    BY <1>1, <1>2, <1>3, <2>1, <2>2 DEF Settled, RunningControl
  <2> QED
    BY <2>3, CallersSettled DEF SettledInv, Proceeds
<1>4. CASE /\ InRange /\ m_rip' = m_rip + 1
           /\ Instr.op \notin Jumps
           /\ Instr.op \in Raising => m_rft' >= Abs(1)
  <2>1. /\ m_rip + 1 \in DOMAIN Chunk /\ Instr = Chunk[m_rip + 1]
        /\ m_rfi \in DOMAIN program.chunks /\ Chunk = program.chunks[m_rfi]
        /\ Counted(Chunk) /\ ArgumentsInPlace(Chunk)
        /\ m_rbp <= m_rft \/ (AsksLate(Chunk) /\ ~ Opened(Chunk, m_rip))
        /\ m_rbp <= m_rft + 1
    BY <1>4, FetchedPrepared
  <2>2. ASSUME Instr.op \in Raising
        PROVE  arg(1) \in Nat /\ Abs(1) = m_rbp + arg(1) /\ m_rft' >= m_rbp + arg(1)
    BY <1>4, <2>1, <2>2 DEF Counted, Raising, arg, Abs
  <2>3. ASSUME m_rip + 2 \in DOMAIN Chunk, PassesArguments(Chunk[m_rip + 2])
        PROVE  m_rbp <= m_rft' - Passed(Chunk[m_rip + 2]) + 1
    <3>1. m_rip + 2 > 1 /\ (m_rip + 2) - 1 = m_rip + 1
      BY <1>1
    <3>2. Instr.op = "mov" /\ arg(1) >= Passed(Chunk[m_rip + 2]) - 1
      BY <2>1, <2>3, <3>1 DEF ArgumentsInPlace, arg
    <3>3. Passed(Chunk[m_rip + 2]) \in Nat
      BY <2>1, <2>3 DEF Counted, Immediates, PassesArguments, Passed, CallOps
    <3>4. m_rft' >= m_rbp + arg(1) /\ arg(1) \in Nat
      BY <2>2, <3>2 DEF Raising
    <3> QED
      BY <1>1, <3>2, <3>3, <3>4
  <2>4. m_rbp <= m_rft' \/ (AsksLate(Chunk) /\ ~ Opened(Chunk, m_rip + 1))
    <3> SUFFICES ASSUME ~ (m_rbp <= m_rft') PROVE AsksLate(Chunk) /\ ~ Opened(Chunk, m_rip + 1)
      OBVIOUS
    <3>1. Instr.op \notin Raising
      BY <1>1, <2>2
    <3>2. ~ (m_rbp <= m_rft)
      BY <1>1
    <3>3. AsksLate(Chunk) /\ ~ Opened(Chunk, m_rip)
      BY <2>1, <3>2
    <3>4. ASSUME NEW j \in DOMAIN Chunk, j \in 1..(m_rip + 1), Chunk[j].op \in Raising
          PROVE  j \in 1..m_rip
      BY <1>1, <2>1, <3>1, <3>4
    <3> QED
      BY <3>3, <3>4 DEF Opened
  <2>5. (m_rip + 1) + 1 = m_rip + 2
    BY <1>1
  <2>6. Settled(RunningControl)'
    BY <1>1, <1>4, <2>1, <2>3, <2>4, <2>5 DEF Settled, RunningControl
  <2> QED
    BY <2>6, CallersSettled DEF SettledInv, Proceeds
<1> QED
  BY <1>3, <1>4 DEF Proceeds

\* Nothing jumps to a call that passes arguments, or past the opening of a function.
LEMMA JumpSettled == ASSUME SettledInv, TypedInv', handle_jump PROVE SettledInv'
<1>1. /\ InRange /\ Instr.op \in Jumps
      /\ m_rip' = JumpsTo(Instr) \/ m_rip' = m_rip + 1
  BY DEF handle_jump, Fetched, Jumps, JumpsTo, arg
<1>2. /\ m_rip \in Nat /\ m_rbp \in Int /\ m_rft \in Int /\ m_rip' \in Nat
      /\ m_rip + 1 \in DOMAIN Chunk /\ Instr = Chunk[m_rip + 1]
      /\ m_rfi \in DOMAIN program.chunks /\ Chunk = program.chunks[m_rfi]
      /\ ArgumentsInPlace(Chunk) /\ (1 \in DOMAIN Chunk => ~ PassesArguments(Chunk[1]))
      /\ m_rbp <= m_rft + 1
      /\ m_rbp <= m_rft \/ (AsksLate(Chunk) /\ ~ Opened(Chunk, m_rip))
  <2>1. m_rip' \in Nat
    BY DEF TypedInv, ControlOK
  <2> QED
    BY <1>1, <2>1, FetchedPrepared DEF SettledInv, Prepared
<1>3. ASSUME m_rip' + 1 \in DOMAIN Chunk, PassesArguments(Chunk[m_rip' + 1]) PROVE FALSE
  <2>1. m_rip' + 1 > 1
    BY <1>2, <1>3
  <2>2. \A k \in Nat : (k + 1) - 1 = k
    OBVIOUS
  <2>3. Chunk[m_rip'].op = "mov" /\ JumpsTo(Instr) # m_rip'
    BY <1>1, <1>2, <1>3, <2>1, <2>2 DEF ArgumentsInPlace
  <2>4. m_rip' = m_rip + 1
    BY <1>1, <2>3
  <2> QED
    BY <1>1, <1>2, <2>3, <2>4 DEF Jumps
<1>4. ASSUME ~ Opened(Chunk, m_rip) PROVE ~ Opened(Chunk, m_rip')
  <2>1. ASSUME NEW j \in DOMAIN Chunk, j \in 1..m_rip', \A i \in 1..j : Chunk[i].op \notin Jumps
        PROVE  j \in 1..m_rip
    <3>1. ~ (m_rip + 1 \in 1..j)
      BY <1>1, <1>2, <2>1
    <3> QED
      BY <1>2, <2>1, <3>1
  <2> QED
    BY <1>4, <2>1 DEF Opened
<1>5. UNCHANGED <<m_call_frames, m_rfi, m_rbp, m_rft, program>>
  BY DEF handle_jump, KeepsFrame
<1>6. Settled(RunningControl)'
  BY <1>2, <1>3, <1>4, <1>5 DEF Settled, RunningControl
<1> QED
  BY <1>5, <1>6, CallersSettled DEF SettledInv

\* A function begins with its arguments for registers; its caller goes on after the
\* call, which is no move.
LEMMA CallSettled == ASSUME SettledInv, TypedInv', handle_call, ~ Undefined PROVE SettledInv'
<1>1. /\ InRange /\ Instr.op = "call"
      /\ m_call_frames' = Append(m_call_frames, SavedFrame)
      /\ m_rfi' = arg(1) /\ m_rip' = 0 /\ m_rbp' = CalleeBase(arg(2))
      /\ UNCHANGED <<m_rft, program>>
  BY DEF handle_call, Fetched
<1>2. /\ m_rip \in Nat /\ m_rbp \in Int /\ m_rft \in Int
      /\ m_rip + 1 \in DOMAIN Chunk /\ Instr = Chunk[m_rip + 1]
      /\ m_rfi \in DOMAIN program.chunks /\ Chunk = program.chunks[m_rfi]
      /\ Counted(Chunk) /\ ArgumentsInPlace(Chunk)
      /\ m_rbp <= m_rft + 1
      /\ m_rbp <= m_rft \/ (AsksLate(Chunk) /\ ~ Opened(Chunk, m_rip))
  BY <1>1, FetchedPrepared
<1>3. arg(2) \in Nat /\ arg(2) = Passed(Instr)
  BY <1>1, <1>2 DEF Counted, Immediates, arg, Passed
<1>4. Settled(RunningControl)'
  <2> DEFINE callee == program.chunks[arg(1)]
  <2>1. m_rbp' = m_rft - arg(2) + 1 /\ m_rbp' \in Int
    BY <1>1, <1>2, <1>3 DEF CalleeBase
  <2>2. m_rbp' <= m_rft + 1
    BY <1>2, <1>3, <2>1
  <2>3. ASSUME arg(1) \in DOMAIN program.chunks
        PROVE  0 + 1 \in DOMAIN callee => ~ PassesArguments(callee[0 + 1])
    BY <2>3 DEF SettledInv, Prepared
  <2>4. ASSUME arg(1) \in DOMAIN program.chunks, ~ (m_rbp' <= m_rft)
        PROVE  AsksLate(callee)
    <3>1. arg(2) = 0
      BY <1>2, <1>3, <2>1, <2>4
    <3>2. PassesNone(Chunk[m_rip + 1], "call") /\ arg(1) = Chunk[m_rip + 1].args[1][2]
      BY <1>1, <1>2, <1>3, <3>1 DEF PassesNone, arg
    <3> QED
      BY <1>2, <2>4, <3>2 DEF SettledInv, Prepared
  <2>5. ~ Opened(callee, 0)
    BY DEF Opened
  <2> QED
    BY <1>1, <2>2, <2>3, <2>4, <2>5 DEF Settled, RunningControl
<1>5. Settled(FrameControl(SavedFrame))
  <2>1. /\ FrameControl(SavedFrame).base = m_rbp /\ FrameControl(SavedFrame).top = m_rft
        /\ FrameControl(SavedFrame).func = m_rfi /\ FrameControl(SavedFrame).ip = m_rip + 1
    BY DEF FrameControl, SavedFrame
  <2>2. ASSUME (m_rip + 1) + 1 \in DOMAIN Chunk, PassesArguments(Chunk[(m_rip + 1) + 1])
        PROVE  FALSE
    <3>1. (m_rip + 1) + 1 > 1 /\ ((m_rip + 1) + 1) - 1 = m_rip + 1
      BY <1>2
    <3>2. Chunk[m_rip + 1].op = "mov"
      BY <1>2, <2>2, <3>1 DEF ArgumentsInPlace
    <3> QED
      BY <1>1, <1>2, <3>2
  <2>3. ASSUME ~ Opened(Chunk, m_rip) PROVE ~ Opened(Chunk, m_rip + 1)
    <3>1. ASSUME NEW j \in DOMAIN Chunk, j \in 1..(m_rip + 1), Chunk[j].op \in Raising
          PROVE  j \in 1..m_rip
      BY <1>1, <1>2, <3>1 DEF Raising
    <3> QED
      BY <2>3, <3>1 DEF Opened
  <2> QED
    BY <1>2, <2>1, <2>2, <2>3 DEF Settled
<1>6. ASSUME NEW i \in 1..m_rrd' PROVE Settled(FrameControl(m_call_frames'[i]))
  <2>1. /\ m_call_frames \in Seq(Frame) /\ SavedFrame \in Frame
    BY DEF SettledInv, TypedInv, ControlOK, SavedFrame, Frame, handle_call, Fetched, Running
  <2>2. /\ m_rrd \in Nat /\ m_rrd' = m_rrd + 1 /\ m_call_frames'[m_rrd + 1] = SavedFrame
        /\ \A k \in 1..m_rrd : m_call_frames'[k] = m_call_frames[k]
    BY <1>1, <2>1, AppendProperties, LenProperties DEF m_rrd
  <2>3. CASE i = m_rrd + 1
    BY <1>5, <2>2, <2>3
  <2>4. CASE i # m_rrd + 1
    <3>1. i \in 1..m_rrd
      BY <2>2, <2>4
    <3> QED
      BY <2>2, <3>1 DEF SettledInv
  <2> QED
    BY <2>3, <2>4
<1>7. \A i \in 1..m_rrd' : Settled(FrameControl(m_call_frames[i]))'
  BY <1>1, <1>6 DEF Settled, FrameControl
<1> QED
  BY <1>1, <1>4, <1>7 DEF SettledInv

LEMMA RetSettled == ASSUME SettledInv, TypedInv', handle_ret, ~ Terminate PROVE SettledInv'
<1> DEFINE caller == m_call_frames[m_rrd]
<1>1. m_call_frames \in Seq(Frame) /\ m_rrd \in Nat \ {0}
  BY LenProperties DEF SettledInv, TypedInv, ControlOK, handle_ret, Fetched, Running, m_rrd
<1>2. /\ m_call_frames' = SubSeq(m_call_frames, 1, m_rrd - 1) /\ program' = program
      /\ m_rfi' = caller.func /\ m_rip' = caller.ip /\ m_rbp' = caller.base
      /\ m_rft' = caller.top
  BY DEF handle_ret, RestoredTop
<1>3. Settled(FrameControl(caller))
  BY <1>1 DEF SettledInv
<1>4. RunningControl' = FrameControl(caller)
  BY <1>2 DEF RunningControl, FrameControl
<1>5. m_rrd' = m_rrd - 1 /\ \A i \in 1..(m_rrd - 1) : m_call_frames'[i] = m_call_frames[i]
  <2>1. \A i \in 1..(m_rrd - 1) : m_call_frames[i] \in Frame
    BY <1>1, ElementOfSeq DEF m_rrd
  <2>2. /\ Len(SubSeq(m_call_frames, 1, m_rrd - 1)) = m_rrd - 1
        /\ \A i \in 1..(m_rrd - 1) : SubSeq(m_call_frames, 1, m_rrd - 1)[i] = m_call_frames[i]
    BY <1>1, <2>1, SubSeqProperties
  <2> QED
    BY <1>2, <2>2 DEF m_rrd
<1>6. \A i \in 1..m_rrd' : Settled(FrameControl(m_call_frames'[i]))
  BY <1>1, <1>5 DEF SettledInv
<1>7. Settled(RunningControl)' /\ \A i \in 1..m_rrd' : Settled(FrameControl(m_call_frames[i]))'
  BY <1>2, <1>3, <1>4, <1>6 DEF Settled, FrameControl
<1> QED
  BY <1>2, <1>7 DEF SettledInv

LEMMA SettledNext == SettledInv /\ [Next]_vars => SettledInv'
<1> SUFFICES ASSUME SettledInv, [Next]_vars PROVE SettledInv'
  OBVIOUS
<1>1. TypedInv'
  BY TypedNext DEF SettledInv
<1>2. CASE Undefined \/ Terminate
  BY <1>1, <1>2, StopsProceed, ProceedsSettled DEF SettledInv
<1>3. CASE Step /\ ~ (Undefined \/ Terminate)
  BY <1>1, <1>3, ObjectsProceed, RegistersProceed, NativeProceeds, ProceedsSettled,
     JumpSettled, CallSettled, RetSettled DEF Step, SettledInv
<1>4. CASE UNCHANGED vars
  <2>1. UNCHANGED <<m_call_frames, m_rfi, m_rbp, m_rft, m_rip, program>>
    BY <1>4 DEF vars, machineVars
  <2>2. Proceeds
    BY <2>1 DEF SettledInv, TypedInv, ControlOK, Proceeds
  <2> QED
    BY <1>1, <2>2, ProceedsSettled
<1> QED
  BY <1>2, <1>3, <1>4 DEF Next, Stopped

LEMMA SettledInit ==
    ASSUME \A p \in Programs : Prepared(p), Init
    PROVE  SettledInv
<1>1. TypedInv /\ program \in Programs /\ Prepared(program)
  BY TypedInit DEF Init
<1>2. ASSUME NEW func PROVE Settled([func |-> func, ip |-> 0, base |-> 0, top |-> 0])
  <2>1. func \in DOMAIN program.chunks =>
          (0 + 1 \in DOMAIN program.chunks[func] => ~ PassesArguments(program.chunks[func][0 + 1]))
    BY <1>1 DEF Prepared
  <2> QED
    BY <2>1 DEF Settled
<1>3. Settled(RunningControl)
  BY <1>2 DEF Init, RunningControl
<1>4. m_rrd = 1 /\ Settled(FrameControl(m_call_frames[1]))
  BY <1>2 DEF Init, m_rrd, FrameControl, EntryFrame
<1> QED
  BY <1>1, <1>3, <1>4 DEF SettledInv

\* What is model-checked for the sample programs holds of every program whose bytecode
\* is prepared for the calling convention: all the registers an instruction writes, and
\* the arguments of calls and natives, are the running function's (vm.cpp:171, 607).
THEOREM PreparedStays == (\A p \in Programs : Prepared(p)) => (Spec => []StaysInFrame)
<1> SUFFICES ASSUME \A p \in Programs : Prepared(p) PROVE Spec => []StaysInFrame
  OBVIOUS
<1>1. Init => SettledInv
  BY SettledInit
<1> QED
  BY <1>1, SettledNext, SettledStays, PTL DEF Spec

\* So calls and returns behave as a stack for all of them.
THEOREM PreparedActivations ==
    (\A p \in Programs : Prepared(p)) => (Spec => ImplementsActivations)
<1> SUFFICES ASSUME \A p \in Programs : Prepared(p) PROVE Spec => ImplementsActivations
  OBVIOUS
<1>1. Spec => []StaysInFrame
  BY PreparedStays
<1> QED
  BY <1>1, EngineImplementsActivations, PTL
=============================================================================
