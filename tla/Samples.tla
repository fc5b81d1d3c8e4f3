-------------------------------- MODULE Samples --------------------------------
(***************************************************************************)
(* Programs in bytecode, most of them what sources of src/test_suite come  *)
(* to, a few that no source compiles to, and the sources of some of them   *)
(* as the events Lowering reads.  MCEngine runs the bytecode; MCCompiler    *)
(* checks that it is what the sources compile to.  Constant k is the        *)
(* integer k.                                                              *)
(***************************************************************************)
EXTENDS Integers, Sequences

-----------------------------------------------------------------------------
(* An assembler *)

R(k) == <<"reg", k>>
K(k) == <<"constant", k>>
I(k) == <<"immediate", k>>
H(k) == <<"heap", k>>

Ins(op, args) == [op |-> op, args |-> args]

NativeNames == <<"print", "prompt_int", "prompt_float", "readln", "len_of",
               "list_push_back", "list_pop_back", "list_pop_front", "list_concat",
               "strlen", "strcat", "substr", "stoi", "stof", "get_argv">>
NativeId(name) == (CHOOSE i \in DOMAIN NativeNames : NativeNames[i] = name) - 1

Mov(dest, src) == Ins("mov", <<R(dest), src>>)
Seq1(dest) == Ins("make_seq", <<R(dest)>>)
Push(dest, src) == Ins("seq_obj_push", <<R(dest), src, I(1)>>)
Get(dest, seq, pos) == Ins("seq_obj_get", <<R(dest), R(seq), pos>>)
Calc(op, dest, a, b) == Ins(op, <<R(dest), a, b>>)
Frz(dest) == Ins("frz_seq_obj", <<R(dest)>>)
Str(dest, cell) == Ins("make_str", <<R(dest), H(cell)>>)
Else(r, ip) == Ins("jump_else", <<R(r), I(ip)>>)
Jump(ip) == Ins("jump", <<I(ip)>>)
Nop == Ins("nop", <<>>)
Native1(name, argc) == Ins("native_call", <<I(NativeId(name)), I(argc)>>)
CallFn(f, argc) == Ins("call", <<I(f), I(argc)>>)
Ret(src) == Ins("ret", <<src>>)

\* The main function is chunk 0, the other one, if any, chunk 1.
Listing(main, f) == IF f = <<>> THEN <<main>> ELSE <<main, f>>

-----------------------------------------------------------------------------
(* Sources, as events: expressions, statements, functions.                  *)

Var(x) == <<<<"name", x>>>>
Lit(text) == <<<<"literal", text>>>>
Quoted(text) == <<<<"string", text>>>>
Minus(a) == a \o <<<<"negate", "">>>>
Bin(op, a, b) == a \o b \o <<<<"binary", op>>>>
At(seq, pos) == Bin("seq_obj_get", seq, pos)
Item(a) == a \o <<<<"item", "">>>>
ListOf(items) == <<<<"sequence", "">>>> \o items \o <<<<"list", "">>>>
TupleOf(items) == <<<<"sequence", "">>>> \o items \o <<<<"tuple", "">>>>
Arg(a) == a \o <<<<"argument", "">>>>
Apply(f, args) == Var(f) \o <<<<"call", "">>>> \o args \o <<<<"called", "">>>>

Do(a) == a \o <<<<"expression", "">>>>
SetTo(a, b) == Do(a \o b \o <<<<"assign", "">>>>)
Let(x, a) == a \o <<<<"def", x>>>>
Return(a) == a \o <<<<"return", "">>>>
Break == <<<<"break", "">>>>
Block(opener, a, body, stmts) == <<<<opener, "">>>> \o a \o <<<<body, "">>>> \o stmts
If(a, stmts) == Block("if", a, "then", stmts) \o <<<<"end", "">>>>
IfElse(a, stmts, alternative) ==
    Block("if", a, "then", stmts) \o <<<<"else", "">>>> \o alternative \o <<<<"end", "">>>>
While(a, stmts) == Block("while", a, "do", stmts) \o <<<<"end", "">>>>

Fun(name, params, body) ==
    [name |-> name, params |-> params, body |-> body, parts |-> {}, spare |-> 0]

-----------------------------------------------------------------------------
(* Calls: simple/sum_loop.mnl and simple/fibonacci.mnl, on a number the     *)
(* terminal gives.                                                          *)

AskAndCall == <<Native1("prompt_int", 0), Mov(1, R(0)), CallFn(1, 1), Ret(R(1))>>

AskAndCallSource ==
    Fun("main", <<>>, Let("x", Apply("prompt_int", <<>>)) \o Return(Apply("f", Arg(Var("x")))))

SumLoop == Listing(AskAndCall,
    <<Mov(1, R(0)), Mov(2, K(0)),
      Nop, Calc("gt", 3, R(1), K(0)), Else(3, 10),
      Calc("add", 4, R(2), R(1)), Mov(2, R(4)), Calc("sub", 5, R(1), K(1)), Mov(1, R(5)),
      Jump(2), Nop, Ret(R(2))>>)

SumLoopSource == <<AskAndCallSource, Fun("f", <<"n">>,
    Let("count", Var("n")) \o Let("ans", Lit("0")) \o
    While(Bin("gt", Var("count"), Lit("0")),
        SetTo(Var("ans"), Bin("add", Var("ans"), Var("count"))) \o
        SetTo(Var("count"), Bin("sub", Var("count"), Lit("1")))) \o
    Return(Var("ans")))>>

Fibonacci == Listing(AskAndCall,
    <<Calc("lt", 1, R(0), K(2)), Else(1, 3), Ret(R(0)), Nop,
      Calc("sub", 2, R(0), K(1)), Mov(3, R(2)), CallFn(1, 1),
      Calc("sub", 4, R(0), K(2)), Mov(5, R(4)), CallFn(1, 1),
      Calc("add", 6, R(3), R(5)), Ret(R(6))>>)

FibonacciSource == <<AskAndCallSource, Fun("f", <<"n">>,
    If(Bin("lt", Var("n"), Lit("2")), Return(Var("n"))) \o
    Return(Bin("add", Apply("f", Arg(Bin("sub", Var("n"), Lit("1")))),
                      Apply("f", Arg(Bin("sub", Var("n"), Lit("2")))))))>>

\* return x * 3 % 4 + x / 2 - 1
Arithmetics == Listing(
    <<Native1("prompt_int", 0),
      Calc("mul", 1, R(0), K(3)), Calc("mod", 2, R(1), K(4)), Calc("div", 3, R(0), K(2)),
      Calc("add", 4, R(2), R(3)), Calc("sub", 5, R(4), K(1)), Ret(R(5))>>, <<>>)

\* return 6 / x
Divides == Listing(
    <<Native1("prompt_int", 0), Calc("div", 1, K(6), R(0)), Ret(R(1))>>, <<>>)

\* unused/list_natives.mnl, returning len_of(nums).
ListNatives == Listing(
    <<Seq1(0), Push(0, K(1)), Push(0, K(2)), Push(0, K(3)), Mov(1, R(0)),
      Mov(2, R(1)), Native1("list_pop_front", 1), Mov(3, R(2)),
      Mov(4, R(1)), Native1("list_pop_back", 1), Mov(5, R(4)),
      Mov(6, R(1)), Mov(7, K(4)), Native1("list_push_back", 2), Mov(8, R(6)),
      Seq1(9), Push(9, K(6)), Push(9, K(8)), Frz(9), Mov(10, R(9)),
      Mov(11, R(8)), Mov(12, R(10)), Native1("list_concat", 2),
      Mov(13, R(3)), Native1("print", 1), Mov(14, R(1)), Native1("print", 1),
      Mov(15, R(1)), Native1("len_of", 1), Ret(R(15))>>, <<>>)

ListNativesSource == <<Fun("main", <<>>,
    Let("nums", ListOf(Item(Lit("1")) \o Item(Lit("2")) \o Item(Lit("3")))) \o
    Let("front_n", Apply("list_pop_front", Arg(Var("nums")))) \o
    Let("last_n", Apply("list_pop_back", Arg(Var("nums")))) \o
    Let("nums_ref", Apply("list_push_back", Arg(Var("nums")) \o Arg(Lit("4")))) \o
    Let("temp", TupleOf(Item(Lit("6")) \o Item(Lit("8")))) \o
    Do(Apply("list_concat", Arg(Var("nums_ref")) \o Arg(Var("temp")))) \o
    Do(Apply("print", Arg(Var("front_n")))) \o Do(Apply("print", Arg(Var("nums")))) \o
    Return(Apply("len_of", Arg(Var("nums")))))>>

\* def foo = {1}; foo.0 = x; return foo.0   (after simple/access_seqs.mnl)
AccessSeqs == Listing(
    <<Native1("prompt_int", 0),
      Seq1(1), Push(1, K(1)), Mov(2, R(1)),
      Get(3, 2, K(0)), Mov(3, R(0)), Get(4, 2, K(0)), Ret(R(4))>>, <<>>)

AccessSeqsSource == <<Fun("main", <<>>,
    Let("x", Apply("prompt_int", <<>>)) \o Let("foo", ListOf(Item(Lit("1")))) \o
    SetTo(At(Var("foo"), Lit("0")), Var("x")) \o Return(At(Var("foo"), Lit("0"))))>>

\* unused/manip_strings.mnl, returning strlen(substr(strcat("abc", "123"), 0, 5)).
ManipStrings == Listing(
    <<Str(0, 0), Mov(1, R(0)), Str(2, 1), Mov(3, R(2)),
      Mov(4, R(1)), Mov(5, R(3)), Native1("strcat", 2), Mov(6, R(4)),
      Mov(7, R(6)), Mov(8, K(0)), Mov(9, K(5)), Native1("substr", 3), Mov(10, R(7)),
      Mov(11, R(10)), Native1("strlen", 1), Ret(R(11))>>, <<>>)

ManipStringsSource == <<Fun("main", <<>>,
    Let("foo", Quoted("abc")) \o Let("bar", Quoted("123")) \o
    Let("foobar", Apply("strcat", Arg(Var("foo")) \o Arg(Var("bar")))) \o
    Let("pre_msg",
        Apply("substr", Arg(Var("foobar")) \o Arg(Lit("0")) \o Arg(Lit("5")))) \o
    Return(Apply("strlen", Arg(Var("pre_msg")))))>>

\* def line = readln() return stoi(line)
ReadNumber == Listing(
    <<Native1("readln", 0), Mov(1, R(0)), Native1("stoi", 1), Ret(R(1))>>, <<>>)

\* unused/print_arg_0.mnl
PrintArg == Listing(
    <<Native1("get_argv", 0), Get(1, 0, K(0)), Mov(2, R(1)),
      Mov(3, R(2)), Native1("print", 1), Ret(K(0))>>, <<>>)

\* interactive/simple_stdin.mnl, returning y * y > y
TwoPrompts == Listing(
    <<Native1("prompt_int", 0), Native1("prompt_float", 0),
      Mov(2, R(0)), Native1("print", 1),
      Calc("mul", 3, R(1), R(1)), Calc("gt", 4, R(3), R(1)), Ret(R(4))>>, <<>>)

\* if x == 0 { list_push_back(t, 3) } return len_of(t), on the tuple t = [1]
PushToTuple == Listing(
    <<Native1("prompt_int", 0), Seq1(1), Push(1, K(1)), Frz(1), Mov(2, R(1)),
      Calc("equ", 3, R(0), K(0)), Else(3, 10),
      Mov(4, R(2)), Mov(5, K(3)), Native1("list_push_back", 2),
      Nop, Mov(6, R(2)), Native1("len_of", 1), Ret(R(6))>>, <<>>)

PushToTupleSource == <<Fun("main", <<>>,
    Let("x", Apply("prompt_int", <<>>)) \o Let("t", TupleOf(Item(Lit("1")))) \o
    If(Bin("equ", Var("x"), Lit("0")),
        Do(Apply("list_push_back", Arg(Var("t")) \o Arg(Lit("3"))))) \o
    Return(Apply("len_of", Arg(Var("t")))))>>

\* A loop that breaks, and an if with an else in it.
BreaksOut == Listing(
    <<Native1("prompt_int", 0), Mov(1, K(0)),
      Nop, Calc("gt", 2, R(0), K(0)), Else(2, 21),
      Calc("equ", 3, R(0), K(2)), Else(3, 8), Jump(21), Nop,
      Calc("equ", 4, R(0), K(1)), Else(4, 14), Calc("add", 5, R(1), K(5)), Mov(1, R(5)),
      Jump(17), Nop, Calc("add", 6, R(1), R(0)), Mov(1, R(6)), Nop,
      Calc("sub", 7, R(0), K(1)), Mov(0, R(7)), Jump(2), Nop, Ret(R(1))>>, <<>>)

BreaksOutSource == <<Fun("main", <<>>,
    Let("n", Apply("prompt_int", <<>>)) \o Let("s", Lit("0")) \o
    While(Bin("gt", Var("n"), Lit("0")),
        If(Bin("equ", Var("n"), Lit("2")), Break) \o
        IfElse(Bin("equ", Var("n"), Lit("1")),
            SetTo(Var("s"), Bin("add", Var("s"), Lit("5"))),
            SetTo(Var("s"), Bin("add", Var("s"), Var("n")))) \o
        SetTo(Var("n"), Bin("sub", Var("n"), Lit("1")))) \o
    Return(Var("s")))>>

\* def x = prompt_float() def y = x * x def z = y - y return z == z: not when y is infinite.
MakesNaN == Listing(
    <<Native1("prompt_float", 0), Calc("mul", 1, R(0), R(0)), Mov(2, R(1)),
      Calc("sub", 3, R(2), R(2)), Mov(4, R(3)), Calc("equ", 5, R(4), R(4)), Ret(R(5))>>, <<>>)

MakesNaNSource == <<Fun("main", <<>>,
    Let("x", Apply("prompt_float", <<>>)) \o Let("y", Bin("mul", Var("x"), Var("x"))) \o
    Let("z", Bin("sub", Var("y"), Var("y"))) \o Return(Bin("equ", Var("z"), Var("z"))))>>

-----------------------------------------------------------------------------
(* Sources that end badly                                                   *)

\* def b = x == 0 return -b: the machine takes negating for an error.
Negates == Listing(
    <<Native1("prompt_int", 0), Calc("equ", 1, R(0), K(0)), Mov(2, R(1)),
      Ins("neg", <<R(2)>>), Ret(R(2))>>, <<>>)

NegatesSource == <<Fun("main", <<>>,
    Let("x", Apply("prompt_int", <<>>)) \o Let("b", Bin("equ", Var("x"), Lit("0"))) \o
    Return(Minus(Var("b"))))>>

\* substr("abc", x, 1): a negative begin throws.
CutsString == Listing(
    <<Native1("prompt_int", 0), Str(1, 0), Mov(2, R(1)),
      Mov(3, R(2)), Mov(4, R(0)), Mov(5, K(1)), Native1("substr", 3),
      Mov(6, R(3)), Native1("strlen", 1), Ret(R(6))>>, <<>>)

\* fun main: [] => { def l = {} l = list_concat(l, {l}) }: no return.
FallsOff == Listing(
    <<Seq1(0), Mov(1, R(0)), Seq1(2), Push(2, R(1)),
      Mov(3, R(1)), Mov(4, R(2)), Native1("list_concat", 2), Mov(1, R(3))>>, <<>>)

\* def l = {1} list_concat(l, l)
JoinsToItself == Listing(
    <<Seq1(0), Push(0, K(1)), Mov(1, R(0)), Mov(2, R(1)), Mov(3, R(1)),
      Native1("list_concat", 2), Ret(K(0))>>, <<>>)

\* def r = l.0, list_push_back(l, 2), r = 5: the reference is into a freed buffer.
HoldsReference == Listing(
    <<Seq1(0), Push(0, K(1)), Mov(1, R(0)), Get(2, 1, K(0)), Mov(3, R(2)),
      Mov(4, R(1)), Mov(5, K(2)), Native1("list_push_back", 2), Mov(3, K(5)),
      Ret(K(0))>>, <<>>)

\* fun f: [n] => { return f(n) }
RecursesForever == Listing(
    <<Mov(0, K(1)), CallFn(1, 1), Ret(R(0))>>,
    <<Mov(1, R(0)), CallFn(1, 1), Ret(R(1))>>)

\* f makes k lists and returns: the heap is ripe then, full when k is 5.
Fills(k) == Listing(
    <<Mov(0, K(0)), CallFn(1, 1), Seq1(1), Mov(2, R(1)), Ret(K(0))>>,
    [i \in 1..k |-> Seq1(i)] \o <<Ret(K(0))>>)

\* A list from before the collection is used after it.
KeepsList == Listing(
    <<Seq1(0), Mov(1, R(0)), Mov(2, K(0)), CallFn(1, 1),
      Mov(3, R(1)), Native1("len_of", 1), Ret(R(3))>>,
    [i \in 1..4 |-> Seq1(i)] \o <<Ret(K(0))>>)

\* The arguments are asked for when a collection has destroyed them; the registers
\* hold no other pointer then.
AsksForArguments == Listing(
    <<Mov(0, K(0)), CallFn(1, 1), Mov(1, K(0)), Native1("get_argv", 0),
      Get(2, 1, K(0)), Ret(K(0))>>,
    [i \in 1..5 |-> Seq1(1)] \o <<Ret(K(0))>>)

\* No source compiles to these: instructions the emitter knows but never emits.
HandWritten == Listing(
    <<Native1("prompt_int", 0), Ins("load_const", <<R(1), I(2)>>),
      Seq1(2), Push(2, R(0)), Push(2, R(1)), Push(2, I(0)),
      Ret(R(1))>>, <<>>)
PopsAndHalts == Listing(
    <<Native1("prompt_int", 0), Seq1(1), Push(1, R(0)),
      Ins("jump_if", <<R(0), I(5)>>), Ins("seq_obj_pop", <<R(2), R(1), I(0)>>),
      Ins("seq_obj_pop", <<R(3), R(1), I(1)>>), Ins("halt", <<I(0)>>)>>, <<>>)
-----------------------------------------------------------------------------
(* Sources the calling convention gets wrong                                *)

\* def i = 0 def s = 0 while i < 2 { s = s + f(i) i = i + 1 } return s
CallsInLoop == Listing(
    <<Mov(0, K(0)), Mov(1, K(0)), Nop, Calc("lt", 2, R(0), K(2)), Else(2, 12),
      Mov(3, R(0)), CallFn(1, 1), Calc("add", 4, R(1), R(3)), Mov(1, R(4)),
      Calc("add", 5, R(0), K(1)), Mov(0, R(5)), Jump(2), Nop, Ret(R(1))>>,
    <<Ret(R(0))>>)

CallsInLoopSource == <<Fun("main", <<>>,
    Let("i", Lit("0")) \o Let("s", Lit("0")) \o
    While(Bin("lt", Var("i"), Lit("2")),
        SetTo(Var("s"), Bin("add", Var("s"), Apply("f", Arg(Var("i"))))) \o
        SetTo(Var("i"), Bin("add", Var("i"), Lit("1")))) \o
    Return(Var("s"))), Fun("f", <<"x">>, Return(Var("x")))>>

\* def a = 1 def x = prompt_int() return a
AsksAfterDef == Listing(<<Mov(0, K(1)), Native1("prompt_int", 0), Ret(R(0))>>, <<>>)

AsksAfterDefSource == <<Fun("main", <<>>,
    Let("a", Lit("1")) \o Let("x", Apply("prompt_int", <<>>)) \o Return(Var("a")))>>

\* Source and code of each sample that is given in both.
Pairs ==
    {<<SumLoopSource, SumLoop>>, <<FibonacciSource, Fibonacci>>,
     <<ListNativesSource, ListNatives>>, <<AccessSeqsSource, AccessSeqs>>,
     <<ManipStringsSource, ManipStrings>>, <<PushToTupleSource, PushToTuple>>,
     <<BreaksOutSource, BreaksOut>>, <<NegatesSource, Negates>>,
     <<MakesNaNSource, MakesNaN>>,
     <<CallsInLoopSource, CallsInLoop>>, <<AsksAfterDefSource, AsksAfterDef>>}
=============================================================================
