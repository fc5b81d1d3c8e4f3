------------------------------ MODULE MCCompiler ------------------------------
(***************************************************************************)
(* Lowering and emitter on the sources of Samples, on every function made  *)
(* of a few control statements, and on every expression of a few operands. *)
(***************************************************************************)
EXTENDS Emitter, Samples, FiniteSets, TLC

\* An effect, and the statements that decide which effects there are.
Effect == Do(ListOf(<<>>))
IfHead == Block("if", Var("x"), "then", <<>>)
WhileHead == Block("while", Var("x"), "do", <<>>)

Control(body, n) ==
    <<[name |-> "f", params |-> <<"x">>, body |-> body, spare |-> n,
       parts |-> {IfHead, WhileHead, <<<<"else", "">>>>, Effect, Break, Return(Var("x"))}]>>

\* Expressions that begin with a call of f, over x, a literal, sums, lists and calls
\* of g.
Calls(f) == Var(f) \o <<<<"call", "">>>>
Operators == {Var("x"), <<<<"binary", "add">>>>, ListOf(Item(Var("x"))), Calls("g"),
              Arg(Var("x")), Arg(Lit("1")), Arg(<<>>), <<<<"called", "">>>>, Return(<<>>)}

Expressions(n) ==
    <<[name |-> "f", params |-> <<"x", "z">>, body |-> Calls("f"), spare |-> n,
       parts |-> Operators],
      Fun("g", <<"x">>, Return(Var("x")))>>

\* Names that nothing is behind, where the analyzer lets them pass: in arguments
\* (print(y), also in a list, a sum and a lambda, to the right or the left of an =), and
\* as the stub of a native that is not registered.
Unknown == Apply("print", Arg(Var("y")))
Unknowns ==
    {Return(Unknown), Let("y", Unknown), SetTo(At(Var("x"), Unknown), Lit("1")),
     Let("v", Lit("1")) \o SetTo(Var("v"), Unknown), Do(Apply("wait", Arg(Var("x")))),
     Do(Apply("print", Arg(ListOf(Item(Var("y")) \o Item(Var("x")))))),
     Do(Apply("print", Arg(Var("x")) \o Arg(Bin("add", Var("x"), Minus(Var("y")))) \o Arg(Var("x")))),
     Do(Apply("print", Arg(<<<<"lambda", "">>>> \o If(Var("x"), Return(Var("x"))) \o
                           <<<<"lambda_end", "">>>>)))}

\* All ifs and whiles over such statements.
Conditions == {Var("x"), Unknown}
Branching(bodies1, bodies2) ==
    {If(c, a) : c \in Conditions, a \in bodies1} \cup
    {While(c, a) : c \in Conditions, a \in bodies1} \cup
    {IfElse(c, a, b) : c \in Conditions, a \in bodies1, b \in bodies2}
Plain1 == {<<>>, Do(Unknown), Effect}
Branches == Branching(Plain1, Plain1)
Incomplete ==
    {<<Fun("f", <<"x">>, a \o Effect)>> :
        a \in Unknowns \cup {If(Var("x"), u) : u \in Unknowns} \cup Branches \cup
              {a \o Effect : a \in Unknowns \cup {IfElse(Var("x"), u, Effect) : u \in Unknowns}} \cup
              Branching({a \o b : a \in Branches, b \in {<<>>, Effect}}, {<<>>, Do(Unknown)})}

\* detup [a, b] = [1, 2] return 0
Destructures ==
    <<Fun("main", <<>>,
          <<<<"destructure", "">>, <<"detup_name", "a">>, <<"detup_name", "b">>>> \o
          TupleOf(Item(Lit("1")) \o Item(Lit("2"))) \o <<<<"detup", "">>>> \o Return(Lit("0")))>>

MCSources ==
    {pair[1] : pair \in Pairs} \cup Incomplete \cup
    {Destructures, Control(<<>>, 4), Control(WhileHead \o IfHead, 4), Expressions(8)}

-----------------------------------------------------------------------------
(* The sources of Samples compile to its bytecode, so that what MCEngine    *)
(* shows of the bytecode holds of the sources.                              *)

Number == [text \in {ToString(k) : k \in 0..10} |->
              CHOOSE k \in 0..10 : ToString(k) = text]

\* An instruction of the samples, where constant k is the integer k.
Plain(ins) ==
    [op |-> ins.op,
     args |-> [i \in DOMAIN ins.args |->
                 LET a == ins.args[i]
                 IN IF a[1] = "constant" THEN K(Number[m_proto_consts[a[2] + 1]]) ELSE a]]

SamplesCompile ==
    phase = "done" =>
        \A pair \in Pairs : source = pair[1] =>
            /\ Len(m_result_chunks) = Len(pair[2])
            /\ \A f \in DOMAIN pair[2] :
                  [i \in DOMAIN m_result_chunks[f] |-> Plain(m_result_chunks[f][i])]
                      = pair[2][f]

-----------------------------------------------------------------------------
(* Control flow                                                             *)

\* How the source nests: the number of constructs open after event i.
Opens == {"if", "while"}
Depth(body) ==
    LET level[i \in 0..Len(body)] ==
          IF i = 0 THEN 0
          ELSE level[i - 1] + (IF body[i][1] \in Opens THEN 1
                               ELSE IF body[i] = End THEN -1 ELSE 0)
    IN level

SetMin(S) == CHOOSE x \in S : \A y \in S : x <= y
SetMax(S) == CHOOSE x \in S : \A y \in S : x >= y

\* The end of the innermost construct event i is in; the else of the if whose
\* then event i is; the while of the end or the break event i is.
EndOf(body, i) ==
    SetMin({j \in (i + 1)..Len(body) : Depth(body)[j] < Depth(body)[i]})
ElsesOf(body, i) ==
    {j \in (i + 1)..EndOf(body, i) : body[j][1] = "else" /\ Depth(body)[j] = Depth(body)[i]}
Enclosing(body, i) ==
    {j \in 1..(i - 1) : body[j][1] \in Opens /\ EndOf(body, j) >= i}
LoopsAround(body, i) == {j \in Enclosing(body, i) : body[j][1] = "while"}

\* What happens next in a run of the source that has come to position i: the
\* event of the next effect, check or return, or the end.
Over == 0
Lost == -1
SourceNext(body) ==
    LET next[i \in 1..Len(body)] ==
          CASE body[i][1] \in {"sequence", "then", "do", "return"} -> i
            [] body[i][1] = "break" -> next[EndOf(body, SetMax(LoopsAround(body, i))) + 1]
            [] body[i][1] = "else" -> next[EndOf(body, i) + 1]
            [] body[i] = End /\ i = Len(body) -> Over
            [] body[i] = End /\ i # Len(body) ->
                  LET opener == SetMax(Enclosing(body, i))
                  IN IF body[opener][1] = "while" THEN next[opener] ELSE next[i + 1]
            [] OTHER -> next[i + 1]
    IN next

\* After event i, when a check at i succeeds and when it fails.
SourceFlow(body, i) ==
    LET next == SourceNext(body)
    IN CASE body[i][1] = "return" -> <<>>
         [] body[i][1] = "sequence" -> <<next[i + 1]>>
         [] body[i][1] \in {"then", "do"} ->
               <<next[i + 1],
                 next[IF ElsesOf(body, i) # {} THEN SetMin(ElsesOf(body, i)) + 1
                      ELSE EndOf(body, i) + 1]>>

\* The same of a chunk, from its jumps; Lost when they lead nowhere.
ChunkNext(chunk, ip) ==
    LET next[fuel \in 0..(Len(chunk) + 1), k \in 0..Len(chunk)] ==
          CASE fuel = 0 -> Lost
            [] fuel > 0 /\ k = Len(chunk) -> Over
            [] OTHER ->
                 LET ins == chunk[k + 1]
                 IN IF ins.op \in {"make_seq", "jump_else", "ret"} THEN ins.at
                    ELSE next[fuel - 1, IF ins.op = "jump" THEN ins.args[1][2] ELSE k + 1]
    IN next[Len(chunk) + 1, ip]

ChunkFlow(chunk, k) ==
    CASE chunk[k].op = "ret" -> <<>>
      [] chunk[k].op = "make_seq" -> <<ChunkNext(chunk, k)>>
      [] chunk[k].op = "jump_else" ->
            <<ChunkNext(chunk, k), ChunkNext(chunk, chunk[k].args[2][2])>>

\* The places where a function uses a name that nothing before it defines, or a lambda.
UnknownIn(f) ==
    LET body == bodies[f]
        global == {source[k].name : k \in DOMAIN source} \cup
                  {Natives[k] : k \in DOMAIN Natives} \cup
                  {source[f].params[k] : k \in DOMAIN source[f].params}
        Defined(x, i) == \E k \in 1..(i - 1) : body[k] = <<"def", x>>
    IN {i \in DOMAIN body :
          \/ body[i][1] = "name" /\ body[i][2] \notin global /\ ~ Defined(body[i][2], i)
          \/ body[i][1] = "lambda"}

\* An unknown name stops the compiler, but for one place: the first body of an if that
\* has an else is lost without a word, and the if does its else when it should do its
\* body.  (Elsewhere nothing comes out, or a null pointer is used.)
LostOnlyBeforeElse ==
    phase \in {"emit", "done"} =>
        \A f \in DOMAIN source : \A i \in UnknownIn(f) :
            \E then \in 1..(i - 1) :
                bodies[f][then][1] = "then" /\ \E else \in ElsesOf(bodies[f], then) : i < else

\* The sources the blocks are right for: every break has a loop, no else holds a
\* statement with a body, nothing is destructured, and names are known.
WellFormed(f) ==
    LET body == bodies[f] IN
    /\ UnknownIn(f) = {}
    /\ \A i \in DOMAIN body : body[i][1] # "detup"
    /\ \A i \in DOMAIN body : body[i][1] = "break" => LoopsAround(body, i) # {}
    /\ \A i \in DOMAIN body : body[i][1] = "else" =>
          \A j \in i..EndOf(body, i) : body[j][1] \notin Opens

\* convert_ast.cpp:525, "Patching dud jumps of step pos 0 will be handled later": no
\* conditional jump, and they all go forward, is left at 0.  Those of an if are
\* patched in a block that the chunk never gets to when, two elses further in, a
\* block has been refused its third link.
JumpsPatched ==
    phase = "done" => \A f \in DOMAIN source : \A k \in DOMAIN m_result_chunks[f] :
        LET ins == m_result_chunks[f][k]
        IN ins.op = "jump_else" => ins.args[2] # Dud

\* if x { {} } else { if x { {} } else { if x { {} } } }
NestedElse == {<<Fun("f", <<"x">>,
    IfElse(Var("x"), Effect, IfElse(Var("x"), Effect, If(Var("x"), Effect))))>>}

\* A chunk does the effects, checks and returns of its function, each at one
\* place, in the order the source says: the blocks are linked, visited and
\* patched so that every if, loop and break goes where it should, whatever the
\* nesting.
FlowFollowsSource ==
    phase = "done" => \A f \in DOMAIN source : WellFormed(f) =>
        LET body == bodies[f]
            chunk == m_result_chunks[f]
        IN /\ ChunkNext(chunk, 0) = SourceNext(body)[1]
           /\ \A i \in DOMAIN body :
                 body[i][1] \in {"sequence", "then", "do", "return"} =>
                    \E k \in DOMAIN chunk :
                        /\ {j \in DOMAIN chunk : chunk[j].at = i /\
                              chunk[j].op \in {"make_seq", "jump_else", "ret"}} = {k}
                        /\ ChunkFlow(chunk, k) = SourceFlow(body, i)

-----------------------------------------------------------------------------
(* Values                                                                   *)

\* What the source of a function without branches does: the calls it makes, the
\* items it puts into lists and what it returns, as terms over its parameters.
\* A term on the stack comes with the name it was read from, if any.
Term(term) == [term |-> term, var |-> ""]
Bottom == Term(<<"bottom">>)

ItemsDown(stack, n) == SubSeq(stack, 1, Len(stack) - n)
FromTop(stack, n) == stack[Len(stack) - n]

Call(callee, args, n) == <<"call", callee, args, n>>

\* A state is [stack, env, trace, calls, lists, over].
Meaning(s, e) ==
    LET stack == s.stack
        To(item, n) == [s EXCEPT !.stack = Append(ItemsDown(@, n), item)]
        Does(deed) == [s EXCEPT !.trace = Append(@, deed)]
        marked == SetMax({k \in DOMAIN stack : stack[k] = Bottom})
        args == [k \in 1..(Len(stack) - marked) |-> stack[marked + k].term]
    IN CASE s.over -> s
         [] e[1] \in {"literal", "string"} -> To(Term(e), 0)
         [] e[1] = "name" ->
               To([term |-> IF e[2] \in DOMAIN s.env THEN s.env[e[2]] ELSE <<"fun", e[2]>>,
                   var |-> e[2]], 0)
         [] e[1] = "binary" ->
               To(Term(<<e[2], FromTop(stack, 1).term, FromTop(stack, 0).term>>), 2)
         [] e[1] = "sequence" ->
               [s EXCEPT !.stack = @ \o <<Term(<<"list", s.lists>>), Bottom>>, !.lists = @ + 1]
         [] e[1] = "item" ->
               [Does(<<"push", FromTop(stack, 2).term, FromTop(stack, 0).term>>)
                   EXCEPT !.stack = ItemsDown(@, 1)]
         [] e[1] = "list" -> [s EXCEPT !.stack = ItemsDown(@, 1)]
         [] e[1] = "tuple" ->
               [Does(<<"freeze", FromTop(stack, 1).term>>) EXCEPT !.stack = ItemsDown(@, 1)]
         [] e[1] = "call" -> [s EXCEPT !.stack = Append(@, Bottom)]
         [] e[1] = "argument" -> s
         [] e[1] = "called" ->
               [Does(Call(stack[marked - 1].term, args, s.calls))
                   EXCEPT !.stack = Append(SubSeq(@, 1, marked - 2), Term(<<"result", s.calls>>)),
                          !.calls = @ + 1]
         [] e[1] = "assign" ->
               [To(FromTop(stack, 0), 2)
                   EXCEPT !.env = (FromTop(stack, 1).var :> FromTop(stack, 0).term) @@ @]
         [] e[1] = "expression" -> [s EXCEPT !.stack = ItemsDown(@, 1)]
         [] e[1] = "def" ->
               [s EXCEPT !.stack = ItemsDown(@, 1), !.env = (e[2] :> FromTop(stack, 0).term) @@ @]
         [] e[1] = "return" -> [Does(<<"return", FromTop(stack, 0).term>>) EXCEPT !.over = TRUE]
         [] e = End -> [s EXCEPT !.over = TRUE]

SourceTrace(f) ==
    LET body == bodies[f]
        params == source[f].params
        run[k \in 0..Len(body)] ==
          IF k = 0
          THEN [stack |-> <<>>, trace |-> <<>>, calls |-> 0, lists |-> 0, over |-> FALSE,
                env |-> [x \in {params[i] : i \in DOMAIN params} |->
                           <<"param", CHOOSE i \in DOMAIN params : params[i] = x>>]]
          ELSE Meaning(run[k - 1], body[k])
    IN run[Len(body)].trace

\* What its chunk does when the engine runs it (Engine.tla): moves and arithmetic
\* raise the top register, a call takes its arguments from there and leaves its
\* result in place of the first, and the callee may use every register above.
\* A state is [regs, top, trace, calls, lists, over].
Registers == 0..30
Clobbered == <<"clobbered">>

ValueOf(s, a) ==
    IF a[1] = "reg" THEN s.regs[a[2]] ELSE <<"literal", m_proto_consts[a[2] + 1]>>

Effects(s, ins) ==
    LET a == ins.args
        Writes(v) == [s EXCEPT !.regs[a[1][2]] = v]
        Raises(v) == [Writes(v) EXCEPT !.top = IF @ > a[1][2] THEN @ ELSE a[1][2]]
        Does(deed) == [s EXCEPT !.trace = Append(@, deed)]
        base == s.top - a[2][2] + 1
        callee == <<"fun", IF ins.op = "call" THEN source[a[1][2] + 1].name
                           ELSE NativeNames[a[1][2] + 1]>>
    IN CASE s.over -> s
         [] ins.op = "mov" -> Raises(ValueOf(s, a[2]))
         [] ins.op = "make_str" -> Writes(<<"string", m_proto_heap_objs[a[2][2] + 1]>>)
         [] ins.op = "make_seq" -> [Writes(<<"list", s.lists>>) EXCEPT !.lists = @ + 1]
         [] ins.op = "seq_obj_push" ->
               Does(<<"push", ValueOf(s, a[1]), ValueOf(s, a[2])>>)
         [] ins.op = "frz_seq_obj" -> Does(<<"freeze", ValueOf(s, a[1])>>)
         [] ins.op \in {"call", "native_call"} ->
               [Does(Call(callee, [k \in 1..a[2][2] |-> s.regs[base + k - 1]], s.calls))
                  EXCEPT !.calls = @ + 1,
                         !.regs = [r \in Registers |->
                                     IF r = base THEN <<"result", s.calls>>
                                     ELSE IF r > base /\ ins.op = "call" THEN Clobbered
                                     ELSE s.regs[r]]]
         [] ins.op = "ret" -> [Does(<<"return", ValueOf(s, a[1])>>) EXCEPT !.over = TRUE]
         [] OTHER -> Raises(<<ins.op, ValueOf(s, a[2]), ValueOf(s, a[3])>>)

ChunkTrace(f) ==
    LET chunk == m_result_chunks[f]
        argc == Len(source[f].params)
        run[k \in 0..Len(chunk)] ==
          IF k = 0
          THEN [regs |-> [r \in Registers |-> IF r < argc THEN <<"param", r + 1>> ELSE Clobbered],
                top |-> argc - 1, trace |-> <<>>, calls |-> 0, lists |-> 0, over |-> FALSE]
          ELSE Effects(run[k - 1], chunk[k])
    IN run[Len(chunk)].trace

\* The sources it is right for: no branches, no destructuring (which is dropped), no
\* negation (which is in place) and no access (whose result is a reference), every
\* call has arguments, and those after the first need no registers but their own.
CallDepth(body) ==
    LET level[i \in 0..Len(body)] ==
          IF i = 0 THEN 0
          ELSE level[i - 1] + (IF body[i][1] = "call" THEN 1
                               ELSE IF body[i][1] = "called" THEN -1 ELSE 0)
    IN level

Simple(body) ==
    /\ \A i \in DOMAIN body :
          /\ body[i][1] \notin Opens \cup {"break", "negate", "detup"}
          /\ body[i] # <<"binary", "seq_obj_get">>
          /\ body[i][1] = "called" => body[i - 1][1] = "argument"
    /\ \A i, k \in DOMAIN body :
          (/\ i < k /\ body[i][1] = "argument" /\ body[k][1] = "argument"
           /\ \A j \in i..k : CallDepth(body)[j] >= CallDepth(body)[k]
           /\ CallDepth(body)[i] = CallDepth(body)[k]) =>
              body[k - 1][1] \in {"name", "literal"} /\ body[k - 2][1] = "argument"

\* Registers are assigned so that every call gets its arguments, and every
\* operation its operands, in order and before anything overwrites them, however
\* calls, sums and lists nest.
ValuesFollowSource ==
    phase = "done" => \A f \in DOMAIN source :
        Simple(bodies[f]) /\ UnknownIn(f) = {} => ChunkTrace(f) = SourceTrace(f)
=============================================================================
