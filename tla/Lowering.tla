------------------------------- MODULE Lowering -------------------------------
(***************************************************************************)
(* ASTConversion (src/src/ir/convert_ast.cpp), which lowers the AST of a   *)
(* program to a control-flow graph for each function, and the graph itself *)
(* (src/src/ir/cfg.cpp).                                                   *)
(*                                                                         *)
(* The AST is a stream of events <<kind, text>>, one for each point where  *)
(* the recursive descent enters or leaves a node: operands come before     *)
(* their operator, <<"if", "">> cond <<"then", "">> stmts <<"else", "">>   *)
(* stmts <<"end", "">> and so on.  activations is the stack of the C++     *)
(* functions in progress, values that of the addresses they have got back. *)
(* Sources are those that the analyzer has accepted: names are declared,   *)
(* once, except that it does not look at the arguments of calls, and knows *)
(* stubs that no native is registered for.                                 *)
(***************************************************************************)
EXTENDS Integers, Sequences

CONSTANTS
    Sources,       \* the programs: sequences of functions
    Natives        \* the names of the registered natives

\* After the body of a function, up to spare parts follow, then the ends that are due.
BinaryOps == {"mul", "div", "mod", "add", "sub", "equ", "neq", "lt", "gt", "lte", "gte",
              "seq_obj_get"}
Event == {e \in STRING \X STRING : e[1] = "binary" => e[2] \in BinaryOps}
Function == [name : STRING, params : Seq(STRING), body : Seq(Event),
             parts : SUBSET (Seq(Event) \ {<<>>}), spare : Nat]

ASSUME LoweringAssumption == Sources \subseteq Seq(Function) /\ Natives \in Seq(STRING)

VARIABLES
    source,          \* the program
    phase,           \* "prepass", "lower", "skip", "link", "emit", "done", "failed" or
                     \* "undefined"
    ahead, spare,    \* what is left of the running function's source
    depth,           \* of what is skipped, as nothing is emitted for it
    bodies,          \* the events read, function by function
    activations, values,
    m_globals, m_locals,
    m_proto_consts, m_proto_heap_objs, m_proto_main_id,
    m_next_func_aa, m_next_local_aa,
    m_pending_links,
    m_result_cfgs    \* the graphs, the one in progress last

sourceVars == <<source, ahead, spare, depth, bodies>>
constVars == <<m_proto_consts, m_proto_heap_objs, m_proto_main_id, m_next_func_aa>>
loweringVars == <<sourceVars, phase, activations, values, m_globals, m_locals, constVars,
                  m_next_local_aa, m_pending_links, m_result_cfgs>>

-----------------------------------------------------------------------------
(* The graph *)

NoBlock == -1

EmptyBlock == [steps |-> <<>>, truthy_id |-> NoBlock, falsy_id |-> NoBlock]

add_bb(cfg) == Append(cfg, EmptyBlock)

\* A step goes to the newest block.
Add(cfg, steps) == [cfg EXCEPT ![Len(cfg)].steps = @ \o steps]

\* Mutant of link_bb: the second link replaces the first.
LinkFirst(cfg, link) == [cfg EXCEPT ![link[1] + 1].truthy_id = link[2]]

\* A third link out of a block is dropped without a word.
link_bb(cfg, link) ==
    LET b == cfg[link[1] + 1]
    IN IF b.truthy_id = NoBlock THEN [cfg EXCEPT ![link[1] + 1].truthy_id = link[2]]
       ELSE IF b.falsy_id = NoBlock THEN [cfg EXCEPT ![link[1] + 1].falsy_id = link[2]]
       ELSE cfg

wip == IF m_result_cfgs = <<>> THEN <<>> ELSE m_result_cfgs[Len(m_result_cfgs)]
newest_bb == Len(wip) - 1

\* A step is [op, args, at]; at is the event it comes from, which only the
\* properties look at.
Step(op, args) == [op |-> op, args |-> args, at |-> Len(bodies[Len(bodies)]) + 1]

Becomes(cfg) == m_result_cfgs' = [m_result_cfgs EXCEPT ![Len(m_result_cfgs)] = cfg]
Emits(steps) == Becomes(Add(wip, steps))

-----------------------------------------------------------------------------
(* Reading the source *)

ParamsOf(f) == [p \in {f.params[i] : i \in DOMAIN f.params} |->
                  <<"temp", (CHOOSE i \in DOMAIN f.params : f.params[i] = p) - 1>>]
running == source[Len(m_result_cfgs)]
End == <<"end", "">>

\* The activation on top, and how many values it has got so far.
top == activations[Len(activations)]
got == Len(values) - top.base
value(i) == values[Len(values) - got + i]
Keep(n) == SubSeq(values, 1, Len(values) - n)

In(kinds) == top.kind \in kinds
Statements == {"function", "then", "else", "do"}

\* The body on top has failed (see fail_stmt): nothing more of it is lowered.
Abandoned == In(Statements \ {"function"}) /\ top.body = NoBlock

Parts == IF spare > 0 /\ ~ (phase = "lower" /\ Abandoned) THEN running.parts ELSE {}
Offered == IF ahead # <<>> THEN {Head(ahead)} ELSE {End} \cup {Head(part) : part \in Parts}

Passes(e) ==
    /\ \/ ahead # <<>> /\ ahead' = Tail(ahead) /\ UNCHANGED spare
       \/ ahead = <<>> /\ e = End /\ UNCHANGED <<ahead, spare>>
       \/ /\ ahead = <<>>
          /\ \E part \in Parts : Head(part) = e /\ ahead' = Tail(part)
          /\ spare' = spare - 1
    /\ bodies' = [bodies EXCEPT ![Len(bodies)] = Append(@, e)]
    /\ UNCHANGED source

Reads(e) == Passes(e) /\ UNCHANGED depth

\* An event of this kind is the next one, after n values; the machine is in one
\* of the given activations.
Comes(kind, n, e) == phase = "lower" /\ e[1] = kind /\ got = n

NoAddress == <<"none", 0>>

\* Operand i has an address, as all have but those with an unknown name in them.
Succeeds(i) == value(i) # NoAddress

Enter(activation) == activations' = Append(activations, activation)
Leave == activations' = SubSeq(activations, 1, Len(activations) - 1)
Turn(activation) == activations' = [activations EXCEPT ![Len(activations)] = activation]

-----------------------------------------------------------------------------
(* Addresses and names *)

With(f, x, v) == [y \in DOMAIN f \cup {x} |-> IF y = x THEN v ELSE f[y]]

Temp == <<"temp", m_next_local_aa>>
gen_temp_aa == m_next_local_aa' = m_next_local_aa + 1

NativeIds == [x \in {Natives[i] : i \in DOMAIN Natives} |->
                (CHOOSE i \in DOMAIN Natives : Natives[i] = x) - 1]

\* Natives first, then functions and literals, then locals.
lookup_name_aa(x) ==
    IF x \in DOMAIN NativeIds THEN <<"constant", NativeIds[x]>>
    ELSE IF x \in DOMAIN m_globals THEN m_globals[x]
    ELSE IF x \in DOMAIN m_locals THEN m_locals[x]
    ELSE NoAddress

Init ==
    /\ source \in Sources
    /\ phase = "prepass"
    /\ ahead = <<>> /\ spare = 0 /\ depth = 0 /\ bodies = <<>>
    /\ activations = <<>> /\ values = <<>>
    /\ m_globals = [x \in {} |-> 0] /\ m_locals = [x \in {} |-> 0]
    /\ m_proto_consts = <<>> /\ m_proto_heap_objs = <<>> /\ m_proto_main_id = -1
    /\ m_next_func_aa = 0 /\ m_next_local_aa = 0
    /\ m_pending_links = <<>> /\ m_result_cfgs = <<>>

-----------------------------------------------------------------------------
(* Functions *)

\* First pass: the functions get their ids.
emit_function_prepass ==
    /\ phase = "prepass" /\ m_next_func_aa < Len(source)
    /\ LET name == source[m_next_func_aa + 1].name
       IN /\ m_globals' = With(m_globals, name, <<"immediate", m_next_func_aa>>)
          /\ m_proto_main_id' = IF name = "main" /\ m_proto_main_id = -1
                                  THEN m_next_func_aa ELSE m_proto_main_id
    /\ m_next_func_aa' = m_next_func_aa + 1
    /\ UNCHANGED <<sourceVars, phase, activations, values, m_locals, m_proto_consts,
                   m_proto_heap_objs, m_next_local_aa, m_pending_links, m_result_cfgs>>

prepass_done ==
    /\ phase = "prepass" /\ m_next_func_aa = Len(source)
    /\ phase' = "lower"
    /\ UNCHANGED <<sourceVars, activations, values, m_globals, m_locals, constVars,
                   m_next_local_aa, m_pending_links, m_result_cfgs>>

begin_function ==
    /\ phase = "lower" /\ activations = <<>> /\ Len(m_result_cfgs) < Len(source)
    /\ LET f == source[Len(m_result_cfgs) + 1]
       IN /\ m_locals' = ParamsOf(f)
          /\ m_next_local_aa' = m_next_local_aa + Len(f.params)
          /\ ahead' = f.body /\ spare' = f.spare
    /\ m_result_cfgs' = Append(m_result_cfgs, add_bb(<<>>))
    /\ bodies' = Append(bodies, <<>>)
    /\ Enter([kind |-> "function", base |-> 0])
    /\ UNCHANGED <<source, depth, phase, values, m_globals, constVars, m_pending_links>>

end_function ==
    /\ phase = "lower" /\ activations # <<>>
    /\ \E e \in Offered : Comes("end", 0, e) /\ In({"function"}) /\ Reads(e)
    /\ phase' = "link"
    /\ UNCHANGED <<activations, values, m_globals, m_locals, constVars, m_next_local_aa,
                   m_pending_links, m_result_cfgs>>

\* A link from a block that there is not is made through a null pointer.
apply_pending_link ==
    /\ phase = "link" /\ m_pending_links # <<>>
    /\ LET link == Head(m_pending_links)
       IN \/ /\ link[1] # NoBlock
             /\ Becomes(link_bb(wip, link))
             /\ m_pending_links' = Tail(m_pending_links)
             /\ UNCHANGED phase
          \/ /\ link[1] = NoBlock
             /\ phase' = "undefined"
             /\ UNCHANGED <<m_pending_links, m_result_cfgs>>
    /\ UNCHANGED <<sourceVars, activations, values, m_globals, m_locals, constVars,
                   m_next_local_aa>>

leave_function ==
    /\ phase = "link" /\ m_pending_links = <<>>
    /\ phase' = "lower"
    /\ m_locals' = [x \in {} |-> 0] /\ m_next_local_aa' = 0
    /\ Leave
    /\ UNCHANGED <<sourceVars, values, m_globals, constVars, m_pending_links, m_result_cfgs>>

lowering_done ==
    /\ phase = "lower" /\ activations = <<>> /\ Len(m_result_cfgs) = Len(source)
    /\ phase' = "emit"
    /\ UNCHANGED <<sourceVars, activations, values, m_globals, m_locals, constVars,
                   m_next_local_aa, m_pending_links, m_result_cfgs>>

-----------------------------------------------------------------------------
(* Expressions *)

\* What no expression touches.
InExpression == UNCHANGED <<phase, m_locals, m_pending_links, m_proto_main_id,
                            m_next_func_aa>>

\* A literal that was met before is the same constant.
emit_literal ==
    /\ phase = "lower" /\ activations # <<>>
    /\ \E e \in Offered :
          /\ e[1] = "literal" /\ Reads(e)
          /\ LET next_aa == <<"constant", Len(m_proto_consts)>>
             IN \/ /\ e[2] \in DOMAIN m_globals
                   /\ values' = Append(values, m_globals[e[2]])
                   /\ UNCHANGED <<m_globals, m_proto_consts>>
                \/ /\ e[2] \notin DOMAIN m_globals
                   /\ values' = Append(values, next_aa)
                   /\ m_globals' = With(m_globals, e[2], next_aa)
                   /\ m_proto_consts' = Append(m_proto_consts, e[2])
    /\ InExpression
    /\ UNCHANGED <<activations, m_next_local_aa, m_proto_heap_objs, m_result_cfgs>>

emit_name ==
    /\ phase = "lower" /\ activations # <<>>
    /\ \E e \in Offered :
          /\ e[1] = "name" /\ Reads(e)
          /\ values' = Append(values, lookup_name_aa(e[2]))
    /\ InExpression
    /\ UNCHANGED <<activations, m_globals, m_proto_consts, m_proto_heap_objs,
                   m_next_local_aa, m_result_cfgs>>

emit_string ==
    /\ phase = "lower" /\ activations # <<>>
    /\ \E e \in Offered :
          /\ e[1] = "string" /\ Reads(e)
          /\ m_proto_heap_objs' = Append(m_proto_heap_objs, e[2])
    /\ Emits(<<Step("make_str", <<Temp, <<"heap", Len(m_proto_heap_objs)>>>>)>>)
    /\ values' = Append(values, Temp)
    /\ gen_temp_aa
    /\ InExpression /\ UNCHANGED <<activations, m_globals, m_proto_consts>>

\* The rules below emit, but add no literal.
NoLiteral == InExpression /\ UNCHANGED <<m_globals, m_proto_consts, m_proto_heap_objs>>

begin_sequence ==
    /\ phase = "lower" /\ activations # <<>>
    /\ \E e \in Offered : e[1] = "sequence" /\ Reads(e)
    /\ Emits(<<Step("make_seq", <<Temp>>)>>)
    /\ Enter([kind |-> "sequence", base |-> Len(values), dest |-> Temp])
    /\ gen_temp_aa
    /\ NoLiteral /\ UNCHANGED values

sequence_item ==
    /\ phase = "lower" /\ activations # <<>>
    /\ \E e \in Offered : Comes("item", 1, e) /\ In({"sequence"}) /\ Succeeds(1) /\ Reads(e)
    /\ Emits(<<Step("seq_obj_push", <<top.dest, value(1), <<"immediate", 1>>>>)>>)
    /\ values' = Keep(1)
    /\ NoLiteral /\ UNCHANGED <<activations, m_next_local_aa>>

\* Mutant of Frozen: lists are fixed, too.
FrozenToo(e) == TRUE

\* A tuple is frozen when its items are in.
Frozen(e) == e[1] = "tuple"

end_sequence ==
    /\ phase = "lower" /\ activations # <<>>
    /\ \E e \in Offered :
          /\ \E kind \in {"list", "tuple"} : Comes(kind, 0, e)
          /\ In({"sequence"}) /\ Reads(e)
          /\ Emits(IF Frozen(e) THEN <<Step("frz_seq_obj", <<top.dest>>)>> ELSE <<>>)
    /\ values' = Append(values, top.dest)
    /\ Leave
    /\ NoLiteral /\ UNCHANGED m_next_local_aa

\* The operand itself is negated, in place.
emit_unary ==
    /\ phase = "lower" /\ activations # <<>> /\ got > 0
    /\ \E e \in Offered : e[1] = "negate" /\ Reads(e)
    /\ Emits(IF Succeeds(got) THEN <<Step("neg", <<value(got), value(got)>>)>> ELSE <<>>)
    /\ NoLiteral /\ UNCHANGED <<activations, values, m_next_local_aa>>

Operands == <<value(got - 1), value(got)>>

\* Arithmetic, comparisons, and access ("seq_obj_get").
emit_binary ==
    /\ phase = "lower" /\ activations # <<>> /\ got > 1
    /\ \E e \in Offered :
          /\ e[1] = "binary" /\ Reads(e)
          /\ \/ /\ Succeeds(got - 1) /\ Succeeds(got)
                /\ Emits(<<Step(e[2], <<Temp>> \o Operands)>>)
                /\ values' = Append(Keep(2), Temp)
                /\ gen_temp_aa
             \/ /\ ~ (Succeeds(got - 1) /\ Succeeds(got))
                /\ values' = Append(Keep(2), NoAddress)
                /\ UNCHANGED <<m_next_local_aa, m_result_cfgs>>
    /\ NoLiteral /\ UNCHANGED activations

begin_call ==
    /\ phase = "lower" /\ activations # <<>> /\ got > 0
    /\ \E e \in Offered : e[1] = "call" /\ Succeeds(got) /\ Reads(e)
    /\ Enter([kind |-> "call", base |-> Len(values) - 1, callee |-> value(got), argc |-> 0])
    /\ values' = Keep(1)
    /\ NoLiteral /\ UNCHANGED <<m_next_local_aa, m_result_cfgs>>

\* Mutant of MovesTo: a value that a register has just been made for is not moved.
MovesUnlessNew(v) ==
    IF v = <<"temp", m_next_local_aa - 1>> THEN <<>> ELSE <<Step("nop", <<Temp, v>>)>>

MovesTo(v) == <<Step("nop", <<Temp, v>>)>>

\* Every argument is moved to a register of its own, after those before it.
call_argument ==
    /\ phase = "lower" /\ activations # <<>>
    /\ \E e \in Offered : Comes("argument", 1, e) /\ In({"call"}) /\ Succeeds(1) /\ Reads(e)
    /\ Emits(MovesTo(value(1)))
    /\ values' = Keep(1)
    /\ Turn([top EXCEPT !.argc = @ + 1])
    /\ gen_temp_aa
    /\ NoLiteral

\* Mutant of ResultSlot: that of the last argument.
LastSlot == m_next_local_aa - 1

\* The result comes where the first argument was.
ResultSlot == m_next_local_aa - top.argc

\* The call is, or is in, an argument of another one.
InArgument == \E k \in 1..(Len(activations) - 1) : activations[k].kind = "call"

end_call ==
    /\ phase = "lower" /\ activations # <<>>
    /\ \E e \in Offered : Comes("called", 0, e) /\ In({"call"}) /\ Reads(e)
    /\ top.callee[1] = "immediate" /\ ~ InArgument =>     \* or the analyzer has refused it
          top.argc = Len(source[top.callee[2] + 1].params)
    /\ LET calling_op == IF top.callee[1] = "immediate" THEN "call" ELSE "native_call"
       IN Emits(<<Step(calling_op, <<<<"immediate", top.callee[2]>>,
                                     <<"immediate", top.argc>>>>)>>)
    /\ values' = Append(values, <<"temp", ResultSlot>>)
    /\ Leave
    /\ NoLiteral /\ UNCHANGED m_next_local_aa

\* Without an address for its target or its value an assignment has none either.
emit_assign ==
    /\ phase = "lower" /\ activations # <<>>
    /\ \E e \in Offered : Comes("assign", 2, e) /\ In(Statements) /\ Reads(e)
    /\ \/ /\ Succeeds(1) /\ Succeeds(2)
          /\ Emits(<<Step("nop", Operands)>>)
          /\ values' = Keep(1)
       \/ /\ ~ (Succeeds(1) /\ Succeeds(2))
          /\ values' = Append(Keep(2), NoAddress)
          /\ UNCHANGED m_result_cfgs
    /\ NoLiteral /\ UNCHANGED <<activations, m_next_local_aa>>

-----------------------------------------------------------------------------
(* Statements *)

InStatement == UNCHANGED <<phase, m_globals, constVars>>

emit_expr_stmt ==
    /\ phase = "lower" /\ activations # <<>>
    /\ \E e \in Offered : Comes("expression", 1, e) /\ In(Statements) /\ Succeeds(1) /\ Reads(e)
    /\ values' = Keep(1)
    /\ InStatement
    /\ UNCHANGED <<activations, m_locals, m_next_local_aa, m_pending_links, m_result_cfgs>>

\* The value is moved to the variable's register, unless it is there already.
emit_def ==
    /\ phase = "lower" /\ activations # <<>>
    /\ \E e \in Offered :
          /\ Comes("def", 1, e) /\ In(Statements) /\ Succeeds(1)
          /\ e[2] \notin DOMAIN m_locals       \* or the analyzer has refused it
          /\ Reads(e)
          /\ m_locals' = With(m_locals, e[2], Temp)
    /\ Emits(IF value(1) = Temp THEN <<>> ELSE <<Step("nop", <<Temp, value(1)>>)>>)
    /\ values' = Keep(1)
    /\ gen_temp_aa
    /\ InStatement /\ UNCHANGED <<activations, m_pending_links>>

emit_return ==
    /\ phase = "lower" /\ activations # <<>>
    /\ \E e \in Offered : Comes("return", 1, e) /\ In(Statements) /\ Succeeds(1) /\ Reads(e)
    /\ Emits(<<Step("ret", <<value(1)>>)>>)
    /\ values' = Keep(1)
    /\ InStatement /\ UNCHANGED <<activations, m_locals, m_next_local_aa, m_pending_links>>

\* The control statements leave the values and names alone.
InControl == InStatement /\ UNCHANGED <<m_locals, m_next_local_aa>>

Meta(op) == Step(op, <<>>)
Dud == <<"immediate", 0>>

emit_break ==
    /\ phase = "lower" /\ activations # <<>>
    /\ \E e \in Offered : Comes("break", 0, e) /\ In(Statements) /\ Reads(e)
    /\ Emits(<<Step("jump", <<Dud>>), Meta("meta_mark_break")>>)
    /\ InControl /\ UNCHANGED <<activations, values, m_pending_links>>

begin_if ==
    /\ phase = "lower" /\ activations # <<>>
    /\ \E e \in Offered : Comes("if", 0, e) /\ In(Statements) /\ Reads(e)
    /\ Emits(<<Meta("meta_begin_if_else")>>)
    /\ Enter([kind |-> "if", base |-> Len(values), pre |-> newest_bb])
    /\ InControl /\ UNCHANGED <<values, m_pending_links>>

if_then ==
    /\ phase = "lower" /\ activations # <<>>
    /\ \E e \in Offered : Comes("then", 1, e) /\ In({"if"}) /\ Succeeds(1) /\ Reads(e)
    /\ Becomes(add_bb(Add(wip, <<Step("jump_else", <<value(1), Dud>>),
                                 Meta("meta_mark_if_else_check")>>)))
    /\ Turn([kind |-> "then", base |-> top.base, pre |-> top.pre, body |-> newest_bb + 1])
    /\ values' = Keep(1)
    /\ InControl /\ UNCHANGED m_pending_links

if_else ==
    /\ phase = "lower" /\ activations # <<>>
    /\ \E e \in Offered : Comes("else", 0, e) /\ In({"then"}) /\ Reads(e)
    /\ Becomes(add_bb(Add(wip, <<Step("jump", <<Dud>>), Meta("meta_mark_if_else_alt"),
                                 Step("nop", <<>>)>>)))
    /\ m_pending_links' = Append(m_pending_links, <<top.pre, top.body>>)
    /\ Turn([top EXCEPT !.kind = "else", !.body = newest_bb + 1])
    /\ InControl /\ UNCHANGED values

\* Mutants of PastElse: the else block leads nowhere, or a block too far.
DeadEnd == <<>>
BeyondElse == <<<<top.body, newest_bb + 2>>>>

PastElse == <<<<top.body, newest_bb + 1>>>>

end_if_else ==
    /\ phase = "lower" /\ activations # <<>>
    /\ \E e \in Offered : Comes("end", 0, e) /\ In({"else"}) /\ Reads(e)
    /\ Becomes(add_bb(Add(wip, <<Step("nop", <<>>), Meta("meta_end_if_else")>>)))
    /\ m_pending_links' = m_pending_links \o <<<<top.pre, top.body>>>> \o PastElse
    /\ Leave
    /\ InControl /\ UNCHANGED values

end_if ==
    /\ phase = "lower" /\ activations # <<>>
    /\ \E e \in Offered : Comes("end", 0, e) /\ In({"then"}) /\ Reads(e)
    /\ Becomes(Add(add_bb(wip), <<Step("nop", <<>>), Meta("meta_end_if_else")>>))
    /\ m_pending_links' = m_pending_links \o
          <<<<top.pre, top.body>>, <<top.body, newest_bb + 1>>, <<top.pre, newest_bb + 1>>>>
    /\ Leave
    /\ InControl /\ UNCHANGED values

begin_while ==
    /\ phase = "lower" /\ activations # <<>>
    /\ \E e \in Offered : Comes("while", 0, e) /\ In(Statements) /\ Reads(e)
    /\ Emits(<<Meta("meta_begin_while"), Step("nop", <<>>)>>)
    /\ Enter([kind |-> "while", base |-> Len(values), pre |-> newest_bb])
    /\ InControl /\ UNCHANGED <<values, m_pending_links>>

while_do ==
    /\ phase = "lower" /\ activations # <<>>
    /\ \E e \in Offered : Comes("do", 1, e) /\ In({"while"}) /\ Succeeds(1) /\ Reads(e)
    /\ Becomes(add_bb(Add(wip, <<Step("jump_else", <<value(1), Dud>>),
                                 Meta("meta_mark_while_check")>>)))
    /\ Turn([kind |-> "do", base |-> top.base, pre |-> top.pre, body |-> newest_bb + 1])
    /\ values' = Keep(1)
    /\ InControl /\ UNCHANGED m_pending_links

end_while ==
    /\ phase = "lower" /\ activations # <<>>
    /\ \E e \in Offered : Comes("end", 0, e) /\ In({"do"}) /\ Reads(e)
    /\ LET closed == Add(wip, <<Step("jump", <<Dud>>), Meta("meta_mark_continue")>>)
       IN Becomes(Add(add_bb(closed), <<Step("nop", <<>>), Meta("meta_end_while")>>))
    /\ m_pending_links' = m_pending_links \o
          <<<<top.body, top.pre>>, <<top.pre, top.body>>, <<top.pre, newest_bb + 1>>>>
    /\ Leave
    /\ InControl /\ UNCHANGED values

-----------------------------------------------------------------------------
(* What is passed over                                                      *)

Brackets == {"sequence", "call", "lambda", "destructure", "if", "while"}
Ends == {"list", "tuple", "called", "lambda_end", "detup", "end"}

\* All up to the end of what event e opens or is an immediate part of.
SkipsRest(e) == Passes(e) /\ depth' = 1 /\ phase' = "skip"

\* A lambda has no code, and no address.
emit_lambda ==
    /\ phase = "lower" /\ activations # <<>>
    /\ \E e \in Offered : e[1] = "lambda" /\ SkipsRest(e)
    /\ values' = Append(values, NoAddress)
    /\ UNCHANGED <<activations, m_globals, m_locals, constVars, m_next_local_aa,
                   m_pending_links, m_result_cfgs>>

\* The first operand without an address ends a call or a sequence, which has none then.
fail_call ==
    /\ phase = "lower" /\ activations # <<>> /\ got > 0
    /\ \E e \in Offered : e[1] = "call" /\ ~ Succeeds(got) /\ SkipsRest(e)
    /\ UNCHANGED <<activations, values, m_globals, m_locals, constVars, m_next_local_aa,
                   m_pending_links, m_result_cfgs>>

fail_operand ==
    /\ phase = "lower" /\ activations # <<>>
    /\ \E e \in Offered :
          /\ \/ Comes("argument", 1, e) /\ In({"call"})
             \/ Comes("item", 1, e) /\ In({"sequence"})
          /\ ~ Succeeds(1) /\ SkipsRest(e)
    /\ Leave
    /\ UNCHANGED <<values, m_globals, m_locals, constVars, m_next_local_aa,
                   m_pending_links, m_result_cfgs>>

\* A destructuring, which the analyzer lets pass, falls through the cases: nothing is
\* emitted, and no name recorded.
ignore_stmt ==
    /\ phase = "lower" /\ activations # <<>>
    /\ \E e \in Offered : Comes("destructure", 0, e) /\ In(Statements) /\ SkipsRest(e)
    /\ UNCHANGED <<activations, values, m_globals, m_locals, constVars, m_next_local_aa,
                   m_pending_links, m_result_cfgs>>

\* Mutant of FailedBlock: emit_block returns its block all the same.
BlockKept(block) == block

\* emit_block returns -1, which the statement it is the body of takes for its block.
FailedBlock(block) == [block EXCEPT !.body = NoBlock]

\* A statement that fails ends its block: that of a function, and with it everything,
\* or the body of an if or a while, the rest of which is passed over.
fail_stmt ==
    /\ phase = "lower" /\ activations # <<>>
    /\ \E e \in Offered :
          LET conditional == e[1] \in {"then", "do"}
              n == Len(activations) - (IF conditional THEN 1 ELSE 0)
              block == activations[n]
          IN /\ \/ \E kind \in {"expression", "def", "return"} : Comes(kind, 1, e) /\ In(Statements)
                \/ Comes("then", 1, e) /\ In({"if"})
                \/ Comes("do", 1, e) /\ In({"while"})
             /\ ~ Succeeds(1)
             /\ Passes(e)
             /\ depth' = IF conditional THEN 1 ELSE 0
             /\ m_next_local_aa' = m_next_local_aa + (IF e[1] = "def" THEN 1 ELSE 0)
             /\ \/ /\ block.kind = "function"
                   /\ phase' = "failed" /\ activations' = <<>>
                \/ /\ block.kind # "function"
                   /\ phase' = "skip"
                   /\ activations' = Append(SubSeq(activations, 1, n - 1), FailedBlock(block))
    /\ values' = Keep(1)
    /\ UNCHANGED <<m_globals, m_locals, constVars, m_pending_links, m_result_cfgs>>

\* Up to the end of what is skipped; or, in a block that has failed, to its end.
skip_event ==
    /\ phase = "skip"
    /\ \E e \in Offered :
          /\ depth = 0 => e[1] \notin {"else"} \cup Ends
          /\ Passes(e)
          /\ depth' = depth + (IF e[1] \in Brackets THEN 1 ELSE IF e[1] \in Ends THEN -1 ELSE 0)
    /\ phase' = IF depth' = 0 /\ ~ Abandoned THEN "lower" ELSE "skip"
    /\ UNCHANGED <<activations, values, m_globals, m_locals, constVars, m_next_local_aa,
                   m_pending_links, m_result_cfgs>>

end_block ==
    /\ phase = "skip" /\ depth = 0
    /\ \E e \in Offered : e[1] \in {"else", "end"}
    /\ phase' = "lower"
    /\ UNCHANGED <<sourceVars, activations, values, m_globals, m_locals, constVars,
                   m_next_local_aa, m_pending_links, m_result_cfgs>>

pass_over ==
    \/ emit_lambda \/ fail_call \/ fail_operand \/ ignore_stmt \/ fail_stmt
    \/ skip_event \/ end_block

emit_expr ==
    \/ emit_literal \/ emit_name \/ emit_string
    \/ begin_sequence \/ sequence_item \/ end_sequence
    \/ emit_unary \/ emit_binary \/ emit_assign
    \/ begin_call \/ call_argument \/ end_call

emit_stmt ==
    \/ emit_expr_stmt \/ emit_def \/ emit_return \/ emit_break
    \/ begin_if \/ if_then \/ if_else \/ end_if_else \/ end_if
    \/ begin_while \/ while_do \/ end_while

Lower ==
    \/ emit_function_prepass \/ prepass_done
    \/ begin_function \/ end_function \/ apply_pending_link \/ leave_function \/ lowering_done
    \/ emit_expr \/ emit_stmt \/ pass_over
=============================================================================
