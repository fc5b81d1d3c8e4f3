-------------------------------- MODULE Emitter --------------------------------
(***************************************************************************)
(* Codegen::Emitter (src/src/bcgen/emitter.cpp), which makes a chunk of    *)
(* bytecode of each graph the lowering has built: it visits the blocks     *)
(* depth first, turns steps into instructions, and patches the jumps when  *)
(* it meets the meta steps that say where they go.                         *)
(*                                                                         *)
(* The stages run one after the other (Driver::operator() in               *)
(* src/src/driver/driver.cpp), each on all functions.                      *)
(***************************************************************************)
EXTENDS Lowering, Bytecode

VARIABLES
    m_result_chunks,               \* the one in progress last
    m_active_ifs, m_active_loops,  \* what has begun and not ended, innermost last
    frontier,                      \* the stack of blocks to visit, its top last
    visited_ids

emitterVars == <<m_result_chunks, m_active_ifs, m_active_loops, frontier, visited_ids>>
vars == <<loweringVars, emitterVars>>

-----------------------------------------------------------------------------
(* Steps.  They work on a state e of the emitter: the chunk, the ifs and    *)
(* loops in progress, and whether all was well defined so far.  Jumps and   *)
(* instructions are numbered from 0.                                        *)

LastIp(e) == Len(e.chunk) - 1

Pushed(e, list, item) == [e EXCEPT ![list] = Append(@, item)]
Popped(e, list) == [e EXCEPT ![list] = SubSeq(@, 1, Len(@) - 1)]
Innermost(e, list) == e[list][Len(e[list])]
WithInnermost(e, list, item) == [e EXCEPT ![list][Len(e[list])] = item]

Patch(e, ip, arg, target) == [e EXCEPT !.chunk[ip + 1].args[arg] = <<"immediate", target>>]
PatchAll(e, ips, target) ==
    [e EXCEPT !.chunk = [k \in DOMAIN e.chunk |->
        IF k - 1 \in ips THEN [e.chunk[k] EXCEPT !.args[1] = <<"immediate", target>>]
        ELSE e.chunk[k]]]

translate_value_aa(aa) == IF aa[1] = "temp" THEN <<"reg", aa[2]>> ELSE aa

Instruct(e, op, s) ==
    Pushed(e, "chunk", [op |-> op, at |-> s.at,
                      args |-> [i \in DOMAIN s.args |-> translate_value_aa(s.args[i])]])

meta_begin_while(e) ==
    Pushed(e, "loops", [breaks |-> {}, continues |-> {}, start |-> Len(e.chunk), check |-> 0])

\* Mutant of LoopExit: the loop is left for the instruction before.
BeforeExit(e) == LastIp(e) - 1

LoopExit(e) == LastIp(e)

meta_end_while(e) ==
    LET loop == Innermost(e, "loops")
        checked == Patch(e, loop.check, 2, LoopExit(e))
        broken == PatchAll(checked, loop.breaks, LoopExit(e))
    IN Popped(PatchAll(broken, loop.continues, loop.start), "loops")

meta_begin_if_else(e) == Pushed(e, "ifs", [check |-> 0, alt |-> -1])

meta_end_if_else(e) ==
    LET cond == Innermost(e, "ifs")
    IN Popped(IF cond.alt # -1
             THEN Patch(Patch(e, cond.check, 2, cond.alt + 1), cond.alt, 1, LastIp(e))
             ELSE Patch(e, cond.check, 2, LastIp(e)), "ifs")

\* The instruction just emitted is the jump the step is about.
Mark(e, list, field) ==
    WithInnermost(e, list, [Innermost(e, list) EXCEPT ![field] = LastIp(e)])
MarkToo(e, field) ==
    WithInnermost(e, "loops", [Innermost(e, "loops") EXCEPT ![field] = @ \cup {LastIp(e)}])

OfIf == {"meta_end_if_else", "meta_mark_if_else_check", "meta_mark_if_else_alt"}
OfLoop == {"meta_end_while", "meta_mark_while_check", "meta_mark_break", "meta_mark_continue"}

\* The innermost if or loop is looked for where there is none.
Astray(e, s) ==
    \/ s.op \in OfIf /\ e.ifs = <<>>
    \/ s.op \in OfLoop /\ e.loops = <<>>

oper_meta(e, s) ==
    CASE s.op = "meta_begin_while" -> meta_begin_while(e)
      [] s.op = "meta_mark_while_check" -> Mark(e, "loops", "check")
      [] s.op = "meta_mark_break" -> MarkToo(e, "breaks")
      [] s.op = "meta_mark_continue" -> MarkToo(e, "continues")
      [] s.op = "meta_end_while" -> meta_end_while(e)
      [] s.op = "meta_begin_if_else" -> meta_begin_if_else(e)
      [] s.op = "meta_mark_if_else_check" -> Mark(e, "ifs", "check")
      [] s.op = "meta_mark_if_else_alt" -> Mark(e, "ifs", "alt")
      [] s.op = "meta_end_if_else" -> meta_end_if_else(e)

Metas == OfIf \cup OfLoop \cup {"meta_begin_while", "meta_begin_if_else"}

\* A nop with operands moves; neg only comes with one operand, twice.
emit_step(e, s) ==
    IF ~e.ok \/ Astray(e, s) THEN [e EXCEPT !.ok = FALSE]
    ELSE CASE s.op \in Metas -> oper_meta(e, s)
           [] s.op = "nop" /\ s.args # <<>> -> Instruct(e, "mov", s)
           [] s.op = "neg" -> Instruct(e, "neg", [s EXCEPT !.args = <<s.args[1]>>])
           [] OTHER -> Instruct(e, s.op, s)

emit_bb(e, bb) ==
    LET done[k \in 0..Len(bb.steps)] ==
          IF k = 0 THEN e ELSE emit_step(done[k - 1], bb.steps[k])
    IN done[Len(bb.steps)]

-----------------------------------------------------------------------------
(* Chunks *)

begin_chunk ==
    /\ phase = "emit" /\ frontier = <<>> /\ Len(m_result_chunks) < Len(m_result_cfgs)
    /\ m_result_chunks' = Append(m_result_chunks, <<>>)
    /\ frontier' = <<0>>
    /\ visited_ids' = {}
    /\ UNCHANGED <<loweringVars, m_active_ifs, m_active_loops>>

next_bb_id == frontier[Len(frontier)]
rest == SubSeq(frontier, 1, Len(frontier) - 1)

skip_visited ==
    /\ phase = "emit" /\ frontier # <<>> /\ next_bb_id \in visited_ids
    /\ frontier' = rest
    /\ UNCHANGED <<loweringVars, m_result_chunks, m_active_ifs, m_active_loops, visited_ids>>

Branch(id) == IF id = NoBlock THEN <<>> ELSE <<id>>

\* Mutant of Children: the false branch comes first.
FalseFirst(bb) == Branch(bb.truthy_id) \o Branch(bb.falsy_id)

\* The true branch is pushed last, and so comes first.
Children(bb) == Branch(bb.falsy_id) \o Branch(bb.truthy_id)

visit_bb ==
    /\ phase = "emit" /\ frontier # <<>> /\ next_bb_id \notin visited_ids
    /\ LET n == Len(m_result_chunks)
           bb == m_result_cfgs[n][next_bb_id + 1]
           e == emit_bb([chunk |-> m_result_chunks[n], ifs |-> m_active_ifs,
                         loops |-> m_active_loops, ok |-> TRUE], bb)
       IN /\ m_result_chunks' = [m_result_chunks EXCEPT ![n] = e.chunk]
          /\ m_active_ifs' = e.ifs
          /\ m_active_loops' = e.loops
          /\ phase' = IF e.ok THEN phase ELSE "undefined"
          /\ frontier' = rest \o Children(bb)
    /\ visited_ids' = visited_ids \cup {next_bb_id}
    /\ UNCHANGED <<sourceVars, activations, values, m_globals, m_locals, constVars,
                   m_next_local_aa, m_pending_links, m_result_cfgs>>

all_emitted ==
    /\ phase = "emit" /\ frontier = <<>> /\ Len(m_result_chunks) = Len(m_result_cfgs)
    /\ phase' = "done"
    /\ UNCHANGED <<sourceVars, activations, values, m_globals, m_locals, constVars,
                   m_next_local_aa, m_pending_links, m_result_cfgs, emitterVars>>

Emit == begin_chunk \/ skip_visited \/ visit_bb \/ all_emitted

CompilerInit ==
    /\ Init
    /\ m_result_chunks = <<>> /\ m_active_ifs = <<>> /\ m_active_loops = <<>>
    /\ frontier = <<>> /\ visited_ids = {}

Next == (Lower /\ UNCHANGED emitterVars) \/ Emit

Spec == CompilerInit /\ [][Next]_vars

-----------------------------------------------------------------------------
(* Types                                                                    *)

\* Addresses lead to what has been given out (a temporary also to what will be next:
\* the result of a call without arguments), links to blocks.
Globals ==
    ({"immediate"} \X (0..(Len(source) - 1))) \cup
    ({"constant"} \X (0..(Len(m_proto_consts) + Len(Natives) - 1)))
Addresses == Globals \cup ({"temp"} \X (0..m_next_local_aa))

BlocksOf(cfg) == 0..(Len(cfg) - 1)
Links(cfg) == BlocksOf(cfg) \cup {NoBlock}
Targets(bb) == {bb.truthy_id, bb.falsy_id}

\* What is kept of the C++ functions in progress.
Activation ==
    [kind : {"function"}, base : {0}] \cup
    [kind : {"sequence"}, base : Nat, dest : Addresses] \cup
    [kind : {"call"}, base : Nat, callee : Addresses, argc : 0..m_next_local_aa] \cup
    [kind : {"if", "while"}, base : Nat, pre : BlocksOf(wip)] \cup
    [kind : {"then", "else", "do"}, base : Nat, pre : BlocksOf(wip), body : Links(wip)]

\* Links, done and pending, lead from blocks to blocks, addresses to registers and
\* constants that have been given out, and the emitter visits the blocks of the graph
\* whose chunk it is writing.
CompilerTypeOK ==
    /\ phase \in {"prepass", "lower", "skip", "link", "emit", "done", "failed", "undefined"}
    /\ depth \in Nat
    /\ values \in Seq(Addresses \cup {NoAddress})
    /\ activations \in Seq(Activation)
    /\ \A x \in DOMAIN m_locals : m_locals[x] \in Addresses
    /\ \A f \in DOMAIN m_result_cfgs : \A b \in DOMAIN m_result_cfgs[f] :
          Targets(m_result_cfgs[f][b]) \subseteq Links(m_result_cfgs[f])
    /\ m_pending_links \in Seq(Links(wip) \X Links(wip))
    /\ Len(m_result_chunks) <= Len(m_result_cfgs)
    /\ m_result_chunks = <<>> => frontier = <<>>
    /\ m_result_chunks # <<>> =>
          frontier \in Seq(BlocksOf(m_result_cfgs[Len(m_result_chunks)]))

\* What the engine takes for granted of every chunk, whatever is compiled and as soon
\* as a block is emitted (see Bytecode): arguments are moved to the registers right
\* before their call, and no jump, patched or not yet, comes between them.
CallsPrepared ==
    \A f \in DOMAIN m_result_chunks :
       Counted(m_result_chunks[f]) /\ ArgumentsInPlace(m_result_chunks[f])
=============================================================================
