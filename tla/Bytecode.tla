------------------------------- MODULE Bytecode -------------------------------
(***************************************************************************)
(* What the engine never checks of the bytecode it runs, and the emitter   *)
(* has to see to (src/src/runtime/bytecode.hpp, docs/vm.md): how the       *)
(* numbers in a chunk are meant, and where the arguments of a call are.    *)
(* The engine finds them below its top register m_rft, and so needs the    *)
(* last of them to have been moved there right before the call.            *)
(*                                                                         *)
(* A chunk is a sequence of instructions [op, args], the first at ip 0; an *)
(* argument is <<mode, number>>.                                           *)
(***************************************************************************)
EXTENDS Integers

\* The arguments of an instruction that are no registers: a place to jump to, a
\* function, a number of arguments.
Immediates(op) ==
    CASE op = "jump" -> {1}
      [] op \in {"jump_if", "jump_else"} -> {2}
      [] op \in {"call", "native_call"} -> {1, 2}
      [] OTHER -> {}

Jumps == {"jump", "jump_if", "jump_else"}
JumpsTo(ins) == ins.args[IF ins.op = "jump" THEN 1 ELSE 2][2]

CallOps == {"call", "native_call"}
Passed(ins) == ins.args[2][2]
PassesArguments(ins) == ins.op \in CallOps /\ Passed(ins) > 0
PassesNone(ins, op) == ins.op = op /\ Passed(ins) = 0

\* Instructions that raise the top register to the one they write.
Raising == {"load_const", "mov", "mul", "add", "sub", "div", "mod",
            "equ", "neq", "lt", "gt", "lte", "gte"}

-----------------------------------------------------------------------------
\* Registers, places and counts are counted from 0.
Counted(chunk) ==
    \A k \in DOMAIN chunk : LET ins == chunk[k] IN
       \A i \in Immediates(ins.op) \cup (IF ins.op \in {"nop", "halt"} THEN {} ELSE {1}) :
          i \in DOMAIN ins.args /\ ins.args[i][2] \in Nat

\* A call that passes arguments comes right after a move to the register of the last
\* one, or a higher one, and nothing jumps between the two.  (An instruction at ip 0
\* has nothing before it.)
ArgumentsInPlace(chunk) ==
    \A k \in DOMAIN chunk : k > 1 /\ PassesArguments(chunk[k]) =>
        /\ chunk[k - 1].op = "mov"
        /\ chunk[k - 1].args[1][2] >= Passed(chunk[k]) - 1
        /\ \A j \in DOMAIN chunk : chunk[j].op \in Jumps => JumpsTo(chunk[j]) # k - 1

\* On every way to ip some register of the function has been written before: one of
\* the instructions before the first jump does.
Opened(chunk, ip) ==
    \E j \in DOMAIN chunk :
       /\ j \in 1..ip /\ chunk[j].op \in Raising
       /\ \A i \in 1..j : chunk[i].op \notin Jumps

\* No native writes its result below the registers of a function that has none yet.
AsksLate(chunk) ==
    \A k \in DOMAIN chunk : PassesNone(chunk[k], "native_call") => Opened(chunk, k - 1)

\* A program whose functions and natives get their arguments, and write their results,
\* where the running function has its registers.
Prepared(p) ==
    /\ \A f \in DOMAIN p.chunks : LET chunk == p.chunks[f] IN
          /\ Counted(chunk) /\ ArgumentsInPlace(chunk)
          /\ 1 \in DOMAIN chunk => ~ PassesArguments(chunk[1])
          /\ \A k \in DOMAIN chunk :
                PassesNone(chunk[k], "call") /\ chunk[k].args[1][2] \in DOMAIN p.chunks =>
                   AsksLate(p.chunks[chunk[k].args[1][2]])
=============================================================================
