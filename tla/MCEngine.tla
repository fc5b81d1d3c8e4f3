------------------------------- MODULE MCEngine -------------------------------
(***************************************************************************)
(* The engine on the programs of Samples.  They share one pool of literals *)
(* and one of constants: those a program does not use do no harm.          *)
(***************************************************************************)
EXTENDS Engine, Samples, TLC

CONSTANTS o1, o2, o3, o4, o5, o6, o7, o8, o9

MCObject == {o1, o2, o3, o4, o5, o6, o7, o8, o9}
MCPreloads == <<o1, o2, o3, o4>>

\* Literal 0 is "abc", literal 1 is "123"; the one argument is "123".
Abc == <<Chr8(97), Chr8(98), Chr8(99)>>
Digits123 == <<Chr8(49), Chr8(50), Chr8(51)>>
MCLiterals == <<Abc, Digits123>>
MCArguments == <<Digits123>>

\* The terminal: numbers (the square of the greatest is infinite), and the lines "7", "-4" and "x".
MCInts == {-3, 0, 1, 3}
NaN == Flt64(0, 0)
MCFloats == {Flt64(3, 2), Flt64(MaxDouble, 1), NaN}
MCLines == {<<Chr8(55)>>, <<Chr8(45), Chr8(52)>>, <<Chr8(120)>>}

MCConstants == [k \in 1..11 |-> Int32(k - 1)]

Compiled(sample) ==
    [chunks |-> [f \in 0..(Len(sample) - 1) |-> sample[f + 1]],
     constants |-> MCConstants, natives |-> NativeNames, entry |-> 0]

Runs(sample) == program = Compiled(sample)

MCPrograms == {Compiled(sample) : sample \in
    {SumLoop, Fibonacci, Arithmetics, Divides, ListNatives, AccessSeqs, ManipStrings,
      ReadNumber, PrintArg, TwoPrompts, MakesNaN, PushToTuple, BreaksOut, Negates, CutsString, FallsOff,
      JoinsToItself, HoldsReference, RecursesForever, Fills(4), Fills(5), KeepsList,
      AsksForArguments, HandWritten, PopsAndHalts}}

-----------------------------------------------------------------------------
(* Sources the calling convention gets wrong                                *)

CallsInLoops == {Compiled(CallsInLoop)}
AsksAfterDefs == {Compiled(AsksAfterDef)}

\* All of them are prepared for the calling convention, even those it fails.
ASSUME ProgramsPrepared ==
    \A p \in MCPrograms \cup CallsInLoops \cup AsksAfterDefs : Prepared(p)

\* vm.md:55, "prepares a register frame above the latest argument register": the
\* last argument of a call, moved to its register by the instruction before, is
\* the callee's last one.  The code counts from m_rft, which never comes down in
\* a function: the second time round a loop it is above the arguments.
ArgumentsOnTop ==
    [][(/\ Fetched("call") /\ arg(2) > 0 /\ fault' = "none"
        /\ Chunk[m_rip].op = "mov") =>
          m_rbp' + arg(2) - 1 = m_rbp + Chunk[m_rip].args[1][2]]_vars

\* vm.md:60, natives access registers "by register base offset (caller_RFT -
\* arg_count + 1)": the register a native writes is that one.  The code writes one
\* below when there are no arguments, over the caller's last variable.
NativeWritesAtBase ==
    [][Fetched("native_call") =>
          \A r \in Regs : m_memory'[r] # m_memory[r] => r = m_rft - arg(2) + 1]_vars

-----------------------------------------------------------------------------
(* What the sources mean, given what the terminal offered                   *)

Asked == inputs[1].n
Gauss(n) == IF n <= 0 THEN 0 ELSE (n * (n + 1)) \div 2
Fib[n \in Int] == IF n < 2 THEN n ELSE Fib[n - 1] + Fib[n - 2]

\* The integer main returns, for the programs that end well.
Answer ==
    CASE Runs(SumLoop) -> Gauss(Asked)
      [] Runs(Fibonacci) -> Fib[Asked]
      [] Runs(Arithmetics) ->
            ((-3) :> -3 @@ 0 :> -1 @@ 1 :> 2 @@ 3 :> 1)[Asked]
      [] Runs(Divides) -> ((-3) :> -2 @@ 1 :> 6 @@ 3 :> 2)[Asked]
      [] Runs(ListNatives) -> 4
      [] Runs(AccessSeqs) -> Asked
      [] Runs(BreaksOut) -> ((-3) :> 0 @@ 0 :> 0 @@ 1 :> 5 @@ 3 :> 3)[Asked]
      [] Runs(ManipStrings) -> 5
      [] Runs(ReadNumber) -> IF Len(inputs[1]) = 1 THEN 7 ELSE -4
      [] Runs(PrintArg) -> 0
      [] Runs(TwoPrompts) -> IF inputs[2] = NaN THEN 0 ELSE 1
      [] Runs(MakesNaN) -> IF inputs[1] = Flt64(3, 2) THEN 1 ELSE 0
      [] Runs(PushToTuple) \/ Runs(CutsString) -> 1

\* The error a well defined program ends with: a division by zero, no number to
\* read, a tuple to extend, a slice that reaches the end.
MeantError ==
    CASE Runs(Divides) -> IF Asked = 0 THEN "math_error" ELSE "ok"
      [] Runs(ReadNumber) ->
            IF inputs[1] = <<Chr8(120)>> THEN "op_error" ELSE "ok"
      [] Runs(PushToTuple) -> IF Asked = 0 THEN "op_error" ELSE "ok"
      [] Runs(CutsString) -> IF Asked = 3 THEN "op_error" ELSE "ok"
      [] OTHER -> "ok"

\* The sources whose meaning nobody would dispute.
Meaningful ==
    {SumLoop, Fibonacci, Arithmetics, Divides, ListNatives, AccessSeqs, ManipStrings,
     ReadNumber, PrintArg, TwoPrompts, MakesNaN, PushToTuple, BreaksOut, CutsString}

\* Whatever the terminal offers, these programs end with what their sources
\* mean: the value main returns (operator() reads it from register 0), or the
\* error, and never a fault, but for substr with a negative begin.
ProgramsAnswer ==
    (\E sample \in Meaningful : Runs(sample)) =>
        /\ fault # "undefined"
        /\ fault = "terminate" => Runs(CutsString) /\ Asked < 0
        /\ ~Running /\ fault = "none" => m_res = MeantError
        /\ ~Running /\ fault = "none" /\ m_res = "ok" =>
              Chased(contents, m_memory[0]).n = Answer
=============================================================================
