----------------------------- MODULE EngineState -----------------------------
(***************************************************************************)
(* The state of Runtime::VM::Engine (src/src/runtime/vm.{hpp,cpp}): the    *)
(* special registers, the register file, the call frames, the heap and     *)
(* what its objects hold, and the bytecode program it interprets.          *)
(*                                                                         *)
(* Where the code does something undefined (a register, cell, frame or     *)
(* instruction out of its vector, a dangling or null pointer) or ends the  *)
(* process (std::terminate), fault says so and nothing more happens.       *)
(***************************************************************************)
EXTENDS HeapStorage, FastValue, Bytecode

CONSTANTS
    Registers,     \* EngineConfig::reg_buffer_limit
    MaxFrames,     \* EngineConfig::call_frame_max
    Programs,      \* the compiled programs that may be run
    Literals,      \* the texts of the string literals, compiled into cells
    Arguments      \* the texts of the program's arguments

\* The constants of a program are numbers and booleans: a text is a literal.
\* The emitter patches in where to jump to, and counts functions and arguments.
WellFormed(p) ==
    /\ p.entry \in Int
    /\ \A k \in DOMAIN p.constants : Spelled(p.constants[k])
    /\ \A f \in DOMAIN p.chunks : \A ip \in DOMAIN p.chunks[f] :
          \A i \in Immediates(p.chunks[f][ip].op) : p.chunks[f][ip].args[i][2] \in Nat

ASSUME EngineAssumption ==
    /\ Registers \in Nat \ {0} /\ MaxFrames \in Nat \ {0}
    /\ Literals \in Seq(Seq(Character)) /\ Arguments \in Seq(Seq(Character))
    /\ Len(Preloads) = Len(Literals) + 1 + Len(Arguments)
    /\ \A p \in Programs : WellFormed(p)

VARIABLES
    program,       \* the one that is run
    m_memory,      \* the register file
    m_call_frames, \* the frames in use, main's at the bottom
    m_rfi, m_rip,  \* function, and instruction, to run next
    m_rbp,         \* base of the running function's registers
    m_rft,         \* highest register used
    m_res,         \* status
    contents,      \* what each heap object holds
    inputs,        \* what the natives have read from the terminal
    fault          \* "none", "undefined" or "terminate"

machineVars == <<m_memory, m_call_frames, m_rfi, m_rip, m_rbp, m_rft, m_res>>
vars == <<heapVars, machineVars, program, contents, inputs, fault>>

Regs == 0..(Registers - 1)

\* m_rrd: main counts as the first call.
m_rrd == Len(m_call_frames)

\* An instruction is [op, args]: up to three arguments, each with how it is to be
\* read: <<"immediate", k>>, <<"constant", k>>, <<"reg", k>> or <<"heap", k>>.
Chunk == program.chunks[m_rfi]
Constants == program.constants
NativeTable == program.natives

-----------------------------------------------------------------------------
(* The constructor.  The literals come first in the heap; the argv list and *)
(* its strings are created right after them.                                *)

ArgvCell == Len(Literals)
m_program_argv_p == Preloads[ArgvCell + 1]

InitialItems(i) ==
    CASE i <= Len(Literals) -> Literals[i]
      [] i = ArgvCell + 1 ->
            [k \in DOMAIN Arguments |-> Pointer(Preloads[i + k], "string")]
      [] OTHER -> Arguments[i - ArgvCell - 1]

InitialContents ==
    LET never == [kind |-> "none", items |-> <<>>, frozen |-> FALSE, room |-> 0, gen |-> 0]
    IN [o \in Object |->
          IF \E i \in DOMAIN Preloads : Preloads[i] = o
          THEN LET i == CHOOSE i \in DOMAIN Preloads : Preloads[i] = o
               IN NewObject(never, IF i = ArgvCell + 1 THEN "sequence" ELSE "string",
                            InitialItems(i))
          ELSE never]

EntryFrame == [func |-> 0, ip |-> 0, base |-> 0, top |-> 0, status |-> "ok"]

Init ==
    /\ HeapInit
    /\ program \in Programs
    /\ m_memory = [r \in Regs |-> Dud]
    /\ m_call_frames = <<EntryFrame>>
    /\ m_rfi = program.entry
    /\ m_rip = 0 /\ m_rbp = 0 /\ m_rft = 0
    /\ m_res = IF program.entry >= 0 THEN "ok" ELSE "setup_error"
    /\ contents = InitialContents
    /\ inputs = <<>>
    /\ fault = "none"

-----------------------------------------------------------------------------
(* Fetching                                                                 *)

\* The loop of operator() goes on.
Running == m_rrd > 0 /\ m_res = "ok" /\ fault = "none" /\ ~OutOfBounds

Instr == Chunk[m_rip + 1]
mode(i) == Instr.args[i][1]
arg(i) == Instr.args[i][2]

\* The register an argument names, relative to the running function's frame.
Abs(i) == m_rbp + arg(i)

\* fetch_value: an immediate or a heap id cannot be fetched.
CanFetch(i) == mode(i) \in {"constant", "reg"}
fetch_value(i) == IF mode(i) = "constant" THEN Constants[arg(i) + 1] ELSE m_memory[Abs(i)]

Arithmetic == {"mul", "add", "sub", "div", "mod"}
Comparison == {"equ", "neq", "lt", "gt", "lte", "gte"}

\* The arguments an instruction fetches, and those it takes for registers
\* whatever their mode says.
Sources(op) ==
    CASE op \in Arithmetic \cup Comparison -> {2, 3}
      [] op \in {"seq_obj_push", "mov"} -> {2}
      [] op = "seq_obj_get" -> {3}
      [] op = "ret" -> {1}
      [] OTHER -> {}

AlwaysRegisters(op) ==
    CASE op \in {"seq_obj_pop", "seq_obj_get"} -> {1, 2}
      [] op \in {"nop", "jump", "call", "native_call", "ret", "halt", "inc", "dec"} -> {}
      [] OTHER -> {1}

Constant(op, i) ==
    \/ i \in Sources(op) /\ mode(i) = "constant"
    \/ op = "load_const" /\ i = 2

\* The function has a chunk, the instruction lies in it, its registers in the register
\* file, its constant, literal or native in its table: nothing is looked up with a
\* check.
InRange ==
    /\ m_rfi \in DOMAIN program.chunks
    /\ m_rip + 1 \in DOMAIN Chunk
    /\ \A i \in AlwaysRegisters(Instr.op) : Abs(i) \in Regs
    /\ \A i \in Sources(Instr.op) : mode(i) = "reg" => Abs(i) \in Regs
    /\ \A i \in 1..3 : Constant(Instr.op, i) => arg(i) + 1 \in DOMAIN Constants
    /\ Instr.op = "make_str" => arg(2) \in Cells
    /\ Instr.op = "native_call" => arg(1) + 1 \in DOMAIN NativeTable
    /\ Instr.op = "ret" => m_rbp \in Regs

Fetched(op) == Running /\ InRange /\ Instr.op = op

Raised(r) == IF r > m_rft THEN r ELSE m_rft

\* The register m_memory[r] takes v, the top of the frames is raised to it.
WriteRaising(r, v) ==
    /\ m_memory' = [m_memory EXCEPT ![r] = v]
    /\ m_rft' = Raised(r)

\* The item a sound reference leads to takes v.
WriteThrough(ref, v) ==
    LET last == LastRef(contents, ref)
    IN contents' = [contents EXCEPT ![last.obj].items[last.n + 1] = v]

Advance == m_rip' = m_rip + 1
Stop(status) == m_res' = status

Undefined ==
    /\ fault' = "undefined"
    /\ UNCHANGED <<heapVars, machineVars, program, contents, inputs>>

\* A value() of an empty optional in a noexcept function, or uncaught.
Terminate ==
    /\ fault' = "terminate"
    /\ UNCHANGED <<heapVars, machineVars, program, contents, inputs>>

\* Mutant of CreateObject: every object is a sequence.
CreateSequence(o, kind, items) ==
    /\ try_create_value(o)
    /\ contents' = [contents EXCEPT ![o] = NewObject(@, "sequence", items)]

\* try_create_value with what the object holds, at any address malloc gives.
\* (Past the last cell the heap stops being defined: see HeapStorage.)
CreateObject(o, kind, items) ==
    /\ try_create_value(o)
    /\ contents' = [contents EXCEPT ![o] = NewObject(@, kind, items)]
=============================================================================
