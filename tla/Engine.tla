------------------------------- MODULE Engine -------------------------------
(***************************************************************************)
(* Engine::operator() and its handlers (src/src/runtime/vm.cpp): one       *)
(* action per instruction, and the collection a return may end with.       *)
(***************************************************************************)
EXTENDS Natives

\* What the handlers of plain register instructions leave alone.
KeepsFrame == UNCHANGED <<m_call_frames, m_rfi, m_rbp, program, inputs, fault>>
KeepsHeap == UNCHANGED <<heapVars, contents>>

-----------------------------------------------------------------------------
(* Objects *)

nop ==
    /\ Fetched("nop")
    /\ Advance
    /\ KeepsFrame /\ KeepsHeap /\ UNCHANGED <<m_memory, m_rft, m_res>>

\* The literal is looked up by its cell, whatever the cell holds by now.
handle_make_str ==
    /\ Fetched("make_str")
    /\ LET literal == m_objects[arg(2)]
       IN \/ literal = NoObject /\ Undefined
          \/ /\ literal # NoObject
             /\ \E o \in Object :
                   /\ CreateObject(o, "string", Text(contents[literal]))
                   /\ m_memory' = [m_memory EXCEPT ![Abs(1)] = Pointer(o, "string")]
             /\ Advance
             /\ KeepsFrame /\ UNCHANGED <<m_rft, m_res>>

handle_make_seq ==
    /\ Fetched("make_seq")
    /\ \E o \in Object :
          /\ CreateObject(o, "sequence", <<>>)
          /\ m_memory' = [m_memory EXCEPT ![Abs(1)] = Pointer(o, "sequence")]
    /\ Advance
    /\ KeepsFrame /\ UNCHANGED <<m_rft, m_res>>

\* A handler that dereferences the object of register r.
OnObject(r, Handler(_)) ==
    LET o == to_object_ptr(m_memory[r])
    IN \/ o # NoObject /\ ~Alive(contents, o) /\ Undefined
       \/ o # NoObject /\ Alive(contents, o) /\ Handler(o)

\* Errors stop the machine where it is.
Error(status) ==
    /\ Stop(status)
    /\ KeepsFrame /\ KeepsHeap /\ UNCHANGED <<m_memory, m_rft, m_rip>>

NullObject(i) == to_object_ptr(m_memory[Abs(i)]) = NoObject

\* The mode (front or back) is ignored, and so is the list being frozen.
handle_seq_obj_push ==
    /\ Fetched("seq_obj_push")
    /\ \/ (~CanFetch(2) \/ NullObject(1)) /\ Error("mem_error")
       \/ /\ CanFetch(2)
          /\ LET Push(o) == /\ contents' = [contents EXCEPT
                                              ![o] = push_value(@, fetch_value(2))]
                            /\ Advance
                            /\ KeepsFrame /\ UNCHANGED <<heapVars, m_memory, m_rft, m_res>>
             IN OnObject(Abs(1), Push)

handle_seq_obj_pop ==
    /\ Fetched("seq_obj_pop")
    /\ \/ NullObject(2) /\ Error("mem_error")
       \/ LET end == IF arg(3) = 1 THEN "back" ELSE "front"
              Pop(o) == /\ m_memory' = [m_memory EXCEPT
                                          ![Abs(1)] = pop_result(contents[o], end)]
                        /\ contents' = [contents EXCEPT ![o] = pop_value(@, end)]
                        /\ Advance
                        /\ KeepsFrame /\ UNCHANGED <<heapVars, m_rft, m_res>>
          IN OnObject(Abs(2), Pop)

\* The register gets a reference to the item, not the item.
handle_seq_obj_get ==
    /\ Fetched("seq_obj_get")
    /\ LET indexed == CanFetch(3) /\ HasScalar(fetch_value(3))
           pos == to_scalar(fetch_value(3))
           Get(o) ==
             \/ pos \notin 0..(Len(contents[o].items) - 1) /\ Error("mem_error")
             \/ /\ pos \in 0..(Len(contents[o].items) - 1)
                /\ m_memory' = [m_memory EXCEPT ![Abs(1)] =
                      [tag |-> "val_ref", n |-> pos, m |-> contents[o].gen, obj |-> o]]
                /\ Advance
                /\ KeepsFrame /\ KeepsHeap /\ UNCHANGED <<m_rft, m_res>>
       IN \/ ~indexed /\ Error("arg_error")
          \/ indexed /\ NullObject(2) /\ Error("mem_error")
          \/ indexed /\ OnObject(Abs(2), Get)

handle_frz_seq_obj ==
    /\ Fetched("frz_seq_obj")
    /\ \/ NullObject(1) /\ Error("mem_error")
       \/ LET Freeze(o) == /\ contents' = [contents EXCEPT ![o] = freeze(@)]
                           /\ Advance
                           /\ KeepsFrame
                           /\ UNCHANGED <<heapVars, m_memory, m_rft, m_res>>
          IN OnObject(Abs(1), Freeze)

-----------------------------------------------------------------------------
(* Registers *)

handle_load_const ==
    /\ Fetched("load_const")
    /\ WriteRaising(Abs(1), Constants[arg(2) + 1])
    /\ Advance
    /\ KeepsFrame /\ KeepsHeap /\ UNCHANGED m_res

\* A register that refers to an item is not overwritten by a plain value: the
\* item is.
handle_mov ==
    /\ Fetched("mov")
    /\ LET dest == m_memory[Abs(1)]
           src == fetch_value(2)
           through == dest.tag = "val_ref" /\ src.tag # "val_ref"
       IN \/ ~CanFetch(2) /\ Error("mem_error")
          \/ CanFetch(2) /\ through /\ Dangles(contents, dest) /\ Undefined
          \/ /\ CanFetch(2) /\ through /\ ~Dangles(contents, dest)
             /\ WriteThrough(dest, src)
             /\ m_rft' = Raised(Abs(1))
             /\ Advance
             /\ KeepsFrame /\ UNCHANGED <<heapVars, m_memory, m_res>>
          \/ /\ CanFetch(2) /\ ~through
             /\ WriteRaising(Abs(1), src)
             /\ Advance
             /\ KeepsFrame /\ KeepsHeap /\ UNCHANGED m_res

\* negate() succeeds on booleans; the handler takes success for an error, and
\* goes on when there was nothing it could negate.
handle_neg ==
    /\ Fetched("neg")
    /\ LET dest == m_memory[Abs(1)]
           v == Chased(contents, dest)
           negated == Scalar("boolean", 1 - v.n)
       IN \/ Dangles(contents, dest) /\ Undefined
          \/ /\ ~Dangles(contents, dest)
             /\ v.tag # "boolean"
             /\ Advance
             /\ KeepsFrame /\ KeepsHeap /\ UNCHANGED <<m_memory, m_rft, m_res>>
          \/ /\ ~Dangles(contents, dest)
             /\ v.tag = "boolean"
             /\ \/ /\ dest.tag = "val_ref"
                   /\ WriteThrough(dest, negated)
                   /\ UNCHANGED m_memory
                \/ /\ dest.tag # "val_ref"
                   /\ m_memory' = [m_memory EXCEPT ![Abs(1)] = negated]
                   /\ UNCHANGED contents
             /\ m_rft' = Raised(Abs(1))
             /\ Stop("arg_error")
             /\ KeepsFrame /\ UNCHANGED <<heapVars, m_rip>>

\* halt ends like the instructions that are not implemented.
handle_inc_dec_halt ==
    /\ \E op \in {"inc", "dec", "halt"} : Fetched(op)
    /\ Error("op_error")

\* mul, add, sub: the left value is copied to the destination, then operated on
\* in place, so that a left reference changes the item it refers to.
handle_assigning(op) ==
    /\ Fetched(op)
    /\ LET lhs == fetch_value(2)
           rhs == fetch_value(3)
       IN \/ ~(CanFetch(2) /\ CanFetch(3)) /\ Terminate
          \/ CanFetch(2) /\ CanFetch(3) /\ Dangles(contents, lhs) /\ Undefined
          \/ /\ CanFetch(2) /\ CanFetch(3) /\ ~Dangles(contents, lhs)
             /\ \/ /\ lhs.tag = "val_ref"
                   /\ WriteThrough(lhs, Arith(op, Chased(contents, lhs), rhs))
                   /\ WriteRaising(Abs(1), lhs)
                \/ /\ lhs.tag # "val_ref"
                   /\ WriteRaising(Abs(1), Arith(op, lhs, rhs))
                   /\ UNCHANGED contents
             /\ Advance
             /\ KeepsFrame /\ UNCHANGED <<heapVars, m_res>>

\* div, mod: a new value, and an error when there is none.
handle_dividing(op) ==
    /\ Fetched(op)
    /\ LET lhs == Chased(contents, fetch_value(2))
           rhs == fetch_value(3)
       IN \/ ~(CanFetch(2) /\ CanFetch(3)) /\ Terminate
          \/ /\ CanFetch(2) /\ CanFetch(3)
             /\ ~Dangles(contents, fetch_value(2)) => Traps(op, lhs, rhs)
             /\ Undefined
          \/ /\ CanFetch(2) /\ CanFetch(3)
             /\ ~Dangles(contents, fetch_value(2)) /\ ~Traps(op, lhs, rhs)
             /\ \/ /\ Arith(op, lhs, rhs) = Dud
                   /\ Error("math_error")
                \/ /\ Arith(op, lhs, rhs) # Dud
                   /\ WriteRaising(Abs(1), Arith(op, lhs, rhs))
                   /\ Advance
                   /\ KeepsFrame /\ KeepsHeap /\ UNCHANGED m_res

\* The six comparisons: "yes", "no" or "undefined".
Compared(op, lhs, rhs) ==
    IF op \in {"equ", "neq"} THEN
       LET same == Equal(contents, lhs, rhs)
       IN IF same = "undefined" THEN same
          ELSE IF (same = "yes") = (op = "equ") THEN "yes" ELSE "no"
    ELSE IF Dangles(contents, lhs) THEN "undefined"
    ELSE IF Ordered(op, Chased(contents, lhs), rhs) THEN "yes" ELSE "no"

handle_cmp(op) ==
    /\ Fetched(op)
    /\ LET result == Compared(op, fetch_value(2), fetch_value(3))
       IN \/ ~(CanFetch(2) /\ CanFetch(3)) /\ Terminate
          \/ CanFetch(2) /\ CanFetch(3) /\ result = "undefined" /\ Undefined
          \/ /\ CanFetch(2) /\ CanFetch(3) /\ result # "undefined"
             /\ WriteRaising(Abs(1), Boolean(result = "yes"))
             /\ Advance
             /\ KeepsFrame /\ KeepsHeap /\ UNCHANGED m_res

-----------------------------------------------------------------------------
(* Control *)

\* Mutant: the jump is taken when the condition holds.
JumpIfTruthy(r) == Truthy(m_memory[r])

\* jump_else jumps when this holds.
Falsy(r) == ~Truthy(m_memory[r])

handle_jump ==
    /\ \/ Fetched("jump") /\ m_rip' = arg(1)
       \/ Fetched("jump_if") /\ m_rip' = IF ~Falsy(Abs(1)) THEN arg(2) ELSE m_rip + 1
       \/ Fetched("jump_else") /\ m_rip' = IF Falsy(Abs(1)) THEN arg(2) ELSE m_rip + 1
    /\ KeepsFrame /\ KeepsHeap /\ UNCHANGED <<m_memory, m_rft, m_res>>

\* The frame that saves the caller.  Mutants: the return address is the call
\* itself; the top that is saved is the callee's.
FrameAtCall == [func |-> m_rfi, ip |-> m_rip, base |-> m_rbp, top |-> m_rft,
                status |-> m_res]

SavedFrame == [func |-> m_rfi, ip |-> m_rip + 1, base |-> m_rbp, top |-> m_rft,
               status |-> m_res]

\* Where the callee's registers begin.  Mutant: off by one.
BaseOnTop(argc) == m_rft - argc

CalleeBase(argc) == m_rft - argc + 1

handle_call ==
    /\ Fetched("call")
    /\ \/ m_rrd = MaxFrames /\ Undefined
       \/ /\ m_rrd < MaxFrames
          /\ m_call_frames' = Append(m_call_frames, SavedFrame)
          /\ m_rfi' = arg(1)
          /\ m_rip' = 0
          /\ m_rbp' = CalleeBase(arg(2))
          /\ KeepsHeap
          /\ UNCHANGED <<m_memory, m_rft, m_res, program, inputs, fault>>

\* The registers m_rft spans when the collection starts, and what they lead to
\* (traced through lists; see Collector for the traversal).
Reached(top) ==
    LET From(S) == S \cup {to_object_ptr(v) : v \in
                     UNION {{contents[o].items[i] : i \in DOMAIN contents[o].items} : o \in
                             {p \in S : contents[p].kind = "sequence"}}}
        roots == {to_object_ptr(m_memory'[r]) : r \in 0..top} \ {NoObject}
        grown[k \in 0..Cardinality(Object)] ==
            IF k = 0 THEN roots ELSE From(grown[k - 1]) \ {NoObject}
    IN grown[Cardinality(Object)]

\* try_mark_and_sweep at the end of a return, in one step: nothing on a heap
\* that is not ripe; otherwise it empties a full heap, or meets a null cell or
\* a dangling pointer (see Collector).
CollectionFaults(top) ==
    \/ \E o \in Reached(top) : ~Alive(contents, o)
    \/ \E c \in Cells : m_objects[c] = NoObject

try_mark_and_sweep(top) ==
    \/ ~is_ripe /\ KeepsHeap /\ UNCHANGED fault
    \/ /\ is_ripe /\ CollectionFaults(top)
       /\ fault' = "undefined" /\ KeepsHeap
    \/ /\ is_ripe /\ ~CollectionFaults(top)
       /\ m_objects' = [c \in Cells |-> NoObject]
       /\ m_hole_list' = m_hole_list \o [i \in 1..Capacity |-> i - 1]
       /\ m_overhead' = m_overhead - Capacity * ObjOverhead
       /\ contents' = [o \in Object |-> IF o \in Owned THEN Destroyed(contents[o])
                                        ELSE contents[o]]
       /\ UNCHANGED <<m_next_id, fault>>

\* Mutant: the frame is popped but the callee's top stays.
TopStays(frame) == m_rft

RestoredTop(frame) == frame.top

handle_ret ==
    /\ Fetched("ret")
    /\ LET caller == m_call_frames[m_rrd]
       IN \/ ~CanFetch(1) /\ Terminate
          \/ /\ CanFetch(1)
             /\ m_memory' = [m_memory EXCEPT ![m_rbp] = fetch_value(1)]
             /\ m_call_frames' = SubSeq(m_call_frames, 1, m_rrd - 1)
             /\ m_rfi' = caller.func
             /\ m_rip' = caller.ip
             /\ m_rbp' = caller.base
             /\ m_rft' = RestoredTop(caller)
             /\ m_res' = caller.status
             /\ try_mark_and_sweep(RestoredTop(caller))
             /\ UNCHANGED <<program, inputs>>

\* The next instruction or one of its registers does not exist.
OutOfRangeAccess == Running /\ ~InRange /\ Undefined

Step ==
    \/ nop \/ handle_make_str \/ handle_make_seq
    \/ handle_seq_obj_push \/ handle_seq_obj_pop \/ handle_seq_obj_get
    \/ handle_frz_seq_obj
    \/ handle_load_const \/ handle_mov \/ handle_neg \/ handle_inc_dec_halt
    \/ \E op \in {"mul", "add", "sub"} : handle_assigning(op)
    \/ \E op \in {"div", "mod"} : handle_dividing(op)
    \/ \E op \in Comparison : handle_cmp(op)
    \/ handle_jump \/ handle_call \/ handle_ret \/ handle_native_call
    \/ OutOfRangeAccess

\* operator() has returned: main is done, or an error stopped the loop.
Stopped == ~Running /\ UNCHANGED vars

Next == Step \/ Stopped

Spec == Init /\ [][Next]_vars

\* The interpreter's loop runs until it stops.
FairSpec == Spec /\ WF_vars(Step)

-----------------------------------------------------------------------------
(* Properties *)

\* Type invariant of the machine.
EngineTypeOK ==
    /\ HeapTypeOK
    /\ m_memory \in [Regs -> Value]
    /\ m_call_frames \in Seq([func : Int, ip : Nat, base : Int, top : Int, status : {"ok"}])
    /\ m_rfi \in Int /\ m_rip \in Nat /\ m_rbp \in Int /\ m_rft \in Int
    /\ m_res \in {"ok", "setup_error", "op_error", "arg_error", "mem_error", "math_error"}
    /\ \A o \in Object : /\ contents[o].kind \in {"none", "sequence", "string"}
                          /\ contents[o].items \in Seq(Value)
                          /\ Alive(contents, o) => Len(contents[o].items) <= contents[o].room
    /\ fault \in {"none", "undefined", "terminate"}

\* The frames, the special registers and the register file together behave as a
\* stack of activations: handle_call, handle_ret and all that runs in between.
FrameControl(f) == [func |-> f.func, ip |-> f.ip, base |-> f.base, top |-> f.top]

RunningControl == [func |-> m_rfi, ip |-> m_rip, base |-> m_rbp, top |-> m_rft]

\* Where the registers of the i-th of the functions called begin; main is the first.
BaseOf(i) == IF i = m_rrd THEN m_rbp ELSE m_call_frames[i + 1].base

\* The functions that wait for a callee, with their registers below its.
Callers ==
    [k \in 1..(m_rrd - 1) |->
        [control |-> FrameControl(m_call_frames[k + 1]),
         window |-> [i \in 1..(BaseOf(k + 1) - BaseOf(k)) |-> m_memory[BaseOf(k) + i - 1]]]]

Activations == INSTANCE ActivationStack WITH
    control <- RunningControl, suspended <- Callers, done <- m_rrd = 0

ImplementsActivations == Activations!Spec

\* What is left to the compiler, as the engine never looks at it: the registers an
\* instruction writes, a call's arguments and a native's are those of the running
\* function.  (It is what a program that is Prepared makes sure of: see Bytecode.)
StaysInFrame ==
    Running /\ InRange =>
        /\ 1 \in AlwaysRegisters(Instr.op) => Abs(1) >= m_rbp
        /\ Instr.op = "call" => CalleeBase(arg(2)) >= m_rbp
        /\ Instr.op = "native_call" => BaseSlot(arg(2)) >= m_rbp

\* Every object pointer in a register or in a living list leads to a living
\* object of the kind its tag says.
Good(v) ==
    to_object_ptr(v) # NoObject => Alive(contents, v.obj) /\ contents[v.obj].kind = v.tag

PointersGood ==
    /\ \A r \in Regs : Good(m_memory[r])
    /\ \A o \in Owned : \A i \in DOMAIN contents[o].items : Good(contents[o].items[i])

\* native_get_argv hands out the list of arguments after a collection has destroyed
\* it, as its comment fears (mnl_utils.cpp:61).
StaleArgv ==
    /\ Fetched("native_call") /\ NativeTable[arg(1) + 1] = "get_argv"
    /\ ~ Good(Pointer(m_program_argv_p, "sequence"))

\* Only a collection makes a pointer dangle, or lead to an object of another
\* kind: no handler does, and no native but get_argv after a collection.
OnlyCollectionDangles ==
    [][PointersGood /\ Len(m_hole_list') <= Len(m_hole_list) /\ ~StaleArgv
          => PointersGood']_vars

\* A tuple keeps the size it was frozen with (vm.md:35), although seq_obj_push
\* and push_value would extend it: the natives and the compiled code never ask.
FrozenSizeFixed ==
    [][\A o \in Object :
          Alive(contents, o) /\ contents[o].frozen /\ Alive(contents, o)' =>
              Len(contents'[o].items) = Len(contents[o].items)]_vars

\* The one instruction that would extend a tuple is about to.
PushesFrozen ==
    /\ Fetched("seq_obj_push")
    /\ LET o == to_object_ptr(m_memory[Abs(1)])
       IN Alive(contents, o) /\ contents[o].frozen

\* The heap's bookkeeping, and the link between cells and contents, survive
\* every program.
HeapInStep ==
    /\ HolesAreEmptyCells /\ OverheadExact
    /\ ~OutOfBounds => \A o \in Object : Alive(contents, o) <=> o \in Owned

\* Every run ends: main returns, an error stops the loop, or a fault does.
Halts == <>~Running
=============================================================================
