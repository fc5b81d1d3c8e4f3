------------------------------- MODULE Natives -------------------------------
(***************************************************************************)
(* The native procedures of src/src/mintrinsics and the calling convention *)
(* they follow: Engine::handle_native_fn_access and                        *)
(* handle_native_fn_return (src/src/runtime/vm.cpp:191).                   *)
(*                                                                         *)
(* What is read from the terminal comes from small sets; what is printed   *)
(* is left out, except that printing dereferences what it prints.          *)
(***************************************************************************)
EXTENDS EngineState

CONSTANTS Ints, Floats, Lines   \* what the terminal may offer

ASSUME TerminalAssumption ==
    Ints \subseteq Int /\ Floats \subseteq Double /\ Lines \subseteq Seq(Character)

\* Mutant of BaseSlot: the arguments are counted from the top, whatever argc.
SlotAtTop(argc) == m_rft - argc

\* The register of argument 0 and of the result.
BaseSlot(argc) == IF argc > 0 THEN m_rft - argc + 1 ELSE m_rft

handle_native_fn_access(argc, offset) == m_memory[BaseSlot(argc) + offset]

handle_native_fn_return(result, argc) ==
    /\ m_memory' = [m_memory EXCEPT ![BaseSlot(argc)] = result]
    /\ m_rft' = IF argc > 0 THEN m_rft ELSE m_rft + 1

\* The outcomes of a native: true with a result, true without one, false.
Returns(result, argc) == handle_native_fn_return(result, argc) /\ Stop("ok")
Succeeds == Stop("ok") /\ UNCHANGED <<m_memory, m_rft>>
Fails == Stop("op_error") /\ UNCHANGED <<m_memory, m_rft>>

ObjectArg(argc, k) == to_object_ptr(handle_native_fn_access(argc, k))
TagOf(o) == contents[o].kind

-----------------------------------------------------------------------------
(* mnl_lists.cpp, mnl_strings.cpp                                           *)

\* native_len_of and native_strlen are the same code.
native_len_of(argc) ==
    LET o == ObjectArg(argc, 0)
    IN /\ \/ o # NoObject /\ Returns(Int32(Len(contents[o].items)), argc)
          \/ o = NoObject /\ Fails
       /\ UNCHANGED <<heapVars, contents, inputs>>

\* Mutant of IsFlexible: a tuple is taken for a list.
AnySequence(o) == TagOf(o) = "sequence"

IsFlexible(o) == TagOf(o) = "sequence" /\ ~contents[o].frozen
IsFlexibleList(v) == v.tag = "sequence" /\ IsFlexible(v.obj)

native_list_push_back(argc) ==
    LET target == handle_native_fn_access(argc, 0)
        new_item == handle_native_fn_access(argc, 1)
    IN /\ \/ /\ IsFlexibleList(target)
             /\ contents' = [contents EXCEPT ![target.obj] = push_value(@, new_item)]
             /\ Returns(target, argc)
          \/ /\ ~IsFlexibleList(target)
             /\ Fails /\ UNCHANGED contents
       /\ UNCHANGED <<heapVars, inputs>>

\* native_list_pop_back, native_list_pop_front.  A popped dud is gone from the
\* list although the native fails.
native_list_pop(argc, end) ==
    LET target == handle_native_fn_access(argc, 0)
        old == pop_result(contents[target.obj], end)
    IN /\ \/ /\ IsFlexibleList(target)
             /\ contents' = [contents EXCEPT ![target.obj] = pop_value(@, end)]
             /\ IF old.tag = "dud" THEN Fails ELSE Returns(old, argc)
          \/ /\ ~IsFlexibleList(target)
             /\ Fails /\ UNCHANGED contents
       /\ UNCHANGED <<heapVars, inputs>>

\* Nothing is returned: the result's register keeps the target argument.
native_list_concat(argc) ==
    LET source == ObjectArg(argc, 1)
        target == ObjectArg(argc, 0)
        fits == source # NoObject /\ target # NoObject /\ IsFlexible(target)
    IN /\ \/ /\ fits /\ Succeeds
             /\ contents' = [contents EXCEPT
                               ![target] = push_all(@, contents[source].items)]
          \/ ~fits /\ Fails /\ UNCHANGED contents
       /\ UNCHANGED <<heapVars, inputs>>

native_strcat(argc) ==
    LET source == ObjectArg(argc, 1)
        target == ObjectArg(argc, 0)
        fits == /\ source # NoObject /\ target # NoObject
                /\ TagOf(source) = "string" /\ TagOf(target) = "string"
    IN /\ \/ /\ fits /\ Succeeds
             /\ contents' = [contents EXCEPT
                               ![target] = push_all(@, contents[source].items)]
          \/ ~fits /\ Fails /\ UNCHANGED contents
       /\ UNCHANGED <<heapVars, inputs>>

SliceBegin(argc) == ScalarOr0(handle_native_fn_access(argc, 1))
SliceLen(argc) == ScalarOr0(handle_native_fn_access(argc, 2))

\* A slice that ends at the end of the source, or after it, is refused.
SliceFits(argc) ==
    LET source == ObjectArg(argc, 0)
    IN /\ source # NoObject /\ SliceLen(argc) # 0
       /\ TagOf(source) = "string"
       /\ Wrap(SliceBegin(argc) + SliceLen(argc)) < Len(contents[source].items)

\* std::string::substr throws out of a noexcept handler.
SliceThrows(argc) ==
    /\ SliceFits(argc)
    /\ SliceBegin(argc) \notin 0..Len(contents[ObjectArg(argc, 0)].items)

\* What there is of the characters asked for: a negative length is a huge size_t, and
\* the slice goes to the end.
Slice(argc) ==
    LET text == Text(contents[ObjectArg(argc, 0)])
        taken == {i \in DOMAIN text : i > SliceBegin(argc) /\
                    (SliceLen(argc) < 0 \/ i <= SliceBegin(argc) + SliceLen(argc))}
    IN [i \in 1..Cardinality(taken) |-> text[SliceBegin(argc) + i]]

native_substr(argc) ==
    /\ \/ /\ SliceFits(argc)
          /\ \E o \in Object :
                /\ CreateObject(o, "string", Slice(argc))
                /\ Returns(Pointer(o, "string"), argc)
       \/ ~SliceFits(argc) /\ Fails /\ UNCHANGED <<heapVars, contents>>
    /\ UNCHANGED inputs

-----------------------------------------------------------------------------
(* mnl_stdio.cpp, mnl_utils.cpp                                             *)

native_print_value(argc) ==
    Succeeds /\ UNCHANGED <<heapVars, contents, inputs>>

\* native_prompt_int, native_prompt_float.
native_prompt(argc, offered) ==
    /\ \E v \in offered : Returns(v, argc) /\ inputs' = Append(inputs, v)
    /\ UNCHANGED <<heapVars, contents>>

native_readln(argc) ==
    \E o \in Object, line \in Lines :
       /\ CreateObject(o, "string", line)
       /\ Returns(Pointer(o, "string"), argc)
       /\ inputs' = Append(inputs, line)

\* std::stoi: the digits the text starts with, after a sign.  (Leading blanks
\* and texts too long for an int are left out.)
Signed(text) == text # <<>> /\ text[1].n \in {43, 45}
Digits(text) ==
    LET first == IF Signed(text) THEN 2 ELSE 1
        IsDigit(i) == text[i].n \in 48..57
    IN {i \in first..Len(text) : \A j \in first..i : IsDigit(j)}
StoiValue(text) ==
    LET last == CHOOSE i \in Digits(text) : \A j \in Digits(text) : j <= i
        value[i \in 0..Len(text)] == IF i \notin Digits(text) THEN 0
                                     ELSE 10 * value[i - 1] + (text[i].n - 48)
    IN IF Signed(text) /\ text[1].n = 45 THEN -value[last] ELSE value[last]

native_stoi(argc) ==
    LET source == ObjectArg(argc, 0)
        ok == source # NoObject /\ Digits(Text(contents[source])) # {}
    IN /\ \/ ok /\ Returns(Int32(StoiValue(Text(contents[source]))), argc)
          \/ ~ok /\ Fails
       /\ UNCHANGED <<heapVars, contents, inputs>>

\* What std::stof reads in a text is left open: some double, or none.
native_stof(argc) ==
    /\ \/ ObjectArg(argc, 0) # NoObject /\ \E f \in Floats : Returns(f, argc)
       \/ Fails
    /\ UNCHANGED <<heapVars, contents, inputs>>

native_get_argv(argc) ==
    /\ Returns(Pointer(m_program_argv_p, "sequence"), argc)
    /\ UNCHANGED <<heapVars, contents, inputs>>

-----------------------------------------------------------------------------
(* Engine::handle_native_call                                               *)

\* The offsets of the arguments a native looks at.
Offsets(name) ==
    CASE name \in {"prompt_int", "prompt_float", "readln", "get_argv"} -> {}
      [] name \in {"print", "len_of", "strlen", "stoi", "stof",
                   "list_pop_back", "list_pop_front"} -> {0}
      [] name \in {"list_push_back", "list_concat", "strcat"} -> {0, 1}
      [] name = "substr" -> {0, 1, 2}

\* The objects a native dereferences.
Dereferenced(name, argc) ==
    LET given == {ObjectArg(argc, k) : k \in Offsets(name)}
        lists == {v.obj : v \in {w \in {handle_native_fn_access(argc, 0)} :
                                   w.tag = "sequence"}}
    IN CASE name \in {"print", "prompt_int", "prompt_float", "readln", "get_argv"} -> {}
         [] name \in {"list_push_back", "list_pop_back", "list_pop_front"} -> lists
         [] name \in {"list_concat", "strcat"} ->
              IF NoObject \in given THEN {}
              ELSE IF name = "list_concat" /\ ~IsFlexible(ObjectArg(argc, 0))
                   THEN {ObjectArg(argc, 0)} ELSE given
         [] OTHER -> {ObjectArg(argc, 0)} \ {NoObject}

\* A list joined to itself grows under the loop that reads it.
JoinsItself(name, argc) ==
    /\ name \in {"list_concat", "strcat"}
    /\ ObjectArg(argc, 0) = ObjectArg(argc, 1)
    /\ ObjectArg(argc, 0) # NoObject
    /\ contents[ObjectArg(argc, 0)].items # <<>>
    /\ name = "list_concat" => IsFlexible(ObjectArg(argc, 0))
    /\ name = "strcat" => TagOf(ObjectArg(argc, 0)) = "string"

NativeUndefined(name, argc) ==
    \/ \E k \in Offsets(name) \cup {0} : BaseSlot(argc) + k \notin Regs
    \/ \E o \in Dereferenced(name, argc) : ~Alive(contents, o)
    \/ JoinsItself(name, argc)
    \/ /\ name \in {"print", "stoi", "stof"}
       /\ name # "print" => ObjectArg(argc, 0) # NoObject
       /\ ~Printable(contents, handle_native_fn_access(argc, 0))

NativeTerminates(name, argc) == name = "substr" /\ SliceThrows(argc)

Native(name, argc) ==
    \/ name = "print" /\ native_print_value(argc)
    \/ name = "prompt_int" /\ native_prompt(argc, {Int32(k) : k \in Ints})
    \/ name = "prompt_float" /\ native_prompt(argc, Floats)
    \/ name = "readln" /\ native_readln(argc)
    \/ name \in {"len_of", "strlen"} /\ native_len_of(argc)
    \/ name = "list_push_back" /\ native_list_push_back(argc)
    \/ name = "list_pop_back" /\ native_list_pop(argc, "back")
    \/ name = "list_pop_front" /\ native_list_pop(argc, "front")
    \/ name = "list_concat" /\ native_list_concat(argc)
    \/ name = "strcat" /\ native_strcat(argc)
    \/ name = "substr" /\ native_substr(argc)
    \/ name = "stoi" /\ native_stoi(argc)
    \/ name = "stof" /\ native_stof(argc)
    \/ name = "get_argv" /\ native_get_argv(argc)

handle_native_call ==
    /\ Fetched("native_call")
    /\ LET name == NativeTable[arg(1) + 1]
           argc == arg(2)
       IN IF NativeUndefined(name, argc) THEN Undefined
          ELSE IF NativeTerminates(name, argc) THEN Terminate
          ELSE /\ Native(name, argc)
               /\ Advance
               /\ UNCHANGED <<m_call_frames, m_rfi, m_rbp, program, fault>>
=============================================================================
