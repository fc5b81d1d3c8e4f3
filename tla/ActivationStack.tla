--------------------------- MODULE ActivationStack ---------------------------
(***************************************************************************)
(* What calls and returns promise: a call suspends the caller, a return    *)
(* resumes the last one suspended right after its call, and while it is    *)
(* suspended nobody touches its registers below those of its callee.       *)
(***************************************************************************)
EXTENDS Integers, Sequences

VARIABLES
    control,       \* [func, ip, base, top] of the running function
    suspended,     \* its callers, outermost first: theirs, and a window of registers
    done           \* the outermost function has returned

stackVars == <<control, suspended, done>>

Init == suspended = <<>> /\ ~done

\* Calls: the callee starts at its first instruction.
Call ==
    /\ ~done
    /\ control'.ip = 0
    /\ Len(suspended') = Len(suspended) + 1
    /\ SubSeq(suspended', 1, Len(suspended)) = suspended
    /\ suspended'[Len(suspended')].control = [control EXCEPT !.ip = @ + 1]
    /\ UNCHANGED done

Return ==
    /\ ~done
    /\ suspended # <<>>
    /\ control' = suspended[Len(suspended)].control
    /\ suspended' = SubSeq(suspended, 1, Len(suspended) - 1)
    /\ UNCHANGED done

Finish == ~done /\ suspended = <<>> /\ done' /\ UNCHANGED suspended

\* The running function computes, in its own registers.
Local ==
    /\ ~done
    /\ control'.func = control.func /\ control'.base = control.base
    /\ UNCHANGED <<suspended, done>>

Spec == Init /\ [][Call \/ Return \/ Finish \/ Local]_stackVars
=============================================================================
