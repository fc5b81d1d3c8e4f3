------------------------------ MODULE ObjectPool ------------------------------
(***************************************************************************)
(* What the heap promises to the VM: a pool of at most Size objects.       *)
(* Creating adds an object that is not in the pool, destroying removes     *)
(* one, and only a full pool can overflow.                                 *)
(***************************************************************************)
EXTENDS Integers, FiniteSets

CONSTANTS Size, Object, Initial

VARIABLES pool, overflown

vars == <<pool, overflown>>

Init == pool = Initial /\ overflown = FALSE

Create(o) ==
    /\ ~overflown
    /\ o \notin pool
    /\ Cardinality(pool) < Size
    /\ pool' = pool \cup {o}
    /\ UNCHANGED overflown

Destroy(o) ==
    /\ ~overflown
    /\ o \in pool
    /\ pool' = pool \ {o}
    /\ UNCHANGED overflown

Overflow ==
    /\ ~overflown
    /\ Cardinality(pool) = Size
    /\ overflown' = TRUE
    /\ UNCHANGED pool

Next == Overflow \/ \E o \in Object : Create(o) \/ Destroy(o)

Spec == Init /\ [][Next]_vars
=============================================================================
