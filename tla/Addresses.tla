------------------------------ MODULE Addresses ------------------------------
(***************************************************************************)
(* What the heap (HeapStorage) and the values (FastValue) both speak of: a *)
(* heap object is the address that a cell's unique_ptr owns and that a     *)
(* value points to.                                                        *)
(***************************************************************************)
CONSTANTS
    Object,        \* the addresses make_unique may return
    NoObject       \* the null pointer, and a cell's empty unique_ptr
=============================================================================
