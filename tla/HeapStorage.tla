----------------------------- MODULE HeapStorage -----------------------------
(***************************************************************************)
(* The VM heap of src/src/runtime/heap_storage.{hpp,cpp}: a fixed vector   *)
(* of cells that own heap objects, a queue of the ids of freed cells, the  *)
(* next id never handed out, and the overhead score that makes the heap    *)
(* "ripe" for a collection.                                                *)
(*                                                                         *)
(* An object is an identity (the address a unique_ptr owns); what it holds *)
(* is the business of the modules that use the heap.                       *)
(***************************************************************************)
EXTENDS Addresses, Integers, Sequences, FiniteSets

CONSTANTS
    Capacity,      \* cm_normal_obj_capacity: the number of cells
    ObjOverhead,   \* cm_normal_obj_overhead: the score of one object
    GcThreshold,   \* cm_normal_gc_threshold: the score of a ripe heap
    Preloads       \* the string literals the compiler hands over

ASSUME HeapAssumption ==
    /\ Capacity \in Nat
    /\ ObjOverhead \in Nat \ {0}
    /\ GcThreshold \in Nat
    /\ NoObject \notin Object
    /\ Preloads \in Seq(Object)
    /\ Len(Preloads) <= Capacity
    /\ \A i, j \in 1..Len(Preloads) : Preloads[i] = Preloads[j] => i = j

VARIABLES m_objects, m_hole_list, m_next_id, m_overhead

heapVars == <<m_objects, m_hole_list, m_next_id, m_overhead>>

Cells == 0..(Capacity - 1)

OccupiedCells == {c \in Cells : m_objects[c] # NoObject}

\* The objects some cell owns: every other address is free or dangling.
Owned == {m_objects[c] : c \in OccupiedCells}

-----------------------------------------------------------------------------
(* The constructor that takes the preloaded string literals.               *)

HeapInit ==
    /\ m_objects = [c \in Cells |-> IF c < Len(Preloads)
                                      THEN Preloads[c + 1] ELSE NoObject]
    /\ m_hole_list = <<>>
    /\ m_overhead = Len(Preloads) * ObjOverhead
    /\ m_next_id = Len(Preloads)

is_ripe == m_overhead >= GcThreshold

-----------------------------------------------------------------------------
(* Allocation.  The oldest hole is reused first; without a hole the next   *)
(* fresh id is taken, whatever the size of the vector.                     *)

AllocatedId == IF m_hole_list # <<>> THEN Head(m_hole_list) ELSE m_next_id

\* Mutants of allocate_id: the hole is read but not popped; holes are never
\* reused; the id is incremented twice.
HoleNotPopped ==
    /\ m_next_id' = IF m_hole_list = <<>> THEN m_next_id + 1 ELSE m_next_id
    /\ UNCHANGED m_hole_list

HolesIgnored == m_next_id' = m_next_id + 1 /\ UNCHANGED m_hole_list

IdSkipped == m_next_id' = m_next_id + 2 /\ UNCHANGED m_hole_list

allocate_id ==
    \/ /\ m_hole_list # <<>>
       /\ m_hole_list' = Tail(m_hole_list)
       /\ UNCHANGED m_next_id
    \/ /\ m_hole_list = <<>>
       /\ m_next_id' = m_next_id + 1
       /\ UNCHANGED m_hole_list

\* The last try_create_value wrote past the end of the vector.  The code has
\* no check there; what follows is undefined, and no action follows.
OutOfBounds == m_next_id > Capacity

try_create_value(o) ==
    /\ ~OutOfBounds
    /\ o \notin Owned
    /\ allocate_id
    /\ \/ /\ AllocatedId \in Cells
          /\ m_objects' = [m_objects EXCEPT ![AllocatedId] = o]
          /\ m_overhead' = m_overhead + ObjOverhead
       \/ /\ AllocatedId \notin Cells
          /\ UNCHANGED <<m_objects, m_overhead>>

-----------------------------------------------------------------------------
(* Destruction: TRUE, FALSE are the two results of try_destroy_value.      *)

try_destroy_value(id, result) ==
    /\ ~OutOfBounds
    /\ result = (m_objects[id] # NoObject)
    /\ \/ /\ result
          /\ m_objects' = [m_objects EXCEPT ![id] = NoObject]
          /\ m_overhead' = m_overhead - ObjOverhead
          /\ m_hole_list' = Append(m_hole_list, id)
          /\ UNCHANGED m_next_id
       \/ /\ ~result
          /\ UNCHANGED heapVars

HeapNext ==
    \/ \E o \in Object : try_create_value(o)
    \/ \E id \in Cells, result \in BOOLEAN : try_destroy_value(id, result)

HeapSpec == HeapInit /\ [][HeapNext]_heapVars

-----------------------------------------------------------------------------
(* Properties *)

\* Type invariant of the heap's four fields.
HeapTypeOK ==
    /\ m_objects \in [Cells -> Object \cup {NoObject}]
    /\ m_hole_list \in Seq(Cells)
    /\ m_next_id \in 0..(Capacity + 1)
    /\ m_overhead \in Int

\* The hole queue lists exactly the emptied cells below the next id, each
\* once: allocate_id can neither hand out an occupied cell, nor hand out one
\* cell twice, nor lose a freed one (heap_storage.hpp, m_hole_list).
HolesAreEmptyCells ==
    /\ \A i \in DOMAIN m_hole_list :
          m_hole_list[i] < m_next_id /\ m_objects[m_hole_list[i]] = NoObject
    /\ \A i, j \in DOMAIN m_hole_list :
          m_hole_list[i] = m_hole_list[j] => i = j
    /\ \A c \in Cells : c < m_next_id /\ m_objects[c] = NoObject
                          => \E i \in DOMAIN m_hole_list : m_hole_list[i] = c

\* No cell at or above the next id has ever been written.
FreshCellsEmpty == \A c \in Cells : c >= m_next_id => m_objects[c] = NoObject

\* The score is that of the objects alive, so that is_ripe speaks of the heap
\* as it is: create and destroy keep it in step through any reuse of cells.
OverheadExact == m_overhead = ObjOverhead * Cardinality(OccupiedCells)

\* Two cells never own one object (a double free otherwise).
UniqueOwner ==
    \A c, d \in OccupiedCells : m_objects[c] = m_objects[d] => c = d

HeapInv ==
    /\ HeapTypeOK
    /\ HolesAreEmptyCells
    /\ FreshCellsEmpty
    /\ OverheadExact
    /\ UniqueOwner

\* A step never replaces the object of an occupied cell by another: the
\* assignment in try_create_value always lands on an empty unique_ptr.
CreateNeverOverwrites ==
    [][\A c \in OccupiedCells : m_objects'[c] \in {m_objects[c], NoObject}]_heapVars

\* What the class says of its size ("default memory capacity of VM heap",
\* heap_storage.hpp:15): an object is always placed inside the vector.
WithinCapacity == ~OutOfBounds

-----------------------------------------------------------------------------
(* Refinement *)

Pool == INSTANCE ObjectPool WITH
    Size <- Capacity,
    Initial <- {Preloads[i] : i \in DOMAIN Preloads},
    pool <- Owned,
    overflown <- OutOfBounds

\* The heap implements the abstract pool: cells, holes and ids are invisible,
\* and the vector is overrun only by a pool that is full.
ImplementsPool == Pool!Spec
=============================================================================
