------------------------------ MODULE Collector ------------------------------
(***************************************************************************)
(* Engine::try_mark_and_sweep (src/src/runtime/vm.cpp:211), one loop       *)
(* iteration at a time, together with the part of the running program      *)
(* that shapes the object graph it traverses: the handlers that create a   *)
(* list, push to it, overwrite a register and return from a function.      *)
(*                                                                         *)
(* A register and a list item are seen through to_object_ptr(): an object, *)
(* or NoObject for every other value (a val_ref included: it is not        *)
(* traced).                                                                *)
(***************************************************************************)
EXTENDS HeapStorage

CONSTANTS
    Registers,     \* size of m_memory
    MaxItems       \* bound: object pointers in all lists together

ASSUME CollectorAssumption == Registers \in Nat \ {0} /\ MaxItems \in Nat

VARIABLES
    m_memory,      \* the object each register refers to
    m_rft,         \* highest register the running frames have used
    items,         \* the objects each list holds (none once it is freed)
    phase,         \* "run", "roots", "mark", "sweep"
    frontier,      \* the queue of the traversal
    next_ptr,      \* the object whose items are being looked at, or NoObject
    visited,       \* the objects whose items have been looked at
    cursor,        \* abs_reg_id, the position in the items, or cell_id
    ub             \* a null or dangling pointer was dereferenced

gcVars == <<phase, frontier, next_ptr, visited, cursor, ub>>
mutatorVars == <<m_memory, m_rft, items>>
vars == <<heapVars, mutatorVars, gcVars>>

Regs == 0..(Registers - 1)

\* live_object_ptrs: an object enters it when it leaves the queue.
live == visited \cup ({next_ptr} \ {NoObject})

SeqRange(s) == {s[i] : i \in DOMAIN s}

Init ==
    /\ HeapInit
    /\ m_memory = [r \in Regs |-> NoObject]
    /\ m_rft = 0
    /\ items = [o \in Object |-> <<>>]
    /\ phase = "run"
    /\ frontier = <<>> /\ next_ptr = NoObject /\ visited = {} /\ cursor = 0
    /\ ub = FALSE

Running == phase = "run" /\ ~ub /\ ~OutOfBounds

-----------------------------------------------------------------------------
(* The running program *)

\* make_seq r: a new empty list; the top of the frames is not raised.
handle_make_seq(r) ==
    /\ Running
    /\ \E o \in Object :
          /\ try_create_value(o)
          /\ m_memory' = [m_memory EXCEPT ![r] = o]
          /\ items' = [items EXCEPT ![o] = <<>>]
    /\ UNCHANGED <<m_rft, gcVars>>

\* The places in lists that hold an object pointer.
Held == UNION {{<<o, i>> : i \in DOMAIN items[o]} : o \in Object}

\* seq_obj_push r s: dereferences the list pointer, whatever became of it.
handle_seq_obj_push(r, s) ==
    /\ Running
    /\ m_memory[r] # NoObject
    /\ \/ /\ m_memory[r] \in Owned
          /\ Cardinality(Held) < MaxItems
          /\ items' = IF m_memory[s] = NoObject THEN items
                      ELSE [items EXCEPT ![m_memory[r]] = Append(@, m_memory[s])]
          /\ UNCHANGED ub
       \/ /\ m_memory[r] \notin Owned
          /\ ub' = TRUE
          /\ UNCHANGED items
    /\ UNCHANGED <<heapVars, m_memory, m_rft, phase, frontier, next_ptr, visited, cursor>>

\* mov r v: v is a copied reference or a primitive; raises the top.
handle_mov(r, v) ==
    /\ Running
    /\ m_memory' = [m_memory EXCEPT ![r] = v]
    /\ m_rft' = IF r > m_rft THEN r ELSE m_rft
    /\ UNCHANGED <<heapVars, items, gcVars>>

\* ret: the caller's top of frames comes back, then a ripe heap is collected.
handle_ret(top) ==
    /\ Running
    /\ m_rft' = top
    /\ phase' = IF is_ripe THEN "roots" ELSE "run"
    /\ UNCHANGED <<heapVars, m_memory, items, frontier, next_ptr, visited, cursor, ub>>

-----------------------------------------------------------------------------
(* The collection: roots *)

\* Mutants: the scan stops before m_rft; the scan takes every register there
\* is; null pointers are queued too.
RootsBelowTop == 0..(m_rft - 1)
EveryRegister == Regs
NullsToo(p) == TRUE

RootRegisters == 0..m_rft

IsObject(p) == p # NoObject

ScanRegister ==
    /\ phase = "roots"
    /\ cursor \in RootRegisters
    /\ frontier' = IF IsObject(m_memory[cursor])
                     THEN Append(frontier, m_memory[cursor]) ELSE frontier
    /\ cursor' = cursor + 1
    /\ UNCHANGED <<heapVars, mutatorVars, phase, next_ptr, visited, ub>>

RootsDone ==
    /\ phase = "roots"
    /\ cursor \notin RootRegisters
    /\ phase' = "mark" /\ cursor' = 0
    /\ UNCHANGED <<heapVars, mutatorVars, frontier, next_ptr, visited, ub>>

-----------------------------------------------------------------------------
(* The collection: breadth-first traversal *)

\* Mutant: the front of the queue is read but stays there.
FrontStays == frontier

Popped == Tail(frontier)

\* The front of the queue is marked; reading the tag of a freed object is
\* undefined.
Visit ==
    /\ phase = "mark" /\ ~ub
    /\ next_ptr = NoObject
    /\ frontier # <<>>
    /\ next_ptr' = Head(frontier)
    /\ frontier' = Popped
    /\ ub' = (Head(frontier) \notin Owned)
    /\ UNCHANGED <<heapVars, mutatorVars, phase, visited, cursor>>

Queued(p) == p \notin visited

ScanItem ==
    /\ phase = "mark" /\ ~ub
    /\ next_ptr # NoObject
    /\ cursor < Len(items[next_ptr])
    /\ LET item_obj_ptr == items[next_ptr][cursor + 1]
       IN frontier' = IF Queued(item_obj_ptr)
                        THEN Append(frontier, item_obj_ptr) ELSE frontier
    /\ cursor' = cursor + 1
    /\ UNCHANGED <<heapVars, mutatorVars, phase, next_ptr, visited, ub>>

ItemsDone ==
    /\ phase = "mark" /\ ~ub
    /\ next_ptr # NoObject
    /\ cursor >= Len(items[next_ptr])
    /\ visited' = visited \cup {next_ptr}
    /\ next_ptr' = NoObject /\ cursor' = 0
    /\ UNCHANGED <<heapVars, mutatorVars, phase, frontier, ub>>

MarkDone ==
    /\ phase = "mark" /\ ~ub
    /\ next_ptr = NoObject
    /\ frontier = <<>>
    /\ phase' = "sweep"
    /\ UNCHANGED <<heapVars, mutatorVars, frontier, next_ptr, visited, cursor, ub>>

-----------------------------------------------------------------------------
(* The collection: scan of the cells *)

\* Mutant: the cell is emptied past try_destroy_value and its bookkeeping.
DropCell(c) ==
    /\ m_objects' = [m_objects EXCEPT ![c] = NoObject]
    /\ UNCHANGED <<m_hole_list, m_next_id, m_overhead>>

\* Mutant: the scan consults the traversal's result.
DestroyUnmarked(c) ==
    \/ m_objects[c] \in live /\ UNCHANGED heapVars
    \/ m_objects[c] \notin live /\ try_destroy_value(c, TRUE)

\* An owned object's tag is never dud, and its cell is never refused.
SweepCell(c) == try_destroy_value(c, TRUE)

\* One round of the scan: the tag is read through the cell's pointer, which is
\* null when the cell is empty; the result of the traversal plays no part.
Sweep ==
    /\ phase = "sweep" /\ ~ub
    /\ cursor \in Cells
    /\ \/ /\ m_objects[cursor] = NoObject
          /\ ub' = TRUE
          /\ UNCHANGED <<heapVars, items, cursor>>
       \/ /\ m_objects[cursor] # NoObject
          /\ SweepCell(cursor)
          /\ items' = [o \in Object |-> IF o \in Owned' THEN items[o] ELSE <<>>]
          /\ cursor' = cursor + 1
          /\ UNCHANGED ub
    /\ UNCHANGED <<m_memory, m_rft, phase, frontier, next_ptr, visited>>

SweepDone ==
    /\ phase = "sweep" /\ ~ub
    /\ cursor = Capacity
    /\ phase' = "run" /\ visited' = {} /\ cursor' = 0     \* locals of the call
    /\ UNCHANGED <<heapVars, mutatorVars, frontier, next_ptr, ub>>

-----------------------------------------------------------------------------

Collect ==
    \/ ScanRegister \/ RootsDone
    \/ Visit \/ ScanItem \/ ItemsDone \/ MarkDone
    \/ Sweep \/ SweepDone

Next ==
    \/ \E r \in Regs : handle_make_seq(r)
    \/ \E r, s \in Regs : handle_seq_obj_push(r, s)
    \/ \E r, s \in Regs : handle_mov(r, m_memory[s])
    \/ \E r \in Regs : handle_mov(r, NoObject)
    \/ \E top \in 0..m_rft : handle_ret(top)
    \/ Collect

Spec == Init /\ [][Next]_vars

\* The collector is straight-line code in the VM's only thread: once entered,
\* its loops go on.  Nothing makes the program itself go on.
FairSpec == Spec /\ WF_vars(Collect)

-----------------------------------------------------------------------------
(* Properties *)

\* Type invariant of the collector and of the registers and lists it reads.
TypeOK ==
    /\ HeapTypeOK
    /\ m_memory \in [Regs -> Object \cup {NoObject}]
    /\ m_rft \in Regs
    /\ items \in [Object -> Seq(Object)]
    /\ phase \in {"run", "roots", "mark", "sweep"}
    /\ frontier \in Seq(Object)
    /\ next_ptr \in Object \cup {NoObject}
    /\ visited \subseteq Object
    /\ cursor \in Nat
    /\ ub \in BOOLEAN

Roots == {m_memory[r] : r \in 0..m_rft} \ {NoObject}

\* The traversal is over and the scan has not destroyed anything yet.
Marked == phase = "sweep" /\ cursor = 0

Closed(S) == \A o \in S : SeqRange(items[o]) \subseteq S

\* Nothing is marked, or waits to be marked, that the registers up to m_rft do
\* not reach: each set closed under list items that holds the roots holds it.
MarkedAreReachable ==
    phase \in {"roots", "mark"} \/ Marked =>
        \A S \in SUBSET Object :
            Roots \subseteq S /\ Closed(S) => live \cup SeqRange(frontier) \subseteq S

\* When the traversal ends it has missed nothing, although the graph may have
\* cycles and shared lists and an object may wait in the queue several times.
ReachableAreMarked ==
    Marked => Roots \subseteq live /\ Closed(live)

\* A scan that reaches the end has emptied the whole heap, and it found the
\* heap full: the score is back to zero and every cell is a hole.
CollectionIsTotal ==
    [][phase = "sweep" /\ phase' = "run" =>
          /\ Owned = {} /\ m_overhead = 0
          /\ SeqRange(m_hole_list) = Cells]_vars

\* The heap's own bookkeeping survives the program and the scan together.
HeapStaysSound == HolesAreEmptyCells /\ OverheadExact

\* The traversal ends, cycles or not, unless it meets a dangling register.
MarkEnds == phase = "roots" ~> phase = "sweep" \/ ub

\* vm.cpp:246 "Linearly scan through the heap cells for anything NOT in the
\* reachable set... If the value is unmarked, the VM can collect it": the scan
\* does not destroy a marked object.
SweepSparesMarked ==
    [][phase = "sweep" => live \cap Owned \subseteq Owned']_vars

\* heap_storage.hpp:21 "tracks freed object slots ... remaining between live
\* slots": the scan copes with the empty cells the heap says it may have.
SweepNeverFaults == phase = "sweep" => ~ub
=============================================================================
