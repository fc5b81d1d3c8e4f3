--------------------------- MODULE CollectorProofs ---------------------------
(***************************************************************************)
(* The marking phase is exact, for any object graph, any number of cells   *)
(* and registers: what is marked is reachable, and all that is reachable   *)
(* is marked.  And neither the program nor the scan breaks the heap.       *)
(***************************************************************************)
EXTENDS Collector, HeapStorageProofs

\* The state of the traversal, typed.
GcTypeOK ==
    /\ m_memory \in [Regs -> Object \cup {NoObject}]
    /\ m_rft \in Regs
    /\ items \in [Object -> Seq(Object)]
    /\ frontier \in Seq(Object)
    /\ next_ptr \in Object \cup {NoObject}
    /\ visited \subseteq Object
    /\ cursor \in Nat
    /\ phase \in {"run", "roots", "mark", "sweep"}

\* The locals of a call that is not running are empty.
Idle ==
    /\ phase = "run" => frontier = <<>> /\ visited = {} /\ cursor = 0
    /\ phase = "roots" => visited = {}
    /\ phase = "sweep" => frontier = <<>>
    /\ phase # "mark" => next_ptr = NoObject
    /\ next_ptr = NoObject /\ phase = "mark" => cursor = 0

\* Marked or waiting in the queue.
Met == live \cup SeqRange(frontier)

\* The registers before the cursor are queued; once the scan of the registers
\* is over all roots are marked or queued, and the items of what was visited,
\* and those before the cursor, are too.
Covered ==
    /\ phase = "roots" =>
          \A r \in Regs : r < cursor /\ m_memory[r] # NoObject
                            => m_memory[r] \in SeqRange(frontier)
    /\ phase = "mark" =>
          /\ Roots \subseteq Met
          /\ \A o \in visited : SeqRange(items[o]) \subseteq Met
          /\ next_ptr # NoObject =>
                \A i \in 1..Len(items[next_ptr]) :
                    i <= cursor => items[next_ptr][i] \in Met

MarkInv ==
    /\ GcTypeOK
    /\ Idle
    /\ Covered
    /\ MarkedAreReachable
    /\ ReachableAreMarked

-----------------------------------------------------------------------------
(* Ranges of the sequences the traversal builds *)

\* Appending adds one element to a sequence's range.
LEMMA RangeAppend ==
    ASSUME NEW S, NEW s \in Seq(S), NEW e \in S
    PROVE  SeqRange(Append(s, e)) = SeqRange(s) \cup {e}
<1>1. /\ Len(s) \in Nat
      /\ DOMAIN s = 1..Len(s)
      /\ DOMAIN Append(s, e) = 1..(Len(s) + 1)
      /\ \A i \in 1..Len(s) : Append(s, e)[i] = s[i]
      /\ Append(s, e)[Len(s) + 1] = e
  BY AppendProperties, LenProperties
<1>2. \A i \in 1..(Len(s) + 1) : i \in 1..Len(s) \/ i = Len(s) + 1
  BY <1>1
<1>3. Len(s) + 1 \in 1..(Len(s) + 1) /\ 1..Len(s) \subseteq 1..(Len(s) + 1)
  BY <1>1
<1> QED
  BY <1>1, <1>2, <1>3 DEF SeqRange

\* Taking the head off a sequence leaves no element it did not have, and none
\* is lost but the head.
LEMMA RangeTail ==
    ASSUME NEW S, NEW s \in Seq(S), s # <<>>
    PROVE  /\ SeqRange(s) = {Head(s)} \cup SeqRange(Tail(s))
           /\ Head(s) \in S /\ Tail(s) \in Seq(S)
<1>1. /\ Len(s) \in Nat \ {0}
      /\ DOMAIN s = 1..Len(s)
      /\ Head(s) = s[1] /\ Head(s) \in S
      /\ Tail(s) \in Seq(S)
      /\ Len(Tail(s)) = Len(s) - 1
      /\ DOMAIN Tail(s) = 1..(Len(s) - 1)
      /\ \A i \in 1..(Len(s) - 1) : Tail(s)[i] = s[i + 1]
  BY HeadTailProperties, LenProperties, EmptySeq
<1>2. SeqRange(s) \subseteq {Head(s)} \cup SeqRange(Tail(s))
  <2> SUFFICES ASSUME NEW i \in 1..Len(s)
               PROVE  s[i] \in {Head(s)} \cup SeqRange(Tail(s))
    BY <1>1 DEF SeqRange
  <2>1. CASE i = 1
    BY <1>1, <2>1
  <2>2. CASE i # 1
    <3>1. i - 1 \in 1..(Len(s) - 1) /\ (i - 1) + 1 = i
      BY <1>1, <2>2
    <3> QED
      BY <1>1, <3>1 DEF SeqRange
  <2> QED
    BY <2>1, <2>2
<1>3. {Head(s)} \cup SeqRange(Tail(s)) \subseteq SeqRange(s)
  <2>1. 1 \in DOMAIN s
    BY <1>1
  <2>2. \A i \in 1..(Len(s) - 1) : i + 1 \in DOMAIN s
    BY <1>1
  <2> QED
    BY <1>1, <2>1, <2>2 DEF SeqRange
<1> QED
  BY <1>1, <1>2, <1>3

\* An element read at a position is in the range.
LEMMA ElementInRange ==
    ASSUME NEW S, NEW s \in Seq(S), NEW i \in 1..Len(s)
    PROVE  s[i] \in SeqRange(s) /\ s[i] \in S
<1>1. DOMAIN s = 1..Len(s)
  BY LenProperties
<1>2. s[i] \in S
  BY ElementOfSeq
<1>3. s[i] \in SeqRange(s)
  BY <1>1 DEF SeqRange
<1> QED
  BY <1>2, <1>3

\* An element of the range is read at some position.
LEMMA RangeHasIndex ==
    ASSUME NEW S, NEW s \in Seq(S), NEW x \in SeqRange(s)
    PROVE  \E i \in 1..Len(s) : x = s[i]
<1>1. DOMAIN s = 1..Len(s)
  BY LenProperties
<1> QED
  BY <1>1 DEF SeqRange

\* The empty sequence has no elements.
LEMMA RangeEmpty == SeqRange(<<>>) = {}
  BY DEF SeqRange

-----------------------------------------------------------------------------
(* One lemma per step *)

\* The machine starts outside a collection, with nothing marked.
LEMMA InitMark == Init => MarkInv
<1> SUFFICES ASSUME Init PROVE MarkInv
  OBVIOUS
<1>1. GcTypeOK
  BY CollectorAssumption DEF Init, GcTypeOK, Regs
<1>2. Idle /\ Covered /\ MarkedAreReachable /\ ReachableAreMarked
  BY DEF Init, Idle, Covered, MarkedAreReachable, ReachableAreMarked, Marked
<1> QED
  BY <1>1, <1>2 DEF MarkInv

\* The running program never touches the state of the traversal.
LEMMA MutatorMark ==
    ASSUME MarkInv,
           \/ \E r \in Regs : handle_make_seq(r)
           \/ \E r, s \in Regs : handle_seq_obj_push(r, s)
           \/ \E r, s \in Regs : handle_mov(r, m_memory[s])
           \/ \E r \in Regs : handle_mov(r, NoObject)
    PROVE  MarkInv'
<1> USE DEF MarkInv
<1>1. phase = "run" /\ UNCHANGED <<phase, frontier, next_ptr, visited, cursor>>
  BY DEF handle_make_seq, handle_seq_obj_push, handle_mov, Running, gcVars
<1>2. m_memory' \in [Regs -> Object \cup {NoObject}]
  BY DEF handle_make_seq, handle_seq_obj_push, handle_mov, GcTypeOK
<1>3. m_rft' \in Regs
  BY DEF handle_make_seq, handle_seq_obj_push, handle_mov, GcTypeOK
<1>4. items' \in [Object -> Seq(Object)]
  <2>1. ASSUME NEW r \in Regs, handle_make_seq(r)
        PROVE  items' \in [Object -> Seq(Object)]
    BY <2>1 DEF handle_make_seq, GcTypeOK
  <2>2. ASSUME NEW r \in Regs, NEW s \in Regs, handle_seq_obj_push(r, s)
        PROVE  items' \in [Object -> Seq(Object)]
    <3>1. CASE items' = items
      BY <3>1 DEF GcTypeOK
    <3>2. CASE /\ items' = [items EXCEPT ![m_memory[r]] = Append(@, m_memory[s])]
               /\ m_memory[s] # NoObject
      <4>1. m_memory[r] \in Object /\ m_memory[s] \in Object
        BY <2>2, <3>2 DEF handle_seq_obj_push, GcTypeOK
      <4>2. Append(items[m_memory[r]], m_memory[s]) \in Seq(Object)
        BY <4>1, AppendProperties DEF GcTypeOK
      <4> QED
        BY <3>2, <4>1, <4>2 DEF GcTypeOK
    <3> QED
      BY <2>2, <3>1, <3>2 DEF handle_seq_obj_push
  <2>3. ASSUME NEW r \in Regs, NEW v, handle_mov(r, v)
        PROVE  items' \in [Object -> Seq(Object)]
    BY <2>3 DEF handle_mov, GcTypeOK
  <2> QED
    BY <2>1, <2>2, <2>3
<1>5. GcTypeOK'
  BY <1>1, <1>2, <1>3, <1>4 DEF GcTypeOK, Regs
<1>6. Idle' /\ Covered' /\ MarkedAreReachable' /\ ReachableAreMarked'
  BY <1>1 DEF Idle, Covered, MarkedAreReachable, ReachableAreMarked, Marked
<1> QED
  BY <1>5, <1>6

\* A return enters the scan of the registers with an empty queue (vm.cpp:215).
LEMMA ReturnMark ==
    ASSUME MarkInv, NEW top \in 0..m_rft, handle_ret(top)
    PROVE  MarkInv'
<1> USE DEF MarkInv
<1>1. /\ phase = "run" /\ phase' \in {"run", "roots"}
      /\ m_rft' = top
      /\ UNCHANGED <<m_memory, items, frontier, next_ptr, visited, cursor>>
  BY DEF handle_ret, Running
<1>2. GcTypeOK'
  BY <1>1, CollectorAssumption DEF GcTypeOK, Regs
<1>3. Idle'
  BY <1>1 DEF Idle
<1>4. Covered'
  BY <1>1, CollectorAssumption DEF Covered, Idle, Regs
<1>5. MarkedAreReachable' /\ ReachableAreMarked'
  <2>1. live' = {} /\ SeqRange(frontier') = {}
    BY <1>1, RangeEmpty DEF live, Idle
  <2> QED
    BY <1>1, <2>1 DEF MarkedAreReachable, ReachableAreMarked, Marked
<1> QED
  BY <1>2, <1>3, <1>4, <1>5

\* One round of the scan of the registers (vm.cpp:220).
LEMMA ScanRegisterMark ==
    ASSUME MarkInv, ScanRegister
    PROVE  MarkInv'
<1> USE DEF MarkInv
<1>1. /\ phase = "roots" /\ phase' = "roots"
      /\ cursor \in 0..m_rft /\ cursor' = cursor + 1
      /\ UNCHANGED <<m_memory, m_rft, items, next_ptr, visited>>
  BY DEF ScanRegister, RootRegisters, mutatorVars
<1>2. cursor \in Regs
  BY <1>1, CollectorAssumption DEF GcTypeOK, Regs
<1>3. CASE m_memory[cursor] = NoObject
  <2>1. frontier' = frontier
    BY <1>3 DEF ScanRegister, IsObject
  <2>2. GcTypeOK' /\ Idle'
    BY <1>1, <2>1 DEF GcTypeOK, Idle, Regs
  <2>3. Covered'
    BY <1>1, <1>3, <2>1 DEF Covered, GcTypeOK, Regs
  <2>4. MarkedAreReachable' /\ ReachableAreMarked'
    BY <1>1, <2>1 DEF MarkedAreReachable, ReachableAreMarked, Marked, Roots, Closed, live
  <2> QED
    BY <2>2, <2>3, <2>4
<1>4. CASE m_memory[cursor] # NoObject
  <2>1. m_memory[cursor] \in Object
    BY <1>2, <1>4 DEF GcTypeOK
  <2>2. frontier' = Append(frontier, m_memory[cursor])
    BY <1>4 DEF ScanRegister, IsObject
  <2>3. /\ frontier' \in Seq(Object)
        /\ SeqRange(frontier') = SeqRange(frontier) \cup {m_memory[cursor]}
    BY <2>1, <2>2, AppendProperties, RangeAppend DEF GcTypeOK
  <2>4. GcTypeOK' /\ Idle'
    BY <1>1, <2>3 DEF GcTypeOK, Idle, Regs
  <2>5. Covered'
    BY <1>1, <2>3 DEF Covered, GcTypeOK, Regs
  <2>6. m_memory[cursor] \in Roots
    BY <1>1, <1>4 DEF Roots
  <2>7. live' = live /\ Roots' = Roots
    BY <1>1 DEF live, Roots
  <2>8. MarkedAreReachable' /\ ReachableAreMarked'
    BY <1>1, <2>3, <2>6, <2>7
    DEF MarkedAreReachable, ReachableAreMarked, Marked, Closed
  <2> QED
    BY <2>4, <2>5, <2>8
<1> QED
  BY <1>3, <1>4

\* When the scan of the registers is over every root waits in the queue.
LEMMA RootsDoneMark ==
    ASSUME MarkInv, RootsDone
    PROVE  MarkInv'
<1> USE DEF MarkInv
<1>1. /\ phase = "roots" /\ phase' = "mark"
      /\ cursor \notin 0..m_rft /\ cursor' = 0
      /\ UNCHANGED <<m_memory, m_rft, items, frontier, next_ptr, visited>>
  BY DEF RootsDone, RootRegisters, mutatorVars
<1>2. GcTypeOK' /\ Idle'
  BY <1>1 DEF GcTypeOK, Idle, Regs
<1>3. live' = live /\ Roots' = Roots /\ SeqRange(frontier') = SeqRange(frontier)
  BY <1>1 DEF live, Roots
<1>4. Roots \subseteq SeqRange(frontier)
  <2>1. \A r \in 0..m_rft : r \in Regs /\ r < cursor
    BY <1>1, CollectorAssumption DEF GcTypeOK, Regs
  <2> QED
    BY <1>1, <2>1 DEF Covered, Roots
<1>5. Covered'
  BY <1>1, <1>3, <1>4 DEF Covered, Idle, Met
<1>6. MarkedAreReachable' /\ ReachableAreMarked'
  BY <1>1, <1>3 DEF MarkedAreReachable, ReachableAreMarked, Marked, Closed
<1> QED
  BY <1>2, <1>5, <1>6

\* Marking the front of the queue (vm.cpp:228).
LEMMA VisitMark ==
    ASSUME MarkInv, Visit
    PROVE  MarkInv'
<1> USE DEF MarkInv
<1>1. /\ phase = "mark" /\ phase' = "mark"
      /\ next_ptr = NoObject /\ next_ptr' = Head(frontier)
      /\ frontier # <<>> /\ frontier' = Tail(frontier)
      /\ UNCHANGED <<m_memory, m_rft, items, visited, cursor>>
  BY DEF Visit, Popped, mutatorVars
<1>2. /\ SeqRange(frontier) = {Head(frontier)} \cup SeqRange(frontier')
      /\ Head(frontier) \in Object /\ frontier' \in Seq(Object)
  BY <1>1, RangeTail DEF GcTypeOK
<1>3. next_ptr' # NoObject
  BY <1>1, <1>2, HeapAssumption
<1>4. GcTypeOK' /\ Idle'
  BY <1>1, <1>2, <1>3 DEF GcTypeOK, Idle, Regs
<1>5. live = visited /\ live' = visited \cup {Head(frontier)} /\ Roots' = Roots
  BY <1>1, <1>3 DEF live, Roots
<1>6. Met' = Met
  BY <1>2, <1>5 DEF Met
<1>7. Covered'
  <2>1. cursor = 0
    BY <1>1 DEF Idle
  <2>2. \A i \in 1..Len(items'[next_ptr']) : ~(i <= cursor')
    BY <1>1, <2>1
  <2> QED
    BY <1>1, <1>5, <1>6, <2>2 DEF Covered
<1>8. MarkedAreReachable' /\ ReachableAreMarked'
  BY <1>1, <1>2, <1>5 DEF MarkedAreReachable, ReachableAreMarked, Marked, Closed
<1> QED
  BY <1>4, <1>7, <1>8

\* One item of the object being looked at (vm.cpp:236).
LEMMA ScanItemMark ==
    ASSUME MarkInv, ScanItem
    PROVE  MarkInv'
<1> USE DEF MarkInv
<1> DEFINE p == items[next_ptr][cursor + 1]
<1>1. /\ phase = "mark" /\ phase' = "mark"
      /\ next_ptr # NoObject /\ next_ptr \in Object
      /\ cursor < Len(items[next_ptr]) /\ cursor' = cursor + 1
      /\ UNCHANGED <<m_memory, m_rft, items, next_ptr, visited>>
      /\ frontier' = IF p \notin visited THEN Append(frontier, p) ELSE frontier
  BY DEF ScanItem, Queued, mutatorVars, GcTypeOK
<1>2. cursor \in Nat /\ items[next_ptr] \in Seq(Object) /\ frontier \in Seq(Object)
  BY <1>1 DEF GcTypeOK
<1>3. p \in Object /\ p \in SeqRange(items[next_ptr])
  <2>1. Len(items[next_ptr]) \in Nat
    BY <1>2, LenProperties
  <2>2. cursor + 1 \in 1..Len(items[next_ptr])
    BY <1>1, <1>2, <2>1
  <2> QED
    BY <1>2, <2>2, ElementInRange
<1>4. frontier' \in Seq(Object)
  BY <1>1, <1>2, <1>3, AppendProperties
<1> HIDE DEF p
<1>5. SeqRange(frontier') = IF p \notin visited THEN SeqRange(frontier) \cup {p}
                                                ELSE SeqRange(frontier)
  <2>1. SeqRange(Append(frontier, p)) = SeqRange(frontier) \cup {p}
    BY <1>2, <1>3, RangeAppend
  <2> QED
    BY <1>1, <2>1
<1>6. live' = live /\ Roots' = Roots /\ visited \subseteq live /\ next_ptr \in live
  BY <1>1 DEF live, Roots
<1>7. Met \subseteq Met' /\ p \in Met'
  BY <1>5, <1>6 DEF Met
<1>8. GcTypeOK' /\ Idle'
  BY <1>1, <1>2, <1>4 DEF GcTypeOK, Idle, Regs
<1>9. Covered'
  <2>1. Roots' \subseteq Met' /\ \A o \in visited' : SeqRange(items'[o]) \subseteq Met'
    BY <1>1, <1>6, <1>7 DEF Covered
  <2>2. ASSUME NEW i \in 1..Len(items[next_ptr]), i <= cursor + 1
        PROVE  items[next_ptr][i] \in Met'
    <3>1. CASE i <= cursor
      BY <1>1, <1>7, <3>1 DEF Covered
    <3>2. CASE i = cursor + 1
      BY <1>7, <3>2 DEF p
    <3> QED
      BY <1>2, <2>2, <3>1, <3>2
  <2> QED
    BY <1>1, <2>1, <2>2 DEF Covered
<1>10. MarkedAreReachable' /\ ReachableAreMarked'
  BY <1>1, <1>3, <1>5, <1>6 DEF MarkedAreReachable, ReachableAreMarked, Marked, Closed
<1> QED
  BY <1>8, <1>9, <1>10

\* When the items of an object are done, they are all marked or queued.
LEMMA ItemsDoneMark ==
    ASSUME MarkInv, ItemsDone
    PROVE  MarkInv'
<1> USE DEF MarkInv
<1>1. /\ phase = "mark" /\ phase' = "mark"
      /\ next_ptr # NoObject /\ next_ptr \in Object /\ next_ptr' = NoObject
      /\ cursor >= Len(items[next_ptr]) /\ cursor' = 0
      /\ visited' = visited \cup {next_ptr}
      /\ UNCHANGED <<m_memory, m_rft, items, frontier>>
  BY DEF ItemsDone, mutatorVars, GcTypeOK
<1>2. GcTypeOK' /\ Idle'
  BY <1>1 DEF GcTypeOK, Idle, Regs
<1>3. live' = live /\ Roots' = Roots /\ Met' = Met
  BY <1>1 DEF live, Roots, Met
<1>4. SeqRange(items[next_ptr]) \subseteq Met
  <2>1. items[next_ptr] \in Seq(Object) /\ cursor \in Nat
    BY <1>1 DEF GcTypeOK
  <2>2. Len(items[next_ptr]) \in Nat
    BY <2>1, LenProperties
  <2>3. \A i \in 1..Len(items[next_ptr]) : items[next_ptr][i] \in Met
    BY <1>1, <2>1, <2>2 DEF Covered
  <2>4. \A x \in SeqRange(items[next_ptr]) :
           \E i \in 1..Len(items[next_ptr]) : x = items[next_ptr][i]
    BY <2>1, RangeHasIndex
  <2> QED
    BY <2>3, <2>4
<1>5. Covered'
  BY <1>1, <1>3, <1>4 DEF Covered
<1>6. MarkedAreReachable' /\ ReachableAreMarked'
  BY <1>1, <1>3 DEF MarkedAreReachable, ReachableAreMarked, Marked, Closed
<1> QED
  BY <1>2, <1>5, <1>6

\* With nothing left in the queue, the marked set is closed.
LEMMA MarkDoneMark ==
    ASSUME MarkInv, MarkDone
    PROVE  MarkInv'
<1> USE DEF MarkInv
<1>1. /\ phase = "mark" /\ phase' = "sweep"
      /\ next_ptr = NoObject /\ frontier = <<>>
      /\ UNCHANGED <<m_memory, m_rft, items, frontier, next_ptr, visited, cursor>>
  BY DEF MarkDone, mutatorVars
<1>2. GcTypeOK' /\ Idle'
  BY <1>1 DEF GcTypeOK, Idle, Regs
<1>3. Met = live /\ live = visited /\ live' = live /\ Roots' = Roots
  BY <1>1, RangeEmpty DEF Met, live, Roots
<1>4. Covered'
  BY <1>1 DEF Covered
<1>5. Roots \subseteq live /\ Closed(live)
  BY <1>1, <1>3 DEF Covered, Closed
<1>6. MarkedAreReachable' /\ ReachableAreMarked'
  BY <1>1, <1>3, <1>5 DEF MarkedAreReachable, ReachableAreMarked, Closed
<1> QED
  BY <1>2, <1>4, <1>6

\* One round of the scan of the cells (vm.cpp:248): what it destroys is no
\* longer Marked's concern.
LEMMA SweepMark ==
    ASSUME MarkInv, Sweep
    PROVE  MarkInv'
<1> USE DEF MarkInv
<1>1. /\ phase = "sweep" /\ phase' = "sweep"
      /\ UNCHANGED <<m_memory, m_rft, frontier, next_ptr, visited>>
      /\ \/ UNCHANGED <<items, cursor>>
         \/ /\ cursor' = cursor + 1
            /\ items' = [o \in Object |-> IF o \in Owned' THEN items[o] ELSE <<>>]
  BY DEF Sweep
<1>2. items' \in [Object -> Seq(Object)] /\ cursor' \in Nat
  <2>1. <<>> \in Seq(Object)
    BY EmptySeq
  <2>2. CASE UNCHANGED <<items, cursor>>
    BY <2>2 DEF GcTypeOK
  <2>3. CASE /\ cursor' = cursor + 1
             /\ items' = [o \in Object |-> IF o \in Owned' THEN items[o] ELSE <<>>]
    <3> DEFINE kept(o) == IF o \in Owned' THEN items[o] ELSE <<>>
    <3>1. \A o \in Object : kept(o) \in Seq(Object)
      BY <2>1 DEF GcTypeOK
    <3>2. items' = [o \in Object |-> kept(o)]
      BY <2>3
    <3> HIDE DEF kept
    <3>3. items' \in [Object -> Seq(Object)]
      BY <3>1, <3>2
    <3>4. cursor' \in Nat
      BY <2>3 DEF GcTypeOK
    <3> QED
      BY <3>3, <3>4
  <2> QED
    BY <1>1, <2>2, <2>3
<1>3. GcTypeOK' /\ Idle' /\ Covered'
  BY <1>1, <1>2 DEF GcTypeOK, Idle, Covered, Regs
<1>4. live' = live /\ Roots' = Roots
  BY <1>1 DEF live, Roots
<1>5. Marked' => Marked /\ UNCHANGED items
  BY <1>1 DEF Marked, GcTypeOK
<1>6. MarkedAreReachable' /\ ReachableAreMarked'
  BY <1>1, <1>4, <1>5 DEF MarkedAreReachable, ReachableAreMarked, Marked, Closed
<1> QED
  BY <1>3, <1>6

\* The end of the collection forgets the marks.
LEMMA SweepDoneMark ==
    ASSUME MarkInv, SweepDone
    PROVE  MarkInv'
  BY DEF MarkInv, SweepDone, mutatorVars, GcTypeOK, Regs, Idle, Covered,
         MarkedAreReachable, ReachableAreMarked, Marked

-----------------------------------------------------------------------------
(* Theorems *)

\* Any step of program or collector, or a stutter, preserves the invariant.
LEMMA NextMark == MarkInv /\ [Next]_vars => MarkInv'
<1>1. MarkInv /\ Next => MarkInv'
  BY MutatorMark, ReturnMark, ScanRegisterMark, RootsDoneMark, VisitMark,
     ScanItemMark, ItemsDoneMark, MarkDoneMark, SweepMark, SweepDoneMark
  DEF Next, Collect
<1>2. ASSUME MarkInv, UNCHANGED vars PROVE MarkInv'
  <2>1. UNCHANGED <<m_memory, m_rft, items, phase, frontier, next_ptr, visited, cursor>>
    BY <1>2 DEF vars, mutatorVars, gcVars
  <2>2. GcTypeOK' /\ Idle'
    BY <1>2, <2>1 DEF MarkInv, GcTypeOK, Idle, Regs
  <2>3. live' = live /\ Roots' = Roots /\ Met' = Met
    BY <2>1 DEF live, Roots, Met
  <2>4. Covered'
    BY <1>2, <2>1, <2>3 DEF MarkInv, Covered
  <2>5. MarkedAreReachable' /\ ReachableAreMarked'
    BY <1>2, <2>1, <2>3
    DEF MarkInv, MarkedAreReachable, ReachableAreMarked, Marked, Closed
  <2> QED
    BY <2>2, <2>4, <2>5 DEF MarkInv
<1> QED
  BY <1>1, <1>2

\* The traversal marks nothing that the registers do not reach (vm.cpp:220).
THEOREM MarkingSound == Spec => []MarkedAreReachable
<1>1. MarkInv => MarkedAreReachable
  BY DEF MarkInv
<1> QED
  BY <1>1, InitMark, NextMark, PTL DEF Spec

\* The traversal marks everything the registers reach, through cycles and
\* shared lists (vm.cpp:226).
THEOREM MarkingComplete == Spec => []ReachableAreMarked
<1>1. MarkInv => ReachableAreMarked
  BY DEF MarkInv
<1> QED
  BY <1>1, InitMark, NextMark, PTL DEF Spec

\* Program and collection together use the heap as its specification allows.
THEOREM CollectorUsesHeap == Spec => HeapSpec
<1>1. Init => HeapInit
  BY DEF Init
<1>2. [Next]_vars => [HeapNext]_heapVars
  BY DEF Next, Collect, vars, HeapNext, handle_make_seq, handle_seq_obj_push, handle_mov,
         handle_ret, ScanRegister, RootsDone, Visit, ScanItem, ItemsDone, MarkDone,
         Sweep, SweepCell, SweepDone
<1> QED
  BY <1>1, <1>2, PTL DEF Spec, HeapSpec

\* So the heap's bookkeeping stays exact through any number of collections.
THEOREM HeapSoundUnderCollection == Spec => []HeapStaysSound
<1>1. HeapInv => HeapStaysSound
  BY DEF HeapInv, HeapStaysSound
<1> QED
  BY <1>1, CollectorUsesHeap, HeapSafety, PTL

\* The machine's registers, the objects' items and the collection's own variables keep
\* their types through every program and collection (vm.cpp:208).
THEOREM CollectorTypes == Spec => []TypeOK
<1> DEFINE Flag == ub \in BOOLEAN
<1>1. Init => Flag
  BY DEF Init
<1>2. Flag /\ [Next]_vars => Flag'
  BY DEF Next, Collect, vars, gcVars, handle_make_seq, handle_seq_obj_push, handle_mov,
         handle_ret, ScanRegister, RootsDone, Visit, ScanItem, ItemsDone, MarkDone,
         Sweep, SweepCell, SweepDone
<1>3. HeapInv /\ MarkInv /\ Flag => TypeOK
  BY DEF HeapInv, MarkInv, GcTypeOK, TypeOK
<1> QED
  BY <1>1, <1>2, <1>3, InitMark, NextMark, CollectorUsesHeap, HeapSafety, PTL DEF Spec

-----------------------------------------------------------------------------
(* The scan of the cells *)

\* Every cell the scan has passed is a hole.
Swept ==
    phase = "sweep" =>
        /\ cursor <= Capacity
        /\ \A c \in Cells : c < cursor => c \in SeqRange(m_hole_list)

\* The scan starts at the first cell and frees each in turn (vm.cpp:248); no other step
\* of the collection touches the heap.
LEMMA NextSwept ==
    ASSUME Swept, MarkInv, HeapInv, [Next]_vars
    PROVE  Swept'
<1> SUFFICES ASSUME phase' = "sweep" PROVE Swept'
  BY DEF Swept
<1>1. CASE MarkDone
  <2>1. cursor' = 0
    BY <1>1 DEF MarkDone, MarkInv, Idle
  <2>2. \A c \in Cells : ~(c < 0)
    BY HeapAssumption DEF Cells
  <2> QED
    BY <2>1, <2>2, HeapAssumption DEF Swept
<1>2. CASE Sweep
  <2>1. CASE UNCHANGED <<heapVars, cursor>>
    BY <1>2, <2>1 DEF Swept, Sweep, heapVars
  <2>2. CASE try_destroy_value(cursor, TRUE) /\ cursor' = cursor + 1
    <3>1. /\ m_hole_list \in Seq(Cells)
          /\ cursor \in Cells /\ cursor \in 0..(Capacity - 1)
          /\ m_hole_list' = Append(m_hole_list, cursor)
      BY <1>2, <2>2 DEF Sweep, try_destroy_value, HeapInv, HeapTypeOK, Cells
    <3>2. SeqRange(m_hole_list') = SeqRange(m_hole_list) \cup {cursor}
      BY <3>1, RangeAppend
    <3>3. phase = "sweep"
      BY <1>2 DEF Sweep
    <3>4. \A c \in Cells : c < cursor + 1 => c < cursor \/ c = cursor
      BY <3>1, HeapAssumption DEF Cells
    <3>5. cursor + 1 <= Capacity
      BY <3>1, HeapAssumption
    <3> QED
      BY <2>2, <3>2, <3>3, <3>4, <3>5 DEF Swept
  <2> QED
    BY <1>2, <2>1, <2>2 DEF Sweep, SweepCell
<1>3. CASE UNCHANGED vars
  BY <1>3 DEF Swept, vars, gcVars, heapVars
<1> QED
  BY <1>1, <1>2, <1>3
  DEF Next, Collect, handle_make_seq, handle_seq_obj_push, handle_mov, handle_ret,
      ScanRegister, RootsDone, Visit, ScanItem, ItemsDone, SweepDone, Running, gcVars

\* The first cell is an empty one for the scan to fault on, or the scan empties them all:
\* a collection that ends leaves no object, no score and a hole for every cell
\* (vm.cpp:246-255, where the result of the traversal plays no part).
THEOREM SweepEmptiesHeap == Spec => CollectionIsTotal
<1>1. Init => Swept
  BY DEF Init, Swept
<1>2. ASSUME Swept, MarkInv, HeapInv, [Next]_vars, phase = "sweep", phase' = "run"
      PROVE  /\ Owned = {} /\ m_overhead = 0
             /\ SeqRange(m_hole_list) = Cells
  <2>1. SweepDone
    BY <1>2 DEF Next, Collect, handle_make_seq, handle_seq_obj_push, handle_mov, handle_ret,
       ScanRegister, RootsDone, Visit, ScanItem, ItemsDone, MarkDone, Sweep, Running, vars, gcVars
  <2>2. \A c \in Cells : c \in SeqRange(m_hole_list)
    BY <1>2, <2>1, HeapAssumption DEF Swept, SweepDone, Cells
  <2>3. m_hole_list \in Seq(Cells)
    BY <1>2 DEF HeapInv, HeapTypeOK
  <2>4. SeqRange(m_hole_list) \subseteq Cells
    BY <2>3, RangeHasIndex, ElementInRange
  <2>5. OccupiedCells = {}
    BY <1>2, <2>2 DEF HeapInv, HolesAreEmptyCells, OccupiedCells, SeqRange
  <2>6. m_overhead = ObjOverhead * 0
    BY <1>2, <2>5, FS_EmptySet DEF HeapInv, OverheadExact
  <2> QED
    BY <2>2, <2>4, <2>5, <2>6, HeapAssumption DEF Owned
<1>3. Swept /\ MarkInv /\ HeapInv /\ [Next]_vars =>
         [phase = "sweep" /\ phase' = "run" =>
             /\ Owned = {} /\ m_overhead = 0
             /\ SeqRange(m_hole_list) = Cells]_vars
  BY <1>2
<1> QED
  BY <1>1, <1>3, NextSwept, InitMark, NextMark, CollectorUsesHeap, HeapSafety, PTL
  DEF Spec, CollectionIsTotal
=============================================================================
