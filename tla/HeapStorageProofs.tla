-------------------------- MODULE HeapStorageProofs --------------------------
(***************************************************************************)
(* The inductive invariant of the heap, and that the heap implements the   *)
(* pool, for every capacity, overhead and set of preloaded literals.       *)
(***************************************************************************)
EXTENDS HeapStorage, FiniteSetTheorems, SequenceTheorems, TLAPS

-----------------------------------------------------------------------------
\* The first n naturals are n in number.
LEMMA IntervalFromZero ==
    ASSUME NEW n \in Nat
    PROVE  IsFiniteSet(0..(n - 1)) /\ Cardinality(0..(n - 1)) = n
<1> DEFINE m == n - 1
<1>1. m \in Int /\ 0 \in Int
  OBVIOUS
<1> HIDE DEF m
<1>2. /\ IsFiniteSet(0..m)
      /\ Cardinality(0..m) = IF 0 > m THEN 0 ELSE m - 0 + 1
  BY <1>1, FS_Interval
<1> QED
  BY <1>2 DEF m

(* The constructor establishes the invariant. *)

\* The cells the constructor fills are those below the number of preloads.
LEMMA InitialCells ==
    HeapInit => OccupiedCells = 0..(Len(Preloads) - 1)
<1> SUFFICES ASSUME HeapInit PROVE OccupiedCells = 0..(Len(Preloads) - 1)
  OBVIOUS
<1>1. Len(Preloads) \in Nat /\ DOMAIN Preloads = 1..Len(Preloads)
  BY HeapAssumption, LenProperties
<1>2. ASSUME NEW c \in Cells, c < Len(Preloads)
      PROVE  m_objects[c] # NoObject
  <2>1. m_objects[c] = Preloads[c + 1]
    BY <1>2 DEF HeapInit
  <2>2. c + 1 \in 1..Len(Preloads)
    BY <1>1, <1>2, HeapAssumption DEF Cells
  <2> QED
    BY <2>1, <2>2, HeapAssumption, ElementOfSeq
<1>3. ASSUME NEW c \in Cells, ~(c < Len(Preloads))
      PROVE  m_objects[c] = NoObject
  BY <1>3 DEF HeapInit
<1> QED
  BY <1>1, <1>2, <1>3, HeapAssumption DEF OccupiedCells, Cells

\* The constructor establishes the inductive invariant.
LEMMA InitInv == HeapInit => HeapInv
<1> SUFFICES ASSUME HeapInit PROVE HeapInv
  OBVIOUS
<1>1. Len(Preloads) \in Nat
  BY HeapAssumption, LenProperties
<1>2. OccupiedCells = 0..(Len(Preloads) - 1)
  BY InitialCells
<1>3. HeapTypeOK
  <2>1. ASSUME NEW c \in Cells, c < Len(Preloads)
        PROVE  Preloads[c + 1] \in Object
    BY <2>1, <1>1, HeapAssumption, ElementOfSeq DEF Cells
  <2>2. Len(Preloads) * ObjOverhead \in Int
    BY <1>1, HeapAssumption
  <2> QED
    BY <1>1, <2>1, <2>2, HeapAssumption DEF HeapInit, HeapTypeOK
<1>4. HolesAreEmptyCells
  <2>1. m_hole_list = <<>> /\ DOMAIN m_hole_list = {}
    BY DEF HeapInit
  <2>2. ASSUME NEW c \in Cells, c < m_next_id
        PROVE  m_objects[c] # NoObject
    <3>1. c \in 0..(Len(Preloads) - 1)
      BY <1>1, <2>2, HeapAssumption DEF HeapInit, Cells
    <3> QED
      BY <1>2, <3>1 DEF OccupiedCells
  <2> QED
    BY <2>1, <2>2 DEF HolesAreEmptyCells
<1>5. FreshCellsEmpty
  BY <1>1, <1>2 DEF HeapInit, FreshCellsEmpty, OccupiedCells, Cells
<1>6. OverheadExact
  <2>1. Cardinality(0..(Len(Preloads) - 1)) = Len(Preloads)
    BY <1>1, IntervalFromZero
  <2> QED
    BY <1>1, <1>2, <2>1, HeapAssumption DEF HeapInit, OverheadExact
<1>7. UniqueOwner
  <2> SUFFICES ASSUME NEW c \in OccupiedCells, NEW d \in OccupiedCells,
                      m_objects[c] = m_objects[d]
               PROVE  c = d
    BY DEF UniqueOwner
  <2>1. c < Len(Preloads) /\ d < Len(Preloads) /\ c \in Cells /\ d \in Cells
    BY <1>1, <1>2, HeapAssumption DEF OccupiedCells, Cells
  <2>2. Preloads[c + 1] = Preloads[d + 1]
    BY <2>1 DEF HeapInit
  <2>3. c + 1 \in 1..Len(Preloads) /\ d + 1 \in 1..Len(Preloads)
    BY <1>1, <2>1, HeapAssumption DEF Cells
  <2>4. c + 1 = d + 1
    BY <2>2, <2>3, HeapAssumption
  <2> QED
    BY <2>1, <2>4, HeapAssumption DEF Cells
<1> QED
  BY <1>3, <1>4, <1>5, <1>6, <1>7 DEF HeapInv

-----------------------------------------------------------------------------
(* Allocation preserves it. *)

\* There are Capacity cells.
LEMMA CellsFinite == IsFiniteSet(Cells) /\ Cardinality(Cells) = Capacity
  BY IntervalFromZero, HeapAssumption DEF Cells

\* The occupied cells are finitely many, and at most Capacity.
LEMMA OccupiedFinite ==
    /\ IsFiniteSet(OccupiedCells)
    /\ Cardinality(OccupiedCells) \in Nat
    /\ Cardinality(OccupiedCells) <= Capacity
    /\ Cardinality(OccupiedCells) = Capacity => OccupiedCells = Cells
<1>1. OccupiedCells \subseteq Cells
  BY DEF OccupiedCells
<1> QED
  BY <1>1, CellsFinite, FS_Subset, FS_CardinalityType

\* allocate_id hands out an empty cell, or the first id past the vector.
LEMMA AllocatedIsEmpty ==
    ASSUME HeapInv, ~OutOfBounds
    PROVE  /\ AllocatedId \in Nat
           /\ AllocatedId \in Cells => m_objects[AllocatedId] = NoObject
           /\ AllocatedId \notin Cells => m_hole_list = <<>> /\ m_next_id = Capacity
<1> USE DEF HeapInv, HeapTypeOK
<1>1. CASE m_hole_list = <<>>
  BY <1>1, HeapAssumption DEF AllocatedId, OutOfBounds, FreshCellsEmpty, Cells
<1>2. CASE m_hole_list # <<>>
  <2>1. Head(m_hole_list) = m_hole_list[1] /\ 1 \in DOMAIN m_hole_list
    BY <1>2, LenProperties, EmptySeq
  <2>2. Head(m_hole_list) \in Cells
    BY <1>2, HeadTailProperties
  <2> QED
    BY <1>2, <2>1, <2>2 DEF AllocatedId, HolesAreEmptyCells, Cells
<1> QED
  BY <1>1, <1>2

\* The bookkeeping facts about one write to a cell, shared by create and destroy.
LEMMA OccupiedAfterCreate ==
    ASSUME HeapTypeOK, NEW a \in Cells, NEW o \in Object, m_objects[a] = NoObject,
           m_objects' = [m_objects EXCEPT ![a] = o]
    PROVE  /\ OccupiedCells' = OccupiedCells \cup {a}
           /\ Owned' = Owned \cup {o}
           /\ Cardinality(OccupiedCells') = Cardinality(OccupiedCells) + 1
<1>1. o # NoObject
  BY HeapAssumption
<1>2. \A c \in Cells : m_objects'[c] = IF c = a THEN o ELSE m_objects[c]
  BY DEF HeapTypeOK
<1>3. OccupiedCells' = OccupiedCells \cup {a}
  BY <1>1, <1>2 DEF OccupiedCells, Cells
<1>4. Owned' = Owned \cup {o}
  <2>1. \A c \in OccupiedCells : m_objects'[c] = m_objects[c] /\ c # a
    BY <1>2 DEF OccupiedCells
  <2>2. m_objects'[a] = o
    BY <1>2
  <2> QED
    BY <1>3, <2>1, <2>2 DEF Owned
<1>5. a \notin OccupiedCells
  BY DEF OccupiedCells
<1>6. Cardinality(OccupiedCells') = Cardinality(OccupiedCells) + 1
  BY <1>3, <1>5, OccupiedFinite, FS_AddElement
<1> QED
  BY <1>3, <1>4, <1>6

\* The same facts for a cell that try_destroy_value empties.
LEMMA OccupiedAfterDestroy ==
    ASSUME HeapTypeOK, NEW a \in Cells, m_objects[a] # NoObject,
           m_objects' = [m_objects EXCEPT ![a] = NoObject]
    PROVE  /\ OccupiedCells' = OccupiedCells \ {a}
           /\ UniqueOwner => Owned' = Owned \ {m_objects[a]}
           /\ Cardinality(OccupiedCells') = Cardinality(OccupiedCells) - 1
<1>1. \A c \in Cells : m_objects'[c] = IF c = a THEN NoObject ELSE m_objects[c]
  BY DEF HeapTypeOK
<1>2. OccupiedCells' = OccupiedCells \ {a}
  BY <1>1 DEF OccupiedCells, Cells
<1>3. a \in OccupiedCells
  BY DEF OccupiedCells
<1>4. UniqueOwner => Owned' = Owned \ {m_objects[a]}
  <2>1. \A c \in OccupiedCells \ {a} : m_objects'[c] = m_objects[c]
    BY <1>1 DEF OccupiedCells
  <2> QED
    BY <1>2, <1>3, <2>1 DEF Owned, UniqueOwner
<1>5. Cardinality(OccupiedCells') = Cardinality(OccupiedCells) - 1
  BY <1>2, <1>3, OccupiedFinite, FS_RemoveElement
<1> QED
  BY <1>2, <1>4, <1>5

\* try_create_value preserves the invariant when it reuses a hole, when it
\* takes a fresh cell and when it runs past the vector.
LEMMA CreateInv ==
    ASSUME HeapInv, NEW o \in Object, try_create_value(o)
    PROVE  HeapInv'
<1> USE DEF HeapInv
<1>0. ~OutOfBounds /\ o \notin Owned /\ Cells' = Cells
  BY DEF try_create_value, Cells
<1>a. AllocatedId \in Nat
  BY <1>0, AllocatedIsEmpty
<1>1. CASE AllocatedId \in Cells
  <2>1. /\ m_objects' = [m_objects EXCEPT ![AllocatedId] = o]
        /\ m_overhead' = m_overhead + ObjOverhead
        /\ m_objects[AllocatedId] = NoObject
    BY <1>0, <1>1, AllocatedIsEmpty DEF try_create_value
  <2>2. \A c \in Cells : m_objects'[c] = IF c = AllocatedId THEN o ELSE m_objects[c]
    BY <2>1 DEF HeapTypeOK
  <2>3. /\ OccupiedCells' = OccupiedCells \cup {AllocatedId}
        /\ Cardinality(OccupiedCells') = Cardinality(OccupiedCells) + 1
    BY <1>1, <2>1, OccupiedAfterCreate
  <2>4. OverheadExact'
    BY <2>1, <2>3, OccupiedFinite, HeapAssumption DEF OverheadExact
  <2>5. UniqueOwner'
    BY <1>0, <2>2, <2>3 DEF UniqueOwner, OccupiedCells, Owned
  <2>6. m_objects' \in [Cells -> Object \cup {NoObject}] /\ m_overhead' \in Int
    <3>1. m_objects \in [Cells -> Object \cup {NoObject}] /\ o \in Object \cup {NoObject}
      BY DEF HeapTypeOK
    <3>2. [m_objects EXCEPT ![AllocatedId] = o] \in [Cells -> Object \cup {NoObject}]
      BY <1>1, <3>1
    <3>3. m_overhead' \in Int
      BY <2>1, HeapAssumption DEF HeapTypeOK
    <3> QED
      BY <2>1, <3>2, <3>3
  <2>7. o # NoObject
    BY HeapAssumption
  <2>8. CASE m_hole_list # <<>>
    <3>1. /\ m_hole_list' = Tail(m_hole_list)
          /\ m_next_id' = m_next_id
          /\ AllocatedId = m_hole_list[1]
      BY <2>8 DEF try_create_value, allocate_id, AllocatedId
    <3>2. /\ m_hole_list' \in Seq(Cells)
          /\ Len(m_hole_list) \in Nat \ {0}
          /\ Len(m_hole_list') = Len(m_hole_list) - 1
          /\ \A i \in 1..Len(m_hole_list') : m_hole_list'[i] = m_hole_list[i + 1]
          /\ DOMAIN m_hole_list = 1..Len(m_hole_list)
          /\ DOMAIN m_hole_list' = 1..Len(m_hole_list')
      BY <2>8, <3>1, HeadTailProperties, LenProperties, EmptySeq DEF HeapTypeOK
    <3>3. \A i \in DOMAIN m_hole_list' :
              i + 1 \in DOMAIN m_hole_list /\ i + 1 # 1 /\ m_hole_list'[i] = m_hole_list[i + 1]
      BY <3>2
    <3>4. \A i \in DOMAIN m_hole_list' : m_hole_list'[i] # AllocatedId
      BY <3>1, <3>2, <3>3 DEF HolesAreEmptyCells
    <3>5. \A i \in DOMAIN m_hole_list' : m_hole_list'[i] \in Cells
      BY <3>2, ElementOfSeq
    <3>6. HeapTypeOK'
      BY <2>6, <3>1, <3>2 DEF HeapTypeOK, Cells
    <3>7. HolesAreEmptyCells'
      <4>1. \A i \in DOMAIN m_hole_list' :
               m_hole_list'[i] < m_next_id' /\ m_objects'[m_hole_list'[i]] = NoObject
        BY <2>2, <3>1, <3>3, <3>4, <3>5 DEF HolesAreEmptyCells
      <4>2. \A i, j \in DOMAIN m_hole_list' : m_hole_list'[i] = m_hole_list'[j] => i = j
        <5> SUFFICES ASSUME NEW i \in DOMAIN m_hole_list', NEW j \in DOMAIN m_hole_list',
                            m_hole_list'[i] = m_hole_list'[j]
                     PROVE  i = j
          OBVIOUS
        <5>1. i + 1 = j + 1
          BY <3>3 DEF HolesAreEmptyCells
        <5> QED
          BY <3>2, <5>1
      <4>3. ASSUME NEW c \in Cells, c < m_next_id', m_objects'[c] = NoObject
            PROVE  \E i \in DOMAIN m_hole_list' : m_hole_list'[i] = c
        <5>1. c # AllocatedId /\ m_objects[c] = NoObject
          BY <2>2, <2>7, <4>3
        <5>2. PICK k \in DOMAIN m_hole_list : m_hole_list[k] = c
          BY <3>1, <4>3, <5>1 DEF HolesAreEmptyCells
        <5>3. k # 1
          BY <3>1, <5>1, <5>2
        <5>4. k - 1 \in DOMAIN m_hole_list' /\ (k - 1) + 1 = k
          BY <3>2, <5>3
        <5> QED
          BY <3>3, <5>2, <5>4
      <4> QED
        BY <1>0, <4>1, <4>2, <4>3 DEF HolesAreEmptyCells
    <3>8. FreshCellsEmpty'
      <4>1. AllocatedId < m_next_id
        BY <3>1, <3>2 DEF HolesAreEmptyCells
      <4> QED
        BY <1>0, <1>1, <2>2, <3>1, <4>1, HeapAssumption DEF FreshCellsEmpty, HeapTypeOK, Cells
    <3> QED
      BY <2>4, <2>5, <3>6, <3>7, <3>8
  <2>9. CASE m_hole_list = <<>>
    <3>1. /\ m_hole_list' = m_hole_list
          /\ m_next_id' = m_next_id + 1
          /\ AllocatedId = m_next_id
      BY <2>9 DEF try_create_value, allocate_id, AllocatedId
    <3>2. HeapTypeOK'
      BY <1>1, <2>6, <3>1, HeapAssumption DEF HeapTypeOK, Cells
    <3>3. DOMAIN m_hole_list = {}
      BY <2>9
    <3>4. HolesAreEmptyCells'
      <4>1. ASSUME NEW c \in Cells, c < m_next_id'
            PROVE  m_objects'[c] # NoObject
        <5>1. CASE c = AllocatedId
          BY <2>2, <2>7, <5>1
        <5>2. CASE c # AllocatedId
          <6>1. c < m_next_id
            BY <1>1, <3>1, <4>1, <5>2, HeapAssumption DEF Cells
          <6> QED
            BY <2>2, <3>3, <5>2, <6>1 DEF HolesAreEmptyCells
        <5> QED
          BY <5>1, <5>2
      <4> QED
        BY <1>0, <3>1, <3>3, <4>1 DEF HolesAreEmptyCells
    <3>5. FreshCellsEmpty'
      BY <1>0, <1>1, <2>2, <3>1, HeapAssumption DEF FreshCellsEmpty, Cells
    <3> QED
      BY <2>4, <2>5, <3>2, <3>4, <3>5
  <2> QED
    BY <2>8, <2>9
<1>2. CASE AllocatedId \notin Cells
  <2>1. /\ m_hole_list = <<>>
        /\ m_next_id = Capacity
        /\ m_next_id' = m_next_id + 1
        /\ UNCHANGED <<m_hole_list, m_objects, m_overhead>>
    BY <1>0, <1>2, AllocatedIsEmpty DEF try_create_value, allocate_id
  <2>2. OccupiedCells' = OccupiedCells
    BY <2>1 DEF OccupiedCells, Cells
  <2>3. HeapTypeOK'
    BY <2>1, HeapAssumption DEF HeapTypeOK, Cells
  <2>4. FreshCellsEmpty' /\ OverheadExact' /\ UniqueOwner'
    BY <2>1, <2>2, HeapAssumption DEF FreshCellsEmpty, OverheadExact, UniqueOwner, Cells
  <2>5. HolesAreEmptyCells'
    BY <2>1, HeapAssumption DEF HolesAreEmptyCells, Cells
  <2> QED
    BY <2>3, <2>4, <2>5
<1> QED
  BY <1>1, <1>2

-----------------------------------------------------------------------------
(* Destruction preserves it. *)

\* try_destroy_value preserves the invariant (heap_storage.cpp:47).
LEMMA DestroyInv ==
    ASSUME HeapInv, NEW id \in Cells, NEW result \in BOOLEAN,
           try_destroy_value(id, result)
    PROVE  HeapInv'
<1> USE DEF HeapInv
<1>0. ~OutOfBounds /\ Cells' = Cells /\ m_next_id \in Nat
  BY HeapAssumption DEF try_destroy_value, Cells, HeapTypeOK
<1>1. CASE ~result
  <2>1. UNCHANGED heapVars
    BY <1>1 DEF try_destroy_value
  <2> QED
    BY <2>1 DEF heapVars, HeapTypeOK, HolesAreEmptyCells, FreshCellsEmpty,
                OverheadExact, UniqueOwner, OccupiedCells, Cells
<1>2. CASE result
  <2>1. /\ m_objects[id] # NoObject
        /\ m_objects' = [m_objects EXCEPT ![id] = NoObject]
        /\ m_overhead' = m_overhead - ObjOverhead
        /\ m_hole_list' = Append(m_hole_list, id)
        /\ m_next_id' = m_next_id
    BY <1>2 DEF try_destroy_value
  <2>2. \A c \in Cells : m_objects'[c] = IF c = id THEN NoObject ELSE m_objects[c]
    BY <2>1 DEF HeapTypeOK
  <2>3. /\ OccupiedCells' = OccupiedCells \ {id}
        /\ Cardinality(OccupiedCells') = Cardinality(OccupiedCells) - 1
    BY <2>1, OccupiedAfterDestroy
  <2>4. /\ m_hole_list' \in Seq(Cells)
        /\ Len(m_hole_list) \in Nat
        /\ DOMAIN m_hole_list = 1..Len(m_hole_list)
        /\ DOMAIN m_hole_list' = 1..(Len(m_hole_list) + 1)
        /\ \A i \in 1..Len(m_hole_list) : m_hole_list'[i] = m_hole_list[i]
        /\ m_hole_list'[Len(m_hole_list) + 1] = id
    BY <2>1, AppendProperties, LenProperties DEF HeapTypeOK
  <2>5. HeapTypeOK'
    <3>1. m_objects' \in [Cells -> Object \cup {NoObject}]
      BY <2>1 DEF HeapTypeOK
    <3>2. m_overhead' \in Int
      BY <2>1, HeapAssumption DEF HeapTypeOK
    <3> QED
      BY <1>0, <2>1, <2>4, <3>1, <3>2 DEF HeapTypeOK
  <2>6. OverheadExact'
    BY <2>1, <2>3, OccupiedFinite, HeapAssumption DEF OverheadExact
  <2>7. UniqueOwner'
    BY <2>2, <2>3 DEF UniqueOwner, OccupiedCells
  <2>8. FreshCellsEmpty'
    BY <1>0, <2>1, <2>2 DEF FreshCellsEmpty
  <2>9. HolesAreEmptyCells'
    <3>1. id < m_next_id
      BY <1>0, <2>1, HeapAssumption DEF FreshCellsEmpty, Cells
    <3>2. \A i \in DOMAIN m_hole_list : m_hole_list[i] # id /\ m_hole_list[i] \in Cells
      BY <2>1, <2>4, ElementOfSeq DEF HolesAreEmptyCells, HeapTypeOK
    <3>3. \A i \in DOMAIN m_hole_list' :
             m_hole_list'[i] < m_next_id' /\ m_objects'[m_hole_list'[i]] = NoObject
      <4> SUFFICES ASSUME NEW i \in DOMAIN m_hole_list'
                   PROVE  m_hole_list'[i] < m_next_id' /\ m_objects'[m_hole_list'[i]] = NoObject
        OBVIOUS
      <4>1. i \in DOMAIN m_hole_list \/ i = Len(m_hole_list) + 1
        BY <2>4
      <4>2. CASE i \in DOMAIN m_hole_list
        BY <2>1, <2>2, <2>4, <3>2, <4>2 DEF HolesAreEmptyCells
      <4>3. CASE i = Len(m_hole_list) + 1
        BY <2>1, <2>2, <2>4, <3>1, <4>3
      <4> QED
        BY <4>1, <4>2, <4>3
    <3>4. \A i, j \in DOMAIN m_hole_list' : m_hole_list'[i] = m_hole_list'[j] => i = j
      BY <2>4, <3>2 DEF HolesAreEmptyCells
    <3>5. ASSUME NEW c \in Cells, c < m_next_id', m_objects'[c] = NoObject
          PROVE  \E i \in DOMAIN m_hole_list' : m_hole_list'[i] = c
      <4>1. CASE c = id
        BY <2>4, <4>1
      <4>2. CASE c # id
        <5>1. PICK i \in DOMAIN m_hole_list : m_hole_list[i] = c
          BY <2>1, <2>2, <3>5, <4>2 DEF HolesAreEmptyCells
        <5> QED
          BY <2>4, <5>1
      <4> QED
        BY <4>1, <4>2
    <3> QED
      BY <1>0, <3>3, <3>4, <3>5 DEF HolesAreEmptyCells
  <2> QED
    BY <2>5, <2>6, <2>7, <2>8, <2>9
<1> QED
  BY <1>1, <1>2

\* Any step of the heap, or a stutter, preserves the invariant.
LEMMA NextInv == HeapInv /\ [HeapNext]_heapVars => HeapInv'
<1>1. HeapInv /\ HeapNext => HeapInv'
  BY CreateInv, DestroyInv DEF HeapNext
<1>2. HeapInv /\ UNCHANGED heapVars => HeapInv'
  BY DEF HeapInv, heapVars, HeapTypeOK, HolesAreEmptyCells, FreshCellsEmpty,
         OverheadExact, UniqueOwner, OccupiedCells, Cells
<1> QED
  BY <1>1, <1>2

-----------------------------------------------------------------------------
(* Theorems *)

\* The whole invariant: types, exact holes, fresh cells empty, exact score,
\* one owner for each object.
THEOREM HeapSafety == HeapSpec => []HeapInv
  BY InitInv, NextInv, PTL DEF HeapSpec

\* Ids, cells and score stay in their ranges, the next id one past the vector at most
\* (heap_storage.cpp:7).
THEOREM HeapTypes == HeapSpec => []HeapTypeOK
<1>1. HeapInv => HeapTypeOK
  BY DEF HeapInv
<1> QED
  BY <1>1, HeapSafety, PTL

\* Allocation hands out each empty cell at most once (heap_storage.cpp:7).
THEOREM HolesStayExact == HeapSpec => []HolesAreEmptyCells
<1>1. HeapInv => HolesAreEmptyCells
  BY DEF HeapInv
<1> QED
  BY <1>1, HeapSafety, PTL

\* The score that triggers a collection counts the live objects, through any
\* reuse of cells (heap_storage.cpp:43).
THEOREM ScoreStaysExact == HeapSpec => []OverheadExact
<1>1. HeapInv => OverheadExact
  BY DEF HeapInv
<1> QED
  BY <1>1, HeapSafety, PTL

\* No creation lands on a cell that owns an object.
THEOREM NoOverwrite == HeapSpec => CreateNeverOverwrites
<1> DEFINE Keeps == \A c \in OccupiedCells : m_objects'[c] \in {m_objects[c], NoObject}
<1>1. HeapInv /\ [HeapNext]_heapVars => [Keeps]_heapVars
  <2> SUFFICES ASSUME HeapInv, HeapNext PROVE Keeps
    OBVIOUS
  <2> SUFFICES ASSUME NEW c \in OccupiedCells
               PROVE  m_objects'[c] \in {m_objects[c], NoObject}
    OBVIOUS
  <2>1. c \in Cells /\ m_objects[c] # NoObject /\ m_objects \in [Cells -> Object \cup {NoObject}]
    BY DEF OccupiedCells, HeapInv, HeapTypeOK
  <2>2. ASSUME NEW o \in Object, try_create_value(o)
        PROVE  m_objects'[c] = m_objects[c]
    <3>1. ~OutOfBounds
      BY <2>2 DEF try_create_value
    <3>2. c # AllocatedId \/ AllocatedId \notin Cells
      BY <2>1, <3>1, AllocatedIsEmpty
    <3> QED
      BY <2>1, <2>2, <3>2 DEF try_create_value
  <2>3. ASSUME NEW id \in Cells, NEW result \in BOOLEAN, try_destroy_value(id, result)
        PROVE  m_objects'[c] \in {m_objects[c], NoObject}
    BY <2>1, <2>3 DEF try_destroy_value, heapVars
  <2> QED
    BY <2>2, <2>3 DEF HeapNext
<1> QED
  BY <1>1, HeapSafety, PTL DEF HeapSpec, CreateNeverOverwrites

-----------------------------------------------------------------------------
(* The heap implements the pool. *)

\* One owner for each object: as many objects as occupied cells.
LEMMA OwnedCount ==
    ASSUME HeapInv
    PROVE  IsFiniteSet(Owned) /\ Cardinality(Owned) = Cardinality(OccupiedCells)
<1> DEFINE f == [c \in OccupiedCells |-> m_objects[c]]
<1>1. f \in Bijection(OccupiedCells, Owned)
  <2>1. f \in Injection(OccupiedCells, Owned)
    BY DEF HeapInv, UniqueOwner, Owned, Injection, IsInjective
  <2>2. f \in Surjection(OccupiedCells, Owned)
    BY DEF Owned, Surjection
  <2> QED
    BY <2>1, <2>2 DEF Bijection
<1>2. ExistsBijection(OccupiedCells, Owned)
  BY <1>1 DEF ExistsBijection
<1> QED
  BY <1>2, OccupiedFinite, FS_Bijection

\* The occupied cells fill the heap exactly when the next id is past the end
\* and there is no hole.
LEMMA FullWithoutHoles ==
    ASSUME HeapInv, m_hole_list = <<>>, m_next_id >= Capacity
    PROVE  Cardinality(OccupiedCells) = Capacity
<1>1. \A c \in Cells : m_objects[c] # NoObject
  BY HeapAssumption DEF HeapInv, HeapTypeOK, HolesAreEmptyCells, Cells
<1>2. OccupiedCells = Cells
  BY <1>1 DEF OccupiedCells
<1> QED
  BY <1>2, CellsFinite

\* The instance's cardinality is that of the heap's own module.
LEMMA PoolCardinality ==
    Pool!Cardinality(Owned) = Cardinality(Owned)
  BY DEF Pool!Cardinality, Cardinality

\* The heap the constructor builds is the pool's initial one.
LEMMA InitRefines == HeapInit => Pool!Init
<1> SUFFICES ASSUME HeapInit PROVE Pool!Init
  OBVIOUS
<1>1. DOMAIN Preloads = 1..Len(Preloads) /\ Len(Preloads) \in Nat
  BY HeapAssumption, LenProperties
<1>2. Owned = {Preloads[i] : i \in DOMAIN Preloads}
  <2>1. \A c \in OccupiedCells : m_objects[c] = Preloads[c + 1] /\ c + 1 \in DOMAIN Preloads
    BY <1>1, InitialCells, HeapAssumption DEF HeapInit, OccupiedCells, Cells
  <2>2. \A i \in DOMAIN Preloads :
            i - 1 \in OccupiedCells /\ m_objects[i - 1] = Preloads[i]
    <3> SUFFICES ASSUME NEW i \in DOMAIN Preloads
                 PROVE  i - 1 \in OccupiedCells /\ m_objects[i - 1] = Preloads[i]
      OBVIOUS
    <3>1. i - 1 \in OccupiedCells /\ (i - 1) + 1 = i
      BY <1>1, InitialCells
    <3> QED
      BY <2>1, <3>1
  <2> QED
    BY <2>1, <2>2 DEF Owned
<1>3. ~OutOfBounds
  BY <1>1, HeapAssumption DEF HeapInit, OutOfBounds
<1> QED
  BY <1>2, <1>3 DEF Pool!Init

\* Every step of the heap is a step of the pool, or none.
LEMMA StepRefines == HeapInv /\ [HeapNext]_heapVars => [Pool!Next]_(Pool!vars)
<1> SUFFICES ASSUME HeapInv, [HeapNext]_heapVars
             PROVE  Pool!Next \/ UNCHANGED Pool!vars
  OBVIOUS
<1> USE DEF HeapInv
<1>0. HeapInv' /\ m_next_id \in Nat /\ Cells' = Cells
  BY NextInv, HeapAssumption DEF HeapTypeOK, Cells
<1>1. ASSUME NEW o \in Object, try_create_value(o)
      PROVE  Pool!Next
  <2>0. ~OutOfBounds /\ o \notin Owned
    BY <1>1 DEF try_create_value
  <2>1. CASE AllocatedId \in Cells
    <3>1. m_objects[AllocatedId] = NoObject /\ m_objects' = [m_objects EXCEPT ![AllocatedId] = o]
      BY <1>1, <2>0, <2>1, AllocatedIsEmpty DEF try_create_value
    <3>2. Owned' = Owned \cup {o} /\ Cardinality(OccupiedCells') = Cardinality(OccupiedCells) + 1
      BY <2>1, <3>1, OccupiedAfterCreate
    <3>3. Cardinality(OccupiedCells) < Capacity
      <4>1. AllocatedId \notin OccupiedCells
        BY <3>1 DEF OccupiedCells
      <4>2. OccupiedCells # Cells
        BY <2>1, <4>1
      <4> QED
        BY <4>2, OccupiedFinite, HeapAssumption
    <3>4. OutOfBounds' = OutOfBounds
      <4>1. m_hole_list # <<>> => m_next_id' = m_next_id
        BY <1>1 DEF try_create_value, allocate_id
      <4>2. m_hole_list = <<>> => m_next_id' = m_next_id + 1 /\ AllocatedId = m_next_id
        BY <1>1 DEF try_create_value, allocate_id, AllocatedId
      <4> QED
        BY <1>0, <2>0, <2>1, <4>1, <4>2, HeapAssumption DEF OutOfBounds, Cells
    <3>5. Cardinality(Owned) < Capacity
      BY <3>3, OwnedCount
    <3>6. Pool!Create(o)
      BY <2>0, <3>2, <3>4, <3>5, PoolCardinality DEF Pool!Create
    <3> QED
      BY <3>6 DEF Pool!Next
  <2>2. CASE AllocatedId \notin Cells
    <3>1. /\ m_hole_list = <<>> /\ m_next_id = Capacity
          /\ m_next_id' = m_next_id + 1
          /\ m_objects' = m_objects
      BY <1>1, <2>0, <2>2, AllocatedIsEmpty DEF try_create_value, allocate_id
    <3>2. Owned' = Owned
      BY <3>1 DEF Owned, OccupiedCells, Cells
    <3>3. Cardinality(Owned) = Capacity
      BY <3>1, FullWithoutHoles, OwnedCount, HeapAssumption
    <3>4. OutOfBounds' = TRUE
      BY <3>1, HeapAssumption DEF OutOfBounds
    <3>5. Pool!Overflow
      BY <2>0, <3>2, <3>3, <3>4, PoolCardinality DEF Pool!Overflow
    <3> QED
      BY <3>5 DEF Pool!Next
  <2> QED
    BY <2>1, <2>2
<1>2. ASSUME NEW id \in Cells, NEW result \in BOOLEAN, try_destroy_value(id, result)
      PROVE  Pool!Next \/ UNCHANGED Pool!vars
  <2>1. CASE ~result
    <3>1. UNCHANGED heapVars
      BY <1>2, <2>1 DEF try_destroy_value
    <3> QED
      BY <3>1 DEF heapVars, Pool!vars, Owned, OccupiedCells, Cells, OutOfBounds
  <2>2. CASE result
    <3>1. /\ ~OutOfBounds
          /\ m_objects[id] # NoObject
          /\ m_objects' = [m_objects EXCEPT ![id] = NoObject]
          /\ m_next_id' = m_next_id
      BY <1>2, <2>2 DEF try_destroy_value
    <3>2. Owned' = Owned \ {m_objects[id]}
      BY <3>1, OccupiedAfterDestroy
    <3>3. m_objects[id] \in Owned /\ m_objects[id] \in Object
      BY <3>1 DEF Owned, OccupiedCells, HeapTypeOK
    <3>4. OutOfBounds' = OutOfBounds
      BY <3>1 DEF OutOfBounds
    <3>5. Pool!Destroy(m_objects[id])
      BY <3>1, <3>2, <3>3, <3>4 DEF Pool!Destroy
    <3> QED
      BY <3>3, <3>5 DEF Pool!Next
  <2> QED
    BY <2>1, <2>2
<1>3. CASE UNCHANGED heapVars
  BY <1>3 DEF heapVars, Pool!vars, Owned, OccupiedCells, Cells, OutOfBounds
<1> QED
  BY <1>1, <1>2, <1>3 DEF HeapNext

\* Refinement: cells, holes and ids implement a pool of Capacity objects that
\* overflows only when it is full (heap_storage.hpp:43, heap_storage.cpp:47).
THEOREM HeapImplementsPool == HeapSpec => ImplementsPool
<1>1. HeapInit => Pool!Init
  BY InitRefines
<1>2. HeapInv /\ [HeapNext]_heapVars => [Pool!Next]_(Pool!vars)
  BY StepRefines
<1> QED
  BY <1>1, <1>2, HeapSafety, PTL DEF HeapSpec, ImplementsPool, Pool!Spec
=============================================================================
