---------------------------- MODULE AnalyzerProofs ----------------------------
(***************************************************************************)
(* Whatever the files hold, the program that the analyzer accepts is one   *)
(* that lowering can rely on, and assigns only to variables.  The results  *)
(* on the analyzer's stack are one for each operand that the parser's      *)
(* events have completed (Levels), each event leaves what it should        *)
(* (Given), and as long as none of them is nothing, all events so far are  *)
(* sound (BodyAt).  What is nothing stays, until its statement is refused. *)
(***************************************************************************)
EXTENDS FrontendProofs

-----------------------------------------------------------------------------
(* Levels that a body leads through                                         *)

Levels(events, f) ==
    /\ f \in [0..Len(events) -> Level] /\ f[0] = Ground /\ f[Len(events)] = Ground
    /\ \A i \in 1..Len(events) :
          events[i] = <<events[i][1], events[i][2]>> /\ Acts(f[i - 1], events[i][1], f[i])
LevelsOf(events) == CHOOSE f : Levels(events, f)

LEMMA LevelsGiven ==
    ASSUME NEW events, Leads(events, Ground)
    PROVE  IsSeq(events) /\ Levels(events, LevelsOf(events))
<1>1. \E f : Levels(events, f)
  BY DEF Leads, Levels
<1> QED
  BY <1>1 DEF LevelsOf, Leads

One(kind, kinds) == IF kind \in kinds THEN 1 ELSE 0

\* What an event does to the operands and the brackets.
LEMMA StepFacts ==
    ASSUME NEW a \in Level, NEW b \in Level, NEW kind, Acts(a, kind, b)
    PROVE  /\ b.height = a.height + One(kind, Adds) - One(kind, Uses)
           /\ Len(b.open) = Len(a.open) + One(kind, Openers) - One(kind, Closers)
           /\ kind \in Openers => b.open = Append(a.open, <<kind, b.height>>)
           /\ kind \in Closers => a.open # <<>> /\ a.open = Append(b.open, Innermost(a))
           /\ kind \notin Openers \cup Closers => b.open = a.open
<1>1. /\ a.height \in Nat /\ b.height \in Nat /\ IsSeq(a.open) /\ IsSeq(b.open)
      /\ Len(a.open) \in Nat /\ Len(b.open) \in Nat
  BY LevelFacts
<1>2. CASE \E n \in {-1, 0, 1} :
             Moves(a, b, n) /\ kind \notin Openers \cup Closers /\ n = One(kind, Adds) - One(kind, Uses)
  <2>1. PICK n \in {-1, 0, 1} :
             Moves(a, b, n) /\ kind \notin Openers \cup Closers /\ n = One(kind, Adds) - One(kind, Uses)
    BY <1>2
  <2>2. b.height = a.height + n /\ b.open = a.open
    BY <2>1 DEF Moves, Up
  <2>3. One(kind, Openers) = 0 /\ One(kind, Closers) = 0
    BY <2>1 DEF One
  <2>4. One(kind, Adds) \in {0, 1} /\ One(kind, Uses) \in {0, 1}
    BY DEF One
  <2> QED
    BY <1>1, <2>1, <2>2, <2>3, <2>4
<1>3. CASE kind \in Openers
  <2>1. b = Into(a, kind, IF kind = "lambda" THEN 1 ELSE 0)
    BY <1>3 DEF Acts, Openers, OpensTo
  <2>2. /\ b.height = a.height + (IF kind = "lambda" THEN 1 ELSE 0)
        /\ b.open = Append(a.open, <<kind, b.height>>)
    BY <2>1 DEF Into
  <2>3. Len(b.open) = Len(a.open) + 1
    BY <1>1, <2>2, SeqAdd
  <2>4. /\ One(kind, Openers) = 1 /\ One(kind, Closers) = 0 /\ One(kind, Uses) = 0
        /\ One(kind, Adds) = (IF kind = "lambda" THEN 1 ELSE 0)
        /\ kind \notin Closers
    BY <1>3 DEF One, Openers, Closers, Uses, Adds
  <2> QED
    BY <1>1, <1>3, <2>2, <2>3, <2>4
<1>4. CASE kind \in Closers
  <2>1. PICK bracket \in Brackets, extra \in {0, 1}, n \in {-1, 0, 1} :
          /\ ClosesTo(a, b, bracket, extra, n)
          /\ n = One(kind, Adds) - One(kind, Uses)
    <3>1. /\ One("list", Adds) - One("list", Uses) = 1
          /\ One("tuple", Adds) - One("tuple", Uses) = 1
          /\ One("called", Adds) - One("called", Uses) = 0
          /\ One("lambda_end", Adds) - One("lambda_end", Uses) = 0
          /\ One("detup", Adds) - One("detup", Uses) = -1
      BY DEF One, Adds, Uses
    <3>2. \/ kind \in {"list", "tuple"} /\ ClosesTo(a, b, "sequence", 0, 1)
          \/ kind = "called" /\ ClosesTo(a, b, "call", 0, 0)
          \/ kind = "lambda_end" /\ ClosesTo(a, b, "lambda", 0, 0)
          \/ kind = "detup" /\ ClosesTo(a, b, "destructure", 1, -1)
      BY <1>4 DEF Acts, Closers
    <3>3. {"sequence", "call", "lambda", "destructure"} \subseteq Brackets
      BY DEF Brackets
    <3> QED
      BY <3>1, <3>2, <3>3
  <2>2. a.open = Append(b.open, <<bracket, a.height - extra>>) /\ b.height = a.height + n
    BY <2>1 DEF ClosesTo
  <2>3. /\ Len(a.open) = Len(b.open) + 1 /\ a.open # <<>>
        /\ a.open[Len(a.open)] = <<bracket, a.height - extra>>
    BY <1>1, <2>2, SeqAdd
  <2>4. One(kind, Openers) = 0 /\ One(kind, Closers) = 1 /\ kind \notin Openers
    BY <1>4 DEF One, Openers, Closers
  <2>5. One(kind, Adds) \in {0, 1} /\ One(kind, Uses) \in {0, 1}
    BY DEF One
  <2> QED
    BY <1>1, <1>4, <2>1, <2>2, <2>3, <2>4, <2>5 DEF Innermost
<1>5. /\ \A k \in {"name", "literal", "string"} : One(k, Adds) - One(k, Uses) = 1
      /\ \A k \in {"binary", "assign", "expression", "def", "then", "do", "return", "item", "argument"} :
            One(k, Adds) - One(k, Uses) = -1
      /\ \A k \in {"negate", "if", "else", "while", "end", "break", "parameter", "detup_name"} :
            One(k, Adds) - One(k, Uses) = 0
  BY DEF One, Adds, Uses
<1>6. kind \notin Openers \cup Closers =>
         \E n \in {-1, 0, 1} : Moves(a, b, n) /\ n = One(kind, Adds) - One(kind, Uses)
  BY <1>5 DEF Acts, Openers, Closers
<1> QED
  BY <1>2, <1>3, <1>4, <1>6

CountOf(events, kinds, i, j) == Cardinality({k \in (i + 1)..j : events[k][1] \in kinds})

LEMMA CountStep ==
    ASSUME NEW events, NEW kinds, NEW i \in Nat, NEW j \in Nat
    PROVE  /\ CountOf(events, kinds, i, j) \in Nat
           /\ CountOf(events, kinds, i, i) = 0
           /\ i <= j => CountOf(events, kinds, i, j + 1)
                           = CountOf(events, kinds, i, j) + One(events[j + 1][1], kinds)
<1> DEFINE S(n) == {k \in (i + 1)..n : events[k][1] \in kinds}
<1>1. \A n \in Nat : IsFiniteSet(S(n)) /\ Cardinality(S(n)) \in Nat
  <2> TAKE n \in Nat
  <2>1. IsFiniteSet((i + 1)..n)
    BY FS_Interval
  <2>2. S(n) \subseteq (i + 1)..n
    OBVIOUS
  <2> QED
    BY <2>1, <2>2, FS_Subset, FS_CardinalityType
<1>2. S(i) = {}
  OBVIOUS
<1>3. ASSUME i <= j PROVE Cardinality(S(j + 1)) = Cardinality(S(j)) + One(events[j + 1][1], kinds)
  <2>1. CASE events[j + 1][1] \in kinds
    <3>1. S(j + 1) = S(j) \cup {j + 1} /\ j + 1 \notin S(j)
      BY <1>3, <2>1
    <3>2. One(events[j + 1][1], kinds) = 1
      BY <2>1 DEF One
    <3> HIDE DEF S
    <3> QED
      BY <1>1, <3>1, <3>2, FS_AddElement
  <2>2. CASE events[j + 1][1] \notin kinds
    <3>1. S(j + 1) = S(j)
      BY <1>3, <2>2
    <3>2. One(events[j + 1][1], kinds) = 0
      BY <2>2 DEF One
    <3> HIDE DEF S
    <3> QED
      BY <1>1, <3>1, <3>2
  <2> QED
    BY <2>1, <2>2
<1>4. \A n : CountOf(events, kinds, i, n) = Cardinality(S(n))
  BY DEF CountOf
<1>5. Cardinality(S(i)) = 0
  BY <1>2, FS_EmptySet
<1> HIDE DEF S
<1> QED
  BY <1>1, <1>3, <1>4, <1>5

\* Levels are what is counted.
LEMMA LevelsCount ==
    ASSUME NEW events, IsSeq(events), NEW f, Levels(events, f), NEW i \in 0..Len(events)
    PROVE  /\ f[i] \in Level
           /\ \A j \in i..Len(events) :
                /\ Len(f[j].open) = Len(f[i].open) + CountOf(events, Openers, i, j)
                                                   - CountOf(events, Closers, i, j)
                /\ f[j].height = f[i].height + CountOf(events, Adds, i, j) - CountOf(events, Uses, i, j)
<1> DEFINE n == Len(events)
<1>1. n \in Nat /\ i \in Nat
  BY SeqFacts
<1>2. f \in [0..n -> Level] /\ \A j \in 1..n : Acts(f[j - 1], events[j][1], f[j])
  BY DEF Levels
<1> DEFINE Counted(j) ==
              /\ Len(f[j].open) = Len(f[i].open) + CountOf(events, Openers, i, j)
                                                 - CountOf(events, Closers, i, j)
              /\ f[j].height = f[i].height + CountOf(events, Adds, i, j) - CountOf(events, Uses, i, j)
<1> DEFINE T == {j \in i..n : Counted(j)}
<1>3. f[i] \in Level /\ f[i].height \in Nat /\ Len(f[i].open) \in Nat
  BY <1>2, LevelFacts
<1>4. i \in T
  <2>1. /\ CountOf(events, Openers, i, i) = 0 /\ CountOf(events, Closers, i, i) = 0
        /\ CountOf(events, Adds, i, i) = 0 /\ CountOf(events, Uses, i, i) = 0
    BY <1>1, CountStep
  <2> QED
    BY <1>1, <1>3, <2>1
<1>5. ASSUME NEW j \in i..(n - 1), j \in T PROVE j + 1 \in T
  <2>1. j \in Nat /\ j + 1 \in 1..n /\ (j + 1) - 1 = j /\ j \in 0..n /\ j + 1 \in 0..n /\ i <= j
        /\ j + 1 \in i..n
    BY <1>1, <1>5
  <2>2. f[j] \in Level /\ f[j + 1] \in Level /\ Acts(f[j], events[j + 1][1], f[j + 1])
    BY <1>2, <2>1
  <2> DEFINE kind == events[j + 1][1]
  <2>3. /\ f[j + 1].height = f[j].height + One(kind, Adds) - One(kind, Uses)
        /\ Len(f[j + 1].open) = Len(f[j].open) + One(kind, Openers) - One(kind, Closers)
    BY <2>2, StepFacts
  <2>4. \A kinds : /\ CountOf(events, kinds, i, j) \in Nat
                   /\ CountOf(events, kinds, i, j + 1) = CountOf(events, kinds, i, j) + One(kind, kinds)
    BY <1>1, <2>1, CountStep
  <2>5. \A kinds : One(kind, kinds) \in {0, 1}
    BY DEF One
  <2>6. Counted(j)
    BY <1>5
  <2>7. Counted(j + 1)
    <3> DEFINE O == CountOf(events, Openers, i, j)
    <3> DEFINE C == CountOf(events, Closers, i, j)
    <3> DEFINE A == CountOf(events, Adds, i, j)
    <3> DEFINE U == CountOf(events, Uses, i, j)
    <3>1. /\ O \in Nat /\ C \in Nat /\ A \in Nat /\ U \in Nat
          /\ One(kind, Openers) \in {0, 1} /\ One(kind, Closers) \in {0, 1}
          /\ One(kind, Adds) \in {0, 1} /\ One(kind, Uses) \in {0, 1}
      BY <2>4, <2>5
    <3>2. /\ CountOf(events, Openers, i, j + 1) = O + One(kind, Openers)
          /\ CountOf(events, Closers, i, j + 1) = C + One(kind, Closers)
          /\ CountOf(events, Adds, i, j + 1) = A + One(kind, Adds)
          /\ CountOf(events, Uses, i, j + 1) = U + One(kind, Uses)
      BY <2>4
    <3>3. Len(f[j].open) = Len(f[i].open) + O - C /\ f[j].height = f[i].height + A - U
      BY <2>6
    <3> DEFINE D == Len(f[i].open)
    <3>6. D \in Nat /\ Len(f[j].open) = D + O - C
          /\ Len(f[j + 1].open) = Len(f[j].open) + One(kind, Openers) - One(kind, Closers)
      BY <1>3, <2>3, <3>3
    <3> HIDE DEF kind, O, C, A, U, T, D
    <3>7. Len(f[j + 1].open) = D + (O + One(kind, Openers)) - (C + One(kind, Closers))
      BY <3>1, <3>6
    <3>4. Len(f[j + 1].open) = Len(f[i].open) + (O + One(kind, Openers)) - (C + One(kind, Closers))
      BY <3>7 DEF D
    <3> DEFINE H == f[i].height
    <3>8. H \in Nat /\ f[j].height = H + A - U
          /\ f[j + 1].height = f[j].height + One(kind, Adds) - One(kind, Uses)
      BY <1>3, <2>3, <3>3
    <3> HIDE DEF H
    <3>9. f[j + 1].height = H + (A + One(kind, Adds)) - (U + One(kind, Uses))
      BY <3>1, <3>8
    <3>5. f[j + 1].height = f[i].height + (A + One(kind, Adds)) - (U + One(kind, Uses))
      BY <3>9 DEF H
    <3> QED
      BY <3>2, <3>4, <3>5
  <2> QED
    BY <2>1, <2>7
<1>6. i..n \subseteq T
  <2> HIDE DEF T
  <2> QED
    BY <1>1, <1>4, <1>5, Climbs
<1> QED
  BY <1>3, <1>6

\* The operands and brackets of an accepted body are those of its levels.
LEMMA LevelsAre ==
    ASSUME NEW events, IsSeq(events), NEW f, Levels(events, f), NEW i \in 0..Len(events)
    PROVE  Height(events)[i] = f[i].height /\ Depth(events)[i] = Len(f[i].open)
<1>1. Len(events) \in Nat /\ 0 \in 0..Len(events) /\ i \in Nat /\ i \in 0..Len(events) /\ i \in 0..i
  BY SeqFacts
<1>2. f[0] = Ground /\ Len(f[0].open) = 0 /\ f[0].height = 0
  BY EmptySeq DEF Levels, Ground
<1>3. /\ Len(f[i].open) = Len(f[0].open) + CountOf(events, Openers, 0, i) - CountOf(events, Closers, 0, i)
      /\ f[i].height = f[0].height + CountOf(events, Adds, 0, i) - CountOf(events, Uses, 0, i)
  BY <1>1, LevelsCount
<1>4. \A kinds : CountUpTo(events, kinds, i) = CountOf(events, kinds, 0, i)
                  /\ CountOf(events, kinds, 0, i) \in Nat
  <2>1. 0 + 1 = 1 /\ 0 \in Nat
    OBVIOUS
  <2>2. \A kinds : CountUpTo(events, kinds, i) = CountOf(events, kinds, 0, i)
    BY <2>1 DEF CountUpTo, CountOf
  <2>3. \A kinds : CountOf(events, kinds, 0, i) \in Nat
    BY <1>1, <2>1, CountStep
  <2> QED
    BY <2>2, <2>3
<1> QED
  BY <1>1, <1>2, <1>3, <1>4 DEF Height, Depth

\* Brackets stay as they are while what they hold is read.
Deep(f, i, j, l) == \A k \in i..j : Len(f[k].open) >= l

LEMMA BelowStays ==
    ASSUME NEW events, IsSeq(events), NEW f, Levels(events, f),
           NEW i \in 0..Len(events), NEW j \in i..Len(events), NEW l \in Nat, Deep(f, i, j, l)
    PROVE  \A k \in i..j : \A p \in 1..l : f[k].open[p] = f[i].open[p]
<1> DEFINE n == Len(events)
<1>1. n \in Nat /\ i \in Nat /\ j \in Nat /\ i <= j /\ j <= n
  BY SeqFacts
<1>2. f \in [0..n -> Level] /\ \A k \in 1..n : Acts(f[k - 1], events[k][1], f[k])
  BY DEF Levels
<1> DEFINE T == {k \in i..j : \A p \in 1..l : f[k].open[p] = f[i].open[p]}
<1> HIDE DEF n
<1>3. i \in T
  BY <1>1
<1>4. ASSUME NEW k \in i..(j - 1), k \in T PROVE k + 1 \in T
  <2>1. k \in Nat /\ k + 1 \in 1..n /\ (k + 1) - 1 = k /\ k \in 0..n /\ k + 1 \in 0..n
        /\ k \in i..j /\ k + 1 \in i..j
    BY <1>1
  <2> DEFINE a == f[k]
  <2> DEFINE b == f[k + 1]
  <2> DEFINE kind == events[k + 1][1]
  <2>2. a \in Level /\ b \in Level /\ Acts(a, kind, b)
    BY <1>2, <2>1
  <2>3. Len(a.open) >= l /\ Len(b.open) >= l
    BY <2>1 DEF Deep
  <2>4. a.open \in Seq(Brackets \X Nat) /\ IsSeq(a.open) /\ IsSeq(b.open)
        /\ Len(a.open) \in Nat /\ Len(b.open) \in Nat
    BY <2>2, LevelFacts
  <2>5. \A p \in 1..l : a.open[p] = f[i].open[p]
    BY <1>4
  <2> HIDE DEF a, b, kind
  <2>6. \A p \in 1..l : b.open[p] = a.open[p]
    <3> TAKE p \in 1..l
    <3>0. p \in 1..Len(a.open) /\ p \in 1..Len(b.open)
      BY <2>3, <2>4
    <3>1. CASE kind \in Openers
      <4>1. b.open = Append(a.open, <<kind, b.height>>)
        BY <2>2, <3>1, StepFacts
      <4> QED
        BY <2>4, <3>0, <4>1, SeqAdd
    <3>2. CASE kind \in Closers
      <4>1. a.open = Append(b.open, Innermost(a))
        BY <2>2, <3>2, StepFacts
      <4> QED
        BY <2>4, <3>0, <4>1, SeqAdd
    <3>3. CASE kind \notin Openers \cup Closers
      BY <2>2, <3>3, StepFacts
    <3> QED
      BY <3>1, <3>2, <3>3
  <2>7. \A p \in 1..l : f[k + 1].open[p] = f[i].open[p]
    BY <2>5, <2>6 DEF a, b
  <2> QED
    BY <2>1, <2>7
<1> HIDE DEF T
<1>5. i..j \subseteq T
  BY <1>1, <1>3, <1>4, Climbs
<1> QED
  BY <1>5 DEF T

\* Where what event i has opened, or is in, is closed: at the first event that has
\* fewer brackets open.
LEMMA CloseFacts ==
    ASSUME NEW events, IsSeq(events), NEW f, Levels(events, f),
           NEW i \in 1..Len(events), f[i].open # <<>>
    PROVE  LET j == Close(events, i)
           IN /\ j \in (i + 1)..Len(events)
              /\ events[j][1] \in Closers
              /\ f[i].open = Append(f[j].open, Innermost(f[i]))
              /\ Len(f[j].open) = Len(f[i].open) - 1
              /\ f[j].height = Floor(f[i]) + (IF Within(f[i], "sequence") THEN 1 ELSE 0)
              /\ \A k \in i..(j - 1) : Len(f[k].open) >= Len(f[i].open)
              /\ \A k \in (i + 1)..Len(events) : Len(f[k].open) < Len(f[i].open) => j <= k
<1> DEFINE n == Len(events)
<1> DEFINE l == Len(f[i].open)
<1>1. n \in Nat /\ i \in Nat /\ i \in 1..n /\ i \in 0..n /\ n \in 0..n /\ n \in 1..n
  BY SeqFacts
<1>2. /\ f \in [0..n -> Level] /\ f[n] = Ground
      /\ \A k \in 1..n : Acts(f[k - 1], events[k][1], f[k])
  BY DEF Levels
<1>3. \A k \in 0..n : f[k] \in Level /\ Len(f[k].open) \in Nat /\ IsSeq(f[k].open)
  BY <1>2, LevelFacts
<1>4. l \in Nat /\ l > 0
  BY <1>1, <1>3, SeqFacts
<1>5. i < n /\ Len(f[n].open) = 0
  <2>1. f[n].open = <<>> /\ Len(f[n].open) = 0
    BY <1>2, EmptySeq DEF Ground
  <2> QED
    BY <1>1, <2>1
<1>6. \A k \in i..n : Len(f[k].open) = l + CountOf(events, Openers, i, k)
                                         - CountOf(events, Closers, i, k)
                      /\ CountOf(events, Openers, i, k) \in Nat
                      /\ CountOf(events, Closers, i, k) \in Nat
  <2>1. \A k \in i..n : Len(f[k].open) = Len(f[i].open) + CountOf(events, Openers, i, k)
                                                        - CountOf(events, Closers, i, k)
    BY <1>1, LevelsCount
  <2>2. \A k \in i..n : k \in Nat
    BY <1>1
  <2>3. \A k \in i..n : CountOf(events, Openers, i, k) \in Nat /\ CountOf(events, Closers, i, k) \in Nat
    BY <1>1, <2>2, CountStep
  <2> QED
    BY <2>1, <2>3
<1> DEFINE Shuts(j) ==
              /\ CountOf(events, Closers, i, j) = CountOf(events, Openers, i, j) + 1
              /\ \A k \in (i + 1)..(j - 1) :
                    CountOf(events, Closers, i, k) <= CountOf(events, Openers, i, k)
<1>7. Close(events, i) = CHOOSE j \in (i + 1)..n : Shuts(j)
  BY DEF Close, CountOf
<1> DEFINE S == {j \in (i + 1)..n : Len(f[j].open) < l}
<1> HIDE DEF n, l
<1>8. PICK j \in S : \A k \in S : j <= k
  <2>1. n \in S /\ S \in SUBSET Nat
    BY <1>1, <1>4, <1>5
  <2> HIDE DEF S
  <2> QED
    BY <2>1, Smallest
<1>9. /\ j \in (i + 1)..n /\ Len(f[j].open) < l
      /\ \A k \in (i + 1)..n : Len(f[k].open) < l => j <= k
  BY <1>8
<1>10. \A k \in i..(j - 1) : Len(f[k].open) >= l
  <2> TAKE k \in i..(j - 1)
  <2>1. CASE k = i
    BY <1>1, <1>3, <2>1 DEF l
  <2>2. CASE k # i
    <3>1. k \in (i + 1)..n /\ k \in 0..n /\ ~ (j <= k)
      BY <1>1, <1>9, <2>2
    <3> QED
      BY <1>3, <1>4, <1>9, <3>1
  <2> QED
    BY <2>1, <2>2
<1> DEFINE a == f[j - 1]
<1> DEFINE b == f[j]
<1> DEFINE kind == events[j][1]
<1>11. j \in 1..n /\ j \in 0..n /\ j - 1 \in 0..n /\ j - 1 \in i..(j - 1) /\ j \in Nat /\ j - 1 \in i..n
       /\ j \in i..n
  BY <1>1, <1>9
<1>12. a \in Level /\ b \in Level /\ Acts(a, kind, b)
  BY <1>2, <1>11
<1>13. Len(b.open) = Len(a.open) + One(kind, Openers) - One(kind, Closers)
  <2> HIDE DEF a, b, kind
  <2> QED
    BY <1>12, StepFacts
<1>14. kind \in Closers /\ Len(a.open) = l /\ Len(b.open) = l - 1
  <2>1. Len(a.open) >= l /\ Len(b.open) < l /\ Len(a.open) \in Nat /\ Len(b.open) \in Nat
    BY <1>3, <1>9, <1>10, <1>11
  <2>2. One(kind, Openers) \in {0, 1} /\ One(kind, Closers) \in {0, 1}
    BY DEF One
  <2> HIDE DEF a, b, kind
  <2>3. One(kind, Closers) = 1 /\ One(kind, Openers) = 0
    <3> DEFINE la == Len(a.open)
    <3> DEFINE lb == Len(b.open)
    <3> DEFINE o == One(kind, Openers)
    <3> DEFINE c == One(kind, Closers)
    <3>1. /\ la \in Nat /\ lb \in Nat /\ l \in Nat /\ o \in {0, 1} /\ c \in {0, 1}
          /\ la >= l /\ lb < l /\ lb = la + o - c
      BY <1>4, <1>13, <2>1, <2>2
    <3> HIDE DEF la, lb, o, c
    <3>2. c = 1
      BY <3>1
    <3>3. kind \in Closers
      BY <3>2 DEF c, One
    <3>4. kind \notin Openers
      BY <3>3 DEF Openers, Closers
    <3> QED
      BY <3>2, <3>4 DEF c, One
  <2>4. kind \in Closers
    BY <2>3 DEF One
  <2> QED
    BY <1>4, <1>13, <2>1, <2>3, <2>4
<1>15. a.open = f[i].open
  <2>1. \A k \in i..(j - 1) : \A p \in 1..l : f[k].open[p] = f[i].open[p]
    <3> DEFINE q == j - 1
    <3>1. i \in 0..Len(events) /\ q \in i..Len(events) /\ Deep(f, i, q, l)
      BY <1>1, <1>10, <1>11 DEF n, Deep
    <3> HIDE DEF q
    <3>2. \A k \in i..q : \A p \in 1..l : f[k].open[p] = f[i].open[p]
      BY <1>4, <3>1, BelowStays
    <3> QED
      BY <3>2 DEF q
  <2>2. \A p \in 1..l : a.open[p] = f[i].open[p]
    BY <1>11, <2>1
  <2> QED
    BY <1>1, <1>3, <1>11, <1>14, <2>2, SeqSame DEF l
<1>16. Shuts(j)
  <2>1. CountOf(events, Closers, i, j) = CountOf(events, Openers, i, j) + 1
    <3>1. Len(f[j].open) = l - 1
      BY <1>14
    <3>2. /\ Len(f[j].open) = l + CountOf(events, Openers, i, j) - CountOf(events, Closers, i, j)
          /\ CountOf(events, Openers, i, j) \in Nat /\ CountOf(events, Closers, i, j) \in Nat
      BY <1>6, <1>11
    <3> HIDE DEF a, b, kind
    <3> QED
      BY <1>4, <3>1, <3>2
  <2>2. ASSUME NEW k \in (i + 1)..(j - 1)
        PROVE  CountOf(events, Closers, i, k) <= CountOf(events, Openers, i, k)
    <3>1. k \in i..n /\ k \in i..(j - 1)
      BY <1>1, <1>9
    <3> QED
      <4>1. /\ Len(f[k].open) = l + CountOf(events, Openers, i, k) - CountOf(events, Closers, i, k)
            /\ CountOf(events, Openers, i, k) \in Nat /\ CountOf(events, Closers, i, k) \in Nat
            /\ Len(f[k].open) >= l
        BY <1>6, <1>10, <3>1
      <4> HIDE DEF a, b, kind
      <4> QED
        BY <1>4, <4>1
  <2> QED
    BY <2>1, <2>2
<1>17. ASSUME NEW k \in (i + 1)..n, Shuts(k) PROVE k = j
  <2>1. k \in i..n /\ Len(f[k].open) = l - 1
    <3>1. k \in i..n /\ CountOf(events, Closers, i, k) = CountOf(events, Openers, i, k) + 1
      BY <1>1, <1>17
    <3>2. /\ Len(f[k].open) = l + CountOf(events, Openers, i, k) - CountOf(events, Closers, i, k)
          /\ CountOf(events, Openers, i, k) \in Nat /\ CountOf(events, Closers, i, k) \in Nat
      BY <1>6, <3>1
    <3> HIDE DEF a, b, kind
    <3> QED
      BY <1>4, <3>1, <3>2
  <2>2. j <= k
    BY <1>4, <1>9, <2>1
  <2>3. ASSUME j < k PROVE FALSE
    <3>1. j \in (i + 1)..(k - 1)
      BY <1>1, <1>9, <2>3
    <3>2. CountOf(events, Closers, i, j) <= CountOf(events, Openers, i, j)
      BY <1>17, <3>1
    <3> QED
      BY <1>6, <1>11, <1>16, <3>2
  <2> QED
    BY <1>1, <1>9, <2>2, <2>3
<1> HIDE DEF Shuts, S
<1>18. Close(events, i) = j
  BY <1>7, <1>9, <1>16, <1>17
<1>19. f[i].open = Append(b.open, Innermost(f[i]))
  <2>1. a.open = Append(b.open, Innermost(a)) /\ Innermost(a) = Innermost(f[i])
    <3>1. Innermost(a) = Innermost(f[i])
      BY <1>15 DEF Innermost
    <3> HIDE DEF a, b, kind
    <3> QED
      BY <1>12, <1>14, <3>1, StepFacts
  <2> QED
    BY <1>15, <2>1
<1>20. b.height = Floor(f[i]) + (IF Within(f[i], "sequence") THEN 1 ELSE 0)
  <2>1. Innermost(a) = Innermost(f[i]) /\ a.open # <<>> /\ f[i].open # <<>> /\ Len(f[i].open) = l
    BY <1>15 DEF Innermost, l
  <2>2. \/ kind \in {"list", "tuple"} /\ ClosesTo(a, b, "sequence", 0, 1)
        \/ kind = "called" /\ ClosesTo(a, b, "call", 0, 0)
        \/ kind = "lambda_end" /\ ClosesTo(a, b, "lambda", 0, 0)
        \/ kind = "detup" /\ ClosesTo(a, b, "destructure", 1, -1)
    <3> HIDE DEF a, b, kind
    <3> QED
      BY <1>12, <1>14 DEF Acts, Closers
  <2>3. \E bracket \in Brackets : \E extra \in {0, 1} :
           /\ a.open = Append(b.open, <<bracket, a.height - extra>>)
           /\ b.height = a.height - extra + (IF bracket = "sequence" THEN 1 ELSE 0)
    <3>1. a.height \in Nat
      BY <1>12, LevelFacts
    <3> HIDE DEF a, b, kind
    <3>2. CASE ClosesTo(a, b, "sequence", 0, 1)
      <4>1. a.open = Append(b.open, <<"sequence", a.height - 0>>) /\ b.height = a.height - 0 + 1
        BY <3>1, <3>2 DEF ClosesTo
      <4> QED
        BY <4>1 DEF Brackets
    <3>3. CASE ClosesTo(a, b, "call", 0, 0)
      <4>1. a.open = Append(b.open, <<"call", a.height - 0>>) /\ b.height = a.height - 0 + 0
        BY <3>1, <3>3 DEF ClosesTo
      <4> QED
        BY <4>1 DEF Brackets
    <3>4. CASE ClosesTo(a, b, "lambda", 0, 0)
      <4>1. a.open = Append(b.open, <<"lambda", a.height - 0>>) /\ b.height = a.height - 0 + 0
        BY <3>1, <3>4 DEF ClosesTo
      <4> QED
        BY <4>1 DEF Brackets
    <3>5. CASE ClosesTo(a, b, "destructure", 1, -1)
      <4>1. a.open = Append(b.open, <<"destructure", a.height - 1>>) /\ b.height = a.height - 1 + 0
        BY <3>1, <3>5 DEF ClosesTo
      <4> QED
        BY <4>1 DEF Brackets
    <3> QED
      BY <2>2, <3>2, <3>3, <3>4, <3>5
  <2>4. PICK bracket \in Brackets, extra \in {0, 1} :
           /\ a.open = Append(b.open, <<bracket, a.height - extra>>)
           /\ b.height = a.height - extra + (IF bracket = "sequence" THEN 1 ELSE 0)
    BY <2>3
  <2>5. a.open[Len(a.open)] = <<bracket, a.height - extra>>
    <3>1. IsSeq(b.open)
      BY <1>3, <1>11
    <3> HIDE DEF a, b, kind
    <3>2. /\ Len(a.open) = Len(b.open) + 1
          /\ a.open[Len(b.open) + 1] = <<bracket, a.height - extra>>
      BY <2>4, <3>1, SeqAdd
    <3> QED
      BY <3>2
  <2>6. Innermost(f[i]) = <<bracket, a.height - extra>>
    BY <2>1, <2>5 DEF Innermost
  <2>7. Floor(f[i]) = a.height - extra /\ (Within(f[i], "sequence") <=> bracket = "sequence")
    BY <2>1, <2>6 DEF Floor, Within
  <2> QED
    BY <2>4, <2>7
<1> QED
  BY <1>9, <1>10, <1>14, <1>18, <1>19, <1>20 DEF n, l

-----------------------------------------------------------------------------
(* Where the analyzer goes                                                  *)

\* The operands outside of all brackets.
Outer(a) == IF a.open = <<>> THEN a.height ELSE a.open[1][2]

\* There are only sequences, and a statement that destructures around them.
Nested(a) ==
    \A p \in 1..Len(a.open) :
        /\ a.open[p][2] >= Outer(a)
        /\ \/ a.open[p][1] = "sequence"
           \/ a.open[p] = <<"destructure", 0>> /\ p = 1

\* The events that are checked where they are.
Statements == {"if", "else", "while", "end", "break", "assign", "expression", "def", "then", "do",
               "return", "destructure"}
Visited == {"name", "literal", "string", "negate", "binary", "sequence", "item", "list", "tuple",
            "detup"} \cup Statements

\* The operands that an event takes, and gives.
Pops(kind) ==
    CASE kind \in {"binary", "assign"} -> 2
      [] kind \in {"negate", "item", "expression", "def", "then", "do", "return", "detup"} -> 1
      [] OTHER -> 0
Gives == {"name", "literal", "string", "list", "tuple", "negate", "binary", "assign"}

LEMMA NestedFacts ==
    ASSUME NEW a \in Level, Nested(a)
    PROVE  /\ Floor(a) >= Outer(a) \/ a.open = <<>>
           /\ ~ Within(a, "lambda") /\ ~ Within(a, "call")
           /\ Outer(a) \in Nat
           /\ \A n \in Int : Statement(a, n) => a.open = <<>> /\ a.height = n
<1>1. /\ a.open \in Seq(Brackets \X Nat) /\ Len(a.open) \in Nat /\ a.height \in Nat
      /\ a.open # <<>> => Len(a.open) \in 1..Len(a.open) /\ 1 \in 1..Len(a.open)
  BY LevelFacts, SeqFacts
<1>2. Outer(a) \in Nat
  BY <1>1 DEF Outer
<1>3. ~ Within(a, "lambda") /\ ~ Within(a, "call")
  BY <1>1 DEF Within, Innermost, Nested
<1>4. a.open # <<>> => Floor(a) >= Outer(a)
  BY <1>1 DEF Floor, Innermost, Nested
<1>5. \A n \in Int : Statement(a, n) => a.open = <<>> /\ a.height = n
  BY <1>1, <1>3 DEF Statement, Exactly, Floor
<1> QED
  BY <1>2, <1>3, <1>4, <1>5

LEMMA GroundNested == ASSUME NEW a \in Level, a.open = <<>> PROVE Nested(a)
<1>1. Len(a.open) = 0
  BY EmptySeq
<1> QED
  BY <1>1 DEF Nested

\* A bracket that is open, and what is outside of it.
LEMMA OuterOpen ==
    ASSUME NEW a \in Level, NEW b \in Level, NEW x, a.open = Append(b.open, x)
    PROVE  /\ a.open # <<>> /\ x \in Brackets \X Nat /\ Innermost(a) = x
           /\ Len(a.open) = Len(b.open) + 1
           /\ \A p \in 1..Len(b.open) : a.open[p] = b.open[p] /\ p \in 1..Len(a.open)
           /\ b.open # <<>> => Outer(a) = Outer(b)
           /\ b.open = <<>> => Outer(a) = x[2]
<1>1. IsSeq(b.open) /\ Len(b.open) \in Nat /\ a.open \in Seq(Brackets \X Nat)
  BY LevelFacts
<1>2. /\ a.open # <<>> /\ Len(a.open) = Len(b.open) + 1 /\ a.open[Len(b.open) + 1] = x
      /\ \A p \in 1..Len(b.open) : a.open[p] = b.open[p]
  BY <1>1, SeqAdd
<1>3. x \in Brackets \X Nat
  <2>1. Len(a.open) \in 1..Len(a.open)
    BY <1>1, <1>2
  <2> QED
    BY <1>1, <1>2, <2>1
<1>4. b.open # <<>> => Outer(a) = Outer(b)
  <2>1. b.open # <<>> => 1 \in 1..Len(b.open)
    BY <1>1, SeqFacts
  <2> QED
    BY <1>2, <2>1 DEF Outer
<1>5. b.open = <<>> => Outer(a) = x[2]
  <2>1. b.open = <<>> => Len(b.open) + 1 = 1
    BY EmptySeq
  <2> QED
    BY <1>2, <2>1 DEF Outer
<1> QED
  BY <1>1, <1>2, <1>3, <1>4, <1>5 DEF Innermost

LEMMA NestedOut ==
    ASSUME NEW a \in Level, NEW b \in Level, NEW x, a.open = Append(b.open, x), Nested(a)
    PROVE  Nested(b)
<1>1. /\ \A p \in 1..Len(b.open) : a.open[p] = b.open[p] /\ p \in 1..Len(a.open)
      /\ b.open # <<>> => Outer(a) = Outer(b)
  BY OuterOpen
<1>2. CASE b.open = <<>>
  BY <1>2, GroundNested
<1>3. CASE b.open # <<>>
  BY <1>1, <1>3 DEF Nested
<1> QED
  BY <1>2, <1>3

LEMMA NestedSame ==
    ASSUME NEW a \in Level, NEW b \in Level, a.open = b.open, Nested(a)
    PROVE  Nested(b)
<1>1. CASE b.open = <<>>
  BY <1>1, GroundNested
<1>2. CASE b.open # <<>>
  BY <1>2 DEF Nested, Outer
<1> QED
  BY <1>1, <1>2

\* An event that is visited, and how it moves.
LEMMA VisitedActs ==
    ASSUME NEW a \in Level, NEW b \in Level, NEW kind \in Visited, Acts(a, kind, b), Nested(a)
    PROVE  \/ /\ kind \notin Statements /\ a.open = b.open /\ (kind \in Gives \/ a.open # <<>>)
              /\ a.height >= Floor(a) + Pops(kind)
              /\ b.height = a.height - Pops(kind) + One(kind, Gives)
           \/ /\ kind \in Statements \ {"destructure"} /\ a.open = <<>> /\ b.open = <<>>
              /\ a.height = Pops(kind) /\ b.height = One(kind, Gives)
           \/ /\ kind = "sequence" /\ a.height >= Floor(a)
              /\ b.open = Append(a.open, <<"sequence", a.height>>) /\ b.height = a.height
           \/ /\ kind = "destructure" /\ a.open = <<>> /\ a.height = 0 /\ b.height = 0
              /\ b.open = Append(a.open, <<"destructure", 0>>)
           \/ /\ kind \in {"list", "tuple"} /\ b.height = a.height + 1
              /\ a.open = Append(b.open, <<"sequence", a.height>>)
           \/ /\ kind = "detup" /\ a.height = 1 /\ b.height = 0 /\ b.open = <<>>
              /\ a.open = Append(b.open, <<"destructure", 0>>)
<1>1. /\ a.height \in Nat /\ b.height \in Nat /\ Floor(a) \in Nat
      /\ \A n \in Int : Statement(a, n) => a.open = <<>> /\ a.height = n
  BY LevelFacts, NestedFacts
<1>2. CASE kind \in {"name", "literal", "string", "negate", "binary", "item"}
  <2>1. /\ kind \notin Statements /\ (kind \in Gives \/ kind = "item")
        /\ kind \in {"name", "literal", "string"} => Pops(kind) = 0 /\ One(kind, Gives) = 1
        /\ kind = "negate" => Pops(kind) = 1 /\ One(kind, Gives) = 1
        /\ kind = "binary" => Pops(kind) = 2 /\ One(kind, Gives) = 1
        /\ kind = "item" => Pops(kind) = 1 /\ One(kind, Gives) = 0
    BY <1>2 DEF Statements, Pops, One, Gives
  <2>2. /\ kind \in {"name", "literal", "string"} => Above(a, 0) /\ Moves(a, b, 1)
        /\ kind = "negate" => Above(a, 1) /\ Moves(a, b, 0)
        /\ kind = "binary" => Above(a, 2) /\ Moves(a, b, -1)
        /\ kind = "item" => Exactly(a, 1) /\ Moves(a, b, -1) /\ a.open # <<>>
    BY <1>2 DEF Acts, Within
  <2> QED
    BY <1>1, <1>2, <2>1, <2>2 DEF Above, Exactly, Moves, Up
<1>3. CASE kind \in Statements \ {"destructure"}
  <2>1. /\ kind = "assign" => Pops(kind) = 2 /\ One(kind, Gives) = 1
        /\ kind \in {"expression", "def", "then", "do", "return"} => Pops(kind) = 1 /\ One(kind, Gives) = 0
        /\ kind \in {"if", "else", "while", "end", "break"} => Pops(kind) = 0 /\ One(kind, Gives) = 0
    BY <1>3 DEF Statements, Pops, One, Gives
  <2>2. /\ kind = "assign" => Statement(a, 2) /\ Moves(a, b, -1)
        /\ kind \in {"expression", "def", "then", "do", "return"} => Statement(a, 1) /\ Moves(a, b, -1)
        /\ kind \in {"if", "else", "while", "end", "break"} => Statement(a, 0) /\ Moves(a, b, 0)
    BY <1>3 DEF Acts, Statements
  <2> QED
    BY <1>1, <1>3, <2>1, <2>2 DEF Moves, Up, Statements
<1>4. CASE kind = "sequence"
  <2>1. Above(a, 0) /\ b = Into(a, "sequence", 0)
    BY <1>4 DEF Acts, OpensTo
  <2> QED
    BY <1>1, <1>4, <2>1 DEF Above, Into
<1>5. CASE kind = "destructure"
  <2>1. Statement(a, 0) /\ b = Into(a, "destructure", 0)
    BY <1>5 DEF Acts, OpensTo
  <2>2. a.open = <<>> /\ a.height = 0
    BY <1>1, <2>1
  <2> QED
    BY <1>5, <2>1, <2>2 DEF Into
<1>6. CASE kind \in {"list", "tuple"}
  <2>1. ClosesTo(a, b, "sequence", 0, 1)
    BY <1>6 DEF Acts
  <2> QED
    BY <1>1, <1>6, <2>1 DEF ClosesTo
<1>7. CASE kind = "detup"
  <2>1. ClosesTo(a, b, "destructure", 1, -1)
    BY <1>7 DEF Acts
  <2>2. a.open = Append(b.open, <<"destructure", a.height - 1>>) /\ b.height = a.height - 1
    BY <1>1, <2>1 DEF ClosesTo
  <2> DEFINE x == <<"destructure", a.height - 1>>
  <2>3. Innermost(a) = x /\ Len(a.open) = Len(b.open) + 1 /\ a.open # <<>>
    BY <2>2, OuterOpen
  <2>4. IsSeq(a.open) /\ IsSeq(b.open) /\ Len(a.open) \in 1..Len(a.open) /\ Len(b.open) \in Nat
    BY <2>3, LevelFacts
  <2>5. x = <<"destructure", 0>> /\ Len(a.open) = 1
    <3> DEFINE p == Len(a.open)
    <3>1. p \in 1..Len(a.open) /\ a.open[p] = x
      BY <2>3, <2>4 DEF Innermost
    <3>2. a.open[p][1] = "destructure"
      BY <3>1
    <3> HIDE DEF p, x
    <3>3. a.open[p] = <<"destructure", 0>> /\ p = 1
      BY <3>1, <3>2 DEF Nested
    <3> QED
      BY <3>1, <3>3 DEF p
  <2>6. a.height - 1 = 0
    BY <2>5
  <2>7. b.open = <<>>
    <3> DEFINE m == Len(b.open)
    <3>2. m + 1 = 1 /\ m \in Nat
      BY <2>3, <2>4, <2>5
    <3> HIDE DEF m, x
    <3>3. m = 0
      BY <3>2
    <3>1. ~ (Len(b.open) > 0)
      BY <3>3 DEF m
    <3> QED
      BY <2>4, <3>1, SeqFacts
  <2> QED
    BY <1>1, <1>7, <2>2, <2>5, <2>6, <2>7
<1> QED
  BY <1>2, <1>3, <1>4, <1>5, <1>6, <1>7 DEF Visited

LEMMA NestedStep ==
    ASSUME NEW a \in Level, NEW b \in Level, NEW kind \in Visited, Acts(a, kind, b), Nested(a)
    PROVE  /\ Nested(b)
           /\ a.height >= Pops(kind)
           /\ b.height = a.height - Pops(kind) + One(kind, Gives)
<1>1. a.height \in Nat /\ b.height \in Nat /\ Floor(a) \in Nat /\ Outer(a) \in Nat
      /\ (Floor(a) >= Outer(a) \/ a.open = <<>>)
  BY LevelFacts, NestedFacts
<1>2. /\ Pops("sequence") = 0 /\ One("sequence", Gives) = 0
      /\ Pops("destructure") = 0 /\ One("destructure", Gives) = 0
      /\ Pops("list") = 0 /\ One("list", Gives) = 1
      /\ Pops("tuple") = 0 /\ One("tuple", Gives) = 1
      /\ Pops("detup") = 1 /\ One("detup", Gives) = 0
      /\ Pops(kind) \in {0, 1, 2}
  BY DEF Pops, One, Gives
<1>3. CASE kind \notin Statements /\ a.open = b.open
              /\ a.height >= Floor(a) + Pops(kind)
              /\ b.height = a.height - Pops(kind) + One(kind, Gives)
  BY <1>1, <1>2, <1>3, NestedSame
<1>4. CASE kind \in Statements \ {"destructure"} /\ a.open = <<>> /\ b.open = <<>>
              /\ a.height = Pops(kind) /\ b.height = One(kind, Gives)
  <2>1. One(kind, Gives) \in {0, 1}
    BY DEF One
  <2> QED
    BY <1>1, <1>2, <1>4, <2>1, GroundNested
<1>5. CASE /\ kind = "sequence" /\ a.height >= Floor(a)
           /\ b.open = Append(a.open, <<"sequence", a.height>>) /\ b.height = a.height
  <2> DEFINE x == <<"sequence", a.height>>
  <2>1. /\ Len(b.open) = Len(a.open) + 1 /\ Innermost(b) = x
        /\ \A p \in 1..Len(a.open) : b.open[p] = a.open[p]
        /\ a.open # <<>> => Outer(b) = Outer(a)
        /\ a.open = <<>> => Outer(b) = x[2]
    BY <1>5, OuterOpen
  <2>2. Len(a.open) \in Nat /\ b.open[Len(a.open) + 1] = x
    BY <2>1, LevelFacts DEF Innermost
  <2>3. a.open = <<>> => Len(a.open) = 0
    BY EmptySeq
  <2>4. Outer(b) = Outer(a)
    BY <2>1 DEF Outer
  <2>5. a.height >= Outer(a)
    BY <1>1, <1>5 DEF Outer
  <2>6. ASSUME NEW p \in 1..Len(b.open)
        PROVE  /\ b.open[p][2] >= Outer(b)
               /\ \/ b.open[p][1] = "sequence"
                  \/ b.open[p] = <<"destructure", 0>> /\ p = 1
    <3>1. p \in 1..Len(a.open) \/ p = Len(a.open) + 1
      BY <2>1, <2>2
    <3>2. CASE p \in 1..Len(a.open)
      BY <2>1, <2>4, <3>2 DEF Nested
    <3>3. CASE p = Len(a.open) + 1
      BY <2>2, <2>4, <2>5, <3>3
    <3> QED
      BY <3>1, <3>2, <3>3
  <2> QED
    BY <1>1, <1>2, <1>5, <2>6 DEF Nested
<1>6. CASE /\ kind = "destructure" /\ a.open = <<>> /\ a.height = 0 /\ b.height = 0
           /\ b.open = Append(a.open, <<"destructure", 0>>)
  <2> DEFINE x == <<"destructure", 0>>
  <2>1. Len(b.open) = Len(a.open) + 1 /\ Innermost(b) = x /\ Outer(b) = x[2]
    BY <1>6, OuterOpen
  <2>2. Len(b.open) = 1 /\ b.open[1] = x /\ Outer(b) = 0
    BY <1>6, <2>1, EmptySeq DEF Innermost
  <2> QED
    BY <1>1, <1>2, <1>6, <2>2 DEF Nested
<1>7. CASE /\ kind \in {"list", "tuple"} /\ b.height = a.height + 1
           /\ a.open = Append(b.open, <<"sequence", a.height>>)
  <2>1. Nested(b)
    BY <1>7, NestedOut
  <2> QED
    BY <1>1, <1>2, <1>7, <2>1
<1>8. CASE /\ kind = "detup" /\ a.height = 1 /\ b.height = 0 /\ b.open = <<>>
           /\ a.open = Append(b.open, <<"destructure", 0>>)
  BY <1>1, <1>2, <1>8, GroundNested
<1> QED
  BY <1>3, <1>4, <1>5, <1>6, <1>7, <1>8, VisitedActs

\* The first operand outside of all brackets stays, unless it is the one that is given.
LEMMA BaseStays ==
    ASSUME NEW a \in Level, NEW b \in Level, NEW kind \in Visited, Acts(a, kind, b), Nested(a),
           Outer(b) >= 1, ~ (b.open = <<>> /\ b.height = 1)
    PROVE  Outer(a) >= 1 /\ a.height - Pops(kind) >= 1
<1>1. a.height \in Nat /\ b.height \in Nat /\ Floor(a) \in Nat /\ Outer(a) \in Nat
      /\ (Floor(a) >= Outer(a) \/ a.open = <<>>)
  BY LevelFacts, NestedFacts
<1>2. /\ Pops("sequence") = 0 /\ Pops("list") = 0 /\ Pops("tuple") = 0
      /\ Pops(kind) \in {0, 1, 2} /\ One(kind, Gives) \in {0, 1}
  BY DEF Pops, One
<1>3. CASE kind \notin Statements /\ a.open = b.open
              /\ a.height >= Floor(a) + Pops(kind)
              /\ b.height = a.height - Pops(kind) + One(kind, Gives)
  <2>1. CASE a.open = <<>>
    <3>1. Outer(a) = a.height /\ Outer(b) = b.height
      BY <1>3, <2>1 DEF Outer
    <3> QED
      BY <1>1, <1>2, <1>3, <2>1, <3>1
  <2>2. CASE a.open # <<>>
    <3>1. Outer(a) = Outer(b)
      BY <1>3, <2>2 DEF Outer
    <3> QED
      BY <1>1, <1>2, <1>3, <2>2, <3>1
  <2> QED
    BY <2>1, <2>2
<1>4. CASE kind \in Statements \ {"destructure"} /\ a.open = <<>> /\ b.open = <<>>
              /\ a.height = Pops(kind) /\ b.height = One(kind, Gives)
  BY <1>2, <1>4 DEF Outer
<1>5. CASE /\ kind = "sequence" /\ a.height >= Floor(a)
           /\ b.open = Append(a.open, <<"sequence", a.height>>) /\ b.height = a.height
  <2> DEFINE x == <<"sequence", a.height>>
  <2>1. /\ a.open # <<>> => Outer(b) = Outer(a)
        /\ a.open = <<>> => Outer(b) = x[2]
    BY <1>5, OuterOpen
  <2>2. Outer(b) = Outer(a) /\ a.height >= Outer(a)
    BY <1>1, <1>5, <2>1 DEF Outer
  <2> QED
    BY <1>1, <1>2, <1>5, <2>2
<1>6. CASE /\ kind = "destructure" /\ a.open = <<>> /\ a.height = 0 /\ b.height = 0
           /\ b.open = Append(a.open, <<"destructure", 0>>)
  <2>1. Outer(b) = <<"destructure", 0>>[2]
    BY <1>6, OuterOpen
  <2> QED
    BY <2>1
<1>7. CASE /\ kind \in {"list", "tuple"} /\ b.height = a.height + 1
           /\ a.open = Append(b.open, <<"sequence", a.height>>)
  <2> DEFINE x == <<"sequence", a.height>>
  <2>1. /\ b.open # <<>> => Outer(a) = Outer(b)
        /\ b.open = <<>> => Outer(a) = x[2]
        /\ Innermost(a) = x /\ a.open # <<>>
    BY <1>7, OuterOpen
  <2>2. CASE b.open = <<>>
    <3>1. Outer(b) = b.height /\ Outer(a) = a.height
      BY <2>1, <2>2 DEF Outer
    <3> QED
      BY <1>1, <1>2, <1>7, <2>2, <3>1
  <2>3. CASE b.open # <<>>
    <3>1. Floor(a) = a.height
      BY <2>1 DEF Floor
    <3> QED
      BY <1>1, <1>2, <1>7, <2>1, <2>3, <3>1
  <2> QED
    BY <2>2, <2>3
<1>8. CASE /\ kind = "detup" /\ a.height = 1 /\ b.height = 0 /\ b.open = <<>>
           /\ a.open = Append(b.open, <<"destructure", 0>>)
  BY <1>8 DEF Outer
<1> QED
  BY <1>3, <1>4, <1>5, <1>6, <1>7, <1>8, VisitedActs

-----------------------------------------------------------------------------
(* What the analyzer has found out                                          *)

\* The items of names: those of the function, and what the program declares.
NamesIn(p) == {p[k].name : k \in {m \in DOMAIN p : p[m].kind # "import"}}
DeclaredAs(p, x) == p[CHOOSE k \in DOMAIN p : p[k].kind # "import" /\ p[k].name = x]
ItemOf(p, scope, x) ==
    IF x \in DOMAIN scope THEN scope[x]
    ELSE IF x \in NamesIn(p) THEN Callable(DeclaredAs(p, x)) ELSE Nothing

\* What the check of an event makes sure of.
SoundAt(p, d, i) ==
    LET events == d.body
        x == events[i][2]
    IN /\ events[i][1] = "name" => x \in NamesIn(p) \cup Locals(d, i)
       /\ events[i][1] = "def" => x \notin Locals(d, i)
       /\ (i > 1 /\ events[i][1] = "call" /\ events[i - 1][1] = "name"
             /\ events[i - 1][2] \notin Locals(d, i - 1)) =>
             Cardinality(PartsOf(events, "argument", i, Close(events, i)))
                = Len(DeclaredAs(p, events[i - 1][2]).params)
       /\ AssignsVariable(d, i)
SoundFrom(p, d, i, j) == \A k \in i..j : Checked(d.body, k) => SoundAt(p, d, k)

\* The first operand after event i, which event t has completed.
Single(a) == a.open = <<>> /\ a.height = 1
IsBase(f, t, i) == Single(f[t]) /\ \A k \in (t + 1)..i : ~ Single(f[k])
BaseFound(d, f, item, i) ==
    \E t \in 1..i : IsBase(f, t, i) /\ (check_assignability(item) => Variable(d, t, i + 1))

CallsClosed(events, i, j) == \A k \in i..j : events[k][1] = "call" => Close(events, k) <= j

\* A scope of the function, once event i has been checked.
ScopeAt(d, scope, i) ==
    /\ DOMAIN scope = Locals(d, i + 1)
    /\ \A x \in ParamsOf(d) : scope[x] = Parameter

\* After event i, no error has been found.
Fine(p, d, scope, s, i) ==
    LET f == LevelsOf(d.body)
    IN /\ ScopeAt(d, scope, i)
       /\ CallsClosed(d.body, 1, i)
       /\ i >= 1 /\ d.body[i][1] = "name" => s[Len(s)] = ItemOf(p, scope, d.body[i][2])
       /\ SoundFrom(p, d, 1, i)
       /\ Outer(f[i]) >= 1 => BaseFound(d, f, s[1], i)

Spoiled(s) == \E k \in 1..Len(s) : s[k] = Nothing

BodyAt(p, d, scope, s, i) ==
    /\ i \in 0..Len(d.body)
    /\ IsSeq(s) /\ Len(s) = LevelsOf(d.body)[i].height
    /\ Nested(LevelsOf(d.body)[i])
    /\ ~ Spoiled(s) => Fine(p, d, scope, s, i)

\* The results that are left, and the one that is new.
Left(s, n) == SubSeq(s, 1, Len(s) - n)
Given(s, kind, item) ==
    IF kind \in Gives THEN Append(Left(s, Pops(kind)), item) ELSE Left(s, Pops(kind))

\* No result that is nothing is forgotten.
Honest(s, kind, item) ==
    \A k \in 0..(Pops(kind) - 1) : s[Len(s) - k] = Nothing => kind \in Gives /\ item = Nothing

\* What the way from event i to event j has to show.
Shown(p, d, scope, kind, item, i, j) ==
    /\ ScopeAt(d, scope, j)
    /\ CallsClosed(d.body, i + 1, j)
    /\ d.body[j][1] = "name" => kind \in Gives /\ item = ItemOf(p, scope, d.body[j][2])
    /\ SoundFrom(p, d, i + 1, j)
    /\ kind \in Gives /\ check_assignability(item) => Variable(d, j, j + 1)
    /\ \A k \in (i + 1)..(j - 1) : ~ Single(LevelsOf(d.body)[k])

LEMMA LeftFacts ==
    ASSUME NEW s, IsSeq(s), NEW n \in 0..Len(s)
    PROVE  IsSeq(Left(s, n)) /\ Len(Left(s, n)) = Len(s) - n /\ \A k \in 1..(Len(s) - n) : Left(s, n)[k] = s[k]
<1>1. Len(s) \in Nat
  BY SeqFacts
<1> DEFINE m == Len(s) - n
<1>2. m \in Nat /\ m \in 0..Len(s) /\ m \in (1 - 1)..Len(s) /\ 1 \in 1..(Len(s) + 1)
  BY <1>1
<1>3. Left(s, n) = SubSeq(s, 1, m)
  BY DEF Left
<1> HIDE DEF m
<1>4. /\ IsSeq(SubSeq(s, 1, m)) /\ Len(SubSeq(s, 1, m)) = m - 1 + 1
      /\ \A k \in 1..(m - 1 + 1) : SubSeq(s, 1, m)[k] = s[1 + k - 1]
  BY <1>2, SeqPart
<1>5. m - 1 + 1 = m /\ \A k \in 1..m : 1 + k - 1 = k
  BY <1>2
<1>6. IsSeq(Left(s, n)) /\ Len(Left(s, n)) = m /\ \A k \in 1..m : Left(s, n)[k] = s[k]
  BY <1>3, <1>4, <1>5
<1> QED
  BY <1>6 DEF m

LEMMA GivenFacts ==
    ASSUME NEW s, IsSeq(s), NEW kind, Pops(kind) <= Len(s), NEW item
    PROVE  LET t == Given(s, kind, item)
           IN /\ IsSeq(t) /\ Len(t) = Len(s) - Pops(kind) + One(kind, Gives)
              /\ \A k \in 1..(Len(s) - Pops(kind)) : t[k] = s[k]
              /\ kind \in Gives => t[Len(t)] = item
              /\ Spoiled(s) /\ Honest(s, kind, item) => Spoiled(t)
<1> DEFINE n == Pops(kind)
<1> DEFINE l == Left(s, n)
<1> DEFINE t == Given(s, kind, item)
<1>1. Len(s) \in Nat /\ n \in {0, 1, 2} /\ n <= Len(s) /\ n \in 0..Len(s)
  BY SeqFacts DEF Pops
<1>2. IsSeq(l) /\ Len(l) = Len(s) - n /\ \A k \in 1..(Len(s) - n) : l[k] = s[k]
  <2> HIDE DEF n
  <2> QED
    BY <1>1, LeftFacts
<1>3. CASE kind \in Gives
  <2>1. t = Append(l, item) /\ One(kind, Gives) = 1
    BY <1>3 DEF Given, One
  <2> HIDE DEF t, l, n
  <2>2. /\ IsSeq(t) /\ Len(t) = Len(s) - n + 1 /\ t[Len(l) + 1] = item
        /\ \A k \in 1..(Len(s) - n) : t[k] = s[k]
    BY <1>2, <2>1, SeqAdd
  <2>3. t[Len(t)] = item
    BY <1>2, <2>2
  <2>4. ASSUME Spoiled(s), \A k \in 0..(n - 1) : s[Len(s) - k] = Nothing => item = Nothing
        PROVE  Spoiled(t)
    <3>1. PICK k \in 1..Len(s) : s[k] = Nothing
      BY <2>4 DEF Spoiled
    <3>2. CASE k \in 1..(Len(s) - n)
      <4>1. k \in 1..Len(t) /\ t[k] = Nothing
        BY <1>1, <2>2, <3>1, <3>2
      <4> QED
        BY <4>1 DEF Spoiled
    <3>3. CASE k \notin 1..(Len(s) - n)
      <4> DEFINE m == Len(s) - k
      <4>1. m \in 0..(n - 1) /\ Len(s) - m = k
        BY <1>1, <3>3
      <4> HIDE DEF m
      <4>2. item = Nothing
        BY <2>4, <3>1, <4>1
      <4>3. Len(t) \in 1..Len(t)
        BY <1>1, <2>2
      <4> QED
        BY <2>3, <4>2, <4>3 DEF Spoiled
    <3> QED
      BY <3>2, <3>3
  <2> QED
    BY <1>3, <2>1, <2>2, <2>3, <2>4 DEF t, n, Honest
<1>4. CASE kind \notin Gives
  <2>1. t = l /\ One(kind, Gives) = 0
    BY <1>4 DEF Given, One
  <2> HIDE DEF t, l, n
  <2>2. /\ IsSeq(t) /\ Len(t) = Len(s) - n + 0
        /\ \A k \in 1..(Len(s) - n) : t[k] = s[k]
    BY <1>1, <1>2, <2>1
  <2>4. ASSUME Spoiled(s), \A k \in 0..(n - 1) : s[Len(s) - k] # Nothing
        PROVE  Spoiled(t)
    <3>1. PICK k \in 1..Len(s) : s[k] = Nothing
      BY <2>4 DEF Spoiled
    <3>2. CASE k \in 1..(Len(s) - n)
      <4>1. k \in 1..Len(t) /\ t[k] = Nothing
        BY <1>1, <2>2, <3>1, <3>2
      <4> QED
        BY <4>1 DEF Spoiled
    <3>3. CASE k \notin 1..(Len(s) - n)
      <4> DEFINE m == Len(s) - k
      <4>1. m \in 0..(n - 1) /\ Len(s) - m = k
        BY <1>1, <3>3
      <4> HIDE DEF m
      <4> QED
        BY <2>4, <3>1, <4>1
    <3> QED
      BY <3>2, <3>3
  <2> QED
    BY <1>4, <2>1, <2>2, <2>4 DEF t, n, Honest
<1> QED
  BY <1>3, <1>4

LEMMA LocalsGrow ==
    ASSUME NEW d, NEW i \in Nat, NEW j \in Nat, i <= j
    PROVE  Locals(d, i) \subseteq Locals(d, j) /\ \A t : Variable(d, t, i) => Variable(d, t, j)
<1>1. 1..(i - 1) \subseteq 1..(j - 1)
  OBVIOUS
<1>2. Locals(d, i) \subseteq Locals(d, j)
  BY <1>1 DEF Locals
<1> QED
  BY <1>2 DEF Variable

LEMMA LevelsSteps ==
    ASSUME NEW events, IsSeq(events), NEW f, Levels(events, f)
    PROVE  /\ \A k \in 0..Len(events) : f[k] \in Level
           /\ \A k \in 1..Len(events) :
                /\ k - 1 \in 0..Len(events) /\ k \in 0..Len(events)
                /\ f[k - 1] \in Level /\ f[k] \in Level /\ Acts(f[k - 1], events[k][1], f[k])
                /\ events[k] = <<events[k][1], events[k][2]>>
<1>1. Len(events) \in Nat
  BY SeqFacts
<1>2. \A k \in 1..Len(events) : k - 1 \in 0..Len(events) /\ k \in 0..Len(events)
  BY <1>1
<1> QED
  BY <1>2 DEF Levels

LEMMA OpenerFacts ==
    ASSUME NEW events, IsSeq(events), NEW f, Levels(events, f),
           NEW k \in 1..Len(events), events[k][1] \in Openers
    PROVE  /\ f[k].open # <<>> /\ Len(f[k].open) = Len(f[k - 1].open) + 1
           /\ f[k].open = Append(f[k - 1].open, <<events[k][1], f[k].height>>)
           /\ Innermost(f[k]) = <<events[k][1], f[k].height>>
           /\ Close(events, k) \in (k + 1)..Len(events)
<1> DEFINE a == f[k - 1]
<1> DEFINE b == f[k]
<1> DEFINE kind == events[k][1]
<1>1. a \in Level /\ b \in Level /\ Acts(a, kind, b) /\ kind \in Openers
  BY LevelsSteps
<1> HIDE DEF a, b, kind
<1>2. b.open = Append(a.open, <<kind, b.height>>)
  BY <1>1, StepFacts
<1>3. b.open # <<>> /\ Innermost(b) = <<kind, b.height>> /\ Len(b.open) = Len(a.open) + 1
  BY <1>1, <1>2, OuterOpen
<1>4. Close(events, k) \in (k + 1)..Len(events)
  <2>1. f[k].open # <<>>
    BY <1>3 DEF b
  <2> QED
    BY <2>1, CloseFacts
<1> QED
  BY <1>2, <1>3, <1>4 DEF a, b, kind

\* From one event to the next that is looked at, or to the end of a call: the way goes as
\* an event would that is visited.
LEMMA BodyStep ==
    ASSUME NEW p, NEW d, Leads(d.body, Ground), NEW scope, NEW s, NEW i, BodyAt(p, d, scope, s, i),
           NEW j \in (i + 1)..Len(d.body), NEW kind \in Visited,
           Acts(LevelsOf(d.body)[i], kind, LevelsOf(d.body)[j]),
           NEW item, Honest(s, kind, item), NEW after,
           ~ Spoiled(Given(s, kind, item)) /\ Fine(p, d, scope, s, i) =>
              Shown(p, d, after, kind, item, i, j)
    PROVE  BodyAt(p, d, after, Given(s, kind, item), j)
<1> DEFINE events == d.body
<1> DEFINE n == Len(events)
<1> DEFINE f == LevelsOf(events)
<1> DEFINE a == f[i]
<1> DEFINE b == f[j]
<1> DEFINE t == Given(s, kind, item)
<1>1. IsSeq(events) /\ Levels(events, f) /\ n \in Nat
  BY LevelsGiven, SeqFacts
<1>2. i \in 0..n /\ IsSeq(s) /\ Len(s) = a.height /\ Nested(a) /\ (~ Spoiled(s) => Fine(p, d, scope, s, i))
  BY DEF BodyAt
<1>3. j \in 0..n /\ j \in 1..n /\ i \in Nat /\ j \in Nat /\ i < j
  BY <1>1, <1>2
<1>4. a \in Level /\ b \in Level
  <2>1. f \in [0..n -> Level]
    BY <1>1 DEF Levels
  <2> QED
    BY <1>2, <1>3, <2>1
<1>5. Acts(a, kind, b)
  OBVIOUS
<1>6. ~ Spoiled(t) /\ Fine(p, d, scope, s, i) => Shown(p, d, after, kind, item, i, j)
  OBVIOUS
<1> HIDE DEF a, b, t
<1>7. Nested(b) /\ a.height >= Pops(kind) /\ b.height = a.height - Pops(kind) + One(kind, Gives)
  BY <1>2, <1>4, <1>5, NestedStep
<1>8. /\ a.height \in Nat /\ b.height \in Nat /\ Pops(kind) \in {0, 1, 2} /\ One(kind, Gives) \in {0, 1}
      /\ Pops(kind) <= Len(s)
  BY <1>2, <1>4, <1>7, LevelFacts DEF Pops, One
<1>9. /\ IsSeq(t) /\ Len(t) = Len(s) - Pops(kind) + One(kind, Gives)
      /\ \A k \in 1..(Len(s) - Pops(kind)) : t[k] = s[k]
      /\ kind \in Gives => t[Len(t)] = item
      /\ Spoiled(s) => Spoiled(t)
  BY <1>2, <1>8, GivenFacts DEF t
<1>10. ASSUME ~ Spoiled(t) PROVE Fine(p, d, after, t, j)
  <2>1. Fine(p, d, scope, s, i)
    BY <1>2, <1>9, <1>10
  <2>2. Shown(p, d, after, kind, item, i, j)
    BY <1>6, <1>10, <2>1
  <2>3. CallsClosed(events, 1, j)
    <3>1. CallsClosed(events, 1, i) /\ CallsClosed(events, i + 1, j)
      BY <2>1, <2>2 DEF Fine, Shown
    <3> HIDE DEF events
    <3>2. ASSUME NEW k \in 1..j, events[k][1] = "call" PROVE Close(events, k) <= j
      <4>1. CASE k \in 1..i
        <5>1. k \in 1..n /\ events[k][1] \in Openers
          BY <1>1, <1>2, <3>2, <4>1 DEF Openers
        <5>2. Close(events, k) \in (k + 1)..n
          BY <1>1, <5>1, OpenerFacts
        <5>3. Close(events, k) <= i
          BY <3>1, <3>2, <4>1 DEF CallsClosed
        <5> QED
          BY <1>1, <1>3, <5>1, <5>2, <5>3
      <4>2. CASE k \in (i + 1)..j
        BY <3>1, <3>2, <4>2 DEF CallsClosed
      <4> QED
        BY <1>3, <4>1, <4>2
    <3> QED
      BY <3>2 DEF CallsClosed
  <2>4. SoundFrom(p, d, 1, j)
    <3>1. SoundFrom(p, d, 1, i) /\ SoundFrom(p, d, i + 1, j)
      BY <2>1, <2>2 DEF Fine, Shown
    <3>2. \A k \in 1..j : k \in 1..i \/ k \in (i + 1)..j
      BY <1>3
    <3> QED
      BY <3>1, <3>2 DEF SoundFrom
  <2>5. ASSUME events[j][1] = "name" PROVE t[Len(t)] = ItemOf(p, after, events[j][2])
    BY <1>9, <2>2, <2>5 DEF Shown
  <2>6. ASSUME Outer(b) >= 1 PROVE BaseFound(d, f, t[1], j)
    <3>1. CASE Single(b)
      <4>1. kind \in Gives /\ Len(t) = 1
        <5>1. b.open = <<>> /\ b.height = 1
          BY <3>1 DEF Single
        <5>2. kind \in Gives
          <6>1. \/ a.open = b.open /\ (kind \in Gives \/ a.open # <<>>)
                \/ b.height = One(kind, Gives)
                \/ \E x : b.open = Append(a.open, x)
                \/ kind \in {"list", "tuple"}
                \/ b.height = 0
            BY <1>2, <1>4, <1>5, VisitedActs
          <6>2. \A x : b.open # Append(a.open, x)
            BY <1>4, <5>1, OuterOpen
          <6> QED
            BY <5>1, <6>1, <6>2 DEF One, Gives
        <5> QED
          BY <1>2, <1>7, <1>9, <5>1, <5>2
      <4>2. t[1] = item
        BY <1>9, <4>1
      <4>3. IsBase(f, j, j)
        <5>1. (j + 1)..j = {}
          BY <1>3
        <5> QED
          BY <3>1, <5>1 DEF IsBase, b
      <4>4. check_assignability(item) => Variable(d, j, j + 1)
        BY <2>2, <4>1 DEF Shown
      <4>5. j \in 1..j
        BY <1>3
      <4> QED
        BY <4>2, <4>3, <4>4, <4>5 DEF BaseFound
    <3>2. CASE ~ Single(b)
      <4>1. Outer(a) >= 1 /\ a.height - Pops(kind) >= 1
        BY <1>2, <1>4, <1>5, <2>6, <3>2, BaseStays DEF Single
      <4>2. t[1] = s[1]
        BY <1>2, <1>8, <1>9, <4>1
      <4>3. BaseFound(d, f, s[1], i)
        BY <2>1, <4>1 DEF Fine, a
      <4>4. PICK u \in 1..i : IsBase(f, u, i) /\ (check_assignability(s[1]) => Variable(d, u, i + 1))
        BY <4>3 DEF BaseFound
      <4>5. u \in 1..j /\ i + 1 \in Nat /\ j + 1 \in Nat /\ i + 1 <= j + 1
        BY <1>3
      <4>6. IsBase(f, u, j)
        <5>1. \A k \in (i + 1)..(j - 1) : ~ Single(f[k])
          BY <2>2 DEF Shown
        <5>2. ASSUME NEW k \in (u + 1)..j PROVE ~ Single(f[k])
          <6>1. k \in (u + 1)..i \/ k \in (i + 1)..(j - 1) \/ k = j
            BY <1>3
          <6> QED
            BY <3>2, <4>4, <5>1, <6>1 DEF IsBase, b
        <5> QED
          BY <4>4, <5>2 DEF IsBase
      <4>7. Variable(d, u, i + 1) => Variable(d, u, j + 1)
        BY <4>5, LocalsGrow
      <4> QED
        BY <4>2, <4>4, <4>5, <4>6, <4>7 DEF BaseFound
    <3> QED
      BY <3>1, <3>2
  <2>7. ScopeAt(d, after, j)
    BY <2>2 DEF Shown
  <2> QED
    BY <2>3, <2>4, <2>5, <2>6, <2>7 DEF Fine, b
<1> QED
  BY <1>2, <1>3, <1>7, <1>9, <1>10 DEF BodyAt, b, t

\* Names stay the same where nothing is defined.
NoDefs(d, i, j) == \A k \in (i + 1)..j : d.body[k][1] # "def" \/ ~ Checked(d.body, k)

LEMMA LocalsStay ==
    ASSUME NEW d, NEW i \in Nat, NEW j \in Nat, i <= j, NoDefs(d, i, j)
    PROVE  Locals(d, j + 1) = Locals(d, i + 1)
<1> DEFINE Defs(n) == {k \in 1..(n - 1) : d.body[k][1] = "def" /\ Checked(d.body, k)}
<1>1. Defs(j + 1) = Defs(i + 1)
  BY DEF NoDefs
<1> QED
  BY <1>1 DEF Locals

\* An event at which the analyzer arrives is checked.
LEMMA ArrivedChecked ==
    ASSUME NEW events, NEW i \in Nat, CallsClosed(events, 1, i),
           IsSeq(events), NEW f, Levels(events, f), i <= Len(events)
    PROVE  Checked(events, i + 1)
<1>1. ASSUME NEW k \in 1..((i + 1) - 1), events[k][1] = "call" PROVE Close(events, k) <= i + 1
  <2>1. k \in 1..i /\ k \in 1..Len(events) /\ Len(events) \in Nat
    BY <1>1, SeqFacts
  <2>2. Close(events, k) <= i
    BY <1>1, <2>1 DEF CallsClosed
  <2>3. Close(events, k) \in (k + 1)..Len(events)
    <3>1. events[k][1] \in Openers
      BY <1>1 DEF Openers
    <3> QED
      BY <2>1, <3>1, OpenerFacts
  <2> QED
    BY <2>1, <2>2, <2>3
<1> QED
  BY <1>1 DEF Checked

\* What the next event has to show, if it is neither a definition nor opens a call.
LEMMA NextShown ==
    ASSUME NEW p, NEW d, NEW scope, NEW item, NEW i \in Nat, ScopeAt(d, scope, i),
           NEW kind, kind = d.body[i + 1][1], kind \notin {"def", "call"},
           kind = "name" => kind \in Gives /\ item = ItemOf(p, scope, d.body[i + 1][2])
                              /\ d.body[i + 1][2] \in NamesIn(p) \cup Locals(d, i + 1),
           kind = "assign" => Variable(d, Target(d.body, i + 1), i + 1),
           kind \in Gives /\ check_assignability(item) => Variable(d, i + 1, i + 2)
    PROVE  Shown(p, d, scope, kind, item, i, i + 1)
<1>1. (i + 1)..(i + 1) = {i + 1} /\ i + 1 \in Nat /\ i <= i + 1 /\ (i + 1) + 1 = i + 2
      /\ (i + 1)..((i + 1) - 1) = {}
  OBVIOUS
<1>2. ScopeAt(d, scope, i + 1)
  <2>1. Locals(d, (i + 1) + 1) = Locals(d, i + 1)
    <3>1. NoDefs(d, i, i + 1)
      BY <1>1 DEF NoDefs
    <3> QED
      BY <1>1, <3>1, LocalsStay
  <2> QED
    BY <2>1 DEF ScopeAt
<1>3. CallsClosed(d.body, i + 1, i + 1)
  BY <1>1 DEF CallsClosed
<1>4. SoundAt(p, d, i + 1)
  BY DEF SoundAt, AssignsVariable
<1>5. SoundFrom(p, d, i + 1, i + 1)
  BY <1>1, <1>4 DEF SoundFrom
<1> QED
  BY <1>1, <1>2, <1>3, <1>5 DEF Shown

LEMMA GivenSomething ==
    ASSUME NEW s, IsSeq(s), NEW kind \in Gives, Pops(kind) <= Len(s), NEW item,
           ~ Spoiled(Given(s, kind, item))
    PROVE  item # Nothing
<1> DEFINE t == Given(s, kind, item)
<1>1. /\ IsSeq(t) /\ Len(t) = Len(s) - Pops(kind) + One(kind, Gives)
      /\ kind \in Gives => t[Len(t)] = item
  BY GivenFacts
<1>2. ~ Spoiled(t)
  OBVIOUS
<1> HIDE DEF t
<1>3. Len(s) \in Nat /\ Pops(kind) \in {0, 1, 2} /\ One(kind, Gives) = 1
  BY SeqFacts DEF Pops, One
<1>4. Len(t) \in 1..Len(t)
  BY <1>1, <1>3
<1> QED
  BY <1>1, <1>2, <1>4 DEF Spoiled

\* A name.
LEMMA NameStep ==
    ASSUME NEW p, NEW d, Leads(d.body, Ground), NEW scope, NEW s, NEW i, BodyAt(p, d, scope, s, i),
           i + 1 \in 1..Len(d.body), d.body[i + 1][1] = "name"
    PROVE  BodyAt(p, d, scope, Given(s, "name", ItemOf(p, scope, d.body[i + 1][2])), i + 1)
<1> DEFINE x == d.body[i + 1][2]
<1> DEFINE item == ItemOf(p, scope, x)
<1> DEFINE t == Given(s, "name", item)
<1>1. IsSeq(d.body) /\ Levels(d.body, LevelsOf(d.body)) /\ i \in 0..Len(d.body) /\ IsSeq(s) /\ i \in Nat
      /\ Len(d.body) \in Nat
  BY LevelsGiven, SeqFacts DEF BodyAt
<1>2. Acts(LevelsOf(d.body)[i], "name", LevelsOf(d.body)[i + 1]) /\ i + 1 \in (i + 1)..Len(d.body)
  <2>1. (i + 1) - 1 = i
    BY <1>1
  <2> QED
    BY <1>1, <2>1, LevelsSteps
<1>3. "name" \in Visited /\ Pops("name") = 0 /\ "name" \in Gives
  BY DEF Visited, Pops, Gives
<1>4. Honest(s, "name", item)
  BY <1>3 DEF Honest
<1>5. ASSUME ~ Spoiled(t), Fine(p, d, scope, s, i) PROVE Shown(p, d, scope, "name", item, i, i + 1)
  <2>1. ScopeAt(d, scope, i)
    BY <1>5 DEF Fine
  <2>2. item # Nothing
    <3>1. Pops("name") <= Len(s)
      BY <1>1, <1>3, SeqFacts
    <3> HIDE DEF item
    <3> QED
      BY <1>1, <1>3, <1>5, <3>1, GivenSomething
  <2>3. x \in DOMAIN scope \/ x \in NamesIn(p)
    BY <2>2 DEF ItemOf
  <2>4. x \in NamesIn(p) \cup Locals(d, i + 1)
    BY <2>1, <2>3 DEF ScopeAt
  <2>5. ASSUME check_assignability(item) PROVE Variable(d, i + 1, i + 2)
    <3>1. ~ check_assignability(Nothing) /\ ~ check_assignability(Parameter)
          /\ \A q : ~ check_assignability(Callable(q))
      BY DEF check_assignability, Nothing, Parameter, Callable, SemanticItem
    <3>2. x \in DOMAIN scope /\ x \notin ParamsOf(d)
      BY <2>1, <2>5, <3>1 DEF ItemOf, ScopeAt
    <3>3. x \in Locals(d, i + 2)
      <4>1. i + 1 \in Nat /\ i + 2 \in Nat /\ i + 1 <= i + 2
        BY <1>1
      <4>2. x \in Locals(d, i + 1)
        BY <2>1, <3>2 DEF ScopeAt
      <4> QED
        BY <4>1, <4>2, LocalsGrow
    <3> QED
      BY <3>2, <3>3 DEF Variable
  <2> HIDE DEF item
  <2>6. "name" = d.body[i + 1][1] /\ "name" \notin {"def", "call"} /\ "name" # "assign"
    OBVIOUS
  <2> QED
    BY <1>1, <1>3, <2>1, <2>4, <2>5, <2>6, NextShown DEF item
<1> HIDE DEF item, t
<1>6. BodyAt(p, d, scope, Given(s, "name", item), i + 1)
  BY <1>2, <1>3, <1>4, <1>5, BodyStep DEF t
<1> QED
  BY <1>6 DEF item

\* The left-hand side of an assignment.
LEMMA TargetFound ==
    ASSUME NEW d, Leads(d.body, Ground), NEW i \in Nat, i + 1 \in 1..Len(d.body),
           NEW t \in 1..i, IsBase(LevelsOf(d.body), t, i), LevelsOf(d.body)[i + 1].open = <<>>
    PROVE  Target(d.body, i + 1) = t
<1> DEFINE events == d.body
<1> DEFINE f == LevelsOf(events)
<1> DEFINE One1(j) == Height(events)[j] = 1 /\ Depth(events)[j] = Depth(events)[i + 1]
<1>1. IsSeq(events) /\ Levels(events, f) /\ Len(events) \in Nat
  BY LevelsGiven, SeqFacts
<1>2. \A j \in 0..Len(events) :
        /\ Height(events)[j] = f[j].height /\ Depth(events)[j] = Len(f[j].open)
        /\ IsSeq(f[j].open) /\ Len(f[j].open) \in Nat
  <2> TAKE j \in 0..Len(events)
  <2>1. f[j] \in Level
    BY <1>1, LevelsSteps
  <2> QED
    BY <1>1, <2>1, LevelsAre, LevelFacts
<1>3. Depth(events)[i + 1] = 0
  <2>1. i + 1 \in 0..Len(events) /\ f[i + 1].open = <<>>
    BY <1>1
  <2> QED
    BY <1>2, <2>1, EmptySeq
<1>4. \A j \in 1..i : One1(j) <=> Single(f[j])
  <2> TAKE j \in 1..i
  <2>1. j \in 0..Len(events)
    BY <1>1
  <2>2. Len(f[j].open) = 0 <=> f[j].open = <<>>
    BY <1>2, <2>1, SeqFacts
  <2> QED
    BY <1>2, <1>3, <2>1, <2>2 DEF Single
<1>5. (i + 1) - 1 = i /\ i \in Nat /\ t \in Nat
  OBVIOUS
<1>6. Target(events, i + 1) =
         CHOOSE j \in 1..((i + 1) - 1) : One1(j) /\ \A k \in (j + 1)..((i + 1) - 1) : ~ One1(k)
  BY DEF Target
<1> HIDE DEF One1, events
<1>7. Target(events, i + 1) = CHOOSE j \in 1..i : One1(j) /\ \A k \in (j + 1)..i : ~ One1(k)
  BY <1>5, <1>6
<1>8. Single(f[t]) /\ \A k \in (t + 1)..i : ~ Single(f[k])
  BY DEF IsBase, events
<1>9. One1(t) /\ \A k \in (t + 1)..i : ~ One1(k)
  BY <1>4, <1>8
<1>10. ASSUME NEW j \in 1..i, One1(j), \A k \in (j + 1)..i : ~ One1(k) PROVE j = t
  <2>1. ~ (j < t)
    BY <1>9, <1>10
  <2>2. ~ (t < j)
    BY <1>9, <1>10
  <2> QED
    BY <2>1, <2>2
<1>11. Target(events, i + 1) = t
  BY <1>7, <1>9, <1>10
<1> QED
  BY <1>11 DEF events

\* Any other event that is visited, but for definitions.
LEMMA PlainStep ==
    ASSUME NEW p, NEW d, Leads(d.body, Ground), NEW scope, NEW s, NEW i, BodyAt(p, d, scope, s, i),
           i + 1 \in 1..Len(d.body), NEW kind \in Visited \ {"name", "def", "destructure"},
           d.body[i + 1][1] = kind, NEW item, Honest(s, kind, item),
           kind \in Gives /\ check_assignability(item) => d.body[i + 1] = <<"binary", <<"seq_obj_get">>>>,
           kind = "assign" /\ item # Nothing => check_assignability(s[Len(s) - 1])
    PROVE  BodyAt(p, d, scope, Given(s, kind, item), i + 1)
<1> DEFINE f == LevelsOf(d.body)
<1> DEFINE t == Given(s, kind, item)
<1>1. IsSeq(d.body) /\ Levels(d.body, f) /\ i \in 0..Len(d.body) /\ IsSeq(s) /\ i \in Nat
      /\ Len(d.body) \in Nat /\ Nested(f[i]) /\ Len(s) = f[i].height /\ f[i] \in Level
  <2>1. IsSeq(d.body) /\ Levels(d.body, f) /\ i \in 0..Len(d.body) /\ Len(d.body) \in Nat
    BY LevelsGiven, SeqFacts DEF BodyAt
  <2> QED
    BY <2>1, LevelsSteps DEF BodyAt
<1>2. Acts(f[i], kind, f[i + 1]) /\ f[i + 1] \in Level /\ i + 1 \in (i + 1)..Len(d.body)
  <2>1. (i + 1) - 1 = i
    BY <1>1
  <2> QED
    BY <1>1, <2>1, LevelsSteps
<1>3. kind \in Visited /\ kind \notin {"name", "def", "call", "destructure"}
  BY DEF Visited, Statements
<1>4. ASSUME ~ Spoiled(t), Fine(p, d, scope, s, i) PROVE Shown(p, d, scope, kind, item, i, i + 1)
  <2>1. ScopeAt(d, scope, i)
    BY <1>4 DEF Fine
  <2>2. ASSUME kind = "assign" PROVE Variable(d, Target(d.body, i + 1), i + 1)
    <3>1. kind \in Statements \ {"destructure"} /\ Pops(kind) = 2 /\ kind \in Gives
      BY <2>2 DEF Statements, Pops, Gives
    <3>2. f[i].open = <<>> /\ f[i].height = 2 /\ f[i + 1].open = <<>>
      <4>1. /\ Statement(f[i], 2) /\ Moves(f[i], f[i + 1], -1)
        BY <1>2, <2>2 DEF Acts
      <4>2. f[i].open = <<>> /\ f[i].height = 2
        BY <1>1, <4>1, NestedFacts
      <4> QED
        BY <4>1, <4>2 DEF Moves, Up
    <3>3. Len(s) = 2 /\ Len(s) - 1 = 1 /\ Outer(f[i]) >= 1
      BY <1>1, <3>2 DEF Outer
    <3>4. item # Nothing
      <4>1. Pops(kind) <= Len(s) /\ kind \in Gives /\ IsSeq(s)
        BY <1>1, <3>1, <3>3
      <4>2. ~ Spoiled(Given(s, kind, item))
        BY <1>4
      <4> QED
        BY <4>1, <4>2, GivenSomething
    <3>5. check_assignability(s[1])
      BY <2>2, <3>3, <3>4
    <3>6. BaseFound(d, f, s[1], i)
      BY <1>4, <3>3 DEF Fine
    <3>7. PICK u \in 1..i : IsBase(f, u, i) /\ Variable(d, u, i + 1)
      BY <3>5, <3>6 DEF BaseFound
    <3>8. Target(d.body, i + 1) = u
      BY <1>1, <3>2, <3>7, TargetFound
    <3> QED
      BY <3>7, <3>8
  <2>3. ASSUME kind \in Gives, check_assignability(item) PROVE Variable(d, i + 1, i + 2)
    BY <2>3 DEF Variable
  <2> HIDE DEF f, t
  <2> QED
    BY <1>1, <1>3, <2>1, <2>2, <2>3, NextShown
<1>5. BodyAt(p, d, scope, t, i + 1)
  BY <1>2, <1>3, <1>4, BodyStep
<1> QED
  BY <1>5

\* A definition.
LEMMA DefStep ==
    ASSUME NEW p, NEW d, Leads(d.body, Ground), NEW scope, NEW s, NEW i, BodyAt(p, d, scope, s, i),
           i + 1 \in 1..Len(d.body), d.body[i + 1][1] = "def",
           s[Len(s)] # Nothing, d.body[i + 1][2] \notin DOMAIN scope, NEW item, NEW after,
           after = [y \in DOMAIN scope \cup {d.body[i + 1][2]} |->
                      IF y = d.body[i + 1][2] THEN item ELSE scope[y]]
    PROVE  BodyAt(p, d, after, Left(s, 1), i + 1)
<1> DEFINE f == LevelsOf(d.body)
<1> DEFINE x == d.body[i + 1][2]
<1>1. IsSeq(d.body) /\ Levels(d.body, f) /\ i \in 0..Len(d.body) /\ IsSeq(s) /\ i \in Nat
      /\ Len(d.body) \in Nat /\ Len(s) \in Nat
  BY LevelsGiven, SeqFacts DEF BodyAt
<1>2. Acts(f[i], "def", f[i + 1]) /\ i + 1 \in (i + 1)..Len(d.body)
  <2>1. (i + 1) - 1 = i
    BY <1>1
  <2> QED
    BY <1>1, <2>1, LevelsSteps
<1>3. "def" \in Visited /\ Pops("def") = 1 /\ "def" \notin Gives
  BY DEF Visited, Statements, Pops, Gives
<1>4. Honest(s, "def", item)
  <2>1. \A k \in 0..(1 - 1) : k = 0
    OBVIOUS
  <2>2. Len(s) - 0 = Len(s)
    BY <1>1
  <2> QED
    BY <1>3, <2>1, <2>2 DEF Honest
<1>5. Given(s, "def", item) = Left(s, 1)
  BY <1>3 DEF Given
<1>6. ASSUME Fine(p, d, scope, s, i) PROVE Shown(p, d, after, "def", item, i, i + 1)
  <2>1. ScopeAt(d, scope, i) /\ CallsClosed(d.body, 1, i)
    BY <1>6 DEF Fine
  <2>2. (i + 1)..(i + 1) = {i + 1} /\ (i + 1)..((i + 1) - 1) = {} /\ (i + 1) + 1 = i + 2
        /\ (i + 2) - 1 = i + 1 /\ (i + 1) - 1 = i
    BY <1>1
  <2>3. Checked(d.body, i + 1)
    BY <1>1, <2>1, ArrivedChecked
  <2>4. Locals(d, i + 2) = Locals(d, i + 1) \cup {x}
    <3> DEFINE Defs(n) == {k \in 1..(n - 1) : d.body[k][1] = "def" /\ Checked(d.body, k)}
    <3>1. Defs(i + 2) = Defs(i + 1) \cup {i + 1}
      <4>1. 1..((i + 2) - 1) = 1..((i + 1) - 1) \cup {i + 1}
        BY <1>1
      <4> QED
        BY <2>3, <4>1
    <3> QED
      BY <3>1 DEF Locals
  <2>5. ScopeAt(d, after, i + 1)
    <3>1. DOMAIN after = Locals(d, (i + 1) + 1)
      BY <2>1, <2>2, <2>4 DEF ScopeAt
    <3>2. ASSUME NEW y \in ParamsOf(d) PROVE after[y] = Parameter
      <4>1. y \in DOMAIN scope /\ scope[y] = Parameter
        BY <2>1 DEF ScopeAt, Locals
      <4> QED
        BY <4>1
    <3> QED
      BY <3>1, <3>2 DEF ScopeAt
  <2>6. CallsClosed(d.body, i + 1, i + 1)
    BY <2>2 DEF CallsClosed
  <2>7. SoundAt(p, d, i + 1)
    BY <2>1 DEF SoundAt, AssignsVariable, ScopeAt
  <2>8. SoundFrom(p, d, i + 1, i + 1)
    BY <2>2, <2>7 DEF SoundFrom
  <2> HIDE DEF f
  <2> QED
    BY <1>3, <2>2, <2>5, <2>6, <2>8 DEF Shown
<1> HIDE DEF f
<1>7. BodyAt(p, d, after, Given(s, "def", item), i + 1)
  BY <1>2, <1>3, <1>4, <1>6, BodyStep DEF f
<1> QED
  BY <1>5, <1>7

\* Of a destructuring, the names are passed by.
OnlyNames(events, i, j) == \A k \in (i + 1)..j : events[k][1] = "detup_name"

LEMMA NamesPassed ==
    ASSUME NEW events, IsSeq(events), NEW f, Levels(events, f), NEW i \in Nat, NEW j \in Nat,
           i <= j, j <= Len(events), OnlyNames(events, i, j)
    PROVE  \A k \in i..j : f[k] = f[i]
<1> DEFINE T == {k \in i..j : f[k] = f[i]}
<1>1. i \in T
  OBVIOUS
<1>2. ASSUME NEW k \in i..(j - 1), k \in T PROVE k + 1 \in T
  <2> DEFINE m == k + 1
  <2>1. m \in 1..Len(events) /\ m \in (i + 1)..j /\ m - 1 = k /\ m \in i..j /\ Len(events) \in Nat
    BY SeqFacts
  <2>2. Acts(f[m - 1], events[m][1], f[m]) /\ f[m - 1] \in Level
    <3> HIDE DEF m, T
    <3> QED
      BY <2>1, LevelsSteps
  <2>3. Acts(f[k], "detup_name", f[m]) /\ f[k] \in Level
    BY <2>1, <2>2 DEF OnlyNames
  <2>4. Moves(f[k], f[m], 0)
    BY <2>3 DEF Acts
  <2>5. f[m] = f[k]
    BY <2>3, <2>4, LevelFacts DEF Moves
  <2> QED
    BY <1>2, <2>1, <2>5
<1> HIDE DEF T
<1>3. i..j \subseteq T
  BY <1>1, <1>2, Climbs
<1> QED
  BY <1>3 DEF T

LEMMA DestructureStep ==
    ASSUME NEW p, NEW d, Leads(d.body, Ground), NEW scope, NEW s, NEW i, BodyAt(p, d, scope, s, i),
           i + 1 \in 1..Len(d.body), d.body[i + 1][1] = "destructure",
           NEW j \in (i + 1)..Len(d.body), OnlyNames(d.body, i + 1, j)
    PROVE  BodyAt(p, d, scope, s, j)
<1> DEFINE f == LevelsOf(d.body)
<1>1. IsSeq(d.body) /\ Levels(d.body, f) /\ i \in 0..Len(d.body) /\ IsSeq(s) /\ i \in Nat
      /\ Len(d.body) \in Nat /\ Len(s) \in Nat /\ j \in Nat /\ i + 1 <= j /\ j <= Len(d.body)
      /\ i + 1 \in Nat /\ (i + 1) + 1 = i + 2 /\ (i + 1) - 1 = i
  BY LevelsGiven, SeqFacts DEF BodyAt
<1>2. Acts(f[i], "destructure", f[i + 1])
  BY <1>1, LevelsSteps
<1>3. \A k \in (i + 1)..j : f[k] = f[i + 1]
  <2> DEFINE events == d.body
  <2> DEFINE m == i + 1
  <2>1. OnlyNames(events, m, j)
    OBVIOUS
  <2>2. IsSeq(events) /\ Levels(events, f) /\ m \in Nat /\ j \in Nat /\ m <= j /\ j <= Len(events)
    BY <1>1
  <2> HIDE DEF m, f, events
  <2>3. \A k \in m..j : f[k] = f[m]
    BY <2>1, <2>2, NamesPassed
  <2> QED
    BY <2>3 DEF m
<1>4. Acts(f[i], "destructure", f[j])
  BY <1>1, <1>2, <1>3
<1>5. f[i + 1].open # <<>>
  <2>1. "destructure" \in Openers
    BY DEF Openers
  <2> QED
    BY <1>1, <2>1, OpenerFacts
<1>6. "destructure" \in Visited /\ Pops("destructure") = 0 /\ "destructure" \notin Gives
  BY DEF Visited, Statements, Pops, Gives
<1>7. Honest(s, "destructure", Nothing)
  BY <1>6 DEF Honest
<1>8. Given(s, "destructure", Nothing) = s
  <2>1. 0 \in 0..Len(s) /\ Len(s) - 0 = Len(s)
    BY <1>1
  <2>2. IsSeq(Left(s, 0)) /\ Len(Left(s, 0)) = Len(s) /\ \A k \in 1..Len(s) : Left(s, 0)[k] = s[k]
    BY <1>1, <2>1, LeftFacts
  <2>3. Left(s, 0) = s
    BY <1>1, <2>2, SeqSame
  <2> QED
    BY <1>6, <2>3 DEF Given
<1>9. ASSUME Fine(p, d, scope, s, i) PROVE Shown(p, d, scope, "destructure", Nothing, i, j)
  <2>1. \A k \in (i + 1)..j : d.body[k][1] \in {"destructure", "detup_name"}
    <3>1. \A k \in (i + 1)..j : k = i + 1 \/ k \in ((i + 1) + 1)..j
      BY <1>1
    <3> QED
      BY <3>1 DEF OnlyNames
  <2>2. ScopeAt(d, scope, j)
    <3>1. Locals(d, j + 1) = Locals(d, i + 1)
      <4>1. NoDefs(d, i, j)
        BY <2>1 DEF NoDefs
      <4>2. i <= j
        BY <1>1
      <4> QED
        BY <1>1, <4>1, <4>2, LocalsStay
    <3> QED
      BY <1>9, <3>1 DEF ScopeAt, Fine
  <2>3. CallsClosed(d.body, i + 1, j)
    BY <2>1 DEF CallsClosed
  <2>4. SoundFrom(p, d, i + 1, j)
    <3>1. ASSUME NEW k \in (i + 1)..j PROVE SoundAt(p, d, k)
      <4>1. d.body[k][1] \in {"destructure", "detup_name"}
        BY <2>1
      <4> QED
        BY <4>1 DEF SoundAt, AssignsVariable
    <3> QED
      BY <3>1 DEF SoundFrom
  <2>5. d.body[j][1] # "name"
    <3>1. j \in (i + 1)..j
      BY <1>1
    <3> QED
      BY <2>1, <3>1
  <2>6. \A k \in (i + 1)..(j - 1) : ~ Single(f[k])
    <3> TAKE k \in (i + 1)..(j - 1)
    <3>1. k \in (i + 1)..j
      BY <1>1
    <3> QED
      BY <1>3, <1>5, <3>1 DEF Single
  <2> HIDE DEF f
  <2> QED
    BY <1>6, <2>2, <2>3, <2>4, <2>5, <2>6 DEF Shown, f
<1>10. BodyAt(p, d, scope, Given(s, "destructure", Nothing), j)
  <2> HIDE DEF f
  <2> QED
    BY <1>4, <1>6, <1>7, <1>9, BodyStep DEF f
<1> QED
  BY <1>8, <1>10

LEMMA AppendSame ==
    ASSUME NEW u, IsSeq(u), NEW v, IsSeq(v), NEW x, NEW y, Append(u, x) = Append(v, y)
    PROVE  u = v /\ x = y
<1>1. /\ Len(Append(u, x)) = Len(u) + 1 /\ Append(u, x)[Len(u) + 1] = x
      /\ \A k \in 1..Len(u) : Append(u, x)[k] = u[k]
  BY SeqAdd
<1>2. /\ Len(Append(v, y)) = Len(v) + 1 /\ Append(v, y)[Len(v) + 1] = y
      /\ \A k \in 1..Len(v) : Append(v, y)[k] = v[k]
  BY SeqAdd
<1>3. Len(u) \in Nat /\ Len(v) \in Nat
  BY SeqFacts
<1> DEFINE m == Len(u)
<1> DEFINE n == Len(v)
<1>4. m + 1 = n + 1 /\ m \in Nat /\ n \in Nat
  BY <1>1, <1>2, <1>3
<1>5. m = n
  <2> HIDE DEF m, n
  <2> QED
    BY <1>4
<1>6. \A k \in 1..m : u[k] = v[k]
  BY <1>1, <1>2, <1>5
<1>7. u = v
  BY <1>5, <1>6, SeqSame
<1> QED
  BY <1>1, <1>2, <1>5, <1>7

\* What a call or a lambda comes to: one operand, and the brackets as they were.
LEMMA ClosedAgain ==
    ASSUME NEW events, IsSeq(events), NEW f, Levels(events, f),
           NEW k \in 1..Len(events), events[k][1] \in {"call", "lambda"}
    PROVE  LET c == Close(events, k)
           IN /\ c \in (k + 1)..Len(events) /\ events[c][1] \in Closers
              /\ f[c] = Up(f[k - 1], IF events[k][1] = "lambda" THEN 1 ELSE 0)
              /\ \A m \in k..(c - 1) : f[m].open # <<>>
              /\ CallsClosed(events, k, c)
<1> DEFINE c == Close(events, k)
<1> DEFINE a == f[k - 1]
<1> DEFINE b == f[k]
<1> DEFINE h == f[c]
<1> DEFINE kind == events[k][1]
<1>1. kind \in Openers /\ kind # "sequence"
  BY DEF Openers
<1>2. b.open # <<>> /\ b.open = Append(a.open, <<kind, b.height>>) /\ Innermost(b) = <<kind, b.height>>
  BY <1>1, OpenerFacts
<1>3. /\ c \in (k + 1)..Len(events)
      /\ events[c][1] \in Closers
      /\ b.open = Append(h.open, Innermost(b))
      /\ h.height = Floor(b) + (IF Within(b, "sequence") THEN 1 ELSE 0)
      /\ \A m \in k..(c - 1) : Len(f[m].open) >= Len(b.open)
      /\ \A m \in (k + 1)..Len(events) : Len(f[m].open) < Len(b.open) => c <= m
      /\ Len(h.open) = Len(b.open) - 1
  BY <1>2, CloseFacts
<1>4. Len(events) \in Nat /\ k \in 1..Len(events) /\ c \in 1..Len(events) /\ c \in Nat
  BY <1>3, SeqFacts
<1>5. a \in Level /\ b \in Level /\ h \in Level /\ Acts(a, kind, b)
  BY <1>4, LevelsSteps
<1> DEFINE extra == IF kind = "lambda" THEN 1 ELSE 0
<1>6. b.height = a.height + extra
  <2>1. \/ kind = "call" /\ OpensTo(a, b, "call", 0)
        \/ kind = "lambda" /\ OpensTo(a, b, "lambda", 1)
    <3> HIDE DEF a, b, c, h
    <3> QED
      BY <1>5 DEF Acts
  <2> HIDE DEF a, b, c, h, kind
  <2> QED
    BY <2>1 DEF OpensTo, Into
<1>7. h.open = a.open
  <2> DEFINE u == h.open
  <2> DEFINE v == a.open
  <2> DEFINE x == Innermost(b)
  <2> HIDE DEF a, b, c, h, kind
  <2>1. IsSeq(u) /\ IsSeq(v)
    BY <1>5, LevelFacts
  <2>2. Append(u, x) = Append(v, x)
    BY <1>2, <1>3
  <2> HIDE DEF u, v, x
  <2>3. u = v
    BY <2>1, <2>2, AppendSame
  <2> QED
    BY <2>3 DEF u, v
<1>8. h.height = b.height
  <2> HIDE DEF a, b, c, h, kind
  <2>1. Floor(b) = b.height /\ ~ Within(b, "sequence")
    BY <1>1, <1>2 DEF Floor, Within
  <2>2. b.height \in Nat
    BY <1>5, LevelFacts
  <2> QED
    BY <1>3, <2>1, <2>2
<1>9. h = Up(a, extra)
  <2>1. h = [open |-> h.open, height |-> h.height]
    <3> HIDE DEF a, b, c, h, kind
    <3> QED
      BY <1>5, LevelFacts
  <2> HIDE DEF a, b, c, h, kind, extra
  <2> QED
    BY <1>6, <1>7, <1>8, <2>1 DEF Up
<1>10. ASSUME NEW m \in k..(c - 1) PROVE f[m].open # <<>>
  <2>1. m \in 0..Len(events)
    BY <1>3, <1>4
  <2>2. f[m] \in Level
    BY <2>1, LevelsSteps
  <2>3. IsSeq(f[m].open) /\ IsSeq(b.open) /\ Len(f[m].open) \in Nat /\ Len(b.open) \in Nat
    BY <1>5, <2>2, LevelFacts
  <2>4. Len(b.open) > 0 /\ Len(f[m].open) >= Len(b.open)
    BY <1>2, <1>3, <2>3, SeqFacts
  <2>5. Len(f[m].open) > 0
    BY <2>3, <2>4
  <2> QED
    BY <2>3, <2>5, SeqFacts
<1>11. ASSUME NEW m \in k..c, events[m][1] = "call" PROVE Close(events, m) <= c
  <2>1. m \in 1..Len(events) /\ m \in 0..Len(events) /\ m \in Nat
    BY <1>3, <1>4
  <2>2. CASE m = k
    BY <1>4, <2>2
  <2>3. CASE m = c
    BY <1>3, <1>11, <2>3 DEF Closers
  <2>4. CASE m \in (k + 1)..(c - 1)
    <3>1. m - 1 \in k..(c - 1) /\ m - 1 \in 0..Len(events) /\ m \in k..(c - 1) /\ c \in (m + 1)..Len(events)
      BY <1>3, <1>4, <2>1, <2>4
    <3> DEFINE q == m - 1
    <3>2. events[m][1] \in Openers
      BY <1>11 DEF Openers
    <3>3. f[m].open # <<>> /\ Len(f[m].open) = Len(f[q].open) + 1
      BY <2>1, <3>2, OpenerFacts
    <3>4. /\ Len(f[m].open) \in Nat /\ Len(f[q].open) \in Nat /\ Len(b.open) \in Nat /\ Len(h.open) \in Nat
      <4>1. f[m] \in Level /\ f[q] \in Level
        BY <2>1, <3>1, LevelsSteps
      <4> HIDE DEF q, a, b, c, h
      <4> QED
        BY <1>5, <4>1, LevelFacts
    <3>5. Len(f[q].open) >= Len(b.open)
      BY <1>3, <3>1
    <3>6. Len(f[c].open) < Len(f[m].open)
      <4> DEFINE l1 == Len(f[c].open)
      <4> DEFINE l2 == Len(f[m].open)
      <4> DEFINE l3 == Len(f[q].open)
      <4> DEFINE l4 == Len(b.open)
      <4>1. l1 \in Nat /\ l2 \in Nat /\ l3 \in Nat /\ l4 \in Nat /\ l1 = l4 - 1 /\ l3 >= l4 /\ l2 = l3 + 1
        BY <1>3, <3>3, <3>4, <3>5
      <4> HIDE DEF l1, l2, l3, l4
      <4>2. l1 < l2
        BY <4>1
      <4> QED
        BY <4>2 DEF l1, l2
    <3> HIDE DEF c, q
    <3> QED
      BY <2>1, <3>1, <3>3, <3>6, CloseFacts
  <2> QED
    BY <1>3, <1>4, <2>1, <2>2, <2>3, <2>4
<1>12. CallsClosed(events, k, c)
  BY <1>11 DEF CallsClosed
<1> QED
  BY <1>3, <1>9, <1>10, <1>12

\* A call, whose arguments are counted: of what is known by its name, there are as many as
\* there are parameters.
LEMMA CallStep ==
    ASSUME NEW p, NEW d, Leads(d.body, Ground), NEW scope, NEW s, NEW i, BodyAt(p, d, scope, s, i),
           i + 1 \in 1..Len(d.body), d.body[i + 1][1] = "call",
           NEW item, Honest(s, "negate", item), ~ check_assignability(item),
           item # Nothing =>
              /\ s[Len(s)].kind = "callable"
              /\ s[Len(s)].arity = Cardinality(PartsOf(d.body, "argument", i + 1, Close(d.body, i + 1)))
    PROVE  BodyAt(p, d, scope, Given(s, "negate", item), Close(d.body, i + 1))
<1> DEFINE events == d.body
<1> DEFINE f == LevelsOf(events)
<1> DEFINE c == Close(events, i + 1)
<1> DEFINE t == Given(s, "negate", item)
<1>1. IsSeq(events) /\ Levels(events, f) /\ i \in 0..Len(events) /\ IsSeq(s) /\ i \in Nat
      /\ Len(events) \in Nat /\ i + 1 \in 1..Len(events) /\ (i + 1) - 1 = i /\ Len(s) = f[i].height
  BY LevelsGiven, SeqFacts DEF BodyAt
<1>2. Acts(f[i], "call", f[i + 1]) /\ f[i] \in Level
  BY <1>1, LevelsSteps
<1>3. /\ c \in (i + 2)..Len(events) /\ events[c][1] \in Closers
      /\ f[c] = Up(f[i], 0)
      /\ \A m \in (i + 1)..(c - 1) : f[m].open # <<>>
      /\ CallsClosed(events, i + 1, c)
  <2> DEFINE k == i + 1
  <2>1. /\ c \in (k + 1)..Len(events) /\ events[c][1] \in Closers
        /\ f[c] = Up(f[k - 1], IF events[k][1] = "lambda" THEN 1 ELSE 0)
        /\ \A m \in k..(c - 1) : f[m].open # <<>>
        /\ CallsClosed(events, k, c)
    BY <1>1, ClosedAgain
  <2> QED
    BY <1>1, <2>1
<1>4. f[c] = f[i] /\ Above(f[i], 1) /\ Acts(f[i], "negate", f[c])
  <2>1. f[c] = f[i]
    BY <1>2, <1>3, LevelFacts
  <2>2. Above(f[i], 1)
    BY <1>2 DEF Acts
  <2> QED
    BY <1>3, <2>1, <2>2 DEF Acts, Moves
<1>5. "negate" \in Visited /\ "negate" \in Gives
  BY DEF Visited, Gives
<1>6. c \in Nat /\ c \in (i + 1)..Len(events) /\ i <= c /\ i + 1 < c
  BY <1>1, <1>3
<1>7. \A k \in (i + 2)..(c - 1) : ~ Checked(events, k)
  <2> TAKE k \in (i + 2)..(c - 1)
  <2>1. i + 1 \in 1..(k - 1) /\ events[i + 1][1] = "call" /\ ~ (c <= k)
    BY <1>1, <1>6
  <2> QED
    BY <2>1 DEF Checked
<1>8. \A k \in (i + 1)..c : k = i + 1 \/ k \in (i + 2)..(c - 1) \/ k = c
  <2> HIDE DEF c
  <2> QED
    BY <1>1, <1>6
<1>9. ASSUME ~ Spoiled(t), Fine(p, d, scope, s, i) PROVE Shown(p, d, scope, "negate", item, i, c)
  <2>1. ScopeAt(d, scope, i)
    BY <1>9 DEF Fine
  <2>2. ScopeAt(d, scope, c)
    <3>1. NoDefs(d, i, c)
      <4> SUFFICES ASSUME NEW k \in (i + 1)..c PROVE events[k][1] # "def" \/ ~ Checked(events, k)
        BY DEF NoDefs
      <4>1. CASE k = i + 1
        BY <4>1
      <4>2. CASE k \in (i + 2)..(c - 1)
        BY <1>7, <4>2
      <4>3. CASE k = c
        BY <1>3, <4>3 DEF Closers
      <4> QED
        BY <1>8, <4>1, <4>2, <4>3
    <3> HIDE DEF c
    <3>2. Locals(d, c + 1) = Locals(d, i + 1)
      BY <1>1, <1>6, <3>1, LocalsStay
    <3> QED
      BY <2>1, <3>2 DEF ScopeAt
  <2>3. item # Nothing
    <3>1. Pops("negate") = 1 /\ 1 <= Len(s)
      <4>1. f[i].height \in Nat /\ Floor(f[i]) \in Nat
        BY <1>2, LevelFacts
      <4> QED
        BY <1>1, <1>4, <4>1 DEF Above, Pops
    <3> QED
      BY <1>1, <1>5, <1>9, <3>1, GivenSomething
  <2>4. SoundAt(p, d, i + 1)
    <3>1. ASSUME i + 1 > 1, events[i][1] = "name", events[i][2] \notin Locals(d, i)
          PROVE  Cardinality(PartsOf(events, "argument", i + 1, c)) = Len(DeclaredAs(p, events[i][2]).params)
      <4> DEFINE x == events[i][2]
      <4>1. s[Len(s)] = ItemOf(p, scope, x)
        BY <1>1, <1>9, <3>1 DEF Fine
      <4>2. Locals(d, i + 1) = Locals(d, i)
        <5> DEFINE m == i - 1
        <5>1. m \in Nat /\ m <= i /\ m + 1 = i
          BY <1>1, <3>1
        <5>2. NoDefs(d, m, i)
          <6>1. \A k \in (m + 1)..i : k = i
            BY <1>1
          <6> QED
            BY <3>1, <6>1 DEF NoDefs
        <5> HIDE DEF m
        <5>3. Locals(d, i + 1) = Locals(d, m + 1)
          BY <1>1, <5>1, <5>2, LocalsStay
        <5> QED
          BY <5>1, <5>3
      <4>3. x \notin DOMAIN scope
        BY <2>1, <3>1, <4>2 DEF ScopeAt
      <4>4. s[Len(s)] = Callable(DeclaredAs(p, x)) \/ s[Len(s)] = Nothing
        BY <4>1, <4>3 DEF ItemOf
      <4>5. Nothing.kind # "callable" /\ \A q : Callable(q).arity = Len(q.params)
        BY DEF Nothing, Callable, SemanticItem
      <4> QED
        BY <2>3, <4>4, <4>5
    <3> HIDE DEF c
    <3>2. (i + 1) - 1 = i
      BY <1>1
    <3> QED
      BY <3>1, <3>2 DEF SoundAt, AssignsVariable, c
  <2>5. SoundFrom(p, d, i + 1, c)
    <3>1. SoundAt(p, d, c)
      BY <1>3 DEF SoundAt, AssignsVariable, Closers
    <3>2. ASSUME NEW k \in (i + 1)..c, Checked(events, k) PROVE SoundAt(p, d, k)
      BY <1>7, <1>8, <2>4, <3>1, <3>2
    <3> QED
      BY <3>2 DEF SoundFrom
  <2>6. events[c][1] # "name"
    BY <1>3 DEF Closers
  <2>7. \A k \in (i + 1)..(c - 1) : ~ Single(f[k])
    BY <1>3 DEF Single
  <2> HIDE DEF c, f
  <2> QED
    BY <1>3, <2>2, <2>5, <2>6, <2>7 DEF Shown, f
<1> HIDE DEF c, t, f
<1>10. BodyAt(p, d, scope, Given(s, "negate", item), c)
  BY <1>4, <1>5, <1>6, <1>9, BodyStep DEF t, f
<1> QED
  BY <1>10 DEF c

\* Where an error has been found, nothing else is claimed.
LEMMA SpoiledBody ==
    ASSUME NEW p, NEW d, NEW scope, NEW t, NEW j \in 0..Len(d.body), IsSeq(t),
           Len(t) = LevelsOf(d.body)[j].height, Nested(LevelsOf(d.body)[j]), Spoiled(t)
    PROVE  BodyAt(p, d, scope, t, j)
BY DEF BodyAt

\* A lambda, which is refused.
LEMMA LambdaStep ==
    ASSUME NEW p, NEW d, Leads(d.body, Ground), NEW scope, NEW s, NEW i, BodyAt(p, d, scope, s, i),
           i + 1 \in 1..Len(d.body), d.body[i + 1][1] = "lambda"
    PROVE  BodyAt(p, d, scope, Append(Left(s, 0), Nothing), Close(d.body, i + 1))
<1> DEFINE events == d.body
<1> DEFINE f == LevelsOf(events)
<1> DEFINE c == Close(events, i + 1)
<1> DEFINE t == Append(Left(s, 0), Nothing)
<1>1. IsSeq(events) /\ Levels(events, f) /\ i \in 0..Len(events) /\ IsSeq(s) /\ i \in Nat
      /\ Len(events) \in Nat /\ i + 1 \in 1..Len(events) /\ (i + 1) - 1 = i /\ Len(s) = f[i].height
      /\ Nested(f[i])
  BY LevelsGiven, SeqFacts DEF BodyAt
<1>2. f[i] \in Level /\ f[i].height \in Nat
  BY <1>1, LevelsSteps, LevelFacts
<1>3. c \in (i + 2)..Len(events) /\ f[c] = Up(f[i], 1)
  <2> DEFINE k == i + 1
  <2>1. /\ c \in (k + 1)..Len(events)
        /\ f[c] = Up(f[k - 1], IF events[k][1] = "lambda" THEN 1 ELSE 0)
    BY <1>1, ClosedAgain
  <2> QED
    BY <1>1, <2>1
<1>4. Nested(f[c]) /\ f[c].height = Len(s) + 1
  <2>1. f[c] \in Level /\ f[c].open = f[i].open /\ f[c].height = f[i].height + 1
    <3>1. Up(f[i], 1) \in Level /\ Up(f[i], 1).open = f[i].open /\ Up(f[i], 1).height = f[i].height + 1
      BY <1>2, UpFacts
    <3> QED
      BY <1>3, <3>1
  <2> QED
    BY <1>1, <1>2, <2>1, NestedSame
<1>5. IsSeq(t) /\ Len(t) = Len(s) + 1 /\ Spoiled(t)
  <2>1. 0 \in 0..Len(s) /\ Len(s) \in Nat /\ Len(s) - 0 = Len(s)
    BY <1>1, SeqFacts
  <2>2. IsSeq(Left(s, 0)) /\ Len(Left(s, 0)) = Len(s)
    BY <1>1, <2>1, LeftFacts
  <2>3. IsSeq(t) /\ Len(t) = Len(s) + 1 /\ t[Len(s) + 1] = Nothing
    BY <2>2, SeqAdd
  <2>4. Len(s) + 1 \in 1..Len(t)
    BY <2>1, <2>3
  <2> QED
    BY <2>3, <2>4 DEF Spoiled
<1>6. c \in 0..Len(d.body)
  BY <1>1, <1>3
<1> HIDE DEF c, t
<1>7. BodyAt(p, d, scope, t, c)
  BY <1>4, <1>5, <1>6, SpoiledBody
<1> QED
  BY <1>7 DEF c, t

\* An item that is wrong, and ends its sequence.
LEMMA ItemJump ==
    ASSUME NEW p, NEW d, Leads(d.body, Ground), NEW scope, NEW s, NEW i, BodyAt(p, d, scope, s, i),
           i + 1 \in 1..Len(d.body), d.body[i + 1][1] = "item"
    PROVE  BodyAt(p, d, scope, Append(Left(s, 1), Nothing), Close(d.body, i + 1))
<1> DEFINE events == d.body
<1> DEFINE f == LevelsOf(events)
<1> DEFINE c == Close(events, i + 1)
<1> DEFINE t == Append(Left(s, 1), Nothing)
<1> DEFINE a == f[i]
<1> DEFINE b == f[i + 1]
<1> DEFINE h == f[c]
<1>1. IsSeq(events) /\ Levels(events, f) /\ i \in 0..Len(events) /\ IsSeq(s) /\ i \in Nat
      /\ Len(events) \in Nat /\ i + 1 \in 1..Len(events) /\ (i + 1) - 1 = i /\ Len(s) = a.height
      /\ Nested(a)
  BY LevelsGiven, SeqFacts DEF BodyAt
<1>2. a \in Level /\ b \in Level /\ Acts(a, "item", b)
  BY <1>1, LevelsSteps
<1>3. Within(a, "sequence") /\ Exactly(a, 1) /\ Moves(a, b, -1)
  <2> HIDE DEF a, b
  <2> QED
    BY <1>2 DEF Acts
<1>4. b.open = a.open /\ b.open # <<>> /\ Within(b, "sequence") /\ Floor(b) = Floor(a) /\ Nested(b)
  <2> HIDE DEF a, b
  <2>1. b.open = a.open /\ b.open # <<>>
    BY <1>3 DEF Moves, Up, Within
  <2> QED
    BY <1>1, <1>2, <1>3, <2>1, NestedSame DEF Within, Floor, Innermost
<1>5. /\ c \in (i + 2)..Len(events)
      /\ b.open = Append(h.open, Innermost(b))
      /\ h.height = Floor(b) + 1
  <2> DEFINE k == i + 1
  <2>1. /\ c \in (k + 1)..Len(events)
        /\ b.open = Append(h.open, Innermost(b))
        /\ h.height = Floor(b) + (IF Within(b, "sequence") THEN 1 ELSE 0)
    BY <1>1, <1>4, CloseFacts
  <2> QED
    BY <1>1, <1>4, <2>1
<1>6. c \in 0..Len(d.body)
  BY <1>1, <1>5
<1>7. h \in Level
  BY <1>1, <1>6, LevelsSteps
<1>8. Nested(h)
  <2> HIDE DEF a, b, c, h
  <2> QED
    BY <1>2, <1>4, <1>5, <1>7, NestedOut
<1>9. h.height = Len(s) /\ Len(s) >= 1 /\ Len(s) \in Nat
  <2>1. Floor(a) \in Nat /\ a.height = Floor(a) + 1
    <3> HIDE DEF a
    <3> QED
      BY <1>2, <1>3, LevelFacts DEF Exactly
  <2> QED
    BY <1>1, <1>4, <1>5, <2>1
<1>10. IsSeq(t) /\ Len(t) = Len(s) /\ Spoiled(t)
  <2>1. 1 \in 0..Len(s)
    BY <1>9
  <2>2. IsSeq(Left(s, 1)) /\ Len(Left(s, 1)) = Len(s) - 1
    BY <1>1, <2>1, LeftFacts
  <2>3. IsSeq(t) /\ Len(t) = Len(Left(s, 1)) + 1 /\ t[Len(Left(s, 1)) + 1] = Nothing
    BY <2>2, SeqAdd
  <2>4. Len(t) = Len(s) /\ t[Len(s)] = Nothing /\ Len(s) \in 1..Len(t)
    BY <1>9, <2>2, <2>3
  <2> QED
    BY <2>3, <2>4 DEF Spoiled
<1> HIDE DEF c, t
<1>11. BodyAt(p, d, scope, t, c)
  BY <1>6, <1>8, <1>9, <1>10, SpoiledBody
<1> QED
  BY <1>11 DEF c, t

\* At its end, a body has been checked.
LEMMA BodyDone ==
    ASSUME NEW p, NEW d, Leads(d.body, Ground), NEW scope, NEW s, BodyAt(p, d, scope, s, Len(d.body))
    PROVE  s = <<>> /\ SoundFrom(p, d, 1, Len(d.body))
<1>1. LevelsOf(d.body)[Len(d.body)] = Ground
  BY LevelsGiven DEF Levels
<1>2. IsSeq(s) /\ Len(s) = 0
  BY <1>1 DEF BodyAt, Ground
<1>3. s = <<>> /\ ~ Spoiled(s)
  BY <1>2, SeqFacts DEF Spoiled
<1> QED
  BY <1>3 DEF BodyAt, Fine

\* And before its first event, there is nothing to show.
LEMMA BodyBegun ==
    ASSUME NEW p, NEW d, Leads(d.body, Ground), NEW scope,
           DOMAIN scope = ParamsOf(d), \A x \in ParamsOf(d) : scope[x] = Parameter
    PROVE  BodyAt(p, d, scope, <<>>, 0)
<1>1. LevelsOf(d.body)[0] = Ground /\ Len(d.body) \in Nat
  BY LevelsGiven, SeqFacts DEF Levels
<1>2. IsSeq(<<>>) /\ Len(<<>>) = 0
  <2>1. <<>> \in Seq({})
    BY EmptySeq
  <2> QED
    BY <2>1, EmptySeq DEF IsSeq
<1>3. Ground.open = <<>> /\ Ground.height = 0 /\ Ground \in Level /\ Nested(Ground)
  BY GroundFacts, GroundNested
<1>4. Fine(p, d, scope, <<>>, 0)
  <2>1. Locals(d, 0 + 1) = ParamsOf(d)
    BY DEF Locals
  <2>2. ScopeAt(d, scope, 0)
    BY <2>1 DEF ScopeAt
  <2>3. CallsClosed(d.body, 1, 0) /\ SoundFrom(p, d, 1, 0)
    BY DEF CallsClosed, SoundFrom
  <2>4. Outer(LevelsOf(d.body)[0]) = 0
    BY <1>1, <1>3 DEF Outer
  <2> QED
    BY <2>2, <2>3, <2>4 DEF Fine
<1> QED
  BY <1>1, <1>2, <1>3, <1>4 DEF BodyAt

-----------------------------------------------------------------------------
(* The analyzer's invariant                                                 *)

\* The declarations before n have different names, and these have been recorded.
DifferBefore(p, n) ==
    \A i, k \in 1..(n - 1) :
        p[i].kind # "import" /\ p[k].kind # "import" /\ p[i].name = p[k].name => i = k
Recorded(p, scope, n) ==
    /\ DOMAIN scope = {p[i].name : i \in {k \in 1..(n - 1) : p[k].kind # "import"}}
    /\ \A i \in 1..(n - 1) : p[i].kind # "import" => scope[p[i].name] = Callable(p[i])
    /\ DifferBefore(p, n)

\* The functions before n have been checked.
SoundBefore(p, n) ==
    \A i \in 1..(n - 1) : p[i].kind = "function" => SoundFrom(p, p[i], 1, Len(p[i].body))

Walking ==
    /\ decl \in 1..(Len(program) + 1)
    /\ IsSeq(m_scopes) /\ Len(m_scopes) \in 1..2
    /\ Len(m_scopes) = 1 => at = 1 /\ found = <<>>
    /\ m_prepassing = TRUE => Len(m_scopes) = 1 /\ Recorded(program, m_scopes[1], decl)
    /\ m_prepassing # TRUE =>
          /\ m_prepassing = FALSE
          /\ Recorded(program, m_scopes[1], Len(program) + 1) /\ SoundBefore(program, decl)
    /\ Len(m_scopes) = 2 =>
          /\ decl <= Len(program) /\ program[decl].kind = "function"
          /\ at \in Nat \ {0}
          /\ BodyAt(program, program[decl], m_scopes[2], found, at - 1)

AnalyzerInv ==
    /\ Declared(program)
    /\ verdict \in {"waiting", "checking", "accepted", "refused", "died"}
    /\ verdict = "waiting" =>
          m_scopes = <<>> /\ m_prepassing = TRUE /\ decl = 1 /\ at = 1 /\ found = <<>>
    /\ verdict = "checking" => Walking
    /\ verdict = "accepted" =>
          DifferBefore(program, Len(program) + 1) /\ SoundBefore(program, Len(program) + 1)
    /\ Len(m_scopes) \in 0..2
    /\ decl > Len(program) => Len(m_scopes) < 2 /\ found = <<>>

\* A scope that is replaced.
Put(s, k, v) == [s EXCEPT ![k] = v]

LEMMA SeqPut ==
    ASSUME NEW s, IsSeq(s), NEW k \in 1..Len(s), NEW v
    PROVE  LET t == Put(s, k, v)
           IN IsSeq(t) /\ Len(t) = Len(s) /\ t[k] = v /\ \A i \in 1..Len(s) : i # k => t[i] = s[i]
<1> DEFINE t == Put(s, k, v)
<1>1. DOMAIN s = 1..Len(s) /\ Len(s) \in Nat
  BY SeqFacts
<1>2. t = [i \in 1..Len(s) |-> IF i = k THEN v ELSE s[i]]
  BY <1>1 DEF Put
<1> HIDE DEF t
<1>3. t = [i \in 1..Len(s) |-> t[i]]
  BY <1>2
<1>4. IsSeq(t) /\ Len(t) = Len(s)
  BY <1>1, <1>3, SeqOfMany
<1>5. t[k] = v /\ \A i \in 1..Len(s) : i # k => t[i] = s[i]
  BY <1>2
<1> QED
  BY <1>4, <1>5 DEF t

\* Where a body is being checked.
LEMMA InBodyFacts ==
    ASSUME AnalyzerInv, InBody
    PROVE  /\ Leads(declaration.body, Ground) /\ Declared(program)
           /\ BodyAt(program, declaration, m_scopes[2], found, at - 1)
           /\ at \in Nat \ {0} /\ decl \in 1..Len(program) /\ declaration.kind = "function"
           /\ IsSeq(m_scopes) /\ Len(m_scopes) = 2 /\ verdict = "checking" /\ m_prepassing = FALSE
           /\ Recorded(program, m_scopes[1], Len(program) + 1) /\ SoundBefore(program, decl)
           /\ at - 1 \in Nat /\ (at - 1) + 1 = at
           /\ IsSeq(found) /\ Len(found) \in Nat
<1>1. verdict = "checking" /\ m_prepassing = FALSE /\ Len(m_scopes) = 2 /\ declaration.kind = "function"
      /\ decl <= Len(program)
  BY DEF InBody, Checking
<1>2. Walking /\ Declared(program)
  BY <1>1 DEF AnalyzerInv
<1>3. /\ decl \in 1..(Len(program) + 1) /\ IsSeq(m_scopes)
      /\ Recorded(program, m_scopes[1], Len(program) + 1) /\ SoundBefore(program, decl)
      /\ at \in Nat \ {0} /\ BodyAt(program, declaration, m_scopes[2], found, at - 1)
  BY <1>1, <1>2 DEF Walking, declaration
<1>4. decl \in 1..Len(program)
  <2>1. Len(program) \in Nat
    BY <1>2, SeqFacts DEF Declared
  <2> QED
    BY <1>1, <1>3, <2>1
<1>5. Leads(declaration.body, Ground)
  BY <1>2, <1>4 DEF Declared, declaration
<1>6. IsSeq(found) /\ Len(found) \in Nat
  BY <1>3, SeqFacts DEF BodyAt
<1> QED
  BY <1>1, <1>2, <1>3, <1>4, <1>5, <1>6

LEMMA LookedUp ==
    ASSUME AnalyzerInv, InBody, NEW x
    PROVE  lookup_named_item(x) = ItemOf(program, m_scopes[2], x)
<1> DEFINE p == program
<1> DEFINE global == m_scopes[1]
<1>1. /\ IsSeq(m_scopes) /\ Len(m_scopes) = 2 /\ Recorded(p, global, Len(p) + 1) /\ Declared(p)
  BY InBodyFacts
<1>2. DOMAIN m_scopes = 1..2 /\ Len(p) \in Nat /\ DOMAIN p = 1..Len(p)
  BY <1>1, SeqFacts DEF Declared
<1>3. 1..2 = {1, 2}
  OBVIOUS
<1>4. Known(x) <=> x \in DOMAIN m_scopes[1] \/ x \in DOMAIN m_scopes[2]
  BY <1>2, <1>3 DEF Known
<1>5. x \in DOMAIN global <=> x \in NamesIn(p)
  <2>1. 1..((Len(p) + 1) - 1) = DOMAIN p
    BY <1>2
  <2> QED
    BY <1>1, <2>1 DEF Recorded, NamesIn
<1> DEFINE innermost == CHOOSE i \in DOMAIN m_scopes :
                          /\ x \in DOMAIN m_scopes[i]
                          /\ \A k \in DOMAIN m_scopes : x \in DOMAIN m_scopes[k] => k <= i
<1>9. lookup_named_item(x) = IF ~ Known(x) THEN Nothing ELSE m_scopes[innermost][x]
  BY DEF lookup_named_item
<1>6. CASE x \in DOMAIN m_scopes[2]
  <2>1. innermost = 2
    BY <1>2, <1>3, <1>6
  <2> HIDE DEF innermost
  <2> QED
    BY <1>4, <1>6, <1>9, <2>1 DEF ItemOf
<1>7. CASE x \notin DOMAIN m_scopes[2] /\ x \in DOMAIN m_scopes[1]
  <2>1. innermost = 1
    BY <1>2, <1>3, <1>7
  <2> HIDE DEF innermost
  <2>2. lookup_named_item(x) = global[x]
    BY <1>4, <1>7, <1>9, <2>1
  <2>3. PICK k \in DOMAIN p : p[k].kind # "import" /\ p[k].name = x
    BY <1>5, <1>7 DEF NamesIn
  <2> DEFINE c == CHOOSE k0 \in DOMAIN p : p[k0].kind # "import" /\ p[k0].name = x
  <2>4. c \in DOMAIN p /\ p[c].kind # "import" /\ p[c].name = x
    BY <2>3
  <2>5. c \in 1..((Len(p) + 1) - 1)
    BY <1>2, <2>4
  <2> HIDE DEF c
  <2>6. global[x] = Callable(p[c])
    BY <1>1, <2>4, <2>5 DEF Recorded
  <2>7. DeclaredAs(p, x) = p[c]
    BY DEF DeclaredAs, c
  <2> QED
    BY <1>5, <1>7, <2>2, <2>6, <2>7 DEF ItemOf
<1>8. CASE x \notin DOMAIN m_scopes[2] /\ x \notin DOMAIN m_scopes[1]
  BY <1>4, <1>5, <1>8 DEF lookup_named_item, ItemOf
<1> QED
  BY <1>6, <1>7, <1>8

\* A step within a body.
LEMMA MovedOn ==
    ASSUME AnalyzerInv, InBody, UNCHANGED <<program, m_prepassing, decl, verdict>>,
           IsSeq(m_scopes'), Len(m_scopes') = 2, m_scopes'[1] = m_scopes[1],
           NEW j, at' = j + 1, BodyAt(program, declaration, m_scopes'[2], found', j)
    PROVE  AnalyzerInv'
<1>1. /\ Declared(program)
      /\ decl \in 1..Len(program) /\ declaration.kind = "function"
      /\ verdict = "checking" /\ m_prepassing = FALSE
      /\ Recorded(program, m_scopes[1], Len(program) + 1) /\ SoundBefore(program, decl)
  BY InBodyFacts
<1>2. Len(program) \in Nat
  BY <1>1, SeqFacts DEF Declared
<1>3. j \in Nat /\ at' \in Nat \ {0} /\ at' - 1 = j
  <2>1. j \in 0..Len(declaration.body)
    BY DEF BodyAt
  <2> QED
    BY <2>1
<1>4. Walking'
  <2>1. decl' \in 1..(Len(program') + 1) /\ Len(m_scopes') \in 1..2 /\ decl' <= Len(program')
    BY <1>1, <1>2
  <2>2. BodyAt(program', program'[decl'], m_scopes'[2], found', at' - 1)
    BY <1>3 DEF declaration
  <2>3. program'[decl'].kind = "function" /\ m_prepassing' = FALSE
    BY <1>1 DEF declaration
  <2>4. Recorded(program', m_scopes'[1], Len(program') + 1) /\ SoundBefore(program', decl')
    BY <1>1
  <2>5. ~ (Len(m_scopes') = 1) /\ ~ (m_prepassing' = TRUE)
    BY <2>3
  <2> QED
    BY <1>3, <2>1, <2>2, <2>3, <2>4, <2>5 DEF Walking
<1>5. ~ (decl' > Len(program'))
  BY <1>1, <1>2
<1> QED
  BY <1>1, <1>4, <1>5 DEF AnalyzerInv

LEMMA MovedOnSame ==
    ASSUME AnalyzerInv, InBody, UNCHANGED <<program, m_scopes, m_prepassing, decl, verdict>>,
           NEW j, at' = j + 1, BodyAt(program, declaration, m_scopes[2], found', j)
    PROVE  AnalyzerInv'
<1>1. IsSeq(m_scopes) /\ Len(m_scopes) = 2
  BY InBodyFacts
<1> QED
  BY <1>1, MovedOn

-----------------------------------------------------------------------------
(* The steps of the analyzer                                                *)

\* Where an event is looked at.
LEMMA OnFacts ==
    ASSUME AnalyzerInv, InBody, at <= Len(body)
    PROVE  /\ Leads(declaration.body, Ground)
           /\ BodyAt(program, declaration, m_scopes[2], found, at - 1)
           /\ (at - 1) + 1 \in 1..Len(declaration.body) /\ (at - 1) + 1 = at
           /\ at \in 1..Len(declaration.body) /\ at \in Nat /\ at - 1 \in Nat
           /\ IsSeq(declaration.body)
           /\ declaration.body[(at - 1) + 1][1] = event[1]
           /\ declaration.body[(at - 1) + 1] = <<event[1], event[2]>>
<1>1. /\ Leads(declaration.body, Ground) /\ at \in Nat \ {0} /\ at - 1 \in Nat /\ (at - 1) + 1 = at
      /\ BodyAt(program, declaration, m_scopes[2], found, at - 1)
  BY InBodyFacts
<1>2. IsSeq(declaration.body) /\ Levels(declaration.body, LevelsOf(declaration.body))
  BY <1>1, LevelsGiven
<1>3. at \in 1..Len(declaration.body)
  <2>1. Len(declaration.body) \in Nat
    BY <1>2, SeqFacts
  <2> QED
    BY <1>1, <2>1 DEF body
<1>4. declaration.body[at] = <<declaration.body[at][1], declaration.body[at][2]>>
  BY <1>2, <1>3, LevelsSteps
<1> QED
  BY <1>1, <1>2, <1>3, <1>4 DEF event, body

\* An event that is checked finds the operands it takes.
LEMMA Operands ==
    ASSUME AnalyzerInv, InBody, at <= Len(body), event[1] \in Visited
    PROVE  Pops(event[1]) \in Nat /\ Pops(event[1]) <= Len(found) /\ Len(found) \in Nat
<1> DEFINE f == LevelsOf(declaration.body)
<1>1. /\ Leads(declaration.body, Ground)
      /\ BodyAt(program, declaration, m_scopes[2], found, at - 1)
      /\ at \in 1..Len(declaration.body)
      /\ declaration.body[at][1] = event[1]
  BY OnFacts
<1>2. IsSeq(declaration.body) /\ Levels(declaration.body, f)
  BY <1>1, LevelsGiven
<1>3. f[at - 1] \in Level /\ f[at] \in Level /\ Acts(f[at - 1], event[1], f[at])
  <2> HIDE DEF f
  <2> QED
    BY <1>1, <1>2, LevelsSteps
<1>4. IsSeq(found) /\ Len(found) = f[at - 1].height /\ Nested(f[at - 1])
  BY <1>1 DEF BodyAt
<1>5. f[at - 1].height >= Pops(event[1])
  <2> HIDE DEF f
  <2> QED
    BY <1>3, <1>4, NestedStep
<1>6. Pops(event[1]) \in Nat
  BY DEF Pops
<1> QED
  BY <1>4, <1>5, <1>6, SeqFacts

\* The check of an event that changes nothing but the results.
LEMMA PlainFound ==
    ASSUME AnalyzerInv, On(Visited \ {"name", "def", "destructure"}), NEW item,
           Honest(found, event[1], item),
           event[1] \in Gives /\ check_assignability(item) => event = <<"binary", <<"seq_obj_get">>>>,
           event[1] = "assign" /\ item # Nothing => check_assignability(found[Len(found) - 1]),
           found' = Given(found, event[1], item), at' = at + 1,
           UNCHANGED <<program, m_scopes, m_prepassing, decl, verdict>>
    PROVE  AnalyzerInv'
<1>1. InBody /\ at <= Len(body) /\ event[1] \in Visited \ {"name", "def", "destructure"}
  BY DEF On
<1>2. /\ Leads(declaration.body, Ground)
      /\ BodyAt(program, declaration, m_scopes[2], found, at - 1)
      /\ (at - 1) + 1 \in 1..Len(declaration.body) /\ (at - 1) + 1 = at
      /\ declaration.body[(at - 1) + 1] = event
  BY <1>1, OnFacts DEF event, body
<1> DEFINE p == program
<1> DEFINE d == declaration
<1> DEFINE scope == m_scopes[2]
<1> DEFINE s == found
<1> DEFINE i == at - 1
<1> DEFINE kind == event[1]
<1>3. d.body[i + 1] = event
  BY <1>2
<1>4. kind \in Gives /\ check_assignability(item) => d.body[i + 1] = <<"binary", <<"seq_obj_get">>>>
  BY <1>3
<1>5. /\ Leads(d.body, Ground) /\ BodyAt(p, d, scope, s, i) /\ i + 1 \in 1..Len(d.body)
      /\ kind \in Visited \ {"name", "def", "destructure"} /\ d.body[i + 1][1] = kind
      /\ Honest(s, kind, item)
      /\ (kind = "assign" /\ item # Nothing => check_assignability(s[Len(s) - 1]))
      /\ i + 1 = at
  BY <1>1, <1>2
<1>6. found' = Given(s, kind, item) /\ at' = (i + 1) + 1
  BY <1>2
<1> HIDE DEF p, d, scope, s, i, kind
<1>7. BodyAt(p, d, scope, Given(s, kind, item), i + 1)
  BY <1>4, <1>5, PlainStep
<1>8. BodyAt(program, declaration, m_scopes[2], found', i + 1)
  BY <1>6, <1>7 DEF p, d, scope
<1> QED
  BY <1>1, <1>6, <1>8, MovedOnSame

\* What is left after an event, by its kind.
LEMMA GivenKinds ==
    ASSUME NEW s, NEW item
    PROVE  /\ \A kind \in {"name", "literal", "string", "list", "tuple"} :
                 Pops(kind) = 0 /\ kind \in Gives /\ Given(s, kind, item) = Append(Left(s, 0), item)
           /\ Pops("negate") = 1 /\ "negate" \in Gives
           /\ Given(s, "negate", item) = Append(Left(s, 1), item)
           /\ \A kind \in {"binary", "assign"} :
                 Pops(kind) = 2 /\ kind \in Gives /\ Given(s, kind, item) = Append(Left(s, 2), item)
           /\ \A kind \in {"item", "expression", "then", "do", "return", "detup"} :
                 Pops(kind) = 1 /\ kind \notin Gives /\ Given(s, kind, item) = Left(s, 1)
           /\ \A kind \in {"if", "else", "while", "end", "break", "sequence"} :
                 Pops(kind) = 0 /\ kind \notin Gives /\ Given(s, kind, item) = Left(s, 0)
BY DEF Given, Pops, Gives

LEMMA HonestKinds ==
    ASSUME NEW s, NEW item
    PROVE  /\ \A kind \in {"literal", "string", "list", "tuple", "if", "else", "while", "end",
                           "break", "sequence"} : Honest(s, kind, item)
           /\ (s[Len(s) - 0] = Nothing => item = Nothing) => Honest(s, "negate", item)
           /\ \A kind \in {"binary", "assign"} :
                 (s[Len(s) - 0] = Nothing \/ s[Len(s) - 1] = Nothing => item = Nothing)
                    => Honest(s, kind, item)
           /\ \A kind \in {"item", "expression", "then", "do", "return", "detup"} :
                 s[Len(s) - 0] # Nothing => Honest(s, kind, item)
<1>1. /\ 0..(0 - 1) = {} /\ 0..(1 - 1) = {0} /\ 0..(2 - 1) = {0, 1}
  OBVIOUS
<1>2. ASSUME NEW kind, Pops(kind) = 0 PROVE Honest(s, kind, item)
  BY <1>1, <1>2 DEF Honest
<1>3. ASSUME NEW kind, Pops(kind) = 1, kind \in Gives, s[Len(s) - 0] = Nothing => item = Nothing
      PROVE  Honest(s, kind, item)
  BY <1>1, <1>3 DEF Honest
<1>4. ASSUME NEW kind, Pops(kind) = 1, s[Len(s) - 0] # Nothing PROVE Honest(s, kind, item)
  BY <1>1, <1>4 DEF Honest
<1>5. ASSUME NEW kind, Pops(kind) = 2, kind \in Gives,
             s[Len(s) - 0] = Nothing \/ s[Len(s) - 1] = Nothing => item = Nothing
      PROVE  Honest(s, kind, item)
  BY <1>1, <1>5 DEF Honest
<1> QED
  BY <1>2, <1>3, <1>4, <1>5, GivenKinds

LEMMA NothingFacts ==
    /\ ~ check_assignability(Nothing) /\ Nothing.kind = "nothing" /\ Nothing.readonly = TRUE
    /\ \A kind : ~ check_assignability(Temporary(kind)) /\ Temporary(kind).kind = kind
                   /\ Temporary(kind).group = "temporary"
    /\ ~ Computes(Nothing)
BY DEF Nothing, Temporary, SemanticItem, check_assignability, Computes

LEMMA LiteralKeeps == AnalyzerInv /\ check_literal => AnalyzerInv'
<1> SUFFICES ASSUME AnalyzerInv, check_literal PROVE AnalyzerInv'
  OBVIOUS
<1>1. /\ InBody /\ at <= Len(body) /\ event[1] \in {"literal", "string", "name"}
      /\ at' = at + 1 /\ UNCHANGED <<program, m_scopes, m_prepassing, decl, verdict>>
  BY DEF check_literal, On, Finds, Goes, Unmoved
<1>2. CASE event[1] = "literal"
  <2> DEFINE item == Temporary("primitive")
  <2>1. found' = Append(Left(found, 0), item)
    BY <1>2 DEF check_literal, Finds, Below, Left
  <2>2. On(Visited \ {"name", "def", "destructure"})
    BY <1>1, <1>2 DEF On, Visited
  <2>3. ~ check_assignability(item)
    BY NothingFacts
  <2> HIDE DEF item
  <2>4. Honest(found, event[1], item) /\ found' = Given(found, event[1], item)
    BY <1>2, <2>1, GivenKinds, HonestKinds
  <2> QED
    BY <1>1, <1>2, <2>2, <2>3, <2>4, PlainFound
<1>3. CASE event[1] = "string"
  <2> DEFINE item == [Temporary("sequence_flexible") EXCEPT !.readonly = FALSE]
  <2>1. found' = Append(Left(found, 0), item)
    BY <1>3 DEF check_literal, Finds, Below, Left
  <2>2. On(Visited \ {"name", "def", "destructure"})
    BY <1>1, <1>3 DEF On, Visited
  <2>3. ~ check_assignability(item)
    BY DEF Temporary, SemanticItem, check_assignability
  <2> HIDE DEF item
  <2>4. Honest(found, event[1], item) /\ found' = Given(found, event[1], item)
    BY <1>3, <2>1, GivenKinds, HonestKinds
  <2> QED
    BY <1>1, <1>3, <2>2, <2>3, <2>4, PlainFound
<1>4. CASE event[1] = "name"
  <2> DEFINE p == program
  <2> DEFINE d == declaration
  <2> DEFINE scope == m_scopes[2]
  <2> DEFINE i == at - 1
  <2>1. found' = Append(Left(found, 0), lookup_named_item(event[2]))
    BY <1>4 DEF check_literal, Finds, Below, Left
  <2>2. lookup_named_item(event[2]) = ItemOf(p, scope, event[2])
    BY <1>1, LookedUp
  <2>3. /\ Leads(d.body, Ground) /\ BodyAt(p, d, scope, found, i) /\ i + 1 \in 1..Len(d.body)
        /\ d.body[i + 1][1] = "name" /\ i + 1 = at
    BY <1>1, <1>4, OnFacts
  <2>4. d.body[i + 1][2] = event[2]
    BY <2>3 DEF event, body
  <2> HIDE DEF p, d, scope, i
  <2>5. BodyAt(p, d, scope, Given(found, "name", ItemOf(p, scope, d.body[i + 1][2])), i + 1)
    BY <2>3, NameStep
  <2>6. found' = Given(found, "name", ItemOf(p, scope, d.body[i + 1][2]))
    BY <2>1, <2>2, <2>4, GivenKinds
  <2>7. BodyAt(program, declaration, m_scopes[2], found', i + 1) /\ at' = (i + 1) + 1
    BY <1>1, <2>3, <2>5, <2>6 DEF p, d, scope
  <2> QED
    BY <1>1, <2>7, MovedOnSame
<1> QED
  BY <1>1, <1>2, <1>3, <1>4

LEMMA EndKeeps == AnalyzerInv /\ (Refuse \/ Terminate) => AnalyzerInv'
BY DEF AnalyzerInv, Refuse, Terminate, walk

LEMMA ItemKeeps == AnalyzerInv /\ check_item => AnalyzerInv'
<1> SUFFICES ASSUME AnalyzerInv, check_item PROVE AnalyzerInv'
  OBVIOUS
<1>1. /\ InBody /\ at <= Len(body) /\ event[1] = "item"
      /\ UNCHANGED <<program, m_scopes, m_prepassing, decl, verdict>>
  BY DEF check_item, On, Finds, Unmoved
<1>2. CASE found[Len(found) - 0] = Nothing
  <2> DEFINE p == program
  <2> DEFINE d == declaration
  <2> DEFINE scope == m_scopes[2]
  <2> DEFINE i == at - 1
  <2> DEFINE c == Close(d.body, i + 1)
  <2>1. /\ Leads(d.body, Ground) /\ BodyAt(p, d, scope, found, i) /\ i + 1 \in 1..Len(d.body)
        /\ d.body[i + 1][1] = "item" /\ i + 1 = at
    BY <1>1, OnFacts
  <2>2. found' = Append(Left(found, 1), Nothing) /\ at' = Close(body, at) + 1
    BY <1>2 DEF check_item, Finds, Below, Left, Last, Goes
  <2>3. at' = c + 1
    BY <2>1, <2>2 DEF body
  <2> HIDE DEF p, d, scope, i
  <2>4. BodyAt(p, d, scope, Append(Left(found, 1), Nothing), c)
    BY <2>1, ItemJump
  <2> HIDE DEF c
  <2>5. BodyAt(program, declaration, m_scopes[2], found', c)
    BY <2>2, <2>4 DEF p, d, scope
  <2> QED
    BY <1>1, <2>3, <2>5, MovedOnSame
<1>3. CASE found[Len(found) - 0] # Nothing
  <2>1. found' = Left(found, 1) /\ at' = at + 1
    BY <1>3 DEF check_item, Below, Left, Last, Goes
  <2>2. On(Visited \ {"name", "def", "destructure"})
    BY <1>1 DEF On, Visited
  <2>3. Honest(found, event[1], Nothing) /\ found' = Given(found, event[1], Nothing)
    BY <1>1, <1>3, <2>1, GivenKinds, HonestKinds
  <2> QED
    BY <1>1, <2>1, <2>2, <2>3, NothingFacts, PlainFound
<1> QED
  BY <1>2, <1>3

LEMMA SequenceKeeps == AnalyzerInv /\ check_sequence => AnalyzerInv'
<1> SUFFICES ASSUME AnalyzerInv, check_sequence PROVE AnalyzerInv'
  OBVIOUS
<1> DEFINE item == IF event[1] = "tuple" THEN Temporary("sequence_fixed")
                   ELSE [Temporary("sequence_flexible") EXCEPT !.readonly = FALSE]
<1>1. /\ InBody /\ at <= Len(body) /\ event[1] \in {"list", "tuple"}
      /\ at' = at + 1 /\ UNCHANGED <<program, m_scopes, m_prepassing, decl, verdict>>
      /\ found' = Append(Left(found, 0), item)
  BY DEF check_sequence, On, Finds, Goes, Unmoved, Below, Left
<1>2. On(Visited \ {"name", "def", "destructure"})
  BY <1>1 DEF On, Visited
<1>3. ~ check_assignability(item)
  BY DEF Temporary, SemanticItem, check_assignability
<1> HIDE DEF item
<1>4. Honest(found, event[1], item) /\ found' = Given(found, event[1], item)
  BY <1>1, GivenKinds, HonestKinds
<1> QED
  BY <1>1, <1>2, <1>3, <1>4, PlainFound

LEMMA LambdaKeeps == AnalyzerInv /\ check_lambda => AnalyzerInv'
<1> SUFFICES ASSUME AnalyzerInv, check_lambda PROVE AnalyzerInv'
  OBVIOUS
<1> DEFINE p == program
<1> DEFINE d == declaration
<1> DEFINE scope == m_scopes[2]
<1> DEFINE i == at - 1
<1> DEFINE c == Close(d.body, i + 1)
<1>1. /\ InBody /\ at <= Len(body) /\ event[1] = "lambda"
      /\ UNCHANGED <<program, m_scopes, m_prepassing, decl, verdict>>
      /\ found' = Append(Left(found, 0), Nothing) /\ at' = Close(body, at) + 1
  BY DEF check_lambda, On, Finds, Unmoved, Below, Left, Goes
<1>2. /\ Leads(d.body, Ground) /\ BodyAt(p, d, scope, found, i) /\ i + 1 \in 1..Len(d.body)
      /\ d.body[i + 1][1] = "lambda" /\ i + 1 = at
  BY <1>1, OnFacts
<1>3. at' = c + 1
  BY <1>1, <1>2 DEF body
<1> HIDE DEF p, d, scope, i
<1>4. BodyAt(p, d, scope, Append(Left(found, 0), Nothing), c)
  BY <1>2, LambdaStep
<1> HIDE DEF c
<1>5. BodyAt(program, declaration, m_scopes[2], found', c)
  BY <1>1, <1>4 DEF p, d, scope
<1> QED
  BY <1>1, <1>3, <1>5, MovedOnSame

LEMMA CallKeeps == AnalyzerInv /\ check_call => AnalyzerInv'
<1> SUFFICES ASSUME AnalyzerInv, check_call PROVE AnalyzerInv'
  OBVIOUS
<1> DEFINE p == program
<1> DEFINE d == declaration
<1> DEFINE scope == m_scopes[2]
<1> DEFINE i == at - 1
<1> DEFINE c == Close(d.body, i + 1)
<1>1. InBody /\ at <= Len(body) /\ event[1] = "call"
  BY DEF check_call, On
<1>2. /\ Leads(d.body, Ground) /\ BodyAt(p, d, scope, found, i) /\ i + 1 \in 1..Len(d.body)
      /\ d.body[i + 1][1] = "call" /\ i + 1 = at
  BY <1>1, OnFacts
<1>3. Argc = Cardinality(PartsOf(d.body, "argument", i + 1, Close(d.body, i + 1)))
  BY <1>2 DEF Argc, body
<1>4. Len(found) - 0 = Len(found)
  BY <1>1, InBodyFacts
<1>5. ASSUME NEW item \in {Anything, Nothing},
             item # Nothing => Last(0).kind = "callable" /\ Last(0).arity = Argc,
             Finds(1, item), Goes(Close(body, at) + 1), Unmoved
      PROVE  AnalyzerInv'
  <2>1. Anything # Nothing /\ ~ check_assignability(item) /\ ~ (Nothing.kind = "callable")
    BY NothingFacts DEF Anything
  <2>2. item # Nothing =>
          /\ found[Len(found)].kind = "callable"
          /\ found[Len(found)].arity
               = Cardinality(PartsOf(d.body, "argument", i + 1, Close(d.body, i + 1)))
    BY <1>3, <1>4, <1>5 DEF Last
  <2>3. Honest(found, "negate", item)
    <3>1. found[Len(found) - 0] = Nothing => item = Nothing
      BY <1>5, <2>1 DEF Last
    <3> QED
      BY <3>1, HonestKinds
  <2>4. /\ UNCHANGED <<program, m_scopes, m_prepassing, decl, verdict>>
        /\ found' = Append(Left(found, 1), item) /\ at' = c + 1
    BY <1>2, <1>5 DEF Finds, Unmoved, Below, Left, Goes, body
  <2>5. found' = Given(found, "negate", item)
    BY <2>4, GivenKinds
  <2> HIDE DEF p, d, scope, i
  <2>6. BodyAt(p, d, scope, Given(found, "negate", item), c)
    BY <1>2, <2>1, <2>2, <2>3, CallStep
  <2> HIDE DEF c
  <2>7. BodyAt(program, declaration, m_scopes[2], found', c)
    BY <2>5, <2>6 DEF p, d, scope
  <2> QED
    BY <1>1, <2>4, <2>7, MovedOnSame
<1>6. CASE /\ Last(0).kind = "callable" /\ Last(0).arity = Argc
           /\ Finds(1, Anything) /\ Goes(Close(body, at) + 1) /\ Unmoved
  BY <1>5, <1>6
<1>7. CASE Finds(1, Nothing) /\ Goes(Close(body, at) + 1) /\ Unmoved
  BY <1>5, <1>7
<1>8. CASE Terminate
  BY <1>8, EndKeeps
<1> QED
  BY <1>6, <1>7, <1>8 DEF check_call

LEMMA UnaryKeeps == AnalyzerInv /\ check_unary => AnalyzerInv'
<1> SUFFICES ASSUME AnalyzerInv, check_unary PROVE AnalyzerInv'
  OBVIOUS
<1> DEFINE item == IF Computes(Last(0)) THEN Anything ELSE Nothing
<1>1. /\ InBody /\ at <= Len(body) /\ event[1] = "negate"
      /\ at' = at + 1 /\ UNCHANGED <<program, m_scopes, m_prepassing, decl, verdict>>
      /\ found' = Append(Left(found, 1), item)
  BY DEF check_unary, On, Finds, Goes, Unmoved, Below, Left
<1>2. On(Visited \ {"name", "def", "destructure"})
  BY <1>1 DEF On, Visited
<1>3. ~ check_assignability(item)
  BY NothingFacts DEF Anything
<1>4. found[Len(found) - 0] = Nothing => item = Nothing
  BY NothingFacts DEF Last
<1> HIDE DEF item
<1>5. Honest(found, event[1], item) /\ found' = Given(found, event[1], item)
  BY <1>1, <1>4, GivenKinds, HonestKinds
<1> QED
  BY <1>1, <1>2, <1>3, <1>5, PlainFound

LEMMA BinaryKeeps == AnalyzerInv /\ check_binary => AnalyzerInv'
<1> SUFFICES ASSUME AnalyzerInv, check_binary PROVE AnalyzerInv'
  OBVIOUS
<1> DEFINE item == IF Nothing \in {Last(1), Last(0)} THEN Nothing
                   ELSE IF event[2] = <<"seq_obj_get">>
                   THEN IF CanAccess(Last(1), Last(0)) THEN Element ELSE Nothing
                   ELSE IF check_op_by_kinds(Last(1), Last(0)) THEN Anything ELSE Nothing
<1>1. /\ InBody /\ at <= Len(body) /\ event[1] = "binary"
      /\ at' = at + 1 /\ UNCHANGED <<program, m_scopes, m_prepassing, decl, verdict>>
      /\ found' = Append(Left(found, 2), item)
  BY DEF check_binary, On, Finds, Goes, Unmoved, Below, Left
<1>2. On(Visited \ {"name", "def", "destructure"})
  BY <1>1 DEF On, Visited
<1>3. check_assignability(item) => event = <<"binary", <<"seq_obj_get">>>>
  <2>1. event = <<event[1], event[2]>>
    BY <1>1, OnFacts DEF event, body
  <2>2. check_assignability(item) => event[2] = <<"seq_obj_get">>
    BY NothingFacts DEF Anything
  <2> QED
    BY <1>1, <2>1, <2>2
<1>4. found[Len(found) - 0] = Nothing \/ found[Len(found) - 1] = Nothing => item = Nothing
  BY DEF Last
<1> HIDE DEF item
<1>5. Honest(found, event[1], item) /\ found' = Given(found, event[1], item)
  BY <1>1, <1>4, GivenKinds, HonestKinds
<1> QED
  BY <1>1, <1>2, <1>3, <1>5, PlainFound

LEMMA AssignKeeps == AnalyzerInv /\ check_assign => AnalyzerInv'
<1> SUFFICES ASSUME AnalyzerInv, check_assign PROVE AnalyzerInv'
  OBVIOUS
<1> DEFINE item == IF Nothing \notin {Last(0), Last(1)} /\ check_assignability(Last(1))
                   THEN Anything ELSE Nothing
<1>1. /\ InBody /\ at <= Len(body) /\ event[1] = "assign"
      /\ at' = at + 1 /\ UNCHANGED <<program, m_scopes, m_prepassing, decl, verdict>>
      /\ found' = Append(Left(found, 2), item)
  BY DEF check_assign, On, Finds, Goes, Unmoved, Below, Left
<1>2. On(Visited \ {"name", "def", "destructure"})
  BY <1>1 DEF On, Visited, Statements
<1>3. ~ check_assignability(item)
  BY NothingFacts DEF Anything
<1>4. found[Len(found) - 0] = Nothing \/ found[Len(found) - 1] = Nothing => item = Nothing
  BY DEF Last
<1>5. item # Nothing => check_assignability(found[Len(found) - 1])
  BY DEF Last
<1> HIDE DEF item
<1>6. Honest(found, event[1], item) /\ found' = Given(found, event[1], item)
  BY <1>1, <1>4, GivenKinds, HonestKinds
<1> QED
  BY <1>1, <1>2, <1>3, <1>5, <1>6, PlainFound

LEMMA OperandKeeps == AnalyzerInv /\ check_operand => AnalyzerInv'
<1> SUFFICES ASSUME AnalyzerInv, check_operand PROVE AnalyzerInv'
  OBVIOUS
<1>1. CASE Refuse
  BY <1>1, EndKeeps
<1>2. CASE ~ Refuse
  <2>1. /\ InBody /\ at <= Len(body) /\ event[1] \in {"expression", "then", "do", "return", "detup"}
        /\ at' = at + 1 /\ UNCHANGED <<program, m_scopes, m_prepassing, decl, verdict>>
        /\ found' = Left(found, 1) /\ found[Len(found) - 0] # Nothing
    BY <1>2 DEF check_operand, On, Goes, Unmoved, Below, Left, Last
  <2>2. On(Visited \ {"name", "def", "destructure"})
    BY <2>1 DEF On, Visited, Statements
  <2>3. Honest(found, event[1], Nothing) /\ found' = Given(found, event[1], Nothing)
    BY <2>1, GivenKinds, HonestKinds
  <2> QED
    BY <2>1, <2>2, <2>3, NothingFacts, PlainFound
<1> QED
  BY <1>1, <1>2

LEMMA PassKeeps == AnalyzerInv /\ pass_by => AnalyzerInv'
<1> SUFFICES ASSUME AnalyzerInv, pass_by PROVE AnalyzerInv'
  OBVIOUS
<1>1. /\ InBody /\ at <= Len(body)
      /\ event[1] \in {"if", "else", "while", "end", "break", "sequence"}
      /\ at' = at + 1 /\ UNCHANGED <<program, m_scopes, m_prepassing, decl, verdict, found>>
  BY DEF pass_by, On, Goes, Unmoved
<1>2. On(Visited \ {"name", "def", "destructure"})
  BY <1>1 DEF On, Visited, Statements
<1>3. Left(found, 0) = found
  <2>1. IsSeq(found) /\ Len(found) \in Nat /\ 0 \in 0..Len(found) /\ Len(found) - 0 = Len(found)
    BY <1>1, InBodyFacts
  <2>2. IsSeq(Left(found, 0)) /\ Len(Left(found, 0)) = Len(found)
        /\ \A k \in 1..Len(found) : Left(found, 0)[k] = found[k]
    BY <2>1, LeftFacts
  <2> QED
    BY <2>1, <2>2, SeqSame
<1>4. Honest(found, event[1], Nothing) /\ found' = Given(found, event[1], Nothing)
  BY <1>1, <1>3, GivenKinds, HonestKinds
<1> QED
  BY <1>1, <1>2, <1>4, NothingFacts, PlainFound

LEMMA DefKeeps == AnalyzerInv /\ check_local_def => AnalyzerInv'
<1> SUFFICES ASSUME AnalyzerInv, check_local_def PROVE AnalyzerInv'
  OBVIOUS
<1>1. CASE Refuse
  BY <1>1, EndKeeps
<1>2. CASE ~ Refuse
  <2> DEFINE p == program
  <2> DEFINE d == declaration
  <2> DEFINE scope == m_scopes[2]
  <2> DEFINE i == at - 1
  <2> DEFINE item == to_lvalue(Last(0))
  <2> DEFINE after == [y \in DOMAIN scope \cup {event[2]} |-> IF y = event[2] THEN item ELSE scope[y]]
  <2>1. /\ InBody /\ at <= Len(body) /\ event[1] = "def"
        /\ at' = at + 1 /\ UNCHANGED <<program, m_prepassing, decl, verdict>>
        /\ found' = Left(found, 1) /\ found[Len(found) - 0] # Nothing
        /\ CanRecord(event[2]) /\ record_named_item(event[2], item)
    BY <1>2 DEF check_local_def, On, Goes, Below, Left, Last
  <2>2. IsSeq(m_scopes) /\ Len(m_scopes) = 2 /\ Len(found) \in Nat /\ Len(found) - 0 = Len(found)
    BY <2>1, InBodyFacts
  <2>3. m_scopes' = Put(m_scopes, 2, after) /\ event[2] \notin DOMAIN scope
    BY <2>1, <2>2 DEF record_named_item, CanRecord, Put
  <2>4. /\ Leads(d.body, Ground) /\ BodyAt(p, d, scope, found, i) /\ i + 1 \in 1..Len(d.body)
        /\ d.body[i + 1][1] = "def" /\ i + 1 = at
    BY <2>1, OnFacts
  <2>5. d.body[i + 1][2] = event[2]
    BY <2>4 DEF event, body
  <2>6. 2 \in 1..Len(m_scopes)
    BY <2>2
  <2> HIDE DEF p, d, i, item
  <2>7. after = [y \in DOMAIN scope \cup {d.body[i + 1][2]} |->
                   IF y = d.body[i + 1][2] THEN item ELSE scope[y]]
    BY <2>5
  <2> HIDE DEF after
  <2>8. IsSeq(m_scopes') /\ Len(m_scopes') = 2 /\ m_scopes'[2] = after /\ m_scopes'[1] = m_scopes[1]
    <3>1. /\ IsSeq(m_scopes') /\ Len(m_scopes') = Len(m_scopes) /\ m_scopes'[2] = after
          /\ \A k \in 1..Len(m_scopes) : k # 2 => m_scopes'[k] = m_scopes[k]
      BY <2>2, <2>3, <2>6, SeqPut
    <3>2. 1 \in 1..Len(m_scopes) /\ 1 # 2
      BY <2>2
    <3> QED
      BY <2>2, <3>1, <3>2
  <2> HIDE DEF scope
  <2>9. found[Len(found)] # Nothing /\ d.body[i + 1][2] \notin DOMAIN scope
    BY <2>1, <2>2, <2>3, <2>5
  <2>10. BodyAt(p, d, after, Left(found, 1), i + 1)
    BY <2>4, <2>7, <2>9, DefStep
  <2>11. BodyAt(program, declaration, m_scopes'[2], found', i + 1) /\ at' = (i + 1) + 1
    BY <2>1, <2>4, <2>8, <2>10 DEF p, d
  <2> QED
    BY <2>1, <2>8, <2>11, MovedOn
<1> QED
  BY <1>1, <1>2

\* The names of a destructuring are those before the first other event.
LEMMA NamesFirst ==
    ASSUME NEW events, NEW i \in Nat, NEW c \in Nat, i <= c,
           NEW names, names = {k \in (i + 1)..c : OnlyNames(events, i, k)}
    PROVE  /\ i + Cardinality(names) \in i..c /\ Cardinality(names) \in Nat
           /\ OnlyNames(events, i, i + Cardinality(names))
<1> DEFINE others == {k \in (i + 1)..(c + 1) : k \notin names}
<1>1. c + 1 \in others
  OBVIOUS
<1>2. others \in SUBSET Nat /\ others # {}
  BY <1>1
<1>3. PICK m \in others : \A k \in others : m <= k
  <2> HIDE DEF others
  <2> QED
    BY <1>2, Smallest
<1>4. m \in (i + 1)..(c + 1) /\ m \in Nat
  OBVIOUS
<1>5. ASSUME NEW k \in (i + 1)..(m - 1) PROVE k \in names
  BY <1>3, <1>4, <1>5
<1>6. ASSUME NEW k \in names PROVE k \in (i + 1)..(m - 1)
  <2>1. k \in (i + 1)..c /\ OnlyNames(events, i, k)
    OBVIOUS
  <2>2. ASSUME k >= m PROVE FALSE
    <3>1. m \in (i + 1)..c /\ (i + 1)..m \subseteq (i + 1)..k
      BY <1>4, <2>1, <2>2
    <3>2. OnlyNames(events, i, m)
      BY <2>1, <3>1 DEF OnlyNames
    <3> QED
      BY <3>1, <3>2
  <2> QED
    BY <1>4, <2>1, <2>2
<1>7. names = (i + 1)..(m - 1)
  BY <1>5, <1>6
<1>8. Cardinality(names) = m - 1 - i
  <2>1. i + 1 \in Int /\ m - 1 \in Int
    BY <1>4
  <2>2. Cardinality((i + 1)..(m - 1)) = IF i + 1 > m - 1 THEN 0 ELSE (m - 1) - (i + 1) + 1
    BY <2>1, FS_Interval
  <2>3. Cardinality((i + 1)..(m - 1)) = m - 1 - i
    <3>1. i + 1 > m - 1 => m - 1 - i = 0
      BY <1>4
    <3>2. (m - 1) - (i + 1) + 1 = m - 1 - i
      BY <1>4
    <3> QED
      BY <2>2, <3>1, <3>2
  <2> QED
    BY <1>7, <2>3
<1>9. OnlyNames(events, i, m - 1)
  <2>1. ASSUME NEW k \in (i + 1)..(m - 1) PROVE events[k][1] = "detup_name"
    <3>1. OnlyNames(events, i, k) /\ k \in (i + 1)..k
      BY <1>4, <1>7
    <3> QED
      BY <3>1 DEF OnlyNames
  <2> QED
    BY <2>1 DEF OnlyNames
<1>10. i + Cardinality(names) = m - 1
  BY <1>4, <1>8
<1> QED
  BY <1>4, <1>8, <1>9, <1>10

LEMMA DetupKeeps == AnalyzerInv /\ check_detup_def => AnalyzerInv'
<1> SUFFICES ASSUME AnalyzerInv, check_detup_def PROVE AnalyzerInv'
  OBVIOUS
<1> DEFINE p == program
<1> DEFINE d == declaration
<1> DEFINE scope == m_scopes[2]
<1> DEFINE i == at - 1
<1> DEFINE c == Close(body, at)
<1> DEFINE names == {k \in (at + 1)..c : \A m \in (at + 1)..k : body[m][1] = "detup_name"}
<1>1. InBody /\ at <= Len(body) /\ event[1] = "destructure"
  BY DEF check_detup_def, On
<1>2. CASE Refuse
  BY <1>2, EndKeeps
<1>3. CASE ~ Refuse
  <2>1. /\ UNCHANGED <<program, m_scopes, m_prepassing, decl, verdict, found>>
        /\ at' = at + Cardinality(names) + 1
    BY <1>3 DEF check_detup_def, Goes, Unmoved
  <2>2. /\ Leads(d.body, Ground) /\ BodyAt(p, d, scope, found, i) /\ i + 1 \in 1..Len(d.body)
        /\ d.body[i + 1][1] = "destructure" /\ i + 1 = at /\ at \in Nat /\ IsSeq(d.body)
        /\ at \in 1..Len(d.body)
    BY <1>1, OnFacts
  <2>3. c \in (at + 1)..Len(d.body)
    <3>1. IsSeq(body) /\ Levels(body, LevelsOf(body)) /\ at \in 1..Len(body) /\ body[at][1] \in Openers
      BY <1>1, <2>2, LevelsGiven DEF body, event, Openers
    <3>2. Close(body, at) \in (at + 1)..Len(body)
      BY <3>1, OpenerFacts
    <3> QED
      BY <3>2 DEF body
  <2>4. Len(d.body) \in Nat
    BY <2>2, SeqFacts
  <2>5. c \in Nat /\ at <= c /\ c <= Len(d.body)
    BY <2>2, <2>3, <2>4
  <2>6. names = {k \in (at + 1)..c : OnlyNames(d.body, at, k)}
    BY DEF OnlyNames, body
  <2> HIDE DEF names, c, d
  <2> DEFINE j == at + Cardinality(names)
  <2>7. j \in at..c /\ Cardinality(names) \in Nat /\ OnlyNames(d.body, at, j)
    BY <2>2, <2>5, <2>6, NamesFirst
  <2>8. at' = j + 1
    BY <2>1, <2>2, <2>7
  <2>9. j \in (i + 1)..Len(d.body) /\ OnlyNames(d.body, i + 1, j)
    BY <2>2, <2>4, <2>5, <2>7
  <2> HIDE DEF p, scope, i, j
  <2>10. BodyAt(p, d, scope, found, j)
    BY <2>2, <2>9, DestructureStep
  <2>11. BodyAt(program, declaration, m_scopes[2], found', j)
    BY <2>1, <2>10 DEF p, d, scope
  <2> QED
    BY <1>1, <2>1, <2>8, <2>11, MovedOnSame
<1> QED
  BY <1>2, <1>3

\* Errors apart, a name that is recorded.
LEMMA GlobalsPut ==
    ASSUME NEW p, IsSeq(p), NEW scope, NEW n \in 1..Len(p), Recorded(p, scope, n),
           p[n].kind # "import", p[n].name \notin DOMAIN scope, NEW after,
           after = [y \in DOMAIN scope \cup {p[n].name} |->
                      IF y = p[n].name THEN Callable(p[n]) ELSE scope[y]]
    PROVE  Recorded(p, after, n + 1)
<1>1. (n + 1) - 1 = n /\ n \in Nat /\ \A i \in 1..n : i \in 1..(n - 1) \/ i = n
  OBVIOUS
<1>2. /\ \A i \in 1..(n - 1) : p[i].kind # "import" => p[i].name \in DOMAIN scope
      /\ \A x \in DOMAIN scope : \E i \in 1..(n - 1) : p[i].kind # "import" /\ p[i].name = x
  BY DEF Recorded
<1>3. DOMAIN after = {p[i].name : i \in {k \in 1..n : p[k].kind # "import"}}
  <2>1. ASSUME NEW x \in DOMAIN after
        PROVE  x \in {p[i].name : i \in {k \in 1..n : p[k].kind # "import"}}
    <3>1. CASE x = p[n].name
      <4>1. n \in {k \in 1..n : p[k].kind # "import"}
        BY <1>1
      <4> QED
        BY <3>1, <4>1
    <3>2. CASE x \in DOMAIN scope
      <4>1. PICK i \in 1..(n - 1) : p[i].kind # "import" /\ p[i].name = x
        BY <1>2, <3>2
      <4>2. i \in {k \in 1..n : p[k].kind # "import"}
        BY <1>1, <4>1
      <4> QED
        BY <4>1, <4>2
    <3> QED
      BY <2>1, <3>1, <3>2
  <2>2. ASSUME NEW i \in 1..n, p[i].kind # "import" PROVE p[i].name \in DOMAIN after
    BY <1>1, <1>2, <2>2
  <2> QED
    BY <2>1, <2>2
<1>4. \A i \in 1..n : p[i].kind # "import" => after[p[i].name] = Callable(p[i])
  <2> TAKE i \in 1..n
  <2> HAVE p[i].kind # "import"
  <2>1. CASE i = n
    BY <2>1
  <2>2. CASE i \in 1..(n - 1)
    <3>1. p[i].name \in DOMAIN scope /\ scope[p[i].name] = Callable(p[i])
      BY <1>2, <2>2 DEF Recorded
    <3> QED
      BY <3>1
  <2> QED
    BY <1>1, <2>1, <2>2
<1>5. DifferBefore(p, n + 1)
  <2> SUFFICES ASSUME NEW i \in 1..n, NEW k \in 1..n, p[i].kind # "import", p[k].kind # "import",
                      p[i].name = p[k].name
               PROVE  i = k
    BY <1>1 DEF DifferBefore
  <2>1. CASE i = n
    BY <1>1, <1>2, <2>1
  <2>2. CASE k = n
    BY <1>1, <1>2, <2>2
  <2>3. CASE i \in 1..(n - 1) /\ k \in 1..(n - 1)
    BY <2>3 DEF Recorded, DifferBefore
  <2> QED
    BY <1>1, <2>1, <2>2, <2>3
<1> HIDE DEF Callable
<1> QED
  BY <1>1, <1>3, <1>4, <1>5 DEF Recorded

LEMMA RecordedSkips ==
    ASSUME NEW p, IsSeq(p), NEW scope, NEW n \in 1..Len(p), Recorded(p, scope, n), p[n].kind = "import"
    PROVE  Recorded(p, scope, n + 1)
<1>1. (n + 1) - 1 = n /\ n \in Nat /\ \A i \in 1..n : i \in 1..(n - 1) \/ i = n
  OBVIOUS
<1>2. 1..(n - 1) \subseteq 1..n
  BY <1>1
<1>3. {k \in 1..n : p[k].kind # "import"} = {k \in 1..(n - 1) : p[k].kind # "import"}
  BY <1>1, <1>2
<1>4. DifferBefore(p, n + 1)
  <2> SUFFICES ASSUME NEW i \in 1..n, NEW k \in 1..n, p[i].kind # "import", p[k].kind # "import",
                      p[i].name = p[k].name
               PROVE  i = k
    BY <1>1 DEF DifferBefore
  <2>1. i \in 1..(n - 1) /\ k \in 1..(n - 1)
    BY <1>1
  <2> QED
    BY <2>1 DEF Recorded, DifferBefore
<1>5. \A i \in 1..n : p[i].kind # "import" => i \in 1..(n - 1)
  BY <1>1
<1> HIDE DEF Callable
<1> QED
  BY <1>1, <1>3, <1>4, <1>5 DEF Recorded

\* Between functions.
LEMMA BetweenFacts ==
    ASSUME AnalyzerInv, verdict = "checking", Len(m_scopes) # 2
    PROVE  /\ IsSeq(program) /\ Len(program) \in Nat /\ decl \in 1..(Len(program) + 1)
           /\ IsSeq(m_scopes) /\ Len(m_scopes) = 1 /\ at = 1 /\ found = <<>>
           /\ m_prepassing = TRUE => Recorded(program, m_scopes[1], decl)
           /\ m_prepassing # TRUE =>
                 m_prepassing = FALSE /\ Recorded(program, m_scopes[1], Len(program) + 1)
                 /\ SoundBefore(program, decl)
           /\ Declared(program)
<1>1. Walking /\ Declared(program)
  BY DEF AnalyzerInv
<1>2. IsSeq(program) /\ Len(program) \in Nat
  BY <1>1, SeqFacts DEF Declared
<1>3. Len(m_scopes) = 1
  <2>1. Len(m_scopes) \in 1..2
    BY <1>1 DEF Walking
  <2> QED
    BY <2>1
<1> QED
  BY <1>1, <1>2, <1>3 DEF Walking

\* A step between functions, or out of one.
LEMMA NowBetween ==
    ASSUME Declared(program), verdict' = "checking", UNCHANGED program,
           decl' \in 1..(Len(program) + 1),
           IsSeq(m_scopes'), Len(m_scopes') = 1, at' = 1, found' = <<>>,
           \/ m_prepassing' = TRUE /\ Recorded(program, m_scopes'[1], decl')
           \/ /\ m_prepassing' = FALSE /\ Recorded(program, m_scopes'[1], Len(program) + 1)
              /\ SoundBefore(program, decl')
    PROVE  AnalyzerInv'
<1>1. 1 \in 1..2 /\ ~ (1 = 2) /\ 1 \in 0..2 /\ 1 < 2 /\ TRUE # FALSE
  OBVIOUS
<1>2. Walking'
  <2>1. CASE m_prepassing' = TRUE /\ Recorded(program, m_scopes'[1], decl')
    BY <1>1, <2>1 DEF Walking
  <2>2. CASE /\ m_prepassing' = FALSE /\ Recorded(program, m_scopes'[1], Len(program) + 1)
             /\ SoundBefore(program, decl')
    BY <1>1, <2>2 DEF Walking
  <2> QED
    BY <2>1, <2>2
<1> QED
  BY <1>1, <1>2 DEF AnalyzerInv

LEMMA BeginKeeps == AnalyzerInv /\ begin_analysis => AnalyzerInv'
<1> SUFFICES ASSUME AnalyzerInv, begin_analysis PROVE AnalyzerInv'
  OBVIOUS
<1>1. /\ verdict = "waiting" /\ verdict' = "checking" /\ m_scopes' = <<NoNames>>
      /\ UNCHANGED <<program, m_prepassing, decl, at, found>>
  BY DEF begin_analysis, walk
<1>2. Declared(program) /\ m_prepassing = TRUE /\ decl = 1 /\ at = 1 /\ found = <<>>
  BY <1>1 DEF AnalyzerInv
<1>3. Len(program) \in Nat
  BY <1>2, SeqFacts DEF Declared
<1>4. IsSeq(m_scopes') /\ Len(m_scopes') = 1 /\ m_scopes'[1] = NoNames
  <2>1. <<NoNames>> \in Seq({NoNames}) /\ Len(<<NoNames>>) = 1 /\ <<NoNames>>[1] = NoNames
    OBVIOUS
  <2> QED
    BY <1>1, <2>1 DEF IsSeq
<1>5. Recorded(program, NoNames, 1)
  <2>1. 1..(1 - 1) = {}
    OBVIOUS
  <2>2. {k \in 1..(1 - 1) : program[k].kind # "import"} = {} /\ DOMAIN NoNames = {}
    BY <2>1 DEF NoNames
  <2>3. {program[i].name : i \in {k \in 1..(1 - 1) : program[k].kind # "import"}} = {}
    BY <2>2
  <2> QED
    BY <2>1, <2>2, <2>3 DEF Recorded, DifferBefore
<1>6. decl' = 1 /\ 1 \in 1..(Len(program) + 1)
  BY <1>1, <1>2, <1>3
<1> QED
  BY <1>1, <1>2, <1>4, <1>5, <1>6, NowBetween

LEMMA PrepassKeeps == AnalyzerInv /\ prepass => AnalyzerInv'
<1> SUFFICES ASSUME AnalyzerInv, prepass PROVE AnalyzerInv'
  OBVIOUS
<1> DEFINE p == program
<1> DEFINE scope == m_scopes[1]
<1>1. verdict = "checking" /\ m_prepassing = TRUE /\ decl <= Len(program)
  BY DEF prepass, Checking
<1>2. Len(m_scopes) # 2
  <2>1. Walking
    BY <1>1 DEF AnalyzerInv
  <2>2. Len(m_scopes) = 1
    BY <1>1, <2>1 DEF Walking
  <2> QED
    BY <2>2
<1>3. /\ IsSeq(p) /\ Len(p) \in Nat /\ decl \in 1..(Len(p) + 1)
      /\ IsSeq(m_scopes) /\ Len(m_scopes) = 1 /\ at = 1 /\ found = <<>>
      /\ Recorded(p, scope, decl) /\ Declared(program)
  BY <1>1, <1>2, BetweenFacts
<1>4. decl \in 1..Len(p) /\ decl + 1 \in 1..(Len(program) + 1)
  BY <1>1, <1>3
<1>5. CASE Refuse
  BY <1>5, EndKeeps
<1>6. CASE p[decl].kind = "import" /\ NextDeclaration /\ UNCHANGED <<program, m_scopes, m_prepassing>>
  <2>1. Recorded(p, scope, decl + 1)
    BY <1>3, <1>4, <1>6, RecordedSkips
  <2>2. decl' = decl + 1 /\ at' = 1 /\ UNCHANGED <<program, m_scopes, m_prepassing, found, verdict>>
    BY <1>6 DEF NextDeclaration
  <2> QED
    BY <1>1, <1>3, <1>4, <2>1, <2>2, NowBetween
<1>7. CASE /\ p[decl].kind # "import" /\ CanRecord(p[decl].name)
           /\ record_named_item(p[decl].name, Callable(p[decl]))
           /\ NextDeclaration /\ UNCHANGED <<program, m_prepassing>>
  <2> DEFINE name == p[decl].name
  <2> DEFINE after == [y \in DOMAIN scope \cup {name} |->
                         IF y = name THEN Callable(p[decl]) ELSE scope[y]]
  <2>1. m_scopes' = Put(m_scopes, 1, after) /\ name \notin DOMAIN scope
    BY <1>3, <1>7 DEF record_named_item, CanRecord, Put
  <2>2. 1 \in 1..Len(m_scopes)
    BY <1>3
  <2> HIDE DEF p, scope
  <2>3. Recorded(p, after, decl + 1)
    <3> HIDE DEF Callable
    <3> QED
      BY <1>3, <1>4, <1>7, <2>1, GlobalsPut
  <2> HIDE DEF after
  <2>4. IsSeq(m_scopes') /\ Len(m_scopes') = 1 /\ m_scopes'[1] = after
    <3>1. IsSeq(m_scopes)
      BY <1>3
    <3>2. IsSeq(m_scopes') /\ Len(m_scopes') = Len(m_scopes) /\ m_scopes'[1] = after
      BY <2>1, <2>2, <3>1, SeqPut
    <3> QED
      BY <1>3, <3>2
  <2>5. decl' = decl + 1 /\ at' = 1 /\ UNCHANGED <<program, m_prepassing, found, verdict>>
    BY <1>7 DEF NextDeclaration
  <2> QED
    BY <1>1, <1>3, <1>4, <2>3, <2>4, <2>5, NowBetween DEF p
<1> QED
  BY <1>5, <1>6, <1>7 DEF prepass, declaration

LEMMA SecondPassKeeps == AnalyzerInv /\ second_pass => AnalyzerInv'
<1> SUFFICES ASSUME AnalyzerInv, second_pass PROVE AnalyzerInv'
  OBVIOUS
<1>1. /\ verdict = "checking" /\ decl > Len(program) /\ m_prepassing' = FALSE /\ decl' = 1
      /\ UNCHANGED <<program, m_scopes, at, found, verdict>>
  BY DEF second_pass
<1>2. m_prepassing # FALSE
  BY Zenon DEF second_pass
<1>3. Len(m_scopes) # 2
  BY <1>1, <1>2 DEF AnalyzerInv, Walking
<1>4. /\ Len(program) \in Nat /\ decl \in 1..(Len(program) + 1)
      /\ IsSeq(m_scopes) /\ Len(m_scopes) = 1 /\ at = 1 /\ found = <<>>
      /\ Recorded(program, m_scopes[1], decl) /\ Declared(program)
  BY <1>1, <1>2, <1>3, BetweenFacts
<1>5. decl = Len(program) + 1 /\ 1 \in 1..(Len(program) + 1)
  BY <1>1, <1>4
<1>6. SoundBefore(program, 1)
  BY DEF SoundBefore
<1> QED
  BY <1>1, <1>4, <1>5, <1>6, NowBetween

LEMMA SkipKeeps == AnalyzerInv /\ skip_declaration => AnalyzerInv'
<1> SUFFICES ASSUME AnalyzerInv, skip_declaration PROVE AnalyzerInv'
  OBVIOUS
<1>1. /\ verdict = "checking" /\ m_prepassing = FALSE /\ decl <= Len(program)
      /\ program[decl].kind # "function" /\ decl' = decl + 1 /\ at' = 1
      /\ UNCHANGED <<program, m_scopes, m_prepassing, found, verdict>>
  BY DEF skip_declaration, Checking, NextDeclaration, declaration
<1>2. Len(m_scopes) # 2
  <2>1. Walking
    BY <1>1 DEF AnalyzerInv
  <2> QED
    BY <1>1, <2>1 DEF Walking
<1>3. ~ (m_prepassing = TRUE)
  BY <1>1
<1>4. /\ Len(program) \in Nat /\ decl \in 1..(Len(program) + 1)
      /\ IsSeq(m_scopes) /\ Len(m_scopes) = 1 /\ at = 1 /\ found = <<>>
      /\ Recorded(program, m_scopes[1], Len(program) + 1) /\ SoundBefore(program, decl)
      /\ Declared(program)
  BY <1>1, <1>2, <1>3, BetweenFacts
<1>5. decl + 1 \in 1..(Len(program) + 1)
  BY <1>1, <1>4
<1>6. SoundBefore(program, decl + 1)
  <2> SUFFICES ASSUME NEW i \in 1..decl, program[i].kind = "function"
               PROVE  SoundFrom(program, program[i], 1, Len(program[i].body))
    <3>1. (decl + 1) - 1 = decl
      BY <1>4
    <3> QED
      BY <3>1 DEF SoundBefore
  <2>1. i \in 1..(decl - 1)
    BY <1>1, <1>4
  <2> QED
    BY <1>4, <2>1 DEF SoundBefore
<1> QED
  BY <1>1, <1>4, <1>5, <1>6, NowBetween

LEMMA EnterKeeps == AnalyzerInv /\ enter_function => AnalyzerInv'
<1> SUFFICES ASSUME AnalyzerInv, enter_function PROVE AnalyzerInv'
  OBVIOUS
<1> DEFINE d == program[decl]
<1> DEFINE scope == [x \in ParamsOf(d) |-> Parameter]
<1>1. /\ verdict = "checking" /\ m_prepassing = FALSE /\ decl <= Len(program)
      /\ d.kind = "function" /\ Len(m_scopes) = 1
  BY DEF enter_function, Checking, declaration
<1>2. CASE Refuse
  BY <1>2, EndKeeps
<1>3. CASE ~ Refuse
  <2>1. /\ m_scopes' = Append(m_scopes, scope)
        /\ UNCHANGED <<program, m_prepassing, decl, at, found, verdict>>
    BY <1>3 DEF enter_function, declaration, walk, ParamsOf
  <2>2. Len(m_scopes) # 2 /\ ~ (m_prepassing = TRUE)
    BY <1>1
  <2>3. /\ Len(program) \in Nat /\ decl \in 1..(Len(program) + 1)
        /\ IsSeq(m_scopes) /\ at = 1 /\ found = <<>>
        /\ Recorded(program, m_scopes[1], Len(program) + 1) /\ SoundBefore(program, decl)
        /\ Declared(program)
    BY <1>1, <2>2, BetweenFacts
  <2>4. decl \in 1..Len(program)
    BY <1>1, <2>3
  <2>5. Leads(d.body, Ground)
    BY <1>1, <2>3, <2>4 DEF Declared
  <2>6. DOMAIN scope = ParamsOf(d) /\ \A x \in ParamsOf(d) : scope[x] = Parameter
    OBVIOUS
  <2> HIDE DEF scope
  <2>7. BodyAt(program, d, scope, <<>>, 0)
    <3> HIDE DEF d
    <3> QED
      BY <2>5, <2>6, BodyBegun
  <2>8. IsSeq(m_scopes') /\ Len(m_scopes') = 2 /\ m_scopes'[1] = m_scopes[1] /\ m_scopes'[2] = scope
    <3>1. 1 + 1 = 2 /\ 1 \in 1..Len(m_scopes)
      BY <1>1
    <3>2. /\ IsSeq(m_scopes') /\ Len(m_scopes') = Len(m_scopes) + 1
          /\ m_scopes'[Len(m_scopes) + 1] = scope
          /\ \A i \in 1..Len(m_scopes) : m_scopes'[i] = m_scopes[i]
      BY <2>1, <2>3, SeqAdd
    <3> QED
      BY <1>1, <3>1, <3>2
  <2>9. Walking'
    <3>1. BodyAt(program', program'[decl'], m_scopes'[2], found', at' - 1)
      <4>1. at' - 1 = 0 /\ found' = <<>> /\ program' = program /\ decl' = decl
        BY <2>1, <2>3
      <4> QED
        BY <2>7, <2>8, <4>1
    <3>2. /\ decl' \in 1..(Len(program') + 1) /\ Len(m_scopes') \in 1..2 /\ decl' <= Len(program')
          /\ at' \in Nat \ {0} /\ program'[decl'].kind = "function" /\ m_prepassing' = FALSE
      BY <1>1, <2>1, <2>3, <2>8
    <3>3. Recorded(program', m_scopes'[1], Len(program') + 1) /\ SoundBefore(program', decl')
      BY <2>1, <2>3, <2>8
    <3>4. ~ (Len(m_scopes') = 1) /\ ~ (m_prepassing' = TRUE)
      BY <2>8, <3>2
    <3> QED
      BY <2>8, <3>1, <3>2, <3>3, <3>4 DEF Walking
  <2>10. ~ (decl' > Len(program')) /\ Len(m_scopes') \in 0..2 /\ verdict' = "checking"
    BY <1>1, <2>1, <2>3, <2>8
  <2> QED
    BY <2>1, <2>3, <2>9, <2>10 DEF AnalyzerInv
<1> QED
  BY <1>2, <1>3

LEMMA LeaveKeeps == AnalyzerInv /\ leave_function => AnalyzerInv'
<1> SUFFICES ASSUME AnalyzerInv, leave_function PROVE AnalyzerInv'
  OBVIOUS
<1> DEFINE p == program
<1> DEFINE d == declaration
<1> DEFINE scope == m_scopes[2]
<1>1. /\ InBody /\ at > Len(body) /\ decl' = decl + 1 /\ at' = 1
      /\ m_scopes' = SubSeq(m_scopes, 1, Len(m_scopes) - 1)
      /\ UNCHANGED <<program, m_prepassing, found, verdict>>
  BY DEF leave_function, NextDeclaration, ScopesLeft
<1>2. /\ Leads(d.body, Ground) /\ Declared(program)
      /\ BodyAt(p, d, scope, found, at - 1)
      /\ at \in Nat \ {0} /\ decl \in 1..Len(program) /\ d.kind = "function"
      /\ IsSeq(m_scopes) /\ Len(m_scopes) = 2 /\ verdict = "checking" /\ m_prepassing = FALSE
      /\ Recorded(program, m_scopes[1], Len(program) + 1) /\ SoundBefore(program, decl)
  BY <1>1, InBodyFacts
<1>3. at - 1 = Len(d.body)
  <2>1. at - 1 \in 0..Len(d.body) /\ Len(d.body) \in Nat
    BY <1>2, LevelsGiven, SeqFacts DEF BodyAt
  <2> QED
    BY <1>1, <1>2, <2>1 DEF body
<1>4. found = <<>> /\ SoundFrom(p, d, 1, Len(d.body))
  <2>1. BodyAt(p, d, scope, found, Len(d.body))
    BY <1>2, <1>3
  <2> HIDE DEF p, d, scope
  <2> QED
    BY <1>2, <2>1, BodyDone
<1>5. IsSeq(m_scopes') /\ Len(m_scopes') = 1 /\ m_scopes'[1] = m_scopes[1]
  <2>1. 1 \in 1..(Len(m_scopes) + 1) /\ 1 \in (1 - 1)..Len(m_scopes) /\ 1 - 1 + 1 = 1
        /\ 1 + 1 - 1 = 1 /\ 1 \in 1..(1 - 1 + 1) /\ Len(m_scopes) - 1 = 1
    BY <1>2
  <2>2. LET t == SubSeq(m_scopes, 1, 1)
        IN IsSeq(t) /\ Len(t) = 1 - 1 + 1 /\ \A i \in 1..(1 - 1 + 1) : t[i] = m_scopes[1 + i - 1]
    BY <1>2, <2>1, SeqPart
  <2> QED
    BY <1>1, <2>1, <2>2
<1>6. SoundBefore(program, decl + 1)
  <2> SUFFICES ASSUME NEW i \in 1..decl, program[i].kind = "function"
               PROVE  SoundFrom(program, program[i], 1, Len(program[i].body))
    <3>1. (decl + 1) - 1 = decl
      BY <1>2
    <3> QED
      BY <3>1 DEF SoundBefore
  <2>1. CASE i = decl
    BY <1>4, <2>1 DEF declaration
  <2>2. CASE i \in 1..(decl - 1)
    BY <1>2, <2>2 DEF SoundBefore
  <2>3. i = decl \/ i \in 1..(decl - 1)
    BY <1>2
  <2> QED
    BY <2>1, <2>2, <2>3
<1>7. decl + 1 \in 1..(Len(program) + 1)
  <2>1. Len(program) \in Nat
    BY <1>2, SeqFacts DEF Declared
  <2> QED
    BY <1>2, <2>1
<1> QED
  BY <1>1, <1>2, <1>4, <1>5, <1>6, <1>7, NowBetween

LEMMA AllCheckedKeeps == AnalyzerInv /\ all_checked => AnalyzerInv'
<1> SUFFICES ASSUME AnalyzerInv, all_checked PROVE AnalyzerInv'
  OBVIOUS
<1>1. /\ verdict = "checking" /\ decl > Len(program)
      /\ verdict' = "accepted" /\ m_scopes' = <<>>
      /\ UNCHANGED <<program, m_prepassing, decl, at, found>>
  BY DEF all_checked, walk
<1>2. m_prepassing # TRUE
  BY Zenon DEF all_checked
<1>3. Len(m_scopes) # 2 /\ found = <<>>
  <2>1. Len(m_scopes) < 2 /\ found = <<>>
    BY <1>1 DEF AnalyzerInv
  <2> QED
    BY <2>1
<1>4. /\ Len(program) \in Nat /\ decl \in 1..(Len(program) + 1)
      /\ Recorded(program, m_scopes[1], Len(program) + 1) /\ SoundBefore(program, decl)
      /\ Declared(program)
  BY <1>1, <1>2, <1>3, BetweenFacts
<1>5. decl = Len(program) + 1
  BY <1>1, <1>4
<1>6. DifferBefore(program, Len(program) + 1) /\ SoundBefore(program, Len(program) + 1)
  BY <1>4, <1>5 DEF Recorded
<1>7. Len(<<>>) = 0 /\ 0 \in 0..2 /\ 0 < 2
  BY EmptySeq
<1> QED
  BY <1>1, <1>3, <1>4, <1>6, <1>7 DEF AnalyzerInv

LEMMA AnalyzeKeeps == AnalyzerInv /\ Analyze => AnalyzerInv'
<1> SUFFICES ASSUME AnalyzerInv, Analyze PROVE AnalyzerInv'
  OBVIOUS
<1>1. CASE check_expr
  BY <1>1, LiteralKeeps, ItemKeeps, SequenceKeeps, LambdaKeeps, CallKeeps, UnaryKeeps, BinaryKeeps,
     AssignKeeps DEF check_expr
<1>2. CASE check_stmt
  BY <1>2, OperandKeeps, DefKeeps, DetupKeeps, PassKeeps DEF check_stmt
<1>3. CASE begin_analysis \/ prepass \/ second_pass \/ skip_declaration
           \/ enter_function \/ leave_function \/ all_checked
  BY <1>3, BeginKeeps, PrepassKeeps, SecondPassKeeps, SkipKeeps, EnterKeeps, LeaveKeeps,
     AllCheckedKeeps
<1> QED
  BY <1>1, <1>2, <1>3 DEF Analyze

LEMMA InitAnalyzer == AnalyzerInit => AnalyzerInv
<1> SUFFICES ASSUME AnalyzerInit PROVE AnalyzerInv
  OBVIOUS
<1>1. /\ program = <<>> /\ m_scopes = <<>> /\ m_prepassing = TRUE
      /\ decl = 1 /\ at = 1 /\ found = <<>> /\ verdict = "waiting"
  BY DEF AnalyzerInit
<1>2. Len(<<>>) = 0 /\ 0 \in 0..2 /\ 0 < 2
  BY EmptySeq
<1> QED
  BY <1>1, <1>2, DeclaredNone DEF AnalyzerInv

-----------------------------------------------------------------------------
(* The front end's invariant *)

\* The analyzer waits for the parser to be done with all the files.
FrontendInv ==
    /\ ParserInv /\ AnalyzerInv
    /\ files \in FileSets
    /\ outcome \in {"parsing", "parsed", "refused", "died"}
    /\ verdict # "waiting" => outcome = "parsed"

LEMMA AnalyzerSame == AnalyzerInv /\ UNCHANGED analyzerVars => AnalyzerInv'
BY DEF AnalyzerInv, Walking, analyzerVars

LEMMA ParserSame == ParserInv /\ UNCHANGED parserVars => ParserInv'
BY DEF ParserInv, Between, parserVars

LEMMA FileFacts ==
    ASSUME files \in FileSets, NEW path
    PROVE  LET file == FileAt(path)
           IN /\ file = [text |-> file.text, parts |-> file.parts, spare |-> file.spare,
                         ending |-> file.ending]
              /\ file.spare \in Nat
<1>1. CASE path \in DOMAIN files
  BY <1>1, FilesAssumption DEF FileAt
<1>2. CASE path \notin DOMAIN files
  BY <1>2 DEF FileAt, EmptyFile
<1> QED
  BY <1>1, <1>2

LEMMA InitFrontend == Init => FrontendInv
BY InitParser, InitAnalyzer DEF Init, FrontendInv, SourcesInit, AnalyzerInit

LEMMA NextFrontend == FrontendInv /\ [Next]_frontendVars => FrontendInv'
<1> SUFFICES ASSUME FrontendInv, [Next]_frontendVars PROVE FrontendInv'
  OBVIOUS
<1>1. /\ ParserInv /\ AnalyzerInv /\ files \in FileSets
      /\ outcome \in {"parsing", "parsed", "refused", "died"}
      /\ verdict # "waiting" => outcome = "parsed"
  BY DEF FrontendInv
<1>2. CASE work_through
  <2>1. /\ UNCHANGED <<files, parserVars, analyzerVars>>
        /\ outcome = "parsing" /\ outcome' \in {"parsing", "parsed"}
    BY <1>2 DEF work_through, skip_visited, all_parsed, Loops
  <2>2. ParserInv' /\ AnalyzerInv'
    BY <1>1, <2>1, AnalyzerSame, ParserSame
  <2>3. verdict' = verdict
    BY <2>1 DEF analyzerVars
  <2> QED
    BY <1>1, <2>1, <2>2, <2>3 DEF FrontendInv
<1>3. CASE begin_parse
  <2>1. Opened(FileAt(top.file_path)) /\ UNCHANGED <<files, analyzerVars, outcome>>
    BY <1>3 DEF begin_parse, read_source
  <2> DEFINE file == FileAt(top.file_path)
  <2>2. /\ file = [text |-> file.text, parts |-> file.parts, spare |-> file.spare,
                   ending |-> file.ending]
        /\ file.spare \in Nat /\ Opened(file)
    BY <1>1, <2>1, FileFacts
  <2> HIDE DEF file
  <2>3. ParserInv' /\ AnalyzerInv'
    BY <1>1, <2>1, <2>2, AnalyzerSame, OpenKeeps
  <2>4. verdict' = verdict
    BY <2>1 DEF analyzerVars
  <2> QED
    BY <1>1, <2>1, <2>3, <2>4 DEF FrontendInv
<1>4. CASE parse
  <2>1. Parse /\ UNCHANGED <<files, analyzerVars, outcome>>
    BY <1>4 DEF parse, sourcesVars
  <2>2. ParserInv' /\ AnalyzerInv'
    BY <1>1, <2>1, AnalyzerSame, ParseKeeps
  <2>3. verdict' = verdict
    BY <2>1 DEF analyzerVars
  <2> QED
    BY <1>1, <2>1, <2>2, <2>3 DEF FrontendInv
<1>5. CASE parse_import
  <2>1. consume("import") /\ UNCHANGED <<files, analyzerVars, outcome>>
    BY <1>5 DEF parse_import, pend_import
  <2>2. ParserInv' /\ AnalyzerInv'
    BY <1>1, <2>1, AnalyzerSame, ParseKeeps
  <2>3. verdict' = verdict
    BY <2>1 DEF analyzerVars
  <2> QED
    BY <1>1, <2>1, <2>2, <2>3 DEF FrontendInv
<1>6. CASE end_parse
  <2>1. /\ program' = program \o decls /\ outcome = "parsing"
        /\ UNCHANGED <<files, parserVars, m_scopes, m_prepassing, decl, at, found, verdict, outcome>>
    BY <1>6 DEF end_parse, source_parsed, walk
  <2>2. verdict = "waiting"
    BY <1>1, <2>1
  <2>3. /\ Declared(program) /\ m_scopes = <<>> /\ m_prepassing = TRUE /\ decl = 1 /\ at = 1
        /\ found = <<>>
    BY <1>1, <2>2 DEF AnalyzerInv
  <2>4. Declared(program')
    <3>1. Declared(decls)
      BY <1>1 DEF ParserInv
    <3> QED
      BY <2>1, <2>3, <3>1, DeclaredTwice
  <2>5. AnalyzerInv'
    <3>1. Len(<<>>) = 0 /\ 0 \in 0..2 /\ 0 < 2
      BY EmptySeq
    <3> QED
      BY <2>1, <2>2, <2>3, <2>4, <3>1 DEF AnalyzerInv
  <2>6. ParserInv'
    BY <1>1, <2>1, ParserSame
  <2> QED
    BY <1>1, <2>1, <2>5, <2>6 DEF FrontendInv
<1>7. CASE end_with_errors
  <2>1. UNCHANGED <<files, parserVars, analyzerVars>> /\ outcome = "parsing" /\ outcome' = "refused"
    BY <1>7 DEF end_with_errors, source_failed
  <2>2. ParserInv' /\ AnalyzerInv' /\ verdict' = verdict /\ verdict = "waiting"
    BY <1>1, <2>1, AnalyzerSame, ParserSame DEF analyzerVars
  <2> QED
    BY <1>1, <2>1, <2>2 DEF FrontendInv
<1>8. CASE terminate
  <2>1. /\ uncaught /\ UNCHANGED <<files, analyzerVars>>
        /\ outcome = "parsing" /\ outcome' = "died"
    BY <1>8 DEF terminate, source_failed
  <2>2. ParserInv' /\ AnalyzerInv' /\ verdict' = verdict /\ verdict = "waiting"
    BY <1>1, <2>1, AnalyzerSame, ParseKeeps DEF analyzerVars
  <2> QED
    BY <1>1, <2>1, <2>2 DEF FrontendInv
<1>9. CASE check_semantics
  <2>1. Analyze /\ outcome = "parsed" /\ UNCHANGED <<files, parserVars, outcome>>
    BY <1>9 DEF check_semantics, sourcesVars
  <2>2. ParserInv' /\ AnalyzerInv'
    BY <1>1, <2>1, AnalyzeKeeps, ParserSame
  <2> QED
    BY <1>1, <2>1, <2>2 DEF FrontendInv
<1>10. CASE UNCHANGED frontendVars
  <2>1. UNCHANGED <<files, parserVars, analyzerVars, outcome>>
    BY <1>10 DEF frontendVars, sourcesVars
  <2>2. ParserInv' /\ AnalyzerInv' /\ verdict' = verdict
    BY <1>1, <2>1, AnalyzerSame, ParserSame DEF analyzerVars
  <2> QED
    BY <1>1, <2>1, <2>2 DEF FrontendInv
<1> QED
  BY <1>2, <1>3, <1>4, <1>5, <1>6, <1>7, <1>8, <1>9, <1>10 DEF Next

-----------------------------------------------------------------------------
(* What follows *)

\* An accepted program has passed every check.
LEMMA AcceptedSound ==
    ASSUME FrontendInv, verdict = "accepted", NEW f \in DOMAIN program, program[f].kind = "function",
           NEW i \in DOMAIN program[f].body, Checked(program[f].body, i)
    PROVE  /\ SoundAt(program, program[f], i)
           /\ i \in Nat \ {0}
           /\ i < Len(program[f].body) /\ program[f].body[i][1] = "name" =>
                 SoundAt(program, program[f], i + 1)
<1> DEFINE d == program[f]
<1> DEFINE events == d.body
<1>1. Declared(program) /\ SoundBefore(program, Len(program) + 1)
  BY DEF FrontendInv, AnalyzerInv
<1>2. f \in 1..Len(program) /\ Len(program) \in Nat /\ (Len(program) + 1) - 1 = Len(program)
  BY <1>1, SeqFacts DEF Declared
<1>3. SoundFrom(program, d, 1, Len(events))
  BY <1>1, <1>2 DEF SoundBefore
<1>4. IsSeq(events)
  BY <1>1, <1>2 DEF Declared, Leads
<1>5. Len(events) \in Nat /\ i \in 1..Len(events)
  <2> HIDE DEF events
  <2>1. DOMAIN events = 1..Len(events) /\ Len(events) \in Nat
    BY <1>4, SeqFacts
  <2> QED
    BY <2>1 DEF events
<1>6. ASSUME NEW k \in 1..Len(events), Checked(events, k) PROVE SoundAt(program, d, k)
  BY <1>3, <1>6 DEF SoundFrom
<1>7. ASSUME i < Len(events), events[i][1] = "name" PROVE Checked(events, i + 1) /\ i + 1 \in 1..Len(events)
  <2>1. ASSUME NEW k \in 1..((i + 1) - 1), events[k][1] = "call" PROVE Close(events, k) <= i + 1
    <3>1. k # i
      BY <1>7, <2>1
    <3>2. k \in 1..(i - 1)
      BY <1>5, <3>1
    <3>3. Close(events, k) <= i
      BY <2>1, <3>2 DEF Checked
    <3>4. Close(events, k) \in Int
      <4>1. k \in 1..Len(events) /\ events[k][1] \in Openers
        BY <1>5, <2>1, <3>2 DEF Openers
      <4>2. Leads(events, Ground)
        BY <1>1, <1>2 DEF Declared
      <4>3. Levels(events, LevelsOf(events))
        BY <4>2, LevelsGiven
      <4>4. Close(events, k) \in (k + 1)..Len(events)
        <5> HIDE DEF events
        <5> QED
          BY <1>4, <4>1, <4>3, OpenerFacts
      <4> QED
        BY <4>4
    <3> QED
      BY <1>5, <3>3, <3>4
  <2> QED
    BY <1>5, <1>7, <2>1 DEF Checked
<1> QED
  BY <1>5, <1>6, <1>7

LEMMA LowerableFollows == FrontendInv => AcceptedIsLowerable
<1> SUFFICES ASSUME FrontendInv, verdict = "accepted"
             PROVE  /\ NamesDiffer
                    /\ \A f \in DOMAIN program : program[f].kind = "function" =>
                          \A i \in DOMAIN program[f].body :
                              Checked(program[f].body, i) => LowerableAt(program[f], i)
  BY DEF AcceptedIsLowerable
<1>1. NamesDiffer
  <2>1. Declared(program) /\ DifferBefore(program, Len(program) + 1)
    BY DEF FrontendInv, AnalyzerInv
  <2>2. DOMAIN program = 1..((Len(program) + 1) - 1)
    BY <2>1, SeqFacts DEF Declared
  <2> QED
    BY <2>1, <2>2 DEF NamesDiffer, DifferBefore
<1>2. ASSUME NEW f \in DOMAIN program, program[f].kind = "function",
             NEW i \in DOMAIN program[f].body, Checked(program[f].body, i)
      PROVE  LowerableAt(program[f], i)
  <2> DEFINE d == program[f]
  <2> DEFINE events == d.body
  <2> DEFINE x == events[i][2]
  <2>1. /\ SoundAt(program, d, i) /\ i \in Nat \ {0}
        /\ i < Len(events) /\ events[i][1] = "name" => SoundAt(program, d, i + 1)
    BY <1>2, AcceptedSound
  <2>2. Functions = NamesIn(program) /\ FunctionNamed(x) = DeclaredAs(program, x)
    BY DEF Functions, NamesIn, FunctionNamed, DeclaredAs
  <2>3. events[i][1] = "name" => x \in Functions \cup Locals(d, i)
    BY <2>1, <2>2 DEF SoundAt
  <2>4. events[i][1] = "def" => x \notin Locals(d, i)
    BY <2>1 DEF SoundAt
  <2>5. ASSUME i < Len(events), events[i][1] = "name", events[i + 1][1] = "call", x \notin Locals(d, i)
        PROVE  Cardinality(PartsOf(events, "argument", i + 1, Close(events, i + 1)))
                 = Len(FunctionNamed(x).params)
    <3>1. SoundAt(program, d, i + 1) /\ i + 1 > 1 /\ (i + 1) - 1 = i
      BY <2>1, <2>5
    <3> QED
      BY <2>2, <2>5, <3>1 DEF SoundAt
  <2> QED
    BY <2>3, <2>4, <2>5 DEF LowerableAt
<1> QED
  BY <1>1, <1>2

LEMMA AssignmentsFollow == FrontendInv => AssignsOnlyVariables
BY AcceptedSound DEF AssignsOnlyVariables, SoundAt

LEMMA TypesFollow == FrontendInv /\ ImportsNamePaths => FrontendTypeOK
<1> SUFFICES ASSUME FrontendInv, ImportsNamePaths PROVE FrontendTypeOK
  OBVIOUS
<1>1. ParserInv /\ AnalyzerInv /\ outcome \in {"parsing", "parsed", "refused", "died"}
  BY DEF FrontendInv
<1>2. \A i \in DOMAIN goals : goals[i][1] \in Rules
  BY <1>1, GoalsKnown
<1>3. unread.spare \in Nat \cup {-1} /\ m_error_count \in Nat
  BY <1>1 DEF ParserInv
<1>4. \A i \in DOMAIN decls : decls[i].kind \in {"import", "native", "function"}
  <2>1. Declared(decls)
    BY <1>1 DEF ParserInv
  <2>2. DOMAIN decls = 1..Len(decls)
    BY <2>1, SeqFacts DEF Declared
  <2> QED
    BY <2>1, <2>2 DEF Declared, Kinds
<1>5. ASSUME InBody PROVE at \in 1..(Len(body) + 1) /\ Len(found) = Height(body)[at - 1]
  <2>1. /\ Leads(declaration.body, Ground) /\ at \in Nat \ {0}
        /\ BodyAt(program, declaration, m_scopes[2], found, at - 1)
    BY <1>1, <1>5, InBodyFacts
  <2>2. /\ IsSeq(body) /\ Levels(body, LevelsOf(body)) /\ at - 1 \in 0..Len(body)
        /\ Len(found) = LevelsOf(body)[at - 1].height /\ Len(body) \in Nat
    BY <2>1, LevelsGiven, SeqFacts DEF BodyAt, body
  <2>3. Height(body)[at - 1] = LevelsOf(body)[at - 1].height
    BY <2>2, LevelsAre
  <2> QED
    BY <2>1, <2>2, <2>3
<1>6. /\ Len(m_scopes) \in 0..2 /\ (decl > Len(program) => Len(m_scopes) < 2 /\ found = <<>>)
      /\ verdict \in {"waiting", "checking", "accepted", "refused", "died"}
  BY <1>1 DEF AnalyzerInv
<1> QED
  BY <1>1, <1>2, <1>3, <1>4, <1>5, <1>6 DEF FrontendTypeOK

\* Whatever the files hold, the parser and the analyzer keep to their states: no goal
\* is unknown, and the analyzer has one result for each operand that is complete.  That
\* imports name paths among Paths is asked of the files.
THEOREM FrontendTypes == Spec /\ []ImportsNamePaths => []FrontendTypeOK
<1>1. Init => FrontendInv
  BY InitFrontend
<1>2. FrontendInv /\ [Next]_frontendVars => FrontendInv'
  BY NextFrontend
<1>3. FrontendInv /\ ImportsNamePaths => FrontendTypeOK
  BY TypesFollow
<1> QED
  BY <1>1, <1>2, <1>3, PTL DEF Spec

\* Whatever the files hold, errors included, a program that the analyzer accepts is one
\* that Lowering can rely on: names known where they are read, none defined twice, and
\* functions called with as many arguments as they have parameters.
THEOREM AcceptedAreLowerable == Spec => []AcceptedIsLowerable
<1>1. Init => FrontendInv
  BY InitFrontend
<1>2. FrontendInv /\ [Next]_frontendVars => FrontendInv'
  BY NextFrontend
<1>3. FrontendInv => AcceptedIsLowerable
  BY LowerableFollows
<1> QED
  BY <1>1, <1>2, <1>3, PTL DEF Spec

\* And no accepted program assigns to a parameter, a function, a literal or the result
\* of an operation (analyzer.cpp, check_assignability).
THEOREM AssignmentsAreToVariables == Spec => []AssignsOnlyVariables
<1>1. Init => FrontendInv
  BY InitFrontend
<1>2. FrontendInv /\ [Next]_frontendVars => FrontendInv'
  BY NextFrontend
<1>3. FrontendInv => AssignsOnlyVariables
  BY AssignmentsFollow
<1> QED
  BY <1>1, <1>2, <1>3, PTL DEF Spec
===============================================================================
