--------------------------- MODULE CompilerProofs ---------------------------
(***************************************************************************)
(* The compiler from the AST to bytecode.  Whatever sources are compiled,  *)
(* of any length and nesting, and whether they can be lowered or not: no   *)
(* address but of what has been given out, no link but to a block of the   *)
(* graph, and the emitter visits no other.  First the invariant, and what  *)
(* it says of the graphs: whatever is emitted, added or linked, every link *)
(* of a graph leads to one of its blocks, and what has been given out      *)
(* (registers, constants, blocks) only grows while a function is lowered.  *)
(* Then every action of the lowering and of the emitter keeps it, those    *)
(* that fail and those that pass something over included: a lemma for      *)
(* each, or for a few that are alike.                                      *)
(*                                                                         *)
(* Then, that the chunks keep the calling convention of the machine        *)
(* (CallsPrepared).  It takes three invariants more.  Prepares: in every   *)
(* block, a call with arguments comes right after the move of the last of  *)
(* them, and before a step that marks a jump comes that jump.  Nesting:    *)
(* ends of ifs and loops have begins of their own, and no link leads       *)
(* around a begin.  Emission: so the emitter, which goes where links lead, *)
(* patches what it has marked, of the chunk it is at, and patches jumps to *)
(* nops only.                                                              *)
(***************************************************************************)
EXTENDS Emitter, SequenceTheorems, FiniteSetTheorems, TLAPS

\* The length of a sequence, whatever its items.
IsSeq(s) == \E S : s \in Seq(S)

Fields == {"steps", "truthy_id", "falsy_id"}
BlockOK(bb, cfg) ==
    /\ DOMAIN bb = Fields
    /\ bb.truthy_id \in Links(cfg) /\ bb.falsy_id \in Links(cfg)
GraphOK(cfg) ==
    IsSeq(cfg) /\ cfg # <<>> /\ \A b \in 1..Len(cfg) : BlockOK(cfg[b], cfg)

\* Every graph has a block, and its links lead to blocks.
Graphs ==
    IsSeq(m_result_cfgs) /\ \A f \in 1..Len(m_result_cfgs) : GraphOK(m_result_cfgs[f])

\* Names stand for what has been given out.
Names ==
    /\ source \in Seq(Function)
    /\ m_next_func_aa \in 0..Len(source) /\ m_next_local_aa \in Nat
    /\ IsSeq(m_proto_consts)
    /\ \A x \in DOMAIN m_globals : m_globals[x] \in Globals
    /\ \A x \in DOMAIN m_locals : m_locals[x] \in Addresses

\* The function is at the bottom of the stack, and in progress in the last graph.
Stack ==
    /\ values \in Seq(Addresses \cup {NoAddress})
    /\ activations \in Seq(Activation)
    /\ \A k \in 1..Len(activations) : activations[k].kind = "function" <=> k = 1
    /\ activations # <<>> => m_result_cfgs # <<>>
Pending == m_pending_links \in Seq(Links(wip) \X Links(wip))

\* Between two functions nothing is left of the first.
Stages ==
    /\ phase \in {"prepass", "lower", "skip", "link", "emit", "done", "failed", "undefined"}
    /\ depth \in Nat
    /\ phase = "prepass" => activations = <<>>
    /\ phase \in {"prepass", "lower"} /\ activations = <<>> =>
          values = <<>> /\ m_pending_links = <<>>
    /\ phase = "link" => values = <<>> /\ Len(activations) = 1
    /\ phase = "skip" => activations # <<>>
    /\ phase \in {"prepass", "lower", "skip", "link"} => m_result_chunks = <<>>

Visits ==
    /\ IsSeq(m_result_chunks) /\ Len(m_result_chunks) <= Len(m_result_cfgs)
    /\ m_result_chunks = <<>> => frontier = <<>>
    /\ m_result_chunks # <<>> =>
          frontier \in Seq(BlocksOf(m_result_cfgs[Len(m_result_chunks)]))

Inv == Graphs /\ Names /\ Stack /\ Pending /\ Stages /\ Visits

-----------------------------------------------------------------------------
(* Sequences *)

\* A sequence has a length, and its places are counted from 1.
LEMMA SeqLength ==
    ASSUME NEW s, IsSeq(s)
    PROVE  Len(s) \in Nat /\ DOMAIN s = 1..Len(s) /\ (s # <<>> => Len(s) > 0)
<1>1. PICK S : s \in Seq(S)
  BY DEF IsSeq
<1> QED
  BY <1>1, LenProperties, EmptySeq

\* A place of a sequence may hold anything else.
LEMMA SeqExcept ==
    ASSUME NEW s, IsSeq(s), NEW n \in 1..Len(s), NEW x
    PROVE  LET t == [s EXCEPT ![n] = x]
           IN IsSeq(t) /\ Len(t) = Len(s) /\ t # <<>>
              /\ \A i \in 1..Len(s) : t[i] = IF i = n THEN x ELSE s[i]
<1>1. PICK S : s \in Seq(S)
  BY DEF IsSeq
<1> DEFINE T == S \cup {x}
<1> DEFINE t == [s EXCEPT ![n] = x]
<1>2. s \in Seq(T)
  BY <1>1, SeqMonotonic
<1>3. t \in Seq(T) /\ Len(t) = Len(s) /\ \A i \in 1..Len(s) : t[i] = IF i = n THEN x ELSE s[i]
  BY <1>2, ExceptSeq
<1>4. t # <<>>
  BY <1>3, EmptySeq
<1> QED
  BY <1>3, <1>4 DEF IsSeq

LEMMA SeqAppend ==
    ASSUME NEW s, IsSeq(s), NEW x
    PROVE  LET t == Append(s, x)
           IN IsSeq(t) /\ Len(t) = Len(s) + 1 /\ t # <<>> /\ t[Len(t)] = x
              /\ \A i \in 1..Len(s) : t[i] = s[i]
<1>1. PICK S : s \in Seq(S)
  BY DEF IsSeq
<1> DEFINE T == S \cup {x}
<1>2. s \in Seq(T)
  BY <1>1, SeqMonotonic
<1>3. Append(s, x) \in Seq(T) /\ Len(Append(s, x)) = Len(s) + 1
      /\ Append(s, x)[Len(s) + 1] = x /\ \A i \in 1..Len(s) : Append(s, x)[i] = s[i]
  BY <1>2, AppendProperties
<1>4. Append(s, x) # <<>>
  BY <1>3, EmptySeq, SeqLength
<1> QED
  BY <1>3, <1>4 DEF IsSeq

\* What is left when items are taken off the end.
LEMMA SeqShorter ==
    ASSUME NEW S, NEW s \in Seq(S), NEW n \in Nat, n <= Len(s)
    PROVE  LET t == SubSeq(s, 1, n)
           IN t \in Seq(S) /\ Len(t) = n /\ \A i \in 1..n : t[i] = s[i]
<1>1. \A i \in 1..n : s[i] \in S
  BY LenProperties
<1>2. /\ SubSeq(s, 1, n) \in Seq(S)
      /\ Len(SubSeq(s, 1, n)) = IF 1 <= n THEN n - 1 + 1 ELSE 0
      /\ \A i \in 1..(n - 1 + 1) : SubSeq(s, 1, n)[i] = s[1 + i - 1]
  BY <1>1, SubSeqProperties
<1> QED
  BY <1>2

-----------------------------------------------------------------------------
(* Graphs *)

\* A block of a graph is replaced.
LEMMA BlockReplaced ==
    ASSUME NEW cfg, GraphOK(cfg), NEW n \in 1..Len(cfg), NEW bb, BlockOK(bb, cfg)
    PROVE  GraphOK([cfg EXCEPT ![n] = bb]) /\ Len([cfg EXCEPT ![n] = bb]) = Len(cfg)
<1> DEFINE new == [cfg EXCEPT ![n] = bb]
<1>1. /\ IsSeq(new) /\ Len(new) = Len(cfg) /\ new # <<>>
      /\ \A i \in 1..Len(cfg) : new[i] = IF i = n THEN bb ELSE cfg[i]
  BY SeqExcept DEF GraphOK
<1>2. Links(new) = Links(cfg)
  BY <1>1 DEF Links, BlocksOf
<1>3. \A i \in 1..Len(new) : BlockOK(new[i], new)
  BY <1>1, <1>2 DEF GraphOK, BlockOK
<1> QED
  BY <1>1, <1>3 DEF GraphOK

\* cfg.cpp:39: steps are added to the newest block.
LEMMA AddKeeps ==
    ASSUME NEW cfg, GraphOK(cfg), NEW steps
    PROVE  GraphOK(Add(cfg, steps)) /\ Len(Add(cfg, steps)) = Len(cfg)
<1> DEFINE n == Len(cfg)
<1> DEFINE bb == [cfg[n] EXCEPT !.steps = @ \o steps]
<1>1. n \in 1..n
  BY SeqLength DEF GraphOK
<1>2. BlockOK(cfg[n], cfg)
  BY <1>1 DEF GraphOK
<1>3. BlockOK(bb, cfg)
  BY <1>2 DEF BlockOK, Fields
<1>4. Add(cfg, steps) = [cfg EXCEPT ![n] = bb]
  BY DEF Add
<1> HIDE DEF bb
<1>5. GraphOK([cfg EXCEPT ![n] = bb]) /\ Len([cfg EXCEPT ![n] = bb]) = Len(cfg)
  BY <1>1, <1>3, BlockReplaced
<1> QED
  BY <1>4, <1>5

\* cfg.cpp:47: a new block has no links.
LEMMA BlockAdded ==
    ASSUME NEW cfg, GraphOK(cfg)
    PROVE  GraphOK(add_bb(cfg)) /\ Len(add_bb(cfg)) = Len(cfg) + 1
<1> DEFINE new == Append(cfg, EmptyBlock)
<1>1. Len(cfg) \in Nat
  BY SeqLength DEF GraphOK
<1>2. /\ IsSeq(new) /\ Len(new) = Len(cfg) + 1 /\ new # <<>> /\ new[Len(new)] = EmptyBlock
      /\ \A i \in 1..Len(cfg) : new[i] = cfg[i]
  BY SeqAppend DEF GraphOK
<1>3. Links(cfg) \subseteq Links(new)
  BY <1>1, <1>2 DEF Links, BlocksOf
<1>4. BlockOK(EmptyBlock, new)
  BY DEF BlockOK, EmptyBlock, Fields, Links
<1>5. ASSUME NEW i \in 1..Len(new) PROVE BlockOK(new[i], new)
  <2>1. CASE i = Len(new)
    BY <2>1, <1>2, <1>4
  <2>2. CASE i # Len(new)
    <3>1. i \in 1..Len(cfg) /\ BlockOK(cfg[i], cfg) /\ new[i] = cfg[i]
      BY <2>2, <1>1, <1>2 DEF GraphOK
    <3> QED
      BY <3>1, <1>3 DEF BlockOK
  <2> QED
    BY <2>1, <2>2
<1> QED
  BY <1>2, <1>5 DEF GraphOK, add_bb

\* The first block of a function.
LEMMA FirstBlock == GraphOK(add_bb(<<>>)) /\ Len(add_bb(<<>>)) = 1
<1>1. IsSeq(<<>>) /\ Len(<<>>) = 0
  BY EmptySeq DEF IsSeq
<1> DEFINE new == Append(<<>>, EmptyBlock)
<1>2. IsSeq(new) /\ Len(new) = 1 /\ new # <<>> /\ new[1] = EmptyBlock
  <2>1. \A x : LET t == Append(<<>>, x) IN IsSeq(t) /\ Len(t) = 0 + 1 /\ t # <<>> /\ t[Len(t)] = x
    BY <1>1, SeqAppend
  <2> QED
    BY <2>1
<1>3. BlockOK(EmptyBlock, new)
  BY DEF BlockOK, EmptyBlock, Fields, Links
<1> QED
  BY <1>2, <1>3 DEF GraphOK, add_bb

\* cfg.cpp:59: a link is made between blocks.
LEMMA LinkKeeps ==
    ASSUME NEW cfg, GraphOK(cfg), NEW link \in Links(cfg) \X Links(cfg), link[1] # NoBlock
    PROVE  GraphOK(link_bb(cfg, link)) /\ Len(link_bb(cfg, link)) = Len(cfg)
<1> DEFINE n == link[1] + 1
<1> DEFINE bb == cfg[n]
<1>1. Len(cfg) \in Nat
  BY SeqLength DEF GraphOK
<1>2. n \in 1..Len(cfg) /\ link[2] \in Links(cfg)
  BY <1>1 DEF Links, BlocksOf
<1>3. BlockOK(bb, cfg)
  BY <1>2 DEF GraphOK
<1>4. \A new : BlockOK(new, cfg) =>
        GraphOK([cfg EXCEPT ![n] = new]) /\ Len([cfg EXCEPT ![n] = new]) = Len(cfg)
  BY <1>2, BlockReplaced
<1>5. CASE bb.truthy_id = NoBlock
  <2> DEFINE new == [bb EXCEPT !.truthy_id = link[2]]
  <2>1. BlockOK(new, cfg)
    BY <1>2, <1>3 DEF BlockOK, Fields
  <2>2. link_bb(cfg, link) = [cfg EXCEPT ![n] = new]
    BY <1>5 DEF link_bb
  <2> QED
    BY <2>1, <2>2, <1>4
<1>6. CASE bb.truthy_id # NoBlock /\ bb.falsy_id = NoBlock
  <2> DEFINE new == [bb EXCEPT !.falsy_id = link[2]]
  <2>1. BlockOK(new, cfg)
    BY <1>2, <1>3 DEF BlockOK, Fields
  <2>2. link_bb(cfg, link) = [cfg EXCEPT ![n] = new]
    BY <1>6 DEF link_bb
  <2> QED
    BY <2>1, <2>2, <1>4
<1>7. CASE bb.truthy_id # NoBlock /\ bb.falsy_id # NoBlock
  BY <1>7 DEF link_bb
<1> QED
  BY <1>5, <1>6, <1>7

\* The graph in progress is replaced by one no shorter, and the others stay.
LEMMA Replaced ==
    ASSUME Graphs, m_result_cfgs # <<>>, NEW cfg, GraphOK(cfg), Becomes(cfg)
    PROVE  /\ Graphs' /\ wip' = cfg
           /\ Len(m_result_cfgs') = Len(m_result_cfgs) /\ m_result_cfgs' # <<>>
<1> DEFINE n == Len(m_result_cfgs)
<1>1. n \in Nat /\ n \in 1..n
  BY SeqLength DEF Graphs
<1>2. /\ IsSeq(m_result_cfgs') /\ Len(m_result_cfgs') = n /\ m_result_cfgs' # <<>>
      /\ \A i \in 1..n : m_result_cfgs'[i] = IF i = n THEN cfg ELSE m_result_cfgs[i]
  <2>1. m_result_cfgs' = [m_result_cfgs EXCEPT ![n] = cfg]
    BY DEF Becomes
  <2>2. IsSeq(m_result_cfgs)
    BY DEF Graphs
  <2> DEFINE t == [m_result_cfgs EXCEPT ![n] = cfg]
  <2>3. /\ IsSeq(t) /\ Len(t) = n /\ t # <<>>
        /\ \A i \in 1..n : t[i] = IF i = n THEN cfg ELSE m_result_cfgs[i]
    BY <1>1, <2>2, SeqExcept
  <2> QED
    BY <2>1, <2>3
<1>3. wip' = cfg
  BY <1>1, <1>2 DEF wip
<1>4. Graphs'
  BY <1>2 DEF Graphs
<1> QED
  BY <1>2, <1>3, <1>4

\* The graph in progress has a block.
LEMMA Newest ==
    ASSUME Graphs, m_result_cfgs # <<>>
    PROVE  GraphOK(wip) /\ Len(wip) \in Nat /\ Len(wip) > 0 /\ newest_bb \in BlocksOf(wip)
<1>1. Len(m_result_cfgs) \in 1..Len(m_result_cfgs)
  BY SeqLength DEF Graphs
<1>2. GraphOK(wip)
  BY <1>1 DEF Graphs, wip
<1>3. Len(wip) \in Nat /\ Len(wip) > 0
  BY <1>2, SeqLength DEF GraphOK
<1> QED
  BY <1>2, <1>3 DEF newest_bb, BlocksOf

\* Blocks are added to the graph in progress.
GraphsGrow ==
    /\ Graphs' /\ m_result_cfgs' # <<>> /\ Len(m_result_cfgs') = Len(m_result_cfgs)
    /\ Len(wip) \in Nat /\ Len(wip') \in Nat /\ Len(wip') >= Len(wip)

LEMMA Emitted ==
    ASSUME Graphs, m_result_cfgs # <<>>, NEW steps, Emits(steps)
    PROVE  GraphsGrow
<1>1. GraphOK(Add(wip, steps)) /\ Len(Add(wip, steps)) = Len(wip) /\ Len(wip) \in Nat
  BY Newest, AddKeeps
<1> QED
  BY <1>1, Replaced DEF Emits, GraphsGrow

LEMMA NotEmitted ==
    ASSUME Graphs, m_result_cfgs # <<>>, UNCHANGED m_result_cfgs
    PROVE  GraphsGrow
<1>1. Len(wip) \in Nat /\ wip' = wip /\ Graphs'
  BY Newest DEF wip, Graphs
<1> QED
  BY <1>1 DEF GraphsGrow

\* The steps before a new block, and those in it.
LEMMA BlockEmitted ==
    ASSUME Graphs, m_result_cfgs # <<>>, NEW before, NEW after,
           \/ Becomes(add_bb(Add(wip, before)))
           \/ Becomes(Add(add_bb(wip), after))
           \/ Becomes(Add(add_bb(Add(wip, before)), after))
    PROVE  GraphsGrow /\ Len(wip') = Len(wip) + 1
<1>1. GraphOK(wip) /\ Len(wip) \in Nat
  BY Newest
<1>2. GraphOK(Add(wip, before)) /\ Len(Add(wip, before)) = Len(wip)
  BY <1>1, AddKeeps
<1>3. GraphOK(add_bb(wip)) /\ Len(add_bb(wip)) = Len(wip) + 1
  BY <1>1, BlockAdded
<1>4. GraphOK(add_bb(Add(wip, before))) /\ Len(add_bb(Add(wip, before))) = Len(wip) + 1
  BY <1>2, BlockAdded
<1>5. GraphOK(Add(add_bb(wip), after)) /\ Len(Add(add_bb(wip), after)) = Len(wip) + 1
  BY <1>3, AddKeeps
<1>6. /\ GraphOK(Add(add_bb(Add(wip, before)), after))
      /\ Len(Add(add_bb(Add(wip, before)), after)) = Len(wip) + 1
  BY <1>4, AddKeeps
<1>7. ASSUME NEW cfg, GraphOK(cfg), Len(cfg) = Len(wip) + 1, Becomes(cfg)
      PROVE  GraphsGrow /\ Len(wip') = Len(wip) + 1
  <2>1. /\ Graphs' /\ wip' = cfg
        /\ Len(m_result_cfgs') = Len(m_result_cfgs) /\ m_result_cfgs' # <<>>
    BY <1>7, Replaced
  <2> QED
    BY <2>1, <1>1, <1>7 DEF GraphsGrow
<1> QED
  BY <1>4, <1>5, <1>6, <1>7

-----------------------------------------------------------------------------
(* What has been given out only grows *)

Counts ==
    /\ source' = source /\ m_next_func_aa' = m_next_func_aa
    /\ m_next_local_aa' \in Nat /\ m_next_local_aa' >= m_next_local_aa
    /\ IsSeq(m_proto_consts') /\ Len(m_proto_consts') >= Len(m_proto_consts)

Valued == Addresses \cup {NoAddress}

LEMMA NativesCounted == Len(Natives) \in Nat /\ DOMAIN Natives = 1..Len(Natives)
BY LoweringAssumption, LenProperties

LEMMA Grown ==
    ASSUME Names, Graphs, m_result_cfgs # <<>>, Counts, GraphsGrow
    PROVE  /\ Globals \subseteq Globals' /\ Addresses \subseteq Addresses'
           /\ Valued \subseteq Valued'
           /\ BlocksOf(wip) \subseteq BlocksOf(wip)' /\ Links(wip) \subseteq Links(wip)'
           /\ Activation \subseteq Activation'
<1>1. /\ Len(m_proto_consts) \in Nat /\ Len(m_proto_consts') \in Nat
      /\ Len(m_proto_consts') >= Len(m_proto_consts) /\ Len(Natives) \in Nat
  BY SeqLength, NativesCounted DEF Names, Counts
<1>2. Globals \subseteq Globals'
  <2>1. 0..(Len(m_proto_consts) + Len(Natives) - 1)
          \subseteq 0..(Len(m_proto_consts') + Len(Natives) - 1)
    BY <1>1
  <2> QED
    BY <2>1 DEF Globals, Counts
<1>3. 0..m_next_local_aa \subseteq 0..m_next_local_aa'
  BY DEF Counts, Names
<1>4. Addresses \subseteq Addresses' /\ Valued \subseteq Valued'
  BY <1>2, <1>3 DEF Addresses, Valued
<1>5. BlocksOf(wip) \subseteq BlocksOf(wip)' /\ Links(wip) \subseteq Links(wip)'
  BY DEF BlocksOf, Links, GraphsGrow
<1>6. Activation \subseteq Activation'
  BY <1>3, <1>4, <1>5 DEF Activation
<1> QED
  BY <1>2, <1>4, <1>5, <1>6

-----------------------------------------------------------------------------
(* Inside a function *)

\* What the operands and the activation on top are.
LEMMA Running ==
    ASSUME Inv, activations # <<>>
    PROVE  /\ m_result_cfgs # <<>>
           /\ Len(activations) \in Nat /\ Len(activations) >= 1
           /\ top \in Activation /\ top.base \in Nat
           /\ IF top.kind = "function" THEN Len(activations) = 1 ELSE Len(activations) > 1
           /\ Len(values) \in Nat
           /\ \A i \in 1..got : value(i) \in Valued /\ (Succeeds(i) => value(i) \in Addresses)
<1>1. /\ activations \in Seq(Activation) /\ values \in Seq(Valued) /\ m_result_cfgs # <<>>
      /\ \A k \in 1..Len(activations) : activations[k].kind = "function" <=> k = 1
  BY DEF Inv, Stack, Valued
<1>2. Len(activations) \in Nat /\ Len(activations) >= 1 /\ Len(values) \in Nat
  BY <1>1, LenProperties, EmptySeq
<1>3. top \in Activation
  BY <1>1, <1>2, ElementOfSeq DEF top
<1>4. top.base \in Nat
  BY <1>3 DEF Activation
<1>5. IF top.kind = "function" THEN Len(activations) = 1 ELSE Len(activations) > 1
  <2>1. Len(activations) \in 1..Len(activations)
    BY <1>2
  <2>2. activations[Len(activations)].kind = "function" <=> Len(activations) = 1
    BY <1>1, <2>1
  <2>3. Len(activations) = 1 \/ Len(activations) > 1
    <3>1. \A n \in Nat : n >= 1 => n = 1 \/ n > 1
      OBVIOUS
    <3> QED
      BY <1>2, <3>1, Zenon
  <2>4. CASE Len(activations) = 1
    BY <2>2, <2>4 DEF top
  <2>5. CASE Len(activations) > 1
    BY <2>2, <2>5 DEF top
  <2> QED
    BY <2>3, <2>4, <2>5
<1>6. ASSUME NEW i \in 1..got
      PROVE  value(i) \in Valued /\ (Succeeds(i) => value(i) \in Addresses)
  <2>1. Len(values) - got + i \in 1..Len(values)
    BY <1>2, <1>4 DEF got
  <2>2. value(i) \in Valued
    BY <1>1, <2>1, ElementOfSeq DEF value
  <2> QED
    BY <2>2 DEF Succeeds, Valued
<1> QED
  BY <1>1, <1>2, <1>3, <1>4, <1>5, <1>6

\* A step within a function.
Going ==
    /\ Inv /\ activations # <<>> /\ UNCHANGED emitterVars /\ depth' \in Nat
    /\ phase \in {"lower", "skip"} /\ phase' \in {"lower", "skip"}
    /\ Counts /\ GraphsGrow

LEMMA GoingGrows ==
    ASSUME Going
    PROVE  /\ Globals \subseteq Globals' /\ Addresses \subseteq Addresses'
           /\ Valued \subseteq Valued'
           /\ BlocksOf(wip) \subseteq BlocksOf(wip)' /\ Links(wip) \subseteq Links(wip)'
           /\ Activation \subseteq Activation'
BY Running, Grown DEF Going, Inv

\* Values are taken, and one is given back.
ValuesOK == values \in Seq(Valued)

LEMMA Unvalued == ASSUME Going, UNCHANGED values PROVE ValuesOK'
<1>1. values \in Seq(Valued)
  BY DEF Going, Inv, Stack, Valued
<1> QED
  BY <1>1, GoingGrows, SeqMonotonic DEF ValuesOK

LEMMA Rest ==
    ASSUME Going, NEW n \in 0..got
    PROVE  Keep(n) \in Seq(Valued')
<1>1. values \in Seq(Valued) /\ Len(values) \in Nat /\ n \in Nat /\ n <= Len(values)
  BY Running DEF Going, Inv, Stack, Valued, got
<1>2. values \in Seq(Valued')
  BY <1>1, GoingGrows, SeqMonotonic
<1>3. Len(values) - n \in Nat /\ Len(values) - n <= Len(values)
  BY <1>1
<1> QED
  BY <1>2, <1>3, SeqShorter DEF Keep

LEMMA Taken == ASSUME Going, NEW n \in 0..got, values' = Keep(n) PROVE ValuesOK'
BY Rest DEF ValuesOK

LEMMA Given == ASSUME Going, NEW v \in Valued', values' = Append(values, v) PROVE ValuesOK'
<1>1. values \in Seq(Valued')
  BY GoingGrows, SeqMonotonic DEF Going, Inv, Stack, Valued
<1> QED
  BY <1>1, AppendProperties DEF ValuesOK

LEMMA Exchanged ==
    ASSUME Going, NEW n \in 0..got, NEW v \in Valued', values' = Append(Keep(n), v)
    PROVE  ValuesOK'
BY Rest, AppendProperties DEF ValuesOK

\* A function in progress stays at the bottom of the stack.
StackOK ==
    /\ activations \in Seq(Activation) /\ activations # <<>>
    /\ \A k \in 1..Len(activations) : activations[k].kind = "function" <=> k = 1

LEMMA StackKept ==
    ASSUME Going, NEW a,
           \/ activations' = activations
           \/ a \in Activation' /\ a.kind # "function" /\ Enter(a)
           \/ a \in Activation' /\ a.kind # "function" /\ top.kind # "function" /\ Turn(a)
           \/ top.kind # "function" /\ Leave
    PROVE  StackOK'
<1> DEFINE n == Len(activations)
<1>1. /\ activations \in Seq(Activation) /\ n \in Nat /\ n >= 1
      /\ \A k \in 1..n : activations[k].kind = "function" <=> k = 1
      /\ top.kind # "function" => n > 1
  <2>1. n \in Nat /\ n >= 1 /\ (top.kind # "function" => n > 1)
    BY Running DEF Going
  <2>2. Stack
    BY DEF Going, Inv
  <2> QED
    BY <2>1, <2>2 DEF Stack
<1>2. activations \in Seq(Activation')
  BY <1>1, GoingGrows, SeqMonotonic
<1>3. CASE activations' = activations
  BY <1>1, <1>2, <1>3 DEF StackOK
<1>4. CASE a \in Activation' /\ a.kind # "function" /\ Enter(a)
  <2>1. /\ activations' \in Seq(Activation') /\ Len(activations') = n + 1
        /\ activations'[n + 1] = a /\ \A i \in 1..n : activations'[i] = activations[i]
    BY <1>2, <1>4, AppendProperties DEF Enter
  <2>2. activations' # <<>>
    BY <1>1, <2>1, EmptySeq
  <2>3. \A k \in 1..Len(activations') : activations'[k].kind = "function" <=> k = 1
    <3> SUFFICES ASSUME NEW k \in 1..(n + 1)
                 PROVE  activations'[k].kind = "function" <=> k = 1
      BY <2>1
    <3>1. CASE k = n + 1
      BY <3>1, <2>1, <1>1, <1>4
    <3>2. CASE k # n + 1
      BY <3>2, <2>1, <1>1
    <3> QED
      BY <3>1, <3>2
  <2> QED
    BY <2>1, <2>2, <2>3 DEF StackOK
<1>5. CASE a \in Activation' /\ a.kind # "function" /\ top.kind # "function" /\ Turn(a)
  <2>1. /\ activations' \in Seq(Activation') /\ Len(activations') = n
        /\ \A i \in 1..n : activations'[i] = IF i = n THEN a ELSE activations[i]
    BY <1>1, <1>2, <1>5, ExceptSeq DEF Turn
  <2>2. activations' # <<>>
    BY <1>1, <2>1, EmptySeq
  <2>3. \A k \in 1..Len(activations') : activations'[k].kind = "function" <=> k = 1
    BY <2>1, <1>1, <1>5
  <2> QED
    BY <2>1, <2>2, <2>3 DEF StackOK
<1>6. CASE top.kind # "function" /\ Leave
  <2>1. n - 1 \in Nat /\ n - 1 <= n /\ n - 1 >= 1
    BY <1>1, <1>6
  <2>2. /\ activations' \in Seq(Activation') /\ Len(activations') = n - 1
        /\ \A i \in 1..(n - 1) : activations'[i] = activations[i]
    BY <1>2, <1>6, <2>1, SeqShorter DEF Leave
  <2>3. activations' # <<>>
    BY <2>1, <2>2, EmptySeq
  <2>4. \A k \in 1..Len(activations') : activations'[k].kind = "function" <=> k = 1
    BY <2>2, <1>1, <2>1
  <2> QED
    BY <2>2, <2>3, <2>4 DEF StackOK
<1> QED
  BY <1>3, <1>4, <1>5, <1>6

LEMMA Stays == ASSUME Going, UNCHANGED activations PROVE StackOK'
BY StackKept

LEMMA Entered ==
    ASSUME Going, NEW a \in Activation', a.kind # "function", Enter(a) PROVE StackOK'
BY StackKept

LEMMA Turned ==
    ASSUME Going, NEW a \in Activation', a.kind # "function", top.kind # "function", Turn(a)
    PROVE  StackOK'
BY StackKept

LEMMA Left == ASSUME Going, top.kind # "function", Leave PROVE StackOK'
BY StackKept

\* Links from a block to another are left for the end of the function.
LEMMA Linked ==
    ASSUME Going, NEW links \in Seq((Links(wip) \X Links(wip))'),
           m_pending_links' = m_pending_links \o links
    PROVE  Pending'
<1> DEFINE L == (Links(wip) \X Links(wip))'
<1>1. m_pending_links \in Seq(Links(wip) \X Links(wip))
  BY DEF Going, Inv, Pending
<1>2. Links(wip) \X Links(wip) \subseteq L
  BY GoingGrows
<1>3. m_pending_links \in Seq(L)
  BY <1>1, <1>2, SeqMonotonic
<1> QED
  BY <1>3, ConcatProperties DEF Pending

LEMMA Unlinked == ASSUME Going, UNCHANGED m_pending_links PROVE Pending'
<1> DEFINE L == (Links(wip) \X Links(wip))'
<1>1. m_pending_links \in Seq(Links(wip) \X Links(wip))
  BY DEF Going, Inv, Pending
<1>2. Links(wip) \X Links(wip) \subseteq L
  BY GoingGrows
<1> QED
  BY <1>1, <1>2, SeqMonotonic DEF Pending

\* A name is added.
NamesOK ==
    /\ \A x \in DOMAIN m_globals : m_globals[x] \in Globals
    /\ \A x \in DOMAIN m_locals : m_locals[x] \in Addresses

LEMMA Unnamed == ASSUME Going, UNCHANGED <<m_globals, m_locals>> PROVE NamesOK'
BY GoingGrows DEF Going, Inv, Names, NamesOK

\* Where no action below ends the function, that is enough.
LEMMA Kept == ASSUME Going, ValuesOK', StackOK', Pending', NamesOK' PROVE Inv'
<1>1. Graphs' /\ Pending'
  BY DEF Going, GraphsGrow
<1>2. Names'
  BY DEF Names, NamesOK, Counts, Going, Inv
<1>3. Stack'
  BY DEF Stack, StackOK, ValuesOK, Valued, Going, GraphsGrow
<1>4. Stages'
  BY DEF Stages, StackOK, Going, Inv, emitterVars
<1>5. Visits'
  BY DEF Visits, Stages, Going, Inv, emitterVars, GraphsGrow
<1> QED
  BY <1>1, <1>2, <1>3, <1>4, <1>5 DEF Inv

-----------------------------------------------------------------------------
(* Expressions *)

\* The steps that add no constant.
LEMMA Goes ==
    ASSUME Inv, UNCHANGED emitterVars, activations # <<>>,
           phase \in {"lower", "skip"}, phase' \in {"lower", "skip"}, depth' \in Nat,
           UNCHANGED <<source, m_proto_consts, m_next_func_aa>>,
           m_next_local_aa' = m_next_local_aa \/ m_next_local_aa' = m_next_local_aa + 1,
           GraphsGrow
    PROVE  Going
<1>1. Len(m_proto_consts) \in Nat
  BY SeqLength DEF Inv, Names
<1> QED
  BY <1>1 DEF Going, Counts, Inv, Names

LEMMA Steps == ASSUME Inv, activations # <<>>, NEW steps, Emits(steps) PROVE GraphsGrow
BY Running, Emitted DEF Inv

LEMMA NoSteps == ASSUME Inv, activations # <<>>, UNCHANGED m_result_cfgs PROVE GraphsGrow
BY Running, NotEmitted DEF Inv

\* The expressions that give no name and make no link.
LEMMA ExprKept ==
    ASSUME Going, ValuesOK', StackOK', InExpression, UNCHANGED m_globals PROVE Inv'
<1>1. Pending' /\ NamesOK'
  BY Unlinked, Unnamed DEF InExpression
<1> QED
  BY <1>1, Kept

\* The next register may be given out.
LEMMA TempGiven == ASSUME Going PROVE Temp \in Valued' /\ Temp \in Addresses'
<1>1. m_next_local_aa \in 0..m_next_local_aa
  BY DEF Going, Inv, Names
<1>2. Temp \in Addresses
  BY <1>1 DEF Temp, Addresses
<1>3. Temp \in Addresses'
  BY <1>2, GoingGrows
<1> QED
  BY <1>3 DEF Valued

\* What is read of the operands.
LEMMA OperandGiven ==
    ASSUME Going, NEW i \in 1..got
    PROVE  value(i) \in Valued' /\ (Succeeds(i) => value(i) \in Addresses')
<1>1. value(i) \in Valued /\ (Succeeds(i) => value(i) \in Addresses)
  BY Running DEF Going
<1> QED
  BY <1>1, GoingGrows

LEMMA LiteralKeeps == ASSUME Inv, UNCHANGED emitterVars, emit_literal PROVE Inv'
<1>1. PICK e \in Offered :
          /\ Reads(e)
          /\ LET next_aa == <<"constant", Len(m_proto_consts)>>
             IN \/ /\ e[2] \in DOMAIN m_globals
                   /\ values' = Append(values, m_globals[e[2]])
                   /\ UNCHANGED <<m_globals, m_proto_consts>>
                \/ /\ e[2] \notin DOMAIN m_globals
                   /\ values' = Append(values, next_aa)
                   /\ m_globals' = With(m_globals, e[2], next_aa)
                   /\ m_proto_consts' = Append(m_proto_consts, e[2])
  BY DEF emit_literal
<1>2. /\ phase = "lower" /\ activations # <<>> /\ InExpression
      /\ UNCHANGED <<activations, m_next_local_aa, m_result_cfgs>>
  BY DEF emit_literal
<1>3. Len(m_proto_consts) \in Nat /\ IsSeq(m_proto_consts) /\ Len(Natives) \in Nat
  BY SeqLength, NativesCounted DEF Inv, Names
<1>4. CASE e[2] \in DOMAIN m_globals
  <2>1. GraphsGrow
    BY <1>2, NoSteps
  <2>2. Going
    BY <2>1, <1>1, <1>2, <1>4, Goes DEF Reads, Passes, InExpression, Inv, Stages
  <2>3. m_globals[e[2]] \in Valued'
    <3>1. m_globals[e[2]] \in Globals
      BY <1>4 DEF Inv, Names
    <3> QED
      BY <3>1, <2>2, GoingGrows DEF Valued, Addresses
  <2>4. ValuesOK'
    BY <1>1, <1>4, <2>2, <2>3, Given
  <2> QED
    BY <1>1, <1>2, <1>4, <2>2, <2>4, Stays, ExprKept
<1>5. CASE e[2] \notin DOMAIN m_globals
  <2> DEFINE next_aa == <<"constant", Len(m_proto_consts)>>
  <2>1. GraphsGrow
    BY <1>2, NoSteps
  <2>2. m_proto_consts' = Append(m_proto_consts, e[2])
    BY <1>1, <1>5
  <2>3. IsSeq(m_proto_consts') /\ Len(m_proto_consts') = Len(m_proto_consts) + 1
    BY <1>3, <2>2, SeqAppend
  <2>4. Counts
    BY <1>1, <1>2, <1>3, <2>3 DEF Counts, Reads, Passes, InExpression, Inv, Names
  <2>5. Going
    BY <1>1, <1>2, <2>1, <2>4 DEF Going, Reads, InExpression, Inv, Stages
  <2>6. next_aa \in Globals'
    <3>1. Len(m_proto_consts) \in 0..(Len(m_proto_consts') + Len(Natives) - 1)
      BY <1>3, <2>3
    <3> QED
      BY <3>1 DEF Globals
  <2>7. ValuesOK'
    BY <1>1, <1>5, <2>5, <2>6, Given DEF Valued, Addresses
  <2>8. NamesOK'
    <3>1. \A x \in DOMAIN m_globals : m_globals[x] \in Globals'
      BY <2>5, GoingGrows DEF Inv, Names
    <3>2. m_globals' = With(m_globals, e[2], next_aa)
      BY <1>1, <1>5
    <3>3. \A x \in DOMAIN m_globals' : m_globals'[x] \in Globals'
      BY <3>1, <3>2, <2>6 DEF With
    <3>4. \A x \in DOMAIN m_locals' : m_locals'[x] \in Addresses'
      BY <1>2, <2>5, GoingGrows DEF InExpression, Inv, Names
    <3> QED
      BY <3>3, <3>4 DEF NamesOK
  <2>9. StackOK' /\ Pending'
    BY <1>2, <2>5, Stays, Unlinked DEF InExpression
  <2> QED
    BY <2>5, <2>7, <2>8, <2>9, Kept
<1> QED
  BY <1>4, <1>5

\* A name that is known stands for an address.
LEMMA NameFound == ASSUME Inv, NEW x PROVE lookup_name_aa(x) \in Valued
<1>1. CASE x \in DOMAIN NativeIds
  <2>1. Len(Natives) \in Nat /\ DOMAIN Natives = 1..Len(Natives) /\ Len(m_proto_consts) \in Nat
    BY NativesCounted, SeqLength DEF Inv, Names
  <2>2. PICK i \in DOMAIN Natives : Natives[i] = x
    BY <1>1 DEF NativeIds
  <2>3. NativeIds[x] = (CHOOSE j \in DOMAIN Natives : Natives[j] = x) - 1
    BY <1>1 DEF NativeIds
  <2>4. (CHOOSE j \in DOMAIN Natives : Natives[j] = x) \in DOMAIN Natives
    BY <2>2
  <2>5. NativeIds[x] \in 0..(Len(m_proto_consts) + Len(Natives) - 1)
    BY <2>1, <2>3, <2>4
  <2> QED
    BY <1>1, <2>5 DEF lookup_name_aa, Valued, Addresses, Globals
<1>2. CASE x \notin DOMAIN NativeIds /\ x \in DOMAIN m_globals
  BY <1>2 DEF lookup_name_aa, Valued, Addresses, Inv, Names
<1>3. CASE x \notin DOMAIN NativeIds /\ x \notin DOMAIN m_globals
  BY <1>3 DEF lookup_name_aa, Valued, Addresses, Inv, Names
<1> QED
  BY <1>1, <1>2, <1>3

LEMMA NameKeeps == ASSUME Inv, UNCHANGED emitterVars, emit_name PROVE Inv'
<1>1. PICK e \in Offered : Reads(e) /\ values' = Append(values, lookup_name_aa(e[2]))
  BY DEF emit_name
<1>2. GraphsGrow
  BY NoSteps DEF emit_name
<1>3. Going
  BY <1>1, <1>2, Goes DEF emit_name, Reads, Passes, InExpression, Inv, Stages
<1>4. lookup_name_aa(e[2]) \in Valued'
  BY <1>3, NameFound, GoingGrows
<1>5. ValuesOK'
  BY <1>1, <1>3, <1>4, Given
<1> QED
  BY <1>3, <1>5, Stays, ExprKept DEF emit_name

LEMMA StringKeeps == ASSUME Inv, UNCHANGED emitterVars, emit_string PROVE Inv'
<1>1. GraphsGrow
  BY Steps DEF emit_string
<1>2. Going
  BY <1>1, Goes DEF emit_string, gen_temp_aa, Reads, Passes, InExpression, Inv, Stages
<1>3. ValuesOK'
  BY <1>2, TempGiven, Given DEF emit_string
<1> QED
  BY <1>2, <1>3, Stays, ExprKept DEF emit_string

LEMMA BeginSequenceKeeps == ASSUME Inv, UNCHANGED emitterVars, begin_sequence PROVE Inv'
<1> DEFINE a == [kind |-> "sequence", base |-> Len(values), dest |-> Temp]
<1>1. GraphsGrow
  BY Steps DEF begin_sequence
<1>2. Going
  BY <1>1, Goes DEF begin_sequence, gen_temp_aa, Reads, Passes, NoLiteral, InExpression, Inv, Stages
<1>3. Len(values) \in Nat /\ activations # <<>>
  BY Running DEF begin_sequence
<1>4. a \in Activation' /\ a.kind # "function"
  BY <1>2, <1>3, TempGiven DEF Activation
<1>5. StackOK'
  BY <1>2, <1>4, Entered DEF begin_sequence
<1> QED
  BY <1>2, <1>5, Unvalued, ExprKept DEF begin_sequence, NoLiteral

LEMMA ItemKeeps == ASSUME Inv, UNCHANGED emitterVars, sequence_item PROVE Inv'
<1>1. GraphsGrow
  BY Steps DEF sequence_item
<1>2. Going
  BY <1>1, Goes DEF sequence_item, Reads, Passes, NoLiteral, InExpression, Inv, Stages
<1>3. got = 1 /\ values' = Keep(1)
  BY DEF sequence_item, Comes
<1>4. ValuesOK'
  BY <1>2, <1>3, Taken
<1> QED
  BY <1>2, <1>4, Stays, ExprKept DEF sequence_item, NoLiteral

LEMMA EndSequenceKeeps == ASSUME Inv, UNCHANGED emitterVars, end_sequence PROVE Inv'
<1>1. PICK e \in Offered :
          /\ In({"sequence"}) /\ Reads(e)
          /\ Emits(IF Frozen(e) THEN <<Step("frz_seq_obj", <<top.dest>>)>> ELSE <<>>)
  BY DEF end_sequence
<1>2. GraphsGrow
  BY <1>1, Steps DEF end_sequence
<1>3. Going
  BY <1>1, <1>2, Goes DEF end_sequence, Reads, Passes, NoLiteral, InExpression, Inv, Stages
<1>4. top \in Activation /\ top.kind = "sequence"
  BY <1>1, Running DEF end_sequence, In
<1>5. top.dest \in Valued'
  <2>1. top.dest \in Addresses
    BY <1>4 DEF Activation
  <2> QED
    BY <2>1, <1>3, GoingGrows DEF Valued
<1>6. ValuesOK'
  BY <1>3, <1>5, Given DEF end_sequence
<1>7. StackOK'
  BY <1>3, <1>4, Left DEF end_sequence
<1> QED
  BY <1>3, <1>6, <1>7, ExprKept DEF end_sequence, NoLiteral

LEMMA UnaryKeeps == ASSUME Inv, UNCHANGED emitterVars, emit_unary PROVE Inv'
<1>1. GraphsGrow
  BY Steps DEF emit_unary
<1>2. Going
  BY <1>1, Goes DEF emit_unary, Reads, Passes, NoLiteral, InExpression, Inv, Stages
<1> QED
  BY <1>2, Unvalued, Stays, ExprKept DEF emit_unary, NoLiteral

LEMMA BinaryKeeps == ASSUME Inv, UNCHANGED emitterVars, emit_binary PROVE Inv'
<1>1. PICK e \in Offered :
          /\ Reads(e)
          /\ \/ /\ Emits(<<Step(e[2], <<Temp>> \o Operands)>>)
                /\ values' = Append(Keep(2), Temp)
                /\ gen_temp_aa
             \/ /\ values' = Append(Keep(2), NoAddress)
                /\ UNCHANGED <<m_next_local_aa, m_result_cfgs>>
  BY DEF emit_binary
<1>2. GraphsGrow
  BY <1>1, Steps, NoSteps DEF emit_binary
<1>3. Going
  BY <1>1, <1>2, Goes
  DEF emit_binary, gen_temp_aa, Reads, Passes, NoLiteral, InExpression, Inv, Stages
<1>4. 2 \in 0..got
  <2>1. got \in Int
    BY Running DEF emit_binary, got
  <2> QED
    BY <2>1 DEF emit_binary
<1>5. Temp \in Valued' /\ NoAddress \in Valued'
  BY <1>3, TempGiven DEF Valued
<1>6. ValuesOK'
  BY <1>1, <1>3, <1>4, <1>5, Exchanged
<1> QED
  BY <1>3, <1>6, Stays, ExprKept DEF emit_binary, NoLiteral

LEMMA BeginCallKeeps == ASSUME Inv, UNCHANGED emitterVars, begin_call PROVE Inv'
<1> DEFINE a == [kind |-> "call", base |-> Len(values) - 1, callee |-> value(got), argc |-> 0]
<1>1. GraphsGrow
  BY NoSteps DEF begin_call
<1>2. Going
  BY <1>1, Goes DEF begin_call, Reads, Passes, NoLiteral, InExpression, Inv, Stages
<1>3. got \in Nat /\ got >= 1 /\ Len(values) - 1 \in Nat
  BY Running DEF begin_call, got
<1>4. value(got) \in Addresses'
  BY <1>2, <1>3, OperandGiven DEF begin_call
<1>5. a \in Activation' /\ a.kind # "function"
  <2>1. 0 \in 0..m_next_local_aa'
    BY <1>2 DEF Going, Counts
  <2> QED
    BY <2>1, <1>3, <1>4 DEF Activation
<1>6. StackOK'
  BY <1>2, <1>5, Entered DEF begin_call
<1>7. ValuesOK'
  BY <1>2, <1>3, Taken DEF begin_call
<1> QED
  BY <1>2, <1>6, <1>7, ExprKept DEF begin_call, NoLiteral

LEMMA ArgumentKeeps == ASSUME Inv, UNCHANGED emitterVars, call_argument PROVE Inv'
<1> DEFINE a == [top EXCEPT !.argc = @ + 1]
<1>1. GraphsGrow
  BY Steps DEF call_argument
<1>2. Going
  BY <1>1, Goes
  DEF call_argument, gen_temp_aa, Reads, Passes, NoLiteral, InExpression, Inv, Stages
<1>3. got = 1 /\ values' = Keep(1) /\ top.kind = "call" /\ top \in Activation
  BY Running DEF call_argument, Comes, In
<1>4. a \in Activation' /\ a.kind # "function"
  <2>1. top \in [kind : {"call"}, base : Nat, callee : Addresses, argc : 0..m_next_local_aa]
    BY <1>3 DEF Activation
  <2>2. top.argc + 1 \in 0..m_next_local_aa'
    BY <2>1 DEF call_argument, gen_temp_aa, Inv, Names
  <2>3. a \in [kind : {"call"}, base : Nat, callee : Addresses', argc : 0..m_next_local_aa']
    BY <2>1, <2>2, <1>2, GoingGrows
  <2> QED
    BY <2>3 DEF Activation
<1>5. StackOK'
  BY <1>2, <1>3, <1>4, Turned DEF call_argument
<1>6. ValuesOK'
  BY <1>2, <1>3, Taken
<1> QED
  BY <1>2, <1>5, <1>6, ExprKept DEF call_argument, NoLiteral

LEMMA EndCallKeeps == ASSUME Inv, UNCHANGED emitterVars, end_call PROVE Inv'
<1>1. GraphsGrow
  BY Steps DEF end_call
<1>2. Going
  BY <1>1, Goes DEF end_call, Reads, Passes, NoLiteral, InExpression, Inv, Stages
<1>3. top.kind = "call" /\ top \in Activation
  BY Running DEF end_call, In
<1>4. <<"temp", ResultSlot>> \in Valued'
  <2>1. top.argc \in 0..m_next_local_aa
    BY <1>3 DEF Activation
  <2>2. ResultSlot \in 0..m_next_local_aa
    BY <2>1 DEF ResultSlot, Inv, Names
  <2>3. <<"temp", ResultSlot>> \in Addresses
    BY <2>2 DEF Addresses
  <2> QED
    BY <2>3, <1>2, GoingGrows DEF Valued
<1>5. ValuesOK'
  BY <1>2, <1>4, Given DEF end_call
<1>6. StackOK'
  BY <1>2, <1>3, Left DEF end_call
<1> QED
  BY <1>2, <1>5, <1>6, ExprKept DEF end_call, NoLiteral

LEMMA AssignKeeps == ASSUME Inv, UNCHANGED emitterVars, emit_assign PROVE Inv'
<1>1. GraphsGrow
  BY Steps, NoSteps DEF emit_assign
<1>2. Going
  BY <1>1, Goes DEF emit_assign, Reads, Passes, NoLiteral, InExpression, Inv, Stages
<1>3. got = 2 /\ (values' = Keep(1) \/ values' = Append(Keep(2), NoAddress))
  BY DEF emit_assign, Comes
<1>4. ValuesOK'
  <2>1. CASE values' = Keep(1)
    BY <1>2, <1>3, <2>1, Taken
  <2>2. CASE values' = Append(Keep(2), NoAddress)
    <3>1. NoAddress \in Valued'
      BY DEF Valued
    <3> QED
      BY <1>2, <1>3, <2>2, <3>1, Exchanged
  <2> QED
    BY <1>3, <2>1, <2>2
<1> QED
  BY <1>2, <1>4, Stays, ExprKept DEF emit_assign, NoLiteral

LEMMA ExprKeeps == ASSUME Inv, UNCHANGED emitterVars, emit_expr PROVE Inv'
BY LiteralKeeps, NameKeeps, StringKeeps, BeginSequenceKeeps, ItemKeeps, EndSequenceKeeps,
   UnaryKeeps, BinaryKeeps, AssignKeeps, BeginCallKeeps, ArgumentKeeps, EndCallKeeps
DEF emit_expr

-----------------------------------------------------------------------------
(* Statements *)

\* Statements that name nothing and make no link.
LEMMA StmtKept ==
    ASSUME Going, ValuesOK', StackOK', UNCHANGED <<m_globals, m_locals, m_pending_links>>
    PROVE  Inv'
BY Unlinked, Unnamed, Kept

LEMMA ExprStmtKeeps == ASSUME Inv, UNCHANGED emitterVars, emit_expr_stmt PROVE Inv'
<1>1. GraphsGrow
  BY NoSteps DEF emit_expr_stmt
<1>2. Going
  BY <1>1, Goes DEF emit_expr_stmt, Reads, Passes, InStatement, constVars, Inv, Stages
<1>3. got = 1 /\ values' = Keep(1)
  BY DEF emit_expr_stmt, Comes
<1>4. ValuesOK'
  BY <1>2, <1>3, Taken
<1> QED
  BY <1>2, <1>4, Stays, StmtKept DEF emit_expr_stmt, InStatement

LEMMA DefKeeps == ASSUME Inv, UNCHANGED emitterVars, emit_def PROVE Inv'
<1>1. PICK e \in Offered : Reads(e) /\ got = 1 /\ m_locals' = With(m_locals, e[2], Temp)
  BY DEF emit_def, Comes
<1>2. GraphsGrow
  BY Steps DEF emit_def
<1>3. Going
  BY <1>1, <1>2, Goes
  DEF emit_def, gen_temp_aa, Reads, Passes, InStatement, constVars, Inv, Stages
<1>4. ValuesOK'
  BY <1>1, <1>3, Taken DEF emit_def
<1>5. NamesOK'
  <2>1. \A x \in DOMAIN m_locals : m_locals[x] \in Addresses'
    BY <1>3, GoingGrows DEF Inv, Names
  <2>2. \A x \in DOMAIN m_locals' : m_locals'[x] \in Addresses'
    BY <2>1, <1>1, <1>3, TempGiven DEF With
  <2>3. \A x \in DOMAIN m_globals' : m_globals'[x] \in Globals'
    BY <1>3, GoingGrows DEF emit_def, InStatement, Inv, Names
  <2> QED
    BY <2>2, <2>3 DEF NamesOK
<1>6. StackOK' /\ Pending'
  BY <1>3, Stays, Unlinked DEF emit_def
<1> QED
  BY <1>3, <1>4, <1>5, <1>6, Kept

LEMMA ReturnKeeps == ASSUME Inv, UNCHANGED emitterVars, emit_return PROVE Inv'
<1>1. GraphsGrow
  BY Steps DEF emit_return
<1>2. Going
  BY <1>1, Goes DEF emit_return, Reads, Passes, InStatement, constVars, Inv, Stages
<1>3. got = 1 /\ values' = Keep(1)
  BY DEF emit_return, Comes
<1>4. ValuesOK'
  BY <1>2, <1>3, Taken
<1> QED
  BY <1>2, <1>4, Stays, StmtKept DEF emit_return, InStatement

LEMMA BreakKeeps == ASSUME Inv, UNCHANGED emitterVars, emit_break PROVE Inv'
<1>1. GraphsGrow
  BY Steps DEF emit_break
<1>2. Going
  BY <1>1, Goes DEF emit_break, Reads, Passes, InControl, InStatement, constVars, Inv, Stages
<1> QED
  BY <1>2, Unvalued, Stays, StmtKept DEF emit_break, InControl, InStatement

\* The first block of an if or a while is the one it begins in.
LEMMA BeginKeeps == ASSUME Inv, UNCHANGED emitterVars, begin_if \/ begin_while PROVE Inv'
<1>1. PICK kind \in {"if", "while"} :
          Enter([kind |-> kind, base |-> Len(values), pre |-> newest_bb])
  BY DEF begin_if, begin_while
<1> DEFINE a == [kind |-> kind, base |-> Len(values), pre |-> newest_bb]
<1>2. GraphsGrow
  BY Steps DEF begin_if, begin_while
<1>3. Going
  BY <1>2, Goes
  DEF begin_if, begin_while, Reads, Passes, InControl, InStatement, constVars, Inv, Stages
<1>4. newest_bb \in BlocksOf(wip)' /\ Len(values) \in Nat
  <2>1. newest_bb \in BlocksOf(wip)
    BY <1>3, Running, Newest DEF Going, Inv
  <2> QED
    BY <2>1, <1>3, GoingGrows, Running DEF Going
<1>5. a \in Activation' /\ a.kind # "function"
  BY <1>4 DEF Activation
<1>6. StackOK'
  BY <1>1, <1>3, <1>5, Entered
<1> QED
  BY <1>3, <1>6, Unvalued, StmtKept DEF begin_if, begin_while, InControl, InStatement

\* A body begins in a new block, which is its number plus one long.
LEMMA NewestBlock ==
    ASSUME Inv, activations # <<>>, GraphsGrow, Len(wip') = Len(wip) + 1
    PROVE  newest_bb + 1 \in BlocksOf(wip)' /\ newest_bb + 1 \in Links(wip)'
BY DEF GraphsGrow, newest_bb, BlocksOf, Links

LEMMA BodyKeeps == ASSUME Inv, UNCHANGED emitterVars, if_then \/ while_do PROVE Inv'
<1>1. PICK kind \in {"then", "do"} :
          Turn([kind |-> kind, base |-> top.base, pre |-> top.pre, body |-> newest_bb + 1])
  BY DEF if_then, while_do
<1> DEFINE a == [kind |-> kind, base |-> top.base, pre |-> top.pre, body |-> newest_bb + 1]
<1>2. /\ activations # <<>> /\ got = 1 /\ values' = Keep(1)
      /\ top \in Activation /\ top.kind \in {"if", "while"}
  BY Running DEF if_then, while_do, Comes, In
<1>3. \E steps : Becomes(add_bb(Add(wip, steps)))
  BY DEF if_then, while_do
<1>4. GraphsGrow /\ Len(wip') = Len(wip) + 1
  BY <1>2, <1>3, Running, BlockEmitted DEF Inv
<1>5. Going
  BY <1>4, Goes
  DEF if_then, while_do, Reads, Passes, InControl, InStatement, constVars, Inv, Stages
<1>6. a \in Activation' /\ a.kind # "function"
  <2>1. top.pre \in BlocksOf(wip) /\ top.base \in Nat
    BY <1>2 DEF Activation
  <2>2. top.pre \in BlocksOf(wip)' /\ newest_bb + 1 \in Links(wip)'
    BY <2>1, <1>2, <1>4, <1>5, GoingGrows, NewestBlock
  <2> QED
    BY <2>1, <2>2 DEF Activation
<1>7. StackOK'
  BY <1>1, <1>2, <1>5, <1>6, Turned
<1>8. ValuesOK'
  BY <1>2, <1>5, Taken
<1> QED
  BY <1>5, <1>7, <1>8, StmtKept DEF if_then, while_do, InControl, InStatement

\* The blocks of the statement whose body is done.
LEMMA BodyOf ==
    ASSUME Inv, activations # <<>>, top.kind \in {"then", "else", "do"}
    PROVE  /\ top \in [kind : {"then", "else", "do"}, base : Nat, pre : BlocksOf(wip),
                       body : Links(wip)]
           /\ top.pre \in Links(wip) /\ top.body \in Links(wip)
<1>1. top \in Activation
  BY Running
<1>2. top \in [kind : {"then", "else", "do"}, base : Nat, pre : BlocksOf(wip), body : Links(wip)]
  BY <1>1 DEF Activation
<1> QED
  BY <1>2 DEF Links

\* Statements that name nothing, but make links.
LEMMA LinksKept ==
    ASSUME Going, ValuesOK', StackOK', Pending', UNCHANGED <<m_globals, m_locals>>
    PROVE  Inv'
BY Unnamed, Kept

LEMMA ElseKeeps == ASSUME Inv, UNCHANGED emitterVars, if_else PROVE Inv'
<1> DEFINE a == [top EXCEPT !.kind = "else", !.body = newest_bb + 1]
<1>1. activations # <<>> /\ top.kind = "then"
  BY DEF if_else, In
<1>2. \E steps : Becomes(add_bb(Add(wip, steps)))
  BY DEF if_else
<1>3. GraphsGrow /\ Len(wip') = Len(wip) + 1
  BY <1>1, <1>2, Running, BlockEmitted DEF Inv
<1>4. Going
  BY <1>3, Goes DEF if_else, Reads, Passes, InControl, InStatement, constVars, Inv, Stages
<1>5. newest_bb + 1 \in Links(wip)'
  BY <1>1, <1>3, NewestBlock
<1>6. a \in Activation' /\ a.kind # "function"
  <2>1. a \in [kind : {"then", "else", "do"}, base : Nat, pre : BlocksOf(wip)', body : Links(wip)']
    BY <1>1, <1>4, <1>5, BodyOf, GoingGrows
  <2>2. a.kind = "else"
    BY <1>1, BodyOf
  <2> QED
    BY <2>1, <2>2 DEF Activation
<1>7. StackOK'
  BY <1>1, <1>4, <1>6, Turned DEF if_else
<1>8. Pending'
  <2> DEFINE L == (Links(wip) \X Links(wip))'
  <2>1. <<top.pre, top.body>> \in L
    BY <1>1, <1>4, BodyOf, GoingGrows
  <2>2. m_pending_links \in Seq(L)
    <3>1. m_pending_links \in Seq(Links(wip) \X Links(wip))
      BY DEF Inv, Pending
    <3>2. Links(wip) \X Links(wip) \subseteq L
      BY <1>4, GoingGrows
    <3> QED
      BY <3>1, <3>2, SeqMonotonic
  <2>3. m_pending_links' \in Seq(L)
    BY <2>1, <2>2, AppendProperties DEF if_else
  <2> QED
    BY <2>3 DEF Pending
<1> QED
  BY <1>4, <1>7, <1>8, Unvalued, LinksKept DEF if_else, InControl, InStatement

\* The body is left for a new block.
LEMMA EndKeeps ==
    ASSUME Inv, UNCHANGED emitterVars, end_if_else \/ end_if \/ end_while PROVE Inv'
<1> DEFINE L == (Links(wip) \X Links(wip))'
<1>1. activations # <<>> /\ top.kind \in {"then", "else", "do"} /\ top.kind # "function"
  BY DEF end_if_else, end_if, end_while, In
<1>2. \E before, after :
         \/ Becomes(add_bb(Add(wip, before)))
         \/ Becomes(Add(add_bb(wip), after))
         \/ Becomes(Add(add_bb(Add(wip, before)), after))
  BY DEF end_if_else, end_if, end_while
<1>3. GraphsGrow /\ Len(wip') = Len(wip) + 1
  BY <1>1, <1>2, Running, BlockEmitted DEF Inv
<1>4. Going
  BY <1>3, Goes
  DEF end_if_else, end_if, end_while, Reads, Passes, InControl, InStatement, constVars, Inv, Stages
<1>5. newest_bb + 1 \in Links(wip)' /\ top.pre \in Links(wip)' /\ top.body \in Links(wip)'
  BY <1>1, <1>3, <1>4, NewestBlock, BodyOf, GoingGrows
<1>6. Pending'
  <2>1. CASE end_if_else
    <3>1. <<<<top.pre, top.body>>>> \o PastElse \in Seq(L)
      BY <1>5 DEF PastElse
    <3>2. m_pending_links' = m_pending_links \o (<<<<top.pre, top.body>>>> \o PastElse)
      BY <2>1 DEF end_if_else, PastElse, Inv, Pending
    <3> QED
      BY <3>1, <3>2, <1>4, Linked
  <2>2. CASE end_if
    <3> DEFINE links == <<<<top.pre, top.body>>, <<top.body, newest_bb + 1>>,
                          <<top.pre, newest_bb + 1>>>>
    <3>1. links \in Seq(L)
      BY <1>5
    <3>2. m_pending_links' = m_pending_links \o links
      BY <2>2 DEF end_if
    <3> HIDE DEF links
    <3> QED
      BY <3>1, <3>2, <1>4, Linked
  <2>3. CASE end_while
    <3> DEFINE links == <<<<top.body, top.pre>>, <<top.pre, top.body>>,
                          <<top.pre, newest_bb + 1>>>>
    <3>1. links \in Seq(L)
      BY <1>5
    <3>2. m_pending_links' = m_pending_links \o links
      BY <2>3 DEF end_while
    <3> HIDE DEF links
    <3> QED
      BY <3>1, <3>2, <1>4, Linked
  <2> QED
    BY <2>1, <2>2, <2>3
<1>7. StackOK'
  BY <1>1, <1>4, Left DEF end_if_else, end_if, end_while
<1> QED
  BY <1>4, <1>6, <1>7, Unvalued, LinksKept
  DEF end_if_else, end_if, end_while, InControl, InStatement

LEMMA StmtKeeps == ASSUME Inv, UNCHANGED emitterVars, emit_stmt PROVE Inv'
BY ExprStmtKeeps, DefKeeps, ReturnKeeps, BreakKeeps, BeginKeeps, BodyKeeps, ElseKeeps, EndKeeps
DEF emit_stmt

-----------------------------------------------------------------------------
(* What is passed over *)

LEMMA LambdaKeeps == ASSUME Inv, UNCHANGED emitterVars, emit_lambda PROVE Inv'
<1>1. GraphsGrow
  BY NoSteps DEF emit_lambda
<1>2. Going
  BY <1>1, Goes DEF emit_lambda, SkipsRest, Passes, constVars
<1>3. ValuesOK'
  BY <1>2, Given DEF emit_lambda, Valued
<1> QED
  BY <1>2, <1>3, Stays, StmtKept DEF emit_lambda

LEMMA IgnoreKeeps ==
    ASSUME Inv, UNCHANGED emitterVars, fail_call \/ ignore_stmt \/ fail_operand PROVE Inv'
<1>1. GraphsGrow
  BY NoSteps DEF fail_call, ignore_stmt, fail_operand
<1>2. Going
  BY <1>1, Goes DEF fail_call, ignore_stmt, fail_operand, SkipsRest, Passes, constVars
<1>3. StackOK'
  <2>1. CASE fail_call \/ ignore_stmt
    BY <2>1, <1>2, Stays DEF fail_call, ignore_stmt
  <2>2. CASE fail_operand
    BY <2>2, <1>2, Left DEF fail_operand, In
  <2> QED
    BY <2>1, <2>2
<1> QED
  BY <1>2, <1>3, Unvalued, StmtKept DEF fail_call, ignore_stmt, fail_operand

LEMMA SkipKeeps ==
    ASSUME Inv, UNCHANGED emitterVars, skip_event \/ end_block PROVE Inv'
<1>1. phase = "skip" /\ activations # <<>> /\ phase' \in {"lower", "skip"}
  BY DEF skip_event, end_block, Inv, Stages
<1>2. depth' \in Nat
  <2>1. CASE skip_event
    <3>1. PICK e \in Offered :
              /\ depth = 0 => e[1] \notin {"else"} \cup Ends
              /\ depth' = depth + (IF e[1] \in Brackets THEN 1
                                   ELSE IF e[1] \in Ends THEN -1 ELSE 0)
      BY <2>1 DEF skip_event
    <3>2. depth \in Nat
      BY DEF Inv, Stages
    <3> QED
      BY <3>1, <3>2
  <2>2. CASE end_block
    BY <2>2 DEF end_block, sourceVars, Inv, Stages
  <2> QED
    BY <2>1, <2>2
<1>3. GraphsGrow
  BY <1>1, NoSteps DEF skip_event, end_block
<1>4. Going
  BY <1>1, <1>2, <1>3, Goes DEF skip_event, end_block, Passes, sourceVars, constVars
<1> QED
  BY <1>4, Unvalued, Stays, StmtKept DEF skip_event, end_block

\* The body that fails has no block; a function's ends everything.
LEMMA FailKeeps == ASSUME Inv, UNCHANGED emitterVars, fail_stmt PROVE Inv'
<1>1. PICK e \in Offered :
          LET conditional == e[1] \in {"then", "do"}
              n == Len(activations) - (IF conditional THEN 1 ELSE 0)
              block == activations[n]
          IN /\ conditional => top.kind \in {"if", "while"}
             /\ got = 1
             /\ Passes(e)
             /\ depth' = IF conditional THEN 1 ELSE 0
             /\ m_next_local_aa' = m_next_local_aa + (IF e[1] = "def" THEN 1 ELSE 0)
             /\ \/ /\ block.kind = "function"
                   /\ phase' = "failed" /\ activations' = <<>>
                \/ /\ block.kind # "function"
                   /\ phase' = "skip"
                   /\ activations' = Append(SubSeq(activations, 1, n - 1), FailedBlock(block))
  BY DEF fail_stmt, Comes, In
<1>2. /\ phase = "lower" /\ activations # <<>> /\ values' = Keep(1)
      /\ UNCHANGED <<m_globals, m_locals, constVars, m_pending_links, m_result_cfgs>>
  BY DEF fail_stmt
<1> DEFINE conditional == e[1] \in {"then", "do"}
<1> DEFINE n == Len(activations) - (IF conditional THEN 1 ELSE 0)
<1> DEFINE block == activations[n]
<1>3. GraphsGrow
  BY <1>2, NoSteps
<1>4. m_next_local_aa' = m_next_local_aa \/ m_next_local_aa' = m_next_local_aa + 1
  <2>1. m_next_local_aa \in Nat
    BY DEF Inv, Names
  <2> QED
    BY <2>1, <1>1
<1>5. depth' \in Nat
  BY <1>1
<1>6. /\ activations \in Seq(Activation) /\ Len(activations) \in Nat /\ n \in 1..Len(activations)
      /\ \A k \in 1..Len(activations) : activations[k].kind = "function" <=> k = 1
  <2>1. activations \in Seq(Activation) /\ Len(activations) \in Nat /\ Len(activations) >= 1
        /\ IF top.kind = "function" THEN Len(activations) = 1 ELSE Len(activations) > 1
    BY <1>2, Running DEF Inv, Stack
  <2>2. conditional => Len(activations) > 1
    BY <2>1, <1>1
  <2>3. n \in 1..Len(activations)
    BY <2>1, <2>2
  <2> QED
    BY <2>1, <2>3 DEF Inv, Stack
<1>7. CASE block.kind = "function"
  <2>1. phase' = "failed" /\ activations' = <<>>
    BY <1>1, <1>7
  <2>2. Counts
    <3>1. Len(m_proto_consts) \in Nat
      BY SeqLength DEF Inv, Names
    <3> QED
      BY <3>1, <1>1, <1>2, <1>4 DEF Counts, Passes, constVars, Inv, Names
  <2>3. /\ Globals \subseteq Globals' /\ Addresses \subseteq Addresses' /\ Valued \subseteq Valued'
        /\ Links(wip) \subseteq Links(wip)'
    BY <2>2, <1>2, <1>3, Running, Grown DEF Inv
  <2>4. Names'
    BY <1>1, <1>2, <2>2, <2>3 DEF Names, Counts, constVars, Inv
  <2>5. Stack'
    <3>1. values \in Seq(Valued) /\ Len(values) \in Nat /\ 1 <= Len(values)
      BY <1>1, <1>2, Running DEF Inv, Stack, Valued, got
    <3>2. values \in Seq(Valued')
      BY <3>1, <2>3, SeqMonotonic
    <3>3. Len(values) - 1 \in Nat /\ Len(values) - 1 <= Len(values)
      BY <3>1
    <3>4. values' \in Seq(Valued')
      BY <1>2, <3>2, <3>3, SeqShorter DEF Keep
    <3>5. activations' \in Seq(Activation') /\ Len(activations') = 0
      BY <2>1, EmptySeq
    <3> QED
      BY <2>1, <3>4, <3>5 DEF Stack, Valued
  <2>6. Pending'
    <3>1. m_pending_links \in Seq(Links(wip) \X Links(wip))
      BY DEF Inv, Pending
    <3>2. wip' = wip
      BY <1>2 DEF wip
    <3> QED
      BY <3>1, <3>2, <1>2 DEF Pending, Links, BlocksOf
  <2>7. Stages' /\ Visits'
    BY <2>1, <1>2, <1>5 DEF Stages, Visits, Inv, emitterVars
  <2> QED
    BY <1>3, <2>4, <2>5, <2>6, <2>7 DEF Inv, GraphsGrow
<1>8. CASE block.kind # "function"
  <2> DEFINE failed == FailedBlock(block)
  <2>1. /\ phase' = "skip"
        /\ activations' = Append(SubSeq(activations, 1, n - 1), failed)
    BY <1>1, <1>8
  <2>2. Going
    BY <2>1, <1>1, <1>2, <1>3, <1>4, <1>5, Goes DEF Passes, constVars
  <2>3. failed \in Activation' /\ failed.kind # "function"
    <3>1. block \in Activation' /\ block.kind # "function"
      BY <1>6, <1>8, <2>2, ElementOfSeq, GoingGrows
    <3>2. CASE block.kind \in {"then", "else", "do"}
      <4>1. block \in [kind : {"then", "else", "do"}, base : Nat, pre : BlocksOf(wip)',
                       body : Links(wip)']
        BY <3>1, <3>2 DEF Activation
      <4>2. failed \in [kind : {"then", "else", "do"}, base : Nat, pre : BlocksOf(wip)',
                        body : Links(wip)']
        BY <4>1 DEF FailedBlock, Links
      <4> QED
        BY <4>2 DEF Activation
    <3>3. CASE block.kind \notin {"then", "else", "do"}
      <4>1. failed = block
        BY <3>1, <3>3 DEF Activation, FailedBlock
      <4> QED
        BY <3>1, <4>1
    <3> QED
      BY <3>2, <3>3
  <2>4. StackOK'
    <3> DEFINE below == SubSeq(activations, 1, n - 1)
    <3>1. activations \in Seq(Activation') /\ n - 1 \in Nat /\ n - 1 <= Len(activations)
      BY <1>6, <2>2, GoingGrows, SeqMonotonic
    <3>2. below \in Seq(Activation') /\ Len(below) = n - 1 /\ \A i \in 1..(n - 1) : below[i] = activations[i]
      BY <3>1, SeqShorter
    <3>0. activations' = Append(below, failed)
      BY <2>1
    <3> HIDE DEF below, failed
    <3>3. /\ activations' \in Seq(Activation') /\ Len(activations') = n
          /\ activations'[n] = failed /\ \A i \in 1..(n - 1) : activations'[i] = below[i]
      <4>1. /\ Append(below, failed) \in Seq(Activation')
            /\ Len(Append(below, failed)) = Len(below) + 1
            /\ Append(below, failed)[Len(below) + 1] = failed
            /\ \A i \in 1..Len(below) : Append(below, failed)[i] = below[i]
        BY <2>3, <3>2, AppendProperties
      <4>2. Len(below) + 1 = n
        BY <3>2, <1>6
      <4> QED
        BY <3>0, <3>2, <4>1, <4>2
    <3>4. n # 1
      BY <1>6, <1>8
    <3>5. activations' # <<>>
      BY <1>6, <3>3, EmptySeq
    <3>6. ASSUME NEW k \in 1..n PROVE activations'[k].kind = "function" <=> k = 1
      <4>1. CASE k = n
        BY <4>1, <3>3, <3>4, <2>3
      <4>2. CASE k # n
        BY <4>2, <3>2, <3>3, <1>6
      <4> QED
        BY <4>1, <4>2
    <3> QED
      BY <3>3, <3>5, <3>6 DEF StackOK
  <2>5. ValuesOK'
    BY <1>1, <1>2, <2>2, Taken
  <2> QED
    BY <1>2, <2>2, <2>4, <2>5, StmtKept
<1> QED
  BY <1>7, <1>8

LEMMA PassKeeps == ASSUME Inv, UNCHANGED emitterVars, pass_over PROVE Inv'
BY LambdaKeeps, IgnoreKeeps, SkipKeeps, FailKeeps DEF pass_over

-----------------------------------------------------------------------------
(* Functions *)

\* convert_ast.cpp:767: every name of the prepass is a function's.
LEMMA PrepassKeeps ==
    ASSUME Inv, UNCHANGED emitterVars, emit_function_prepass \/ prepass_done PROVE Inv'
<1>1. Len(source) \in Nat /\ m_next_func_aa \in 0..Len(source)
  BY LenProperties DEF Inv, Names
<1>2. CASE emit_function_prepass
  <2> DEFINE name == source[m_next_func_aa + 1].name
  <2> DEFINE aa == <<"immediate", m_next_func_aa>>
  <2>1. /\ phase = "prepass" /\ m_next_func_aa < Len(source)
        /\ m_globals' = With(m_globals, name, aa)
        /\ m_next_func_aa' = m_next_func_aa + 1
        /\ UNCHANGED <<sourceVars, phase, activations, values, m_locals, m_proto_consts,
                       m_next_local_aa, m_pending_links, m_result_cfgs>>
    BY <1>2 DEF emit_function_prepass
  <2>2. Globals' = Globals /\ Addresses' = Addresses /\ wip' = wip
    BY <2>1 DEF Globals, Addresses, wip, sourceVars
  <2>3. aa \in Globals
    <3>1. m_next_func_aa \in 0..(Len(source) - 1)
      BY <1>1, <2>1
    <3> QED
      BY <3>1 DEF Globals
  <2> HIDE DEF aa, name
  <2>4. \A x \in DOMAIN m_globals' : m_globals'[x] \in Globals'
    BY <2>1, <2>2, <2>3 DEF With, Inv, Names
  <2>5. Names'
    <3>1. m_next_func_aa' \in 0..Len(source)
      BY <1>1, <2>1
    <3> QED
      BY <3>1, <2>1, <2>2, <2>4 DEF Names, Inv, sourceVars
  <2>6. Activation' = Activation /\ Links(wip)' = Links(wip)
    BY <2>1, <2>2 DEF Activation, Links, BlocksOf
  <2> QED
    BY <2>1, <2>2, <2>5, <2>6
    DEF Inv, Graphs, Stack, Pending, Stages, Visits, sourceVars, emitterVars
<1>3. CASE prepass_done
  <2>1. /\ UNCHANGED <<source, activations, values, m_globals, m_locals, m_proto_consts, depth,
                       m_next_func_aa, m_next_local_aa, m_pending_links, m_result_cfgs>>
        /\ phase = "prepass" /\ phase' = "lower"
    BY <1>3 DEF prepass_done, sourceVars, constVars
  <2>2. /\ Globals' = Globals /\ Addresses' = Addresses /\ Activation' = Activation
        /\ Links(wip)' = Links(wip)
    BY <2>1 DEF Globals, Addresses, wip, Activation, Links, BlocksOf
  <2> QED
    BY <2>1, <2>2 DEF Inv, Graphs, Names, Stack, Pending, Stages, Visits, emitterVars
<1> QED
  BY <1>2, <1>3

\* convert_ast.cpp:788: the parameters get the first registers.
LEMMA BeginFunctionKeeps == ASSUME Inv, UNCHANGED emitterVars, begin_function PROVE Inv'
<1> DEFINE n == Len(m_result_cfgs)
<1> DEFINE f == source[n + 1]
<1> DEFINE a == [kind |-> "function", base |-> 0]
<1> DEFINE block == add_bb(<<>>)
<1>1. /\ phase = "lower" /\ activations = <<>> /\ n < Len(source)
      /\ m_locals' = ParamsOf(f) /\ m_next_local_aa' = m_next_local_aa + Len(f.params)
      /\ m_result_cfgs' = Append(m_result_cfgs, block)
      /\ activations' = Append(activations, a)
      /\ UNCHANGED <<source, depth, phase, values, m_globals, m_proto_consts, m_next_func_aa,
                     m_pending_links>>
  BY DEF begin_function, Enter, constVars
<1>2. values = <<>> /\ m_pending_links = <<>> /\ m_result_chunks = <<>> /\ depth \in Nat
  BY <1>1 DEF Inv, Stages
<1>3. GraphOK(block)
  BY FirstBlock
<1> HIDE DEF block
<1>4. IsSeq(m_result_cfgs) /\ n \in Nat /\ \A i \in 1..n : GraphOK(m_result_cfgs[i])
  BY SeqLength DEF Inv, Graphs
<1>5. /\ IsSeq(m_result_cfgs') /\ Len(m_result_cfgs') = n + 1 /\ m_result_cfgs' # <<>>
      /\ m_result_cfgs'[n + 1] = block
      /\ \A i \in 1..n : m_result_cfgs'[i] = m_result_cfgs[i]
  BY <1>1, <1>4, SeqAppend
<1>6. Graphs'
  <2> SUFFICES ASSUME NEW i \in 1..(n + 1) PROVE GraphOK(m_result_cfgs'[i])
    BY <1>5 DEF Graphs
  <2>1. CASE i = n + 1
    BY <2>1, <1>3, <1>5
  <2>2. CASE i # n + 1
    BY <2>2, <1>4, <1>5
  <2> QED
    BY <2>1, <2>2
<1>7. f.params \in Seq(STRING) /\ Len(f.params) \in Nat /\ DOMAIN f.params = 1..Len(f.params)
  <2>1. source \in Seq(Function) /\ n + 1 \in 1..Len(source)
    BY <1>1, <1>4, LenProperties DEF Inv, Names
  <2>2. f \in Function
    BY <2>1, ElementOfSeq
  <2>3. f.params \in Seq(STRING)
    BY <2>2 DEF Function
  <2> QED
    BY <2>3, LenProperties
<1>8. m_next_local_aa' \in Nat /\ m_next_local_aa' >= Len(f.params)
  BY <1>1, <1>7 DEF Inv, Names
<1>9. Globals' = Globals
  BY <1>1 DEF Globals
<1>10. \A x \in DOMAIN m_locals' : m_locals'[x] \in Addresses'
  <2> SUFFICES ASSUME NEW x \in DOMAIN ParamsOf(f) PROVE ParamsOf(f)[x] \in Addresses'
    BY <1>1
  <2>1. PICK i \in DOMAIN f.params : f.params[i] = x
    BY DEF ParamsOf
  <2>2. (CHOOSE j \in DOMAIN f.params : f.params[j] = x) \in DOMAIN f.params
    BY <2>1
  <2>3. ParamsOf(f)[x] = <<"temp", (CHOOSE j \in DOMAIN f.params : f.params[j] = x) - 1>>
    BY DEF ParamsOf
  <2>4. (CHOOSE j \in DOMAIN f.params : f.params[j] = x) - 1 \in 0..m_next_local_aa'
    BY <2>2, <1>7, <1>8
  <2> QED
    BY <2>3, <2>4 DEF Addresses
<1>11. Names'
  BY <1>1, <1>8, <1>9, <1>10 DEF Names, Inv
<1>12. Stack'
  <2>1. a \in Activation' /\ a.kind = "function"
    BY DEF Activation
  <2> HIDE DEF a
  <2>2. activations' = <<a>>
    BY <1>1
  <2>3. activations' \in Seq(Activation') /\ Len(activations') = 1 /\ activations'[1] = a
    BY <2>1, <2>2
  <2>4. \A k \in 1..Len(activations') : activations'[k].kind = "function" <=> k = 1
    BY <2>1, <2>3
  <2>5. values' \in Seq(Valued')
    BY <1>1, <1>2, EmptySeq
  <2> QED
    BY <2>3, <2>4, <2>5, <1>5 DEF Stack, Valued
<1>13. Pending'
  BY <1>1, <1>2, EmptySeq DEF Pending
<1>14. Stages'
  BY <1>1, <1>2 DEF Stages, emitterVars
<1>15. Visits'
  BY <1>2, <1>4, <1>5 DEF Visits, Inv, emitterVars
<1> QED
  BY <1>6, <1>11, <1>12, <1>13, <1>14, <1>15 DEF Inv

LEMMA EndFunctionKeeps == ASSUME Inv, UNCHANGED emitterVars, end_function PROVE Inv'
<1>1. /\ phase = "lower" /\ activations # <<>> /\ got = 0 /\ top.kind = "function"
      /\ phase' = "link"
      /\ UNCHANGED <<source, depth, activations, values, m_globals, m_locals, m_proto_consts,
                     m_next_func_aa, m_next_local_aa, m_pending_links, m_result_cfgs>>
  BY DEF end_function, Comes, In, Reads, Passes, constVars
<1>2. /\ Globals' = Globals /\ Addresses' = Addresses /\ Activation' = Activation
      /\ Links(wip)' = Links(wip)
  BY <1>1 DEF Globals, Addresses, wip, Activation, Links, BlocksOf
<1>3. Len(activations) = 1 /\ values = <<>>
  <2>1. Len(activations) = 1 /\ top \in Activation
    BY <1>1, Running
  <2>2. top.base = 0
    BY <1>1, <2>1 DEF Activation
  <2>3. Len(values) = 0
    BY <1>1, <2>2, Running DEF got
  <2> QED
    BY <2>1, <2>3, EmptySeq DEF Inv, Stack
<1> QED
  BY <1>1, <1>2, <1>3 DEF Inv, Graphs, Names, Stack, Pending, Stages, Visits, emitterVars

\* convert_ast.cpp:186: what the control statements have left is linked, first to last.
LEMMA LinkingKeeps == ASSUME Inv, UNCHANGED emitterVars, apply_pending_link PROVE Inv'
<1> DEFINE link == Head(m_pending_links)
<1>1. /\ phase = "link" /\ m_pending_links # <<>>
      /\ \/ /\ link[1] # NoBlock
            /\ Becomes(link_bb(wip, link))
            /\ m_pending_links' = Tail(m_pending_links)
            /\ UNCHANGED phase
         \/ phase' = "undefined" /\ UNCHANGED <<m_pending_links, m_result_cfgs>>
      /\ UNCHANGED <<source, depth, activations, values, m_globals, m_locals, m_proto_consts,
                     m_next_func_aa, m_next_local_aa>>
  BY DEF apply_pending_link, sourceVars, constVars
<1>2. /\ Len(activations) = 1 /\ values = <<>> /\ m_result_chunks = <<>>
      /\ m_pending_links \in Seq(Links(wip) \X Links(wip)) /\ depth \in Nat
  BY <1>1 DEF Inv, Stages, Pending
<1>3. activations # <<>> /\ m_result_cfgs # <<>>
  <2>1. activations \in Seq(Activation)
    BY DEF Inv, Stack
  <2>2. activations # <<>>
    BY <1>2, <2>1, EmptySeq
  <2> QED
    BY <2>2 DEF Inv, Stack
<1>4. link \in Links(wip) \X Links(wip) /\ Tail(m_pending_links) \in Seq(Links(wip) \X Links(wip))
  BY <1>1, <1>2, HeadTailProperties
<1> HIDE DEF link
<1>5. CASE /\ link[1] # NoBlock
           /\ Becomes(link_bb(wip, link))
           /\ m_pending_links' = Tail(m_pending_links)
           /\ UNCHANGED phase
  <2>1. GraphOK(wip)
    BY <1>3, Newest DEF Inv
  <2>2. GraphOK(link_bb(wip, link)) /\ Len(link_bb(wip, link)) = Len(wip)
    BY <2>1, <1>4, <1>5, LinkKeeps
  <2>3. /\ Graphs' /\ wip' = link_bb(wip, link)
        /\ Len(m_result_cfgs') = Len(m_result_cfgs) /\ m_result_cfgs' # <<>>
    BY <2>2, <1>3, <1>5, Replaced DEF Inv
  <2>4. Links(wip)' = Links(wip) /\ BlocksOf(wip)' = BlocksOf(wip)
    BY <2>2, <2>3 DEF Links, BlocksOf
  <2>5. Globals' = Globals /\ Addresses' = Addresses /\ Activation' = Activation
    BY <1>1, <2>4 DEF Globals, Addresses, Activation
  <2>6. Names' /\ Stack'
    BY <1>1, <2>3, <2>5 DEF Inv, Names, Stack
  <2>7. Pending'
    BY <1>4, <1>5, <2>4 DEF Pending
  <2>8. Stages' /\ Visits'
    BY <1>1, <1>2, <1>5, <2>3 DEF Inv, Stages, Visits, emitterVars
  <2> QED
    BY <2>3, <2>6, <2>7, <2>8 DEF Inv
<1>6. CASE phase' = "undefined" /\ UNCHANGED <<m_pending_links, m_result_cfgs>>
  <2>1. /\ Globals' = Globals /\ Addresses' = Addresses /\ Activation' = Activation
        /\ Links(wip)' = Links(wip)
    BY <1>1, <1>6 DEF Globals, Addresses, wip, Activation, Links, BlocksOf
  <2> QED
    BY <1>1, <1>6, <2>1 DEF Inv, Graphs, Names, Stack, Pending, Stages, Visits, emitterVars
<1> QED
  BY <1>1, <1>5, <1>6

\* convert_ast.cpp:811: and the registers are counted from 0 again.
LEMMA LeaveKeeps == ASSUME Inv, UNCHANGED emitterVars, leave_function PROVE Inv'
<1>1. /\ phase = "link" /\ m_pending_links = <<>> /\ phase' = "lower"
      /\ m_locals' = [x \in {} |-> 0] /\ m_next_local_aa' = 0
      /\ activations' = SubSeq(activations, 1, Len(activations) - 1)
      /\ UNCHANGED <<source, depth, values, m_globals, m_proto_consts, m_next_func_aa,
                     m_pending_links, m_result_cfgs>>
  BY DEF leave_function, Leave, sourceVars, constVars
<1>2. /\ Len(activations) = 1 /\ values = <<>> /\ activations \in Seq(Activation)
      /\ m_result_chunks = <<>> /\ depth \in Nat
  BY <1>1 DEF Inv, Stages, Stack
<1>3. activations' = <<>>
  <2>1. 0 <= Len(activations)
    BY <1>2
  <2>2. SubSeq(activations, 1, 0) \in Seq(Activation) /\ Len(SubSeq(activations, 1, 0)) = 0
    BY <1>2, <2>1, SeqShorter
  <2>3. activations' = SubSeq(activations, 1, 0)
    BY <1>1, <1>2
  <2> QED
    BY <2>2, <2>3, EmptySeq
<1>4. Globals' = Globals /\ wip' = wip
  BY <1>1 DEF Globals, wip
<1>5. Names'
  BY <1>1, <1>4 DEF Inv, Names
<1>6. Stack' /\ Pending'
  <2>1. values' \in Seq(Valued') /\ activations' \in Seq(Activation') /\ Len(activations') = 0
    BY <1>1, <1>2, <1>3, EmptySeq
  <2>2. Pending'
    BY <1>1, EmptySeq DEF Pending
  <2> QED
    BY <1>3, <2>1, <2>2 DEF Stack, Valued
<1>7. Stages' /\ Visits' /\ Graphs'
  BY <1>1, <1>2, <1>3 DEF Inv, Graphs, Stages, Visits, emitterVars
<1> QED
  BY <1>5, <1>6, <1>7 DEF Inv

LEMMA DoneKeeps == ASSUME Inv, UNCHANGED emitterVars, lowering_done PROVE Inv'
<1>1. /\ phase = "lower" /\ phase' = "emit"
      /\ UNCHANGED <<source, depth, activations, values, m_globals, m_locals, m_proto_consts,
                     m_next_func_aa, m_next_local_aa, m_pending_links, m_result_cfgs>>
  BY DEF lowering_done, sourceVars, constVars
<1>2. /\ Globals' = Globals /\ Addresses' = Addresses /\ Activation' = Activation
      /\ Links(wip)' = Links(wip)
  BY <1>1 DEF Globals, Addresses, wip, Activation, Links, BlocksOf
<1> QED
  BY <1>1, <1>2 DEF Inv, Graphs, Names, Stack, Pending, Stages, Visits, emitterVars

LEMMA LowerKeeps == ASSUME Inv, UNCHANGED emitterVars, Lower PROVE Inv'
BY PrepassKeeps, BeginFunctionKeeps, EndFunctionKeeps, LinkingKeeps, LeaveKeeps, DoneKeeps,
   ExprKeeps, StmtKeeps, PassKeeps
DEF Lower

-----------------------------------------------------------------------------
(* The emitter *)

\* emitter.cpp:425: the first block of a graph is visited first.
LEMMA BeginChunkKeeps == ASSUME Inv, begin_chunk PROVE Inv'
<1>1. /\ phase = "emit" /\ Len(m_result_chunks) < Len(m_result_cfgs)
      /\ m_result_chunks' = Append(m_result_chunks, <<>>) /\ frontier' = <<0>>
      /\ UNCHANGED loweringVars
  BY DEF begin_chunk
<1>2. /\ IsSeq(m_result_chunks) /\ Len(m_result_chunks) \in Nat /\ Len(m_result_cfgs) \in Nat
      /\ \A f \in 1..Len(m_result_cfgs) : GraphOK(m_result_cfgs[f])
  BY SeqLength DEF Inv, Visits, Graphs
<1>3. /\ IsSeq(m_result_chunks') /\ Len(m_result_chunks') = Len(m_result_chunks) + 1
      /\ m_result_chunks' # <<>>
  BY <1>1, <1>2, SeqAppend
<1>4. frontier' \in Seq(BlocksOf(m_result_cfgs[Len(m_result_chunks')]))
  <2> DEFINE cfg == m_result_cfgs[Len(m_result_chunks')]
  <2>1. GraphOK(cfg)
    BY <1>1, <1>2, <1>3
  <2> HIDE DEF cfg
  <2>2. Len(cfg) \in Nat /\ Len(cfg) >= 1
    BY <2>1, SeqLength DEF GraphOK
  <2>3. 0 \in BlocksOf(cfg)
    BY <2>2 DEF BlocksOf
  <2> QED
    BY <2>3, <1>1 DEF cfg
<1>5. Visits'
  BY <1>1, <1>2, <1>3, <1>4 DEF Visits, loweringVars
<1>6. /\ Globals' = Globals /\ Addresses' = Addresses /\ Activation' = Activation
      /\ Links(wip)' = Links(wip)
  BY <1>1 DEF loweringVars, sourceVars, constVars, Globals, Addresses, wip, Activation, Links,
              BlocksOf
<1> QED
  BY <1>1, <1>5, <1>6
  DEF Inv, Graphs, Names, Stack, Pending, Stages, loweringVars, sourceVars, constVars

\* emitter.cpp:454: the children of a block are blocks of its graph.
LEMMA VisitKeeps == ASSUME Inv, skip_visited \/ visit_bb \/ all_emitted PROVE Inv'
<1>1. /\ phase = "emit" /\ phase' \in {"emit", "done", "undefined"}
      /\ UNCHANGED <<source, depth, activations, values, m_globals, m_locals, m_proto_consts,
                     m_next_func_aa, m_next_local_aa, m_pending_links, m_result_cfgs>>
  BY DEF skip_visited, visit_bb, all_emitted, loweringVars, sourceVars, constVars
<1>2. /\ Globals' = Globals /\ Addresses' = Addresses /\ Activation' = Activation
      /\ Links(wip)' = Links(wip)
  BY <1>1 DEF Globals, Addresses, wip, Activation, Links, BlocksOf
<1> DEFINE n == Len(m_result_chunks)
<1> DEFINE cfg == m_result_cfgs[n]
<1>3. ASSUME frontier # <<>>
      PROVE  /\ n \in 1..Len(m_result_cfgs) /\ IsSeq(m_result_chunks) /\ n \in 1..n
             /\ GraphOK(cfg) /\ next_bb_id \in BlocksOf(cfg)
             /\ rest \in Seq(BlocksOf(cfg))
  <2>1. m_result_chunks # <<>> /\ frontier \in Seq(BlocksOf(cfg)) /\ n <= Len(m_result_cfgs)
    BY <1>3 DEF Inv, Visits
  <2>2. IsSeq(m_result_chunks) /\ n \in Nat /\ n >= 1 /\ Len(m_result_cfgs) \in Nat
    BY <2>1, SeqLength DEF Inv, Visits, Graphs
  <2>3. n \in 1..Len(m_result_cfgs) /\ n \in 1..n
    BY <2>1, <2>2
  <2>4. GraphOK(cfg)
    BY <2>3 DEF Inv, Graphs
  <2> HIDE DEF cfg
  <2>5. Len(frontier) \in Nat /\ Len(frontier) >= 1
    BY <2>1, <1>3, LenProperties, EmptySeq
  <2>6. next_bb_id \in BlocksOf(cfg)
    BY <2>1, <2>5, ElementOfSeq DEF next_bb_id
  <2>7. rest \in Seq(BlocksOf(cfg))
    <3>1. Len(frontier) - 1 \in Nat /\ Len(frontier) - 1 <= Len(frontier)
      BY <2>5
    <3> QED
      BY <2>1, <3>1, SeqShorter DEF rest
  <2> QED
    BY <2>2, <2>3, <2>4, <2>6, <2>7
<1>4. Visits'
  <2>1. CASE skip_visited
    <3>1. frontier # <<>> /\ frontier' = rest /\ UNCHANGED <<m_result_chunks, m_result_cfgs>>
      BY <2>1, <1>1 DEF skip_visited
    <3> QED
      BY <3>1, <1>3 DEF Visits, Inv
  <2>2. CASE visit_bb
    <3> DEFINE bb == cfg[next_bb_id + 1]
    <3>1. /\ frontier # <<>> /\ frontier' = rest \o Children(bb)
          /\ \E chunk : m_result_chunks' = [m_result_chunks EXCEPT ![n] = chunk]
      BY <2>2 DEF visit_bb
    <3>2. Children(bb) \in Seq(BlocksOf(cfg))
      <4>1. Len(cfg) \in Nat
        BY <1>3, <3>1, SeqLength DEF GraphOK
      <4>2. next_bb_id + 1 \in 1..Len(cfg)
        BY <4>1, <1>3, <3>1 DEF BlocksOf
      <4>3. BlockOK(bb, cfg)
        BY <4>2, <1>3, <3>1 DEF GraphOK
      <4> HIDE DEF bb, cfg
      <4>4. bb.truthy_id \in Links(cfg) /\ bb.falsy_id \in Links(cfg)
        BY <4>3 DEF BlockOK
      <4>5. ASSUME NEW id \in Links(cfg) PROVE Branch(id) \in Seq(BlocksOf(cfg))
        BY DEF Branch, Links
      <4>6. Branch(bb.truthy_id) \in Seq(BlocksOf(cfg)) /\ Branch(bb.falsy_id) \in Seq(BlocksOf(cfg))
        BY <4>4, <4>5
      <4> QED
        BY <4>6, ConcatProperties DEF Children
    <3>3. frontier' \in Seq(BlocksOf(cfg))
      BY <3>1, <3>2, <1>3, ConcatProperties
    <3>4. PICK chunk : m_result_chunks' = [m_result_chunks EXCEPT ![n] = chunk]
      BY <3>1
    <3>5. IsSeq(m_result_chunks') /\ Len(m_result_chunks') = n /\ m_result_chunks' # <<>>
      <4> DEFINE t == [m_result_chunks EXCEPT ![n] = chunk]
      <4>1. IsSeq(t) /\ Len(t) = n /\ t # <<>>
        BY <1>3, <3>1, SeqExcept
      <4> QED
        BY <3>4, <4>1
    <3> QED
      BY <1>1, <3>3, <3>5 DEF Visits, Inv
  <2>3. CASE all_emitted
    BY <2>3, <1>1 DEF all_emitted, emitterVars, Visits, Inv
  <2> QED
    BY <2>1, <2>2, <2>3
<1> QED
  BY <1>1, <1>2, <1>4 DEF Inv, Graphs, Names, Stack, Pending, Stages

-----------------------------------------------------------------------------
(* All of it *)

LEMMA CompilerStarts == CompilerInit => Inv
<1> SUFFICES ASSUME CompilerInit PROVE Inv
  OBVIOUS
<1>1. /\ source \in Seq(Function) /\ phase = "prepass" /\ depth = 0
      /\ activations = <<>> /\ values = <<>> /\ m_pending_links = <<>>
      /\ m_globals = [x \in {} |-> 0] /\ m_locals = [x \in {} |-> 0]
      /\ m_proto_consts = <<>> /\ m_next_func_aa = 0 /\ m_next_local_aa = 0
      /\ m_result_cfgs = <<>> /\ m_result_chunks = <<>> /\ frontier = <<>>
  BY LoweringAssumption DEF CompilerInit, Init
<1>2. IsSeq(<<>>) /\ Len(<<>>) = 0 /\ Len(source) \in Nat
  BY <1>1, EmptySeq, LenProperties DEF IsSeq
<1>3. Graphs /\ Names /\ Visits
  BY <1>1, <1>2 DEF Graphs, Names, Visits
<1>4. Stack /\ Pending
  BY <1>1, EmptySeq DEF Stack, Pending
<1>5. Stages
  BY <1>1 DEF Stages
<1> QED
  BY <1>3, <1>4, <1>5 DEF Inv

LEMMA CompilerKeeps == Inv /\ [Next]_vars => Inv'
<1> SUFFICES ASSUME Inv, [Next]_vars PROVE Inv'
  OBVIOUS
<1>1. CASE Next
  BY <1>1, LowerKeeps, BeginChunkKeeps, VisitKeeps DEF Next, Emit
<1>2. CASE UNCHANGED vars
  <2>1. /\ UNCHANGED <<source, phase, depth, activations, values, m_globals, m_locals,
                       m_proto_consts, m_next_func_aa, m_next_local_aa, m_pending_links,
                       m_result_cfgs, m_result_chunks, frontier>>
    BY <1>2 DEF vars, loweringVars, sourceVars, constVars, emitterVars
  <2>2. /\ Globals' = Globals /\ Addresses' = Addresses /\ Activation' = Activation
        /\ Links(wip)' = Links(wip)
    BY <2>1 DEF Globals, Addresses, wip, Activation, Links, BlocksOf
  <2> QED
    BY <2>1, <2>2 DEF Inv, Graphs, Names, Stack, Pending, Stages, Visits
<1> QED
  BY <1>1, <1>2

\* The invariant holds of every source that the analyzer lets pass, however long.
THEOREM CompilerSafety == Spec => []Inv
<1> QED
  BY CompilerStarts, CompilerKeeps, PTL DEF Spec

LEMMA InvTypes == Inv => CompilerTypeOK
<1> SUFFICES ASSUME Inv PROVE CompilerTypeOK
  OBVIOUS
<1>1. \A f \in DOMAIN m_result_cfgs : \A b \in DOMAIN m_result_cfgs[f] :
         Targets(m_result_cfgs[f][b]) \subseteq Links(m_result_cfgs[f])
  <2> TAKE f \in DOMAIN m_result_cfgs
  <2>1. GraphOK(m_result_cfgs[f])
    BY SeqLength DEF Inv, Graphs
  <2> TAKE b \in DOMAIN m_result_cfgs[f]
  <2>2. BlockOK(m_result_cfgs[f][b], m_result_cfgs[f])
    BY <2>1, SeqLength DEF GraphOK
  <2> QED
    BY <2>2 DEF BlockOK, Targets
<1> QED
  BY <1>1 DEF Inv, Names, Stack, Pending, Stages, Visits, CompilerTypeOK

\* No address leads to a register or a constant that was not given out, no link to a
\* block that there is not (emitter.cpp and the machine look them up unchecked), and the
\* emitter visits only blocks of the graph it is at, for every source.
THEOREM CompilerTypes == Spec => []CompilerTypeOK
<1> QED
  BY CompilerSafety, InvTypes, PTL

-----------------------------------------------------------------------------
(* Arguments where the engine looks for them.  First what the lowering      *)
(* writes into a block: the arguments of its steps, and what comes before   *)
(* and after a call, a mark and the end of an if or a loop.                 *)

StepOps == {"make_str", "make_seq", "seq_obj_push", "frz_seq_obj", "neg", "nop", "call",
            "native_call", "ret", "jump", "jump_else"} \cup BinaryOps \cup Metas

\* The numbers that the emitter and the engine read.
Arguments(s) ==
    /\ IsSeq(s.args)
    /\ s.args # <<>> => s.args[1][2] \in Nat
    /\ s.op \notin Metas \cup {"nop"} => s.args # <<>>
    /\ s.op \in {"jump_else"} \cup CallOps => Len(s.args) = 2 /\ s.args[2][2] \in Nat
    /\ s.op \in Jumps => JumpsTo(s) = 0
Written(s) == DOMAIN s = {"op", "args", "at"} /\ s.op \in StepOps /\ Arguments(s)

IsNop(s) == s.op = "nop" /\ s.args = <<>>
MovesAbove(s, n) == s.op = "nop" /\ s.args # <<>> /\ s.args[1][2] >= n - 1

Checks == {"meta_mark_if_else_check", "meta_mark_while_check"}
JumpMarks == {"meta_mark_break", "meta_mark_continue", "meta_mark_if_else_alt"}
EndOps == {"meta_end_while", "meta_end_if_else"}
NopAfter == {"meta_mark_if_else_alt", "meta_begin_while"}

\* What step i of a block has beside it.
Placed(steps, i) == LET s == steps[i] IN
    /\ s.op \in Checks => i > 1 /\ steps[i - 1].op = "jump_else"
    /\ s.op \in JumpMarks => i > 1 /\ steps[i - 1].op = "jump"
    /\ s.op \in EndOps => i > 1 /\ IsNop(steps[i - 1])
    /\ s.op \in NopAfter => i < Len(steps) /\ IsNop(steps[i + 1])
    /\ PassesArguments(s) => i > 1 /\ MovesAbove(steps[i - 1], Passed(s))

StepsOK(steps) ==
    IsSeq(steps) /\ \A i \in 1..Len(steps) : Written(steps[i]) /\ Placed(steps, i)

LEMMA SeqConcat ==
    ASSUME NEW s, IsSeq(s), NEW t, IsSeq(t)
    PROVE  /\ IsSeq(s \o t) /\ Len(s \o t) = Len(s) + Len(t)
           /\ \A i \in 1..Len(s) : (s \o t)[i] = s[i]
           /\ \A i \in 1..Len(t) : (s \o t)[Len(s) + i] = t[i]
<1>1. PICK S : s \in Seq(S)
  BY DEF IsSeq
<1>2. PICK T : t \in Seq(T)
  BY DEF IsSeq
<1>3. s \in Seq(S \cup T) /\ t \in Seq(S \cup T)
  BY <1>1, <1>2, SeqMonotonic
<1>4. /\ s \o t \in Seq(S \cup T) /\ Len(s \o t) = Len(s) + Len(t)
      /\ \A i \in 1..(Len(s) + Len(t)) :
            (s \o t)[i] = IF i <= Len(s) THEN s[i] ELSE t[i - Len(s)]
  BY <1>3, ConcatProperties
<1>5. Len(s) \in Nat /\ Len(t) \in Nat
  BY SeqLength
<1>6. ASSUME NEW i \in 1..Len(s) PROVE (s \o t)[i] = s[i]
  <2>1. i \in 1..(Len(s) + Len(t)) /\ i <= Len(s)
    BY <1>5
  <2> QED
    BY <2>1, <1>4
<1>7. ASSUME NEW i \in 1..Len(t) PROVE (s \o t)[Len(s) + i] = t[i]
  <2>1. Len(s) + i \in 1..(Len(s) + Len(t)) /\ ~ (Len(s) + i <= Len(s)) /\ Len(s) + i - Len(s) = i
    BY <1>5
  <2>2. (s \o t)[Len(s) + i] = t[Len(s) + i - Len(s)]
    BY <2>1, <1>4
  <2> QED
    BY <2>1, <2>2
<1> QED
  BY <1>4, <1>6, <1>7 DEF IsSeq

\* Steps may follow where each of them is placed well.
LEMMA StepsFollow ==
    ASSUME NEW s, StepsOK(s), NEW t, IsSeq(t),
           \A i \in 1..Len(t) : Written(t[i]) /\ Placed(s \o t, Len(s) + i)
    PROVE  StepsOK(s \o t)
<1> DEFINE u == s \o t
<1>1. Len(s) \in Nat /\ Len(t) \in Nat /\ IsSeq(s)
  BY SeqLength DEF StepsOK
<1>2. /\ IsSeq(u) /\ Len(u) = Len(s) + Len(t)
      /\ \A i \in 1..Len(s) : u[i] = s[i]
      /\ \A i \in 1..Len(t) : u[Len(s) + i] = t[i]
  BY <1>1, SeqConcat
<1> HIDE DEF u
<1>3. ASSUME NEW i \in 1..Len(u) PROVE Written(u[i]) /\ Placed(u, i)
  <2>1. CASE i <= Len(s)
    <3>1. i \in 1..Len(s) /\ u[i] = s[i]
      BY <2>1, <1>1, <1>2
    <3>2. Written(s[i]) /\ Placed(s, i)
      BY <3>1 DEF StepsOK
    <3>3. i > 1 => u[i - 1] = s[i - 1]
      BY <3>1, <1>1, <1>2
    <3>4. i < Len(s) => i < Len(u) /\ u[i + 1] = s[i + 1]
      BY <3>1, <1>1, <1>2
    <3> QED
      BY <3>1, <3>2, <3>3, <3>4 DEF Placed
  <2>2. CASE ~ (i <= Len(s))
    <3>1. i - Len(s) \in 1..Len(t) /\ Len(s) + (i - Len(s)) = i
      BY <2>2, <1>1, <1>2
    <3>2. Written(t[i - Len(s)]) /\ Placed(u, Len(s) + (i - Len(s))) /\ u[Len(s) + (i - Len(s))] = t[i - Len(s)]
      BY <3>1, <1>2 DEF u
    <3> QED
      BY <3>1, <3>2
  <2> QED
    BY <2>1, <2>2, <1>1, <1>2
<1> QED
  BY <1>2, <1>3 DEF StepsOK, u

LEMMA StepsJoined == ASSUME NEW s, StepsOK(s), NEW t, StepsOK(t) PROVE StepsOK(s \o t)
<1> DEFINE u == s \o t
<1>1. Len(s) \in Nat /\ Len(t) \in Nat /\ IsSeq(s) /\ IsSeq(t)
  BY SeqLength DEF StepsOK
<1>2. /\ Len(u) = Len(s) + Len(t)
      /\ \A i \in 1..Len(t) : u[Len(s) + i] = t[i]
  BY <1>1, SeqConcat
<1> HIDE DEF u
<1>3. ASSUME NEW i \in 1..Len(t) PROVE Written(t[i]) /\ Placed(u, Len(s) + i)
  <2>1. Written(t[i]) /\ Placed(t, i) /\ u[Len(s) + i] = t[i]
    BY <1>2 DEF StepsOK
  <2>2. i > 1 => Len(s) + i > 1 /\ u[Len(s) + i - 1] = t[i - 1]
    <3> SUFFICES ASSUME i > 1 PROVE Len(s) + i > 1 /\ u[Len(s) + i - 1] = t[i - 1]
      OBVIOUS
    <3>1. i - 1 \in 1..Len(t) /\ Len(s) + (i - 1) = Len(s) + i - 1 /\ Len(s) + i > 1
      BY <1>1
    <3>2. u[Len(s) + (i - 1)] = t[i - 1]
      BY <3>1, <1>2
    <3> QED
      BY <3>1, <3>2
  <2>3. i < Len(t) => Len(s) + i < Len(u) /\ u[Len(s) + i + 1] = t[i + 1]
    <3> SUFFICES ASSUME i < Len(t) PROVE Len(s) + i < Len(u) /\ u[Len(s) + i + 1] = t[i + 1]
      OBVIOUS
    <3>1. i + 1 \in 1..Len(t) /\ Len(s) + (i + 1) = Len(s) + i + 1 /\ Len(s) + i < Len(u)
      BY <1>1, <1>2
    <3>2. u[Len(s) + (i + 1)] = t[i + 1]
      BY <3>1, <1>2
    <3> QED
      BY <3>1, <3>2
  <2> QED
    BY <2>1, <2>2, <2>3 DEF Placed
<1>4. StepsOK(s \o t)
  BY <1>1, <1>3, StepsFollow DEF u
<1> QED
  BY <1>4

\* A call of n arguments may follow the move of the last of them.
LEMMA CallFollows ==
    ASSUME NEW s, StepsOK(s), NEW c, Written(c), c.op \in CallOps,
           Passed(c) > 0 => s # <<>> /\ MovesAbove(s[Len(s)], Passed(c))
    PROVE  StepsOK(s \o <<c>>)
<1> DEFINE u == s \o <<c>>
<1>1. IsSeq(s) /\ Len(s) \in Nat /\ (s # <<>> => Len(s) > 0) /\ IsSeq(<<c>>) /\ Len(<<c>>) = 1
  <2>1. <<c>> \in Seq({c}) /\ Len(<<c>>) = 1
    OBVIOUS
  <2> QED
    BY <2>1, SeqLength DEF StepsOK, IsSeq
<1>2. /\ Len(u) = Len(s) + 1
      /\ \A i \in 1..Len(s) : u[i] = s[i]
      /\ u[Len(s) + 1] = c
  <2> DEFINE t == <<c>>
  <2>1. t[1] = c /\ Len(t) = 1
    OBVIOUS
  <2>4. IsSeq(s) /\ IsSeq(t)
    BY <1>1
  <2> HIDE DEF t
  <2>2. /\ Len(s \o t) = Len(s) + Len(t)
        /\ \A i \in 1..Len(s) : (s \o t)[i] = s[i]
        /\ \A i \in 1..Len(t) : (s \o t)[Len(s) + i] = t[i]
    BY <2>4, SeqConcat
  <2>3. (s \o t)[Len(s) + 1] = t[1]
    BY <2>1, <2>2
  <2> QED
    BY <2>1, <2>2, <2>3 DEF t
<1> HIDE DEF u
<1>3. Placed(u, Len(s) + 1)
  <2>1. c.op \notin Checks \cup JumpMarks \cup EndOps \cup NopAfter
    BY DEF CallOps, Checks, JumpMarks, EndOps, NopAfter
  <2>2. ASSUME Passed(c) > 0
        PROVE  Len(s) + 1 > 1 /\ MovesAbove(u[Len(s) + 1 - 1], Passed(c))
    <3>1. Len(s) > 0 /\ Len(s) + 1 - 1 = Len(s) /\ Len(s) \in 1..Len(s) /\ Len(s) + 1 > 1
      BY <2>2, <1>1
    <3>2. u[Len(s)] = s[Len(s)]
      BY <3>1, <1>2
    <3> QED
      BY <2>2, <3>1, <3>2
  <2> QED
    BY <2>1, <2>2, <1>2 DEF Placed, PassesArguments
<1>4. \A i \in 1..Len(<<c>>) : Written(<<c>>[i]) /\ Placed(s \o <<c>>, Len(s) + i)
  <2> SUFFICES ASSUME NEW i \in 1..1 PROVE Written(<<c>>[i]) /\ Placed(s \o <<c>>, Len(s) + i)
    BY <1>1
  <2>1. i = 1 /\ <<c>>[1] = c
    OBVIOUS
  <2> QED
    BY <2>1, <1>3 DEF u
<1> QED
  BY <1>1, <1>4, StepsFollow

\* A step by itself.
Alone == Checks \cup JumpMarks \cup EndOps \cup NopAfter \cup CallOps

LEMMA OneStep ==
    ASSUME NEW s, Written(s), s.op \notin Alone PROVE StepsOK(<<s>>)
<1>1. IsSeq(<<s>>) /\ Len(<<s>>) = 1 /\ <<s>>[1] = s
  <2>1. <<s>> \in Seq({s})
    OBVIOUS
  <2> QED
    BY <2>1 DEF IsSeq
<1> DEFINE t == <<s>>
<1>2. Placed(t, 1)
  BY <1>1 DEF Placed, Alone, PassesArguments
<1> HIDE DEF t
<1>3. \A i \in 1..1 : i = 1
  OBVIOUS
<1>4. IsSeq(t) /\ Len(t) = 1 /\ t[1] = s
  BY <1>1 DEF t
<1>5. StepsOK(t)
  BY <1>2, <1>3, <1>4 DEF StepsOK
<1> QED
  BY <1>5 DEF t

LEMMA TwoSteps ==
    ASSUME NEW r, NEW s, Written(r), Written(s), Placed(<<r, s>>, 1), Placed(<<r, s>>, 2)
    PROVE  StepsOK(<<r, s>>)
<1> DEFINE t == <<r, s>>
<1>1. IsSeq(t) /\ Len(t) = 2 /\ t[1] = r /\ t[2] = s
  <2>1. <<r, s>> \in Seq({r, s})
    OBVIOUS
  <2> QED
    BY <2>1 DEF IsSeq
<1>2. Placed(t, 1) /\ Placed(t, 2)
  OBVIOUS
<1> HIDE DEF t
<1>3. \A i \in 1..2 : i = 1 \/ i = 2
  OBVIOUS
<1>4. StepsOK(t)
  BY <1>1, <1>2, <1>3 DEF StepsOK
<1> QED
  BY <1>4 DEF t

LEMMA ThreeSteps ==
    ASSUME NEW r, NEW s, NEW u, Written(r), Written(s), Written(u),
           Placed(<<r, s, u>>, 1), Placed(<<r, s, u>>, 2), Placed(<<r, s, u>>, 3)
    PROVE  StepsOK(<<r, s, u>>)
<1> DEFINE t == <<r, s, u>>
<1>1. IsSeq(t) /\ Len(t) = 3 /\ t[1] = r /\ t[2] = s /\ t[3] = u
  <2>1. <<r, s, u>> \in Seq({r, s, u})
    OBVIOUS
  <2> QED
    BY <2>1 DEF IsSeq
<1>2. Placed(t, 1) /\ Placed(t, 2) /\ Placed(t, 3)
  OBVIOUS
<1> HIDE DEF t
<1>3. \A i \in 1..3 : i = 1 \/ i = 2 \/ i = 3
  OBVIOUS
<1>4. StepsOK(t)
  BY <1>1, <1>2, <1>3 DEF StepsOK
<1> QED
  BY <1>4 DEF t

LEMMA NoStepsOK == StepsOK(<<>>)
<1>1. IsSeq(<<>>) /\ Len(<<>>) = 0
  BY EmptySeq DEF IsSeq
<1> QED
  BY <1>1 DEF StepsOK

\* The arguments of a step that are read are numbers.
LEMMA WrittenArgs ==
    ASSUME NEW op \in StepOps, NEW args, IsSeq(args),
           args # <<>> => args[1][2] \in Nat,
           op \notin Metas \cup {"nop"} => args # <<>>,
           op \in {"jump_else"} \cup CallOps => Len(args) = 2 /\ args[2][2] \in Nat,
           op = "jump" => args[1][2] = 0,
           op = "jump_else" => args[2][2] = 0
    PROVE  Written(Step(op, args))
<1> DEFINE s == Step(op, args)
<1>1. DOMAIN s = {"op", "args", "at"} /\ s.op = op /\ s.args = args
  BY DEF Step
<1> HIDE DEF s
<1>2. op # "jump_if"
  BY DEF StepOps, BinaryOps, Metas, OfIf, OfLoop
<1>3. s.op \in Jumps => JumpsTo(s) = 0
  BY <1>1, <1>2 DEF Jumps, JumpsTo
<1>4. Arguments(s)
  BY <1>1, <1>3 DEF Arguments
<1>5. Written(s)
  BY <1>1, <1>4 DEF Written
<1> QED
  BY <1>5 DEF s

LEMMA WrittenNone == ASSUME NEW op \in Metas \cup {"nop"} PROVE Written(Step(op, <<>>))
<1>1. IsSeq(<<>>)
  BY EmptySeq DEF IsSeq
<1>2. op \in StepOps /\ op \notin {"jump", "jump_else"} \cup CallOps
  BY DEF StepOps, CallOps, Metas, OfIf, OfLoop
<1> QED
  BY <1>1, <1>2, WrittenArgs

LEMMA WrittenOne ==
    ASSUME NEW op \in StepOps, op \notin {"jump_else"} \cup CallOps, NEW v, v[2] \in Nat,
           op = "jump" => v[2] = 0
    PROVE  Written(Step(op, <<v>>))
<1>1. IsSeq(<<v>>) /\ <<v>>[1] = v /\ <<v>> # <<>>
  <2>1. <<v>> \in Seq({v})
    OBVIOUS
  <2> QED
    BY <2>1 DEF IsSeq
<1> QED
  BY <1>1, WrittenArgs

LEMMA WrittenTwo ==
    ASSUME NEW op \in StepOps, NEW v, NEW w, v[2] \in Nat,
           op \in {"jump_else"} \cup CallOps => w[2] \in Nat,
           op # "jump", op = "jump_else" => w[2] = 0
    PROVE  Written(Step(op, <<v, w>>))
<1>1. /\ IsSeq(<<v, w>>) /\ <<v, w>>[1] = v /\ <<v, w>>[2] = w /\ <<v, w>> # <<>>
      /\ Len(<<v, w>>) = 2
  <2>1. <<v, w>> \in Seq({v, w})
    OBVIOUS
  <2> QED
    BY <2>1 DEF IsSeq
<1> QED
  BY <1>1, WrittenArgs

LEMMA WrittenThree ==
    ASSUME NEW op \in StepOps, op \notin {"jump", "jump_else"} \cup CallOps, NEW v, NEW w, NEW x, v[2] \in Nat
    PROVE  Written(Step(op, <<v, w, x>>))
<1>1. IsSeq(<<v, w, x>>) /\ <<v, w, x>>[1] = v /\ <<v, w, x>> # <<>>
  <2>1. <<v, w, x>> \in Seq({v, w, x})
    OBVIOUS
  <2> QED
    BY <2>1 DEF IsSeq
<1> QED
  BY <1>1, WrittenArgs

\* The steps that control statements add.
LEMMA BreakSteps ==
    ASSUME NEW op \in {"meta_mark_break", "meta_mark_continue"}
    PROVE  StepsOK(<<Step("jump", <<Dud>>), Meta(op)>>)
<1> DEFINE r == Step("jump", <<Dud>>)
<1> DEFINE s == Meta(op)
<1>1. Written(r)
  BY WrittenOne DEF Dud, StepOps, CallOps
<1>2. Written(s)
  BY WrittenNone DEF Meta, Metas, OfLoop
<1>3. r.op = "jump" /\ s.op = op
  BY DEF Step, Meta
<1> HIDE DEF r, s
<1>4. Placed(<<r, s>>, 1) /\ Placed(<<r, s>>, 2)
  BY <1>3 DEF Placed, Checks, JumpMarks, EndOps, NopAfter, PassesArguments, CallOps
<1>5. StepsOK(<<r, s>>)
  BY <1>1, <1>2, <1>4, TwoSteps
<1> QED
  BY <1>5 DEF r, s

LEMMA CheckSteps ==
    ASSUME NEW op \in Checks, NEW v, v[2] \in Nat
    PROVE  StepsOK(<<Step("jump_else", <<v, Dud>>), Meta(op)>>)
<1> DEFINE r == Step("jump_else", <<v, Dud>>)
<1> DEFINE s == Meta(op)
<1>1. Written(r)
  BY WrittenTwo DEF Dud, StepOps
<1>2. Written(s)
  BY WrittenNone DEF Meta, Metas, OfLoop, OfIf, Checks
<1>3. r.op = "jump_else" /\ s.op = op
  BY DEF Step, Meta
<1> HIDE DEF r, s
<1>4. Placed(<<r, s>>, 1) /\ Placed(<<r, s>>, 2)
  BY <1>3 DEF Placed, Checks, JumpMarks, EndOps, NopAfter, PassesArguments, CallOps
<1>5. StepsOK(<<r, s>>)
  BY <1>1, <1>2, <1>4, TwoSteps
<1> QED
  BY <1>5 DEF r, s

LEMMA EndSteps ==
    ASSUME NEW op \in EndOps
    PROVE  StepsOK(<<Step("nop", <<>>), Meta(op)>>)
<1> DEFINE r == Step("nop", <<>>)
<1> DEFINE s == Meta(op)
<1>1. Written(r) /\ Written(s)
  BY WrittenNone DEF Meta, Metas, OfLoop, OfIf, EndOps
<1>3. r.op = "nop" /\ r.args = <<>> /\ s.op = op
  BY DEF Step, Meta
<1> HIDE DEF r, s
<1>4. Placed(<<r, s>>, 1) /\ Placed(<<r, s>>, 2)
  BY <1>3 DEF Placed, Checks, JumpMarks, EndOps, NopAfter, PassesArguments, CallOps, IsNop
<1>5. StepsOK(<<r, s>>)
  BY <1>1, <1>4, TwoSteps
<1> QED
  BY <1>5 DEF r, s

LEMMA LoopSteps == StepsOK(<<Meta("meta_begin_while"), Step("nop", <<>>)>>)
<1> DEFINE r == Meta("meta_begin_while")
<1> DEFINE s == Step("nop", <<>>)
<1>1. Written(r) /\ Written(s)
  BY WrittenNone DEF Meta, Metas
<1>3. s.op = "nop" /\ s.args = <<>> /\ r.op = "meta_begin_while"
  BY DEF Step, Meta
<1> HIDE DEF r, s
<1>4. Placed(<<r, s>>, 1) /\ Placed(<<r, s>>, 2)
  BY <1>3 DEF Placed, Checks, JumpMarks, EndOps, NopAfter, PassesArguments, CallOps, IsNop
<1>5. StepsOK(<<r, s>>)
  BY <1>1, <1>4, TwoSteps
<1> QED
  BY <1>5 DEF r, s

LEMMA IfSteps == StepsOK(<<Meta("meta_begin_if_else")>>)
<1> DEFINE s == Meta("meta_begin_if_else")
<1>1. Written(s)
  BY WrittenNone DEF Meta, Metas
<1>2. s.op \notin Alone
  BY DEF Meta, Step, Alone, Checks, JumpMarks, EndOps, NopAfter, CallOps
<1> HIDE DEF s
<1>3. StepsOK(<<s>>)
  BY <1>1, <1>2, OneStep
<1> QED
  BY <1>3 DEF s

LEMMA ElseSteps ==
    StepsOK(<<Step("jump", <<Dud>>), Meta("meta_mark_if_else_alt"), Step("nop", <<>>)>>)
<1> DEFINE r == Step("jump", <<Dud>>)
<1> DEFINE s == Meta("meta_mark_if_else_alt")
<1> DEFINE u == Step("nop", <<>>)
<1>1. Written(r)
  BY WrittenOne DEF Dud, StepOps, CallOps
<1>2. Written(s) /\ Written(u)
  BY WrittenNone DEF Meta, Metas, OfIf
<1>3. r.op = "jump" /\ s.op = "meta_mark_if_else_alt" /\ u.op = "nop" /\ u.args = <<>>
  BY DEF Step, Meta
<1> HIDE DEF r, s, u
<1>4. Placed(<<r, s, u>>, 1) /\ Placed(<<r, s, u>>, 2) /\ Placed(<<r, s, u>>, 3)
  BY <1>3 DEF Placed, Checks, JumpMarks, EndOps, NopAfter, PassesArguments, CallOps, IsNop
<1>5. StepsOK(<<r, s, u>>)
  BY <1>1, <1>2, <1>4, ThreeSteps
<1> QED
  BY <1>5 DEF r, s, u

-----------------------------------------------------------------------------
(* What an operation on a graph does to its blocks. *)

SameLinks(bb, old) == bb.truthy_id = old.truthy_id /\ bb.falsy_id = old.falsy_id

LEMMA AddShape ==
    ASSUME NEW cfg, GraphOK(cfg), NEW steps
    PROVE  LET new == Add(cfg, steps)
           IN /\ GraphOK(new) /\ Len(new) = Len(cfg) /\ Len(cfg) \in Nat /\ Len(cfg) > 0
              /\ \A b \in 1..Len(cfg) : SameLinks(new[b], cfg[b])
              /\ \A b \in 1..Len(cfg) : b # Len(cfg) => new[b] = cfg[b]
              /\ new[Len(cfg)].steps = cfg[Len(cfg)].steps \o steps
<1> DEFINE n == Len(cfg)
<1> DEFINE bb == [cfg[n] EXCEPT !.steps = @ \o steps]
<1>1. n \in 1..n /\ n \in Nat /\ n > 0 /\ IsSeq(cfg)
  BY SeqLength DEF GraphOK
<1>2. BlockOK(cfg[n], cfg)
  BY <1>1 DEF GraphOK
<1>3. bb.steps = cfg[n].steps \o steps /\ SameLinks(bb, cfg[n])
  BY <1>2 DEF BlockOK, Fields, SameLinks
<1>4. Add(cfg, steps) = [cfg EXCEPT ![n] = bb]
  BY DEF Add
<1> HIDE DEF bb
<1>5. \A i \in 1..n : [cfg EXCEPT ![n] = bb][i] = IF i = n THEN bb ELSE cfg[i]
  BY <1>1, SeqExcept
<1>6. GraphOK(Add(cfg, steps)) /\ Len(Add(cfg, steps)) = n
  BY AddKeeps
<1>7. \A b \in 1..n : SameLinks(Add(cfg, steps)[b], cfg[b])
  BY <1>3, <1>4, <1>5 DEF SameLinks
<1> QED
  BY <1>1, <1>3, <1>4, <1>5, <1>6, <1>7

LEMMA BlockShape ==
    ASSUME NEW cfg, GraphOK(cfg)
    PROVE  LET new == add_bb(cfg)
           IN /\ GraphOK(new) /\ Len(new) = Len(cfg) + 1 /\ Len(cfg) \in Nat /\ Len(cfg) > 0
              /\ \A b \in 1..Len(cfg) : new[b] = cfg[b]
              /\ new[Len(cfg) + 1] = EmptyBlock
<1>1. Len(cfg) \in Nat /\ Len(cfg) > 0 /\ IsSeq(cfg)
  BY SeqLength DEF GraphOK
<1>2. GraphOK(add_bb(cfg)) /\ Len(add_bb(cfg)) = Len(cfg) + 1
  BY BlockAdded
<1> DEFINE new == Append(cfg, EmptyBlock)
<1>3. /\ Len(new) = Len(cfg) + 1 /\ new[Len(new)] = EmptyBlock
      /\ \A i \in 1..Len(cfg) : new[i] = cfg[i]
  BY <1>1, SeqAppend
<1>4. new[Len(cfg) + 1] = EmptyBlock
  BY <1>3
<1> QED
  BY <1>1, <1>2, <1>3, <1>4 DEF add_bb

\* A target of a block after a link is made is one it had, or that of the link.
LEMMA LinkShape ==
    ASSUME NEW cfg, GraphOK(cfg), NEW link \in Links(cfg) \X Links(cfg), link[1] # NoBlock
    PROVE  LET new == link_bb(cfg, link)
           IN /\ GraphOK(new) /\ Len(new) = Len(cfg) /\ Len(cfg) \in Nat
              /\ \A b \in 1..Len(cfg) :
                    /\ new[b].steps = cfg[b].steps
                    /\ \A t \in Targets(new[b]) :
                          t \in Targets(cfg[b]) \/ (b = link[1] + 1 /\ t = link[2])
<1> DEFINE n == link[1] + 1
<1> DEFINE bb == cfg[n]
<1>1. Len(cfg) \in Nat /\ IsSeq(cfg)
  BY SeqLength DEF GraphOK
<1>2. n \in 1..Len(cfg)
  BY <1>1 DEF Links, BlocksOf
<1>3. BlockOK(bb, cfg)
  BY <1>2 DEF GraphOK
<1>4. \A new : \A i \in 1..Len(cfg) : [cfg EXCEPT ![n] = new][i] = IF i = n THEN new ELSE cfg[i]
  BY <1>1, <1>2, SeqExcept
<1>5. GraphOK(link_bb(cfg, link)) /\ Len(link_bb(cfg, link)) = Len(cfg)
  BY LinkKeeps
<1>6. ASSUME NEW b \in 1..Len(cfg)
      PROVE  /\ link_bb(cfg, link)[b].steps = cfg[b].steps
             /\ \A t \in Targets(link_bb(cfg, link)[b]) :
                   t \in Targets(cfg[b]) \/ (b = n /\ t = link[2])
  <2>1. CASE bb.truthy_id = NoBlock
    <3> DEFINE new == [bb EXCEPT !.truthy_id = link[2]]
    <3>1. new.steps = bb.steps /\ new.truthy_id = link[2] /\ new.falsy_id = bb.falsy_id
      BY <1>3 DEF BlockOK, Fields
    <3>2. link_bb(cfg, link) = [cfg EXCEPT ![n] = new]
      BY <2>1 DEF link_bb
    <3> HIDE DEF new
    <3>3. link_bb(cfg, link)[b] = IF b = n THEN new ELSE cfg[b]
      BY <3>2, <1>4
    <3> QED
      BY <3>1, <3>3 DEF Targets
  <2>2. CASE bb.truthy_id # NoBlock /\ bb.falsy_id = NoBlock
    <3> DEFINE new == [bb EXCEPT !.falsy_id = link[2]]
    <3>1. new.steps = bb.steps /\ new.falsy_id = link[2] /\ new.truthy_id = bb.truthy_id
      BY <1>3 DEF BlockOK, Fields
    <3>2. link_bb(cfg, link) = [cfg EXCEPT ![n] = new]
      BY <2>2 DEF link_bb
    <3> HIDE DEF new
    <3>3. link_bb(cfg, link)[b] = IF b = n THEN new ELSE cfg[b]
      BY <3>2, <1>4
    <3> QED
      BY <3>1, <3>3 DEF Targets
  <2>3. CASE bb.truthy_id # NoBlock /\ bb.falsy_id # NoBlock
    <3>1. link_bb(cfg, link) = cfg
      BY <2>3 DEF link_bb
    <3> QED
      BY <3>1
  <2> QED
    BY <2>1, <2>2, <2>3
<1> QED
  BY <1>1, <1>5, <1>6

LEMMA BecomesShape ==
    ASSUME Graphs, m_result_cfgs # <<>>, NEW cfg, Becomes(cfg)
    PROVE  LET n == Len(m_result_cfgs)
           IN /\ n \in Nat /\ n \in 1..n /\ Len(m_result_cfgs') = n
              /\ wip = m_result_cfgs[n] /\ wip' = cfg
              /\ \A f \in 1..n : m_result_cfgs'[f] = IF f = n THEN cfg ELSE m_result_cfgs[f]
<1> DEFINE n == Len(m_result_cfgs)
<1>1. n \in Nat /\ n \in 1..n /\ IsSeq(m_result_cfgs)
  BY SeqLength DEF Graphs
<1> DEFINE t == [m_result_cfgs EXCEPT ![n] = cfg]
<1>2. /\ IsSeq(t) /\ Len(t) = n /\ t # <<>>
      /\ \A i \in 1..n : t[i] = IF i = n THEN cfg ELSE m_result_cfgs[i]
  BY <1>1, SeqExcept
<1>3. m_result_cfgs' = t
  BY DEF Becomes
<1> HIDE DEF t
<1>4. wip' = cfg
  BY <1>1, <1>2, <1>3 DEF wip
<1> QED
  BY <1>1, <1>2, <1>3, <1>4 DEF wip

SoundGraph(cfg) == \A b \in 1..Len(cfg) : StepsOK(cfg[b].steps)
Sound == \A f \in 1..Len(m_result_cfgs) : SoundGraph(m_result_cfgs[f])

LEMMA AddSound ==
    ASSUME NEW cfg, GraphOK(cfg), SoundGraph(cfg), NEW steps,
           StepsOK(cfg[Len(cfg)].steps \o steps)
    PROVE  SoundGraph(Add(cfg, steps))
<1> DEFINE new == Add(cfg, steps)
<1>1. /\ Len(new) = Len(cfg)
      /\ \A b \in 1..Len(cfg) : b # Len(cfg) => new[b] = cfg[b]
      /\ new[Len(cfg)].steps = cfg[Len(cfg)].steps \o steps
  BY AddShape
<1> HIDE DEF new
<1>2. ASSUME NEW b \in 1..Len(new) PROVE StepsOK(new[b].steps)
  <2>1. CASE b = Len(cfg)
    BY <2>1, <1>1
  <2>2. CASE b # Len(cfg)
    BY <2>2, <1>1 DEF SoundGraph
  <2> QED
    BY <2>1, <2>2
<1>3. SoundGraph(new)
  BY <1>2 DEF SoundGraph
<1> QED
  BY <1>3 DEF new

LEMMA AddedSound ==
    ASSUME NEW cfg, GraphOK(cfg), SoundGraph(cfg), NEW steps, StepsOK(steps)
    PROVE  SoundGraph(Add(cfg, steps))
<1>1. Len(cfg) \in 1..Len(cfg)
  BY SeqLength DEF GraphOK
<1>2. StepsOK(cfg[Len(cfg)].steps)
  BY <1>1 DEF SoundGraph
<1>3. StepsOK(cfg[Len(cfg)].steps \o steps)
  BY <1>2, StepsJoined
<1> QED
  BY <1>3, AddSound

LEMMA BlockSound ==
    ASSUME NEW cfg, GraphOK(cfg), SoundGraph(cfg)
    PROVE  SoundGraph(add_bb(cfg))
<1> DEFINE new == add_bb(cfg)
<1>1. /\ Len(new) = Len(cfg) + 1 /\ Len(cfg) \in Nat
      /\ \A b \in 1..Len(cfg) : new[b] = cfg[b]
      /\ new[Len(cfg) + 1] = EmptyBlock
  BY BlockShape
<1> HIDE DEF new
<1>2. ASSUME NEW b \in 1..Len(new) PROVE StepsOK(new[b].steps)
  <2>1. CASE b = Len(cfg) + 1
    <3>1. new[b].steps = <<>>
      BY <2>1, <1>1 DEF EmptyBlock
    <3> QED
      BY <3>1, NoStepsOK
  <2>2. CASE b # Len(cfg) + 1
    BY <2>2, <1>1 DEF SoundGraph
  <2> QED
    BY <2>1, <2>2
<1>3. SoundGraph(new)
  BY <1>2 DEF SoundGraph
<1> QED
  BY <1>3 DEF new

LEMMA LinkSound ==
    ASSUME NEW cfg, GraphOK(cfg), SoundGraph(cfg),
           NEW link \in Links(cfg) \X Links(cfg), link[1] # NoBlock
    PROVE  SoundGraph(link_bb(cfg, link))
<1> DEFINE new == link_bb(cfg, link)
<1>1. Len(new) = Len(cfg) /\ \A b \in 1..Len(cfg) : new[b].steps = cfg[b].steps
  BY LinkShape
<1> HIDE DEF new
<1>2. SoundGraph(new)
  BY <1>1 DEF SoundGraph
<1> QED
  BY <1>2 DEF new

LEMMA BecomesSound ==
    ASSUME Graphs, m_result_cfgs # <<>>, Sound, NEW cfg, Becomes(cfg), SoundGraph(cfg)
    PROVE  Sound'
<1>1. LET n == Len(m_result_cfgs)
      IN /\ Len(m_result_cfgs') = n
         /\ \A f \in 1..n : m_result_cfgs'[f] = IF f = n THEN cfg ELSE m_result_cfgs[f]
  BY BecomesShape
<1> QED
  BY <1>1 DEF Sound

LEMMA WipSound ==
    ASSUME Graphs, m_result_cfgs # <<>>, Sound
    PROVE  GraphOK(wip) /\ SoundGraph(wip)
<1>1. Len(m_result_cfgs) \in 1..Len(m_result_cfgs)
  BY SeqLength DEF Graphs
<1> QED
  BY <1>1, Newest DEF wip, Sound

LEMMA EmitsSound ==
    ASSUME Graphs, m_result_cfgs # <<>>, Sound, NEW steps, StepsOK(steps), Emits(steps)
    PROVE  Sound'
BY WipSound, AddedSound, BecomesSound DEF Emits

-----------------------------------------------------------------------------
(* The stack of the C++ functions in progress: what was entered later has   *)
(* its values above, and a statement is in statements only.                 *)

Conds == {"if", "while"}
Bodies == {"then", "else", "do"}

Based == \A k \in 1..Len(activations) :
    /\ activations[k].base <= Len(values)
    /\ \A j \in 1..k : activations[j].base <= activations[k].base
Layered == \A k \in 1..Len(activations) : activations[k].kind \in Statements \cup Conds =>
    \A j \in 1..(k - 1) : activations[j].kind \in Statements

\* The stack that is left, or has been entered, or is turned on top.
LEMMA StackShape ==
    ASSUME activations \in Seq(Activation), activations # <<>>, NEW a
    PROVE  /\ Len(activations) \in Nat /\ Len(activations) >= 1
           /\ Enter(a) => /\ Len(activations') = Len(activations) + 1
                          /\ activations'[Len(activations) + 1] = a /\ activations' # <<>>
                          /\ \A k \in 1..Len(activations) : activations'[k] = activations[k]
           /\ Turn(a) => /\ Len(activations') = Len(activations)
                         /\ activations'[Len(activations)] = a /\ activations' # <<>>
                         /\ \A k \in 1..(Len(activations) - 1) : activations'[k] = activations[k]
           /\ Leave => /\ Len(activations') = Len(activations) - 1
                       /\ \A k \in 1..(Len(activations) - 1) : activations'[k] = activations[k]
<1> DEFINE n == Len(activations)
<1>1. n \in Nat /\ n >= 1
  BY LenProperties, EmptySeq
<1>2. IsSeq(activations) /\ n \in 1..n
  BY <1>1 DEF IsSeq
<1>3. ASSUME Enter(a)
      PROVE  /\ Len(activations') = n + 1 /\ activations'[n + 1] = a /\ activations' # <<>>
             /\ \A k \in 1..n : activations'[k] = activations[k]
  <2> DEFINE t == Append(activations, a)
  <2>1. /\ IsSeq(t) /\ Len(t) = n + 1 /\ t # <<>> /\ t[Len(t)] = a
        /\ \A i \in 1..n : t[i] = activations[i]
    BY <1>2, SeqAppend
  <2>2. activations' = t
    BY <1>3 DEF Enter
  <2> HIDE DEF t
  <2> QED
    BY <2>1, <2>2
<1>4. ASSUME Turn(a)
      PROVE  /\ Len(activations') = n /\ activations'[n] = a /\ activations' # <<>>
             /\ \A k \in 1..(n - 1) : activations'[k] = activations[k]
  <2> DEFINE t == [activations EXCEPT ![n] = a]
  <2>1. IsSeq(t) /\ Len(t) = n /\ t # <<>> /\ \A i \in 1..n : t[i] = IF i = n THEN a ELSE activations[i]
    BY <1>2, SeqExcept
  <2>2. activations' = t
    BY <1>4 DEF Turn
  <2> HIDE DEF t
  <2>3. \A k \in 1..(n - 1) : k \in 1..n /\ k # n
    BY <1>1
  <2> QED
    BY <1>2, <2>1, <2>2, <2>3
<1>5. ASSUME Leave
      PROVE  /\ Len(activations') = n - 1
             /\ \A k \in 1..(n - 1) : activations'[k] = activations[k]
  <2>1. n - 1 \in Nat /\ n - 1 <= n
    BY <1>1
  <2> QED
    BY <1>5, <2>1, SeqShorter DEF Leave
<1> QED
  BY <1>1, <1>3, <1>4, <1>5

\* The stack that is unwound to place n, and holds a there.
LEMMA UnwoundShape ==
    ASSUME activations \in Seq(Activation), NEW n \in 1..Len(activations), NEW a,
           activations' = Append(SubSeq(activations, 1, n - 1), a)
    PROVE  /\ Len(activations') = n /\ activations'[n] = a /\ activations' # <<>>
           /\ \A k \in 1..(n - 1) : activations'[k] = activations[k]
<1> DEFINE below == SubSeq(activations, 1, n - 1)
<1>1. Len(activations) \in Nat
  BY LenProperties
<1>2. n - 1 \in Nat /\ n - 1 <= Len(activations)
  BY <1>1
<1>3. below \in Seq(Activation) /\ Len(below) = n - 1 /\ \A i \in 1..(n - 1) : below[i] = activations[i]
  BY <1>2, SeqShorter
<1>4. activations' = Append(below, a)
  OBVIOUS
<1>5. IsSeq(below)
  BY <1>3 DEF IsSeq
<1> HIDE DEF below
<1> DEFINE t == Append(below, a)
<1>6. IsSeq(t) /\ Len(t) = Len(below) + 1 /\ t # <<>> /\ t[Len(t)] = a /\ \A i \in 1..Len(below) : t[i] = below[i]
  BY <1>5, SeqAppend
<1>7. Len(below) + 1 = n
  BY <1>2, <1>3
<1> QED
  BY <1>3, <1>4, <1>6, <1>7

\* What a step does to the stack: all but the top stays, the top may turn into another
\* statement, or be left, and a new one is entered over the values there are.
Statement(kind) == kind \in Statements \cup Conds
Stacked ==
    /\ Len(activations') \in Nat /\ Len(activations') <= Len(activations) + 1
    /\ \A k \in 1..Len(activations') : k <= Len(activations) =>
          /\ activations'[k].base = activations[k].base
          /\ \/ activations'[k].kind = activations[k].kind
             \/ k = Len(activations') /\ Statement(activations[k].kind)
    /\ \A k \in 1..Len(activations') : k > Len(activations) =>
          /\ activations'[k].base \in Nat
          /\ top.base <= activations'[k].base /\ activations'[k].base <= Len(values')
          /\ Statement(activations'[k].kind) => top.kind \in Statements

LEMMA NatChain == \A x, y, z \in Nat : x <= y /\ y <= z => x <= z
OBVIOUS

LEMMA Bases ==
    ASSUME activations \in Seq(Activation), NEW k \in 1..Len(activations)
    PROVE  activations[k].base \in Nat
<1>1. activations[k] \in Activation
  BY ElementOfSeq
<1> QED
  BY <1>1 DEF Activation

LEMMA StackedKeeps ==
    ASSUME Inv, activations # <<>>, Based, Layered, Stacked,
           NEW n \in 0..got, Len(values') \in Nat, Len(values') >= Len(values) - n
    PROVE  Based' /\ Layered'
<1> DEFINE l == Len(activations)
<1>1. /\ activations \in Seq(Activation) /\ l \in Nat /\ l >= 1 /\ l \in 1..l
      /\ top.base \in Nat /\ Len(values) \in Nat
  BY Running DEF Inv, Stack
<1>2. Len(activations') \in Nat /\ Len(activations') <= l + 1
  BY DEF Stacked
<1>8. \A k \in 1..Len(activations') : k <= l =>
         /\ activations'[k].base = activations[k].base
         /\ \/ activations'[k].kind = activations[k].kind
            \/ k = Len(activations') /\ Statement(activations[k].kind)
  BY DEF Stacked
<1>9. \A k \in 1..Len(activations') : k > l =>
         /\ activations'[k].base \in Nat
         /\ top.base <= activations'[k].base /\ activations'[k].base <= Len(values')
         /\ Statement(activations'[k].kind) => top.kind \in Statements
  BY DEF Stacked
<1>3. \A k \in 1..l : activations[k].base \in Nat
  BY <1>1, Bases
<1>4. \A k \in 1..l : activations[k].base <= top.base
  <2>1. \A j \in 1..l : activations[j].base <= activations[l].base
    BY <1>1 DEF Based
  <2> QED
    BY <2>1 DEF top
<1>5. top.base <= Len(values')
  <2>1. n \in Nat /\ n <= Len(values) - top.base
    BY <1>1 DEF got
  <2> QED
    BY <1>1, <2>1
<1>6. ASSUME NEW k \in 1..Len(activations')
      PROVE  /\ activations'[k].base <= Len(values')
             /\ \A j \in 1..k : activations'[j].base <= activations'[k].base
  <2>1. CASE k <= l
    <3>1. k \in 1..l /\ activations'[k].base = activations[k].base
      BY <2>1, <1>8, <1>1, <1>2
    <3>2. activations'[k].base <= Len(values')
      <4>1. activations[k].base <= top.base /\ activations[k].base \in Nat
        BY <3>1, <1>3, <1>4
      <4>2. Len(values') \in Nat /\ top.base <= Len(values') /\ top.base \in Nat
        BY <1>1, <1>5
      <4>3. activations[k].base <= Len(values')
        BY <4>1, <4>2
      <4> QED
        BY <3>1, <4>3
    <3>3. ASSUME NEW j \in 1..k PROVE activations'[j].base <= activations'[k].base
      <4>1. j \in 1..Len(activations') /\ j <= l
        BY <1>1, <1>2, <2>1
      <4>2. activations'[j].base = activations[j].base
        BY <4>1, <1>8
      <4>3. activations[j].base <= activations[k].base
        BY <3>1 DEF Based
      <4> QED
        BY <3>1, <4>2, <4>3
    <3> QED
      BY <3>2, <3>3
  <2>2. CASE ~ (k <= l)
    <3>1. /\ k = l + 1 /\ activations'[k].base \in Nat
          /\ top.base <= activations'[k].base /\ activations'[k].base <= Len(values')
      <4>1. k > l /\ k = l + 1
        BY <2>2, <1>1, <1>2
      <4> QED
        BY <4>1, <1>9
    <3>2. k = Len(activations')
      BY <3>1, <1>1, <1>2
    <3>3. ASSUME NEW j \in 1..k PROVE activations'[j].base <= activations'[k].base
      <4>1. CASE j = k
        <5>1. activations'[k].base <= activations'[k].base
          BY <3>1
        <5> QED
          BY <4>1, <5>1
      <4>2. CASE j # k
        <5>1. j \in 1..l /\ j \in 1..Len(activations') /\ j <= l
          BY <4>2, <3>1, <3>2, <1>1
        <5>2. activations'[j].base = activations[j].base /\ activations[j].base <= top.base
          BY <5>1, <1>8, <1>4
        <5>3. activations[j].base \in Nat
          BY <5>1, <1>3
        <5>4. /\ activations[j].base <= top.base /\ top.base <= activations'[k].base
              /\ activations'[k].base \in Nat /\ top.base \in Nat
          BY <5>2, <3>1, <1>1
        <5>5. activations[j].base <= activations'[k].base
          BY <5>3, <5>4, NatChain, Zenon
        <5> QED
          BY <5>2, <5>5
      <4> QED
        BY <4>1, <4>2
    <3> QED
      BY <3>1, <3>3
  <2> QED
    BY <2>1, <2>2
<1>7. ASSUME NEW k \in 1..Len(activations'), Statement(activations'[k].kind), NEW j \in 1..(k - 1)
      PROVE  activations'[j].kind \in Statements
  <2>0. Len(activations') \in Nat /\ Len(activations') <= l + 1 /\ l \in Nat
    BY <1>1, <1>2
  <2>1. j \in 1..Len(activations') /\ j <= l /\ j \in 1..l /\ j # Len(activations') /\ j < k
    BY <2>0
  <2>2. activations'[j].kind = activations[j].kind
    BY <2>1, <1>8
  <2>3. CASE k <= l
    <3>1. Statement(activations[k].kind) /\ k \in 1..l
      <4>1. k \in 1..l
        BY <2>3, <1>1, <1>2
      <4> QED
        BY <4>1, <2>3, <1>7, <1>8
    <3>2. activations[j].kind \in Statements
      BY <3>1, <2>1 DEF Layered, Statement
    <3> QED
      BY <2>2, <3>2
  <2>4. CASE ~ (k <= l)
    <3>1. top.kind \in Statements
      <4>1. k > l
        BY <2>4, <1>1, <1>2
      <4> QED
        BY <4>1, <1>7, <1>9
    <3>2. CASE j = l
      BY <3>1, <3>2, <2>2 DEF top
    <3>3. CASE j # l
      <4>1. j \in 1..(l - 1)
        BY <3>3, <2>1, <1>1
      <4>2. activations[l].kind \in Statements
        BY <3>1 DEF top
      <4>3. activations[j].kind \in Statements
        BY <4>1, <4>2, <1>1 DEF Layered
      <4> QED
        BY <4>3, <2>2
    <3> QED
      BY <3>2, <3>3
  <2> QED
    BY <2>3, <2>4
<1> QED
  BY <1>6, <1>7 DEF Based, Layered, Statement

-----------------------------------------------------------------------------
(* A call in progress that has got all its arguments follows the move of    *)
(* the last of them.                                                        *)

\* The source is read event by event, one function for each graph.
Reading == ahead \in Seq(Event) /\ Len(m_result_cfgs) <= Len(source)

Ready ==
    activations # <<>> /\ top.kind = "call" /\ top.argc > 0 /\ got = 0 =>
       LET steps == wip[Len(wip)].steps
       IN steps # <<>> /\ MovesAbove(steps[Len(steps)], top.argc)

Prepares == Reading /\ Sound /\ Based /\ Layered /\ Ready

LEMMA Functions ==
    ASSUME Inv, Reading, m_result_cfgs # <<>>
    PROVE  running \in Function
<1>1. Len(m_result_cfgs) \in Nat /\ Len(m_result_cfgs) >= 1 /\ Len(m_result_cfgs) <= Len(source)
  BY SeqLength DEF Inv, Graphs, Reading
<1>2. source \in Seq(Function) /\ Len(m_result_cfgs) \in 1..Len(source)
  BY <1>1, LenProperties DEF Inv, Names
<1> QED
  BY <1>2, ElementOfSeq DEF running

LEMMA PartsEvents ==
    ASSUME Inv, Reading, activations # <<>>
    PROVE  \A part \in Parts : part \in Seq(Event) /\ Head(part) \in Event /\ Tail(part) \in Seq(Event)
<1>1. running \in Function
  BY Functions, Running
<1>2. ASSUME NEW part \in Parts PROVE part \in Seq(Event) /\ part # <<>>
  <2>1. part \in running.parts
    BY DEF Parts
  <2>2. running.parts \subseteq Seq(Event) \ {<<>>}
    BY <1>1 DEF Function
  <2> QED
    BY <2>1, <2>2
<1> QED
  BY <1>2, HeadTailProperties

LEMMA OfferedEvents ==
    ASSUME Inv, Reading, activations # <<>>, NEW e \in Offered, e[1] = "binary"
    PROVE  e[2] \in BinaryOps
<1>1. e \in Event => e[2] \in BinaryOps
  BY DEF Event
<1>2. CASE ahead # <<>>
  <2>1. e \in Event
    BY <1>2, HeadTailProperties DEF Offered, Reading
  <2> QED
    BY <2>1, <1>1
<1>3. CASE ahead = <<>> /\ e = End
  <2>1. \A x : <<"end", x>>[1] # "binary"
    OBVIOUS
  <2>2. End[1] # "binary"
    BY <2>1, Zenon DEF End
  <2> QED
    BY <2>2, <1>3
<1>4. CASE ahead = <<>> /\ e # End
  <2>1. PICK part \in Parts : e = Head(part)
    BY <1>4 DEF Offered
  <2> QED
    BY <2>1, <1>1, PartsEvents
<1> QED
  BY <1>2, <1>3, <1>4

LEMMA ReadingKept ==
    ASSUME Inv, Reading, activations # <<>>, NEW e, Passes(e),
           Len(m_result_cfgs') = Len(m_result_cfgs)
    PROVE  Reading'
<1>1. source' = source
  BY DEF Passes
<1>2. ahead' \in Seq(Event)
  <2>1. CASE ahead # <<>> /\ ahead' = Tail(ahead)
    BY <2>1, HeadTailProperties DEF Reading
  <2>2. CASE ahead' = ahead
    BY <2>2 DEF Reading
  <2>3. CASE \E part \in Parts : ahead' = Tail(part)
    BY <2>3, PartsEvents
  <2> QED
    BY <2>1, <2>2, <2>3 DEF Passes
<1> QED
  BY <1>1, <1>2 DEF Reading

\* Where the call on top has got something, or another is on top, nothing is to be seen to.
LEMMA Waiting ==
    ASSUME activations' # <<>> => top'.kind # "call" \/ got' # 0
    PROVE  Ready'
BY DEF Ready

LEMMA SoundSame ==
    ASSUME Sound, UNCHANGED m_result_cfgs PROVE Sound'
BY DEF Sound

LEMMA PreparesKept ==
    ASSUME Inv, Prepares, activations # <<>>, NEW e, Passes(e), Sound', Ready', Stacked,
           Len(m_result_cfgs') = Len(m_result_cfgs),
           NEW n \in 0..got, Len(values') \in Nat, Len(values') >= Len(values) - n
    PROVE  Prepares'
BY ReadingKept, StackedKeeps DEF Prepares

\* A stack that stays, that is entered, turned or left.
LEMMA StackedSame ==
    ASSUME Inv, activations # <<>>, UNCHANGED activations PROVE Stacked
<1>1. Len(activations) \in Nat
  BY Running
<1> QED
  BY <1>1 DEF Stacked

LEMMA StackedEntered ==
    ASSUME Inv, activations # <<>>, NEW a, Enter(a), a.base \in Nat, top.base <= a.base,
           a.base <= Len(values'), Statement(a.kind) => top.kind \in Statements
    PROVE  Stacked
<1>1. /\ Len(activations) \in Nat /\ Len(activations') = Len(activations) + 1
      /\ activations'[Len(activations) + 1] = a
      /\ \A k \in 1..Len(activations) : activations'[k] = activations[k]
  BY StackShape DEF Inv, Stack
<1>2. \A k \in 1..Len(activations') : IF k <= Len(activations) THEN k \in 1..Len(activations) ELSE k = Len(activations) + 1
  BY <1>1
<1> QED
  BY <1>1, <1>2 DEF Stacked

LEMMA StackedTurned ==
    ASSUME Inv, activations # <<>>, NEW a, Turn(a), a.base = top.base,
           a.kind = top.kind \/ Statement(top.kind)
    PROVE  Stacked
<1> DEFINE l == Len(activations)
<1>1. /\ l \in Nat /\ Len(activations') = l
      /\ activations'[l] = a
      /\ \A k \in 1..(l - 1) : activations'[k] = activations[k]
  BY StackShape DEF Inv, Stack
<1>2. \A k \in 1..l : k <= l /\ (k \in 1..(l - 1) \/ k = l)
  BY <1>1
<1>3. activations[l] = top
  BY DEF top
<1>4. ASSUME NEW k \in 1..l
      PROVE  /\ activations'[k].base = activations[k].base
             /\ \/ activations'[k].kind = activations[k].kind
                \/ k = Len(activations') /\ Statement(activations[k].kind)
  BY <1>1, <1>2, <1>3
<1>5. \A k \in 1..Len(activations') : ~ (k > l)
  BY <1>1
<1> QED
  BY <1>1, <1>4, <1>5 DEF Stacked

LEMMA StackedLeft ==
    ASSUME Inv, activations # <<>>, Leave PROVE Stacked
<1> DEFINE l == Len(activations)
<1>1. /\ l \in Nat /\ l >= 1 /\ Len(activations') = l - 1
      /\ \A k \in 1..(l - 1) : activations'[k] = activations[k]
  BY StackShape DEF Inv, Stack
<1>2. Len(activations') \in Nat /\ Len(activations') <= l + 1
  BY <1>1
<1>3. \A k \in 1..Len(activations') : ~ (k > l)
  BY <1>1
<1> QED
  BY <1>1, <1>2, <1>3 DEF Stacked

\* What is on top when the top is left.
LEMMA LeftTop ==
    ASSUME Inv, Based, Layered, activations # <<>>, Leave, top.kind # "function"
    PROVE  /\ activations' # <<>> /\ top'.base \in Nat /\ top'.base <= top.base
           /\ top'.base <= Len(values)
           /\ Statement(top.kind) => top'.kind \in Statements
<1> DEFINE l == Len(activations)
<1>1. /\ l \in Nat /\ l > 1 /\ Len(activations') = l - 1 /\ top.base \in Nat
      /\ \A k \in 1..(l - 1) : activations'[k] = activations[k]
  BY StackShape, Running DEF Inv, Stack
<1>2. activations' # <<>>
  <2>1. Len(activations') > 0
    BY <1>1
  <2> QED
    BY <2>1, EmptySeq
<1>3. l - 1 \in 1..(l - 1) /\ l - 1 \in 1..l /\ l \in 1..l
  BY <1>1
<1>4. top' = activations[l - 1]
  BY <1>1, <1>3 DEF top
<1>5. /\ activations[l - 1].base <= activations[l].base
      /\ activations[l - 1].base <= Len(values)
      /\ Statement(activations[l].kind) => activations[l - 1].kind \in Statements
  BY <1>3 DEF Based, Layered, Statement
<1>6. activations[l - 1].base \in Nat
  BY <1>3, Bases DEF Inv, Stack
<1> QED
  BY <1>1, <1>2, <1>4, <1>5, <1>6 DEF top

\* Values and their numbers.
LEMMA Numbered ==
    ASSUME Inv PROVE /\ \A v \in Valued : v[2] \in Nat
                     /\ m_next_local_aa \in Nat /\ Temp[2] \in Nat
<1>1. Len(source) \in Nat /\ Len(m_proto_consts) \in Nat /\ Len(Natives) \in Nat
      /\ m_next_local_aa \in Nat
  BY LenProperties, SeqLength, NativesCounted DEF Inv, Names
<1>2. \A v \in Globals : v[2] \in Nat
  BY <1>1 DEF Globals
<1>3. \A v \in Addresses : v[2] \in Nat
  BY <1>1, <1>2 DEF Addresses
<1>4. NoAddress[2] \in Nat
  BY DEF NoAddress
<1> QED
  BY <1>1, <1>3, <1>4 DEF Valued, Temp

\* Values are taken off the end, and given back.
LEMMA KeepLength ==
    ASSUME Inv, activations # <<>>, NEW n \in 0..got
    PROVE  /\ Len(Keep(n)) = Len(values) - n /\ Len(values) - n \in Nat
           /\ \A v : Len(Append(Keep(n), v)) = Len(values) - n + 1
           /\ \A v : Len(Append(values, v)) = Len(values) + 1
<1>1. /\ Len(values) \in Nat /\ top.base \in Nat /\ values \in Seq(Valued)
  BY Running DEF Inv, Stack, Valued
<1>2. n \in Nat /\ n <= Len(values)
  BY <1>1 DEF got
<1>3. Len(values) - n \in Nat /\ Len(values) - n <= Len(values)
  BY <1>1, <1>2
<1>4. Keep(n) \in Seq(Valued) /\ Len(Keep(n)) = Len(values) - n
  BY <1>1, <1>3, SeqShorter DEF Keep
<1>5. IsSeq(Keep(n)) /\ IsSeq(values)
  BY <1>1, <1>4 DEF IsSeq
<1>6. \A v : Len(Append(Keep(n), v)) = Len(Keep(n)) + 1
  BY <1>5, SeqAppend
<1>7. \A v : Len(Append(values, v)) = Len(values) + 1
  BY <1>5, SeqAppend
<1> QED
  BY <1>3, <1>4, <1>6, <1>7

-----------------------------------------------------------------------------
(* Every expression leaves it so. *)

LEMMA TopBased ==
    ASSUME Inv, Based, activations # <<>>
    PROVE  top.base \in Nat /\ top.base <= Len(values) /\ Len(values) \in Nat /\ got \in Nat
<1>1. Len(activations) \in 1..Len(activations) /\ top.base \in Nat /\ Len(values) \in Nat
  BY Running
<1>2. top.base <= Len(values)
  BY <1>1 DEF Based, top
<1> QED
  BY <1>1, <1>2 DEF got

LEMMA Gives ==
    ASSUME Inv, Based, activations # <<>>, NEW v, values' = Append(values, v)
    PROVE  /\ Len(values') = Len(values) + 1 /\ Len(values') \in Nat /\ 0 \in 0..got
           /\ Len(values') >= Len(values) - 0
           /\ UNCHANGED activations => got' # 0
<1>1. top.base \in Nat /\ top.base <= Len(values) /\ Len(values) \in Nat /\ got \in Nat
  BY TopBased
<1>2. 0 \in 0..got
  BY <1>1
<1>3. Len(values') = Len(values) + 1
  BY <1>2, KeepLength
<1>4. ASSUME UNCHANGED activations PROVE got' # 0
  <2>1. top'.base = top.base
    BY <1>4 DEF top
  <2>2. got' = Len(values') - top'.base
    BY DEF got
  <2> QED
    BY <1>1, <1>3, <2>1, <2>2
<1> QED
  BY <1>1, <1>2, <1>3, <1>4

\* An expression that emits nothing, and gives a value.
LEMMA PreparesValued ==
    ASSUME Inv, Prepares, activations # <<>>, NEW e, Passes(e), UNCHANGED <<activations, m_result_cfgs>>,
           NEW v, values' = Append(values, v)
    PROVE  Prepares'
<1>1. /\ Len(values') \in Nat /\ 0 \in 0..got /\ Len(values') >= Len(values) - 0 /\ got' # 0
  BY Gives DEF Prepares
<1>2. Sound' /\ Ready' /\ Stacked /\ Len(m_result_cfgs') = Len(m_result_cfgs)
  BY <1>1, SoundSame, Waiting, StackedSame DEF Prepares
<1> QED
  BY <1>1, <1>2, PreparesKept

\* What is emitted goes to the graph in progress.
LEMMA Emitting ==
    ASSUME Inv, Prepares, activations # <<>>, NEW steps, StepsOK(steps), Emits(steps)
    PROVE  Sound' /\ Len(m_result_cfgs') = Len(m_result_cfgs)
<1>1. Graphs /\ m_result_cfgs # <<>> /\ Sound
  BY Running DEF Inv, Prepares
<1>2. Sound'
  BY <1>1, EmitsSound
<1>3. Len(m_result_cfgs') = Len(m_result_cfgs)
  BY <1>1, BecomesShape DEF Emits
<1> QED
  BY <1>2, <1>3

LEMMA ValuePrepares ==
    ASSUME Inv, Prepares, emit_literal \/ emit_name \/ emit_lambda
    PROVE  Prepares'
<1>1. CASE emit_literal
  <2>1. PICK e : Reads(e) /\ \E v : values' = Append(values, v)
    BY <1>1 DEF emit_literal
  <2> QED
    BY <1>1, <2>1, PreparesValued DEF emit_literal, Reads
<1>2. CASE emit_name
  <2>1. PICK e : Reads(e) /\ values' = Append(values, lookup_name_aa(e[2]))
    BY <1>2 DEF emit_name
  <2> QED
    BY <1>2, <2>1, PreparesValued DEF emit_name, Reads
<1>3. CASE emit_lambda
  <2>1. PICK e : Passes(e)
    BY <1>3 DEF emit_lambda, SkipsRest
  <2> QED
    BY <1>3, <2>1, PreparesValued DEF emit_lambda
<1> QED
  BY <1>1, <1>2, <1>3

LEMMA StringPrepares == ASSUME Inv, Prepares, emit_string PROVE Prepares'
<1>1. /\ activations # <<>> /\ UNCHANGED activations /\ values' = Append(values, Temp)
      /\ Emits(<<Step("make_str", <<Temp, <<"heap", Len(m_proto_heap_objs)>>>>)>>)
  BY DEF emit_string
<1>2. PICK e : Passes(e)
  BY DEF emit_string, Reads
<1> DEFINE s == Step("make_str", <<Temp, <<"heap", Len(m_proto_heap_objs)>>>>)
<1>3. Written(s)
  BY Numbered, WrittenTwo DEF StepOps, CallOps
<1>4. s.op \notin Alone
  BY DEF Step, Alone, Checks, JumpMarks, EndOps, NopAfter, CallOps
<1>5. Emits(<<s>>)
  BY <1>1
<1> HIDE DEF s
<1>6. StepsOK(<<s>>)
  BY <1>3, <1>4, OneStep
<1>7. Sound' /\ Len(m_result_cfgs') = Len(m_result_cfgs)
  BY <1>1, <1>5, <1>6, Emitting
<1>8. /\ Len(values') \in Nat /\ 0 \in 0..got /\ Len(values') >= Len(values) - 0 /\ got' # 0
  BY <1>1, Gives DEF Prepares
<1>9. Ready' /\ Stacked
  BY <1>1, <1>8, Waiting, StackedSame
<1> QED
  BY <1>1, <1>2, <1>7, <1>8, <1>9, PreparesKept

LEMMA SequencePrepares == ASSUME Inv, Prepares, begin_sequence PROVE Prepares'
<1> DEFINE a == [kind |-> "sequence", base |-> Len(values), dest |-> Temp]
<1>1. /\ activations # <<>> /\ UNCHANGED values /\ Enter(a)
      /\ Emits(<<Step("make_seq", <<Temp>>)>>)
  BY DEF begin_sequence
<1>2. PICK e : Passes(e)
  BY DEF begin_sequence, Reads
<1> DEFINE s == Step("make_seq", <<Temp>>)
<1>3. Written(s)
  BY Numbered, WrittenOne DEF StepOps, CallOps
<1>4. s.op \notin Alone
  BY DEF Step, Alone, Checks, JumpMarks, EndOps, NopAfter, CallOps
<1>5. Emits(<<s>>)
  BY <1>1
<1> HIDE DEF s
<1>6. StepsOK(<<s>>)
  BY <1>3, <1>4, OneStep
<1>7. Sound' /\ Len(m_result_cfgs') = Len(m_result_cfgs)
  BY <1>1, <1>5, <1>6, Emitting
<1>8. Len(values) \in Nat /\ 0 \in 0..got /\ top.base <= Len(values) /\ Len(values) >= Len(values) - 0
  BY <1>1, TopBased DEF Prepares
<1>9. a.base = Len(values) /\ a.kind = "sequence"
  OBVIOUS
<1> HIDE DEF a
<1>10. ~ Statement(a.kind)
  BY <1>9 DEF Statement, Statements, Conds
<1>11. Stacked
  BY <1>1, <1>8, <1>9, <1>10, StackedEntered
<1>12. top' = a
  BY <1>1, StackShape DEF top, Inv, Stack
<1>13. Ready'
  BY <1>9, <1>12, Waiting
<1> QED
  BY <1>1, <1>2, <1>7, <1>8, <1>11, <1>13, PreparesKept

\* Values are taken.
LEMMA Takes ==
    ASSUME Inv, activations # <<>>, NEW n \in 0..got, values' = Keep(n)
    PROVE  Len(values') \in Nat /\ Len(values') >= Len(values) - n /\ Len(values') = Len(values) - n
<1>1. Len(Keep(n)) = Len(values) - n /\ Len(values) - n \in Nat
  BY KeepLength
<1> QED
  BY <1>1

LEMMA ItemPrepares == ASSUME Inv, Prepares, sequence_item PROVE Prepares'
<1>1. /\ activations # <<>> /\ UNCHANGED activations /\ values' = Keep(1) /\ got = 1
      /\ top.kind = "sequence"
      /\ Emits(<<Step("seq_obj_push", <<top.dest, value(1), <<"immediate", 1>>>>)>>)
  BY DEF sequence_item, Comes, In
<1>2. PICK e : Passes(e)
  BY DEF sequence_item, Reads
<1> DEFINE s == Step("seq_obj_push", <<top.dest, value(1), <<"immediate", 1>>>>)
<1>3. top.dest[2] \in Nat
  <2>1. top.dest \in Addresses
    BY <1>1, Running DEF Activation
  <2> QED
    BY <2>1, Numbered DEF Valued
<1>4. Written(s)
  BY <1>3, WrittenThree DEF StepOps, CallOps
<1>5. s.op \notin Alone
  BY DEF Step, Alone, Checks, JumpMarks, EndOps, NopAfter, CallOps
<1>6. Emits(<<s>>)
  BY <1>1
<1> HIDE DEF s
<1>7. StepsOK(<<s>>)
  BY <1>4, <1>5, OneStep
<1>8. Sound' /\ Len(m_result_cfgs') = Len(m_result_cfgs)
  BY <1>1, <1>6, <1>7, Emitting
<1>9. 1 \in 0..got /\ Len(values') \in Nat /\ Len(values') >= Len(values) - 1
  BY <1>1, Takes
<1>10. top' = top
  BY <1>1 DEF top
<1>11. Ready' /\ Stacked
  BY <1>1, <1>10, Waiting, StackedSame
<1> QED
  BY <1>1, <1>2, <1>8, <1>9, <1>11, PreparesKept

\* An expression with operands of its own gives its value to what it is in.
LEMMA GivesBelow ==
    ASSUME Inv, Prepares, activations # <<>>, top.kind # "function", Leave,
           NEW v, values' = Append(values, v)
    PROVE  Ready' /\ Stacked
<1>1. activations' # <<>> /\ top'.base \in Nat /\ top'.base <= Len(values)
  BY LeftTop DEF Prepares
<1>2. Len(values') = Len(values) + 1 /\ Len(values) \in Nat
  BY Gives, TopBased DEF Prepares
<1>3. got' # 0
  BY <1>1, <1>2 DEF got
<1> QED
  BY <1>3, Waiting, StackedLeft

LEMMA EndSequencePrepares == ASSUME Inv, Prepares, end_sequence PROVE Prepares'
<1>1. PICK e \in Offered :
          /\ top.kind = "sequence" /\ Passes(e)
          /\ Emits(IF Frozen(e) THEN <<Step("frz_seq_obj", <<top.dest>>)>> ELSE <<>>)
  BY DEF end_sequence, Reads, In
<1>2. activations # <<>> /\ Leave /\ values' = Append(values, top.dest)
  BY DEF end_sequence
<1> DEFINE s == Step("frz_seq_obj", <<top.dest>>)
<1>3. top.dest[2] \in Nat
  <2>1. top.dest \in Addresses
    BY <1>1, <1>2, Running DEF Activation
  <2> QED
    BY <2>1, Numbered DEF Valued
<1>4. Written(s)
  BY <1>3, WrittenOne DEF StepOps, CallOps
<1>5. s.op \notin Alone
  BY DEF Step, Alone, Checks, JumpMarks, EndOps, NopAfter, CallOps
<1>6. Emits(<<s>>) \/ Emits(<<>>)
  BY <1>1
<1> HIDE DEF s
<1>7. StepsOK(<<s>>) /\ StepsOK(<<>>)
  BY <1>4, <1>5, OneStep, NoStepsOK
<1>8. Sound' /\ Len(m_result_cfgs') = Len(m_result_cfgs)
  BY <1>2, <1>6, <1>7, Emitting
<1>9. Ready' /\ Stacked
  BY <1>1, <1>2, GivesBelow
<1>10. Len(values') \in Nat /\ 0 \in 0..got /\ Len(values') >= Len(values) - 0
  BY <1>2, Gives DEF Prepares
<1> QED
  BY <1>1, <1>2, <1>8, <1>9, <1>10, PreparesKept

LEMMA UnaryPrepares == ASSUME Inv, Prepares, emit_unary PROVE Prepares'
<1>1. /\ activations # <<>> /\ UNCHANGED <<activations, values>> /\ got > 0
      /\ Emits(IF Succeeds(got) THEN <<Step("neg", <<value(got), value(got)>>)>> ELSE <<>>)
  BY DEF emit_unary, NoLiteral
<1>2. PICK e : Passes(e)
  BY DEF emit_unary, Reads
<1> DEFINE s == Step("neg", <<value(got), value(got)>>)
<1>3. got \in Nat /\ Len(values) \in Nat /\ 0 \in 0..got /\ got \in 1..got
  BY <1>1, TopBased DEF Prepares
<1>4. value(got)[2] \in Nat
  BY <1>1, <1>3, Running, Numbered
<1>5. Written(s)
  BY <1>4, WrittenTwo DEF StepOps, CallOps
<1>6. s.op \notin Alone
  BY DEF Step, Alone, Checks, JumpMarks, EndOps, NopAfter, CallOps
<1>7. Emits(<<s>>) \/ Emits(<<>>)
  BY <1>1
<1> HIDE DEF s
<1>8. StepsOK(<<s>>) /\ StepsOK(<<>>)
  BY <1>5, <1>6, OneStep, NoStepsOK
<1>9. Sound' /\ Len(m_result_cfgs') = Len(m_result_cfgs)
  BY <1>1, <1>7, <1>8, Emitting
<1>10. got' = got
  BY <1>1 DEF got, top
<1>11. Ready' /\ Stacked
  <2>1. got' # 0
    BY <1>1, <1>3, <1>10
  <2> QED
    BY <1>1, <2>1, Waiting, StackedSame
<1>12. Len(values') \in Nat /\ Len(values') >= Len(values) - 0
  BY <1>1, <1>3
<1> QED
  BY <1>1, <1>2, <1>3, <1>9, <1>11, <1>12, PreparesKept

\* The arguments of a step, the first of which is v.
LEMMA WrittenOf ==
    ASSUME NEW op \in StepOps, op \notin {"jump", "jump_else"} \cup CallOps, NEW v, v[2] \in Nat,
           NEW more, IsSeq(more)
    PROVE  Written(Step(op, <<v>> \o more))
<1> DEFINE args == <<v>> \o more
<1>1. <<v>> \in Seq({v}) /\ Len(<<v>>) = 1 /\ <<v>>[1] = v
  OBVIOUS
<1>2. IsSeq(<<v>>)
  BY <1>1 DEF IsSeq
<1>3. /\ IsSeq(args) /\ Len(args) = 1 + Len(more) /\ args[1] = v
  BY <1>1, <1>2, SeqConcat
<1>4. args # <<>>
  <2>1. Len(more) \in Nat
    BY SeqLength
  <2>2. Len(args) # 0
    BY <1>3, <2>1
  <2> QED
    BY <2>2
<1> HIDE DEF args
<1>5. Written(Step(op, args))
  BY <1>3, <1>4, WrittenArgs
<1> QED
  BY <1>5 DEF args

LEMMA BinaryPrepares == ASSUME Inv, Prepares, emit_binary PROVE Prepares'
<1>1. activations # <<>> /\ UNCHANGED activations /\ got > 1
  BY DEF emit_binary
<1>2. PICK e \in Offered :
          /\ e[1] = "binary" /\ Passes(e)
          /\ \/ /\ Emits(<<Step(e[2], <<Temp>> \o Operands)>>)
                /\ values' = Append(Keep(2), Temp)
             \/ /\ values' = Append(Keep(2), NoAddress)
                /\ UNCHANGED m_result_cfgs
  BY DEF emit_binary, Reads
<1>3. e[2] \in BinaryOps
  BY <1>1, <1>2, OfferedEvents DEF Prepares
<1> DEFINE s == Step(e[2], <<Temp>> \o Operands)
<1>5. Written(s)
  <2>1. e[2] \in StepOps /\ e[2] \notin {"jump", "jump_else"} \cup CallOps
    BY <1>3 DEF BinaryOps, StepOps, CallOps
  <2> DEFINE a == value(got - 1)
             b == value(got)
  <2>2. <<a, b>> \in Seq({a, b})
    OBVIOUS
  <2>3. IsSeq(Operands)
    BY <2>2 DEF IsSeq, Operands
  <2> QED
    BY <2>1, <2>3, Numbered, WrittenOf
<1>6. s.op \notin Alone
  <2>1. e[2] \notin Alone
    BY <1>3 DEF BinaryOps, Alone, Checks, JumpMarks, EndOps, NopAfter, CallOps
  <2> QED
    BY <2>1 DEF Step
<1>7. Emits(<<s>>) \/ UNCHANGED m_result_cfgs
  BY <1>2
<1> HIDE DEF s
<1>8. StepsOK(<<s>>)
  BY <1>5, <1>6, OneStep
<1>9. Sound' /\ Len(m_result_cfgs') = Len(m_result_cfgs)
  BY <1>1, <1>7, <1>8, Emitting, SoundSame DEF Prepares
<1>10. /\ got \in Nat /\ Len(values) \in Nat /\ 2 \in 0..got /\ top.base \in Nat
       /\ top.base <= Len(values)
  BY <1>1, TopBased DEF Prepares
<1>11. Len(values') = Len(values) - 2 + 1 /\ Len(values) - 2 \in Nat
  BY <1>1, <1>2, <1>10, KeepLength
<1>12. got' # 0
  <2>1. top'.base = top.base
    BY <1>1 DEF top
  <2>2. got' = Len(values') - top'.base /\ got = Len(values) - top.base
    BY DEF got
  <2> QED
    BY <1>1, <1>10, <1>11, <2>1, <2>2
<1>13. Ready' /\ Stacked
  BY <1>1, <1>12, Waiting, StackedSame
<1>14. Len(values') \in Nat /\ Len(values') >= Len(values) - 2
  BY <1>11
<1> QED
  BY <1>1, <1>2, <1>9, <1>10, <1>13, <1>14, PreparesKept

-----------------------------------------------------------------------------
(* Calls, and what comes after their arguments. *)

\* n values are taken, if any.
Consumes(n) == values' = Keep(n) \/ (n = 0 /\ UNCHANGED values)

LEMMA Keeping ==
    ASSUME Inv, Prepares, activations # <<>>, NEW e, Passes(e), NEW n \in 0..got, Consumes(n),
           Sound', Len(m_result_cfgs') = Len(m_result_cfgs), Stacked, Ready'
    PROVE  Prepares'
<1>1. Len(values') \in Nat /\ Len(values') >= Len(values) - n
  <2>1. CASE values' = Keep(n)
    BY <2>1, Takes
  <2>2. CASE n = 0 /\ UNCHANGED values
    BY <2>2, Running
  <2> QED
    BY <2>1, <2>2 DEF Consumes
<1> QED
  BY <1>1, PreparesKept

LEMMA BeginCallPrepares == ASSUME Inv, Prepares, begin_call PROVE Prepares'
<1> DEFINE a == [kind |-> "call", base |-> Len(values) - 1, callee |-> value(got), argc |-> 0]
<1>1. /\ activations # <<>> /\ values' = Keep(1) /\ Enter(a) /\ UNCHANGED m_result_cfgs
      /\ got > 0
  BY DEF begin_call
<1>2. PICK e : Passes(e)
  BY DEF begin_call, Reads
<1>3. /\ top.base \in Nat /\ Len(values) \in Nat /\ got \in Nat /\ got = Len(values) - top.base
      /\ 1 \in 0..got
  BY <1>1, TopBased DEF Prepares, got
<1>4. a.base = Len(values) - 1 /\ a.kind = "call" /\ a.argc = 0
  OBVIOUS
<1> HIDE DEF a
<1>5. ~ Statement(a.kind)
  BY <1>4 DEF Statement, Statements, Conds
<1>6. Len(values') = Len(values) - 1 /\ a.base \in Nat /\ top.base <= a.base
  BY <1>1, <1>3, <1>4, Takes
<1>7. a.base <= Len(values')
  BY <1>4, <1>6
<1>8. Stacked
  BY <1>1, <1>5, <1>6, <1>7, StackedEntered
<1>9. top' = a
  BY <1>1, StackShape DEF top, Inv, Stack
<1>10. Ready'
  BY <1>4, <1>9 DEF Ready
<1> QED
  BY <1>1, <1>2, <1>3, <1>8, <1>10, Keeping, SoundSame DEF Consumes, Prepares

\* The step emitted is the last of the graph.
LEMMA LastEmitted ==
    ASSUME Inv, Prepares, activations # <<>>, NEW s, Emits(<<s>>)
    PROVE  LET steps == wip'[Len(wip')].steps
           IN steps # <<>> /\ steps[Len(steps)] = s
<1> DEFINE new == Add(wip, <<s>>)
<1>1. Graphs /\ m_result_cfgs # <<>> /\ GraphOK(wip)
  BY Running, Newest DEF Inv
<1>2. /\ Len(new) = Len(wip) /\ new[Len(wip)].steps = wip[Len(wip)].steps \o <<s>>
  BY <1>1, AddShape
<1>3. wip' = new
  BY <1>1, BecomesShape DEF Emits
<1> DEFINE old == wip[Len(wip)].steps
<1>4. IsSeq(old)
  <2>1. SoundGraph(wip) /\ Len(wip) \in 1..Len(wip)
    BY <1>1, WipSound, AddShape DEF Prepares
  <2> QED
    BY <2>1 DEF SoundGraph, StepsOK
<1>5. IsSeq(<<s>>) /\ Len(<<s>>) = 1 /\ <<s>>[1] = s
  <2>1. <<s>> \in Seq({s})
    OBVIOUS
  <2> QED
    BY <2>1 DEF IsSeq
<1> HIDE DEF old
<1> DEFINE steps == old \o <<s>>
<1>6. /\ Len(old) \in Nat /\ Len(steps) = Len(old) + 1 /\ steps[Len(old) + 1] = s
  <2>1. 1 \in 1..Len(<<s>>)
    BY <1>5
  <2> QED
    BY <1>4, <1>5, <2>1, SeqConcat, SeqLength
<1>7. steps # <<>>
  <2>1. Len(steps) # 0
    BY <1>6
  <2> QED
    BY <2>1
<1>8. wip'[Len(wip')].steps = steps
  BY <1>2, <1>3 DEF old
<1> HIDE DEF steps
<1> QED
  BY <1>6, <1>7, <1>8

LEMMA ArgumentPrepares == ASSUME Inv, Prepares, call_argument PROVE Prepares'
<1> DEFINE a == [top EXCEPT !.argc = @ + 1]
           s == Step("nop", <<Temp, value(1)>>)
<1>1. /\ activations # <<>> /\ values' = Keep(1) /\ Turn(a) /\ top.kind = "call" /\ got = 1
      /\ Emits(<<s>>)
  BY DEF call_argument, Comes, In, MovesTo
<1>2. PICK e : Passes(e)
  BY DEF call_argument, Reads
<1>3. top \in [kind : {"call"}, base : Nat, callee : Addresses, argc : 0..m_next_local_aa]
  BY <1>1, Running DEF Activation
<1>4. a.kind = "call" /\ a.base = top.base /\ a.argc = top.argc + 1
  BY <1>3
<1>5. m_next_local_aa \in Nat /\ top.argc \in Nat /\ top.argc <= m_next_local_aa
  BY <1>3, Numbered
<1> HIDE DEF a
<1>6. Written(s) /\ MovesAbove(s, a.argc)
  <2>1. Written(s)
    BY Numbered, WrittenTwo DEF StepOps, CallOps
  <2>2. s.op = "nop" /\ s.args # <<>> /\ s.args[1] = Temp
    BY DEF Step
  <2>3. Temp[2] = m_next_local_aa
    BY DEF Temp
  <2> HIDE DEF s
  <2>4. s.args[1][2] >= a.argc - 1
    BY <1>4, <1>5, <2>2, <2>3
  <2>5. MovesAbove(s, a.argc)
    BY <2>2, <2>4 DEF MovesAbove
  <2> QED
    BY <2>1, <2>5
<1>7. s.op \notin Alone
  BY DEF Step, Alone, Checks, JumpMarks, EndOps, NopAfter, CallOps
<1> HIDE DEF s
<1>8. StepsOK(<<s>>)
  BY <1>6, <1>7, OneStep
<1>9. Sound' /\ Len(m_result_cfgs') = Len(m_result_cfgs)
  BY <1>1, <1>8, Emitting
<1>10. Stacked
  BY <1>1, <1>4, StackedTurned
<1>11. top' = a
  BY <1>1, StackShape DEF top, Inv, Stack
<1>12. Ready'
  <2>1. LET steps == wip'[Len(wip')].steps
        IN steps # <<>> /\ MovesAbove(steps[Len(steps)], top'.argc)
    BY <1>1, <1>4, <1>6, <1>11, LastEmitted
  <2> QED
    BY <2>1 DEF Ready
<1>13. 1 \in 0..got
  BY <1>1
<1> QED
  BY <1>1, <1>2, <1>9, <1>10, <1>12, <1>13, Keeping DEF Consumes

LEMMA EndCallPrepares == ASSUME Inv, Prepares, end_call PROVE Prepares'
<1>1. /\ activations # <<>> /\ values' = Append(values, <<"temp", ResultSlot>>) /\ Leave
      /\ top.kind = "call" /\ got = 0
  BY DEF end_call, Comes, In
<1>2. PICK e : Passes(e)
  BY DEF end_call, Reads
<1>3. PICK op \in CallOps : Emits(<<Step(op, <<<<"immediate", top.callee[2]>>, <<"immediate", top.argc>>>>)>>)
  BY DEF end_call, CallOps
<1> DEFINE c == Step(op, <<<<"immediate", top.callee[2]>>, <<"immediate", top.argc>>>>)
<1>4. top \in [kind : {"call"}, base : Nat, callee : Addresses, argc : 0..m_next_local_aa]
  BY <1>1, Running DEF Activation
<1>5. top.callee[2] \in Nat /\ top.argc \in Nat
  <2>1. top.callee \in Valued
    BY <1>4 DEF Valued
  <2> QED
    BY <1>4, <2>1, Numbered
<1>6. Written(c) /\ c.op \in CallOps /\ Passed(c) = top.argc
  <2>1. op \in StepOps /\ op \notin {"jump", "jump_else"}
    BY DEF StepOps, CallOps
  <2>2. Written(c)
    BY <1>5, <2>1, WrittenTwo
  <2> QED
    BY <2>2 DEF Step, Passed
<1>7. Emits(<<c>>)
  BY <1>3
<1> HIDE DEF c
<1>8. Graphs /\ m_result_cfgs # <<>> /\ Sound /\ GraphOK(wip) /\ SoundGraph(wip)
  BY <1>1, Running, WipSound DEF Inv, Prepares
<1>9. StepsOK(wip[Len(wip)].steps \o <<c>>)
  <2>1. Len(wip) \in 1..Len(wip)
    BY <1>8, AddShape
  <2>2. StepsOK(wip[Len(wip)].steps)
    BY <2>1, <1>8 DEF SoundGraph
  <2>3. Passed(c) > 0 => wip[Len(wip)].steps # <<>> /\ MovesAbove(wip[Len(wip)].steps[Len(wip[Len(wip)].steps)], Passed(c))
    BY <1>1, <1>6 DEF Prepares, Ready
  <2> QED
    BY <1>6, <2>2, <2>3, CallFollows
<1>10. Sound'
  <2>1. SoundGraph(Add(wip, <<c>>))
    BY <1>8, <1>9, AddSound
  <2> QED
    BY <1>7, <1>8, <2>1, BecomesSound DEF Emits
<1>11. Len(m_result_cfgs') = Len(m_result_cfgs)
  BY <1>7, <1>8, BecomesShape DEF Emits
<1>12. Ready' /\ Stacked
  BY <1>1, GivesBelow
<1>13. Len(values') \in Nat /\ 0 \in 0..got /\ Len(values') >= Len(values) - 0
  BY <1>1, Gives DEF Prepares
<1> QED
  BY <1>1, <1>2, <1>10, <1>11, <1>12, <1>13, PreparesKept

-----------------------------------------------------------------------------
(* Every statement leaves it so. *)

\* A statement that takes n values, and stays in its block.
LEMMA SimplePrepares ==
    ASSUME Inv, Prepares, activations # <<>>, NEW e, Passes(e), NEW n \in 0..got, Consumes(n),
           UNCHANGED activations, top.kind \in Statements,
           NEW steps, Emits(steps) \/ UNCHANGED m_result_cfgs, StepsOK(steps)
    PROVE  Prepares'
<1>1. Sound' /\ Len(m_result_cfgs') = Len(m_result_cfgs)
  BY Emitting, SoundSame DEF Prepares
<1>2. top' = top /\ top.kind # "call"
  BY DEF top, Statements
<1>3. Stacked /\ Ready'
  BY <1>2, StackedSame, Waiting
<1> QED
  BY <1>1, <1>3, Keeping

LEMMA AssignPrepares == ASSUME Inv, Prepares, emit_assign PROVE Prepares'
<1> DEFINE s == Step("nop", Operands)
<1>1. /\ activations # <<>> /\ UNCHANGED activations /\ got = 2
      /\ \/ values' = Keep(1) /\ Emits(<<s>>)
         \/ values' = Append(Keep(2), NoAddress) /\ UNCHANGED m_result_cfgs
  BY DEF emit_assign, Comes, In
<1>2. PICK e : Passes(e)
  BY DEF emit_assign, Reads
<1>3. Written(s)
  <2>1. Operands = <<value(1), value(2)>>
    BY <1>1 DEF Operands
  <2>2. value(1)[2] \in Nat
    BY <1>1, Running, Numbered
  <2> QED
    BY <2>1, <2>2, WrittenTwo DEF StepOps, CallOps
<1>4. s.op \notin Alone
  BY DEF Step, Alone, Checks, JumpMarks, EndOps, NopAfter, CallOps
<1> HIDE DEF s
<1>5. StepsOK(<<s>>)
  BY <1>3, <1>4, OneStep
<1>6. Sound' /\ Len(m_result_cfgs') = Len(m_result_cfgs)
  BY <1>1, <1>5, Emitting, SoundSame DEF Prepares
<1>7. /\ Len(values) \in Nat /\ 1 \in 0..got /\ 2 \in 0..got /\ top.base \in Nat
      /\ top.base <= Len(values)
  BY <1>1, TopBased DEF Prepares
<1>8. Len(values') = Len(values) - 1 /\ Len(values) - 2 \in Nat
  BY <1>1, <1>7, KeepLength
<1>9. got' # 0
  <2>1. top'.base = top.base
    BY <1>1 DEF top
  <2>2. got' = Len(values') - top'.base /\ got = Len(values) - top.base
    BY DEF got
  <2> QED
    BY <1>1, <1>7, <1>8, <2>1, <2>2
<1>10. Ready' /\ Stacked
  BY <1>1, <1>9, Waiting, StackedSame
<1>11. Len(values') \in Nat /\ Len(values') >= Len(values) - 2
  BY <1>7, <1>8
<1> QED
  BY <1>1, <1>2, <1>6, <1>7, <1>10, <1>11, PreparesKept

LEMMA ExprStmtPrepares == ASSUME Inv, Prepares, emit_expr_stmt PROVE Prepares'
<1>1. /\ activations # <<>> /\ UNCHANGED <<activations, m_result_cfgs>> /\ values' = Keep(1)
      /\ got = 1 /\ top.kind \in Statements
  BY DEF emit_expr_stmt, Comes, In
<1>2. PICK e : Passes(e)
  BY DEF emit_expr_stmt, Reads
<1>3. 1 \in 0..got /\ Consumes(1)
  BY <1>1 DEF Consumes
<1> QED
  BY <1>1, <1>2, <1>3, NoStepsOK, SimplePrepares

LEMMA DefPrepares == ASSUME Inv, Prepares, emit_def PROVE Prepares'
<1> DEFINE s == Step("nop", <<Temp, value(1)>>)
<1>1. /\ activations # <<>> /\ UNCHANGED activations /\ values' = Keep(1)
      /\ got = 1 /\ top.kind \in Statements
      /\ Emits(IF value(1) = Temp THEN <<>> ELSE <<s>>)
  BY DEF emit_def, Comes, In
<1>2. PICK e : Passes(e)
  BY DEF emit_def, Reads
<1>3. Written(s)
  BY Numbered, WrittenTwo DEF StepOps, CallOps
<1>4. s.op \notin Alone
  BY DEF Step, Alone, Checks, JumpMarks, EndOps, NopAfter, CallOps
<1>5. Emits(<<>>) \/ Emits(<<s>>)
  BY <1>1
<1> HIDE DEF s
<1>6. StepsOK(<<>>) /\ StepsOK(<<s>>)
  BY <1>3, <1>4, OneStep, NoStepsOK
<1>7. 1 \in 0..got /\ Consumes(1)
  BY <1>1 DEF Consumes
<1> QED
  BY <1>1, <1>2, <1>5, <1>6, <1>7, SimplePrepares

LEMMA ReturnPrepares == ASSUME Inv, Prepares, emit_return PROVE Prepares'
<1> DEFINE s == Step("ret", <<value(1)>>)
<1>1. /\ activations # <<>> /\ UNCHANGED activations /\ values' = Keep(1)
      /\ got = 1 /\ top.kind \in Statements /\ Emits(<<s>>)
  BY DEF emit_return, Comes, In
<1>2. PICK e : Passes(e)
  BY DEF emit_return, Reads
<1>3. Written(s)
  <2>1. value(1)[2] \in Nat
    BY <1>1, Running, Numbered
  <2> QED
    BY <2>1, WrittenOne DEF StepOps, CallOps
<1>4. s.op \notin Alone
  BY DEF Step, Alone, Checks, JumpMarks, EndOps, NopAfter, CallOps
<1> HIDE DEF s
<1>5. StepsOK(<<s>>)
  BY <1>3, <1>4, OneStep
<1>6. 1 \in 0..got /\ Consumes(1)
  BY <1>1 DEF Consumes
<1> QED
  BY <1>1, <1>2, <1>5, <1>6, SimplePrepares

LEMMA BreakPrepares == ASSUME Inv, Prepares, emit_break PROVE Prepares'
<1>1. /\ activations # <<>> /\ UNCHANGED <<activations, values>>
      /\ got = 0 /\ top.kind \in Statements
      /\ Emits(<<Step("jump", <<Dud>>), Meta("meta_mark_break")>>)
  BY DEF emit_break, Comes, In
<1>2. PICK e : Passes(e)
  BY DEF emit_break, Reads
<1>3. 0 \in 0..got /\ Consumes(0)
  BY <1>1 DEF Consumes
<1>4. StepsOK(<<Step("jump", <<Dud>>), Meta("meta_mark_break")>>)
  BY BreakSteps
<1> QED
  BY <1>1, <1>2, <1>3, <1>4, SimplePrepares

\* A statement with a condition begins.
LEMMA BeginPrepares == ASSUME Inv, Prepares, begin_if \/ begin_while PROVE Prepares'
<1>1. PICK kind \in {"if", "while"} :
          Enter([kind |-> kind, base |-> Len(values), pre |-> newest_bb])
  BY DEF begin_if, begin_while
<1> DEFINE a == [kind |-> kind, base |-> Len(values), pre |-> newest_bb]
<1>2. /\ activations # <<>> /\ UNCHANGED values /\ got = 0 /\ top.kind \in Statements
  BY DEF begin_if, begin_while, Comes, In
<1>3. PICK e : Passes(e)
  BY DEF begin_if, begin_while, Reads
<1>4. PICK steps : StepsOK(steps) /\ Emits(steps)
  BY IfSteps, LoopSteps DEF begin_if, begin_while
<1>5. Sound' /\ Len(m_result_cfgs') = Len(m_result_cfgs)
  BY <1>2, <1>4, Emitting
<1>6. Len(values) \in Nat /\ 0 \in 0..got /\ top.base <= Len(values) /\ Consumes(0)
  BY <1>2, TopBased DEF Prepares, Consumes
<1>7. a.base = Len(values) /\ a.kind = kind /\ Enter(a)
  BY <1>1
<1> HIDE DEF a
<1>8. Stacked
  BY <1>2, <1>6, <1>7, StackedEntered
<1>9. top' = a
  BY <1>2, <1>7, StackShape DEF top, Inv, Stack
<1>10. Ready'
  BY <1>7, <1>9, Waiting
<1> QED
  BY <1>2, <1>3, <1>5, <1>6, <1>8, <1>10, Keeping

\* The graph in progress becomes another sound one.
LEMMA Becoming ==
    ASSUME Inv, Prepares, activations # <<>>, NEW cfg, Becomes(cfg), SoundGraph(cfg)
    PROVE  Sound' /\ Len(m_result_cfgs') = Len(m_result_cfgs)
BY Running, BecomesSound, BecomesShape DEF Inv, Prepares

LEMMA BodyPrepares == ASSUME Inv, Prepares, if_then \/ while_do PROVE Prepares'
<1>1. PICK kind \in {"then", "do"} :
          Turn([kind |-> kind, base |-> top.base, pre |-> top.pre, body |-> newest_bb + 1])
  BY DEF if_then, while_do
<1> DEFINE a == [kind |-> kind, base |-> top.base, pre |-> top.pre, body |-> newest_bb + 1]
<1>2. /\ activations # <<>> /\ got = 1 /\ values' = Keep(1) /\ top.kind \in {"if", "while"}
  BY DEF if_then, while_do, Comes, In
<1>3. PICK e : Passes(e)
  BY DEF if_then, while_do, Reads
<1>4. PICK op \in Checks :
          Becomes(add_bb(Add(wip, <<Step("jump_else", <<value(1), Dud>>), Meta(op)>>)))
  BY DEF if_then, while_do, Checks
<1> DEFINE steps == <<Step("jump_else", <<value(1), Dud>>), Meta(op)>>
<1>5. StepsOK(steps)
  <2>1. value(1)[2] \in Nat
    BY <1>2, Running, Numbered
  <2> QED
    BY <2>1, CheckSteps
<1>6. Becomes(add_bb(Add(wip, steps)))
  BY <1>4
<1> HIDE DEF steps
<1>7. GraphOK(wip) /\ SoundGraph(wip)
  BY <1>2, Running, WipSound DEF Inv, Prepares
<1>8. SoundGraph(add_bb(Add(wip, steps)))
  BY <1>5, <1>7, AddedSound, AddShape, BlockSound
<1>9. Sound' /\ Len(m_result_cfgs') = Len(m_result_cfgs)
  BY <1>2, <1>6, <1>8, Becoming
<1>10. a.base = top.base /\ a.kind = kind /\ Turn(a) /\ Statement(top.kind)
  BY <1>1, <1>2 DEF Statement, Conds
<1> HIDE DEF a
<1>11. Stacked
  BY <1>2, <1>10, StackedTurned
<1>12. top' = a
  BY <1>2, <1>10, StackShape DEF top, Inv, Stack
<1>13. Ready'
  BY <1>10, <1>12, Waiting
<1>14. 1 \in 0..got /\ Consumes(1)
  BY <1>2 DEF Consumes
<1> QED
  BY <1>2, <1>3, <1>9, <1>11, <1>13, <1>14, Keeping

LEMMA ElsePrepares == ASSUME Inv, Prepares, if_else PROVE Prepares'
<1> DEFINE a == [top EXCEPT !.kind = "else", !.body = newest_bb + 1]
           steps == <<Step("jump", <<Dud>>), Meta("meta_mark_if_else_alt"), Step("nop", <<>>)>>
<1>1. /\ activations # <<>> /\ got = 0 /\ UNCHANGED values /\ top.kind = "then" /\ Turn(a)
      /\ Becomes(add_bb(Add(wip, steps)))
  BY DEF if_else, Comes, In
<1>2. PICK e : Passes(e)
  BY DEF if_else, Reads
<1>3. StepsOK(steps)
  BY ElseSteps
<1> HIDE DEF steps
<1>4. GraphOK(wip) /\ SoundGraph(wip)
  BY <1>1, Running, WipSound DEF Inv, Prepares
<1>5. SoundGraph(add_bb(Add(wip, steps)))
  BY <1>3, <1>4, AddedSound, AddShape, BlockSound
<1>6. Sound' /\ Len(m_result_cfgs') = Len(m_result_cfgs)
  BY <1>1, <1>5, Becoming
<1>7. a.base = top.base /\ a.kind = "else" /\ Statement(top.kind)
  BY <1>1, BodyOf DEF Statement, Statements
<1> HIDE DEF a
<1>8. Stacked
  BY <1>1, <1>7, StackedTurned
<1>9. top' = a
  BY <1>1, StackShape DEF top, Inv, Stack
<1>10. Ready'
  BY <1>7, <1>9, Waiting
<1>11. 0 \in 0..got /\ Consumes(0)
  BY <1>1 DEF Consumes
<1> QED
  BY <1>1, <1>2, <1>6, <1>8, <1>10, <1>11, Keeping

LEMMA EndPrepares == ASSUME Inv, Prepares, end_if_else \/ end_if \/ end_while PROVE Prepares'
<1>1. /\ activations # <<>> /\ got = 0 /\ UNCHANGED values /\ top.kind \in Bodies /\ Leave
  BY DEF end_if_else, end_if, end_while, Comes, In, Bodies
<1>2. PICK e : Passes(e)
  BY DEF end_if_else, end_if, end_while, Reads
<1>3. GraphOK(wip) /\ SoundGraph(wip)
  BY <1>1, Running, WipSound DEF Inv, Prepares
<1>4. Sound' /\ Len(m_result_cfgs') = Len(m_result_cfgs)
  <2> DEFINE ended == <<Step("nop", <<>>), Meta("meta_end_if_else")>>
             left == <<Step("nop", <<>>), Meta("meta_end_while")>>
             again == <<Step("jump", <<Dud>>), Meta("meta_mark_continue")>>
  <2>1. StepsOK(ended) /\ StepsOK(left) /\ StepsOK(again)
    BY EndSteps, BreakSteps DEF EndOps
  <2>2. \/ Becomes(add_bb(Add(wip, ended)))
        \/ Becomes(Add(add_bb(wip), ended))
        \/ Becomes(Add(add_bb(Add(wip, again)), left))
    BY DEF end_if_else, end_if, end_while
  <2> HIDE DEF ended, left, again
  <2>3. SoundGraph(add_bb(Add(wip, ended)))
    BY <1>3, <2>1, AddedSound, AddShape, BlockSound
  <2>4. SoundGraph(Add(add_bb(wip), ended))
    BY <1>3, <2>1, AddedSound, BlockShape, BlockSound
  <2>5. GraphOK(add_bb(Add(wip, again))) /\ SoundGraph(add_bb(Add(wip, again)))
    BY <1>3, <2>1, AddedSound, AddShape, BlockShape, BlockSound
  <2>6. SoundGraph(Add(add_bb(Add(wip, again)), left))
    BY <2>1, <2>5, AddedSound
  <2> QED
    BY <1>1, <2>2, <2>3, <2>4, <2>6, Becoming
<1>5. activations' # <<>> /\ top'.kind \in Statements
  BY <1>1, LeftTop DEF Prepares, Statement, Statements, Bodies
<1>6. Ready' /\ Stacked
  <2>1. top'.kind # "call"
    BY <1>5 DEF Statements
  <2> QED
    BY <1>1, <2>1, Waiting, StackedLeft
<1>7. 0 \in 0..got /\ Consumes(0)
  BY <1>1 DEF Consumes
<1> QED
  BY <1>1, <1>2, <1>4, <1>6, <1>7, Keeping

-----------------------------------------------------------------------------
(* What is passed over, and the functions. *)

\* Nothing is emitted, nothing is taken, and the stack stays.
LEMMA Unmoved ==
    ASSUME Prepares, UNCHANGED <<source, ahead, activations, values, m_result_cfgs>>
    PROVE  Prepares'
<1>1. top' = top /\ got' = got /\ wip' = wip
  BY DEF top, got, wip
<1>2. Ready'
  BY <1>1 DEF Prepares, Ready
<1>3. Reading' /\ Sound' /\ Based' /\ Layered'
  BY DEF Prepares, Reading, Sound, Based, Layered
<1> QED
  BY <1>2, <1>3 DEF Prepares

LEMMA PassedOver ==
    ASSUME Inv, Prepares, activations # <<>>, NEW e, Passes(e),
           UNCHANGED <<activations, values, m_result_cfgs>>
    PROVE  Prepares'
<1>1. top' = top /\ got' = got /\ wip' = wip
  BY DEF top, got, wip
<1>2. Ready'
  BY <1>1 DEF Prepares, Ready
<1>3. Reading'
  BY ReadingKept DEF Prepares
<1>4. Sound' /\ Based' /\ Layered'
  BY DEF Prepares, Sound, Based, Layered
<1> QED
  BY <1>2, <1>3, <1>4 DEF Prepares

LEMMA SkipPrepares ==
    ASSUME Inv, Prepares, fail_call \/ ignore_stmt \/ skip_event \/ end_block
    PROVE  Prepares'
<1>1. UNCHANGED <<activations, values, m_result_cfgs>> /\ activations # <<>>
  BY DEF fail_call, ignore_stmt, skip_event, end_block, Inv, Stages
<1>2. (\E e : Passes(e)) \/ UNCHANGED sourceVars
  BY DEF fail_call, ignore_stmt, skip_event, end_block, SkipsRest
<1> QED
  BY <1>1, <1>2, Unmoved, PassedOver DEF sourceVars

LEMMA FailOperandPrepares == ASSUME Inv, Prepares, fail_operand PROVE Prepares'
<1>1. /\ activations # <<>> /\ UNCHANGED <<values, m_result_cfgs>> /\ Leave /\ got = 1
      /\ top.kind \in {"call", "sequence"}
  BY DEF fail_operand, Comes, In
<1>2. PICK e : Passes(e)
  BY DEF fail_operand, SkipsRest
<1>3. activations' # <<>> /\ top'.base \in Nat /\ top'.base <= top.base
  BY <1>1, LeftTop DEF Prepares
<1>4. top.base \in Nat /\ Len(values) \in Nat
  BY <1>1, Running
<1>5. got' # 0
  <2>1. got' = Len(values) - top'.base /\ got = Len(values) - top.base
    BY <1>1 DEF got
  <2> QED
    BY <1>1, <1>3, <1>4, <2>1
<1>6. Ready' /\ Stacked
  BY <1>1, <1>5, Waiting, StackedLeft
<1>7. 0 \in 0..got /\ Consumes(0)
  BY <1>1 DEF Consumes
<1> QED
  BY <1>1, <1>2, <1>6, <1>7, Keeping, SoundSame DEF Prepares

LEMMA FailedBlockSame ==
    ASSUME NEW a \in Activation
    PROVE  FailedBlock(a).base = a.base /\ FailedBlock(a).kind = a.kind
<1>1. CASE a.kind \in {"then", "else", "do"}
  <2>1. a \in [kind : {"then", "else", "do"}, base : Nat, pre : BlocksOf(wip), body : Links(wip)]
    BY <1>1 DEF Activation
  <2> QED
    BY <2>1 DEF FailedBlock
<1>2. CASE a.kind \notin {"then", "else", "do"}
  <2>1. FailedBlock(a) = a
    BY <1>2 DEF Activation, FailedBlock
  <2> QED
    BY <2>1
<1> QED
  BY <1>1, <1>2

LEMMA FailPrepares == ASSUME Inv, Prepares, fail_stmt PROVE Prepares'
<1>1. PICK e \in Offered :
          LET conditional == e[1] \in {"then", "do"}
              n == Len(activations) - (IF conditional THEN 1 ELSE 0)
              block == activations[n]
          IN /\ IF conditional THEN top.kind \in Conds ELSE top.kind \in Statements
             /\ got = 1
             /\ Passes(e)
             /\ \/ /\ block.kind = "function" /\ activations' = <<>>
                \/ /\ block.kind # "function"
                   /\ activations' = Append(SubSeq(activations, 1, n - 1), FailedBlock(block))
  BY DEF fail_stmt, Comes, In, Conds
<1>2. activations # <<>> /\ values' = Keep(1) /\ UNCHANGED m_result_cfgs
  BY DEF fail_stmt
<1> DEFINE conditional == e[1] \in {"then", "do"}
<1> DEFINE n == Len(activations) - (IF conditional THEN 1 ELSE 0)
<1> DEFINE block == activations[n]
<1>3. Passes(e) /\ got = 1 /\ 1 \in 0..got /\ Consumes(1)
  BY <1>1, <1>2 DEF Consumes
<1>4. Reading' /\ Sound'
  BY <1>2, <1>3, ReadingKept, SoundSame DEF Prepares
<1>5. /\ activations \in Seq(Activation) /\ Len(activations) \in Nat
      /\ Len(activations) \in 1..Len(activations)
      /\ IF top.kind = "function" THEN Len(activations) = 1 ELSE Len(activations) > 1
  BY <1>2, Running DEF Inv, Stack
<1>6. n \in 1..Len(activations) /\ block.kind \in Statements
  <2>1. CASE conditional
    <3>1. top.kind \in Conds /\ n = Len(activations) - 1
      BY <1>1, <2>1
    <3>2. Len(activations) > 1
      BY <1>5, <3>1 DEF Conds
    <3>3. n \in 1..(Len(activations) - 1) /\ n \in 1..Len(activations)
      BY <1>5, <3>1, <3>2
    <3>4. activations[Len(activations)].kind \in Statements \cup Conds
      BY <3>1 DEF top
    <3>5. activations[n].kind \in Statements
      BY <1>5, <3>3, <3>4 DEF Prepares, Layered
    <3> QED
      BY <3>3, <3>5
  <2>2. CASE ~ conditional
    <3>1. top.kind \in Statements /\ n = Len(activations)
      BY <1>1, <1>5, <2>2
    <3> QED
      BY <1>5, <3>1 DEF top
  <2> QED
    BY <2>1, <2>2
<1>7. CASE activations' = <<>>
  <2>1. Len(activations') = 0
    BY <1>7, EmptySeq
  <2>2. Based' /\ Layered' /\ Ready'
    BY <1>7, <2>1 DEF Based, Layered, Ready
  <2> QED
    BY <1>4, <2>2 DEF Prepares
<1>8. CASE activations' = Append(SubSeq(activations, 1, n - 1), FailedBlock(block))
  <2> DEFINE failed == FailedBlock(block)
  <2>1. failed.base = block.base /\ failed.kind = block.kind
    BY <1>5, <1>6, ElementOfSeq, FailedBlockSame
  <2> HIDE DEF failed
  <2>2. activations' = Append(SubSeq(activations, 1, n - 1), failed)
    BY <1>8 DEF failed
  <2> HIDE DEF n
  <2>3. /\ Len(activations') = n /\ activations'[n] = failed /\ activations' # <<>>
        /\ \A k \in 1..(n - 1) : activations'[k] = activations[k]
    BY <1>5, <1>6, <2>2, UnwoundShape
  <2>4. top' = failed
    BY <2>3 DEF top
  <2>5. Ready'
    <3>1. top'.kind # "call"
      BY <1>6, <2>1, <2>4 DEF Statements
    <3> QED
      BY <3>1, Waiting
  <2>6. n \in Nat /\ n <= Len(activations)
    BY <1>5, <1>6
  <2>7. ASSUME NEW k \in 1..n
        PROVE  activations'[k].base = activations[k].base /\ activations'[k].kind = activations[k].kind
    <3>1. CASE k = n
      BY <3>1, <2>1, <2>3
    <3>2. CASE k # n
      <4>1. k \in 1..(n - 1)
        BY <3>2, <2>6
      <4> QED
        BY <4>1, <2>3
    <3> QED
      BY <3>1, <3>2
  <2>8. Stacked
    <3>1. Len(activations') \in Nat /\ Len(activations') <= Len(activations) + 1
      BY <1>5, <2>3, <2>6
    <3>2. \A k \in 1..Len(activations') : ~ (k > Len(activations))
      BY <1>5, <2>3, <2>6
    <3> QED
      BY <2>3, <2>7, <3>1, <3>2 DEF Stacked
  <2> QED
    BY <1>2, <1>3, <1>4, <2>5, <2>8, Keeping
<1> QED
  BY <1>1, <1>7, <1>8

LEMMA PassPrepares == ASSUME Inv, Prepares, pass_over PROVE Prepares'
BY ValuePrepares, SkipPrepares, FailOperandPrepares, FailPrepares DEF pass_over

LEMMA ExprPrepares == ASSUME Inv, Prepares, emit_expr PROVE Prepares'
BY ValuePrepares, StringPrepares, SequencePrepares, ItemPrepares, EndSequencePrepares,
   UnaryPrepares, BinaryPrepares, AssignPrepares, BeginCallPrepares, ArgumentPrepares,
   EndCallPrepares DEF emit_expr

LEMMA StmtPrepares == ASSUME Inv, Prepares, emit_stmt PROVE Prepares'
BY ExprStmtPrepares, DefPrepares, ReturnPrepares, BreakPrepares, BeginPrepares,
   BodyPrepares, ElsePrepares, EndPrepares DEF emit_stmt

LEMMA EndFunctionPrepares == ASSUME Inv, Prepares, end_function PROVE Prepares'
<1>1. activations # <<>> /\ UNCHANGED <<activations, values, m_result_cfgs>>
  BY DEF end_function
<1>2. PICK e : Passes(e)
  BY DEF end_function, Reads
<1> QED
  BY <1>1, <1>2, PassedOver

LEMMA LinkPrepares == ASSUME Inv, Prepares, apply_pending_link PROVE Prepares'
<1> DEFINE link == Head(m_pending_links)
<1>1. /\ phase = "link" /\ m_pending_links # <<>> /\ UNCHANGED <<sourceVars, activations, values>>
      /\ \/ link[1] # NoBlock /\ Becomes(link_bb(wip, link))
         \/ UNCHANGED m_result_cfgs
  BY DEF apply_pending_link
<1>2. CASE UNCHANGED m_result_cfgs
  BY <1>1, <1>2, Unmoved DEF sourceVars
<1>3. CASE link[1] # NoBlock /\ Becomes(link_bb(wip, link))
  <2>1. activations # <<>> /\ Len(activations) = 1
    BY <1>1, EmptySeq DEF Inv, Stages
  <2>2. Graphs /\ m_result_cfgs # <<>> /\ GraphOK(wip) /\ SoundGraph(wip)
    BY <2>1, Running, WipSound DEF Inv, Prepares
  <2>3. link \in Links(wip) \X Links(wip)
    BY <1>1, HeadTailProperties DEF Inv, Pending
  <2> HIDE DEF link
  <2>4. SoundGraph(link_bb(wip, link))
    BY <1>3, <2>2, <2>3, LinkSound
  <2>5. Sound' /\ Len(m_result_cfgs') = Len(m_result_cfgs)
    BY <1>3, <2>1, <2>4, Becoming
  <2>6. Reading' /\ Based' /\ Layered'
    BY <1>1, <2>5 DEF Prepares, Reading, Based, Layered, sourceVars
  <2>7. Ready'
    <3>1. top' = top /\ top.kind = "function"
      BY <1>1, <2>1, Running DEF top
    <3> QED
      BY <3>1, Waiting
  <2> QED
    BY <2>5, <2>6, <2>7 DEF Prepares
<1> QED
  BY <1>1, <1>2, <1>3

LEMMA LeavePrepares == ASSUME Inv, Prepares, leave_function PROVE Prepares'
<1>1. /\ Leave /\ UNCHANGED <<sourceVars, values, m_result_cfgs>> /\ Len(activations) = 1
      /\ activations # <<>>
  BY EmptySeq DEF leave_function, Inv, Stages
<1>2. Len(activations') = 0
  BY <1>1, StackShape DEF Inv, Stack
<1>3. activations' = <<>>
  <2>1. activations' = SubSeq(activations, 1, 0)
    BY <1>1 DEF Leave
  <2>2. SubSeq(activations, 1, 0) \in Seq(Activation)
    BY <1>1, SeqShorter DEF Inv, Stack
  <2> QED
    BY <1>2, <2>1, <2>2, EmptySeq
<1>4. Based' /\ Layered' /\ Ready' /\ Reading' /\ Sound'
  BY <1>1, <1>2, <1>3 DEF Based, Layered, Ready, Reading, Sound, Prepares, sourceVars
<1> QED
  BY <1>4 DEF Prepares

LEMMA BeginFunctionPrepares == ASSUME Inv, Prepares, begin_function PROVE Prepares'
<1> DEFINE n == Len(m_result_cfgs)
           f == source[n + 1]
           a == [kind |-> "function", base |-> 0]
           new == add_bb(<<>>)
<1>1. /\ activations = <<>> /\ n < Len(source) /\ ahead' = f.body
      /\ m_result_cfgs' = Append(m_result_cfgs, new)
      /\ Enter(a) /\ UNCHANGED <<source, values>>
  BY DEF begin_function
<1>2. n \in Nat /\ Len(source) \in Nat /\ IsSeq(m_result_cfgs) /\ source \in Seq(Function)
  BY SeqLength, LenProperties DEF Inv, Graphs, Names
<1>3. f \in Function
  <2>1. n + 1 \in 1..Len(source)
    BY <1>1, <1>2
  <2> QED
    BY <1>2, <2>1, ElementOfSeq
<1>4. ahead' \in Seq(Event)
  BY <1>1, <1>3 DEF Function
<1>5. /\ Len(m_result_cfgs') = n + 1 /\ m_result_cfgs'[n + 1] = new
      /\ \A g \in 1..n : m_result_cfgs'[g] = m_result_cfgs[g]
  <2> HIDE DEF new
  <2> DEFINE t == Append(m_result_cfgs, new)
  <2>1. /\ IsSeq(t) /\ Len(t) = n + 1 /\ t # <<>> /\ t[Len(t)] = new
        /\ \A i \in 1..n : t[i] = m_result_cfgs[i]
    BY <1>2, SeqAppend
  <2>2. m_result_cfgs' = t
    BY <1>1
  <2> HIDE DEF t
  <2> QED
    BY <2>1, <2>2
<1>6. SoundGraph(new)
  <2>1. new = <<EmptyBlock>>
    BY DEF add_bb
  <2>2. Len(new) = 1 /\ new[1] = EmptyBlock
    BY <2>1
  <2> HIDE DEF new
  <2>3. EmptyBlock.steps = <<>>
    BY DEF EmptyBlock
  <2> QED
    BY <2>2, <2>3, NoStepsOK DEF SoundGraph
<1> HIDE DEF new, f
<1>7. Sound'
  <2>1. ASSUME NEW g \in 1..(n + 1) PROVE SoundGraph(m_result_cfgs'[g])
    <3>1. CASE g = n + 1
      BY <3>1, <1>5, <1>6
    <3>2. CASE g # n + 1
      <4>1. g \in 1..n
        BY <3>2, <1>2
      <4> QED
        BY <4>1, <1>5 DEF Prepares, Sound
    <3> QED
      BY <3>1, <3>2
  <2> QED
    BY <1>5, <2>1 DEF Sound
<1>8. Reading'
  <2>1. Len(m_result_cfgs') <= Len(source)
    BY <1>1, <1>2, <1>5
  <2> QED
    BY <1>1, <1>4, <2>1 DEF Reading
<1>9. /\ Len(activations') = 1 /\ activations'[1] = a
  <2>1. activations' = <<a>>
    BY <1>1 DEF Enter
  <2> QED
    BY <2>1
<1>10. Len(values) \in Nat
  BY LenProperties DEF Inv, Stack
<1>11. Based' /\ Layered' /\ Ready'
  <2>1. top' = a
    BY <1>9 DEF top
  <2>2. Ready'
    BY <2>1, Waiting
  <2>3. Based'
    BY <1>1, <1>9, <1>10 DEF Based
  <2>4. Layered'
    BY <1>9 DEF Layered
  <2> QED
    BY <2>2, <2>3, <2>4
<1> QED
  BY <1>7, <1>8, <1>11 DEF Prepares

LEMMA LowerPrepares == ASSUME Inv, Prepares, Lower PROVE Prepares'
<1>1. CASE emit_function_prepass \/ prepass_done \/ lowering_done
  BY <1>1, Unmoved DEF emit_function_prepass, prepass_done, lowering_done, sourceVars
<1> QED
  BY <1>1, BeginFunctionPrepares, EndFunctionPrepares, LinkPrepares, LeavePrepares,
     ExprPrepares, StmtPrepares, PassPrepares DEF Lower

LEMMA EmitPrepares == ASSUME Prepares, Emit PROVE Prepares'
<1>1. UNCHANGED <<source, ahead, activations, values, m_result_cfgs>>
  BY DEF Emit, begin_chunk, skip_visited, visit_bb, all_emitted, loweringVars, sourceVars
<1> QED
  BY <1>1, Unmoved

LEMMA PreparesStarts == CompilerInit => Prepares
<1> SUFFICES ASSUME CompilerInit PROVE Prepares
  OBVIOUS
<1>1. /\ ahead = <<>> /\ m_result_cfgs = <<>> /\ activations = <<>> /\ values = <<>>
      /\ source \in Sources
  BY DEF CompilerInit, Init
<1>2. Len(source) \in Nat
  BY CompilerStarts, LenProperties DEF Inv, Names
<1>3. Len(m_result_cfgs) = 0 /\ Len(activations) = 0 /\ ahead \in Seq(Event)
  BY <1>1
<1> QED
  BY <1>1, <1>2, <1>3 DEF Prepares, Reading, Sound, Based, Layered, Ready

LEMMA PreparesKeeps == Inv /\ Prepares /\ [Next]_vars => Prepares'
<1> SUFFICES ASSUME Inv, Prepares, [Next]_vars PROVE Prepares'
  OBVIOUS
<1>1. CASE UNCHANGED vars
  BY <1>1, Unmoved DEF vars, loweringVars, sourceVars
<1>2. CASE Next
  BY <1>2, LowerPrepares, EmitPrepares DEF Next
<1> QED
  BY <1>1, <1>2

-----------------------------------------------------------------------------
(* How the blocks nest.  Every end of an if or a loop has its own begin, in  *)
(* a block before; the blocks after the begin, up to that of the end, are    *)
(* entered from where the begin has been passed, and from nowhere else.      *)

Places(cfg) == {p \in BlocksOf(cfg) \X Nat : p[2] \in 1..Len(cfg[p[1] + 1].steps)}
OpAt(cfg, p) == cfg[p[1] + 1].steps[p[2]].op
EndsOf(cfg) == {p \in Places(cfg) : OpAt(cfg, p) \in EndOps}
BeginOf(op) == IF op = "meta_end_while" THEN "meta_begin_while" ELSE "meta_begin_if_else"
MadeLinks(cfg) == {l \in BlocksOf(cfg) \X BlocksOf(cfg) : l[2] \in Targets(cfg[l[1] + 1])}

\* M gives every end its begin.
Matches(cfg, M) ==
    /\ \A x \in EndsOf(cfg) :
          /\ M[x] \in Places(cfg) /\ M[x][1] < x[1]
          /\ OpAt(cfg, M[x]) = BeginOf(OpAt(cfg, x))
    /\ \A x, y \in EndsOf(cfg) : M[x] = M[y] => x = y

\* A link forward does not lead past a begin; one back leads to the begin of the loop it is in.
LinkOK(cfg, M, l) ==
    /\ l[1] < l[2] => \A x \in EndsOf(cfg) : M[x][1] < l[2] /\ l[2] <= x[1] => M[x][1] <= l[1]
    /\ l[2] <= l[1] => \E x \in EndsOf(cfg) : M[x][1] = l[2] /\ l[1] <= x[1]

Nested(cfg, links, M) == Matches(cfg, M) /\ \A l \in links : LinkOK(cfg, M, l)

\* A graph grows by steps that are no ends, and blocks, but no links.
Same(cfg, new) ==
    /\ BlocksOf(cfg) \subseteq BlocksOf(new) /\ Len(cfg) <= Len(new)
    /\ \A p \in Places(cfg) : p \in Places(new) /\ OpAt(new, p) = OpAt(cfg, p)
    /\ EndsOf(new) \subseteq EndsOf(cfg)
    /\ MadeLinks(new) \subseteq MadeLinks(cfg)

NoEnds(steps) == \A i \in 1..Len(steps) : steps[i].op \notin EndOps

\* The graph has steps in its blocks.
Stepped(cfg) == GraphOK(cfg) /\ \A b \in 1..Len(cfg) : IsSeq(cfg[b].steps)

LEMMA SteppedSound == ASSUME NEW cfg, GraphOK(cfg), SoundGraph(cfg) PROVE Stepped(cfg)
BY DEF Stepped, SoundGraph, StepsOK

LEMMA PlaceIn ==
    ASSUME NEW cfg, Stepped(cfg), NEW p \in Places(cfg)
    PROVE  /\ Len(cfg) \in Nat /\ Len(cfg) > 0
           /\ p[1] \in Nat /\ p[2] \in Nat /\ p[1] + 1 \in 1..Len(cfg) /\ p = <<p[1], p[2]>>
           /\ p[2] \in 1..Len(cfg[p[1] + 1].steps)
<1>1. Len(cfg) \in Nat /\ Len(cfg) > 0
  BY SeqLength DEF Stepped, GraphOK
<1> QED
  BY <1>1 DEF Places, BlocksOf

\* The places of what is added are those there were, and one for each step added.
LEMMA AddPlaces ==
    ASSUME NEW cfg, Stepped(cfg), NEW steps, IsSeq(steps)
    PROVE  LET new == Add(cfg, steps)
               n == Len(cfg[Len(cfg)].steps)
           IN /\ Stepped(new) /\ Len(new) = Len(cfg) /\ n \in Nat
              /\ \A p \in Places(cfg) : p \in Places(new) /\ OpAt(new, p) = OpAt(cfg, p)
              /\ \A i \in 1..Len(steps) :
                    /\ <<Len(cfg) - 1, n + i>> \in Places(new)
                    /\ <<Len(cfg) - 1, n + i>> \notin Places(cfg)
                    /\ OpAt(new, <<Len(cfg) - 1, n + i>>) = steps[i].op
              /\ \A p \in Places(new) : p \in Places(cfg)
                    \/ \E i \in 1..Len(steps) : p = <<Len(cfg) - 1, n + i>>
              /\ MadeLinks(new) \subseteq MadeLinks(cfg)
<1> DEFINE new == Add(cfg, steps)
           l == Len(cfg)
           old == cfg[l].steps
           n == Len(old)
<1>1. /\ GraphOK(new) /\ Len(new) = l /\ l \in Nat /\ l > 0
      /\ \A b \in 1..l : SameLinks(new[b], cfg[b])
      /\ \A b \in 1..l : b # l => new[b] = cfg[b]
      /\ new[l].steps = old \o steps
  BY AddShape DEF Stepped
<1>2. IsSeq(old) /\ l \in 1..l
  BY <1>1 DEF Stepped
<1>0. n = Len(old) /\ old = cfg[l].steps
  OBVIOUS
<1> HIDE DEF old, n
<1>3. /\ IsSeq(old \o steps) /\ Len(old \o steps) = n + Len(steps)
      /\ \A i \in 1..n : (old \o steps)[i] = old[i]
      /\ \A i \in 1..Len(steps) : (old \o steps)[n + i] = steps[i]
      /\ n \in Nat /\ Len(steps) \in Nat
  <2>1. /\ IsSeq(old \o steps) /\ Len(old \o steps) = Len(old) + Len(steps)
        /\ \A i \in 1..Len(old) : (old \o steps)[i] = old[i]
        /\ \A i \in 1..Len(steps) : (old \o steps)[Len(old) + i] = steps[i]
    BY <1>2, SeqConcat
  <2>2. Len(old) \in Nat /\ Len(steps) \in Nat
    BY <1>2, SeqLength
  <2> QED
    BY <1>0, <2>1, <2>2
<1> HIDE DEF new
<1>4. Stepped(new)
  BY <1>1, <1>3 DEF Stepped
<1>5. BlocksOf(new) = BlocksOf(cfg)
  BY <1>1 DEF BlocksOf
<1>6. ASSUME NEW p \in Places(cfg) PROVE p \in Places(new) /\ OpAt(new, p) = OpAt(cfg, p)
  <2>1. /\ p[1] \in Nat /\ p[2] \in Nat /\ p[1] + 1 \in 1..l
        /\ p[2] \in 1..Len(cfg[p[1] + 1].steps) /\ p \in BlocksOf(cfg) \X Nat
    BY PlaceIn DEF Places
  <2>2. CASE p[1] + 1 = l
    <3>1. p[2] \in 1..n
      BY <2>1, <2>2, <1>0
    <3>2. p[2] \in 1..Len(new[p[1] + 1].steps) /\ new[p[1] + 1].steps[p[2]] = cfg[p[1] + 1].steps[p[2]]
      <4>1. new[p[1] + 1].steps = old \o steps /\ cfg[p[1] + 1].steps = old
        BY <2>2, <1>0, <1>1
      <4>2. p[2] \in 1..(n + Len(steps))
        BY <3>1, <1>3
      <4> QED
        BY <4>1, <4>2, <3>1, <1>3
    <3> QED
      BY <2>1, <3>2, <1>5 DEF Places, OpAt
  <2>3. CASE p[1] + 1 # l
    BY <2>1, <2>3, <1>1, <1>5 DEF Places, OpAt
  <2> QED
    BY <2>2, <2>3
<1>7. ASSUME NEW i \in 1..Len(steps)
      PROVE  /\ <<l - 1, n + i>> \in Places(new) /\ <<l - 1, n + i>> \notin Places(cfg)
             /\ OpAt(new, <<l - 1, n + i>>) = steps[i].op
  <2> DEFINE q == <<l - 1, n + i>>
  <2>1. q[1] + 1 = l /\ q[2] = n + i /\ n + i \in Nat /\ n + i \in 1..(n + Len(steps)) /\ ~ (n + i <= n)
    BY <1>1, <1>3
  <2>2. q \in BlocksOf(new) \X Nat
    <3>1. l - 1 \in BlocksOf(new)
      BY <1>1 DEF BlocksOf
    <3> QED
      BY <2>1, <3>1
  <2> HIDE DEF q
  <2>3. q \in Places(new) /\ OpAt(new, q) = steps[i].op
    <3>1. new[q[1] + 1].steps = old \o steps
      BY <2>1, <1>1
    <3>2. q[2] \in 1..Len(new[q[1] + 1].steps)
      BY <2>1, <3>1, <1>3
    <3>3. new[q[1] + 1].steps[q[2]] = steps[i]
      BY <2>1, <3>1, <1>3
    <3> QED
      BY <2>2, <3>2, <3>3 DEF Places, OpAt
  <2>4. q \notin Places(cfg)
    <3>1. q \in Places(cfg) => q[2] \in 1..n
      BY <2>1, <1>0 DEF Places
    <3> QED
      BY <2>1, <3>1, <1>3
  <2> QED
    BY <2>3, <2>4 DEF q
<1>8. ASSUME NEW p \in Places(new), p \notin Places(cfg)
      PROVE  \E i \in 1..Len(steps) : p = <<l - 1, n + i>>
  <2>1. /\ p[1] \in Nat /\ p[2] \in Nat /\ p[1] + 1 \in 1..l /\ p = <<p[1], p[2]>>
        /\ p[2] \in 1..Len(new[p[1] + 1].steps) /\ p \in BlocksOf(cfg) \X Nat
    BY <1>1, <1>4, <1>5, PlaceIn DEF Places
  <2>2. p[1] + 1 = l
    BY <2>1, <1>1, <1>8 DEF Places
  <2>3. p[2] \in 1..(n + Len(steps)) /\ p[2] \notin 1..n
    <3>1. new[p[1] + 1].steps = old \o steps /\ cfg[p[1] + 1].steps = old
      BY <2>2, <1>0, <1>1
    <3>2. p[2] \notin 1..Len(cfg[p[1] + 1].steps)
      BY <2>1, <1>8 DEF Places
    <3> QED
      BY <2>1, <3>1, <3>2, <1>0, <1>3
  <2>4. p[2] - n \in 1..Len(steps) /\ p[2] = n + (p[2] - n) /\ p[1] = l - 1
    <3>1. n \in Nat /\ Len(steps) \in Nat /\ p[1] \in Nat /\ l \in Nat
      BY <2>1, <1>1, <1>3
    <3>2. \A i, m, k \in Nat : i \in 1..(m + k) /\ i \notin 1..m => i - m \in 1..k /\ i = m + (i - m)
      OBVIOUS
    <3>3. p[1] = l - 1
      BY <2>2, <3>1
    <3> QED
      BY <2>1, <2>3, <3>1, <3>2, <3>3
  <2> QED
    BY <2>1, <2>4
<1>9. MadeLinks(new) \subseteq MadeLinks(cfg)
  <2>1. ASSUME NEW k \in MadeLinks(new) PROVE k \in MadeLinks(cfg)
    <3>1. k \in BlocksOf(cfg) \X BlocksOf(cfg) /\ k[2] \in Targets(new[k[1] + 1])
      BY <1>5 DEF MadeLinks
    <3>2. k[1] + 1 \in 1..l
      BY <3>1, <1>1 DEF BlocksOf
    <3>3. Targets(new[k[1] + 1]) = Targets(cfg[k[1] + 1])
      BY <3>2, <1>1 DEF SameLinks, Targets
    <3> QED
      BY <3>1, <3>3 DEF MadeLinks
  <2> QED
    BY <2>1
<1> QED
  BY <1>0, <1>1, <1>3, <1>4, <1>6, <1>7, <1>8, <1>9 DEF new

LEMMA AddSame ==
    ASSUME NEW cfg, Stepped(cfg), NEW steps, IsSeq(steps), NoEnds(steps)
    PROVE  Stepped(Add(cfg, steps)) /\ Same(cfg, Add(cfg, steps))
<1> DEFINE new == Add(cfg, steps)
           n == Len(cfg[Len(cfg)].steps)
<1>1. /\ Stepped(new) /\ Len(new) = Len(cfg) /\ n \in Nat
      /\ \A p \in Places(cfg) : p \in Places(new) /\ OpAt(new, p) = OpAt(cfg, p)
      /\ \A i \in 1..Len(steps) : OpAt(new, <<Len(cfg) - 1, n + i>>) = steps[i].op
      /\ \A p \in Places(new) : p \in Places(cfg)
            \/ \E i \in 1..Len(steps) : p = <<Len(cfg) - 1, n + i>>
      /\ MadeLinks(new) \subseteq MadeLinks(cfg)
  BY AddPlaces
<1>2. Len(cfg) \in Nat
  BY SeqLength DEF Stepped, GraphOK
<1> HIDE DEF new, n
<1>3. EndsOf(new) \subseteq EndsOf(cfg)
  BY <1>1 DEF EndsOf, NoEnds
<1>4. BlocksOf(new) = BlocksOf(cfg) /\ Len(cfg) <= Len(new)
  BY <1>1, <1>2 DEF BlocksOf
<1> QED
  BY <1>1, <1>3, <1>4 DEF Same, new

LEMMA BlockSame ==
    ASSUME NEW cfg, Stepped(cfg)
    PROVE  Stepped(add_bb(cfg)) /\ Same(cfg, add_bb(cfg)) /\ Len(add_bb(cfg)) = Len(cfg) + 1
<1> DEFINE new == add_bb(cfg)
           l == Len(cfg)
<1>1. /\ GraphOK(new) /\ Len(new) = l + 1 /\ l \in Nat /\ l > 0
      /\ \A b \in 1..l : new[b] = cfg[b]
      /\ new[l + 1] = EmptyBlock
  BY BlockShape DEF Stepped
<1>2. EmptyBlock.steps = <<>> /\ Targets(EmptyBlock) = {NoBlock}
  BY DEF EmptyBlock, Targets
<1> HIDE DEF new
<1>3. IsSeq(<<>>) /\ Len(<<>>) = 0
  BY DEF IsSeq
<1>4. \A b \in 1..(l + 1) : b \in 1..l \/ b = l + 1
  BY <1>1
<1>5. Stepped(new)
  BY <1>1, <1>2, <1>3, <1>4 DEF Stepped
<1>6. BlocksOf(cfg) \subseteq BlocksOf(new) /\ \A b \in BlocksOf(cfg) : b + 1 \in 1..l
  BY <1>1 DEF BlocksOf
<1>7. ASSUME NEW p \in Places(cfg) PROVE p \in Places(new) /\ OpAt(new, p) = OpAt(cfg, p)
  <2>1. p \in BlocksOf(cfg) \X Nat /\ p[2] \in 1..Len(cfg[p[1] + 1].steps)
    BY DEF Places
  <2>2. new[p[1] + 1] = cfg[p[1] + 1] /\ p \in BlocksOf(new) \X Nat
    BY <2>1, <1>1, <1>6
  <2> QED
    BY <2>1, <2>2 DEF Places, OpAt
<1>8. ASSUME NEW p \in Places(new) PROVE p \in Places(cfg)
  <2>1. /\ p \in BlocksOf(new) \X Nat /\ p[2] \in 1..Len(new[p[1] + 1].steps)
        /\ p[1] + 1 \in 1..(l + 1)
    BY <1>1 DEF Places, BlocksOf
  <2>2. p[1] + 1 # l + 1
    BY <2>1, <1>1, <1>2, <1>3
  <2>3. p[1] + 1 \in 1..l /\ p[1] \in BlocksOf(cfg)
    BY <2>1, <2>2, <1>1 DEF BlocksOf
  <2> QED
    BY <2>1, <2>3, <1>1 DEF Places
<1>9. MadeLinks(new) \subseteq MadeLinks(cfg)
  <2>1. ASSUME NEW k \in MadeLinks(new) PROVE k \in MadeLinks(cfg)
    <3>1. /\ k \in BlocksOf(new) \X BlocksOf(new) /\ k[2] \in Targets(new[k[1] + 1])
          /\ k[1] + 1 \in 1..(l + 1) /\ k[2] \in Nat
      BY <1>1 DEF MadeLinks, BlocksOf
    <3>2. k[1] + 1 # l + 1
      BY <3>1, <1>1, <1>2 DEF NoBlock
    <3>3. k[1] + 1 \in 1..l /\ k[1] \in BlocksOf(cfg)
      BY <3>1, <3>2, <1>1 DEF BlocksOf
    <3>4. k[2] \in Targets(cfg[k[1] + 1])
      BY <3>1, <3>3, <1>1
    <3>5. k[2] \in Links(cfg)
      BY <3>3, <3>4 DEF Stepped, GraphOK, BlockOK, Targets
    <3>6. k[2] \in BlocksOf(cfg)
      BY <3>1, <3>5 DEF Links, NoBlock
    <3> QED
      BY <3>1, <3>3, <3>4, <3>6 DEF MadeLinks
  <2> QED
    BY <2>1
<1>10. EndsOf(new) \subseteq EndsOf(cfg)
  BY <1>7, <1>8 DEF EndsOf
<1> QED
  BY <1>1, <1>5, <1>6, <1>7, <1>9, <1>10 DEF Same, new

LEMMA SameTwice ==
    ASSUME NEW a, NEW b, NEW c, Same(a, b), Same(b, c), Len(a) \in Nat, Len(b) \in Nat, Len(c) \in Nat
    PROVE  Same(a, c)
BY DEF Same

\* The ends, and the lengths, are the same.
LEMMA SameEnds ==
    ASSUME NEW cfg, NEW new, Same(cfg, new)
    PROVE  EndsOf(new) = EndsOf(cfg) /\ \A x \in EndsOf(cfg) : OpAt(new, x) = OpAt(cfg, x)
BY DEF Same, EndsOf

LEMMA NestedSame ==
    ASSUME NEW cfg, Stepped(cfg), NEW new, Same(cfg, new), NEW links, NEW M, Nested(cfg, links, M),
           NEW fewer, fewer \subseteq links
    PROVE  Nested(new, fewer, M)
<1>1. EndsOf(new) = EndsOf(cfg) /\ \A x \in EndsOf(cfg) : OpAt(new, x) = OpAt(cfg, x)
  BY SameEnds
<1>2. Matches(new, M)
  <2>1. ASSUME NEW x \in EndsOf(new)
        PROVE  /\ M[x] \in Places(new) /\ M[x][1] < x[1]
               /\ OpAt(new, M[x]) = BeginOf(OpAt(new, x))
    <3>1. x \in EndsOf(cfg) /\ OpAt(new, x) = OpAt(cfg, x)
      BY <1>1
    <3>2. M[x] \in Places(cfg) /\ M[x][1] < x[1] /\ OpAt(cfg, M[x]) = BeginOf(OpAt(cfg, x))
      BY <3>1 DEF Nested, Matches
    <3> QED
      BY <3>1, <3>2 DEF Same
  <2> QED
    BY <1>1, <2>1 DEF Matches, Nested
<1>3. \A l \in fewer : LinkOK(new, M, l)
  BY <1>1 DEF Nested, LinkOK
<1> QED
  BY <1>2, <1>3 DEF Nested

\* What an if or a while that is not at its end has of the graph: its own begin, without
\* an end, and, when its body is in progress, the body's first block.
KindBegin(kind) == IF kind \in {"while", "do"} THEN "meta_begin_while" ELSE "meta_begin_if_else"
Within(cfg, M, b) == \A x \in EndsOf(cfg) : x[1] < b \/ b <= M[x][1]
OpenAt(a, cfg, links, M) ==
    /\ \E p \in Places(cfg) : /\ p[1] = a.pre /\ OpAt(cfg, p) = KindBegin(a.kind)
                              /\ \A x \in EndsOf(cfg) : M[x] # p
    /\ \A l \in links : a.pre < l[2] => a.pre <= l[1]
    /\ a.kind \in Bodies =>
          /\ a.pre < Len(cfg) - 1
          /\ a.body # NoBlock => a.pre < a.body /\ Within(cfg, M, a.body)

LEMMA OpenSame ==
    ASSUME NEW cfg, NEW new, Same(cfg, new), Len(cfg) \in Nat, Len(new) \in Nat,
           NEW links, NEW M, NEW fewer, fewer \subseteq links,
           NEW a, a.pre \in Nat, OpenAt(a, cfg, links, M)
    PROVE  OpenAt(a, new, fewer, M)
<1>1. EndsOf(new) = EndsOf(cfg)
  BY SameEnds
<1>2. \E p \in Places(new) : /\ p[1] = a.pre /\ OpAt(new, p) = KindBegin(a.kind)
                             /\ \A x \in EndsOf(new) : M[x] # p
  BY <1>1 DEF OpenAt, Same
<1>3. a.pre < Len(cfg) - 1 => a.pre < Len(new) - 1
  BY DEF Same
<1>4. \A l \in fewer : a.pre < l[2] => a.pre <= l[1]
  BY DEF OpenAt
<1> QED
  BY <1>1, <1>2, <1>3, <1>4 DEF OpenAt, Within

\* M2 gives the new end e the begin p.
Closes(cfg, new, M, M2, p, e) ==
    /\ e \in EndsOf(new) /\ e \notin EndsOf(cfg) /\ e[1] = Len(cfg) - 1 /\ M2[e] = p
    /\ EndsOf(cfg) \subseteq EndsOf(new)
    /\ \A x \in EndsOf(new) : x = e \/ (x \in EndsOf(cfg) /\ M2[x] = M[x])
    /\ BlocksOf(new) = BlocksOf(cfg) /\ Len(new) = Len(cfg)
    /\ \A q \in Places(cfg) : q \in Places(new) /\ OpAt(new, q) = OpAt(cfg, q)
    /\ MadeLinks(new) \subseteq MadeLinks(cfg)

LEMMA NestedEnd ==
    ASSUME NEW cfg, Stepped(cfg), NEW r, NEW s, r.op \notin EndOps, s.op \in EndOps,
           NEW links, links \subseteq BlocksOf(cfg) \X BlocksOf(cfg), NEW M, Nested(cfg, links, M),
           NEW p \in Places(cfg), OpAt(cfg, p) = BeginOf(s.op), p[1] < Len(cfg) - 1,
           \A x \in EndsOf(cfg) : M[x] # p,
           \A l \in links : p[1] < l[2] => p[1] <= l[1]
    PROVE  LET new == Add(cfg, <<r, s>>)
           IN /\ Stepped(new)
              /\ \E e, M2 : Closes(cfg, new, M, M2, p, e) /\ Nested(new, links, M2)
<1> DEFINE steps == <<r, s>>
           new == Add(cfg, steps)
           n == Len(cfg[Len(cfg)].steps)
           e == <<Len(cfg) - 1, n + 2>>
           M2 == [x \in EndsOf(new) |-> IF x = e THEN p ELSE M[x]]
<1>1. IsSeq(steps) /\ Len(steps) = 2 /\ steps[1] = r /\ steps[2] = s
  <2>1. steps \in Seq({r, s})
    OBVIOUS
  <2> QED
    BY <2>1 DEF IsSeq
<1> HIDE DEF steps
<1>2. /\ Stepped(new) /\ Len(new) = Len(cfg) /\ n \in Nat
      /\ \A q \in Places(cfg) : q \in Places(new) /\ OpAt(new, q) = OpAt(cfg, q)
      /\ \A i \in 1..Len(steps) :
            /\ <<Len(cfg) - 1, n + i>> \in Places(new)
            /\ <<Len(cfg) - 1, n + i>> \notin Places(cfg)
            /\ OpAt(new, <<Len(cfg) - 1, n + i>>) = steps[i].op
      /\ \A q \in Places(new) : q \in Places(cfg)
            \/ \E i \in 1..Len(steps) : q = <<Len(cfg) - 1, n + i>>
      /\ MadeLinks(new) \subseteq MadeLinks(cfg)
  BY <1>1, AddPlaces
<1>3. Len(cfg) \in Nat
  BY SeqLength DEF Stepped, GraphOK
<1> HIDE DEF new, n
<1>4. e \in Places(new) /\ e \notin Places(cfg) /\ OpAt(new, e) = s.op
  <2>1. 2 \in 1..Len(steps)
    BY <1>1
  <2> QED
    BY <2>1, <1>1, <1>2
<1>5. e[1] = Len(cfg) - 1 /\ e \in EndsOf(new) /\ e \notin EndsOf(cfg)
  BY <1>4 DEF EndsOf
<1>6. ASSUME NEW x \in EndsOf(new) PROVE x = e \/ x \in EndsOf(cfg)
  <2>1. CASE x \in Places(cfg)
    BY <2>1, <1>2 DEF EndsOf
  <2>2. CASE x \notin Places(cfg)
    <3>1. PICK i \in 1..Len(steps) : x = <<Len(cfg) - 1, n + i>>
      BY <2>2, <1>2 DEF EndsOf
    <3>2. OpAt(new, x) = steps[i].op /\ OpAt(new, x) \in EndOps
      BY <3>1, <1>2 DEF EndsOf
    <3>3. i = 1 \/ i = 2
      BY <1>1
    <3> QED
      BY <3>1, <3>2, <3>3, <1>1
  <2> QED
    BY <2>1, <2>2
<1>7. EndsOf(cfg) \subseteq EndsOf(new)
  BY <1>2 DEF EndsOf
<1> HIDE DEF e
<1>8. M2[e] = p /\ \A x \in EndsOf(cfg) : M2[x] = M[x]
  BY <1>5, <1>7
<1> HIDE DEF M2
<1>9. BlocksOf(new) = BlocksOf(cfg)
  BY <1>2 DEF BlocksOf
<1>10. Closes(cfg, new, M, M2, p, e)
  BY <1>2, <1>5, <1>6, <1>7, <1>8, <1>9 DEF Closes
<1>11. Matches(new, M2)
  <2>1. ASSUME NEW x \in EndsOf(new)
        PROVE  /\ M2[x] \in Places(new) /\ M2[x][1] < x[1]
               /\ OpAt(new, M2[x]) = BeginOf(OpAt(new, x))
    <3>1. CASE x = e
      BY <3>1, <1>2, <1>4, <1>5, <1>8
    <3>2. CASE x # e
      <4>1. x \in EndsOf(cfg) /\ M2[x] = M[x] /\ OpAt(new, x) = OpAt(cfg, x)
        BY <3>2, <1>2, <1>6, <1>8 DEF EndsOf
      <4>2. M[x] \in Places(cfg) /\ M[x][1] < x[1] /\ OpAt(cfg, M[x]) = BeginOf(OpAt(cfg, x))
        BY <4>1 DEF Nested, Matches
      <4> QED
        BY <4>1, <4>2, <1>2
    <3> QED
      BY <3>1, <3>2
  <2>2. ASSUME NEW x \in EndsOf(new), NEW y \in EndsOf(new), M2[x] = M2[y] PROVE x = y
    BY <1>6, <1>8, <2>2 DEF Nested, Matches
  <2> QED
    BY <2>1, <2>2 DEF Matches
<1>12. ASSUME NEW l \in links PROVE LinkOK(new, M2, l)
  <2>1. l[1] \in Nat /\ l[2] \in Nat /\ LinkOK(cfg, M, l)
    BY <1>3 DEF BlocksOf, Nested
  <2>2. ASSUME l[1] < l[2], NEW x \in EndsOf(new), M2[x][1] < l[2], l[2] <= x[1]
        PROVE  M2[x][1] <= l[1]
    <3>1. CASE x = e
      BY <3>1, <2>2, <1>8
    <3>2. CASE x # e
      BY <3>2, <2>1, <2>2, <1>6, <1>8 DEF LinkOK
    <3> QED
      BY <3>1, <3>2
  <2>3. ASSUME l[2] <= l[1] PROVE \E x \in EndsOf(new) : M2[x][1] = l[2] /\ l[1] <= x[1]
    <3>1. PICK x \in EndsOf(cfg) : M[x][1] = l[2] /\ l[1] <= x[1]
      BY <2>1, <2>3 DEF LinkOK
    <3> QED
      BY <3>1, <1>7, <1>8
  <2> QED
    BY <2>2, <2>3 DEF LinkOK
<1>13. Nested(new, links, M2)
  BY <1>11, <1>12 DEF Nested
<1> QED
  BY <1>2, <1>10, <1>13 DEF new, steps

\* The ifs and whiles around see an end that is after them.
LEMMA OpenEnd ==
    ASSUME NEW cfg, Stepped(cfg), NEW new, NEW links, NEW M, NEW M2, NEW p \in Places(cfg), NEW e,
           Closes(cfg, new, M, M2, p, e),
           NEW a, a.pre \in Nat, a.body \in BlocksOf(cfg) \cup {NoBlock}, a.kind \in Bodies,
           OpenAt(a, cfg, links, M), a.pre < p[1], a.body <= p[1]
    PROVE  OpenAt(a, new, links, M2)
<1>1. PICK q \in Places(cfg) : /\ q[1] = a.pre /\ OpAt(cfg, q) = KindBegin(a.kind)
                               /\ \A x \in EndsOf(cfg) : M[x] # q
  BY DEF OpenAt
<1>2. q \in Places(new) /\ OpAt(new, q) = OpAt(cfg, q)
  BY DEF Closes
<1>3. p # q
  <2>1. p[1] \in Nat
    BY PlaceIn
  <2> QED
    BY <1>1, <2>1
<1>4. \A x \in EndsOf(new) : M2[x] # q
  BY <1>1, <1>3 DEF Closes
<1>5. a.body # NoBlock => Within(new, M2, a.body)
  <2>1. ASSUME a.body # NoBlock, NEW x \in EndsOf(new) PROVE x[1] < a.body \/ a.body <= M2[x][1]
    BY <2>1 DEF Closes, OpenAt, Within
  <2> QED
    BY <2>1 DEF Within
<1> QED
  BY <1>1, <1>2, <1>4, <1>5 DEF OpenAt, Closes

-----------------------------------------------------------------------------
(* The same of the graph in progress, with the links that are pending, and of *)
(* those that are done. *)

Controls == Conds \cup Bodies
PendingLinks == {l \in BlocksOf(wip) \X BlocksOf(wip) :
                    \E i \in 1..Len(m_pending_links) : m_pending_links[i] = l}
AllLinks == MadeLinks(wip) \cup PendingLinks

Under(below, above) ==
    below.kind \in Bodies => below.pre < above.pre /\ below.body <= above.pre
OpenStack ==
    \A k \in 1..Len(activations) : activations[k].kind \in Controls =>
       \A j \in 1..(k - 1) : Under(activations[j], activations[k])
OpenAll(cfg, links, M) ==
    \A k \in 1..Len(activations) : activations[k].kind \in Controls =>
       OpenAt(activations[k], cfg, links, M)
Nests == \E M : Nested(wip, AllLinks, M) /\ OpenAll(wip, AllLinks, M)
Finished(cfg) == \E M : Nested(cfg, MadeLinks(cfg), M)
Closed == \A f \in 1..Len(m_result_cfgs) :
    f # Len(m_result_cfgs) \/ activations = <<>> => Finished(m_result_cfgs[f])
Proceeding == {"prepass", "lower", "skip", "link", "emit"}
Nesting == phase \in Proceeding =>
    /\ Closed /\ OpenStack /\ (activations # <<>> => Nests)
    /\ phase = "emit" => activations = <<>>

\* What an open if or while is.
LEMMA ControlOf ==
    ASSUME Inv, NEW k \in 1..Len(activations), activations[k].kind \in Controls
    PROVE  /\ activations[k].pre \in BlocksOf(wip) /\ activations[k].pre \in Nat
           /\ activations[k].kind \in Bodies => activations[k].body \in Links(wip)
<1>1. activations[k] \in Activation
  BY ElementOfSeq DEF Inv, Stack
<1>2. activations[k].pre \in BlocksOf(wip)
  BY <1>1 DEF Activation, Controls, Conds, Bodies
<1>3. activations[k].kind \in Bodies => activations[k].body \in Links(wip)
  BY <1>1 DEF Activation, Bodies
<1> QED
  BY <1>2, <1>3 DEF BlocksOf

\* Only the graph in progress changes, and grows.
GraphSame ==
    /\ Len(m_result_cfgs') = Len(m_result_cfgs)
    /\ \A f \in 1..Len(m_result_cfgs) : f # Len(m_result_cfgs) => m_result_cfgs'[f] = m_result_cfgs[f]
    /\ Same(wip, wip') /\ Len(wip) \in Nat /\ Len(wip') \in Nat

\* Ifs and whiles on the stack stay, or fail.
StackSame ==
    \A k \in 1..Len(activations') : activations'[k].kind \in Controls =>
       /\ k \in 1..Len(activations)
       /\ activations'[k].kind = activations[k].kind /\ activations'[k].pre = activations[k].pre
       /\ activations[k].kind \in Bodies =>
             activations'[k].body = activations[k].body \/ activations'[k].body = NoBlock

LEMMA LinksSame ==
    ASSUME Inv, activations # <<>>, GraphSame, UNCHANGED m_pending_links
    PROVE  AllLinks' \subseteq AllLinks
<1>1. ASSUME NEW l \in PendingLinks' PROVE l \in PendingLinks
  <2>1. /\ l \in BlocksOf(wip') \X BlocksOf(wip')
        /\ \E i \in 1..Len(m_pending_links) : m_pending_links[i] = l
    BY DEF PendingLinks, BlocksOf
  <2>2. l \in Links(wip) \X Links(wip)
    BY <2>1, ElementOfSeq DEF Inv, Pending
  <2>3. l[1] \in Nat /\ l[2] \in Nat
    BY <2>1 DEF BlocksOf, GraphSame
  <2>4. l \in BlocksOf(wip) \X BlocksOf(wip)
    BY <2>2, <2>3 DEF Links, NoBlock
  <2> QED
    BY <2>1, <2>4 DEF PendingLinks
<1>2. MadeLinks(wip)' \subseteq MadeLinks(wip)
  BY DEF GraphSame, Same, MadeLinks, BlocksOf, Targets
<1> QED
  BY <1>1, <1>2 DEF AllLinks

LEMMA OpenStackSame == ASSUME Inv, OpenStack, StackSame PROVE OpenStack'
<1>1. ASSUME NEW k \in 1..Len(activations'), activations'[k].kind \in Controls,
             NEW j \in 1..(k - 1), activations'[j].kind \in Bodies
      PROVE  activations'[j].pre < activations'[k].pre /\ activations'[j].body <= activations'[k].pre
  <2>1. /\ k \in 1..Len(activations) /\ activations[k].kind \in Controls
        /\ activations'[k].pre = activations[k].pre
    BY <1>1 DEF StackSame
  <2>2. j \in 1..Len(activations') /\ activations'[j].kind \in Controls
    <3>1. Len(activations) \in Nat
      BY LenProperties DEF Inv, Stack
    <3>2. k \in Nat /\ j \in 1..k
      BY <2>1, <3>1
    <3>3. \A n \in 1..k : n \in 1..Len(activations')
      BY <1>1, <3>2
    <3> QED
      BY <1>1, <3>2, <3>3 DEF Controls
  <2>3. /\ activations'[j].pre = activations[j].pre /\ activations[j].kind \in Bodies
        /\ activations'[j].body = activations[j].body \/ activations'[j].body = NoBlock
    BY <1>1, <2>2 DEF StackSame
  <2>4. activations[j].pre < activations[k].pre /\ activations[j].body <= activations[k].pre
    BY <2>1, <2>3 DEF OpenStack, Under
  <2>5. activations[k].pre \in Nat
    BY <2>1, ControlOf
  <2> QED
    BY <2>1, <2>3, <2>4, <2>5 DEF NoBlock
<1> QED
  BY <1>1 DEF OpenStack, Under

LEMMA ClosedSame ==
    ASSUME Closed, GraphSame, activations' # <<>> PROVE Closed'
BY DEF Closed, GraphSame

LEMMA NestingSame ==
    ASSUME Inv, Prepares, Nesting, activations # <<>>, activations' # <<>>, phase \in Proceeding,
           phase' # "emit", GraphSame, StackSame, UNCHANGED m_pending_links
    PROVE  Nesting'
<1>1. PICK M : Nested(wip, AllLinks, M) /\ OpenAll(wip, AllLinks, M)
  BY DEF Nesting, Nests
<1>2. AllLinks' \subseteq AllLinks
  BY LinksSame
<1>3. Stepped(wip)
  BY Running, WipSound, SteppedSound DEF Inv, Prepares
<1>4. Nested(wip', AllLinks', M)
  BY <1>1, <1>2, <1>3, NestedSame DEF GraphSame
<1>5. ASSUME NEW k \in 1..Len(activations'), activations'[k].kind \in Controls
      PROVE  OpenAt(activations'[k], wip', AllLinks', M)
  <2> DEFINE a == activations[k]
             b == activations'[k]
  <2>1. /\ k \in 1..Len(activations) /\ b.kind = a.kind /\ b.pre = a.pre
        /\ a.kind \in Bodies => b.body = a.body \/ b.body = NoBlock
    BY <1>5 DEF StackSame
  <2>2. a.pre \in Nat /\ OpenAt(a, wip, AllLinks, M)
    BY <1>1, <1>5, <2>1, ControlOf DEF OpenAll
  <2>3. OpenAt(a, wip', AllLinks', M)
    BY <1>2, <2>2, OpenSame DEF GraphSame
  <2> HIDE DEF a, b
  <2>4. OpenAt(b, wip', AllLinks', M)
    BY <2>1, <2>3 DEF OpenAt
  <2> QED
    BY <2>4 DEF b
<1>6. Nests'
  BY <1>4, <1>5 DEF Nests, OpenAll
<1>7. OpenStack' /\ Closed'
  BY OpenStackSame, ClosedSame DEF Nesting
<1> QED
  BY <1>6, <1>7 DEF Nesting

-----------------------------------------------------------------------------
(* Steps that are no ends are added, if any, and no if or while is touched. *)

Plain(steps) == IsSeq(steps) /\ NoEnds(steps)
Calm ==
    /\ (\E steps : Plain(steps) /\ Emits(steps)) \/ UNCHANGED m_result_cfgs
    /\ \/ UNCHANGED activations
       \/ \E a : a.kind \notin Controls /\ (Enter(a) \/ Turn(a))
       \/ Leave /\ top.kind # "function"
    /\ UNCHANGED m_pending_links

LEMMA SameSelf == ASSUME NEW cfg, Stepped(cfg) PROVE Same(cfg, cfg)
BY SeqLength DEF Same, Stepped, GraphOK

\* The graph in progress becomes one that has grown.
LEMMA GraphGrown ==
    ASSUME Inv, Prepares, activations # <<>>, NEW cfg, Becomes(cfg), Same(wip, cfg), Stepped(cfg)
    PROVE  GraphSame
<1>1. Graphs /\ m_result_cfgs # <<>> /\ GraphOK(wip)
  BY Running, WipSound DEF Inv, Prepares
<1>2. LET n == Len(m_result_cfgs)
      IN /\ n \in Nat /\ n \in 1..n /\ Len(m_result_cfgs') = n /\ wip' = cfg
         /\ \A f \in 1..n : m_result_cfgs'[f] = IF f = n THEN cfg ELSE m_result_cfgs[f]
  BY <1>1, BecomesShape
<1>3. Len(wip) \in Nat /\ Len(cfg) \in Nat
  BY <1>1, SeqLength DEF Stepped, GraphOK
<1> QED
  BY <1>2, <1>3 DEF GraphSame

LEMMA CalmGraph == ASSUME Inv, Prepares, activations # <<>>, Calm PROVE GraphSame
<1>1. Stepped(wip) /\ Graphs /\ m_result_cfgs # <<>>
  BY Running, WipSound, SteppedSound DEF Inv, Prepares
<1>2. CASE UNCHANGED m_result_cfgs
  <2>1. wip' = wip
    BY <1>2 DEF wip
  <2>2. Len(wip) \in Nat
    BY <1>1, SeqLength DEF Stepped, GraphOK
  <2> QED
    BY <1>1, <1>2, <2>1, <2>2, SameSelf DEF GraphSame
<1>3. ASSUME NEW steps, Plain(steps), Emits(steps) PROVE GraphSame
  BY <1>1, <1>3, AddSame, GraphGrown DEF Plain, Emits
<1> QED
  BY <1>2, <1>3 DEF Calm

LEMMA CalmStack ==
    ASSUME Inv, Prepares, activations # <<>>, Calm PROVE StackSame /\ activations' # <<>>
<1> DEFINE n == Len(activations)
<1>1. activations \in Seq(Activation) /\ n \in Nat
  BY LenProperties DEF Inv, Stack
<1>2. CASE UNCHANGED activations
  BY <1>2 DEF StackSame
<1>3. ASSUME NEW a, a.kind \notin Controls, Enter(a) PROVE StackSame /\ activations' # <<>>
  <2>1. /\ Len(activations') = n + 1 /\ activations'[n + 1] = a /\ activations' # <<>>
        /\ \A k \in 1..n : activations'[k] = activations[k]
    BY <1>1, <1>3, StackShape
  <2>2. \A k \in 1..(n + 1) : k \in 1..n \/ k = n + 1
    BY <1>1
  <2> QED
    BY <1>3, <2>1, <2>2 DEF StackSame
<1>4. ASSUME NEW a, a.kind \notin Controls, Turn(a) PROVE StackSame /\ activations' # <<>>
  <2>1. /\ Len(activations') = n /\ activations'[n] = a /\ activations' # <<>>
        /\ \A k \in 1..(n - 1) : activations'[k] = activations[k]
    BY <1>1, <1>4, StackShape
  <2>2. \A k \in 1..n : k \in 1..(n - 1) \/ k = n
    BY <1>1
  <2> QED
    BY <1>4, <2>1, <2>2 DEF StackSame
<1>5. ASSUME Leave, top.kind # "function" PROVE StackSame /\ activations' # <<>>
  <2>1. /\ Len(activations') = n - 1
        /\ \A k \in 1..(n - 1) : activations'[k] = activations[k]
    BY <1>1, <1>5, StackShape
  <2>2. activations' # <<>>
    BY <1>5, LeftTop DEF Prepares
  <2>3. \A k \in 1..(n - 1) : k \in 1..n
    BY <1>1
  <2> QED
    BY <2>1, <2>2, <2>3 DEF StackSame
<1> QED
  BY <1>2, <1>3, <1>4, <1>5 DEF Calm

LEMMA CalmNests ==
    ASSUME Inv, Prepares, Nesting, activations # <<>>, phase \in {"lower", "skip"}, phase' # "emit", Calm
    PROVE  Nesting'
BY CalmGraph, CalmStack, NestingSame DEF Calm, Proceeding

-----------------------------------------------------------------------------
(* Expressions, and the statements that are no ifs and whiles. *)

LEMMA PlainNone == Plain(<<>>)
<1>1. Len(<<>>) = 0
  OBVIOUS
<1> QED
  BY <1>1 DEF Plain, NoEnds, IsSeq

LEMMA PlainOne == ASSUME NEW s, s.op \notin EndOps PROVE Plain(<<s>>)
<1>1. <<s>> \in Seq({s}) /\ Len(<<s>>) = 1 /\ <<s>>[1] = s
  OBVIOUS
<1>2. \A i \in 1..1 : i = 1
  OBVIOUS
<1> QED
  BY <1>1, <1>2 DEF Plain, NoEnds, IsSeq

LEMMA PlainTwo ==
    ASSUME NEW r, NEW s, r.op \notin EndOps, s.op \notin EndOps PROVE Plain(<<r, s>>)
<1>1. <<r, s>> \in Seq({r, s}) /\ Len(<<r, s>>) = 2 /\ <<r, s>>[1] = r /\ <<r, s>>[2] = s
  OBVIOUS
<1>2. \A i \in 1..2 : i = 1 \/ i = 2
  OBVIOUS
<1> QED
  BY <1>1, <1>2 DEF Plain, NoEnds, IsSeq

LEMMA PlainThree ==
    ASSUME NEW r, NEW s, NEW t, r.op \notin EndOps, s.op \notin EndOps, t.op \notin EndOps
    PROVE  Plain(<<r, s, t>>)
<1>1. /\ <<r, s, t>> \in Seq({r, s, t}) /\ Len(<<r, s, t>>) = 3
      /\ <<r, s, t>>[1] = r /\ <<r, s, t>>[2] = s /\ <<r, s, t>>[3] = t
  OBVIOUS
<1>2. \A i \in 1..3 : i = 1 \/ i = 2 \/ i = 3
  OBVIOUS
<1> QED
  BY <1>1, <1>2 DEF Plain, NoEnds, IsSeq

LEMMA StepPlain == ASSUME NEW op, op \notin EndOps, NEW args PROVE Plain(<<Step(op, args)>>)
<1>1. Step(op, args).op = op
  BY DEF Step
<1> QED
  BY <1>1, PlainOne

LEMMA ExprCalm ==
    ASSUME Inv, Prepares, emit_expr
    PROVE  Calm /\ activations # <<>> /\ phase = "lower" /\ phase' = phase
<1>1. activations # <<>> /\ phase = "lower" /\ phase' = phase /\ UNCHANGED m_pending_links
  BY DEF emit_expr, emit_literal, emit_name, emit_string, begin_sequence, sequence_item,
     end_sequence, emit_unary, emit_binary, emit_assign, begin_call, call_argument, end_call,
     NoLiteral, InExpression
<1>2. CASE emit_literal \/ emit_name
  BY <1>1, <1>2 DEF emit_literal, emit_name, Calm
<1>3. CASE emit_string \/ emit_assign \/ sequence_item
  <2>1. \/ \E op \in {"make_str", "nop", "seq_obj_push"} : \E args : Emits(<<Step(op, args)>>)
        \/ UNCHANGED m_result_cfgs
    BY <1>3 DEF emit_string, emit_assign, sequence_item
  <2>2. UNCHANGED activations
    BY <1>3 DEF emit_string, emit_assign, sequence_item
  <2> QED
    BY <1>1, <2>1, <2>2, StepPlain DEF Calm, EndOps
<1>4. CASE begin_sequence
  <2> DEFINE a == [kind |-> "sequence", base |-> Len(values), dest |-> Temp]
  <2>1. a.kind \notin Controls
    BY DEF Controls, Conds, Bodies
  <2>2. Enter(a) /\ Emits(<<Step("make_seq", <<Temp>>)>>)
    BY <1>4 DEF begin_sequence
  <2> QED
    BY <1>1, <2>1, <2>2, StepPlain DEF Calm, EndOps
<1>5. CASE end_sequence
  <2>1. Leave /\ top.kind = "sequence"
    BY <1>5 DEF end_sequence, In
  <2>2. Emits(<<Step("frz_seq_obj", <<top.dest>>)>>) \/ Emits(<<>>)
    BY <1>5 DEF end_sequence
  <2> QED
    BY <1>1, <2>1, <2>2, StepPlain, PlainNone DEF Calm, EndOps
<1>6. CASE emit_unary
  <2>1. Emits(<<Step("neg", <<value(got), value(got)>>)>>) \/ Emits(<<>>)
    BY <1>6 DEF emit_unary
  <2>2. UNCHANGED activations
    BY <1>6 DEF emit_unary
  <2> QED
    BY <1>1, <2>1, <2>2, StepPlain, PlainNone DEF Calm, EndOps
<1>7. CASE emit_binary
  <2>1. PICK e \in Offered :
          /\ e[1] = "binary"
          /\ Emits(<<Step(e[2], <<Temp>> \o Operands)>>) \/ UNCHANGED m_result_cfgs
    BY <1>7 DEF emit_binary
  <2>2. e[2] \notin EndOps
    <3>1. e[2] \in BinaryOps
      BY <1>1, <2>1, OfferedEvents DEF Prepares
    <3> QED
      BY <3>1 DEF BinaryOps, EndOps
  <2>3. UNCHANGED activations
    BY <1>7 DEF emit_binary
  <2> QED
    BY <1>1, <2>1, <2>2, <2>3, StepPlain DEF Calm
<1>8. CASE begin_call
  <2> DEFINE a == [kind |-> "call", base |-> Len(values) - 1, callee |-> value(got), argc |-> 0]
  <2>1. a.kind \notin Controls
    BY DEF Controls, Conds, Bodies
  <2>2. Enter(a) /\ UNCHANGED m_result_cfgs
    BY <1>8 DEF begin_call
  <2> QED
    BY <1>1, <2>1, <2>2 DEF Calm
<1>9. CASE call_argument
  <2> DEFINE a == [top EXCEPT !.argc = @ + 1]
  <2>1. top.kind = "call" /\ Turn(a) /\ Emits(<<Step("nop", <<Temp, value(1)>>)>>)
    BY <1>9 DEF call_argument, In, MovesTo
  <2>2. top \in [kind : {"call"}, base : Nat, callee : Addresses, argc : 0..m_next_local_aa]
    BY <1>1, <2>1, Running DEF Activation
  <2>3. a.kind \notin Controls
    BY <2>1, <2>2 DEF Controls, Conds, Bodies
  <2> QED
    BY <1>1, <2>1, <2>3, StepPlain DEF Calm, EndOps
<1>10. CASE end_call
  <2>1. Leave /\ top.kind = "call"
    BY <1>10 DEF end_call, In
  <2>2. \E op \in CallOps : \E args : Emits(<<Step(op, args)>>)
    BY <1>10 DEF end_call, CallOps
  <2> QED
    BY <1>1, <2>1, <2>2, StepPlain DEF Calm, EndOps, CallOps
<1> QED
  BY <1>2, <1>3, <1>4, <1>5, <1>6, <1>7, <1>8, <1>9, <1>10 DEF emit_expr

LEMMA ExprNests == ASSUME Inv, Prepares, Nesting, emit_expr PROVE Nesting'
BY ExprCalm, CalmNests

LEMMA PlainStmtCalm ==
    ASSUME Inv, Prepares, emit_expr_stmt \/ emit_def \/ emit_return \/ emit_break
    PROVE  Calm /\ activations # <<>> /\ phase = "lower" /\ phase' = phase
<1>1. /\ activations # <<>> /\ phase = "lower" /\ phase' = phase
      /\ UNCHANGED <<m_pending_links, activations>>
  BY DEF emit_expr_stmt, emit_def, emit_return, emit_break, InStatement, InControl
<1>2. \/ UNCHANGED m_result_cfgs \/ Emits(<<>>)
      \/ \E op \in {"nop", "ret"} : \E args : Emits(<<Step(op, args)>>)
      \/ Emits(<<Step("jump", <<Dud>>), Meta("meta_mark_break")>>)
  BY DEF emit_expr_stmt, emit_def, emit_return, emit_break
<1>3. Plain(<<Step("jump", <<Dud>>), Meta("meta_mark_break")>>)
  BY PlainTwo DEF Step, Meta, EndOps
<1> QED
  BY <1>1, <1>2, <1>3, StepPlain, PlainNone DEF Calm, EndOps

LEMMA PlainStmtNests ==
    ASSUME Inv, Prepares, Nesting, emit_expr_stmt \/ emit_def \/ emit_return \/ emit_break
    PROVE  Nesting'
BY PlainStmtCalm, CalmNests

LEMMA SkipNests ==
    ASSUME Inv, Prepares, Nesting,
           emit_lambda \/ fail_call \/ fail_operand \/ ignore_stmt \/ skip_event \/ end_block
    PROVE  Nesting'
<1>1. /\ activations # <<>> /\ phase \in {"lower", "skip"} /\ phase' \in {"lower", "skip"}
      /\ UNCHANGED <<m_pending_links, m_result_cfgs>>
  BY DEF emit_lambda, fail_call, fail_operand, ignore_stmt, skip_event, end_block, SkipsRest, Inv, Stages
<1>2. UNCHANGED activations \/ (Leave /\ top.kind # "function")
  BY DEF emit_lambda, fail_call, fail_operand, ignore_stmt, skip_event, end_block, In
<1>3. phase' # "emit" /\ Calm
  BY <1>1, <1>2 DEF Calm
<1> QED
  BY <1>1, <1>3, CalmNests

\* A body that fails has no block.
LEMMA FailedBlockOpen ==
    ASSUME NEW a \in Activation
    PROVE  /\ FailedBlock(a).kind = a.kind
           /\ a.kind \in Bodies => FailedBlock(a).pre = a.pre /\ FailedBlock(a).body = NoBlock
           /\ a.kind \in Conds => FailedBlock(a).pre = a.pre
<1>1. CASE a.kind \in {"then", "else", "do"}
  <2>1. a \in [kind : {"then", "else", "do"}, base : Nat, pre : BlocksOf(wip), body : Links(wip)]
    BY <1>1 DEF Activation
  <2> QED
    BY <2>1 DEF FailedBlock, Bodies, Conds
<1>2. CASE a.kind \notin {"then", "else", "do"}
  <2>1. FailedBlock(a) = a
    BY <1>2 DEF Activation, FailedBlock
  <2> QED
    BY <1>2, <2>1 DEF Bodies
<1> QED
  BY <1>1, <1>2

LEMMA FailNests == ASSUME Inv, Prepares, Nesting, fail_stmt PROVE Nesting'
<1>1. PICK e \in Offered :
          LET conditional == e[1] \in {"then", "do"}
              n == Len(activations) - (IF conditional THEN 1 ELSE 0)
              block == activations[n]
          IN /\ IF conditional THEN top.kind \in Conds ELSE top.kind \in Statements
             /\ \/ phase' = "failed"
                \/ /\ phase' = "skip" /\ block.kind # "function"
                   /\ activations' = Append(SubSeq(activations, 1, n - 1), FailedBlock(block))
  BY DEF fail_stmt, Comes, In, Conds
<1>2. activations # <<>> /\ phase = "lower" /\ UNCHANGED <<m_result_cfgs, m_pending_links>>
  BY DEF fail_stmt, Comes
<1> DEFINE conditional == e[1] \in {"then", "do"}
<1> DEFINE n == Len(activations) - (IF conditional THEN 1 ELSE 0)
<1> DEFINE block == activations[n]
           failed == FailedBlock(block)
<1>3. CASE phase' = "failed"
  BY <1>3 DEF Nesting, Proceeding
<1>4. CASE /\ phase' = "skip" /\ block.kind # "function"
           /\ activations' = Append(SubSeq(activations, 1, n - 1), failed)
  <2>1. /\ activations \in Seq(Activation) /\ Len(activations) \in Nat
        /\ IF top.kind = "function" THEN Len(activations) = 1 ELSE Len(activations) > 1
    BY <1>2, Running DEF Inv, Stack
  <2>2. n \in 1..Len(activations) /\ n \in Nat
    <3>1. CASE conditional
      <4>1. top.kind # "function" /\ n = Len(activations) - 1
        BY <1>1, <3>1 DEF Conds
      <4> QED
        BY <2>1, <4>1
    <3>2. CASE ~ conditional
      <4>1. n = Len(activations)
        BY <2>1, <3>2
      <4> QED
        BY <2>1, <4>1
    <3> QED
      BY <3>1, <3>2
  <2> HIDE DEF n
  <2>3. /\ failed.kind = block.kind
        /\ block.kind \in Bodies => failed.pre = block.pre /\ failed.body = NoBlock
        /\ block.kind \in Conds => failed.pre = block.pre
    BY <2>1, <2>2, ElementOfSeq, FailedBlockOpen
  <2> HIDE DEF failed
  <2>4. /\ Len(activations') = n /\ activations'[n] = failed /\ activations' # <<>>
        /\ \A k \in 1..(n - 1) : activations'[k] = activations[k]
    BY <1>4, <2>1, <2>2, UnwoundShape
  <2>5. StackSame
    <3>1. ASSUME NEW k \in 1..n, activations'[k].kind \in Controls
          PROVE  /\ k \in 1..Len(activations)
                 /\ activations'[k].kind = activations[k].kind /\ activations'[k].pre = activations[k].pre
                 /\ activations[k].kind \in Bodies =>
                       activations'[k].body = activations[k].body \/ activations'[k].body = NoBlock
      <4>0. k \in 1..Len(activations)
        BY <2>1, <2>2
      <4>1. CASE k = n
        BY <3>1, <4>0, <4>1, <2>3, <2>4 DEF Controls
      <4>2. CASE k # n
        <5>1. k \in 1..(n - 1)
          BY <4>2, <2>2
        <5> QED
          BY <4>0, <5>1, <2>4
      <4> QED
        BY <4>1, <4>2
    <3> QED
      BY <2>4, <3>1 DEF StackSame
  <2>6. GraphSame
    <3>1. (UNCHANGED m_result_cfgs) /\ wip' = wip
      BY <1>2 DEF wip
    <3>2. Stepped(wip)
      BY <1>2, Running, WipSound, SteppedSound DEF Inv, Prepares
    <3>3. Len(wip) \in Nat
      BY <3>2, SeqLength DEF Stepped, GraphOK
    <3> QED
      BY <3>1, <3>2, <3>3, SameSelf DEF GraphSame
  <2> QED
    BY <1>2, <1>4, <2>4, <2>5, <2>6, NestingSame DEF Proceeding
<1> QED
  BY <1>1, <1>3, <1>4

-----------------------------------------------------------------------------
(* Ifs and whiles *)

\* Links are added to those that are pending.
LEMMA LinksMore ==
    ASSUME Inv, MadeLinks(wip') \subseteq MadeLinks(wip), NEW X,
           \A i \in 1..Len(m_pending_links') :
              \/ \E j \in 1..Len(m_pending_links) : m_pending_links'[i] = m_pending_links[j]
              \/ m_pending_links'[i] \in X
    PROVE  \A l \in AllLinks' :
              l \in BlocksOf(wip') \X BlocksOf(wip') /\ (l \in AllLinks \/ l \in X)
<1>1. MadeLinks(wip)' = MadeLinks(wip') /\ BlocksOf(wip)' = BlocksOf(wip')
  BY DEF MadeLinks, BlocksOf, Targets
<1>2. ASSUME NEW l \in PendingLinks', l \notin X PROVE l \in PendingLinks
  <2>1. /\ l \in BlocksOf(wip') \X BlocksOf(wip')
        /\ \E i \in 1..Len(m_pending_links') : m_pending_links'[i] = l
    BY <1>1 DEF PendingLinks
  <2>2. PICK j \in 1..Len(m_pending_links) : m_pending_links[j] = l
    BY <2>1, <1>2
  <2>3. l \in Links(wip) \X Links(wip)
    BY <2>2, ElementOfSeq DEF Inv, Pending
  <2>4. l[1] >= 0 /\ l[2] >= 0
    BY <2>1 DEF BlocksOf
  <2>5. l \in BlocksOf(wip) \X BlocksOf(wip)
    BY <2>3, <2>4 DEF Links, NoBlock
  <2> QED
    BY <2>2, <2>5 DEF PendingLinks
<1>3. \A l \in AllLinks' : l \in MadeLinks(wip') \/ l \in PendingLinks'
  BY <1>1 DEF AllLinks
<1>4. \A l \in AllLinks' : l \in BlocksOf(wip') \X BlocksOf(wip')
  BY <1>1 DEF AllLinks, MadeLinks, PendingLinks
<1> QED
  BY <1>2, <1>3, <1>4 DEF AllLinks

\* A statement with a condition begins.
LEMMA BeginNests == ASSUME Inv, Prepares, Nesting, begin_if \/ begin_while PROVE Nesting'
<1> DEFINE n == Len(activations)
<1>0. PICK kind \in {"if", "while"} : \E steps :
          /\ Enter([kind |-> kind, base |-> Len(values), pre |-> newest_bb])
          /\ Emits(steps)
          /\ \/ kind = "if" /\ steps = <<Meta("meta_begin_if_else")>>
             \/ kind = "while" /\ steps = <<Meta("meta_begin_while"), Step("nop", <<>>)>>
  BY DEF begin_if, begin_while
<1>1. PICK steps :
          /\ Enter([kind |-> kind, base |-> Len(values), pre |-> newest_bb])
          /\ Emits(steps)
          /\ \/ kind = "if" /\ steps = <<Meta("meta_begin_if_else")>>
             \/ kind = "while" /\ steps = <<Meta("meta_begin_while"), Step("nop", <<>>)>>
  BY <1>0
<1> DEFINE a == [kind |-> kind, base |-> Len(values), pre |-> newest_bb]
<1>2. /\ activations # <<>> /\ phase = "lower" /\ phase' = "lower"
      /\ UNCHANGED m_pending_links /\ top.kind \in Statements
  BY DEF begin_if, begin_while, InControl, InStatement, In, Comes
<1>3. Plain(steps) /\ Len(steps) > 0 /\ 1 \in 1..Len(steps) /\ steps[1].op = KindBegin(kind)
  <2>1. CASE kind = "if" /\ steps = <<Meta("meta_begin_if_else")>>
    <3>1. Len(steps) = 1 /\ steps[1].op = KindBegin(kind)
      BY <2>1 DEF Meta, Step, KindBegin
    <3>2. Plain(steps)
      BY <2>1, PlainOne DEF Meta, Step, EndOps
    <3> QED
      BY <3>1, <3>2
  <2>2. CASE kind = "while" /\ steps = <<Meta("meta_begin_while"), Step("nop", <<>>)>>
    <3>1. Len(steps) = 2 /\ steps[1].op = KindBegin(kind)
      BY <2>2 DEF Meta, Step, KindBegin
    <3>2. Plain(steps)
      BY <2>2, PlainTwo DEF Meta, Step, EndOps
    <3> QED
      BY <3>1, <3>2
  <2> QED
    BY <1>1, <2>1, <2>2
<1>4. Graphs /\ m_result_cfgs # <<>> /\ GraphOK(wip) /\ Stepped(wip)
  BY <1>2, Running, WipSound, SteppedSound DEF Inv, Prepares
<1> DEFINE new == Add(wip, steps)
           m == Len(wip[Len(wip)].steps)
           q == <<Len(wip) - 1, m + 1>>
<1>5. /\ Stepped(new) /\ Same(wip, new) /\ Len(new) = Len(wip)
      /\ q \in Places(new) /\ q \notin Places(wip) /\ OpAt(new, q) = steps[1].op
  BY <1>3, <1>4, AddPlaces, AddSame DEF Plain
<1>6. wip' = new /\ GraphSame
  BY <1>1, <1>2, <1>4, <1>5, BecomesShape, GraphGrown DEF Emits
<1> HIDE DEF new, m
<1>7. PICK M : Nested(wip, AllLinks, M) /\ OpenAll(wip, AllLinks, M)
  BY <1>2 DEF Nesting, Nests, Proceeding
<1>8. AllLinks' \subseteq AllLinks
  BY <1>2, <1>6, LinksSame
<1>9. Nested(wip', AllLinks', M)
  BY <1>4, <1>7, <1>8, NestedSame, <1>6 DEF GraphSame
<1>10. /\ Len(activations') = n + 1 /\ activations'[n + 1] = a /\ activations' # <<>>
       /\ \A k \in 1..n : activations'[k] = activations[k]
       /\ n \in Nat /\ \A k \in 1..(n + 1) : k \in 1..n \/ k = n + 1
  <2>1. Enter(a) /\ n \in Nat
    BY <1>1, <1>2, Running
  <2> HIDE DEF a
  <2> QED
    BY <2>1, <1>2, StackShape DEF Inv, Stack
<1>11. a.pre = Len(wip) - 1 /\ a.kind = kind /\ Len(wip) \in Nat /\ Len(wip) > 0 /\ kind \notin Bodies
  <2>1. kind \notin Bodies
    BY DEF Bodies
  <2>2. Len(wip) \in Nat /\ Len(wip) > 0
    BY <1>4, SeqLength DEF GraphOK
  <2> QED
    BY <2>1, <2>2 DEF newest_bb
<1> HIDE DEF a
<1>12. OpenAt(a, wip', AllLinks', M)
  <2>1. \A x \in EndsOf(wip') : M[x] # q
    <3>1. \A x \in EndsOf(wip) : M[x] \in Places(wip)
      BY <1>7 DEF Nested, Matches
    <3>2. EndsOf(wip') \subseteq EndsOf(wip)
      BY <1>6 DEF GraphSame, Same
    <3> QED
      BY <3>1, <3>2, <1>5
  <2>2. q \in Places(wip') /\ q[1] = a.pre /\ OpAt(wip', q) = KindBegin(a.kind)
    BY <1>3, <1>5, <1>6, <1>11
  <2>3. \A l \in AllLinks' : ~ (a.pre < l[2])
    <3>1. \A l \in AllLinks' : l \in BlocksOf(wip) \X BlocksOf(wip)
      BY <1>8 DEF AllLinks, MadeLinks, PendingLinks
    <3> QED
      BY <3>1, <1>11 DEF BlocksOf
  <2> HIDE DEF q
  <2> QED
    BY <2>1, <2>2, <2>3, <1>11 DEF OpenAt
<1>13. ASSUME NEW k \in 1..Len(activations'), activations'[k].kind \in Controls
       PROVE  OpenAt(activations'[k], wip', AllLinks', M)
  <2>1. CASE k \in 1..n
    <3>1. activations'[k] = activations[k] /\ activations[k].kind \in Controls
      BY <1>10, <1>13, <2>1
    <3>2. OpenAt(activations[k], wip, AllLinks, M) /\ activations[k].pre \in Nat
      BY <2>1, <3>1, <1>7, ControlOf DEF OpenAll
    <3> QED
      BY <3>1, <3>2, <1>6, <1>8, OpenSame DEF GraphSame
  <2>2. CASE k = n + 1
    BY <2>2, <1>10, <1>12
  <2> QED
    BY <2>1, <2>2, <1>10
<1>14. OpenStack'
  <2>1. ASSUME NEW k \in 1..(n + 1), activations'[k].kind \in Controls,
               NEW j \in 1..(k - 1), activations'[j].kind \in Bodies
        PROVE  /\ activations'[j].pre < activations'[k].pre
               /\ activations'[j].body <= activations'[k].pre
    <3>1. j \in 1..n /\ activations'[j] = activations[j] /\ activations[j].kind \in Controls
      <4>1. j \in 1..n
        BY <1>10
      <4> QED
        BY <4>1, <2>1, <1>10 DEF Controls
    <3>2. CASE k \in 1..n
      BY <2>1, <3>1, <3>2, <1>2, <1>10 DEF Nesting, OpenStack, Under, Proceeding
    <3>3. CASE k = n + 1
      <4>1. OpenAt(activations[j], wip, AllLinks, M) /\ activations[j].body \in Links(wip)
        BY <2>1, <3>1, <1>7, ControlOf DEF OpenAll
      <4>2. activations[j].pre < Len(wip) - 1
        BY <2>1, <3>1, <4>1 DEF OpenAt
      <4>3. activations[j].body <= Len(wip) - 1
        BY <4>1, <1>11 DEF Links, BlocksOf, NoBlock
      <4> QED
        BY <3>1, <3>3, <4>2, <4>3, <1>10, <1>11
    <3> QED
      BY <3>2, <3>3, <1>10
  <2> QED
    BY <2>1, <1>10 DEF OpenStack, Under
<1>15. Closed'
  BY <1>2, <1>6, <1>10, ClosedSame DEF Nesting, Proceeding
<1>16. Nests'
  BY <1>9, <1>13 DEF Nests, OpenAll
<1> QED
  BY <1>2, <1>14, <1>15, <1>16 DEF Nesting

\* The stack around what is on top.
LEMMA Around ==
    ASSUME Inv, Prepares, OpenStack, activations # <<>>, top.kind \in Controls
    PROVE  LET n == Len(activations)
           IN /\ n \in Nat /\ n \in 1..n /\ activations[n] = top
              /\ \A k \in 1..n : k \in 1..(n - 1) \/ k = n
              /\ \A k \in 1..(n - 1) : activations[k].kind \in Controls =>
                    /\ k \in 1..n /\ activations[k].kind \in Bodies
                    /\ activations[k].pre \in Nat /\ activations[k].pre < top.pre
                    /\ activations[k].body \in Links(wip) /\ activations[k].body <= top.pre
<1> DEFINE n == Len(activations)
<1>1. n \in Nat /\ n \in 1..n /\ activations[n] = top
  BY Running DEF top
<1>2. \A k \in 1..n : k \in 1..(n - 1) \/ k = n
  BY <1>1
<1>3. ASSUME NEW k \in 1..(n - 1), activations[k].kind \in Controls
      PROVE  /\ k \in 1..n /\ activations[k].kind \in Bodies
             /\ activations[k].pre \in Nat /\ activations[k].pre < top.pre
             /\ activations[k].body \in Links(wip) /\ activations[k].body <= top.pre
  <2>1. k \in 1..n
    BY <1>1
  <2>2. activations[n].kind \in Statements \cup Conds
    BY <1>1 DEF Controls, Bodies, Statements
  <2>3. activations[k].kind \in Statements
    BY <1>1, <2>2 DEF Prepares, Layered
  <2>4. activations[k].kind \in Bodies
    BY <1>3, <2>3 DEF Statements, Controls, Conds, Bodies
  <2>5. Under(activations[k], activations[n])
    BY <1>1 DEF OpenStack
  <2> QED
    BY <1>1, <1>3, <2>1, <2>4, <2>5, ControlOf DEF Under
<1> QED
  BY <1>1, <1>2, <1>3

\* What is on top goes on with a body.
LEMMA TurnedNests ==
    ASSUME Inv, Prepares, OpenStack, activations # <<>>, top.kind \in Controls,
           NEW a, Turn(a), a.kind \in Bodies, a.pre = top.pre, NEW M, Nested(wip', AllLinks', M),
           OpenAt(a, wip', AllLinks', M),
           \A k \in 1..(Len(activations) - 1) : activations[k].kind \in Controls =>
              OpenAt(activations[k], wip', AllLinks', M)
    PROVE  OpenStack' /\ Nests' /\ activations' # <<>>
<1> DEFINE n == Len(activations)
<1>1. /\ n \in Nat /\ n \in 1..n /\ activations[n] = top
      /\ \A k \in 1..n : k \in 1..(n - 1) \/ k = n
      /\ \A k \in 1..(n - 1) : activations[k].kind \in Controls =>
            /\ k \in 1..n /\ activations[k].kind \in Bodies
            /\ activations[k].pre \in Nat /\ activations[k].pre < top.pre
            /\ activations[k].body \in Links(wip) /\ activations[k].body <= top.pre
  BY Around
<1>2. /\ Len(activations') = n /\ activations'[n] = a /\ activations' # <<>>
      /\ \A k \in 1..(n - 1) : activations'[k] = activations[k]
  BY StackShape DEF Inv, Stack
<1>3. ASSUME NEW k \in 1..n, activations'[k].kind \in Controls
      PROVE  OpenAt(activations'[k], wip', AllLinks', M)
  BY <1>1, <1>2, <1>3
<1>4. Nests'
  BY <1>2, <1>3 DEF Nests, OpenAll
<1>5. ASSUME NEW k \in 1..n, activations'[k].kind \in Controls,
             NEW j \in 1..(k - 1), activations'[j].kind \in Bodies
      PROVE  activations'[j].pre < activations'[k].pre /\ activations'[j].body <= activations'[k].pre
  <2>1. j \in 1..(n - 1) /\ activations'[j] = activations[j] /\ activations[j].kind \in Controls
    <3>1. j \in 1..(n - 1)
      BY <1>1
    <3> QED
      BY <3>1, <1>2, <1>5 DEF Controls
  <2>2. CASE k = n
    BY <2>1, <2>2, <1>1, <1>2
  <2>3. CASE k # n
    <3>1. k \in 1..(n - 1) /\ activations'[k] = activations[k]
      BY <2>3, <1>1, <1>2
    <3> QED
      BY <2>1, <3>1, <1>1, <1>5 DEF OpenStack, Under
  <2> QED
    BY <2>2, <2>3
<1>6. OpenStack'
  BY <1>2, <1>5 DEF OpenStack, Under
<1> QED
  BY <1>2, <1>4, <1>6

\* An open if or while that has its condition, or else branch, has a new body.
LEMMA NewBody ==
    ASSUME NEW cfg, Stepped(cfg), NEW new, Same(cfg, new), Len(new) = Len(cfg) + 1,
           NEW a, NEW b, a.pre \in BlocksOf(cfg), NEW links, NEW more, NEW M,
           OpenAt(a, cfg, links, M), b.pre = a.pre, KindBegin(b.kind) = KindBegin(a.kind),
           b.body = Len(cfg), \A l \in more : l \in links \/ a.pre <= l[1]
    PROVE  OpenAt(b, new, more, M)
<1>1. Len(cfg) \in Nat /\ a.pre \in Nat /\ a.pre <= Len(cfg) - 1
  BY SeqLength DEF Stepped, GraphOK, BlocksOf
<1>2. EndsOf(new) = EndsOf(cfg)
  BY SameEnds
<1>3. \E p \in Places(new) : /\ p[1] = b.pre /\ OpAt(new, p) = KindBegin(b.kind)
                             /\ \A x \in EndsOf(new) : M[x] # p
  BY <1>2 DEF OpenAt, Same
<1>4. \A l \in more : b.pre < l[2] => b.pre <= l[1]
  BY DEF OpenAt
<1>5. b.pre < Len(new) - 1 /\ b.pre < b.body
  BY <1>1
<1>6. Within(new, M, b.body)
  <2>1. ASSUME NEW x \in EndsOf(new) PROVE x[1] < b.body
    <3>1. x \in Places(cfg)
      BY <1>2 DEF EndsOf
    <3>2. x[1] \in BlocksOf(cfg)
      BY <3>1 DEF Places
    <3> QED
      BY <3>2, <1>1 DEF BlocksOf
  <2> QED
    BY <2>1 DEF Within
<1> QED
  BY <1>3, <1>4, <1>5, <1>6 DEF OpenAt

LEMMA BodyNests == ASSUME Inv, Prepares, Nesting, if_then \/ while_do PROVE Nesting'
<1>1. PICK kind \in {"then", "do"} :
          /\ Turn([kind |-> kind, base |-> top.base, pre |-> top.pre, body |-> newest_bb + 1])
          /\ top.kind = IF kind = "then" THEN "if" ELSE "while"
  BY DEF if_then, while_do, In
<1> DEFINE n == Len(activations)
           a == [kind |-> kind, base |-> top.base, pre |-> top.pre, body |-> newest_bb + 1]
<1>2. /\ activations # <<>> /\ phase = "lower" /\ phase' = "lower"
      /\ UNCHANGED m_pending_links
  BY DEF if_then, while_do, InControl, InStatement
<1>3. PICK op \in Checks :
          Becomes(add_bb(Add(wip, <<Step("jump_else", <<value(1), Dud>>), Meta(op)>>)))
  BY DEF if_then, while_do, Checks
<1> DEFINE steps == <<Step("jump_else", <<value(1), Dud>>), Meta(op)>>
           new == add_bb(Add(wip, steps))
<1>4. Plain(steps)
  BY PlainTwo DEF Step, Meta, EndOps, Checks
<1>5. Graphs /\ m_result_cfgs # <<>> /\ Stepped(wip) /\ Len(wip) \in Nat
  BY <1>2, Running, WipSound, SteppedSound, AddShape DEF Inv, Prepares
<1> HIDE DEF steps
<1>6. Stepped(new) /\ Same(wip, new) /\ Len(new) = Len(wip) + 1
  <2>1. /\ Stepped(Add(wip, steps)) /\ Same(wip, Add(wip, steps)) /\ Len(Add(wip, steps)) = Len(wip)
    BY <1>4, <1>5, AddSame, AddPlaces DEF Plain
  <2>2. Same(Add(wip, steps), new) /\ Stepped(new) /\ Len(new) = Len(wip) + 1
    BY <2>1, BlockSame
  <2> QED
    BY <1>5, <2>1, <2>2, SameTwice
<1>7. Becomes(new)
  BY <1>3 DEF steps
<1>8. wip' = new /\ GraphSame
  BY <1>2, <1>5, <1>6, <1>7, BecomesShape, GraphGrown
<1> HIDE DEF new
<1>9. PICK M : Nested(wip, AllLinks, M) /\ OpenAll(wip, AllLinks, M)
  BY <1>2 DEF Nesting, Nests, Proceeding
<1>10. AllLinks' \subseteq AllLinks
  BY <1>2, <1>8, LinksSame
<1>11. Nested(wip', AllLinks', M)
  BY <1>5, <1>8, <1>9, <1>10, NestedSame DEF GraphSame
<1>12. top.kind \in Controls /\ KindBegin(kind) = KindBegin(top.kind)
  BY <1>1 DEF Controls, Conds, KindBegin
<1>13. OpenStack
  BY <1>2 DEF Nesting, Proceeding
<1>14. /\ n \in Nat /\ n \in 1..n /\ activations[n] = top
       /\ \A k \in 1..(n - 1) : k \in 1..n
  BY <1>2, Running DEF top
<1>15. top.pre \in BlocksOf(wip) /\ OpenAt(top, wip, AllLinks, M)
  BY <1>9, <1>12, <1>14, ControlOf DEF OpenAll
<1>16. a.kind = kind /\ a.pre = top.pre /\ a.body = Len(wip) /\ Turn(a)
  BY <1>1, <1>5 DEF newest_bb
<1> HIDE DEF a
<1>17. OpenAt(a, wip', AllLinks', M)
  BY <1>5, <1>6, <1>8, <1>10, <1>12, <1>15, <1>16, NewBody
<1>18. ASSUME NEW k \in 1..(n - 1), activations[k].kind \in Controls
       PROVE  OpenAt(activations[k], wip', AllLinks', M)
  BY <1>8, <1>9, <1>10, <1>14, <1>18, ControlOf, OpenSame DEF OpenAll, GraphSame
<1>19. a.kind \in Bodies
  BY <1>16 DEF Bodies
<1>20. OpenStack' /\ Nests' /\ activations' # <<>>
  BY <1>2, <1>11, <1>12, <1>13, <1>16, <1>17, <1>18, <1>19, TurnedNests
<1> QED
  BY <1>2, <1>8, <1>20, ClosedSame DEF Nesting, Proceeding

LEMMA NestedMore ==
    ASSUME NEW cfg, NEW links, NEW M, Nested(cfg, links, M), NEW more,
           \A l \in more : l \in links \/ LinkOK(cfg, M, l)
    PROVE  Nested(cfg, more, M)
BY DEF Nested

LEMMA OpenMore ==
    ASSUME NEW a, NEW cfg, NEW links, NEW M, OpenAt(a, cfg, links, M), NEW more,
           \A l \in more : l \in links \/ a.pre <= l[1]
    PROVE  OpenAt(a, cfg, more, M)
<1>1. \A l \in more : a.pre < l[2] => a.pre <= l[1]
  BY DEF OpenAt
<1> QED
  BY <1>1 DEF OpenAt

\* The link to a body does not lead past a begin.
LEMMA BodyLink ==
    ASSUME NEW cfg, Stepped(cfg), NEW new, Same(cfg, new), NEW links, NEW M, Nested(cfg, links, M),
           NEW a, OpenAt(a, cfg, links, M),
           a.kind \in Bodies, a.pre \in Nat, a.body \in Nat
    PROVE  LinkOK(new, M, <<a.pre, a.body>>)
<1>1. EndsOf(new) = EndsOf(cfg)
  BY SameEnds
<1>2. a.pre < a.body /\ \A x \in EndsOf(cfg) : x[1] < a.body \/ a.body <= M[x][1]
  BY DEF OpenAt, Within, NoBlock
<1>3. ASSUME NEW x \in EndsOf(new), M[x][1] < a.body, a.body <= x[1] PROVE M[x][1] <= a.pre
  <2>1. x[1] < a.body \/ a.body <= M[x][1]
    BY <1>1, <1>2
  <2>2. x \in Places(cfg) /\ M[x] \in Places(cfg)
    BY <1>1 DEF EndsOf, Nested, Matches
  <2>3. x[1] \in Nat /\ M[x][1] \in Nat
    BY <2>2, PlaceIn
  <2> QED
    BY <1>3, <2>1, <2>3
<1> QED
  BY <1>2, <1>3 DEF LinkOK

LEMMA ElseNests == ASSUME Inv, Prepares, Nesting, if_else PROVE Nesting'
<1> DEFINE n == Len(activations)
           a == [top EXCEPT !.kind = "else", !.body = newest_bb + 1]
           steps == <<Step("jump", <<Dud>>), Meta("meta_mark_if_else_alt"), Step("nop", <<>>)>>
           new == add_bb(Add(wip, steps))
           link == <<top.pre, top.body>>
<1>1. /\ Turn(a) /\ top.kind = "then" /\ Becomes(new)
      /\ m_pending_links' = Append(m_pending_links, link)
  BY DEF if_else, In
<1>2. activations # <<>> /\ phase = "lower" /\ phase' = "lower"
  BY DEF if_else, InControl, InStatement
<1>4. Plain(steps)
  BY PlainThree DEF Step, Meta, EndOps
<1>5. Graphs /\ m_result_cfgs # <<>> /\ Stepped(wip) /\ Len(wip) \in Nat
  BY <1>2, Running, WipSound, SteppedSound, AddShape DEF Inv, Prepares
<1> HIDE DEF steps
<1>6. Stepped(new) /\ Same(wip, new) /\ Len(new) = Len(wip) + 1
  <2>1. /\ Stepped(Add(wip, steps)) /\ Same(wip, Add(wip, steps)) /\ Len(Add(wip, steps)) = Len(wip)
    BY <1>4, <1>5, AddSame, AddPlaces DEF Plain
  <2>2. Same(Add(wip, steps), new) /\ Stepped(new) /\ Len(new) = Len(wip) + 1
    BY <2>1, BlockSame
  <2> QED
    BY <1>5, <2>1, <2>2, SameTwice
<1>7. Becomes(new)
  BY <1>1
<1>8. wip' = new /\ GraphSame
  BY <1>2, <1>5, <1>6, <1>7, BecomesShape, GraphGrown
<1> HIDE DEF new
<1>9. PICK M : Nested(wip, AllLinks, M) /\ OpenAll(wip, AllLinks, M)
  BY <1>2 DEF Nesting, Nests, Proceeding
<1>10. OpenStack /\ top.kind \in Controls /\ top.kind \in Bodies
  BY <1>1, <1>2 DEF Nesting, Proceeding, Controls, Bodies
<1>11. /\ n \in Nat /\ n \in 1..n /\ activations[n] = top
       /\ \A k \in 1..(n - 1) : activations[k].kind \in Controls =>
             /\ k \in 1..n /\ activations[k].pre \in Nat /\ activations[k].pre < top.pre
  BY <1>2, <1>10, Around
<1>12. /\ top.pre \in BlocksOf(wip) /\ top.pre \in Nat /\ OpenAt(top, wip, AllLinks, M)
  BY <1>9, <1>10, <1>11, ControlOf DEF OpenAll
<1>13. \A l \in AllLinks' : l \in AllLinks \/ (l = link /\ top.body \in Nat)
  <2>1. \A i \in 1..Len(m_pending_links') :
           \/ \E j \in 1..Len(m_pending_links) : m_pending_links'[i] = m_pending_links[j]
           \/ m_pending_links'[i] \in {link}
    <3>1. m_pending_links \in Seq(Links(wip) \X Links(wip))
      BY DEF Inv, Pending
    <3>2. Len(m_pending_links) \in Nat
      BY <3>1
    <3>3. /\ Len(m_pending_links') = Len(m_pending_links) + 1
          /\ m_pending_links'[Len(m_pending_links) + 1] = link
          /\ \A i \in 1..Len(m_pending_links) : m_pending_links'[i] = m_pending_links[i]
      BY <1>1, <3>1
    <3>4. \A i \in 1..Len(m_pending_links') :
             i \in 1..Len(m_pending_links) \/ i = Len(m_pending_links) + 1
      BY <3>2, <3>3
    <3> QED
      BY <3>3, <3>4
  <2>2. MadeLinks(wip') \subseteq MadeLinks(wip)
    BY <1>8 DEF GraphSame, Same
  <2>3. \A l \in AllLinks' : l \in BlocksOf(wip') \X BlocksOf(wip') /\ (l \in AllLinks \/ l \in {link})
    BY <2>1, <2>2, LinksMore
  <2>4. \A l \in BlocksOf(wip') \X BlocksOf(wip') : l = link => top.body \in Nat
    BY DEF BlocksOf
  <2> QED
    BY <2>3, <2>4
<1>14. Nested(wip', AllLinks', M)
  <2>1. Nested(wip', AllLinks, M)
    BY <1>5, <1>8, <1>9, NestedSame DEF GraphSame
  <2>2. ASSUME top.body \in Nat PROVE LinkOK(wip', M, link)
    <3>1. Same(wip, wip') /\ Nested(wip, AllLinks, M)
      BY <1>8, <1>9 DEF GraphSame
    <3> HIDE DEF AllLinks
    <3> QED
      BY <2>2, <3>1, <1>5, <1>10, <1>12, BodyLink
  <2> HIDE DEF link
  <2> QED
    BY <1>13, <2>1, <2>2, NestedMore
<1>15. \A l \in AllLinks' : l \in AllLinks \/ top.pre <= l[1]
  BY <1>12, <1>13
<1> HIDE DEF link
<1>16. ASSUME NEW k \in 1..(n - 1), activations[k].kind \in Controls
       PROVE  OpenAt(activations[k], wip', AllLinks', M)
  <2>1. /\ k \in 1..n /\ activations[k].pre \in Nat /\ activations[k].pre < top.pre
    BY <1>11, <1>16
  <2>2. OpenAt(activations[k], wip', AllLinks, M)
    BY <1>8, <1>9, <1>16, <2>1, OpenSame DEF OpenAll, GraphSame
  <2>3. \A l \in AllLinks' : l \in AllLinks \/ activations[k].pre <= l[1]
    <3>1. \A l \in AllLinks' : l[1] \in Nat
      BY DEF AllLinks, MadeLinks, PendingLinks, BlocksOf
    <3> QED
      BY <1>12, <1>15, <2>1, <3>1
  <2> QED
    BY <2>2, <2>3, OpenMore
<1>17. a.kind = "else" /\ a.pre = top.pre /\ a.body = Len(wip) /\ Turn(a)
  <2>1. activations[n] \in Activation
    BY <1>11, ElementOfSeq DEF Inv, Stack
  <2>2. top \in [kind : {"then", "else", "do"}, base : Nat, pre : BlocksOf(wip), body : Links(wip)]
    BY <1>1, <1>11, <2>1 DEF Activation
  <2> QED
    BY <1>1, <1>5, <2>2 DEF newest_bb
<1> HIDE DEF a
<1>18. a.kind \in Bodies /\ KindBegin(a.kind) = KindBegin(top.kind)
  BY <1>1, <1>17 DEF Bodies, KindBegin
<1>19. OpenAt(a, wip', AllLinks', M)
  BY <1>5, <1>6, <1>8, <1>12, <1>15, <1>17, <1>18, NewBody
<1>20. OpenStack' /\ Nests' /\ activations' # <<>>
  BY <1>2, <1>10, <1>14, <1>16, <1>17, <1>18, <1>19, TurnedNests
<1> QED
  BY <1>2, <1>8, <1>20, ClosedSame DEF Nesting, Proceeding

\* The links of an if or a while that ends.
EndLinks(a, n) == {<<a.pre, a.body>>, <<a.body, n>>, <<a.pre, n>>, <<a.body, a.pre>>}

LEMMA EndLink ==
    ASSUME NEW old, Stepped(old), NEW cfg, Stepped(cfg), Same(old, cfg), NEW new, Stepped(new),
           NEW new2, Same(new, new2), NEW links, NEW M, NEW M2, NEW p, NEW e,
           NEW a, a.pre \in BlocksOf(old), a.body \in Links(old), a.kind \in Bodies,
           OpenAt(a, old, links, M), Nested(cfg, links, M), p[1] = a.pre, p \in Places(cfg),
           Closes(cfg, new, M, M2, p, e), Nested(new, links, M2),
           NEW l \in EndLinks(a, Len(old)), l \in BlocksOf(new2) \X BlocksOf(new2)
    PROVE  LinkOK(new2, M2, l) /\ l[1] \in Nat /\ a.pre <= l[1]
<1>1. /\ EndsOf(cfg) = EndsOf(old) /\ EndsOf(new2) = EndsOf(new)
  BY SameEnds
<1>2. /\ Len(old) \in Nat /\ Len(cfg) \in Nat /\ Len(old) <= Len(cfg)
      /\ a.pre \in Nat /\ a.pre < Len(old)
  <2>1. Len(old) \in Nat /\ Len(cfg) \in Nat
    BY SeqLength DEF Stepped, GraphOK
  <2>2. Len(old) <= Len(cfg)
    BY DEF Same
  <2>3. a.pre \in Nat /\ a.pre < Len(old)
    BY <2>1 DEF BlocksOf
  <2> QED
    BY <2>1, <2>2, <2>3
<1>3. a.body # NoBlock => /\ a.body \in Nat /\ a.body < Len(old) /\ a.pre < a.body
                          /\ \A x \in EndsOf(cfg) : x[1] < a.body \/ a.body <= M[x][1]
  BY <1>1, <1>2 DEF OpenAt, Within, Links, BlocksOf
<1>4. l[1] \in Nat /\ l[2] \in Nat
  BY DEF BlocksOf
<1>5. a.pre <= l[1] /\ (l[1] = a.pre \/ l[1] = a.body) /\ (a.pre = l[1] \/ l[1] < Len(old))
  BY <1>2, <1>3, <1>4 DEF EndLinks, NoBlock
<1>6. e \in EndsOf(new) /\ M2[e][1] = a.pre /\ e[1] = Len(cfg) - 1
  BY DEF Closes
<1>7. ASSUME NEW x \in EndsOf(new), x # e
      PROVE  /\ x \in EndsOf(cfg) /\ M2[x] = M[x] /\ M[x][1] \in Nat /\ x[1] \in Nat
             /\ x[1] < Len(old)
  <2>1. x \in EndsOf(cfg) /\ M2[x] = M[x]
    BY <1>7 DEF Closes
  <2>2. x \in Places(cfg) /\ M[x] \in Places(cfg) /\ x \in Places(old)
    BY <1>1, <2>1 DEF EndsOf, Nested, Matches
  <2>3. x[1] \in Nat /\ M[x][1] \in Nat /\ x[1] + 1 \in 1..Len(old)
    BY <2>2, PlaceIn
  <2> QED
    BY <1>2, <2>1, <2>3
<1>8. ASSUME l[1] < l[2], NEW x \in EndsOf(new), M2[x][1] < l[2], l[2] <= x[1]
      PROVE  M2[x][1] <= l[1]
  <2>1. CASE x = e
    BY <2>1, <1>2, <1>5, <1>6
  <2>2. CASE x # e
    <3>1. /\ x \in EndsOf(cfg) /\ M2[x] = M[x] /\ M[x][1] \in Nat /\ x[1] \in Nat
          /\ x[1] < Len(old)
      BY <2>2, <1>7
    <3>2. l[2] # Len(old)
      BY <3>1, <1>2, <1>8
    <3>3. l[2] # a.pre
      BY <1>2, <1>4, <1>5, <1>8
    <3>4. l = <<a.pre, a.body>>
      BY <3>2, <3>3 DEF EndLinks
    <3>5. l[2] = a.body /\ a.body \in Nat /\ a.body # NoBlock
      BY <3>4, <1>4 DEF NoBlock
    <3>6. x[1] < a.body \/ a.body <= M[x][1]
      BY <3>1, <3>5, <1>3
    <3> QED
      BY <3>1, <3>5, <3>6, <1>8
  <2> QED
    BY <2>1, <2>2
<1>9. ASSUME l[2] <= l[1] PROVE M2[e][1] = l[2] /\ l[1] <= e[1]
  <2>1. l = <<a.body, a.pre>>
    <3>1. l # <<a.pre, a.body>>
      BY <1>3, <1>4, <1>9 DEF NoBlock
    <3>2. l[2] # Len(old)
      BY <1>2, <1>4, <1>5, <1>9
    <3> QED
      BY <3>1, <3>2 DEF EndLinks
  <2>2. l[1] = a.body /\ l[2] = a.pre /\ a.body \in Nat
    BY <2>1, <1>4
  <2> QED
    BY <2>2, <1>2, <1>3, <1>6 DEF NoBlock
<1>10. LinkOK(new2, M2, l)
  BY <1>1, <1>6, <1>8, <1>9 DEF LinkOK
<1> QED
  BY <1>4, <1>5, <1>10

LEMMA ClosedNests ==
    ASSUME Inv, Prepares, Nesting, activations # <<>>, phase = "lower", phase' = "lower",
           top.kind \in Bodies, Leave,
           NEW cfg, Stepped(cfg), Same(wip, cfg),
           NEW r, NEW s, r.op \notin EndOps, s.op \in EndOps, BeginOf(s.op) = KindBegin(top.kind),
           NEW new, Stepped(new), Same(Add(cfg, <<r, s>>), new), Becomes(new),
           \A i \in 1..Len(m_pending_links') :
              \/ \E j \in 1..Len(m_pending_links) : m_pending_links'[i] = m_pending_links[j]
              \/ m_pending_links'[i] \in EndLinks(top, Len(wip))
    PROVE  Nesting'
<1> DEFINE n == Len(activations)
           N == Len(wip)
           X == EndLinks(top, N)
           mid == Add(cfg, <<r, s>>)
<1>1. Graphs /\ m_result_cfgs # <<>> /\ Stepped(wip) /\ N \in Nat
  BY Running, WipSound, SteppedSound, AddShape DEF Inv, Prepares
<1>2. PICK M : Nested(wip, AllLinks, M) /\ OpenAll(wip, AllLinks, M)
  BY DEF Nesting, Nests, Proceeding
<1>3. OpenStack /\ top.kind \in Controls
  BY DEF Nesting, Proceeding, Controls
<1>4. /\ n \in Nat /\ n \in 1..n /\ activations[n] = top
      /\ \A k \in 1..n : k \in 1..(n - 1) \/ k = n
      /\ \A k \in 1..(n - 1) : activations[k].kind \in Controls =>
            /\ k \in 1..n /\ activations[k].kind \in Bodies
            /\ activations[k].pre \in Nat /\ activations[k].pre < top.pre
            /\ activations[k].body \in Links(wip) /\ activations[k].body <= top.pre
  BY <1>3, Around
<1>5. /\ top.pre \in BlocksOf(wip) /\ top.pre \in Nat /\ top.body \in Links(wip)
      /\ OpenAt(top, wip, AllLinks, M)
  BY <1>2, <1>3, <1>4, ControlOf DEF OpenAll
<1>6. AllLinks \subseteq BlocksOf(wip) \X BlocksOf(wip)
  BY DEF AllLinks, MadeLinks, PendingLinks
<1>7. AllLinks \subseteq BlocksOf(cfg) \X BlocksOf(cfg) /\ Len(cfg) \in Nat /\ N <= Len(cfg)
  BY <1>6, SeqLength DEF Same, Stepped, GraphOK
<1> DEFINE links == AllLinks
<1> HIDE DEF links, mid, N
<1>8. Nested(cfg, links, M) /\ OpenAt(top, cfg, links, M)
  <2>1. Nested(wip, links, M) /\ OpenAt(top, wip, links, M) /\ links \subseteq links
    BY <1>2, <1>5 DEF links
  <2>2. Len(wip) \in Nat
    BY <1>1 DEF N
  <2> QED
    BY <2>1, <2>2, <1>1, <1>5, <1>7, NestedSame, OpenSame
<1>9. PICK p \in Places(cfg) : /\ p[1] = top.pre /\ OpAt(cfg, p) = KindBegin(top.kind)
                               /\ \A x \in EndsOf(cfg) : M[x] # p
  BY <1>8 DEF OpenAt
<1>10. p[1] < Len(cfg) - 1 /\ \A l \in links : p[1] < l[2] => p[1] <= l[1]
  BY <1>8, <1>9 DEF OpenAt
<1>11. links \subseteq BlocksOf(cfg) \X BlocksOf(cfg)
  BY <1>7 DEF links
<1>12. /\ Stepped(mid)
       /\ \E e, M2 : Closes(cfg, mid, M, M2, p, e) /\ Nested(mid, links, M2)
  BY <1>8, <1>9, <1>10, <1>11, NestedEnd DEF mid
<1>13. PICK e, M2 : Closes(cfg, mid, M, M2, p, e) /\ Nested(mid, links, M2)
  BY <1>12
<1>14. Same(mid, new) /\ Len(mid) \in Nat /\ Len(new) \in Nat
  BY <1>12, SeqLength DEF Stepped, GraphOK, mid
<1>15. Nested(new, links, M2)
  BY <1>12, <1>13, <1>14, NestedSame
<1>16. /\ wip' = new /\ Len(m_result_cfgs') = Len(m_result_cfgs)
       /\ \A f \in 1..Len(m_result_cfgs) : f # Len(m_result_cfgs) => m_result_cfgs'[f] = m_result_cfgs[f]
  BY <1>1, BecomesShape
<1>17. MadeLinks(new) \subseteq MadeLinks(wip)
  BY <1>13, <1>14 DEF Same, Closes
<1>18. \A l \in AllLinks' : l \in BlocksOf(new) \X BlocksOf(new) /\ (l \in links \/ l \in X)
  <2>1. \A i \in 1..Len(m_pending_links') :
           \/ \E j \in 1..Len(m_pending_links) : m_pending_links'[i] = m_pending_links[j]
           \/ m_pending_links'[i] \in X
    BY DEF N
  <2>2. MadeLinks(wip') \subseteq MadeLinks(wip)
    BY <1>16, <1>17
  <2> HIDE DEF X
  <2>3. \A l \in AllLinks' : l \in BlocksOf(wip') \X BlocksOf(wip') /\ (l \in AllLinks \/ l \in X)
    BY <2>1, <2>2, LinksMore
  <2> QED
    BY <2>3, <1>16 DEF links
<1>19. ASSUME NEW l \in AllLinks', l \notin links
       PROVE  LinkOK(new, M2, l) /\ l[1] \in Nat /\ top.pre <= l[1]
  <2>1. l \in EndLinks(top, Len(wip)) /\ l \in BlocksOf(new) \X BlocksOf(new)
    BY <1>18, <1>19 DEF N
  <2>2. OpenAt(top, wip, links, M)
    BY <1>5 DEF links
  <2> QED
    BY <2>1, <2>2, <1>1, <1>5, <1>8, <1>9, <1>12, <1>13, <1>14, EndLink
<1>20. Nested(wip', AllLinks', M2)
  <2>1. \A l \in AllLinks' : l \in links \/ LinkOK(new, M2, l)
    BY <1>19
  <2>2. Nested(new, AllLinks', M2)
    BY <2>1, <1>15, NestedMore
  <2> QED
    BY <2>2, <1>16
<1>21. ASSUME NEW k \in 1..(n - 1), activations[k].kind \in Controls
       PROVE  OpenAt(activations[k], wip', AllLinks', M2)
  <2> DEFINE b == activations[k]
  <2>1. /\ k \in 1..n /\ b.kind \in Bodies /\ b.pre \in Nat /\ b.pre < top.pre
        /\ b.body \in Links(wip) /\ b.body <= top.pre
    BY <1>4, <1>21
  <2>2. OpenAt(b, wip, links, M)
    BY <1>2, <1>21, <2>1 DEF OpenAll, links
  <2> HIDE DEF b
  <2>3. Len(wip) \in Nat
    BY <1>1 DEF N
  <2>4. OpenAt(b, cfg, links, M)
    BY <2>1, <2>2, <2>3, <1>7, OpenSame
  <2>5. b.body \in BlocksOf(cfg) \cup {NoBlock}
    BY <2>1 DEF Links, Same
  <2>6. OpenAt(b, mid, links, M2)
    BY <2>1, <2>4, <2>5, <1>9, <1>13, OpenEnd
  <2>7. OpenAt(b, new, links, M2)
    BY <2>1, <2>6, <1>14, OpenSame
  <2>8. \A l \in AllLinks' : l \in links \/ b.pre <= l[1]
    BY <2>1, <1>5, <1>19
  <2>9. OpenAt(b, new, AllLinks', M2)
    BY <2>7, <2>8, OpenMore
  <2> QED
    BY <2>9, <1>16 DEF b
<1>22. activations' # <<>>
  BY LeftTop DEF Prepares, Bodies
<1>23. Len(activations') = n - 1 /\ \A k \in 1..(n - 1) : activations'[k] = activations[k]
  BY StackShape DEF Inv, Stack
<1>24. Nests'
  BY <1>20, <1>21, <1>23 DEF Nests, OpenAll
<1>25. OpenStack'
  <2>1. ASSUME NEW k \in 1..(n - 1), activations'[k].kind \in Controls, NEW j \in 1..(k - 1)
        PROVE  Under(activations'[j], activations'[k])
    <3>1. k \in 1..n /\ j \in 1..(n - 1)
      BY <1>4
    <3> QED
      BY <3>1, <2>1, <1>3, <1>23 DEF OpenStack
  <2> QED
    BY <2>1, <1>23 DEF OpenStack
<1>26. Closed'
  BY <1>16, <1>22 DEF Nesting, Proceeding, Closed
<1> QED
  BY <1>24, <1>25, <1>26 DEF Nesting

\* Links that are appended are the old ones and the new ones.
LEMMA LinksAppended ==
    ASSUME NEW S, NEW old \in Seq(S), NEW new, IsSeq(new), NEW X, \A i \in 1..Len(new) : new[i] \in X
    PROVE  \A i \in 1..Len(old \o new) :
              (\E j \in 1..Len(old) : (old \o new)[i] = old[j]) \/ (old \o new)[i] \in X
<1>1. IsSeq(old) /\ Len(old) \in Nat /\ Len(new) \in Nat
  BY SeqLength DEF IsSeq
<1>2. /\ Len(old \o new) = Len(old) + Len(new)
      /\ \A i \in 1..Len(old) : (old \o new)[i] = old[i]
      /\ \A i \in 1..Len(new) : (old \o new)[Len(old) + i] = new[i]
  BY <1>1, SeqConcat
<1>3. \A m, k \in Nat : \A i \in 1..(m + k) : i \in 1..m \/ (i - m \in 1..k /\ i = m + (i - m))
  OBVIOUS
<1> QED
  BY <1>1, <1>2, <1>3

LEMMA EndNests == ASSUME Inv, Prepares, Nesting, end_if_else \/ end_if \/ end_while PROVE Nesting'
<1> DEFINE N == Len(wip)
           X == EndLinks(top, N)
           pending == m_pending_links
           nop == Step("nop", <<>>)
           ifEnd == Meta("meta_end_if_else")
           whileEnd == Meta("meta_end_while")
           again == <<Step("jump", <<Dud>>), Meta("meta_mark_continue")>>
           wider == add_bb(wip)
           turned == add_bb(Add(wip, again))
           ended == Add(wip, <<nop, ifEnd>>)
<1>1. activations # <<>> /\ phase = "lower" /\ phase' = "lower" /\ top.kind \in Bodies /\ Leave
  BY DEF end_if_else, end_if, end_while, InControl, InStatement, In, Bodies
<1>2. Stepped(wip) /\ Len(wip) \in Nat
  BY <1>1, Running, WipSound, SteppedSound, SeqLength DEF Inv, Prepares, Stepped, GraphOK
<1>3. /\ nop.op \notin EndOps /\ ifEnd.op \in EndOps /\ whileEnd.op \in EndOps
      /\ BeginOf(ifEnd.op) = "meta_begin_if_else" /\ BeginOf(whileEnd.op) = "meta_begin_while"
  BY DEF Step, Meta, EndOps, BeginOf
<1>4. IsSeq(<<nop, ifEnd>>) /\ IsSeq(<<nop, whileEnd>>) /\ Plain(again)
  <2>1. \A r, s : <<r, s>> \in Seq({r, s})
    OBVIOUS
  <2>2. \A r, s : IsSeq(<<r, s>>)
    BY <2>1 DEF IsSeq
  <2>3. Plain(again)
    BY PlainTwo DEF Step, Meta, EndOps
  <2> HIDE DEF nop, ifEnd, whileEnd
  <2> QED
    BY <2>2, <2>3
<1>5. newest_bb + 1 = N /\ newest_bb = N - 1
  BY <1>2 DEF newest_bb
<1>6. m_pending_links \in Seq(Links(wip) \X Links(wip))
  BY DEF Inv, Pending
<1>7. ASSUME NEW links, IsSeq(links), \A i \in 1..Len(links) : links[i] \in X,
             m_pending_links' = pending \o links
      PROVE  \A i \in 1..Len(m_pending_links') :
                \/ \E j \in 1..Len(m_pending_links) : m_pending_links'[i] = m_pending_links[j]
                \/ m_pending_links'[i] \in EndLinks(top, Len(wip))
  <2> HIDE DEF X
  <2>1. \A i \in 1..Len(pending \o links) :
              (\E j \in 1..Len(pending) : (pending \o links)[i] = pending[j]) \/ (pending \o links)[i] \in X
    BY <1>6, <1>7, LinksAppended
  <2> QED
    BY <1>7, <2>1 DEF X
<1>8. \A r, s, t : r \in X /\ s \in X /\ t \in X =>
         /\ IsSeq(<<r, s, t>>) /\ \A i \in 1..Len(<<r, s, t>>) : <<r, s, t>>[i] \in X
         /\ \A q : q \o <<r, s, t>> = q \o <<r, s, t>>
  <2> HIDE DEF X
  <2>1. \A r, s, t : /\ <<r, s, t>> \in Seq({r, s, t}) /\ Len(<<r, s, t>>) = 3
                     /\ <<r, s, t>>[1] = r /\ <<r, s, t>>[2] = s /\ <<r, s, t>>[3] = t
    OBVIOUS
  <2>2. \A i \in 1..3 : i = 1 \/ i = 2 \/ i = 3
    OBVIOUS
  <2> QED
    BY <2>1, <2>2 DEF IsSeq
<1>9. /\ <<top.pre, top.body>> \in X /\ <<top.body, newest_bb + 1>> \in X
      /\ <<top.pre, newest_bb + 1>> \in X /\ <<top.body, top.pre>> \in X
  BY <1>5 DEF EndLinks
<1> HIDE DEF X, N, pending
<1>10. CASE end_if_else
  <2> DEFINE r == <<top.pre, top.body>>
             s == <<top.body, newest_bb + 1>>
             mid == pending \o <<r>>
  <2>1. m_pending_links' = mid \o <<s>> /\ Becomes(add_bb(ended)) /\ top.kind = "else"
    BY <1>10 DEF end_if_else, In, PastElse, pending
  <2>2. \A i \in 1..Len(m_pending_links') :
            \/ \E j \in 1..Len(m_pending_links) : m_pending_links'[i] = m_pending_links[j]
            \/ m_pending_links'[i] \in EndLinks(top, Len(wip))
    <3> DEFINE S == X \cup (Links(wip) \X Links(wip))
    <3>1. r \in X /\ s \in X
      BY <1>9
    <3> HIDE DEF r, s
    <3>2. ASSUME NEW q \in X
          PROVE  <<q>> \in Seq(S) /\ IsSeq(<<q>>) /\ \A i \in 1..Len(<<q>>) : <<q>>[i] \in X
      <4>1. <<q>> \in Seq(S) /\ Len(<<q>>) = 1 /\ <<q>>[1] = q
        OBVIOUS
      <4>2. \A i \in 1..1 : i = 1
        OBVIOUS
      <4> QED
        BY <4>1, <4>2 DEF IsSeq
    <3>3. pending \in Seq(S)
      BY <1>6, SeqMonotonic DEF pending
    <3> HIDE DEF S
    <3>4. mid \in Seq(S)
      BY <3>1, <3>2, <3>3, ConcatProperties
    <3>5. \A i \in 1..Len(mid) : (\E j \in 1..Len(pending) : mid[i] = pending[j]) \/ mid[i] \in X
      BY <3>1, <3>2, <3>3, LinksAppended
    <3> HIDE DEF mid
    <3>6. \A i \in 1..Len(mid \o <<s>>) :
             (\E j \in 1..Len(mid) : (mid \o <<s>>)[i] = mid[j]) \/ (mid \o <<s>>)[i] \in X
      BY <3>1, <3>2, <3>4, LinksAppended
    <3> QED
      BY <2>1, <3>5, <3>6 DEF X, N, pending
  <2>3. Stepped(ended) /\ Stepped(add_bb(ended)) /\ Same(ended, add_bb(ended))
    <3>1. Stepped(ended)
      BY <1>2, <1>4, AddPlaces
    <3> QED
      BY <3>1, BlockSame
  <2>4. Same(wip, wip) /\ BeginOf(ifEnd.op) = KindBegin(top.kind)
    BY <1>2, <1>3, <2>1, SameSelf DEF KindBegin
  <2> DEFINE new == add_bb(ended)
  <2>5. Stepped(new) /\ Same(Add(wip, <<nop, ifEnd>>), new) /\ Becomes(new)
    BY <2>1, <2>3
  <2> HIDE DEF nop, ifEnd, new
  <2> QED
    BY <1>1, <1>2, <1>3, <2>2, <2>4, <2>5, ClosedNests
<1>11. CASE end_if
  <2> DEFINE links == <<<<top.pre, top.body>>, <<top.body, newest_bb + 1>>, <<top.pre, newest_bb + 1>>>>
             new == Add(wider, <<nop, ifEnd>>)
  <2>1. m_pending_links' = pending \o links /\ Becomes(new) /\ top.kind = "then"
    BY <1>11 DEF end_if, In, pending
  <2>2. IsSeq(links) /\ \A i \in 1..Len(links) : links[i] \in X
    BY <1>8, <1>9
  <2> HIDE DEF links
  <2>3. Stepped(wider) /\ Same(wip, wider)
    BY <1>2, BlockSame
  <2>4. Stepped(new) /\ Same(new, new)
    BY <1>4, <2>3, AddPlaces, SameSelf
  <2>5. BeginOf(ifEnd.op) = KindBegin(top.kind)
    BY <1>3, <2>1 DEF KindBegin
  <2>6. Same(Add(wider, <<nop, ifEnd>>), new)
    BY <2>4
  <2> HIDE DEF nop, ifEnd, new, wider
  <2> QED
    BY <1>1, <1>2, <1>3, <1>7, <2>1, <2>2, <2>3, <2>4, <2>5, <2>6, ClosedNests
<1>12. CASE end_while
  <2> DEFINE links == <<<<top.body, top.pre>>, <<top.pre, top.body>>, <<top.pre, newest_bb + 1>>>>
             new == Add(turned, <<nop, whileEnd>>)
  <2>1. m_pending_links' = pending \o links /\ Becomes(new) /\ top.kind = "do"
    BY <1>12 DEF end_while, In, pending
  <2>2. IsSeq(links) /\ \A i \in 1..Len(links) : links[i] \in X
    BY <1>8, <1>9
  <2> HIDE DEF links
  <2>3. Stepped(turned) /\ Same(wip, turned)
    <3> DEFINE mid == Add(wip, again)
    <3>1. Stepped(mid) /\ Same(wip, mid)
      BY <1>2, <1>4, AddSame DEF Plain
    <3>2. Stepped(turned) /\ Same(mid, turned)
      BY <3>1, BlockSame
    <3>3. Len(mid) \in Nat /\ Len(turned) \in Nat
      BY <3>1, <3>2, SeqLength DEF Stepped, GraphOK
    <3> HIDE DEF mid, turned
    <3> QED
      BY <1>2, <3>1, <3>2, <3>3, SameTwice
  <2>4. Stepped(new) /\ Same(new, new)
    BY <1>4, <2>3, AddPlaces, SameSelf
  <2>5. BeginOf(whileEnd.op) = KindBegin(top.kind)
    BY <1>3, <2>1 DEF KindBegin
  <2>6. Same(Add(turned, <<nop, whileEnd>>), new)
    BY <2>4
  <2> HIDE DEF nop, whileEnd, new, turned
  <2> QED
    BY <1>1, <1>2, <1>3, <1>7, <2>1, <2>2, <2>3, <2>4, <2>5, <2>6, ClosedNests
<1> QED
  BY <1>10, <1>11, <1>12

LEMMA StmtNests == ASSUME Inv, Prepares, Nesting, emit_stmt PROVE Nesting'
BY PlainStmtNests, BeginNests, BodyNests, ElseNests, EndNests DEF emit_stmt

LEMMA PassNests == ASSUME Inv, Prepares, Nesting, pass_over PROVE Nesting'
BY SkipNests, FailNests DEF pass_over

-----------------------------------------------------------------------------
(* Functions, and the emitter. *)

LEMMA NestingStill ==
    ASSUME Nesting, phase \in Proceeding, UNCHANGED <<activations, m_pending_links, m_result_cfgs>>,
           phase' = "emit" => activations = <<>>
    PROVE  Nesting'
<1>1. wip' = wip
  BY DEF wip
<1>2. Closed' /\ OpenStack' /\ (activations' # <<>> => Nests')
  BY <1>1 DEF Nesting, Closed, Finished, OpenStack, Under, Nests, OpenAll, AllLinks, MadeLinks,
     PendingLinks, BlocksOf, Targets
<1> QED
  BY <1>2 DEF Nesting

LEMMA BeginFunctionNests == ASSUME Inv, Nesting, begin_function PROVE Nesting'
<1> DEFINE n == Len(m_result_cfgs)
           a == [kind |-> "function", base |-> 0]
           new == add_bb(<<>>)
<1>1. /\ activations = <<>> /\ phase = "lower" /\ phase' = "lower" /\ UNCHANGED m_pending_links
      /\ m_result_cfgs' = Append(m_result_cfgs, new) /\ Enter(a)
  BY DEF begin_function
<1>2. n \in Nat /\ IsSeq(m_result_cfgs) /\ m_pending_links = <<>>
  BY <1>1, SeqLength DEF Inv, Graphs, Stages
<1>3. /\ Len(m_result_cfgs') = n + 1 /\ m_result_cfgs'[n + 1] = new /\ m_result_cfgs' # <<>>
      /\ \A g \in 1..n : m_result_cfgs'[g] = m_result_cfgs[g]
  <2> HIDE DEF new
  <2> DEFINE t == Append(m_result_cfgs, new)
  <2>1. /\ IsSeq(t) /\ Len(t) = n + 1 /\ t # <<>> /\ t[Len(t)] = new
        /\ \A i \in 1..n : t[i] = m_result_cfgs[i]
    BY <1>2, SeqAppend
  <2>2. m_result_cfgs' = t
    BY <1>1
  <2> HIDE DEF t
  <2> QED
    BY <2>1, <2>2
<1>4. Len(new) = 1 /\ new[1] = EmptyBlock
  <2>1. new = <<EmptyBlock>>
    BY DEF add_bb
  <2> QED
    BY <2>1
<1> HIDE DEF new
<1>5. Places(new) = {} /\ MadeLinks(new) = {}
  <2>1. BlocksOf(new) = {0} /\ EmptyBlock.steps = <<>> /\ Targets(EmptyBlock) = {NoBlock}
    BY <1>4 DEF BlocksOf, EmptyBlock, Targets
  <2>2. Places(new) = {}
    <3> SUFFICES ASSUME NEW p \in Places(new) PROVE FALSE
      OBVIOUS
    <3>1. p[1] = 0 /\ p[2] \in 1..Len(new[p[1] + 1].steps)
      BY <2>1 DEF Places
    <3>2. new[p[1] + 1].steps = <<>>
      BY <2>1, <3>1, <1>4
    <3> QED
      BY <3>1, <3>2
  <2>3. MadeLinks(new) = {}
    <3> SUFFICES ASSUME NEW l \in MadeLinks(new) PROVE FALSE
      OBVIOUS
    <3>1. l[1] = 0 /\ l[2] = 0 /\ l[2] \in Targets(new[l[1] + 1])
      BY <2>1 DEF MadeLinks
    <3>2. l[2] = NoBlock
      BY <2>1, <3>1, <1>4
    <3> QED
      BY <3>1, <3>2 DEF NoBlock
  <2> QED
    BY <2>2, <2>3
<1>6. wip' = new
  BY <1>3 DEF wip
<1>7. AllLinks' = {}
  <2>1. m_pending_links' = <<>> /\ Len(m_pending_links') = 0
    BY <1>1, <1>2
  <2>2. PendingLinks' = {}
    BY <2>1 DEF PendingLinks
  <2>3. MadeLinks(wip)' = MadeLinks(new)
    BY <1>6 DEF MadeLinks, BlocksOf, Targets
  <2> QED
    BY <1>5, <2>2, <2>3 DEF AllLinks
<1>8. \A M : Nested(wip', AllLinks', M)
  <2>1. EndsOf(wip') = {}
    BY <1>5, <1>6 DEF EndsOf
  <2> QED
    BY <1>7, <2>1 DEF Nested, Matches
<1>9. Len(activations') = 1 /\ activations'[1] = a /\ a.kind = "function" /\ activations' # <<>>
  <2>1. activations' = <<a>>
    BY <1>1 DEF Enter
  <2> QED
    BY <2>1
<1>10. OpenStack' /\ \A cfg, links, M : OpenAll(cfg, links, M)'
  <2>1. \A k \in 1..Len(activations') : activations'[k].kind \notin Controls
    <3>1. \A k \in 1..1 : k = 1
      OBVIOUS
    <3> QED
      BY <3>1, <1>9 DEF Controls, Conds, Bodies
  <2> QED
    BY <2>1 DEF OpenStack, OpenAll
<1>11. Nests'
  <2>1. \E M : Nested(wip', AllLinks', M)
    BY <1>8
  <2>2. \A M : \A k \in 1..Len(activations') : activations'[k].kind \in Controls =>
           OpenAt(activations'[k], wip', AllLinks', M)
    <3>1. \A k \in 1..1 : k = 1
      OBVIOUS
    <3> QED
      BY <3>1, <1>9 DEF Controls, Conds, Bodies
  <2> QED
    BY <2>1, <2>2 DEF Nests, OpenAll
<1>12. Closed'
  <2>1. ASSUME NEW f \in 1..(n + 1), f # n + 1 PROVE Finished(m_result_cfgs'[f])
    <3>1. f \in 1..n /\ m_result_cfgs'[f] = m_result_cfgs[f]
      BY <2>1, <1>2, <1>3
    <3>2. Finished(m_result_cfgs[f])
      BY <3>1, <1>1 DEF Nesting, Proceeding, Closed
    <3> QED
      BY <3>1, <3>2
  <2> QED
    BY <2>1, <1>3, <1>9 DEF Closed
<1> QED
  BY <1>1, <1>10, <1>11, <1>12 DEF Nesting

\* A pending link is made.
LEMMA LinkNested ==
    ASSUME NEW cfg, GraphOK(cfg), NEW link \in Links(cfg) \X Links(cfg), link[1] # NoBlock,
           NEW links, NEW M, Nested(cfg, links, M)
    PROVE  LET new == link_bb(cfg, link)
           IN /\ BlocksOf(new) = BlocksOf(cfg)
              /\ \A l \in MadeLinks(new) : l \in MadeLinks(cfg) \/ l = link
              /\ \A fewer \in SUBSET links : Nested(new, fewer, M)
<1> DEFINE new == link_bb(cfg, link)
<1>1. /\ GraphOK(new) /\ Len(new) = Len(cfg) /\ Len(cfg) \in Nat
      /\ \A b \in 1..Len(cfg) :
            /\ new[b].steps = cfg[b].steps
            /\ \A t \in Targets(new[b]) :
                  t \in Targets(cfg[b]) \/ (b = link[1] + 1 /\ t = link[2])
  BY LinkShape
<1> HIDE DEF new
<1>2. BlocksOf(new) = BlocksOf(cfg) /\ \A b \in BlocksOf(cfg) : b + 1 \in 1..Len(cfg) /\ b \in Nat
  BY <1>1 DEF BlocksOf
<1>3. ASSUME NEW l \in MadeLinks(new), l \notin MadeLinks(cfg) PROVE l = link
  <2>1. /\ l \in BlocksOf(cfg) \X BlocksOf(cfg) /\ l[2] \in Targets(new[l[1] + 1])
        /\ l[2] \notin Targets(cfg[l[1] + 1])
    BY <1>2, <1>3 DEF MadeLinks
  <2>2. l[1] + 1 = link[1] + 1 /\ l[2] = link[2]
    BY <2>1, <1>1, <1>2
  <2>3. l[1] \in Nat /\ link[1] \in Int
    BY <2>1, <1>2 DEF Links, NoBlock
  <2>4. l[1] = link[1]
    BY <2>2, <2>3
  <2> QED
    BY <2>1, <2>2, <2>4
<1>4. Places(new) = Places(cfg) /\ \A p \in Places(cfg) : OpAt(new, p) = OpAt(cfg, p)
  BY <1>1, <1>2 DEF Places, OpAt
<1>5. EndsOf(new) = EndsOf(cfg) /\ EndsOf(cfg) \subseteq Places(cfg)
  BY <1>4 DEF EndsOf
<1>6. Matches(new, M)
  <2>1. ASSUME NEW x \in EndsOf(new)
        PROVE  /\ M[x] \in Places(new) /\ M[x][1] < x[1]
               /\ OpAt(new, M[x]) = BeginOf(OpAt(new, x))
    <3>1. x \in EndsOf(cfg) /\ x \in Places(cfg)
      BY <1>5
    <3>2. M[x] \in Places(cfg) /\ M[x][1] < x[1] /\ OpAt(cfg, M[x]) = BeginOf(OpAt(cfg, x))
      BY <3>1 DEF Nested, Matches
    <3> QED
      BY <3>1, <3>2, <1>4
  <2> QED
    BY <2>1, <1>5 DEF Matches, Nested
<1>7. ASSUME NEW fewer \in SUBSET links PROVE Nested(new, fewer, M)
  <2>1. \A l \in fewer : LinkOK(cfg, M, l)
    BY DEF Nested
  <2> QED
    BY <2>1, <1>5, <1>6 DEF Nested, LinkOK
<1> QED
  BY <1>2, <1>3, <1>7 DEF new

LEMMA LinkNests == ASSUME Inv, Prepares, Nesting, apply_pending_link PROVE Nesting'
<1> DEFINE link == Head(m_pending_links)
<1>1. /\ phase = "link" /\ m_pending_links # <<>> /\ UNCHANGED activations
      /\ \/ /\ link[1] # NoBlock /\ Becomes(link_bb(wip, link))
            /\ m_pending_links' = Tail(m_pending_links) /\ phase' = "link"
         \/ phase' = "undefined"
  BY DEF apply_pending_link
<1>2. CASE phase' = "undefined"
  BY <1>2 DEF Nesting, Proceeding
<1>3. CASE /\ link[1] # NoBlock /\ Becomes(link_bb(wip, link))
           /\ m_pending_links' = Tail(m_pending_links) /\ phase' = "link"
  <2>1. activations # <<>> /\ Len(activations) = 1 /\ activations[1].kind = "function"
    <3>1. Len(activations) = 1 /\ \A k \in 1..Len(activations) : activations[k].kind = "function" <=> k = 1
      BY <1>1 DEF Inv, Stages, Stack
    <3> QED
      BY <3>1, EmptySeq
  <2>2. Graphs /\ m_result_cfgs # <<>> /\ GraphOK(wip)
    BY <2>1, Running, WipSound DEF Inv, Prepares
  <2>3. /\ link \in Links(wip) \X Links(wip) /\ link = m_pending_links[1]
        /\ Len(m_pending_links) \in Nat /\ Len(m_pending_links) >= 1
        /\ Len(Tail(m_pending_links)) = Len(m_pending_links) - 1
        /\ \A i \in 1..Len(Tail(m_pending_links)) : Tail(m_pending_links)[i] = m_pending_links[i + 1]
    BY <1>1, HeadTailProperties, LenProperties, EmptySeq DEF Inv, Pending
  <2>4. PICK M : Nested(wip, AllLinks, M)
    BY <1>1, <2>1 DEF Nesting, Nests, Proceeding
  <2> DEFINE new == link_bb(wip, link)
  <2> HIDE DEF link
  <2>5. /\ BlocksOf(new) = BlocksOf(wip)
        /\ \A l \in MadeLinks(new) : l \in MadeLinks(wip) \/ l = link
        /\ \A fewer \in SUBSET AllLinks : Nested(new, fewer, M)
    BY <1>3, <2>2, <2>3, <2>4, LinkNested
  <2>6. /\ wip' = new /\ Len(m_result_cfgs') = Len(m_result_cfgs)
        /\ \A f \in 1..Len(m_result_cfgs) : f # Len(m_result_cfgs) => m_result_cfgs'[f] = m_result_cfgs[f]
    BY <1>3, <2>2, BecomesShape
  <2> HIDE DEF new
  <2>7. MadeLinks(wip)' \subseteq AllLinks
    <3>1. MadeLinks(wip)' = MadeLinks(new)
      BY <2>6 DEF MadeLinks, BlocksOf, Targets
    <3>2. ASSUME NEW l \in MadeLinks(new), l = link PROVE l \in PendingLinks
      <4>1. l \in BlocksOf(wip) \X BlocksOf(wip)
        BY <2>5 DEF MadeLinks
      <4>2. 1 \in 1..Len(m_pending_links)
        BY <2>3
      <4> QED
        BY <3>2, <4>1, <4>2, <2>3 DEF PendingLinks
    <3> QED
      BY <3>1, <3>2, <2>5 DEF AllLinks
  <2>8. PendingLinks' \subseteq AllLinks
    <3>1. ASSUME NEW l \in PendingLinks' PROVE l \in PendingLinks
      <4>1. /\ l \in BlocksOf(wip) \X BlocksOf(wip)
            /\ \E i \in 1..Len(m_pending_links') : m_pending_links'[i] = l
        BY <2>5, <2>6 DEF PendingLinks, BlocksOf
      <4>2. PICK i \in 1..Len(m_pending_links') : m_pending_links'[i] = l
        BY <4>1
      <4>3. i + 1 \in 1..Len(m_pending_links) /\ m_pending_links[i + 1] = l
        BY <4>2, <1>3, <2>3
      <4> QED
        BY <4>1, <4>3 DEF PendingLinks
    <3> QED
      BY <3>1 DEF AllLinks
  <2>9. Nested(wip', AllLinks', M)
    <3>1. AllLinks' \in SUBSET AllLinks
      BY <2>7, <2>8 DEF AllLinks
    <3>2. Nested(new, AllLinks', M)
      BY <2>5, <3>1
    <3> QED
      BY <2>6, <3>2
  <2>10. \A k \in 1..Len(activations') : activations'[k].kind \notin Controls
    <3>1. \A k \in 1..1 : k = 1
      OBVIOUS
    <3> QED
      BY <3>1, <1>1, <2>1 DEF Controls, Conds, Bodies
  <2>11. Nests' /\ OpenStack'
    BY <2>9, <2>10 DEF Nests, OpenAll, OpenStack
  <2>12. Closed'
    BY <1>1, <2>1, <2>6 DEF Nesting, Proceeding, Closed
  <2> QED
    BY <1>3, <2>11, <2>12 DEF Nesting
<1> QED
  BY <1>1, <1>2, <1>3

LEMMA LeaveNests == ASSUME Inv, Prepares, Nesting, leave_function PROVE Nesting'
<1>1. /\ phase = "link" /\ phase' = "lower" /\ m_pending_links = <<>> /\ Leave
      /\ UNCHANGED m_result_cfgs
  BY DEF leave_function
<1>2. Len(activations) = 1 /\ activations # <<>>
  BY <1>1, EmptySeq DEF Inv, Stages
<1>3. Len(activations') = 0
  BY <1>1, <1>2, StackShape DEF Inv, Stack
<1>4. activations' = <<>>
  <2>1. activations' = SubSeq(activations, 1, 0)
    BY <1>1, <1>2 DEF Leave
  <2>2. SubSeq(activations, 1, 0) \in Seq(Activation)
    BY <1>2, SeqShorter DEF Inv, Stack
  <2> QED
    BY <1>3, <2>1, <2>2, EmptySeq
<1>5. Finished(wip)
  <2>1. PendingLinks = {}
    <3>1. Len(m_pending_links) = 0
      BY <1>1
    <3> QED
      BY <3>1 DEF PendingLinks
  <2> QED
    BY <1>1, <1>2, <2>1 DEF Nesting, Proceeding, Nests, AllLinks, Finished
<1>6. Closed'
  <2>1. \A f \in 1..Len(m_result_cfgs) : f # Len(m_result_cfgs) => Finished(m_result_cfgs[f])
    BY <1>1 DEF Nesting, Proceeding, Closed
  <2>2. m_result_cfgs # <<>>
    BY <1>2, Running
  <2>3. wip = m_result_cfgs[Len(m_result_cfgs)]
    BY <2>2 DEF wip
  <2> QED
    BY <1>1, <1>5, <2>1, <2>3 DEF Closed
<1>7. OpenStack'
  BY <1>3 DEF OpenStack
<1> QED
  BY <1>1, <1>4, <1>6, <1>7 DEF Nesting

LEMMA LowerNests == ASSUME Inv, Prepares, Nesting, Lower PROVE Nesting'
<1>1. CASE emit_function_prepass \/ prepass_done \/ lowering_done \/ end_function
  <2>1. /\ phase \in Proceeding /\ UNCHANGED <<activations, m_pending_links, m_result_cfgs>>
        /\ phase' = "emit" => activations = <<>>
    BY <1>1 DEF emit_function_prepass, prepass_done, lowering_done, end_function, Proceeding
  <2> QED
    BY <2>1, NestingStill
<1> QED
  BY <1>1, BeginFunctionNests, LinkNests, LeaveNests, ExprNests, StmtNests, PassNests DEF Lower

LEMMA EmitNests == ASSUME Nesting, Emit PROVE Nesting'
<1>1. /\ phase = "emit" /\ UNCHANGED <<activations, m_pending_links, m_result_cfgs>>
      /\ phase' \in {"emit", "done", "undefined"}
  BY DEF Emit, begin_chunk, skip_visited, visit_bb, all_emitted, loweringVars, sourceVars
<1> QED
  BY <1>1, NestingStill DEF Proceeding, Nesting

LEMMA NestingStarts == CompilerInit => Nesting
<1> SUFFICES ASSUME CompilerInit PROVE Nesting
  OBVIOUS
<1>1. m_result_cfgs = <<>> /\ activations = <<>> /\ phase = "prepass"
  BY DEF CompilerInit, Init
<1>2. Len(m_result_cfgs) = 0 /\ Len(activations) = 0
  BY <1>1
<1> QED
  BY <1>1, <1>2 DEF Nesting, Closed, OpenStack

LEMMA NestingKeeps == Inv /\ Prepares /\ Nesting /\ [Next]_vars => Nesting'
<1> SUFFICES ASSUME Inv, Prepares, Nesting, [Next]_vars PROVE Nesting'
  OBVIOUS
<1>1. CASE UNCHANGED vars
  <2>1. UNCHANGED <<activations, m_pending_links, m_result_cfgs, phase>>
    BY <1>1 DEF vars, loweringVars
  <2> QED
    BY <2>1, NestingStill DEF Nesting
<1>2. CASE Next
  BY <1>2, LowerNests, EmitNests DEF Next
<1> QED
  BY <1>1, <1>2

-----------------------------------------------------------------------------
(* The chunks.  First what they are made of: in each, calls follow the move  *)
(* of their last argument, and jumps lead to 0 or to a nop.                   *)

NopAt(c, ip) == ip + 1 \in 1..Len(c) /\ c[ip + 1].op = "nop"
InstructionOK(c, k) == LET ins == c[k] IN
    /\ DOMAIN ins = {"op", "args", "at"} /\ IsSeq(ins.args)
    /\ ins.op # "jump_if"
    /\ ins.op # "nop" => ins.args # <<>>
    /\ ins.args # <<>> => ins.args[1][2] \in Nat
    /\ ins.op \in {"jump_else"} \cup CallOps => Len(ins.args) = 2 /\ ins.args[2][2] \in Nat
    /\ ins.op \in Jumps => JumpsTo(ins) = 0 \/ NopAt(c, JumpsTo(ins))
    /\ k > 1 /\ PassesArguments(ins) =>
          c[k - 1].op = "mov" /\ c[k - 1].args # <<>> /\ c[k - 1].args[1][2] >= Passed(ins) - 1
ChunkOK(c) == IsSeq(c) /\ \A k \in 1..Len(c) : InstructionOK(c, k)

LEMMA ChunkPrepared ==
    ASSUME NEW c, ChunkOK(c) PROVE Counted(c) /\ ArgumentsInPlace(c)
<1>1. DOMAIN c = 1..Len(c) /\ Len(c) \in Nat
  BY SeqLength DEF ChunkOK
<1>2. ASSUME NEW k \in 1..Len(c),
             NEW i \in Immediates(c[k].op) \cup (IF c[k].op \in {"nop", "halt"} THEN {} ELSE {1})
      PROVE  i \in DOMAIN c[k].args /\ c[k].args[i][2] \in Nat
  <2> DEFINE ins == c[k]
  <2>1. /\ IsSeq(ins.args) /\ ins.op # "jump_if"
        /\ ins.op # "nop" => ins.args # <<>>
        /\ ins.args # <<>> => ins.args[1][2] \in Nat
        /\ ins.op \in {"jump_else"} \cup CallOps => Len(ins.args) = 2 /\ ins.args[2][2] \in Nat
    BY DEF ChunkOK, InstructionOK
  <2>2. /\ DOMAIN ins.args = 1..Len(ins.args) /\ Len(ins.args) \in Nat
        /\ ins.args # <<>> => Len(ins.args) > 0
    BY <2>1, SeqLength
  <2>3. (i = 1 /\ ins.op # "nop") \/ (i = 2 /\ ins.op \in {"jump_else"} \cup CallOps)
    BY <1>2, <2>1 DEF Immediates, CallOps
  <2> HIDE DEF ins
  <2>4. CASE i = 1 /\ ins.op # "nop"
    <3>1. 1 \in 1..Len(ins.args)
      BY <2>1, <2>2, <2>4
    <3> QED
      BY <3>1, <2>1, <2>2, <2>4 DEF ins
  <2>5. CASE i = 2 /\ ins.op \in {"jump_else"} \cup CallOps
    <3>1. 2 \in 1..Len(ins.args)
      BY <2>1, <2>2, <2>5
    <3> QED
      BY <3>1, <2>1, <2>2, <2>5 DEF ins
  <2> QED
    BY <2>3, <2>4, <2>5
<1>3. Counted(c)
  BY <1>1, <1>2 DEF Counted
<1>4. ASSUME NEW k \in 1..Len(c), k > 1, PassesArguments(c[k]),
             NEW j \in 1..Len(c), c[j].op \in Jumps
      PROVE  JumpsTo(c[j]) # k - 1
  <2>1. JumpsTo(c[j]) = 0 \/ NopAt(c, JumpsTo(c[j]))
    BY <1>4 DEF ChunkOK, InstructionOK
  <2>2. c[k].op # "nop"
    BY <1>4 DEF PassesArguments, CallOps
  <2>3. ~ NopAt(c, k - 1)
    <3>1. k - 1 + 1 = k
      BY <1>1
    <3> QED
      BY <2>2, <3>1 DEF NopAt
  <2>4. k - 1 # 0
    BY <1>1, <1>4
  <2> QED
    BY <2>1, <2>3, <2>4
<1>5. ASSUME NEW k \in 1..Len(c), k > 1, PassesArguments(c[k])
      PROVE  c[k - 1].op = "mov" /\ c[k - 1].args[1][2] >= Passed(c[k]) - 1
  BY <1>5 DEF ChunkOK, InstructionOK
<1>6. ArgumentsInPlace(c)
  BY <1>1, <1>4, <1>5 DEF ArgumentsInPlace
<1> QED
  BY <1>3, <1>6

LEMMA NoInstructions == ChunkOK(<<>>)
<1>1. IsSeq(<<>>) /\ Len(<<>>) = 0
  BY EmptySeq DEF IsSeq
<1> QED
  BY <1>1 DEF ChunkOK

SameOps(c, d) == Len(d) = Len(c) /\ \A k \in 1..Len(c) : d[k].op = c[k].op

Replaces(new, old, i, x) == new = [old EXCEPT ![i] = x]

\* Instruction k goes to t.
Patched(c, d, k, t) ==
    /\ DOMAIN d[k] = DOMAIN c[k] /\ d[k].op = c[k].op
    /\ \/ d[k].args = c[k].args
       \/ /\ c[k].op = "jump" /\ NopAt(c, t)
          /\ Replaces(d[k].args, c[k].args, 1, <<"immediate", t>>)
       \/ /\ k = 1 \/ c[k].op = "jump_else"
          /\ NopAt(c, t)
          /\ Replaces(d[k].args, c[k].args, 2, <<"immediate", t>>)

LEMMA ExceptBeyond ==
    ASSUME NEW s, IsSeq(s), NEW i, i \notin 1..Len(s), NEW x
    PROVE  [s EXCEPT ![i] = x] = s
<1>1. PICK S : s \in Seq(S)
  BY DEF IsSeq
<1>2. s = [j \in 1..Len(s) |-> s[j]]
  BY <1>1, LenProperties
<1>3. [s EXCEPT ![i] = x] = [j \in DOMAIN s |-> IF j = i THEN x ELSE s[j]]
  OBVIOUS
<1>4. DOMAIN s = 1..Len(s)
  BY SeqLength
<1>5. \A j \in DOMAIN s : (IF j = i THEN x ELSE s[j]) = s[j]
  BY <1>4
<1> QED
  BY <1>2, <1>3, <1>4, <1>5

\* An argument is replaced where there is one.
LEMMA ReplacedWithin ==
    ASSUME NEW old, IsSeq(old), NEW i \in 1..Len(old), NEW x, NEW new, Replaces(new, old, i, x)
    PROVE  /\ IsSeq(new) /\ Len(new) = Len(old) /\ new # <<>> /\ new[i] = x
           /\ \A j \in 1..Len(old) : j # i => new[j] = old[j]
<1> DEFINE t == [old EXCEPT ![i] = x]
<1>1. /\ IsSeq(t) /\ Len(t) = Len(old) /\ t # <<>>
      /\ \A j \in 1..Len(old) : t[j] = IF j = i THEN x ELSE old[j]
  BY SeqExcept
<1>2. new = t
  BY DEF Replaces
<1> HIDE DEF t
<1>3. \A j \in 1..Len(old) : new[j] = IF j = i THEN x ELSE old[j]
  BY <1>1, <1>2
<1>4. new[i] = x /\ \A j \in 1..Len(old) : j # i => new[j] = old[j]
  BY <1>3
<1> QED
  BY <1>1, <1>2, <1>4

LEMMA ReplacedArgument ==
    ASSUME NEW old, IsSeq(old), NEW i \in {1, 2}, NEW x, NEW new, Replaces(new, old, i, x)
    PROVE  /\ IsSeq(new) /\ Len(new) = Len(old) /\ (new # <<>> <=> old # <<>>)
           /\ \A j \in 1..Len(old) : j # i => new[j] = old[j]
           /\ i \in 1..Len(old) => new[i] = x
<1>1. CASE i \in 1..Len(old)
  <2>1. /\ IsSeq(new) /\ Len(new) = Len(old) /\ new # <<>> /\ new[i] = x
        /\ \A j \in 1..Len(old) : j # i => new[j] = old[j]
    BY <1>1, ReplacedWithin
  <2>2. Len(old) # 0
    BY <1>1
  <2>3. old # <<>>
    BY <2>2, EmptySeq
  <2> QED
    BY <2>1, <2>3
<1>2. CASE i \notin 1..Len(old)
  <2>1. [old EXCEPT ![i] = x] = old
    BY <1>2, ExceptBeyond
  <2>2. new = old
    BY <2>1 DEF Replaces
  <2> QED
    BY <2>2, <1>2
<1> QED
  BY <1>1, <1>2

\* The arguments of a patched instruction are those there were, but for the place it goes to.
LEMMA PatchedArguments ==
    ASSUME NEW c, ChunkOK(c), NEW d, NEW k \in 1..Len(c), NEW t \in Nat, Patched(c, d, k, t),
           NEW old, old = c[k].args, NEW new, new = d[k].args
    PROVE  /\ IsSeq(new) /\ Len(new) = Len(old) /\ (new # <<>> <=> old # <<>>)
           /\ c[k].op # "jump" /\ old # <<>> => new[1] = old[1]
           /\ c[k].op = "jump" => new[1] = old[1] \/ (NopAt(c, t) /\ new[1][2] = t)
           /\ \/ 2 \notin 1..Len(old) \/ new[2] = old[2]
              \/ NopAt(c, t) /\ new[2][2] = t /\ (k = 1 \/ c[k].op = "jump_else")
<1> DEFINE there == <<"immediate", t>>
<1>1. IsSeq(old) /\ (c[k].op # "nop" => old # <<>>)
  BY DEF ChunkOK, InstructionOK
<1>2. Len(old) \in Nat /\ (old # <<>> => 1 \in 1..Len(old))
  BY <1>1, SeqLength
<1>3. there[2] = t
  OBVIOUS
<1>7. \/ new = old
      \/ c[k].op = "jump" /\ NopAt(c, t) /\ Replaces(new, old, 1, there)
      \/ (k = 1 \/ c[k].op = "jump_else") /\ NopAt(c, t) /\ Replaces(new, old, 2, there)
  BY DEF Patched
<1> HIDE DEF there
<1>4. CASE new = old
  BY <1>1, <1>4
<1>5. CASE c[k].op = "jump" /\ NopAt(c, t) /\ Replaces(new, old, 1, there)
  <2>1. old # <<>>
    BY <1>1, <1>5
  <2>2. /\ IsSeq(new) /\ Len(new) = Len(old) /\ (new # <<>> <=> old # <<>>)
        /\ \A j \in 1..Len(old) : j # 1 => new[j] = old[j]
        /\ 1 \in 1..Len(old) => new[1] = there
    BY <1>1, <1>5, ReplacedArgument
  <2> QED
    BY <1>2, <1>3, <1>5, <2>1, <2>2
<1>6. CASE (k = 1 \/ c[k].op = "jump_else") /\ NopAt(c, t) /\ Replaces(new, old, 2, there)
  <2>1. /\ IsSeq(new) /\ Len(new) = Len(old) /\ (new # <<>> <=> old # <<>>)
        /\ \A j \in 1..Len(old) : j # 2 => new[j] = old[j]
        /\ 2 \in 1..Len(old) => new[2] = there
    BY <1>1, <1>6, ReplacedArgument
  <2> QED
    BY <1>2, <1>3, <1>6, <2>1
<1> QED
  BY <1>4, <1>5, <1>6, <1>7

LEMMA PatchedKeeps ==
    ASSUME NEW c, ChunkOK(c), NEW d, IsSeq(d), Len(d) = Len(c), NEW t \in Nat,
           \A k \in 1..Len(c) : Patched(c, d, k, t)
    PROVE  ChunkOK(d) /\ SameOps(c, d)
<1>1. Len(c) \in Nat
  BY SeqLength DEF ChunkOK
<1>2. \A k \in 1..Len(c) : d[k].op = c[k].op
  BY DEF Patched
<1>3. \A ip : NopAt(c, ip) => NopAt(d, ip)
  BY <1>2 DEF NopAt
<1>4. ASSUME NEW k \in 1..Len(c) PROVE InstructionOK(d, k)
  <2> DEFINE old == c[k].args
             new == d[k].args
  <2>1. /\ DOMAIN c[k] = {"op", "args", "at"} /\ IsSeq(old)
        /\ c[k].op # "jump_if"
        /\ c[k].op # "nop" => old # <<>>
        /\ old # <<>> => old[1][2] \in Nat
        /\ c[k].op \in {"jump_else"} \cup CallOps => Len(old) = 2 /\ old[2][2] \in Nat
        /\ c[k].op \in Jumps => JumpsTo(c[k]) = 0 \/ NopAt(c, JumpsTo(c[k]))
        /\ k > 1 /\ PassesArguments(c[k]) =>
              c[k - 1].op = "mov" /\ c[k - 1].args # <<>> /\ c[k - 1].args[1][2] >= Passed(c[k]) - 1
    BY DEF ChunkOK, InstructionOK
  <2>2. /\ IsSeq(new) /\ Len(new) = Len(old) /\ (new # <<>> <=> old # <<>>)
        /\ c[k].op # "jump" /\ old # <<>> => new[1] = old[1]
        /\ c[k].op = "jump" => new[1] = old[1] \/ (NopAt(c, t) /\ new[1][2] = t)
        /\ \/ 2 \notin 1..Len(old) \/ new[2] = old[2]
           \/ NopAt(c, t) /\ new[2][2] = t /\ (k = 1 \/ c[k].op = "jump_else")
    BY PatchedArguments
  <2>3. DOMAIN d[k] = {"op", "args", "at"} /\ d[k].op = c[k].op
    BY <2>1 DEF Patched
  <2>4. new # <<>> => new[1][2] \in Nat
    BY <2>1, <2>2
  <2>5. Len(old) = 2 => 2 \in 1..Len(old)
    OBVIOUS
  <2>6. c[k].op \in {"jump_else"} \cup CallOps => Len(new) = 2 /\ new[2][2] \in Nat
    BY <2>1, <2>2, <2>5
  <2>7. c[k].op \in Jumps => JumpsTo(d[k]) = 0 \/ NopAt(d, JumpsTo(d[k]))
    <3>1. CASE c[k].op = "jump"
      <4>1. JumpsTo(c[k]) = old[1][2] /\ JumpsTo(d[k]) = new[1][2]
        BY <3>1, <2>3 DEF JumpsTo
      <4> QED
        BY <3>1, <4>1, <2>1, <2>2, <1>3 DEF Jumps
    <3>2. CASE c[k].op = "jump_else"
      <4>1. JumpsTo(c[k]) = old[2][2] /\ JumpsTo(d[k]) = new[2][2]
        BY <3>2, <2>3 DEF JumpsTo
      <4>2. 2 \in 1..Len(old)
        BY <3>2, <2>1, <2>5
      <4> QED
        BY <3>2, <4>1, <4>2, <2>1, <2>2, <1>3 DEF Jumps
    <3> QED
      BY <2>1, <3>1, <3>2 DEF Jumps
  <2>8. ASSUME k > 1, PassesArguments(d[k])
        PROVE  /\ d[k - 1].op = "mov" /\ d[k - 1].args # <<>>
               /\ d[k - 1].args[1][2] >= Passed(d[k]) - 1
    <3>1. c[k].op \in CallOps /\ d[k].op \in CallOps
      BY <2>3, <2>8 DEF PassesArguments
    <3>2. new[2] = old[2]
      <4>1. 2 \in 1..Len(old) /\ c[k].op # "jump_else" /\ k # 1
        BY <2>1, <2>5, <2>8, <3>1 DEF CallOps
      <4> QED
        BY <4>1, <2>2
    <3>3. Passed(d[k]) = Passed(c[k]) /\ PassesArguments(c[k])
      BY <2>8, <3>1, <3>2 DEF PassesArguments, Passed
    <3>4. k - 1 \in 1..Len(c)
      BY <1>1, <2>8
    <3>5. c[k - 1].op = "mov" /\ c[k - 1].args # <<>> /\ c[k - 1].args[1][2] >= Passed(c[k]) - 1
      BY <2>1, <2>8, <3>3
    <3>6. d[k - 1].args # <<>> /\ d[k - 1].args[1] = c[k - 1].args[1]
      <4>1. c[k - 1].op # "jump"
        BY <3>5
      <4> QED
        BY <3>4, <3>5, <4>1, PatchedArguments
    <3>7. d[k - 1].op = "mov"
      BY <1>2, <3>4, <3>5
    <3> QED
      BY <3>3, <3>5, <3>6, <3>7
  <2> QED
    BY <2>1, <2>2, <2>3, <2>4, <2>6, <2>7, <2>8 DEF InstructionOK
<1> QED
  BY <1>2, <1>4 DEF ChunkOK, SameOps

-----------------------------------------------------------------------------
(* The state of the emitter *)

EFields == {"chunk", "ifs", "loops", "ok"}

\* A function on 1..n is a sequence.
LEMMA FunctionSeq ==
    ASSUME NEW n \in Nat, NEW f, f = [i \in 1..n |-> f[i]]
    PROVE  IsSeq(f) /\ Len(f) = n
<1> DEFINE S == {f[i] : i \in 1..n}
<1>1. f \in [1..n -> S]
  OBVIOUS
<1>2. f \in Seq(S)
  BY <1>1, SeqDef
<1>3. Len(f) \in Nat /\ DOMAIN f = 1..Len(f)
  BY <1>2, LenProperties
<1>4. DOMAIN f = 1..n
  BY <1>1
<1>5. Len(f) = n
  BY <1>3, <1>4
<1> QED
  BY <1>2, <1>5 DEF IsSeq

\* All but the places the jumps go to is as before.
Alike(e, f) ==
    /\ DOMAIN f = EFields /\ f.ifs = e.ifs /\ f.loops = e.loops /\ f.ok = e.ok
    /\ ChunkOK(f.chunk) /\ SameOps(e.chunk, f.chunk)

JumpAt(c, ip) == ip \in Nat /\ ip + 1 \in 1..Len(c) /\ c[ip + 1].op = "jump"
CheckOK(c, ip) ==
    ip = 0 \/ (ip \in Nat /\ ip + 1 \in 1..Len(c) /\ c[ip + 1].op = "jump_else")

LEMMA PatchAlike ==
    ASSUME NEW e, DOMAIN e = EFields, ChunkOK(e.chunk),
           NEW ip \in Nat, ip + 1 \in 1..Len(e.chunk), NEW arg, NEW t \in Nat, NopAt(e.chunk, t),
           \/ arg = 1 /\ e.chunk[ip + 1].op = "jump"
           \/ arg = 2 /\ (ip = 0 \/ e.chunk[ip + 1].op = "jump_else")
    PROVE  Alike(e, Patch(e, ip, arg, t))
<1> DEFINE c == e.chunk
           ins == c[ip + 1]
           there == <<"immediate", t>>
           new == [ins EXCEPT !.args = [ins.args EXCEPT ![arg] = there]]
           d == [c EXCEPT ![ip + 1] = new]
           f == [e EXCEPT !.chunk = d]
<1>1. Patch(e, ip, arg, t) = f
  BY DEF Patch
<1>2. DOMAIN f = EFields /\ f.ifs = e.ifs /\ f.loops = e.loops /\ f.ok = e.ok /\ f.chunk = d
  BY DEF EFields
<1>3. IsSeq(c) /\ DOMAIN ins = {"op", "args", "at"}
  BY DEF ChunkOK, InstructionOK
<1>4. /\ DOMAIN new = DOMAIN ins /\ new.op = ins.op
      /\ Replaces(new.args, ins.args, arg, there)
  BY <1>3 DEF Replaces
<1> HIDE DEF new
<1>8. Replaces(d, c, ip + 1, new)
  BY DEF Replaces
<1> HIDE DEF d
<1>5. /\ IsSeq(d) /\ Len(d) = Len(c) /\ d[ip + 1] = new
      /\ \A k \in 1..Len(c) : k # ip + 1 => d[k] = c[k]
  BY <1>3, <1>8, ReplacedWithin
<1>6. ASSUME NEW k \in 1..Len(c) PROVE Patched(c, d, k, t)
  <2>1. CASE k = ip + 1
    <3>1. d[k] = new /\ c[k] = ins
      BY <2>1, <1>5
    <3>2. ip = 0 => k = 1
      BY <2>1
    <3> QED
      BY <3>1, <3>2, <1>4 DEF Patched
  <2>2. CASE k # ip + 1
    BY <2>2, <1>5 DEF Patched
  <2> QED
    BY <2>1, <2>2
<1>7. ChunkOK(d) /\ SameOps(c, d)
  BY <1>5, <1>6, PatchedKeeps
<1> QED
  BY <1>1, <1>2, <1>7 DEF Alike

LEMMA PatchAllAlike ==
    ASSUME NEW e, DOMAIN e = EFields, ChunkOK(e.chunk), NEW ips, NEW t \in Nat,
           \A ip \in ips : JumpAt(e.chunk, ip), NopAt(e.chunk, t)
    PROVE  Alike(e, PatchAll(e, ips, t))
<1> DEFINE c == e.chunk
           there == <<"immediate", t>>
           there_k(k) == [c[k] EXCEPT !.args = [c[k].args EXCEPT ![1] = there]]
           d == [k \in DOMAIN c |-> IF k - 1 \in ips THEN there_k(k) ELSE c[k]]
           f == [e EXCEPT !.chunk = d]
<1>1. PatchAll(e, ips, t) = f
  BY DEF PatchAll
<1>2. DOMAIN f = EFields /\ f.ifs = e.ifs /\ f.loops = e.loops /\ f.ok = e.ok /\ f.chunk = d
  BY DEF EFields
<1>3. Len(c) \in Nat /\ DOMAIN c = 1..Len(c)
  BY SeqLength DEF ChunkOK
<1>4. \A k \in 1..Len(c) : d[k] = IF k - 1 \in ips THEN there_k(k) ELSE c[k]
  BY <1>3
<1>5. d = [k \in 1..Len(c) |-> d[k]]
  BY <1>3
<1> HIDE DEF d
<1>6. IsSeq(d) /\ Len(d) = Len(c)
  BY <1>3, <1>5, FunctionSeq
<1>7. ASSUME NEW k \in 1..Len(c) PROVE Patched(c, d, k, t)
  <2>1. CASE k - 1 \in ips
    <3>1. d[k] = there_k(k)
      BY <2>1, <1>4
    <3>2. JumpAt(c, k - 1) /\ k - 1 + 1 = k
      BY <2>1, <1>3
    <3>3. c[k].op = "jump"
      BY <3>2 DEF JumpAt
    <3>4. DOMAIN c[k] = {"op", "args", "at"}
      BY DEF ChunkOK, InstructionOK
    <3>5. /\ DOMAIN there_k(k) = DOMAIN c[k] /\ there_k(k).op = c[k].op
          /\ Replaces(there_k(k).args, c[k].args, 1, there)
      BY <3>4 DEF Replaces
    <3> QED
      BY <3>1, <3>3, <3>5 DEF Patched
  <2>2. CASE k - 1 \notin ips
    BY <2>2, <1>4 DEF Patched
  <2> QED
    BY <2>1, <2>2
<1>8. ChunkOK(d) /\ SameOps(c, d)
  BY <1>6, <1>7, PatchedKeeps
<1> QED
  BY <1>1, <1>2, <1>8 DEF Alike

\* What an if or a loop in progress knows of the chunk.
IfOK(c, a) ==
    /\ DOMAIN a = {"check", "alt"} /\ CheckOK(c, a.check)
    /\ a.alt # -1 => JumpAt(c, a.alt) /\ (a.alt + 1 < Len(c) => NopAt(c, a.alt + 1))
LoopOK(c, a) ==
    /\ DOMAIN a = {"breaks", "continues", "start", "check"} /\ CheckOK(c, a.check)
    /\ \A ip \in a.breaks \cup a.continues : JumpAt(c, ip)
    /\ a.start \in 0..Len(c) /\ (a.start < Len(c) => NopAt(c, a.start))

\* The ifs and loops of this chunk, those of the chunks before it not counted.
Entries(e, F, G) ==
    /\ IsSeq(e.ifs) /\ \A k \in 1..Len(e.ifs) : k > F => IfOK(e.chunk, e.ifs[k])
    /\ IsSeq(e.loops) /\ \A k \in 1..Len(e.loops) : k > G => LoopOK(e.chunk, e.loops[k])
Making(e, F, G) == DOMAIN e = EFields /\ ChunkOK(e.chunk) /\ Entries(e, F, G)

\* What they lead to is there.
Settled(e, F, G) ==
    /\ \A k \in 1..Len(e.ifs) : k > F => e.ifs[k].alt = -1 \/ e.ifs[k].alt + 1 < Len(e.chunk)
    /\ \A k \in 1..Len(e.loops) : k > G => e.loops[k].start < Len(e.chunk)

LEMMA OpsKept ==
    ASSUME NEW c, NEW d, SameOps(c, d)
    PROVE  /\ \A ip : NopAt(c, ip) => NopAt(d, ip)
           /\ \A ip : JumpAt(c, ip) => JumpAt(d, ip)
           /\ \A ip : CheckOK(c, ip) => CheckOK(d, ip)
           /\ \A a : IfOK(c, a) => IfOK(d, a)
           /\ \A a : LoopOK(c, a) => LoopOK(d, a)
<1>1. \A ip : NopAt(c, ip) => NopAt(d, ip)
  BY DEF SameOps, NopAt
<1>2. \A ip : JumpAt(c, ip) => JumpAt(d, ip)
  BY DEF SameOps, JumpAt
<1>3. \A ip : CheckOK(c, ip) => CheckOK(d, ip)
  BY DEF SameOps, CheckOK
<1>4. Len(d) = Len(c)
  BY DEF SameOps
<1>5. \A a : IfOK(c, a) => IfOK(d, a)
  BY <1>1, <1>2, <1>3, <1>4 DEF IfOK
<1>6. \A a : LoopOK(c, a) => LoopOK(d, a)
  BY <1>1, <1>2, <1>3, <1>4 DEF LoopOK
<1> QED
  BY <1>1, <1>2, <1>3, <1>5, <1>6

LEMMA AlikeMakes ==
    ASSUME NEW F, NEW G, NEW e, Making(e, F, G), NEW f, Alike(e, f)
    PROVE  Making(f, F, G) /\ (Settled(e, F, G) => Settled(f, F, G))
<1>1. /\ \A a : IfOK(e.chunk, a) => IfOK(f.chunk, a)
      /\ \A a : LoopOK(e.chunk, a) => LoopOK(f.chunk, a)
  BY OpsKept DEF Alike
<1>2. Making(f, F, G)
  BY <1>1 DEF Alike, Making, Entries
<1>3. Settled(e, F, G) => Settled(f, F, G)
  BY DEF Alike, SameOps, Settled
<1> QED
  BY <1>2, <1>3

\* An instruction is appended.
Extended(d, c, ins) == d = Append(c, ins)

LEMMA AppendKeeps ==
    ASSUME NEW c, IsSeq(c), NEW ins, NEW d, Extended(d, c, ins)
    PROVE  /\ IsSeq(d) /\ Len(c) \in Nat /\ Len(d) = Len(c) + 1 /\ d[Len(c) + 1] = ins
           /\ \A k \in 1..Len(c) : d[k] = c[k]
           /\ \A ip : NopAt(c, ip) => NopAt(d, ip)
           /\ \A ip : JumpAt(c, ip) => JumpAt(d, ip)
           /\ \A ip : CheckOK(c, ip) => CheckOK(d, ip)
<1>1. Len(c) \in Nat
  BY SeqLength
<1>2. IsSeq(d) /\ Len(d) = Len(c) + 1 /\ d[Len(d)] = ins /\ \A k \in 1..Len(c) : d[k] = c[k]
  BY SeqAppend DEF Extended
<1>3. d[Len(c) + 1] = ins /\ \A k \in 1..Len(c) : k \in 1..Len(d)
  BY <1>1, <1>2
<1>4. \A ip : NopAt(c, ip) => NopAt(d, ip)
  BY <1>2, <1>3 DEF NopAt
<1>5. \A ip : JumpAt(c, ip) => JumpAt(d, ip)
  BY <1>2, <1>3 DEF JumpAt
<1>6. \A ip : CheckOK(c, ip) => CheckOK(d, ip)
  BY <1>2, <1>3 DEF CheckOK
<1> QED
  BY <1>1, <1>2, <1>3, <1>4, <1>5, <1>6

Instructed(e, f, ins, F, G) ==
    /\ Making(f, F, G) /\ Settled(f, F, G)
    /\ Extended(f.chunk, e.chunk, ins) /\ f.ok = e.ok
    /\ f.ifs = e.ifs /\ f.loops = e.loops

LEMMA InstructedMakes ==
    ASSUME NEW F, NEW G, NEW e, Making(e, F, G), NEW ins,
           NEW d, Extended(d, e.chunk, ins), ChunkOK(d),
           Settled(e, F, G) \/ ins.op = "nop"
    PROVE  Instructed(e, Pushed(e, "chunk", ins), ins, F, G)
<1> DEFINE c == e.chunk
           f == [e EXCEPT !.chunk = d]
<1>1. Pushed(e, "chunk", ins) = f
  BY DEF Pushed, Extended
<1>2. DOMAIN f = EFields /\ f.chunk = d /\ f.ifs = e.ifs /\ f.loops = e.loops /\ f.ok = e.ok
  BY DEF Making, EFields
<1>3. IsSeq(c) /\ ChunkOK(d) /\ Extended(d, c, ins)
  BY DEF Making, ChunkOK, Extended
<1> HIDE DEF f
<1>4. /\ IsSeq(d) /\ Len(c) \in Nat /\ Len(d) = Len(c) + 1 /\ d[Len(c) + 1] = ins
      /\ \A k \in 1..Len(c) : d[k] = c[k]
      /\ \A ip : NopAt(c, ip) => NopAt(d, ip)
      /\ \A ip : JumpAt(c, ip) => JumpAt(d, ip)
      /\ \A ip : CheckOK(c, ip) => CheckOK(d, ip)
  BY <1>3, AppendKeeps
<1>5. ins.op = "nop" => NopAt(d, Len(c))
  BY <1>4 DEF NopAt
<1>6. \A n \in Nat : n < Len(c) + 1 => n < Len(c) \/ n = Len(c)
  BY <1>4
<1>7. ASSUME NEW k \in 1..Len(e.ifs), k > F
      PROVE  IfOK(d, e.ifs[k]) /\ (e.ifs[k].alt = -1 \/ e.ifs[k].alt + 1 < Len(d))
  <2> DEFINE a == e.ifs[k]
  <2>1. IfOK(c, a) /\ (a.alt = -1 \/ a.alt + 1 < Len(c) \/ ins.op = "nop")
    BY <1>7 DEF Making, Entries, Settled
  <2> HIDE DEF a
  <2>2. CASE a.alt = -1
    BY <2>1, <2>2, <1>4 DEF IfOK, a
  <2>3. CASE a.alt # -1
    <3>1. JumpAt(c, a.alt) /\ (a.alt + 1 < Len(c) => NopAt(c, a.alt + 1))
      BY <2>1, <2>3 DEF IfOK
    <3>2. a.alt + 1 \in Nat /\ a.alt + 1 < Len(c) + 1
      BY <3>1, <1>4 DEF JumpAt
    <3>3. NopAt(d, a.alt + 1)
      <4>1. CASE a.alt + 1 < Len(c)
        BY <4>1, <3>1, <1>4
      <4>2. CASE a.alt + 1 = Len(c)
        BY <4>2, <2>1, <2>3, <1>4, <1>5
      <4> QED
        BY <4>1, <4>2, <3>2, <1>6
    <3> QED
      BY <3>1, <3>2, <3>3, <2>1, <1>4 DEF IfOK, a
  <2> QED
    BY <2>2, <2>3
<1>8. ASSUME NEW k \in 1..Len(e.loops), k > G
      PROVE  LoopOK(d, e.loops[k]) /\ e.loops[k].start < Len(d)
  <2> DEFINE a == e.loops[k]
  <2>1. LoopOK(c, a) /\ (a.start < Len(c) \/ ins.op = "nop")
    BY <1>8 DEF Making, Entries, Settled
  <2> HIDE DEF a
  <2>2. a.start \in Nat /\ a.start <= Len(c)
    BY <2>1, <1>4 DEF LoopOK
  <2>3. NopAt(d, a.start)
    <3>1. CASE a.start < Len(c)
      BY <3>1, <2>1, <1>4 DEF LoopOK
    <3>2. CASE a.start = Len(c)
      BY <3>2, <2>1, <1>4, <1>5
    <3> QED
      BY <3>1, <3>2, <2>2, <1>4
  <2>4. a.start < Len(d) /\ a.start \in 0..Len(d)
    BY <2>2, <1>4
  <2> QED
    BY <2>1, <2>3, <2>4, <1>4 DEF LoopOK, a
<1>9. Making(f, F, G)
  BY <1>2, <1>3, <1>7, <1>8 DEF Making, Entries
<1>10. Settled(f, F, G)
  BY <1>2, <1>7, <1>8 DEF Settled
<1> QED
  BY <1>1, <1>2, <1>3, <1>9, <1>10 DEF Instructed

-----------------------------------------------------------------------------
(* Meta steps *)

IfsBecome(e, f, list) ==
    /\ DOMAIN f = EFields /\ f.chunk = e.chunk /\ f.loops = e.loops /\ f.ok = e.ok
    /\ f.ifs = list
LoopsBecome(e, f, list) ==
    /\ DOMAIN f = EFields /\ f.chunk = e.chunk /\ f.ifs = e.ifs /\ f.ok = e.ok
    /\ f.loops = list

LEMMA IfsMake ==
    ASSUME NEW F, NEW G, NEW e, Making(e, F, G), NEW list, IsSeq(list), NEW f, IfsBecome(e, f, list),
           \A k \in 1..Len(list) : k > F => IfOK(e.chunk, list[k])
    PROVE  Making(f, F, G)
BY DEF Making, Entries, IfsBecome

LEMMA LoopsMake ==
    ASSUME NEW F, NEW G, NEW e, Making(e, F, G), NEW list, IsSeq(list), NEW f, LoopsBecome(e, f, list),
           \A k \in 1..Len(list) : k > G => LoopOK(e.chunk, list[k])
    PROVE  Making(f, F, G)
BY DEF Making, Entries, LoopsBecome

LEMMA ListsChanged ==
    ASSUME NEW e, DOMAIN e = EFields
    PROVE  /\ \A item : IfsBecome(e, Pushed(e, "ifs", item), Append(e.ifs, item))
           /\ \A item : LoopsBecome(e, Pushed(e, "loops", item), Append(e.loops, item))
           /\ \A item : IfsBecome(e, WithInnermost(e, "ifs", item), [e.ifs EXCEPT ![Len(e.ifs)] = item])
           /\ \A item : LoopsBecome(e, WithInnermost(e, "loops", item),
                                    [e.loops EXCEPT ![Len(e.loops)] = item])
           /\ IfsBecome(e, Popped(e, "ifs"), SubSeq(e.ifs, 1, Len(e.ifs) - 1))
           /\ LoopsBecome(e, Popped(e, "loops"), SubSeq(e.loops, 1, Len(e.loops) - 1))
<1>1. \A item : IfsBecome(e, Pushed(e, "ifs", item), Append(e.ifs, item))
  BY DEF EFields, IfsBecome, Pushed
<1>2. \A item : LoopsBecome(e, Pushed(e, "loops", item), Append(e.loops, item))
  BY DEF EFields, LoopsBecome, Pushed
<1>3. \A item : IfsBecome(e, WithInnermost(e, "ifs", item), [e.ifs EXCEPT ![Len(e.ifs)] = item])
  BY DEF EFields, IfsBecome, WithInnermost
<1>4. \A item : LoopsBecome(e, WithInnermost(e, "loops", item),
                            [e.loops EXCEPT ![Len(e.loops)] = item])
  BY DEF EFields, LoopsBecome, WithInnermost
<1>5. IfsBecome(e, Popped(e, "ifs"), SubSeq(e.ifs, 1, Len(e.ifs) - 1))
  BY DEF EFields, IfsBecome, Popped
<1>6. LoopsBecome(e, Popped(e, "loops"), SubSeq(e.loops, 1, Len(e.loops) - 1))
  BY DEF EFields, LoopsBecome, Popped
<1> QED
  BY <1>1, <1>2, <1>3, <1>4, <1>5, <1>6

\* An if, or a loop, begins.
LEMMA BeginIfMakes ==
    ASSUME NEW F, NEW G, NEW e, Making(e, F, G)
    PROVE  LET f == meta_begin_if_else(e)
           IN /\ Making(f, F, G) /\ (Settled(e, F, G) => Settled(f, F, G))
              /\ f.chunk = e.chunk /\ f.ok = e.ok
              /\ Len(f.ifs) = Len(e.ifs) + 1 /\ Len(f.loops) = Len(e.loops)
<1> DEFINE a == [check |-> 0, alt |-> -1]
           f == Pushed(e, "ifs", a)
           list == Append(e.ifs, a)
<1>1. IfsBecome(e, f, list) /\ IsSeq(e.ifs)
  BY ListsChanged DEF Making, Entries
<1>2. meta_begin_if_else(e) = f
  BY DEF meta_begin_if_else
<1> HIDE DEF f
<1>3. IfOK(e.chunk, a) /\ a.alt = -1
  BY DEF IfOK, CheckOK
<1> HIDE DEF a
<1>4. IsSeq(list) /\ Len(list) = Len(e.ifs) + 1 /\ list # <<>> /\ list[Len(list)] = a
      /\ \A i \in 1..Len(e.ifs) : list[i] = e.ifs[i]
  BY <1>1, SeqAppend
<1>5. Len(e.ifs) \in Nat
  BY <1>1, SeqLength
<1> HIDE DEF list
<1>6. \A k \in 1..Len(list) : k \in 1..Len(e.ifs) \/ k = Len(list)
  BY <1>4, <1>5
<1>7. \A k \in 1..Len(list) : k > F => IfOK(e.chunk, list[k])
  BY <1>3, <1>4, <1>6 DEF Making, Entries
<1>8. Making(f, F, G)
  BY <1>1, <1>4, <1>7, IfsMake
<1>9. Settled(e, F, G) => Settled(f, F, G)
  BY <1>1, <1>3, <1>4, <1>6 DEF Settled, IfsBecome
<1> QED
  BY <1>1, <1>2, <1>4, <1>8, <1>9 DEF IfsBecome

LEMMA BeginWhileMakes ==
    ASSUME NEW F, NEW G, NEW e, Making(e, F, G)
    PROVE  LET f == meta_begin_while(e)
           IN /\ Making(f, F, G) /\ f.chunk = e.chunk /\ f.ok = e.ok
              /\ Len(f.ifs) = Len(e.ifs) /\ Len(f.loops) = Len(e.loops) + 1
<1> DEFINE a == [breaks |-> {}, continues |-> {}, start |-> Len(e.chunk), check |-> 0]
           f == Pushed(e, "loops", a)
           list == Append(e.loops, a)
<1>1. LoopsBecome(e, f, list) /\ IsSeq(e.loops)
  BY ListsChanged DEF Making, Entries
<1>2. meta_begin_while(e) = f
  BY DEF meta_begin_while
<1> HIDE DEF f
<1>0. Len(e.chunk) \in Nat
  BY SeqLength DEF Making, ChunkOK
<1>3. LoopOK(e.chunk, a)
  BY <1>0 DEF LoopOK, CheckOK
<1> HIDE DEF a
<1>4. IsSeq(list) /\ Len(list) = Len(e.loops) + 1 /\ list # <<>> /\ list[Len(list)] = a
      /\ \A i \in 1..Len(e.loops) : list[i] = e.loops[i]
  BY <1>1, SeqAppend
<1>5. Len(e.loops) \in Nat
  BY <1>1, SeqLength
<1> HIDE DEF list
<1>6. \A k \in 1..Len(list) : k \in 1..Len(e.loops) \/ k = Len(list)
  BY <1>4, <1>5
<1>7. \A k \in 1..Len(list) : k > G => LoopOK(e.chunk, list[k])
  BY <1>3, <1>4, <1>6 DEF Making, Entries
<1>8. Making(f, F, G)
  BY <1>1, <1>4, <1>7, LoopsMake
<1> QED
  BY <1>1, <1>2, <1>4, <1>8 DEF LoopsBecome

\* What is in progress knows more, and is as many.
StillMakes(e, f, F, G) ==
    /\ Making(f, F, G) /\ f.chunk = e.chunk /\ f.ok = e.ok
    /\ Len(f.ifs) = Len(e.ifs) /\ Len(f.loops) = Len(e.loops)
Marked(e, f, F, G) == StillMakes(e, f, F, G) /\ (Settled(e, F, G) => Settled(f, F, G))

\* The innermost if is marked with the jump just emitted.
LEMMA MarkIfMakes ==
    ASSUME NEW F, NEW G, NEW e, Making(e, F, G), e.ifs # <<>>, NEW field \in {"check", "alt"},
           field = "check" => CheckOK(e.chunk, LastIp(e)),
           field = "alt" => JumpAt(e.chunk, LastIp(e))
    PROVE  /\ StillMakes(e, Mark(e, "ifs", field), F, G)
           /\ field = "check" => Marked(e, Mark(e, "ifs", field), F, G)
<1> DEFINE n == Len(e.ifs)
           old == e.ifs[n]
           a == [old EXCEPT ![field] = LastIp(e)]
           f == WithInnermost(e, "ifs", a)
           list == [e.ifs EXCEPT ![n] = a]
<1>1. IfsBecome(e, f, list) /\ IsSeq(e.ifs)
  BY ListsChanged DEF Making, Entries
<1>2. Mark(e, "ifs", field) = f
  BY DEF Mark, Innermost
<1> HIDE DEF f
<1>3. n \in Nat /\ n \in 1..n
  BY <1>1, SeqLength
<1>4. Replaces(list, e.ifs, n, a)
  BY DEF Replaces
<1>5. IsSeq(list) /\ Len(list) = n /\ list # <<>> /\ list[n] = a
      /\ \A j \in 1..n : j # n => list[j] = e.ifs[j]
  BY <1>1, <1>3, <1>4, ReplacedWithin
<1> HIDE DEF list
<1>6. ASSUME n > F
      PROVE  /\ IfOK(e.chunk, a)
             /\ field = "check" => a.alt = old.alt
  <2>1. IfOK(e.chunk, old)
    BY <1>3, <1>6 DEF Making, Entries
  <2>2. Len(e.chunk) \in Nat /\ LastIp(e) + 1 = Len(e.chunk)
    BY SeqLength DEF Making, ChunkOK, LastIp
  <2>3. CASE field = "check"
    <3>1. DOMAIN a = {"check", "alt"} /\ a.check = LastIp(e) /\ a.alt = old.alt
      BY <2>1, <2>3 DEF IfOK
    <3> HIDE DEF a, old
    <3> QED
      BY <3>1, <2>1, <2>3 DEF IfOK
  <2>4. CASE field = "alt"
    <3>1. DOMAIN a = {"check", "alt"} /\ a.alt = LastIp(e) /\ a.check = old.check
      BY <2>1, <2>4 DEF IfOK
    <3> HIDE DEF a, old
    <3>2. ~ (a.alt + 1 < Len(e.chunk))
      BY <2>2, <3>1
    <3> QED
      BY <3>1, <3>2, <2>1, <2>4 DEF IfOK
  <2> QED
    BY <2>3, <2>4
<1> HIDE DEF a
<1>7. \A k \in 1..Len(list) : k > F => IfOK(e.chunk, list[k])
  BY <1>5, <1>6 DEF Making, Entries
<1>8. Making(f, F, G)
  BY <1>1, <1>5, <1>7, IfsMake
<1>9. field = "check" /\ Settled(e, F, G) => Settled(f, F, G)
  BY <1>1, <1>3, <1>5, <1>6 DEF Settled, IfsBecome
<1>10. StillMakes(e, f, F, G)
  BY <1>1, <1>5, <1>8 DEF IfsBecome, StillMakes
<1> QED
  BY <1>2, <1>9, <1>10 DEF Marked

\* The innermost loop is marked with the jump just emitted.
LEMMA LoopMarked ==
    ASSUME NEW F, NEW G, NEW e, Making(e, F, G), e.loops # <<>>, NEW a,
           Len(e.loops) > G => LoopOK(e.chunk, a) /\ a.start = e.loops[Len(e.loops)].start
    PROVE  Marked(e, WithInnermost(e, "loops", a), F, G)
<1> DEFINE n == Len(e.loops)
           f == WithInnermost(e, "loops", a)
           list == [e.loops EXCEPT ![n] = a]
<1>1. LoopsBecome(e, f, list) /\ IsSeq(e.loops)
  BY ListsChanged DEF Making, Entries
<1> HIDE DEF f
<1>3. n \in Nat /\ n \in 1..n
  BY <1>1, SeqLength
<1>4. Replaces(list, e.loops, n, a)
  BY DEF Replaces
<1>5. IsSeq(list) /\ Len(list) = n /\ list # <<>> /\ list[n] = a
      /\ \A j \in 1..n : j # n => list[j] = e.loops[j]
  BY <1>1, <1>3, <1>4, ReplacedWithin
<1> HIDE DEF list
<1>7. \A k \in 1..Len(list) : k > G => LoopOK(e.chunk, list[k])
  BY <1>5 DEF Making, Entries
<1>8. Making(f, F, G)
  BY <1>1, <1>5, <1>7, LoopsMake
<1>9. Settled(e, F, G) => Settled(f, F, G)
  BY <1>1, <1>3, <1>5 DEF Settled, LoopsBecome
<1> QED
  BY <1>1, <1>5, <1>8, <1>9 DEF LoopsBecome, Marked, StillMakes, f

LEMMA MarkLoopMakes ==
    ASSUME NEW F, NEW G, NEW e, Making(e, F, G), e.loops # <<>>,
           NEW field \in {"check", "breaks", "continues"},
           IF field = "check" THEN CheckOK(e.chunk, LastIp(e)) ELSE JumpAt(e.chunk, LastIp(e))
    PROVE  /\ field = "check" => Marked(e, Mark(e, "loops", field), F, G)
           /\ field # "check" => Marked(e, MarkToo(e, field), F, G)
<1> DEFINE old == e.loops[Len(e.loops)]
           a == [old EXCEPT ![field] = LastIp(e)]
           b == [old EXCEPT ![field] = @ \cup {LastIp(e)}]
<1>1. /\ Mark(e, "loops", field) = WithInnermost(e, "loops", a)
      /\ MarkToo(e, field) = WithInnermost(e, "loops", b)
  BY DEF Mark, MarkToo, Innermost
<1>2. Len(e.loops) > G => LoopOK(e.chunk, old)
  <2>1. Len(e.loops) \in 1..Len(e.loops)
    BY SeqLength DEF Making, Entries
  <2> QED
    BY <2>1 DEF Making, Entries
<1>3. ASSUME Len(e.loops) > G, field = "check" PROVE LoopOK(e.chunk, a) /\ a.start = old.start
  <2>1. /\ DOMAIN a = {"breaks", "continues", "start", "check"} /\ a.check = LastIp(e)
        /\ a.breaks = old.breaks /\ a.continues = old.continues /\ a.start = old.start
    BY <1>2, <1>3 DEF LoopOK
  <2> HIDE DEF a, old
  <2> QED
    BY <2>1, <1>2, <1>3 DEF LoopOK
<1>4. ASSUME Len(e.loops) > G, field # "check" PROVE LoopOK(e.chunk, b) /\ b.start = old.start
  <2>1. /\ DOMAIN b = {"breaks", "continues", "start", "check"} /\ b.check = old.check
        /\ b.breaks \cup b.continues = (old.breaks \cup old.continues) \cup {LastIp(e)}
        /\ b.start = old.start
    <3>1. CASE field = "breaks"
      BY <1>2, <1>4, <3>1 DEF LoopOK
    <3>2. CASE field = "continues"
      BY <1>2, <1>4, <3>2 DEF LoopOK
    <3> QED
      BY <1>4, <3>1, <3>2
  <2> HIDE DEF b, old
  <2> QED
    BY <2>1, <1>2, <1>4 DEF LoopOK
<1> HIDE DEF a, b
<1>5. CASE field = "check"
  BY <1>1, <1>3, <1>5, LoopMarked DEF old
<1>6. CASE field # "check"
  BY <1>1, <1>4, <1>6, LoopMarked DEF old
<1> QED
  BY <1>5, <1>6

\* An if, or a loop, ends: one fewer is in progress, and its jumps lead to nops.
Ended(e, f, F, G) ==
    /\ Making(f, F, G) /\ Settled(f, F, G) /\ SameOps(e.chunk, f.chunk) /\ f.ok = e.ok

LEMMA AlikeTwice ==
    ASSUME NEW e, NEW f, NEW g, Alike(e, f), Alike(f, g) PROVE Alike(e, g)
BY DEF Alike, SameOps

LEMMA PopLoopMakes ==
    ASSUME NEW F, NEW G, NEW e, NEW d, Making(e, F, G), Settled(e, F, G), Alike(d, e), e.loops # <<>>
    PROVE  LET f == Popped(e, "loops")
           IN Ended(d, f, F, G) /\ f.ifs = e.ifs /\ Len(f.loops) = Len(e.loops) - 1
<1> DEFINE f == Popped(e, "loops")
           n == Len(e.loops) - 1
           list == SubSeq(e.loops, 1, n)
<1>1. LoopsBecome(e, f, list) /\ IsSeq(e.loops)
  BY ListsChanged DEF Making, Entries
<1>2. n \in Nat /\ n <= Len(e.loops) /\ \A k \in 1..n : k \in 1..Len(e.loops)
  BY <1>1, SeqLength
<1>3. PICK S : e.loops \in Seq(S)
  BY <1>1 DEF IsSeq
<1> HIDE DEF n, f
<1>4. list \in Seq(S) /\ Len(list) = n /\ \A k \in 1..n : list[k] = e.loops[k]
  BY <1>2, <1>3, SeqShorter
<1> HIDE DEF list
<1>5. IsSeq(list) /\ \A k \in 1..Len(list) : k > G => LoopOK(e.chunk, list[k])
  BY <1>2, <1>4 DEF Making, Entries, IsSeq
<1>6. Making(f, F, G)
  BY <1>1, <1>5, LoopsMake
<1>7. Settled(f, F, G)
  BY <1>1, <1>2, <1>4 DEF Settled, LoopsBecome
<1> QED
  BY <1>1, <1>4, <1>6, <1>7 DEF Ended, Alike, LoopsBecome, n, f

LEMMA PopIfMakes ==
    ASSUME NEW F, NEW G, NEW e, NEW d, Making(e, F, G), Settled(e, F, G), Alike(d, e), e.ifs # <<>>
    PROVE  LET f == Popped(e, "ifs")
           IN Ended(d, f, F, G) /\ f.loops = e.loops /\ Len(f.ifs) = Len(e.ifs) - 1
<1> DEFINE f == Popped(e, "ifs")
           n == Len(e.ifs) - 1
           list == SubSeq(e.ifs, 1, n)
<1>1. IfsBecome(e, f, list) /\ IsSeq(e.ifs)
  BY ListsChanged DEF Making, Entries
<1>2. n \in Nat /\ n <= Len(e.ifs) /\ \A k \in 1..n : k \in 1..Len(e.ifs)
  BY <1>1, SeqLength
<1>3. PICK S : e.ifs \in Seq(S)
  BY <1>1 DEF IsSeq
<1> HIDE DEF n, f
<1>4. list \in Seq(S) /\ Len(list) = n /\ \A k \in 1..n : list[k] = e.ifs[k]
  BY <1>2, <1>3, SeqShorter
<1> HIDE DEF list
<1>5. IsSeq(list) /\ \A k \in 1..Len(list) : k > F => IfOK(e.chunk, list[k])
  BY <1>2, <1>4 DEF Making, Entries, IsSeq
<1>6. Making(f, F, G)
  BY <1>1, <1>5, IfsMake
<1>7. Settled(f, F, G)
  BY <1>1, <1>2, <1>4 DEF Settled, IfsBecome
<1> QED
  BY <1>1, <1>4, <1>6, <1>7 DEF Ended, Alike, IfsBecome, n, f

\* The check is patched: the first instruction of the chunk if it was lost.
LEMMA CheckPatched ==
    ASSUME NEW e, DOMAIN e = EFields, ChunkOK(e.chunk), NEW ip, CheckOK(e.chunk, ip),
           NEW t, NopAt(e.chunk, t), t \in Nat
    PROVE  Alike(e, Patch(e, ip, 2, t))
<1>1. Len(e.chunk) \in Nat
  BY SeqLength DEF ChunkOK
<1>2. ip \in Nat /\ ip + 1 \in 1..Len(e.chunk) /\ (ip = 0 \/ e.chunk[ip + 1].op = "jump_else")
  BY <1>1 DEF NopAt, CheckOK
<1> QED
  BY <1>2, PatchAlike

LEMMA EndWhileMakes ==
    ASSUME NEW F, NEW G \in Nat, NEW e, Making(e, F, G), Settled(e, F, G), Len(e.loops) > G,
           NopAt(e.chunk, LastIp(e))
    PROVE  LET f == meta_end_while(e)
           IN /\ Ended(e, f, F, G) /\ Len(f.ifs) = Len(e.ifs)
              /\ Len(f.loops) = Len(e.loops) - 1
<1> DEFINE loop == Innermost(e, "loops")
           exit == LoopExit(e)
           checked == Patch(e, loop.check, 2, exit)
           broken == PatchAll(checked, loop.breaks, exit)
           continued == PatchAll(broken, loop.continues, loop.start)
<1>1. meta_end_while(e) = Popped(continued, "loops")
  BY DEF meta_end_while
<1>2. /\ DOMAIN e = EFields /\ ChunkOK(e.chunk) /\ IsSeq(e.loops)
      /\ Len(e.chunk) \in Nat /\ Len(e.loops) \in Nat
  BY SeqLength DEF Making, Entries, ChunkOK
<1>3. Len(e.loops) \in 1..Len(e.loops)
  BY <1>2
<1>4. LoopOK(e.chunk, loop) /\ loop.start < Len(e.chunk)
  BY <1>3 DEF Making, Entries, Settled, Innermost
<1>5. exit \in Nat /\ NopAt(e.chunk, exit)
  BY <1>2 DEF LoopExit, LastIp, NopAt
<1>6. loop.start \in Nat /\ NopAt(e.chunk, loop.start)
  BY <1>2, <1>4 DEF LoopOK
<1>7. CheckOK(e.chunk, loop.check) /\ \A ip \in loop.breaks \cup loop.continues : JumpAt(e.chunk, ip)
  BY <1>4 DEF LoopOK
<1> HIDE DEF loop, exit
<1>8. Alike(e, checked)
  BY <1>2, <1>5, <1>7, CheckPatched
<1> HIDE DEF checked
<1>9. Alike(checked, broken)
  <2>1. /\ DOMAIN checked = EFields /\ ChunkOK(checked.chunk) /\ NopAt(checked.chunk, exit)
        /\ \A ip \in loop.breaks : JumpAt(checked.chunk, ip)
    BY <1>5, <1>7, <1>8, OpsKept DEF Alike
  <2> QED
    BY <2>1, <1>5, PatchAllAlike
<1> HIDE DEF broken
<1>10. Alike(e, broken)
  BY <1>8, <1>9, AlikeTwice
<1>11. Alike(broken, continued)
  <2>1. /\ DOMAIN broken = EFields /\ ChunkOK(broken.chunk) /\ NopAt(broken.chunk, loop.start)
        /\ \A ip \in loop.continues : JumpAt(broken.chunk, ip)
    BY <1>6, <1>7, <1>10, OpsKept DEF Alike
  <2> QED
    BY <2>1, <1>6, PatchAllAlike
<1> HIDE DEF continued
<1>12. Alike(e, continued)
  BY <1>10, <1>11, AlikeTwice
<1>13. Making(continued, F, G) /\ Settled(continued, F, G)
  BY <1>12, AlikeMakes
<1>14. continued.loops = e.loops /\ continued.ifs = e.ifs /\ e.loops # <<>>
  <2>1. e.loops # <<>>
    BY <1>3, EmptySeq
  <2> QED
    BY <1>12, <2>1 DEF Alike
<1> QED
  BY <1>1, <1>12, <1>13, <1>14, PopLoopMakes

LEMMA EndIfMakes ==
    ASSUME NEW F \in Nat, NEW G, NEW e, Making(e, F, G), Settled(e, F, G), Len(e.ifs) > F,
           NopAt(e.chunk, LastIp(e))
    PROVE  LET f == meta_end_if_else(e)
           IN /\ Ended(e, f, F, G) /\ Len(f.ifs) = Len(e.ifs) - 1
              /\ Len(f.loops) = Len(e.loops)
<1> DEFINE cond == Innermost(e, "ifs")
           exit == LastIp(e)
           led == Patch(e, cond.check, 2, cond.alt + 1)
           both == Patch(led, cond.alt, 1, exit)
           one == Patch(e, cond.check, 2, exit)
<1>1. meta_end_if_else(e) = Popped(IF cond.alt # -1 THEN both ELSE one, "ifs")
  BY DEF meta_end_if_else
<1>2. /\ DOMAIN e = EFields /\ ChunkOK(e.chunk) /\ IsSeq(e.ifs)
      /\ Len(e.chunk) \in Nat /\ Len(e.ifs) \in Nat
  BY SeqLength DEF Making, Entries, ChunkOK
<1>3. Len(e.ifs) \in 1..Len(e.ifs)
  BY <1>2
<1>4. IfOK(e.chunk, cond) /\ (cond.alt = -1 \/ cond.alt + 1 < Len(e.chunk))
  BY <1>3 DEF Making, Entries, Settled, Innermost
<1>5. exit \in Nat /\ NopAt(e.chunk, exit)
  BY <1>2 DEF LastIp, NopAt
<1>6. CheckOK(e.chunk, cond.check)
  BY <1>4 DEF IfOK
<1>7. e.ifs # <<>>
  BY <1>3, EmptySeq
<1>8. ASSUME NEW g, Alike(e, g)
      PROVE  LET f == Popped(g, "ifs")
             IN /\ Ended(e, f, F, G) /\ Len(f.ifs) = Len(e.ifs) - 1
                /\ Len(f.loops) = Len(e.loops)
  <2>1. Making(g, F, G) /\ Settled(g, F, G) /\ g.ifs = e.ifs /\ g.loops = e.loops
    BY <1>8, AlikeMakes DEF Alike
  <2> QED
    BY <1>7, <1>8, <2>1, PopIfMakes
<1> HIDE DEF cond, exit
<1>9. CASE cond.alt # -1
  <2>1. JumpAt(e.chunk, cond.alt) /\ NopAt(e.chunk, cond.alt + 1)
    BY <1>4, <1>9 DEF IfOK
  <2>2. cond.alt \in Nat /\ cond.alt + 1 \in Nat
    BY <2>1 DEF JumpAt
  <2>3. Alike(e, led)
    BY <1>2, <1>6, <2>1, <2>2, CheckPatched
  <2> HIDE DEF led
  <2>4. DOMAIN led = EFields /\ ChunkOK(led.chunk) /\ NopAt(led.chunk, exit) /\ JumpAt(led.chunk, cond.alt)
    BY <1>5, <2>1, <2>3, OpsKept DEF Alike
  <2>5. Alike(led, both)
    BY <2>4, <1>5, PatchAlike DEF JumpAt
  <2> HIDE DEF both
  <2>6. Alike(e, both)
    BY <2>3, <2>5, AlikeTwice
  <2> QED
    BY <1>1, <1>8, <1>9, <2>6
<1>10. CASE cond.alt = -1
  <2>1. Alike(e, one)
    BY <1>2, <1>5, <1>6, CheckPatched
  <2> HIDE DEF one
  <2> QED
    BY <1>1, <1>8, <1>10, <2>1
<1> QED
  BY <1>9, <1>10

-----------------------------------------------------------------------------
(* Instructions *)

Moves(s) == s.op = "nop" /\ s.args # <<>>

\* The instruction that is made of a step.
Made(ins, s) ==
    /\ DOMAIN ins = {"op", "args", "at"} /\ IsSeq(ins.args)
    /\ Moves(s) => ins.op = "mov"
    /\ ~ Moves(s) => ins.op = s.op
    /\ ins.args # <<>> <=> s.args # <<>>
    /\ s.args # <<>> => ins.args[1][2] = s.args[1][2]
    /\ s.op # "neg" => Len(ins.args) = Len(s.args)
    /\ s.op # "neg" => \A i \in 1..Len(s.args) : ins.args[i][2] = s.args[i][2]

LEMMA Translated ==
    ASSUME NEW args, IsSeq(args), NEW t, t = [i \in DOMAIN args |-> translate_value_aa(args[i])]
    PROVE  /\ IsSeq(t) /\ Len(t) = Len(args) /\ (t # <<>> <=> args # <<>>)
           /\ \A i \in 1..Len(args) : t[i][2] = args[i][2]
           /\ args # <<>> => t[1][2] = args[1][2]
<1>1. Len(args) \in Nat /\ DOMAIN args = 1..Len(args) /\ (args # <<>> => Len(args) > 0)
  BY SeqLength
<1>2. \A aa : translate_value_aa(aa)[2] = aa[2]
  <2>1. ASSUME NEW aa PROVE translate_value_aa(aa)[2] = aa[2]
    <3>1. CASE aa[1] = "temp"
      BY <3>1 DEF translate_value_aa
    <3>2. CASE aa[1] # "temp"
      BY <3>2 DEF translate_value_aa
    <3> QED
      BY <3>1, <3>2
  <2> QED
    BY <2>1
<1>3. \A i \in 1..Len(args) : t[i] = translate_value_aa(args[i])
  BY <1>1
<1>4. t = [i \in 1..Len(args) |-> t[i]]
  BY <1>1
<1>5. IsSeq(t) /\ Len(t) = Len(args)
  BY <1>1, <1>4, FunctionSeq
<1>6. t # <<>> <=> args # <<>>
  <2>1. t # <<>> => Len(t) > 0
    BY <1>5, SeqLength
  <2>2. Len(<<>>) = 0
    BY EmptySeq
  <2> QED
    BY <1>1, <1>5, <2>1, <2>2
<1>7. \A i \in 1..Len(args) : t[i][2] = args[i][2]
  BY <1>2, <1>3
<1>8. args # <<>> => t[1][2] = args[1][2]
  BY <1>1, <1>7
<1> QED
  BY <1>5, <1>6, <1>7, <1>8

LEMMA InstructMakes ==
    ASSUME NEW e, NEW op, NEW s, IsSeq(s.args)
    PROVE  \E ins : /\ Instruct(e, op, s) = Pushed(e, "chunk", ins)
                    /\ DOMAIN ins = {"op", "args", "at"} /\ ins.op = op
                    /\ IsSeq(ins.args) /\ Len(ins.args) = Len(s.args)
                    /\ (ins.args # <<>> <=> s.args # <<>>)
                    /\ \A i \in 1..Len(s.args) : ins.args[i][2] = s.args[i][2]
                    /\ s.args # <<>> => ins.args[1][2] = s.args[1][2]
<1> DEFINE t == [i \in DOMAIN s.args |-> translate_value_aa(s.args[i])]
           ins == [op |-> op, at |-> s.at, args |-> t]
<1>1. Instruct(e, op, s) = Pushed(e, "chunk", ins)
  BY DEF Instruct
<1>2. DOMAIN ins = {"op", "args", "at"} /\ ins.op = op /\ ins.args = t
  OBVIOUS
<1> HIDE DEF ins
<1>3. /\ IsSeq(t) /\ Len(t) = Len(s.args) /\ (t # <<>> <=> s.args # <<>>)
      /\ \A i \in 1..Len(s.args) : t[i][2] = s.args[i][2]
      /\ s.args # <<>> => t[1][2] = s.args[1][2]
  BY Translated
<1> HIDE DEF t
<1> QED
  BY <1>1, <1>2, <1>3

LEMMA StepMade ==
    ASSUME NEW e, e.ok, NEW s, Written(s), s.op \notin Metas
    PROVE  \E ins : Made(ins, s) /\ emit_step(e, s) = Pushed(e, "chunk", ins)
<1>1. IsSeq(s.args) /\ DOMAIN s = {"op", "args", "at"} /\ s.op \in StepOps
  BY DEF Written, Arguments
<1>2. ~ Astray(e, s)
  BY DEF Astray, Metas
<1>3. CASE Moves(s)
  <2>1. emit_step(e, s) = Instruct(e, "mov", s)
    BY <1>2, <1>3 DEF emit_step, Moves
  <2>2. PICK ins : /\ Instruct(e, "mov", s) = Pushed(e, "chunk", ins)
                   /\ DOMAIN ins = {"op", "args", "at"} /\ ins.op = "mov"
                   /\ IsSeq(ins.args) /\ Len(ins.args) = Len(s.args)
                   /\ (ins.args # <<>> <=> s.args # <<>>)
                   /\ \A i \in 1..Len(s.args) : ins.args[i][2] = s.args[i][2]
                   /\ s.args # <<>> => ins.args[1][2] = s.args[1][2]
    BY <1>1, InstructMakes
  <2>3. Made(ins, s)
    BY <1>3, <2>2 DEF Made
  <2> QED
    BY <2>1, <2>2, <2>3
<1>4. CASE s.op = "neg"
  <2> DEFINE first == s.args[1]
             r == [s EXCEPT !.args = <<first>>]
  <2>1. emit_step(e, s) = Instruct(e, "neg", r)
    BY <1>2, <1>4 DEF emit_step
  <2>2. r.args = <<first>>
    BY <1>1
  <2> HIDE DEF first
  <2>3. IsSeq(r.args) /\ r.args # <<>> /\ r.args[1] = first
    <3>1. <<first>> \in Seq({first}) /\ <<first>> # <<>> /\ <<first>>[1] = first
      OBVIOUS
    <3> QED
      BY <2>2, <3>1 DEF IsSeq
  <2> HIDE DEF r
  <2>4. PICK ins : /\ Instruct(e, "neg", r) = Pushed(e, "chunk", ins)
                   /\ DOMAIN ins = {"op", "args", "at"} /\ ins.op = "neg"
                   /\ IsSeq(ins.args) /\ Len(ins.args) = Len(r.args)
                   /\ (ins.args # <<>> <=> r.args # <<>>)
                   /\ \A i \in 1..Len(r.args) : ins.args[i][2] = r.args[i][2]
                   /\ r.args # <<>> => ins.args[1][2] = r.args[1][2]
    BY <2>3, InstructMakes
  <2>5. s.args # <<>>
    BY <1>4 DEF Written, Arguments, Metas
  <2>6. Made(ins, s)
    BY <1>4, <2>3, <2>4, <2>5 DEF Made, Moves, first
  <2> QED
    BY <2>1, <2>4, <2>6
<1>5. CASE ~ Moves(s) /\ s.op # "neg"
  <2> DEFINE op == s.op
  <2>1. emit_step(e, s) = Instruct(e, op, s)
    BY <1>2, <1>5 DEF emit_step, Moves
  <2> HIDE DEF op
  <2>2. PICK ins : /\ Instruct(e, op, s) = Pushed(e, "chunk", ins)
                   /\ DOMAIN ins = {"op", "args", "at"} /\ ins.op = op
                   /\ IsSeq(ins.args) /\ Len(ins.args) = Len(s.args)
                   /\ (ins.args # <<>> <=> s.args # <<>>)
                   /\ \A i \in 1..Len(s.args) : ins.args[i][2] = s.args[i][2]
                   /\ s.args # <<>> => ins.args[1][2] = s.args[1][2]
    BY <1>1, InstructMakes
  <2>3. Made(ins, s)
    BY <1>5, <2>2 DEF Made, op
  <2> QED
    BY <2>1, <2>2, <2>3
<1> QED
  BY <1>3, <1>4, <1>5

\* The last instruction of a chunk is what was made of s.
LastMade(c, s) == c # <<>> /\ Made(c[Len(c)], s)

LEMMA MadeFollows ==
    ASSUME NEW c, ChunkOK(c), NEW s, Written(s), s.op \notin Metas, NEW ins, Made(ins, s),
           PassesArguments(s) => \E r : MovesAbove(r, Passed(s)) /\ LastMade(c, r),
           NEW d, Extended(d, c, ins)
    PROVE  ChunkOK(d) /\ LastMade(d, s)
<1>1. IsSeq(c) /\ Len(c) \in Nat
  BY SeqLength DEF ChunkOK
<1>2. /\ IsSeq(d) /\ Len(c) \in Nat /\ Len(d) = Len(c) + 1 /\ d[Len(c) + 1] = ins
      /\ \A k \in 1..Len(c) : d[k] = c[k]
      /\ \A ip : NopAt(c, ip) => NopAt(d, ip)
      /\ \A ip : JumpAt(c, ip) => JumpAt(d, ip)
      /\ \A ip : CheckOK(c, ip) => CheckOK(d, ip)
  BY <1>1, AppendKeeps
<1>3. /\ IsSeq(s.args) /\ s.op \in StepOps
      /\ s.args # <<>> => s.args[1][2] \in Nat
      /\ s.op # "nop" => s.args # <<>>
      /\ s.op \in {"jump_else"} \cup CallOps => Len(s.args) = 2 /\ s.args[2][2] \in Nat
      /\ s.op \in Jumps => JumpsTo(s) = 0
  BY DEF Written, Arguments
<1>4. ASSUME NEW k \in 1..Len(c) PROVE InstructionOK(d, k)
  <2>1. InstructionOK(c, k) /\ d[k] = c[k]
    BY <1>2 DEF ChunkOK
  <2>2. k > 1 => d[k - 1] = c[k - 1]
    <3>1. k > 1 => k - 1 \in 1..Len(c)
      BY <1>1
    <3> QED
      BY <3>1, <1>2
  <2> QED
    BY <2>1, <2>2, <1>2 DEF InstructionOK
<1>5. InstructionOK(d, Len(c) + 1)
  <2> DEFINE n == Len(c) + 1
  <2>1. /\ DOMAIN ins = {"op", "args", "at"} /\ IsSeq(ins.args)
        /\ ins.op # "jump_if"
    <3>1. s.op # "jump_if"
      BY <1>3 DEF StepOps, BinaryOps, Metas, OfIf, OfLoop
    <3> QED
      BY <3>1 DEF Made
  <2>2. ins.op # "nop" => ins.args # <<>>
    BY <1>3 DEF Made, Moves
  <2>3. ins.args # <<>> => ins.args[1][2] \in Nat
    BY <1>3 DEF Made
  <2>4. ins.op \in {"jump", "jump_else"} \cup CallOps =>
          /\ ins.op = s.op /\ s.op # "neg" /\ Len(ins.args) = Len(s.args)
          /\ \A i \in 1..Len(s.args) : ins.args[i][2] = s.args[i][2]
    BY DEF Made, CallOps
  <2>5. Len(s.args) = 2 => 2 \in 1..Len(s.args)
    OBVIOUS
  <2>6. ins.op \in {"jump_else"} \cup CallOps => Len(ins.args) = 2 /\ ins.args[2][2] \in Nat
    BY <2>4, <2>5, <1>3
  <2>7. ins.op \in Jumps => JumpsTo(ins) = 0 \/ NopAt(d, JumpsTo(ins))
    <3>1. CASE ins.op = "jump"
      <4>1. s.op = "jump" /\ s.args # <<>>
        BY <3>1, <2>4, <1>3
      <4>2. JumpsTo(ins) = ins.args[1][2] /\ JumpsTo(s) = s.args[1][2]
        BY <3>1, <4>1 DEF JumpsTo
      <4>3. JumpsTo(s) = 0
        BY <4>1, <1>3 DEF Jumps
      <4>4. ins.args[1][2] = s.args[1][2]
        BY <4>1 DEF Made
      <4> QED
        BY <4>2, <4>3, <4>4
    <3>2. CASE ins.op = "jump_else"
      <4>1. s.op = "jump_else" /\ 2 \in 1..Len(s.args)
        BY <3>2, <2>4, <2>5, <1>3
      <4>2. JumpsTo(ins) = ins.args[2][2] /\ JumpsTo(s) = s.args[2][2]
        BY <3>2, <4>1 DEF JumpsTo
      <4>3. JumpsTo(s) = 0
        BY <4>1, <1>3 DEF Jumps
      <4>4. ins.args[2][2] = s.args[2][2]
        BY <3>2, <4>1, <2>4
      <4> QED
        BY <4>2, <4>3, <4>4
    <3> QED
      BY <2>1, <3>1, <3>2 DEF Jumps
  <2>8. ASSUME n > 1, PassesArguments(ins)
        PROVE  c[Len(c)].op = "mov" /\ c[Len(c)].args # <<>> /\ c[Len(c)].args[1][2] >= Passed(ins) - 1
    <3>1. ins.op \in CallOps
      BY <2>8 DEF PassesArguments
    <3>2. s.op \in CallOps /\ ins.args[2][2] = s.args[2][2]
      BY <3>1, <2>4, <2>5, <1>3
    <3>3. PassesArguments(s) /\ Passed(ins) = Passed(s)
      BY <2>8, <3>2 DEF PassesArguments, Passed
    <3>4. PICK r : MovesAbove(r, Passed(s)) /\ LastMade(c, r)
      BY <3>3
    <3> QED
      BY <3>3, <3>4 DEF MovesAbove, LastMade, Made, Moves
  <2>9. n - 1 = Len(c) /\ (n > 1 => d[n - 1] = c[Len(c)])
    <3>1. n - 1 = Len(c)
      BY <1>1
    <3>2. n > 1 => Len(c) \in 1..Len(c)
      BY <1>1
    <3> QED
      BY <3>1, <3>2, <1>2
  <2>10. d[n] = ins
    BY <1>2
  <2> HIDE DEF n
  <2>11. InstructionOK(d, n)
    BY <2>1, <2>2, <2>3, <2>6, <2>7, <2>8, <2>9, <2>10 DEF InstructionOK
  <2> QED
    BY <2>11 DEF n
<1>6. \A k \in 1..Len(d) : k \in 1..Len(c) \/ k = Len(c) + 1
  BY <1>1, <1>2
<1>7. ChunkOK(d)
  BY <1>2, <1>4, <1>5, <1>6 DEF ChunkOK
<1>8. d # <<>>
  <2>1. Len(d) # 0
    BY <1>1, <1>2
  <2> QED
    BY <2>1, EmptySeq
<1>9. LastMade(d, s)
  BY <1>2, <1>8 DEF LastMade
<1> QED
  BY <1>7, <1>9

-----------------------------------------------------------------------------
(* What is in progress is what has begun, in the steps D, and not ended *)

Tally(n, F, op, cfg, M, D) ==
    \E U \in SUBSET D :
       /\ IsFiniteSet(U) /\ n = F + Cardinality(U)
       /\ \A p \in D : OpAt(cfg, p) = op => p \in U \/ \E y \in D \cap EndsOf(cfg) : M[y] = p

LEMMA TallyOther ==
    ASSUME NEW n, NEW F, NEW op, NEW cfg, NEW M, NEW D, Tally(n, F, op, cfg, M, D),
           NEW x, OpAt(cfg, x) # op
    PROVE  Tally(n, F, op, cfg, M, D \cup {x})
<1>1. PICK U \in SUBSET D :
          /\ IsFiniteSet(U) /\ n = F + Cardinality(U)
          /\ \A p \in D : OpAt(cfg, p) = op => p \in U \/ \E y \in D \cap EndsOf(cfg) : M[y] = p
  BY DEF Tally
<1>2. U \in SUBSET (D \cup {x})
  OBVIOUS
<1>3. \A p \in D \cup {x} : OpAt(cfg, p) = op =>
          p \in U \/ \E y \in (D \cup {x}) \cap EndsOf(cfg) : M[y] = p
  BY <1>1
<1> QED
  BY <1>1, <1>2, <1>3 DEF Tally

LEMMA TallyBegin ==
    ASSUME NEW n \in Nat, NEW F \in Nat, NEW op, NEW cfg, NEW M, NEW D, Tally(n, F, op, cfg, M, D),
           NEW x, x \notin D
    PROVE  Tally(n + 1, F, op, cfg, M, D \cup {x})
<1>1. PICK U \in SUBSET D :
          /\ IsFiniteSet(U) /\ n = F + Cardinality(U)
          /\ \A p \in D : OpAt(cfg, p) = op => p \in U \/ \E y \in D \cap EndsOf(cfg) : M[y] = p
  BY DEF Tally
<1> DEFINE V == U \cup {x}
<1>2. x \notin U /\ V \in SUBSET (D \cup {x})
  OBVIOUS
<1>3. IsFiniteSet(V) /\ Cardinality(V) = Cardinality(U) + 1
  BY <1>1, <1>2, FS_AddElement
<1>4. Cardinality(U) \in Nat
  BY <1>1, FS_CardinalityType
<1>5. \A p \in D \cup {x} : OpAt(cfg, p) = op =>
          p \in V \/ \E y \in (D \cup {x}) \cap EndsOf(cfg) : M[y] = p
  BY <1>1
<1> HIDE DEF V
<1>6. n + 1 = F + Cardinality(V)
  BY <1>1, <1>3, <1>4
<1> QED
  BY <1>2, <1>3, <1>5, <1>6 DEF Tally

LEMMA TallyEnd ==
    ASSUME NEW n \in Nat, NEW F \in Nat, NEW op, NEW cfg, NEW M, NEW D, Tally(n, F, op, cfg, M, D),
           NEW x \in EndsOf(cfg), x \notin D, OpAt(cfg, x) # op,
           M[x] \in D, OpAt(cfg, M[x]) = op,
           \A y \in EndsOf(cfg) : M[x] = M[y] => x = y
    PROVE  n > F /\ Tally(n - 1, F, op, cfg, M, D \cup {x})
<1>1. PICK U \in SUBSET D :
          /\ IsFiniteSet(U) /\ n = F + Cardinality(U)
          /\ \A p \in D : OpAt(cfg, p) = op => p \in U \/ \E y \in D \cap EndsOf(cfg) : M[y] = p
  BY DEF Tally
<1> DEFINE b == M[x]
           V == U \ {b}
<1>2. b \in U
  BY <1>1
<1>3. V \in SUBSET (D \cup {x})
  OBVIOUS
<1>4. IsFiniteSet(V) /\ Cardinality(V) = Cardinality(U) - 1
  BY <1>1, <1>2, FS_RemoveElement
<1>5. Cardinality(U) \in Nat /\ Cardinality(V) \in Nat
  BY <1>1, <1>4, FS_CardinalityType
<1>6. \A p \in D \cup {x} : OpAt(cfg, p) = op =>
          p \in V \/ \E y \in (D \cup {x}) \cap EndsOf(cfg) : M[y] = p
  BY <1>1
<1> HIDE DEF V, b
<1>7. n > F /\ n - 1 = F + Cardinality(V)
  BY <1>1, <1>4, <1>5
<1> QED
  BY <1>3, <1>4, <1>6, <1>7 DEF Tally

-----------------------------------------------------------------------------
(* A step *)

IfBegin == "meta_begin_if_else"
WhileBegin == "meta_begin_while"
Progress(e, cfg, M, F, G, D) ==
    /\ Making(e, F, G)
    /\ Tally(Len(e.ifs), F, IfBegin, cfg, M, D)
    /\ Tally(Len(e.loops), G, WhileBegin, cfg, M, D)

LEMMA LastMarks ==
    ASSUME NEW e, ChunkOK(e.chunk), NEW r, LastMade(e.chunk, r)
    PROVE  /\ r.op = "jump" => JumpAt(e.chunk, LastIp(e))
           /\ r.op = "jump_else" => CheckOK(e.chunk, LastIp(e))
           /\ IsNop(r) => NopAt(e.chunk, LastIp(e))
<1>1. Len(e.chunk) \in Nat /\ Len(e.chunk) > 0
  BY SeqLength DEF ChunkOK, LastMade
<1>2. LastIp(e) \in Nat /\ LastIp(e) + 1 = Len(e.chunk) /\ LastIp(e) + 1 \in 1..Len(e.chunk)
  BY <1>1 DEF LastIp
<1>3. ~ Moves(r) => e.chunk[Len(e.chunk)].op = r.op
  BY DEF LastMade, Made
<1>4. /\ r.op = "jump" => ~ Moves(r)
      /\ r.op = "jump_else" => ~ Moves(r)
      /\ IsNop(r) => ~ Moves(r) /\ r.op = "nop"
  BY DEF Moves, IsNop
<1> QED
  BY <1>2, <1>3, <1>4 DEF JumpAt, CheckOK, NopAt

\* What the step before has left when this one is emitted: i is its place in the block.
Before(e, steps, i) ==
    i > 1 /\ steps[i - 1].op \notin Metas => LastMade(e.chunk, steps[i - 1])

LEMMA Neighbour ==
    ASSUME NEW steps, StepsOK(steps), NEW i \in 1..Len(steps), NEW e, ChunkOK(e.chunk),
           Before(e, steps, i)
    PROVE  /\ steps[i].op \in Checks => CheckOK(e.chunk, LastIp(e))
           /\ steps[i].op \in JumpMarks => JumpAt(e.chunk, LastIp(e))
           /\ steps[i].op \in EndOps => NopAt(e.chunk, LastIp(e))
           /\ PassesArguments(steps[i]) =>
                 \E r : MovesAbove(r, Passed(steps[i])) /\ LastMade(e.chunk, r)
           /\ steps[i].op \in NopAfter => i < Len(steps) /\ IsNop(steps[i + 1])
           /\ Written(steps[i])
<1> DEFINE s == steps[i]
           r == steps[i - 1]
<1>1. Written(s) /\ Placed(steps, i)
  BY DEF StepsOK
<1>2. i > 1 /\ r.op \notin Metas => LastMade(e.chunk, r)
  BY DEF Before
<1>3. /\ "jump" \notin Metas /\ "jump_else" \notin Metas /\ "nop" \notin Metas
  BY DEF Metas, OfIf, OfLoop
<1>4. /\ s.op \in Checks => i > 1 /\ r.op = "jump_else"
      /\ s.op \in JumpMarks => i > 1 /\ r.op = "jump"
      /\ s.op \in EndOps => i > 1 /\ IsNop(r)
      /\ s.op \in NopAfter => i < Len(steps) /\ IsNop(steps[i + 1])
      /\ PassesArguments(s) => i > 1 /\ MovesAbove(r, Passed(s))
  BY <1>1 DEF Placed
<1>5. (IsNop(r) => r.op = "nop") /\ (\A n : MovesAbove(r, n) => r.op = "nop")
  BY DEF IsNop, MovesAbove
<1> HIDE DEF s, r
<1>6. s.op \in Checks => CheckOK(e.chunk, LastIp(e))
  BY <1>2, <1>3, <1>4, LastMarks
<1>7. s.op \in JumpMarks => JumpAt(e.chunk, LastIp(e))
  BY <1>2, <1>3, <1>4, LastMarks
<1>8. s.op \in EndOps => NopAt(e.chunk, LastIp(e))
  BY <1>2, <1>3, <1>4, <1>5, LastMarks
<1>9. PassesArguments(s) => \E q : MovesAbove(q, Passed(s)) /\ LastMade(e.chunk, q)
  BY <1>2, <1>3, <1>4, <1>5
<1> QED
  BY <1>1, <1>4, <1>6, <1>7, <1>8, <1>9 DEF s

\* What is in progress after step i of a block.
After(f, steps, i, cfg, M, F, G, D) ==
    /\ Progress(f, cfg, M, F, G, D)
    /\ Settled(f, F, G) \/ (i < Len(steps) /\ IsNop(steps[i + 1]))
    /\ steps[i].op \notin Metas => LastMade(f.chunk, steps[i])

StepDone(e, f, steps, i, cfg, M, F, G, D) == f.ok = e.ok /\ After(f, steps, i, cfg, M, F, G, D)

\* x is the place of a step of the graph, and D those before it.
At(x, s, cfg, M, D) ==
    /\ x \notin D /\ OpAt(cfg, x) = s.op
    /\ s.op \in EndOps =>
          /\ x \in EndsOf(cfg) /\ M[x] \in D /\ OpAt(cfg, M[x]) = BeginOf(s.op)
          /\ \A y \in EndsOf(cfg) : M[x] = M[y] => x = y

LEMMA Lengths ==
    ASSUME NEW F, NEW G, NEW e, Making(e, F, G)
    PROVE  /\ Len(e.ifs) \in Nat /\ Len(e.loops) \in Nat /\ Len(e.chunk) \in Nat
           /\ IsSeq(e.chunk) /\ ChunkOK(e.chunk) /\ DOMAIN e = EFields
BY SeqLength DEF Making, Entries, ChunkOK

\* The step is an instruction.
LEMMA InstructionEmitted ==
    ASSUME NEW steps, StepsOK(steps), NEW i \in 1..Len(steps), NEW s, s = steps[i], s.op \notin Metas,
           NEW cfg, NEW M, NEW F \in Nat, NEW G \in Nat, NEW D, NEW x, At(x, s, cfg, M, D),
           NEW e, e.ok, Progress(e, cfg, M, F, G, D), Before(e, steps, i),
           Settled(e, F, G) \/ IsNop(s)
    PROVE  StepDone(e, emit_step(e, s), steps, i, cfg, M, F, G, D \cup {x})
<1>1. Written(s) /\ (PassesArguments(s) => \E r : MovesAbove(r, Passed(s)) /\ LastMade(e.chunk, r))
  BY Neighbour DEF Progress, Making
<1>2. PICK ins : Made(ins, s) /\ emit_step(e, s) = Pushed(e, "chunk", ins)
  BY <1>1, StepMade
<1> DEFINE f == Pushed(e, "chunk", ins)
           d == Append(e.chunk, ins)
<1>3. Extended(d, e.chunk, ins) /\ ChunkOK(e.chunk) /\ Making(e, F, G)
  BY DEF Extended, Progress, Making
<1> HIDE DEF d
<1>4. ChunkOK(d) /\ LastMade(d, s)
  BY <1>1, <1>2, <1>3, MadeFollows
<1>5. IsNop(s) => ins.op = "nop"
  BY <1>2 DEF IsNop, Made, Moves
<1>10. Instructed(e, f, ins, F, G)
  BY <1>3, <1>4, <1>5, InstructedMakes
<1>6. /\ Making(f, F, G) /\ Settled(f, F, G)
      /\ f.chunk = d /\ f.ok = e.ok
      /\ f.ifs = e.ifs /\ f.loops = e.loops
  BY <1>3, <1>10 DEF Instructed, Extended
<1> HIDE DEF f
<1>7. OpAt(cfg, x) # IfBegin /\ OpAt(cfg, x) # WhileBegin
  BY DEF At, IfBegin, WhileBegin, Metas
<1>8. /\ Tally(Len(f.ifs), F, IfBegin, cfg, M, D \cup {x})
      /\ Tally(Len(f.loops), G, WhileBegin, cfg, M, D \cup {x})
  BY <1>6, <1>7, TallyOther DEF Progress
<1>9. After(f, steps, i, cfg, M, F, G, D \cup {x})
  BY <1>4, <1>6, <1>8 DEF After, Progress
<1> QED
  BY <1>2, <1>6, <1>9 DEF f, StepDone

\* The step is a meta step, and there is what it is about.
LEMMA MetaEmitted ==
    ASSUME NEW steps, StepsOK(steps), NEW i \in 1..Len(steps), NEW s, s = steps[i], s.op \in Metas,
           NEW cfg, NEW M, NEW F \in Nat, NEW G \in Nat, NEW D, NEW x, At(x, s, cfg, M, D),
           NEW e, ~ Astray(e, s), Progress(e, cfg, M, F, G, D), Before(e, steps, i),
           Settled(e, F, G)
    PROVE  StepDone(e, oper_meta(e, s), steps, i, cfg, M, F, G, D \cup {x})
<1> DEFINE E == D \cup {x}
           n == Len(e.ifs)
           m == Len(e.loops)
<1>1. /\ s.op \in Checks => CheckOK(e.chunk, LastIp(e))
      /\ s.op \in JumpMarks => JumpAt(e.chunk, LastIp(e))
      /\ s.op \in EndOps => NopAt(e.chunk, LastIp(e))
      /\ s.op \in NopAfter => i < Len(steps) /\ IsNop(steps[i + 1])
  BY Neighbour DEF Progress, Making
<1>2. n \in Nat /\ m \in Nat /\ Making(e, F, G)
  BY Lengths DEF Progress
<1>3. /\ s.op # IfBegin => Tally(n, F, IfBegin, cfg, M, E)
      /\ s.op # WhileBegin => Tally(m, G, WhileBegin, cfg, M, E)
  BY TallyOther DEF Progress, At
<1>4. ASSUME NEW f, f.ok = e.ok, Making(f, F, G),
             Tally(Len(f.ifs), F, IfBegin, cfg, M, E),
             Tally(Len(f.loops), G, WhileBegin, cfg, M, E),
             Settled(f, F, G) \/ s.op \in NopAfter
      PROVE  StepDone(e, f, steps, i, cfg, M, F, G, E)
  BY <1>1, <1>4 DEF StepDone, After, Progress
<1>5. CASE s.op = IfBegin
  <2> DEFINE f == meta_begin_if_else(e)
  <2>1. oper_meta(e, s) = f
    BY <1>5 DEF oper_meta, IfBegin
  <2>2. /\ Making(f, F, G) /\ (Settled(e, F, G) => Settled(f, F, G))
        /\ f.chunk = e.chunk /\ f.ok = e.ok
        /\ Len(f.ifs) = Len(e.ifs) + 1 /\ Len(f.loops) = Len(e.loops)
    BY <1>2, BeginIfMakes
  <2> HIDE DEF f
  <2>3. Tally(n + 1, F, IfBegin, cfg, M, E)
    BY <1>2, TallyBegin DEF Progress, At
  <2>4. Tally(m, G, WhileBegin, cfg, M, E)
    BY <1>3, <1>5 DEF IfBegin, WhileBegin
  <2> QED
    BY <2>1, <2>2, <2>3, <2>4, <1>4
<1>6. CASE s.op = WhileBegin
  <2> DEFINE f == meta_begin_while(e)
  <2>1. oper_meta(e, s) = f
    BY <1>6 DEF oper_meta, WhileBegin
  <2>2. /\ Making(f, F, G) /\ f.chunk = e.chunk /\ f.ok = e.ok
        /\ Len(f.ifs) = Len(e.ifs) /\ Len(f.loops) = Len(e.loops) + 1
    BY <1>2, BeginWhileMakes
  <2> HIDE DEF f
  <2>3. Tally(m + 1, G, WhileBegin, cfg, M, E)
    BY <1>2, TallyBegin DEF Progress, At
  <2>4. Tally(n, F, IfBegin, cfg, M, E) /\ s.op \in NopAfter
    BY <1>3, <1>6 DEF IfBegin, WhileBegin, NopAfter
  <2> QED
    BY <2>1, <2>2, <2>3, <2>4, <1>4
<1>7. CASE s.op = "meta_end_if_else"
  <2> DEFINE f == meta_end_if_else(e)
  <2>1. oper_meta(e, s) = f
    BY <1>7 DEF oper_meta
  <2>0. s.op \in EndOps /\ BeginOf(s.op) = IfBegin /\ s.op # IfBegin /\ s.op # WhileBegin
    BY <1>7 DEF EndOps, BeginOf, IfBegin, WhileBegin
  <2>2. n > F /\ Tally(n - 1, F, IfBegin, cfg, M, E)
    <3>1. Tally(n, F, IfBegin, cfg, M, D)
      BY DEF Progress
    <3>2. /\ x \in EndsOf(cfg) /\ x \notin D /\ OpAt(cfg, x) # IfBegin
          /\ M[x] \in D /\ OpAt(cfg, M[x]) = IfBegin
          /\ \A y \in EndsOf(cfg) : M[x] = M[y] => x = y
      BY <2>0 DEF At
    <3>3. n \in Nat
      BY <1>2
    <3> HIDE DEF n
    <3> QED
      BY <3>1, <3>2, <3>3, TallyEnd
  <2>3. Ended(e, f, F, G) /\ Len(f.ifs) = Len(e.ifs) - 1 /\ Len(f.loops) = Len(e.loops)
    BY <1>1, <1>2, <2>0, <2>2, EndIfMakes
  <2> HIDE DEF f
  <2>4. Tally(m, G, WhileBegin, cfg, M, E)
    BY <1>3, <2>0
  <2> QED
    BY <2>1, <2>2, <2>3, <2>4, <1>4 DEF Ended
<1>8. CASE s.op = "meta_end_while"
  <2> DEFINE f == meta_end_while(e)
  <2>1. oper_meta(e, s) = f
    BY <1>8 DEF oper_meta
  <2>0. s.op \in EndOps /\ BeginOf(s.op) = WhileBegin /\ s.op # IfBegin /\ s.op # WhileBegin
    BY <1>8 DEF EndOps, BeginOf, IfBegin, WhileBegin
  <2>2. m > G /\ Tally(m - 1, G, WhileBegin, cfg, M, E)
    <3>1. Tally(m, G, WhileBegin, cfg, M, D)
      BY DEF Progress
    <3>2. /\ x \in EndsOf(cfg) /\ x \notin D /\ OpAt(cfg, x) # WhileBegin
          /\ M[x] \in D /\ OpAt(cfg, M[x]) = WhileBegin
          /\ \A y \in EndsOf(cfg) : M[x] = M[y] => x = y
      BY <2>0 DEF At
    <3>3. m \in Nat
      BY <1>2
    <3> HIDE DEF m
    <3> QED
      BY <3>1, <3>2, <3>3, TallyEnd
  <2>3. Ended(e, f, F, G) /\ Len(f.ifs) = Len(e.ifs) /\ Len(f.loops) = Len(e.loops) - 1
    BY <1>1, <1>2, <2>0, <2>2, EndWhileMakes
  <2> HIDE DEF f
  <2>4. Tally(n, F, IfBegin, cfg, M, E)
    BY <1>3, <2>0
  <2> QED
    BY <2>1, <2>2, <2>3, <2>4, <1>4 DEF Ended
<1>9. CASE s.op \in {"meta_mark_if_else_check", "meta_mark_if_else_alt"}
  <2>0. e.ifs # <<>> /\ s.op # IfBegin /\ s.op # WhileBegin
    BY <1>9 DEF Astray, OfIf, IfBegin, WhileBegin
  <2>1. CASE s.op = "meta_mark_if_else_check"
    <3> DEFINE f == Mark(e, "ifs", "check")
    <3>1. oper_meta(e, s) = f
      BY <2>1 DEF oper_meta
    <3>2. CheckOK(e.chunk, LastIp(e))
      BY <2>1, <1>1 DEF Checks
    <3>3. Marked(e, f, F, G)
      BY <1>2, <2>0, <3>2, MarkIfMakes
    <3> HIDE DEF f
    <3> QED
      BY <3>1, <3>3, <1>3, <1>4, <2>0 DEF Marked, StillMakes
  <2>2. CASE s.op = "meta_mark_if_else_alt"
    <3> DEFINE f == Mark(e, "ifs", "alt")
    <3>1. oper_meta(e, s) = f
      BY <2>2 DEF oper_meta
    <3>2. JumpAt(e.chunk, LastIp(e)) /\ s.op \in NopAfter
      BY <2>2, <1>1 DEF JumpMarks, NopAfter
    <3>3. StillMakes(e, f, F, G)
      BY <1>2, <2>0, <3>2, MarkIfMakes
    <3> HIDE DEF f
    <3> QED
      BY <3>1, <3>2, <3>3, <1>3, <1>4, <2>0 DEF StillMakes
  <2> QED
    BY <1>9, <2>1, <2>2
<1>10. CASE s.op \in {"meta_mark_while_check", "meta_mark_break", "meta_mark_continue"}
  <2>0. e.loops # <<>> /\ s.op # IfBegin /\ s.op # WhileBegin
    BY <1>10 DEF Astray, OfLoop, IfBegin, WhileBegin
  <2>1. ASSUME NEW f, Marked(e, f, F, G)
        PROVE  StepDone(e, f, steps, i, cfg, M, F, G, E)
    BY <1>3, <1>4, <2>0, <2>1 DEF Marked, StillMakes
  <2>2. CASE s.op = "meta_mark_while_check"
    <3>1. oper_meta(e, s) = Mark(e, "loops", "check")
      BY <2>2 DEF oper_meta
    <3>2. CheckOK(e.chunk, LastIp(e))
      BY <2>2, <1>1 DEF Checks
    <3> QED
      BY <1>2, <2>0, <2>1, <3>1, <3>2, MarkLoopMakes
  <2>3. CASE s.op \in {"meta_mark_break", "meta_mark_continue"}
    <3>4. s.op = "meta_mark_break" => oper_meta(e, s) = MarkToo(e, "breaks")
      BY DEF oper_meta
    <3>5. s.op = "meta_mark_continue" => oper_meta(e, s) = MarkToo(e, "continues")
      BY DEF oper_meta
    <3>1. PICK field \in {"breaks", "continues"} : oper_meta(e, s) = MarkToo(e, field)
      BY <2>3, <3>4, <3>5
    <3>2. JumpAt(e.chunk, LastIp(e)) /\ field # "check"
      BY <2>3, <1>1 DEF JumpMarks
    <3>3. Marked(e, MarkToo(e, field), F, G)
      BY <1>2, <2>0, <3>2, MarkLoopMakes
    <3> QED
      BY <2>1, <3>1, <3>3
  <2> QED
    BY <1>10, <2>2, <2>3
<1> QED
  BY <1>5, <1>6, <1>7, <1>8, <1>9, <1>10 DEF Metas, OfIf, OfLoop, IfBegin, WhileBegin

-----------------------------------------------------------------------------
(* A block *)

LEMMA NatLeast ==
    ASSUME NEW T \in SUBSET Nat, T # {}
    PROVE  \E x \in T : \A y \in T : x <= y
<1> DEFINE R == StrictSubsetOrdering(Nat)
<1> DEFINE Below == {0..x : x \in T}
<1>1. IsWellFoundedOn(R, FiniteSubsetsOf(Nat))
  BY FS_StrictSubsetOrderingWellFounded
<1>2. Below \subseteq FiniteSubsetsOf(Nat) /\ Below # {}
  <2>1. ASSUME NEW x \in T PROVE 0..x \in FiniteSubsetsOf(Nat)
    <3>1. x \in Nat /\ 0..x \in SUBSET Nat
      OBVIOUS
    <3>2. IsFiniteSet(0..x)
      BY <3>1, FS_Interval
    <3> QED
      BY <3>1, <3>2 DEF FiniteSubsetsOf
  <2> QED
    BY <2>1
<1>3. \E U \in Below : \A V \in Below : ~ (<<V, U>> \in R)
  <2> HIDE DEF R, Below
  <2> QED
    BY <1>1, <1>2, WFMin
<1>4. ASSUME NEW x \in T, NEW y \in T, y < x PROVE <<0..y, 0..x>> \in R
  <2>1. 0..y \subseteq 0..x /\ x \in 0..x /\ x \notin 0..y /\ 0..x \subseteq Nat
    BY <1>4
  <2> QED
    BY <2>1 DEF StrictSubsetOrdering
<1> HIDE DEF R
<1>5. PICK x \in T : \A V \in Below : ~ (<<V, 0..x>> \in R)
  BY <1>3
<1>6. ASSUME NEW y \in T PROVE ~ (y < x)
  BY <1>4, <1>5
<1> QED
  BY <1>6

LEMMA UpTo ==
    ASSUME NEW n \in Nat, NEW P, 0 \in P, \A k \in 0..(n - 1) : k \in P => k + 1 \in P
    PROVE  0..n \subseteq P
<1> DEFINE T == {k \in 0..n : k \notin P}
<1> SUFFICES ASSUME T # {} PROVE FALSE
  OBVIOUS
<1>1. PICK x \in T : \A y \in T : x <= y
  <2>1. T \in SUBSET Nat
    OBVIOUS
  <2> HIDE DEF T
  <2> QED
    BY <2>1, NatLeast
<1>2. x - 1 \in 0..(n - 1) /\ (x - 1) + 1 = x
  BY <1>1
<1>3. x - 1 \in P
  BY <1>1, <1>2
<1> QED
  BY <1>1, <1>2, <1>3

\* The state before step i + 1.
InBlock(e, steps, i, cfg, M, F, G, D) ==
    /\ DOMAIN e = EFields /\ ChunkOK(e.chunk)
    /\ e.ok => /\ Progress(e, cfg, M, F, G, D) /\ Before(e, steps, i + 1)
               /\ Settled(e, F, G) \/ (i < Len(steps) /\ IsNop(steps[i + 1]))

LEMMA StepEmitted ==
    ASSUME NEW steps, StepsOK(steps), NEW i \in Nat, i + 1 \in 1..Len(steps),
           NEW cfg, NEW M, NEW F \in Nat, NEW G \in Nat, NEW D, NEW x,
           At(x, steps[i + 1], cfg, M, D),
           NEW e, InBlock(e, steps, i, cfg, M, F, G, D)
    PROVE  InBlock(emit_step(e, steps[i + 1]), steps, i + 1, cfg, M, F, G, D \cup {x})
<1> DEFINE j == i + 1
           s == steps[j]
           f == emit_step(e, s)
           E == D \cup {x}
<1>1. CASE ~ e.ok \/ Astray(e, s)
  <2>1. f = [e EXCEPT !.ok = FALSE]
    BY <1>1 DEF emit_step
  <2>2. DOMAIN e = EFields /\ ChunkOK(e.chunk)
    BY DEF InBlock
  <2>3. DOMAIN f = EFields /\ f.chunk = e.chunk /\ ~ f.ok
    BY <2>1, <2>2 DEF EFields
  <2> HIDE DEF f
  <2>4. InBlock(f, steps, j, cfg, M, F, G, E)
    BY <2>2, <2>3 DEF InBlock
  <2> QED
    BY <2>4 DEF f
<1>2. CASE e.ok /\ ~ Astray(e, s)
  <2>0. j \in 1..Len(steps) /\ s = steps[j]
    OBVIOUS
  <2>1. /\ Progress(e, cfg, M, F, G, D) /\ Before(e, steps, j)
        /\ Settled(e, F, G) \/ IsNop(s)
    BY <1>2 DEF InBlock
  <2>2. At(x, s, cfg, M, D)
    OBVIOUS
  <2> HIDE DEF j, s
  <2>3. StepDone(e, f, steps, j, cfg, M, F, G, E)
    <3>1. CASE s.op \in Metas
      <4>1. Settled(e, F, G)
        BY <3>1, <2>1 DEF IsNop, Metas, OfIf, OfLoop
      <4>3. s.op # "nop" /\ s.op # "neg"
        BY <3>1 DEF Metas, OfIf, OfLoop
      <4>2. f = oper_meta(e, s)
        BY <1>2, <3>1, <4>3 DEF emit_step
      <4> HIDE DEF f
      <4> QED
        BY <1>2, <2>0, <2>1, <2>2, <3>1, <4>1, <4>2, MetaEmitted
    <3>2. CASE s.op \notin Metas
      BY <1>2, <2>0, <2>1, <2>2, <3>2, InstructionEmitted
    <3> QED
      BY <3>1, <3>2
  <2>4. j \in Nat
    BY <2>0
  <2> HIDE DEF f
  <2>5. Before(f, steps, j + 1)
    BY <2>3, <2>4 DEF Before, After, StepDone
  <2>6. InBlock(f, steps, j, cfg, M, F, G, E)
    BY <2>3, <2>5 DEF InBlock, After, Progress, Making, StepDone
  <2> QED
    BY <2>6 DEF f, j, s
<1> QED
  BY <1>1, <1>2

\* A recursive function on the numbers up to n is there.
StepsDone(h, n, e, steps) == h = [k \in 0..n |-> IF k = 0 THEN e ELSE emit_step(h[k - 1], steps[k])]

LEMMA StepsTaken ==
    ASSUME NEW n \in Nat, NEW e, NEW steps
    PROVE  \E h : StepsDone(h, n, e, steps)
<1> DEFINE Is(h, m) == h = [k \in 0..m |-> IF k = 0 THEN e ELSE emit_step(h[k - 1], steps[k])]
<1> DEFINE P == {m \in 0..n : \E h : Is(h, m)}
<1>1. 0 \in P
  <2> DEFINE h == [k \in 0..0 |-> e]
  <2>1. Is(h, 0)
    OBVIOUS
  <2> HIDE DEF h
  <2> QED
    BY <2>1
<1>2. ASSUME NEW m \in 0..(n - 1), m \in P PROVE m + 1 \in P
  <2>1. PICK h : Is(h, m)
    BY <1>2
  <2> DEFINE g == [k \in 0..(m + 1) |-> IF k = m + 1 THEN emit_step(h[m], steps[k]) ELSE h[k]]
             r == [k \in 0..(m + 1) |-> IF k = 0 THEN e ELSE emit_step(g[k - 1], steps[k])]
  <2>2. \A k \in 0..(m + 1) : g[k] = IF k = m + 1 THEN emit_step(h[m], steps[k]) ELSE h[k]
    OBVIOUS
  <2>3. \A k \in 0..m : h[k] = IF k = 0 THEN e ELSE emit_step(h[k - 1], steps[k])
    BY <2>1
  <2>4. ASSUME NEW k \in 0..(m + 1)
        PROVE  (IF k = m + 1 THEN emit_step(h[m], steps[k]) ELSE h[k])
                 = IF k = 0 THEN e ELSE emit_step(g[k - 1], steps[k])
    <3> HIDE DEF g
    <3>1. CASE k = m + 1
      <4>1. k - 1 = m /\ k # 0 /\ m \in 0..(m + 1) /\ m # m + 1
        BY <3>1
      <4>2. g[m] = h[m]
        BY <4>1, <2>2
      <4> QED
        BY <3>1, <4>1, <4>2
    <3>2. CASE k = 0
      BY <3>2, <2>3
    <3>3. CASE k # 0 /\ k # m + 1
      <4>1. k \in 0..m /\ k - 1 \in 0..(m + 1) /\ k - 1 # m + 1
        BY <3>3
      <4>2. g[k - 1] = h[k - 1]
        BY <4>1, <2>2
      <4>3. h[k] = emit_step(h[k - 1], steps[k])
        BY <4>1, <3>3, <2>3
      <4> QED
        BY <3>3, <4>2, <4>3
    <3> QED
      BY <3>1, <3>2, <3>3
  <2>5. g = r
    BY <2>4
  <2>6. Is(g, m + 1)
    BY <2>5
  <2> HIDE DEF g, Is
  <2>7. m + 1 \in 0..n
    OBVIOUS
  <2> QED
    BY <2>6, <2>7
<1> HIDE DEF P
<1>3. 0..n \subseteq P
  BY <1>1, <1>2, UpTo
<1>4. n \in P
  BY <1>3
<1> QED
  BY <1>4 DEF P, StepsDone

Seen(cfg, V) == {p \in Places(cfg) : p[1] \in V}

LEMMA BlockTaken ==
    ASSUME NEW e, NEW bb, Len(bb.steps) \in Nat
    PROVE  \E h : /\ emit_bb(e, bb) = h[Len(bb.steps)]
                  /\ h[0] = e
                  /\ \A k \in Nat : k + 1 \in 1..Len(bb.steps) =>
                        h[k + 1] = emit_step(h[k], bb.steps[k + 1])
<1> DEFINE n == Len(bb.steps)
           taken == CHOOSE h : StepsDone(h, n, e, bb.steps)
<1>1. emit_bb(e, bb) = taken[n]
  BY DEF emit_bb, StepsDone
<1>2. \E h : StepsDone(h, n, e, bb.steps)
  BY StepsTaken
<1>3. StepsDone(taken, n, e, bb.steps)
  BY <1>2
<1> HIDE DEF taken
<1>4. \A k \in 0..n : taken[k] = IF k = 0 THEN e ELSE emit_step(taken[k - 1], bb.steps[k])
  BY <1>3 DEF StepsDone
<1>5. taken[0] = e
  BY <1>4
<1>6. ASSUME NEW k \in Nat, k + 1 \in 1..n PROVE taken[k + 1] = emit_step(taken[k], bb.steps[k + 1])
  <2>1. k + 1 \in 0..n /\ k + 1 # 0 /\ (k + 1) - 1 = k
    BY <1>6
  <2> QED
    BY <1>4, <2>1
<1> QED
  BY <1>1, <1>5, <1>6

\* The blocks V are emitted, as far as all was well defined.
BlockDone(f, cfg, M, F, G, V) ==
    /\ DOMAIN f = EFields /\ ChunkOK(f.chunk)
    /\ f.ok => Progress(f, cfg, M, F, G, Seen(cfg, V)) /\ Settled(f, F, G)

\* The block id is emitted after those in V.
LEMMA BlockMakes ==
    ASSUME NEW cfg, Stepped(cfg), SoundGraph(cfg), NEW id \in BlocksOf(cfg), NEW bb, bb = cfg[id + 1],
           NEW V, id \notin V, NEW M, Matches(cfg, M),
           \A x \in EndsOf(cfg) : x[1] = id => M[x][1] \in V,
           NEW F \in Nat, NEW G \in Nat,
           NEW e, e.ok => Progress(e, cfg, M, F, G, Seen(cfg, V)) /\ Settled(e, F, G),
           DOMAIN e = EFields, ChunkOK(e.chunk)
    PROVE  BlockDone(emit_bb(e, bb), cfg, M, F, G, V \cup {id})
<1> DEFINE steps == bb.steps
           n == Len(steps)
           D == Seen(cfg, V)
           DD(k) == D \cup {<<id, j>> : j \in 1..k}
<1>1. Len(cfg) \in Nat /\ id \in Nat /\ id + 1 \in 1..Len(cfg)
  BY SeqLength DEF Stepped, GraphOK, BlocksOf
<1>2. StepsOK(steps) /\ n \in Nat
  BY <1>1, SeqLength DEF SoundGraph, StepsOK
<1>3. PICK h : /\ emit_bb(e, bb) = h[n]
               /\ h[0] = e
               /\ \A k \in Nat : k + 1 \in 1..n => h[k + 1] = emit_step(h[k], steps[k + 1])
  BY <1>2, BlockTaken
<1>4. /\ \A k \in 1..n : <<id, k>> \in Places(cfg) /\ OpAt(cfg, <<id, k>>) = steps[k].op
      /\ \A p \in Places(cfg) : p[1] = id => p[2] \in 1..n /\ p = <<id, p[2]>>
  BY <1>1, <1>2 DEF Places, OpAt
<1> DEFINE P == {k \in 0..n : InBlock(h[k], steps, k, cfg, M, F, G, DD(k))}
<1>5. 0 \in P
  <2>1. DD(0) = D
    OBVIOUS
  <2>2. Before(e, steps, 0 + 1)
    BY DEF Before
  <2> HIDE DEF DD, D
  <2>3. InBlock(e, steps, 0, cfg, M, F, G, D)
    BY <2>2 DEF InBlock, D
  <2>4. 0 \in 0..n
    BY <1>2
  <2> QED
    BY <1>3, <2>1, <2>3, <2>4
<1>6. ASSUME NEW k \in 0..(n - 1), k \in P PROVE k + 1 \in P
  <2> DEFINE x == <<id, k + 1>>
             s == steps[k + 1]
  <2>1. k \in Nat /\ k + 1 \in 1..n /\ k + 1 \in 0..n
    BY <1>2, <1>6
  <2>2. DD(k + 1) = DD(k) \cup {x}
    <3>1. 1..(k + 1) = (1..k) \cup {k + 1}
      BY <2>1
    <3> QED
      BY <3>1
  <2>3. x \notin DD(k)
    <3>1. x \notin D
      BY DEF Seen
    <3>2. \A j \in 1..k : j # k + 1
      BY <2>1
    <3>3. \A j \in 1..k : <<id, j>> # x
      BY <3>2
    <3> HIDE DEF D, x
    <3> QED
      BY <3>1, <3>3
  <2>4. x \in Places(cfg) /\ OpAt(cfg, x) = s.op
    BY <1>4, <2>1
  <2>5. x[1] = id
    OBVIOUS
  <2>6. InBlock(h[k], steps, k, cfg, M, F, G, DD(k))
    BY <1>6
  <2>7. h[k + 1] = emit_step(h[k], s)
    BY <1>3, <2>1
  <2>8. D \subseteq DD(k)
    OBVIOUS
  <2> HIDE DEF DD, x
  <2>9. ASSUME s.op \in EndOps
        PROVE  /\ x \in EndsOf(cfg) /\ M[x] \in DD(k) /\ OpAt(cfg, M[x]) = BeginOf(s.op)
               /\ \A y \in EndsOf(cfg) : M[x] = M[y] => x = y
    <3>1. x \in EndsOf(cfg)
      BY <2>4, <2>9 DEF EndsOf
    <3>2. M[x] \in Places(cfg) /\ OpAt(cfg, M[x]) = BeginOf(s.op)
          /\ \A y \in EndsOf(cfg) : M[x] = M[y] => x = y
      BY <2>4, <3>1 DEF Matches
    <3>3. M[x] \in D
      BY <2>5, <3>1, <3>2 DEF Seen
    <3> QED
      BY <2>8, <3>1, <3>2, <3>3
  <2>10. At(x, s, cfg, M, DD(k))
    BY <2>3, <2>4, <2>9 DEF At
  <2>11. InBlock(emit_step(h[k], s), steps, k + 1, cfg, M, F, G, DD(k) \cup {x})
    BY <1>2, <2>1, <2>6, <2>10, StepEmitted
  <2> QED
    BY <2>1, <2>2, <2>7, <2>11
<1>7. 0..n \subseteq P
  <2> HIDE DEF P
  <2> QED
    BY <1>2, <1>5, <1>6, UpTo
<1>8. InBlock(h[n], steps, n, cfg, M, F, G, DD(n))
  <2>1. n \in 0..n
    BY <1>2
  <2> QED
    BY <1>7, <2>1
<1>9. DD(n) = Seen(cfg, V \cup {id})
  <2>1. ASSUME NEW p \in DD(n) PROVE p \in Seen(cfg, V \cup {id})
    <3>1. CASE p \in D
      BY <3>1 DEF Seen
    <3>2. CASE p \notin D
      <4>1. PICK j \in 1..n : p = <<id, j>>
        BY <3>2
      <4> QED
        BY <4>1, <1>4 DEF Seen
    <3> QED
      BY <3>1, <3>2
  <2>2. ASSUME NEW p \in Seen(cfg, V \cup {id}) PROVE p \in DD(n)
    <3>1. p \in Places(cfg) /\ (p[1] \in V \/ p[1] = id)
      BY <2>2 DEF Seen
    <3>2. CASE p[1] \in V
      BY <3>1, <3>2 DEF Seen
    <3>3. CASE p[1] = id
      BY <3>1, <3>3, <1>4
    <3> QED
      BY <3>1, <3>2, <3>3
  <2> QED
    BY <2>1, <2>2
<1>10. ~ (n < n)
  BY <1>2
<1> QED
  BY <1>3, <1>8, <1>9, <1>10 DEF InBlock, BlockDone

-----------------------------------------------------------------------------
(* The order of the blocks.  Who has come to a block after a begin, up to    *)
(* that of its end, has passed the begin.                                    *)

Ordered(cfg, M, V, R) ==
    \A x \in EndsOf(cfg) : (\E r \in V \cup R : M[x][1] < r /\ r <= x[1]) => M[x][1] \in V

LEMMA EndBlocks ==
    ASSUME NEW cfg, NEW M, Matches(cfg, M), NEW x \in EndsOf(cfg)
    PROVE  x[1] \in Nat /\ M[x][1] \in Nat /\ M[x][1] < x[1]
<1>1. x \in Places(cfg) /\ M[x] \in Places(cfg) /\ M[x][1] < x[1]
  BY DEF Matches, EndsOf
<1> QED
  BY <1>1 DEF Places, BlocksOf

\* emitter.cpp:430: a block is visited, and its successors are next.
LEMMA OrderedVisit ==
    ASSUME NEW cfg, NEW M, Nested(cfg, MadeLinks(cfg), M),
           NEW V, NEW R, Ordered(cfg, M, V, R), NEW id \in BlocksOf(cfg), id \in R,
           NEW W, \A r \in W : r \in R \/ <<id, r>> \in MadeLinks(cfg)
    PROVE  /\ Ordered(cfg, M, V \cup {id}, W)
           /\ \A x \in EndsOf(cfg) : x[1] = id => M[x][1] \in V
<1>1. Matches(cfg, M) /\ id \in Nat
  BY DEF Nested, BlocksOf
<1>2. ASSUME NEW x \in EndsOf(cfg), x[1] = id PROVE M[x][1] \in V
  <2>1. M[x][1] < id /\ id <= x[1]
    BY <1>1, <1>2, EndBlocks
  <2> QED
    BY <2>1 DEF Ordered
<1>3. ASSUME NEW x \in EndsOf(cfg), NEW r \in (V \cup {id}) \cup W, M[x][1] < r, r <= x[1]
      PROVE  M[x][1] \in V \cup {id}
  <2>1. x[1] \in Nat /\ M[x][1] \in Nat
    BY <1>1, EndBlocks
  <2>2. CASE r \in V \cup R
    BY <1>3, <2>2 DEF Ordered
  <2>3. CASE <<id, r>> \in MadeLinks(cfg)
    <3>1. LinkOK(cfg, M, <<id, r>>) /\ r \in Nat
      BY <2>3 DEF Nested, MadeLinks, BlocksOf
    <3>2. CASE id < r
      <4>1. M[x][1] <= id
        BY <1>3, <3>1, <3>2 DEF LinkOK
      <4>2. M[x][1] = id \/ (M[x][1] < id /\ id <= x[1])
        BY <1>1, <1>3, <2>1, <3>1, <3>2, <4>1
      <4> QED
        BY <4>2 DEF Ordered
    <3>3. CASE r <= id
      <4>1. PICK y \in EndsOf(cfg) : M[y][1] = r /\ id <= y[1]
        BY <3>1, <3>3 DEF LinkOK
      <4>2. r = id \/ r < id
        BY <1>1, <3>1, <3>3
      <4>3. r \in V \cup R
        BY <4>1, <4>2 DEF Ordered
      <4> QED
        BY <1>3, <4>3 DEF Ordered
    <3> QED
      BY <1>1, <3>1, <3>2, <3>3
  <2> QED
    BY <2>2, <2>3
<1> QED
  BY <1>2, <1>3 DEF Ordered

LEMMA OrderedLess ==
    ASSUME NEW cfg, NEW M, NEW V, NEW R, Ordered(cfg, M, V, R), NEW W \in SUBSET R
    PROVE  Ordered(cfg, M, V, W)
BY DEF Ordered

LEMMA OrderedFirst ==
    ASSUME NEW cfg, NEW M, Matches(cfg, M)
    PROVE  Ordered(cfg, M, {}, {0})
<1>1. ASSUME NEW x \in EndsOf(cfg) PROVE ~ (M[x][1] < 0)
  BY EndBlocks
<1> QED
  BY <1>1 DEF Ordered

-----------------------------------------------------------------------------
(* The chunks, and the one in progress *)

State(chunk, ifs, loops) == [chunk |-> chunk, ifs |-> ifs, loops |-> loops, ok |-> TRUE]

\* The blocks V of the graph are emitted, and R waits; there were ifs and loops before.
InTurn(cfg, e, V, R) ==
    \E M, F, G :
       /\ F \in Nat /\ G \in Nat
       /\ Nested(cfg, MadeLinks(cfg), M) /\ Ordered(cfg, M, V, R)
       /\ Progress(e, cfg, M, F, G, Seen(cfg, V)) /\ Settled(e, F, G)

ItemsOf(s) == {s[i] : i \in 1..Len(s)}
graph == m_result_cfgs[Len(m_result_chunks)]
emitting == State(m_result_chunks[Len(m_result_chunks)], m_active_ifs, m_active_loops)

Emission ==
    /\ \A f \in 1..Len(m_result_chunks) : ChunkOK(m_result_chunks[f])
    /\ phase \in Proceeding => IsSeq(m_active_ifs) /\ IsSeq(m_active_loops)
    /\ phase = "emit" /\ m_result_chunks # <<>> =>
          InTurn(graph, emitting, visited_ids, ItemsOf(frontier))

LEMMA StateOf ==
    ASSUME NEW chunk, NEW ifs, NEW loops
    PROVE  LET e == State(chunk, ifs, loops)
           IN DOMAIN e = EFields /\ e.chunk = chunk /\ e.ifs = ifs /\ e.loops = loops /\ e.ok
BY DEF State, EFields

\* emitter.cpp:425: nothing of the graph is emitted, and its first block is next.
LEMMA FirstTurn ==
    ASSUME NEW cfg, Finished(cfg), NEW ifs, IsSeq(ifs), NEW loops, IsSeq(loops)
    PROVE  InTurn(cfg, State(<<>>, ifs, loops), {}, {0})
<1> DEFINE e == State(<<>>, ifs, loops)
           F == Len(ifs)
           G == Len(loops)
<1>1. DOMAIN e = EFields /\ e.chunk = <<>> /\ e.ifs = ifs /\ e.loops = loops
  BY StateOf
<1>2. F \in Nat /\ G \in Nat
  BY SeqLength
<1>3. PICK M : Nested(cfg, MadeLinks(cfg), M)
  BY DEF Finished
<1> HIDE DEF e
<1>4. Making(e, F, G) /\ Settled(e, F, G)
  <2>1. \A k \in 1..F : ~ (k > F)
    BY <1>2
  <2>2. \A k \in 1..G : ~ (k > G)
    BY <1>2
  <2> QED
    BY <1>1, <2>1, <2>2, NoInstructions DEF Making, Entries, Settled
<1>5. Seen(cfg, {}) = {}
  BY DEF Seen
<1>6. ASSUME NEW n \in Nat, NEW op PROVE Tally(n, n, op, cfg, M, {})
  <2>1. IsFiniteSet({}) /\ Cardinality({}) = 0
    BY FS_EmptySet
  <2>2. n = n + Cardinality({})
    BY <2>1
  <2> QED
    BY <2>1, <2>2 DEF Tally
<1>7. Ordered(cfg, M, {}, {0})
  BY <1>3, OrderedFirst DEF Nested
<1>8. Progress(e, cfg, M, F, G, Seen(cfg, {}))
  BY <1>1, <1>2, <1>4, <1>5, <1>6 DEF Progress
<1> QED
  BY <1>2, <1>3, <1>4, <1>7, <1>8 DEF InTurn, e

\* emitter.cpp:430: a block of those that wait is emitted, and its successors wait.
LEMMA NextTurn ==
    ASSUME NEW cfg, Stepped(cfg), SoundGraph(cfg), NEW id \in BlocksOf(cfg), NEW V, id \notin V,
           NEW R, id \in R, NEW W, \A r \in W : r \in R \/ <<id, r>> \in MadeLinks(cfg),
           NEW chunk, NEW ifs, NEW loops, InTurn(cfg, State(chunk, ifs, loops), V, R)
    PROVE  LET f == emit_bb(State(chunk, ifs, loops), cfg[id + 1])
           IN /\ ChunkOK(f.chunk)
              /\ f.ok => /\ IsSeq(f.ifs) /\ IsSeq(f.loops)
                         /\ InTurn(cfg, State(f.chunk, f.ifs, f.loops), V \cup {id}, W)
<1> DEFINE e == State(chunk, ifs, loops)
           bb == cfg[id + 1]
           f == emit_bb(e, bb)
<1>1. PICK M, F, G :
         /\ F \in Nat /\ G \in Nat
         /\ Nested(cfg, MadeLinks(cfg), M) /\ Ordered(cfg, M, V, R)
         /\ Progress(e, cfg, M, F, G, Seen(cfg, V)) /\ Settled(e, F, G)
  BY DEF InTurn
<1>2. /\ Ordered(cfg, M, V \cup {id}, W)
      /\ \A x \in EndsOf(cfg) : x[1] = id => M[x][1] \in V
  BY <1>1, OrderedVisit
<1>3. Matches(cfg, M)
  BY <1>1 DEF Nested
<1>4. DOMAIN e = EFields /\ ChunkOK(e.chunk)
  BY <1>1 DEF Progress, Making
<1> HIDE DEF e, bb
<1>5. BlockDone(f, cfg, M, F, G, V \cup {id})
  <2>1. bb = cfg[id + 1]
    BY DEF bb
  <2> QED
    BY <1>1, <1>2, <1>3, <1>4, <2>1, BlockMakes
<1> HIDE DEF f
<1>6. ASSUME f.ok
      PROVE  /\ IsSeq(f.ifs) /\ IsSeq(f.loops)
             /\ InTurn(cfg, State(f.chunk, f.ifs, f.loops), V \cup {id}, W)
  <2> DEFINE s == State(f.chunk, f.ifs, f.loops)
             D == Seen(cfg, V \cup {id})
  <2>1. Progress(f, cfg, M, F, G, D) /\ Settled(f, F, G)
    BY <1>5, <1>6 DEF BlockDone
  <2>2. IsSeq(f.ifs) /\ IsSeq(f.loops)
    BY <2>1 DEF Progress, Making, Entries
  <2>3. DOMAIN s = EFields /\ s.chunk = f.chunk /\ s.ifs = f.ifs /\ s.loops = f.loops
    BY StateOf
  <2> HIDE DEF s, D
  <2>4. Progress(s, cfg, M, F, G, D) /\ Settled(s, F, G)
    BY <2>1, <2>3 DEF Progress, Making, Entries, Settled
  <2>5. InTurn(cfg, s, V \cup {id}, W)
    BY <1>1, <1>2, <2>4 DEF InTurn, D
  <2> QED
    BY <2>2, <2>5 DEF s
<1> QED
  BY <1>5, <1>6 DEF BlockDone, f, e, bb

LEMMA EmissionStarts == CompilerInit => Emission
<1> SUFFICES ASSUME CompilerInit PROVE Emission
  OBVIOUS
<1>1. m_result_chunks = <<>> /\ m_active_ifs = <<>> /\ m_active_loops = <<>>
  BY DEF CompilerInit
<1>2. IsSeq(<<>>) /\ Len(<<>>) = 0
  BY EmptySeq DEF IsSeq
<1> QED
  BY <1>1, <1>2 DEF Emission

\* Nothing is emitted while the sources are lowered.
LEMMA LowerUnemitted ==
    ASSUME Inv, UNCHANGED emitterVars, Lower
    PROVE  phase \in {"prepass", "lower", "skip", "link"} /\ m_result_chunks = <<>> /\ m_result_chunks' = <<>>
<1>1. phase \in {"prepass", "lower", "skip", "link"}
  <2>1. CASE emit_expr
    BY <2>1, Zenon DEF emit_expr, emit_literal, emit_name, emit_string, begin_sequence,
       sequence_item, end_sequence, emit_unary, emit_binary, emit_assign, begin_call,
       call_argument, end_call, Comes
  <2>2. CASE emit_stmt
    BY <2>2, Zenon DEF emit_stmt, emit_expr_stmt, emit_def, emit_return, emit_break, begin_if,
       if_then, if_else, end_if_else, end_if, begin_while, while_do, end_while, Comes
  <2>3. CASE pass_over
    BY <2>3, Zenon DEF pass_over, emit_lambda, fail_call, fail_operand, ignore_stmt, fail_stmt,
       skip_event, end_block
  <2>4. CASE emit_function_prepass \/ prepass_done \/ begin_function \/ end_function
             \/ apply_pending_link \/ leave_function \/ lowering_done
    BY <2>4, Zenon DEF emit_function_prepass, prepass_done, begin_function, end_function,
       apply_pending_link, leave_function, lowering_done, Comes
  <2> QED
    BY <2>1, <2>2, <2>3, <2>4 DEF Lower
<1> QED
  BY <1>1 DEF Inv, Stages, emitterVars

LEMMA LowerEmission == ASSUME Inv, Emission, UNCHANGED emitterVars, Lower PROVE Emission'
<1>1. /\ phase \in {"prepass", "lower", "skip", "link"}
      /\ m_result_chunks = <<>> /\ m_result_chunks' = <<>>
      /\ UNCHANGED <<m_active_ifs, m_active_loops>>
  BY LowerUnemitted DEF emitterVars
<1>2. IsSeq(m_active_ifs') /\ IsSeq(m_active_loops')
  BY <1>1 DEF Emission, Proceeding
<1> QED
  BY <1>1, <1>2 DEF Emission

LEMMA BeginChunkEmission ==
    ASSUME Inv, Nesting, Emission, begin_chunk PROVE Emission'
<1> DEFINE n == Len(m_result_chunks)
           cfg == m_result_cfgs[n + 1]
<1>1. /\ phase = "emit" /\ n < Len(m_result_cfgs)
      /\ m_result_chunks' = Append(m_result_chunks, <<>>) /\ frontier' = <<0>>
      /\ visited_ids' = {} /\ UNCHANGED <<m_result_cfgs, m_active_ifs, m_active_loops>>
  BY DEF begin_chunk, loweringVars
<1>2. n \in Nat /\ Len(m_result_cfgs) \in Nat
  BY SeqLength DEF Inv, Visits, Graphs
<1>3. /\ Len(m_result_chunks') = n + 1 /\ m_result_chunks'[n + 1] = <<>>
      /\ \A f \in 1..n : m_result_chunks'[f] = m_result_chunks[f]
  <2> DEFINE t == Append(m_result_chunks, <<>>)
  <2>1. /\ Len(t) = n + 1 /\ t[Len(t)] = <<>>
        /\ \A f \in 1..n : t[f] = m_result_chunks[f]
    BY SeqAppend DEF Inv, Visits
  <2> HIDE DEF t
  <2>2. t[n + 1] = <<>>
    BY <2>1
  <2>3. m_result_chunks' = t
    BY <1>1 DEF t
  <2> HIDE DEF n
  <2> QED
    BY <2>1, <2>2, <2>3
<1>4. Finished(cfg)
  <2>1. n + 1 \in 1..Len(m_result_cfgs)
    BY <1>1, <1>2
  <2>2. activations = <<>> /\ Closed
    BY <1>1 DEF Nesting, Proceeding
  <2> QED
    BY <2>1, <2>2 DEF Closed
<1>5. IsSeq(m_active_ifs) /\ IsSeq(m_active_loops)
  BY <1>1 DEF Emission, Proceeding
<1>6. ItemsOf(frontier') = {0}
  BY <1>1 DEF ItemsOf
<1> HIDE DEF n
<1>7. InTurn(cfg, State(<<>>, m_active_ifs, m_active_loops), {}, {0})
  BY <1>4, <1>5, FirstTurn
<1>8. graph' = cfg /\ emitting' = State(<<>>, m_active_ifs, m_active_loops)
  BY <1>1, <1>3 DEF graph, emitting
<1>9. InTurn(graph', emitting', visited_ids', ItemsOf(frontier'))
  BY <1>1, <1>6, <1>7, <1>8
<1>10. \A f \in 1..(n + 1) : ChunkOK(m_result_chunks'[f])
  <2> TAKE f \in 1..(n + 1)
  <2>1. f = n + 1 \/ f \in 1..n
    BY <1>2
  <2>2. \A g \in 1..n : ChunkOK(m_result_chunks[g])
    BY DEF Emission, n
  <2> QED
    BY <2>1, <2>2, <1>3, NoInstructions
<1> QED
  BY <1>1, <1>3, <1>5, <1>9, <1>10 DEF Emission

\* What waits is a block of the graph, with those that wait below it.
LEMMA FrontierItems ==
    ASSUME Inv, frontier # <<>>
    PROVE  /\ Len(m_result_chunks) \in 1..Len(m_result_cfgs) /\ m_result_chunks # <<>>
           /\ Len(m_result_chunks) \in Nat
           /\ GraphOK(graph) /\ next_bb_id \in BlocksOf(graph)
           /\ next_bb_id \in ItemsOf(frontier) /\ ItemsOf(rest) \subseteq ItemsOf(frontier)
           /\ rest \in Seq(BlocksOf(graph))
<1> DEFINE n == Len(m_result_chunks)
<1>1. m_result_chunks # <<>> /\ frontier \in Seq(BlocksOf(graph)) /\ n <= Len(m_result_cfgs)
  BY DEF Inv, Visits, graph
<1>2. n \in Nat /\ n >= 1 /\ Len(m_result_cfgs) \in Nat
  BY <1>1, SeqLength DEF Inv, Visits, Graphs
<1>3. n \in 1..Len(m_result_cfgs)
  BY <1>1, <1>2
<1>4. GraphOK(graph)
  BY <1>3 DEF Inv, Graphs, graph
<1>5. Len(frontier) \in Nat /\ Len(frontier) >= 1 /\ Len(frontier) \in 1..Len(frontier)
  BY <1>1, LenProperties, EmptySeq
<1>6. next_bb_id \in BlocksOf(graph) /\ next_bb_id \in ItemsOf(frontier)
  BY <1>1, <1>5, ElementOfSeq DEF next_bb_id, ItemsOf
<1>7. rest \in Seq(BlocksOf(graph)) /\ ItemsOf(rest) \subseteq ItemsOf(frontier)
  <2>1. Len(frontier) - 1 \in Nat /\ Len(frontier) - 1 <= Len(frontier)
    BY <1>5
  <2>2. /\ rest \in Seq(BlocksOf(graph)) /\ Len(rest) = Len(frontier) - 1
        /\ \A i \in 1..(Len(frontier) - 1) : rest[i] = frontier[i]
    BY <1>1, <2>1, SeqShorter DEF rest
  <2>3. \A i \in 1..(Len(frontier) - 1) : i \in 1..Len(frontier)
    BY <1>5
  <2> QED
    BY <2>2, <2>3 DEF ItemsOf
<1> QED
  BY <1>1, <1>2, <1>3, <1>4, <1>6, <1>7

LEMMA SkipEmission == ASSUME Inv, Emission, skip_visited PROVE Emission'
<1>1. /\ phase = "emit" /\ frontier # <<>> /\ frontier' = rest /\ next_bb_id \in visited_ids
      /\ UNCHANGED <<phase, m_result_cfgs, m_result_chunks, m_active_ifs, m_active_loops, visited_ids>>
  BY DEF skip_visited, loweringVars
<1>2. ItemsOf(rest) \subseteq ItemsOf(frontier) /\ m_result_chunks # <<>>
  BY <1>1, FrontierItems
<1>3. InTurn(graph, emitting, visited_ids, ItemsOf(frontier))
  BY <1>1, <1>2 DEF Emission
<1>4. InTurn(graph, emitting, visited_ids, ItemsOf(rest))
  <2>1. PICK M, F, G :
           /\ F \in Nat /\ G \in Nat
           /\ Nested(graph, MadeLinks(graph), M) /\ Ordered(graph, M, visited_ids, ItemsOf(frontier))
           /\ Progress(emitting, graph, M, F, G, Seen(graph, visited_ids)) /\ Settled(emitting, F, G)
    BY <1>3 DEF InTurn
  <2>2. Ordered(graph, M, visited_ids, ItemsOf(rest))
    BY <1>2, <2>1, OrderedLess
  <2> QED
    BY <2>1, <2>2 DEF InTurn
<1>5. graph' = graph /\ emitting' = emitting
  BY <1>1 DEF graph, emitting
<1>6. InTurn(graph', emitting', visited_ids', ItemsOf(frontier'))
  BY <1>1, <1>4, <1>5
<1> QED
  BY <1>1, <1>6 DEF Emission

\* The successors of a block are blocks it is linked to.
LEMMA ChildrenLinked ==
    ASSUME NEW cfg, GraphOK(cfg), NEW id \in BlocksOf(cfg)
    PROVE  /\ Children(cfg[id + 1]) \in Seq(BlocksOf(cfg))
           /\ \A r \in ItemsOf(Children(cfg[id + 1])) : <<id, r>> \in MadeLinks(cfg)
<1> DEFINE bb == cfg[id + 1]
<1>1. Len(cfg) \in Nat
  BY SeqLength DEF GraphOK
<1>2. id + 1 \in 1..Len(cfg)
  BY <1>1 DEF BlocksOf
<1>3. BlockOK(bb, cfg)
  BY <1>2 DEF GraphOK
<1> DEFINE L == {r \in BlocksOf(cfg) : r \in Targets(bb)}
<1>4. \A r \in L : <<id, r>> \in MadeLinks(cfg)
  BY DEF MadeLinks
<1>5. bb.truthy_id \in L \cup {NoBlock} /\ bb.falsy_id \in L \cup {NoBlock}
  BY <1>3 DEF BlockOK, Links, Targets
<1> HIDE DEF bb, L
<1>6. ASSUME NEW r \in L \cup {NoBlock} PROVE Branch(r) \in Seq(L)
  BY <1>6, EmptySeq DEF Branch
<1>7. Branch(bb.truthy_id) \in Seq(L) /\ Branch(bb.falsy_id) \in Seq(L)
  BY <1>5, <1>6
<1>8. Children(bb) \in Seq(L)
  BY <1>7, ConcatProperties DEF Children
<1>9. ItemsOf(Children(bb)) \subseteq L
  BY <1>8, ElementOfSeq DEF ItemsOf
<1>10. Children(bb) \in Seq(BlocksOf(cfg))
  <2>1. L \subseteq BlocksOf(cfg)
    BY DEF L
  <2> QED
    BY <1>8, <2>1, SeqMonotonic
<1> QED
  BY <1>4, <1>9, <1>10 DEF bb

LEMMA ItemsJoined ==
    ASSUME NEW S, NEW s \in Seq(S), NEW t \in Seq(S)
    PROVE  \A r \in ItemsOf(s \o t) : r \in ItemsOf(s) \/ r \in ItemsOf(t)
<1>1. /\ Len(s) \in Nat /\ Len(t) \in Nat /\ Len(s \o t) = Len(s) + Len(t)
      /\ \A i \in 1..(Len(s) + Len(t)) :
            (s \o t)[i] = IF i <= Len(s) THEN s[i] ELSE t[i - Len(s)]
  BY ConcatProperties, LenProperties
<1>2. ASSUME NEW i \in 1..(Len(s) + Len(t)) PROVE (s \o t)[i] \in ItemsOf(s) \cup ItemsOf(t)
  <2>1. CASE i <= Len(s)
    <3>1. i \in 1..Len(s) /\ (s \o t)[i] = s[i]
      BY <1>1, <1>2, <2>1
    <3> QED
      BY <3>1 DEF ItemsOf
  <2>2. CASE i > Len(s)
    <3>1. i - Len(s) \in 1..Len(t) /\ (s \o t)[i] = t[i - Len(s)]
      BY <1>1, <1>2, <2>2
    <3> QED
      BY <3>1 DEF ItemsOf
  <2> QED
    BY <1>1, <2>1, <2>2
<1> QED
  BY <1>1, <1>2 DEF ItemsOf

LEMMA VisitEmission == ASSUME Inv, Prepares, Emission, visit_bb PROVE Emission'
<1> DEFINE n == Len(m_result_chunks)
           id == next_bb_id
           bb == graph[id + 1]
           V == visited_ids \cup {id}
           W == ItemsOf(rest \o Children(bb))
<1>0. PICK f : f = emit_bb(emitting, bb)
  OBVIOUS
<1>1. /\ phase = "emit" /\ frontier # <<>> /\ id \notin visited_ids
      /\ frontier' = rest \o Children(bb) /\ visited_ids' = V
      /\ UNCHANGED m_result_cfgs
  BY DEF visit_bb, graph
<1>2. /\ m_result_chunks' = [m_result_chunks EXCEPT ![n] = f.chunk]
      /\ m_active_ifs' = f.ifs /\ m_active_loops' = f.loops
  BY <1>0 DEF visit_bb, graph, emitting, State
<1>2a. ~ f.ok => phase' = "undefined"
  BY <1>0 DEF visit_bb, graph, emitting, State
<1>3. /\ n \in 1..Len(m_result_cfgs) /\ n \in Nat /\ m_result_chunks # <<>>
      /\ GraphOK(graph) /\ id \in BlocksOf(graph)
      /\ id \in ItemsOf(frontier) /\ ItemsOf(rest) \subseteq ItemsOf(frontier)
      /\ rest \in Seq(BlocksOf(graph))
  BY <1>1, FrontierItems
<1>4. SoundGraph(graph) /\ Stepped(graph)
  <2>1. SoundGraph(graph)
    BY <1>3 DEF Prepares, Sound, graph
  <2> QED
    BY <1>3, <2>1, SteppedSound
<1>5. n \in 1..n
  <2>1. n > 0
    BY <1>3, SeqLength DEF Inv, Visits
  <2> QED
    BY <1>3, <2>1
<1>6. \A r \in W : r \in ItemsOf(frontier) \/ <<id, r>> \in MadeLinks(graph)
  <2>1. /\ Children(bb) \in Seq(BlocksOf(graph))
        /\ \A r \in ItemsOf(Children(bb)) : <<id, r>> \in MadeLinks(graph)
    BY <1>3, ChildrenLinked
  <2>2. \A r \in W : r \in ItemsOf(rest) \/ r \in ItemsOf(Children(bb))
    BY <1>3, <2>1, ItemsJoined
  <2> QED
    BY <1>3, <2>1, <2>2
<1>7. InTurn(graph, emitting, visited_ids, ItemsOf(frontier))
  BY <1>1, <1>3 DEF Emission
<1>8. /\ ChunkOK(f.chunk)
      /\ f.ok => /\ IsSeq(f.ifs) /\ IsSeq(f.loops)
                 /\ InTurn(graph, State(f.chunk, f.ifs, f.loops), V, W)
  <2> DEFINE chunk == m_result_chunks[n]
  <2>1. emitting = State(chunk, m_active_ifs, m_active_loops)
    BY DEF emitting
  <2> HIDE DEF W, chunk
  <2> QED
    BY <1>0, <1>1, <1>3, <1>4, <1>6, <1>7, <2>1, NextTurn
<1>9. /\ Len(m_result_chunks') = n /\ m_result_chunks'[n] = f.chunk
      /\ \A g \in 1..n : g # n => m_result_chunks'[g] = m_result_chunks[g]
  <2> DEFINE chunk == f.chunk
             t == [m_result_chunks EXCEPT ![n] = chunk]
  <2> HIDE DEF chunk
  <2>1. Len(t) = n /\ \A g \in 1..n : t[g] = IF g = n THEN chunk ELSE m_result_chunks[g]
    BY <1>5, SeqExcept DEF Inv, Visits
  <2>2. m_result_chunks' = t
    BY <1>2 DEF chunk
  <2> HIDE DEF t
  <2>3. Len(m_result_chunks') = n /\ m_result_chunks'[n] = chunk
        /\ \A g \in 1..n : g # n => m_result_chunks'[g] = m_result_chunks[g]
    BY <1>5, <2>1, <2>2
  <2> QED
    BY <2>3 DEF chunk
<1>10. \A g \in 1..n : ChunkOK(m_result_chunks'[g])
  BY <1>8, <1>9 DEF Emission
<1>11. graph' = graph
  BY <1>1, <1>9 DEF graph
<1>12. emitting' = State(f.chunk, f.ifs, f.loops)
  <2>1. emitting' = State(m_result_chunks'[Len(m_result_chunks')], m_active_ifs', m_active_loops')
    BY DEF emitting
  <2>2. m_result_chunks'[Len(m_result_chunks')] = f.chunk
    BY <1>9
  <2> QED
    BY <1>2, <2>1, <2>2
<1>13. CASE f.ok
  <2>1. IsSeq(m_active_ifs') /\ IsSeq(m_active_loops')
    BY <1>2, <1>8, <1>13
  <2>2. InTurn(graph', emitting', visited_ids', ItemsOf(frontier'))
    BY <1>1, <1>8, <1>11, <1>12, <1>13
  <2> QED
    BY <1>9, <1>10, <2>1, <2>2 DEF Emission
<1>14. CASE ~ f.ok
  <2>1. phase' = "undefined"
    BY <1>14, <1>2a
  <2> QED
    BY <1>9, <1>10, <2>1 DEF Emission, Proceeding
<1> QED
  BY <1>13, <1>14

LEMMA EmittedEmission == ASSUME Emission, all_emitted PROVE Emission'
BY DEF all_emitted, emitterVars, Emission, Proceeding

LEMMA EmissionKeeps == Inv /\ Prepares /\ Nesting /\ Emission /\ [Next]_vars => Emission'
<1> SUFFICES ASSUME Inv, Prepares, Nesting, Emission, [Next]_vars PROVE Emission'
  OBVIOUS
<1>1. CASE UNCHANGED vars
  <2>1. UNCHANGED <<phase, m_result_cfgs, m_result_chunks, m_active_ifs, m_active_loops,
                    frontier, visited_ids>>
    BY <1>1 DEF vars, loweringVars, emitterVars
  <2>2. graph' = graph /\ emitting' = emitting
    BY <2>1 DEF graph, emitting
  <2>3. (phase = "emit" /\ m_result_chunks # <<>>)' =>
           InTurn(graph', emitting', visited_ids', ItemsOf(frontier'))
    BY <2>1, <2>2 DEF Emission
  <2> QED
    BY <2>1, <2>3 DEF Emission
<1>2. CASE Next
  BY <1>2, LowerEmission, BeginChunkEmission, SkipEmission, VisitEmission, EmittedEmission
  DEF Next, Emit
<1> QED
  BY <1>1, <1>2

LEMMA EmissionPrepared == Inv /\ Emission => CallsPrepared
<1> SUFFICES ASSUME Inv, Emission PROVE CallsPrepared
  OBVIOUS
<1>1. DOMAIN m_result_chunks = 1..Len(m_result_chunks)
  BY SeqLength DEF Inv, Visits
<1> QED
  BY <1>1, ChunkPrepared DEF Emission, CallsPrepared

\* Of every source, whether it can be lowered or not, the chunks keep the calling
\* convention of the machine at every moment: the arguments of a call are moved to the
\* registers right before it, and no jump, patched or not yet, comes between them.
THEOREM CompilerPrepares == Spec => []CallsPrepared
<1>1. CompilerInit => Inv /\ Prepares /\ Nesting /\ Emission
  BY CompilerStarts, PreparesStarts, NestingStarts, EmissionStarts
<1>2. (Inv /\ Prepares /\ Nesting /\ Emission) /\ [Next]_vars
         => (Inv /\ Prepares /\ Nesting /\ Emission)'
  BY CompilerKeeps, PreparesKeeps, NestingKeeps, EmissionKeeps
<1>3. Inv /\ Prepares /\ Nesting /\ Emission => CallsPrepared
  BY EmissionPrepared
<1> QED
  BY <1>1, <1>2, <1>3, PTL DEF Spec

-----------------------------------------------------------------------------
(* The same invariant bounds the jumps.                                      *)

\* A jump leads to a nop of its own chunk; or to 0, which it holds until it is patched.
JumpsLand ==
    \A f \in DOMAIN m_result_chunks : \A k \in DOMAIN m_result_chunks[f] :
       LET ins == m_result_chunks[f][k]
       IN ins.op \in Jumps => JumpsTo(ins) = 0 \/ NopAt(m_result_chunks[f], JumpsTo(ins))

LEMMA EmissionLands == Inv /\ Emission => JumpsLand
<1> SUFFICES ASSUME Inv, Emission PROVE JumpsLand
  OBVIOUS
<1>1. DOMAIN m_result_chunks = 1..Len(m_result_chunks)
  BY SeqLength DEF Inv, Visits
<1>2. ASSUME NEW f \in 1..Len(m_result_chunks)
      PROVE  \A k \in DOMAIN m_result_chunks[f] : InstructionOK(m_result_chunks[f], k)
  <2>1. ChunkOK(m_result_chunks[f])
    BY DEF Emission
  <2> QED
    BY <2>1, SeqLength DEF ChunkOK
<1> QED
  BY <1>1, <1>2 DEF JumpsLand, InstructionOK

\* Of every source, no jump leads out of its chunk, where the machine would go on with
\* whatever is there (vm.cpp:77 looks at no bound): it leads to a nop that ends or begins
\* an if or a loop.
THEOREM CompilerLands == Spec => []JumpsLand
<1>1. CompilerInit => Inv /\ Prepares /\ Nesting /\ Emission
  BY CompilerStarts, PreparesStarts, NestingStarts, EmissionStarts
<1>2. (Inv /\ Prepares /\ Nesting /\ Emission) /\ [Next]_vars
         => (Inv /\ Prepares /\ Nesting /\ Emission)'
  BY CompilerKeeps, PreparesKeeps, NestingKeeps, EmissionKeeps
<1>3. Inv /\ Prepares /\ Nesting /\ Emission => JumpsLand
  BY EmissionLands
<1> QED
  BY <1>1, <1>2, <1>3, PTL DEF Spec

-----------------------------------------------------------------------------
(* What is emitted of a graph.                                               *)

ClosedUnder(links, S) == \A l \in links : l[1] \in S => l[2] \in S
Reachable(cfg) ==
    {b \in BlocksOf(cfg) : \A S : 0 \in S /\ ClosedUnder(MadeLinks(cfg), S) => b \in S}

\* When a chunk is complete, the blocks that links lead to from the first are in it, and
\* no others.
WholeGraphEmitted ==
    phase = "emit" /\ m_result_chunks # <<>> /\ frontier = <<>> => visited_ids = Reachable(graph)

\* What is visited, and what waits: the first block, what visited blocks are linked to,
\* and nothing else.
Reaching(cfg, V, R) ==
    /\ V \subseteq BlocksOf(cfg) /\ 0 \in V \cup R
    /\ \A l \in MadeLinks(cfg) : l[1] \in V => l[2] \in V \cup R
    /\ \A S : 0 \in S /\ ClosedUnder(MadeLinks(cfg), S) => V \cup R \subseteq S
Reach ==
    phase = "emit" /\ m_result_chunks # <<>> => Reaching(graph, visited_ids, ItemsOf(frontier))

LEMMA ReachedAll ==
    ASSUME NEW cfg, NEW V, Reaching(cfg, V, {})
    PROVE  V = Reachable(cfg)
<1>1. ClosedUnder(MadeLinks(cfg), V)
  BY DEF Reaching, ClosedUnder
<1> QED
  BY <1>1 DEF Reaching, Reachable

LEMMA ReachedNext ==
    ASSUME NEW cfg, NEW V, NEW R, Reaching(cfg, V, R), NEW id \in BlocksOf(cfg), id \in R,
           NEW W, \A r \in R : r = id \/ r \in W,
           \A r \in W : r \in R \/ <<id, r>> \in MadeLinks(cfg),
           \A r : <<id, r>> \in MadeLinks(cfg) => r \in W
    PROVE  Reaching(cfg, V \cup {id}, W)
<1>1. ASSUME NEW S, 0 \in S, ClosedUnder(MadeLinks(cfg), S) PROVE (V \cup {id}) \cup W \subseteq S
  <2>1. V \cup R \subseteq S
    BY <1>1 DEF Reaching
  <2>2. \A r : <<id, r>> \in MadeLinks(cfg) => r \in S
    BY <1>1, <2>1 DEF ClosedUnder
  <2> QED
    BY <2>1, <2>2
<1>2. ASSUME NEW l \in MadeLinks(cfg), l[1] \in V \cup {id} PROVE l[2] \in (V \cup {id}) \cup W
  <2>1. CASE l[1] \in V
    BY <2>1 DEF Reaching
  <2>2. CASE l[1] = id
    <3>1. l = <<id, l[2]>>
      BY <2>2 DEF MadeLinks
    <3> QED
      BY <3>1
  <2> QED
    BY <1>2, <2>1, <2>2
<1> QED
  BY <1>1, <1>2 DEF Reaching

LEMMA ReachedLess ==
    ASSUME NEW cfg, NEW V, NEW R, Reaching(cfg, V, R), NEW W, W \subseteq R,
           \A r \in R : r \in V \/ r \in W
    PROVE  Reaching(cfg, V, W)
BY DEF Reaching

LEMMA RestItems ==
    ASSUME Inv, frontier # <<>>
    PROVE  \A r \in ItemsOf(frontier) : r = next_bb_id \/ r \in ItemsOf(rest)
<1> DEFINE n == Len(frontier)
<1>1. m_result_chunks # <<>> /\ frontier \in Seq(BlocksOf(graph))
  BY DEF Inv, Visits, graph
<1>2. n \in Nat /\ n >= 1
  BY <1>1, LenProperties, EmptySeq
<1>3. /\ Len(rest) = n - 1 /\ \A i \in 1..(n - 1) : rest[i] = frontier[i]
  <2>1. n - 1 \in Nat /\ n - 1 <= n
    BY <1>2
  <2> QED
    BY <1>1, <2>1, SeqShorter DEF rest
<1>4. ASSUME NEW i \in 1..n PROVE frontier[i] = next_bb_id \/ frontier[i] \in ItemsOf(rest)
  <2>1. i = n \/ i \in 1..(n - 1)
    BY <1>2
  <2>2. i \in 1..(n - 1) => frontier[i] \in ItemsOf(rest)
    BY <1>3 DEF ItemsOf
  <2> QED
    BY <2>1, <2>2 DEF next_bb_id
<1> QED
  BY <1>4 DEF ItemsOf

LEMMA ItemsOfJoined ==
    ASSUME NEW S, NEW s \in Seq(S), NEW t \in Seq(S)
    PROVE  ItemsOf(s) \cup ItemsOf(t) \subseteq ItemsOf(s \o t)
<1>1. /\ Len(s) \in Nat /\ Len(t) \in Nat /\ Len(s \o t) = Len(s) + Len(t)
      /\ \A i \in 1..(Len(s) + Len(t)) :
            (s \o t)[i] = IF i <= Len(s) THEN s[i] ELSE t[i - Len(s)]
  BY ConcatProperties, LenProperties
<1>2. ASSUME NEW i \in 1..Len(s) PROVE s[i] \in ItemsOf(s \o t)
  <2>1. i \in 1..(Len(s) + Len(t)) /\ i <= Len(s)
    BY <1>1
  <2> QED
    BY <1>1, <2>1 DEF ItemsOf
<1>3. ASSUME NEW i \in 1..Len(t) PROVE t[i] \in ItemsOf(s \o t)
  <2>1. Len(s) + i \in 1..(Len(s) + Len(t)) /\ ~ (Len(s) + i <= Len(s)) /\ Len(s) + i - Len(s) = i
    BY <1>1
  <2>2. (s \o t)[Len(s) + i] = t[i]
    BY <1>1, <2>1
  <2> QED
    BY <1>1, <2>1, <2>2 DEF ItemsOf
<1> QED
  BY <1>2, <1>3 DEF ItemsOf

\* Every block that a block is linked to is a successor of it.
LEMMA LinkedChildren ==
    ASSUME NEW cfg, GraphOK(cfg), NEW id \in BlocksOf(cfg), NEW r, <<id, r>> \in MadeLinks(cfg)
    PROVE  r \in ItemsOf(Children(cfg[id + 1]))
<1> DEFINE bb == cfg[id + 1]
           s == Branch(bb.falsy_id)
           t == Branch(bb.truthy_id)
<1>1. r \in BlocksOf(cfg) /\ r \in {bb.truthy_id, bb.falsy_id}
  BY DEF MadeLinks, Targets
<1>2. r # NoBlock
  BY <1>1 DEF BlocksOf, NoBlock
<1>3. Branch(r) = <<r>>
  BY <1>2 DEF Branch
<1>4. r \in ItemsOf(<<r>>)
  <2>1. <<r>>[1] = r /\ 1 \in 1..Len(<<r>>)
    OBVIOUS
  <2> QED
    BY <2>1 DEF ItemsOf
<1>5. r \in ItemsOf(s) \cup ItemsOf(t)
  BY <1>1, <1>3, <1>4
<1>6. ASSUME NEW U, NEW b \in U PROVE Branch(b) \in Seq(U)
  BY EmptySeq DEF Branch
<1> DEFINE T == {bb.truthy_id, bb.falsy_id}
<1>7. s \in Seq(T) /\ t \in Seq(T)
  BY <1>6
<1> HIDE DEF s, t, T
<1>8. ItemsOf(s) \cup ItemsOf(t) \subseteq ItemsOf(s \o t)
  BY <1>7, ItemsOfJoined
<1> QED
  BY <1>5, <1>8 DEF Children, s, t

LEMMA VisitReach == ASSUME Inv, Reach, visit_bb PROVE Reach'
<1> DEFINE id == next_bb_id
           children == Children(graph[id + 1])
           W == ItemsOf(rest \o children)
<1>1. /\ phase = "emit" /\ frontier # <<>> /\ frontier' = rest \o children
      /\ visited_ids' = visited_ids \cup {id} /\ UNCHANGED m_result_cfgs
      /\ \E chunk : m_result_chunks' = [m_result_chunks EXCEPT ![Len(m_result_chunks)] = chunk]
  BY DEF visit_bb, graph
<1>2. /\ Len(m_result_chunks) \in Nat /\ m_result_chunks # <<>>
      /\ GraphOK(graph) /\ id \in BlocksOf(graph)
      /\ id \in ItemsOf(frontier) /\ ItemsOf(rest) \subseteq ItemsOf(frontier)
      /\ rest \in Seq(BlocksOf(graph))
  BY <1>1, FrontierItems
<1>3. Len(m_result_chunks') = Len(m_result_chunks)
  <2>1. PICK chunk : m_result_chunks' = [m_result_chunks EXCEPT ![Len(m_result_chunks)] = chunk]
    BY <1>1
  <2>2. Len(m_result_chunks) \in 1..Len(m_result_chunks)
    <3>1. Len(m_result_chunks) > 0
      BY <1>2, SeqLength DEF Inv, Visits
    <3> QED
      BY <1>2, <3>1
  <2> DEFINE t == [m_result_chunks EXCEPT ![Len(m_result_chunks)] = chunk]
  <2>3. Len(t) = Len(m_result_chunks)
    BY <2>2, SeqExcept DEF Inv, Visits
  <2> QED
    BY <2>1, <2>3
<1>4. graph' = graph
  BY <1>1, <1>3 DEF graph
<1>5. Reaching(graph, visited_ids, ItemsOf(frontier))
  BY <1>1, <1>2 DEF Reach
<1>6. /\ children \in Seq(BlocksOf(graph))
      /\ \A r \in ItemsOf(children) : <<id, r>> \in MadeLinks(graph)
  BY <1>2, ChildrenLinked
<1>7. \A r : <<id, r>> \in MadeLinks(graph) => r \in ItemsOf(children)
  BY <1>2, LinkedChildren
<1> HIDE DEF children, id
<1>8. ItemsOf(rest) \cup ItemsOf(children) \subseteq W
  BY <1>2, <1>6, ItemsOfJoined
<1>9. \A r \in W : r \in ItemsOf(rest) \/ r \in ItemsOf(children)
  BY <1>2, <1>6, ItemsJoined
<1>10. \A r \in ItemsOf(frontier) : r = id \/ r \in W
  BY <1>1, <1>8, RestItems DEF id
<1> HIDE DEF W
<1>11. Reaching(graph, visited_ids \cup {id}, W)
  <2>1. \A r \in W : r \in ItemsOf(frontier) \/ <<id, r>> \in MadeLinks(graph)
    BY <1>2, <1>6, <1>9
  <2>2. \A r : <<id, r>> \in MadeLinks(graph) => r \in W
    BY <1>7, <1>8
  <2> QED
    BY <1>2, <1>5, <1>10, <2>1, <2>2, ReachedNext
<1>12. ItemsOf(frontier') = W
  BY <1>1 DEF W
<1>13. Reaching(graph', visited_ids', ItemsOf(frontier'))
  BY <1>1, <1>4, <1>11, <1>12
<1> QED
  BY <1>13 DEF Reach

LEMMA EmitReach == ASSUME Inv, Reach, begin_chunk \/ skip_visited \/ all_emitted PROVE Reach'
<1>1. CASE begin_chunk
  <2>1. frontier' = <<0>> /\ visited_ids' = {}
    BY <1>1 DEF begin_chunk
  <2>2. ItemsOf(frontier') = {0}
    BY <2>1 DEF ItemsOf
  <2>3. \A cfg : Reaching(cfg, {}, {0})
    BY DEF Reaching
  <2>4. Reaching(graph', visited_ids', ItemsOf(frontier'))
    BY <2>1, <2>2, <2>3
  <2> QED
    BY <2>4 DEF Reach
<1>2. CASE skip_visited
  <2>1. /\ phase = "emit" /\ frontier # <<>> /\ frontier' = rest /\ next_bb_id \in visited_ids
        /\ UNCHANGED <<m_result_cfgs, m_result_chunks, visited_ids>>
    BY <1>2 DEF skip_visited, loweringVars
  <2>2. ItemsOf(rest) \subseteq ItemsOf(frontier) /\ m_result_chunks # <<>>
    BY <2>1, FrontierItems
  <2>3. Reaching(graph, visited_ids, ItemsOf(frontier))
    BY <2>1, <2>2 DEF Reach
  <2>4. \A r \in ItemsOf(frontier) : r \in visited_ids \/ r \in ItemsOf(rest)
    BY <2>1, RestItems
  <2>5. Reaching(graph, visited_ids, ItemsOf(rest))
    BY <2>2, <2>3, <2>4, ReachedLess
  <2>6. graph' = graph
    BY <2>1 DEF graph
  <2>7. Reaching(graph', visited_ids', ItemsOf(frontier'))
    BY <2>1, <2>5, <2>6
  <2> QED
    BY <2>7 DEF Reach
<1>3. CASE all_emitted
  BY <1>3 DEF all_emitted, Reach
<1> QED
  BY <1>1, <1>2, <1>3

LEMMA ReachKeeps == Inv /\ Reach /\ [Next]_vars => Reach'
<1> SUFFICES ASSUME Inv, Reach, [Next]_vars PROVE Reach'
  OBVIOUS
<1>1. CASE UNCHANGED vars
  <2>1. UNCHANGED <<phase, m_result_cfgs, m_result_chunks, frontier, visited_ids>>
    BY <1>1 DEF vars, loweringVars, emitterVars
  <2>2. graph' = graph
    BY <2>1 DEF graph
  <2>3. (phase = "emit" /\ m_result_chunks # <<>>)'
          => Reaching(graph', visited_ids', ItemsOf(frontier'))
    BY <2>1, <2>2 DEF Reach
  <2> QED
    BY <2>3 DEF Reach
<1>2. CASE Lower /\ UNCHANGED emitterVars
  <2>1. m_result_chunks' = <<>>
    BY <1>2, LowerUnemitted
  <2> QED
    BY <2>1 DEF Reach
<1>3. CASE Emit
  BY <1>3, VisitReach, EmitReach DEF Emit
<1> QED
  BY <1>1, <1>2, <1>3 DEF Next

\* Of every source, a chunk that is complete has the code of the blocks that links lead
\* to from the first block of its graph, and of no others: what nothing leads to (the
\* code after an if whose block was refused its third link, cfg.cpp:63) is not emitted.
THEOREM GraphEmitted == Spec => []WholeGraphEmitted
<1>1. CompilerInit => Inv /\ Reach
  BY CompilerStarts DEF CompilerInit, Reach
<1>2. (Inv /\ Reach) /\ [Next]_vars => (Inv /\ Reach)'
  BY CompilerKeeps, ReachKeeps
<1>3. Reach => WholeGraphEmitted
  <2> SUFFICES ASSUME Reach, phase = "emit", m_result_chunks # <<>>, frontier = <<>>
               PROVE  visited_ids = Reachable(graph)
    BY DEF WholeGraphEmitted
  <2>1. ItemsOf(frontier) = {}
    BY DEF ItemsOf
  <2>2. Reaching(graph, visited_ids, {})
    BY <2>1 DEF Reach
  <2> QED
    BY <2>2, ReachedAll
<1> QED
  BY <1>1, <1>2, <1>3, PTL DEF Spec
=============================================================================
