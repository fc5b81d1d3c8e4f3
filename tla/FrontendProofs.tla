---------------------------- MODULE FrontendProofs ----------------------------
(***************************************************************************)
(* Whatever files there are and whatever they import, cycles included, the *)
(* worklist parses exactly the files that imports lead to, each once, and  *)
(* never mixes up their texts.  The front end as a whole, lexer, parser    *)
(* and analyzer included, drives the worklist only in the ways that        *)
(* Sources allows, so that what is proved of the worklist holds of it.     *)
(*                                                                         *)
(* And whatever the texts, errors included, the events of each body that   *)
(* the parser completes fit together: each finds the operands and the      *)
(* brackets it needs, and in the end none is left.  The parser's goals are *)
(* a way from where the body is to its end.                                *)
(***************************************************************************)
EXTENDS Frontend, FiniteSetTheorems, SequenceTheorems, TLAPS

(* The worklist *)

Source == [file_path : Paths, src_id : Nat]

\* The state of parse_sources, typed.
SourcesTypeOK ==
    /\ sources_frontier \in Seq(Source)
    /\ temp_src_id \in Nat
    /\ visited_paths \subseteq Paths
    /\ DOMAIN m_src_map \subseteq Nat
    /\ \A id \in DOMAIN m_src_map : m_src_map[id] \in Paths
    /\ reading \in Source \cup {NoSource}
    /\ full_ast \in Seq(Nat)
    /\ imports \in [Paths -> SUBSET Paths]
    /\ outcome \in {"parsing", "parsed", "refused", "died"}

\* Numbers are given out once, and only what has come off the stack has a text.
Numbered ==
    /\ \A id \in DOMAIN m_src_map : id < temp_src_id
    /\ \A i \in 1..Len(sources_frontier) :
          /\ sources_frontier[i].src_id < temp_src_id
          /\ sources_frontier[i].src_id \notin DOMAIN m_src_map
    /\ \A i, k \in 1..Len(sources_frontier) :
          sources_frontier[i].src_id = sources_frontier[k].src_id => i = k

\* The file being parsed has its text, and has not been parsed before.
Reading ==
    ~ Idle =>
        /\ reading.src_id \in DOMAIN m_src_map
        /\ m_src_map[reading.src_id] = reading.file_path
        /\ reading.file_path \notin visited_paths

\* What has been joined has its text; the files joined are those visited, each once.
Joined ==
    /\ \A i \in 1..Len(full_ast) : full_ast[i] \in DOMAIN m_src_map
    /\ \A i \in 1..Len(full_ast) : m_src_map[full_ast[i]] \in visited_paths
    /\ \A p \in visited_paths : \E i \in 1..Len(full_ast) : m_src_map[full_ast[i]] = p
    /\ \A i, k \in 1..Len(full_ast) :
          m_src_map[full_ast[i]] = m_src_map[full_ast[k]] => i = k

\* Files that have been visited, are being parsed, or wait.
Begun == visited_paths \cup (IF Idle THEN {} ELSE {reading.file_path})
Waiting == {sources_frontier[i].file_path : i \in 1..Len(sources_frontier)}
Met == Begun \cup Waiting

\* No import of a file that has been begun is forgotten, and nothing else is met.
Followed ==
    /\ Main \in Met
    /\ \A p \in Begun : imports[p] \subseteq Met
    /\ \A p \in Paths \ Begun : imports[p] = {}
Wanted == \A S \in SUBSET Paths : Closed(S) => Met \subseteq S

Finished == outcome = "parsed" => Idle /\ sources_frontier = <<>>

SourcesInv ==
    SourcesTypeOK /\ Numbered /\ Reading /\ Joined /\ Followed /\ Wanted /\ Finished

-----------------------------------------------------------------------------
(* The stack *)

\* A source with a number in Nat is not the absence of one.
LEMMA SourceIsNone == NoSource \notin Source
BY DEF Source, NoSource, PendingSource

\* What is left when the top is taken off.
LEMMA PoppedFacts ==
    ASSUME SourcesTypeOK, sources_frontier # <<>>
    PROVE  /\ Len(sources_frontier) \in Nat \ {0}
           /\ top \in Source
           /\ top = sources_frontier[Len(sources_frontier)]
           /\ Popped \in Seq(Source)
           /\ Len(Popped) = Len(sources_frontier) - 1
           /\ \A i \in 1..Len(Popped) : Popped[i] = sources_frontier[i]
<1>1. sources_frontier \in Seq(Source) /\ Len(sources_frontier) \in Nat \ {0}
  BY EmptySeq DEF SourcesTypeOK
<1>2. top \in Source
  BY <1>1 DEF top
<1>3. /\ Popped \in Seq(Source)
      /\ Len(Popped) = Len(sources_frontier) - 1
      /\ \A i \in 1..Len(Popped) : Popped[i] = sources_frontier[i]
  <2> DEFINE n == Len(sources_frontier) - 1
  <2>1. n \in Nat /\ \A i \in 1..n : sources_frontier[i] \in Source
    BY <1>1
  <2> HIDE DEF n
  <2>2. /\ SubSeq(sources_frontier, 1, n) \in Seq(Source)
        /\ Len(SubSeq(sources_frontier, 1, n)) = IF 1 <= n THEN n - 1 + 1 ELSE 0
        /\ \A i \in 1..(n - 1 + 1) : SubSeq(sources_frontier, 1, n)[i] = sources_frontier[1 + i - 1]
    BY <2>1, SubSeqProperties
  <2>3. Popped = SubSeq(sources_frontier, 1, n)
    BY DEF Popped, n
  <2>4. Len(Popped) = n
    BY <2>1, <2>2, <2>3
  <2>5. \A i \in 1..n : Popped[i] = sources_frontier[i]
    BY <2>1, <2>2, <2>3
  <2> QED
    BY <2>2, <2>3, <2>4, <2>5 DEF n
<1> QED
  BY <1>1, <1>2, <1>3 DEF top

\* The paths that wait are that of the top and those left.
LEMMA WaitingPopped ==
    ASSUME SourcesTypeOK, sources_frontier # <<>>, sources_frontier' = Popped
    PROVE  Waiting = Waiting' \cup {top.file_path}
<1> DEFINE n == Len(sources_frontier)
<1>1. /\ n \in Nat \ {0} /\ Len(Popped) = n - 1 /\ top = sources_frontier[n]
      /\ \A i \in 1..Len(Popped) : Popped[i] = sources_frontier[i]
  BY PoppedFacts
<1>2. Waiting' = {sources_frontier[i].file_path : i \in 1..(n - 1)}
  BY <1>1 DEF Waiting
<1>3. 1..n = 1..(n - 1) \cup {n}
  BY <1>1
<1> QED
  BY <1>1, <1>2, <1>3 DEF Waiting

-----------------------------------------------------------------------------
(* One lemma for each action *)

\* Driver::parse_sources begins with the main file alone.
LEMMA InitSources == SourcesInit => SourcesInv
<1> SUFFICES ASSUME SourcesInit PROVE SourcesInv
  OBVIOUS
<1>0. /\ sources_frontier \in Seq(Source) /\ Len(sources_frontier) = 1
      /\ sources_frontier[1] = [file_path |-> Main, src_id |-> 0]
  BY SourcesAssumption DEF SourcesInit, PendingSource, Source
<1>1. SourcesTypeOK
  BY <1>0 DEF SourcesInit, SourcesTypeOK
<1>2. Numbered
  BY <1>0 DEF SourcesInit, Numbered
<1>3. Idle /\ Reading
  BY DEF SourcesInit, Reading, Idle
<1>4. Joined
  BY DEF SourcesInit, Joined
<1>5. Met = {Main} /\ Begun = {}
  BY <1>0, <1>3 DEF SourcesInit, Met, Begun, Waiting
<1>6. Followed /\ Wanted
  BY <1>5 DEF SourcesInit, Followed, Wanted, Closed
<1>7. Finished
  BY DEF SourcesInit, Finished
<1> QED
  BY <1>1, <1>2, <1>3, <1>4, <1>6, <1>7 DEF SourcesInv

\* A path met before is dropped (driver.cpp:100).
LEMMA SkipSources == SourcesInv /\ skip_visited => SourcesInv'
<1> SUFFICES ASSUME SourcesInv, skip_visited PROVE SourcesInv'
  OBVIOUS
<1>0. /\ SourcesTypeOK /\ sources_frontier # <<>> /\ sources_frontier' = Popped
      /\ top.file_path \in visited_paths
      /\ UNCHANGED <<temp_src_id, visited_paths, m_src_map, reading, full_ast, imports, outcome>>
  BY DEF SourcesInv, skip_visited, Loops, Seen
<1>1. SourcesTypeOK'
  BY <1>0, PoppedFacts DEF SourcesTypeOK
<1>2. Numbered'
  BY <1>0, PoppedFacts DEF SourcesInv, Numbered
<1>3. Reading' /\ Joined' /\ Begun' = Begun
  BY <1>0 DEF SourcesInv, Reading, Joined, Idle, Begun
<1>4. Met' = Met
  BY <1>0, <1>3, WaitingPopped DEF Met, Begun
<1>5. Followed' /\ Wanted'
  BY <1>0, <1>3, <1>4 DEF SourcesInv, Followed, Wanted, Closed
<1>6. Finished'
  BY <1>0 DEF skip_visited, Loops, Finished
<1> QED
  BY <1>1, <1>2, <1>3, <1>5, <1>6 DEF SourcesInv

\* A new path's text is kept under its number, and parsed (driver.cpp:104).
LEMMA ReadSources == SourcesInv /\ read_source => SourcesInv'
<1> SUFFICES ASSUME SourcesInv, read_source PROVE SourcesInv'
  OBVIOUS
<1>0. /\ SourcesTypeOK /\ sources_frontier # <<>> /\ sources_frontier' = Popped
      /\ top.file_path \notin visited_paths
      /\ Idle /\ reading' = top
      /\ UNCHANGED <<temp_src_id, visited_paths, full_ast, imports, outcome>>
  BY DEF SourcesInv, read_source, Loops, Seen
<1>1. /\ top.src_id < temp_src_id /\ top.src_id \notin DOMAIN m_src_map
      /\ \A i \in 1..Len(Popped) : Popped[i].src_id # top.src_id
  BY <1>0, PoppedFacts DEF SourcesInv, Numbered
<1>2. /\ DOMAIN m_src_map' = DOMAIN m_src_map \cup {top.src_id}
      /\ m_src_map'[top.src_id] = top.file_path
      /\ \A id \in DOMAIN m_src_map : m_src_map'[id] = m_src_map[id]
  BY <1>1 DEF read_source
<1>3. top.file_path \in Paths /\ top.src_id \in Nat /\ ~ Idle'
  BY <1>0, PoppedFacts, SourceIsNone DEF Idle, Source
<1>4. SourcesTypeOK'
  BY <1>0, <1>2, <1>3, PoppedFacts DEF SourcesTypeOK
<1>5. Numbered'
  BY <1>0, <1>1, <1>2, PoppedFacts DEF SourcesInv, Numbered
<1>6. Reading'
  BY <1>0, <1>2 DEF Reading
<1>7. Joined'
  BY <1>0, <1>2 DEF SourcesInv, Joined
<1>8. Met' = Met /\ Begun' = Begun \cup {top.file_path}
  BY <1>0, <1>3, WaitingPopped DEF Met, Begun
<1>9. Wanted' /\ Finished'
  BY <1>0, <1>8 DEF SourcesInv, read_source, Loops, Wanted, Closed, Finished
<1>10. imports[top.file_path] = {}
  BY <1>0, <1>3 DEF SourcesInv, Followed, Begun
<1>11. Followed'
  BY <1>0, <1>8, <1>10 DEF SourcesInv, Followed
<1> QED
  BY <1>4, <1>5, <1>6, <1>7, <1>9, <1>11 DEF SourcesInv

\* An import is pushed with a number of its own (parsing.cpp:747).
LEMMA ImportSources ==
    ASSUME SourcesInv, NEW path \in Paths, pend_import(path)
    PROVE  SourcesInv'
<1>0. /\ SourcesTypeOK /\ ~ Idle /\ reading \in Source
      /\ sources_frontier' = Append(sources_frontier, PendingSource(path, temp_src_id))
      /\ temp_src_id' = temp_src_id + 1
      /\ imports' = [imports EXCEPT ![reading.file_path] = @ \cup {path}]
      /\ UNCHANGED <<visited_paths, m_src_map, reading, full_ast, outcome>>
  BY DEF SourcesInv, SourcesTypeOK, Idle, pend_import, PushPending
<1>1. /\ PendingSource(path, temp_src_id) \in Source
      /\ PendingSource(path, temp_src_id).file_path = path
      /\ PendingSource(path, temp_src_id).src_id = temp_src_id
  BY <1>0 DEF SourcesTypeOK, Source, PendingSource
<1>2. /\ Len(sources_frontier) \in Nat
      /\ sources_frontier' \in Seq(Source)
      /\ Len(sources_frontier') = Len(sources_frontier) + 1
      /\ \A i \in 1..Len(sources_frontier) : sources_frontier'[i] = sources_frontier[i]
      /\ sources_frontier'[Len(sources_frontier) + 1] = PendingSource(path, temp_src_id)
  BY <1>0, <1>1, AppendProperties DEF SourcesTypeOK
<1>3. /\ reading.file_path \in Paths
      /\ imports' \in [Paths -> SUBSET Paths]
      /\ imports'[reading.file_path] = imports[reading.file_path] \cup {path}
      /\ \A p \in Paths \ {reading.file_path} : imports'[p] = imports[p]
  BY <1>0 DEF SourcesTypeOK, Source
<1>4. SourcesTypeOK'
  BY <1>0, <1>2, <1>3 DEF SourcesTypeOK
<1>5. Numbered'
  <2>1. /\ \A id \in DOMAIN m_src_map : id \in Nat /\ id < temp_src_id
        /\ \A i \in 1..Len(sources_frontier) :
              /\ sources_frontier'[i].src_id \in Nat
              /\ sources_frontier'[i].src_id < temp_src_id
              /\ sources_frontier'[i].src_id \notin DOMAIN m_src_map
        /\ \A i, k \in 1..Len(sources_frontier) :
              sources_frontier'[i].src_id = sources_frontier'[k].src_id => i = k
    <3>1. \A i \in 1..Len(sources_frontier) :
              sources_frontier[i] \in Source /\ sources_frontier[i].src_id \in Nat
      <4>1. sources_frontier \in Seq(Source)
        BY <1>0 DEF SourcesTypeOK
      <4>2. \A i \in 1..Len(sources_frontier) : sources_frontier[i] \in Source
        BY <4>1
      <4> QED
        BY <4>2 DEF Source
    <3>2. \A id \in DOMAIN m_src_map : id \in Nat /\ id < temp_src_id
      BY <1>0 DEF SourcesInv, SourcesTypeOK, Numbered
    <3> QED
      BY <1>2, <3>1, <3>2 DEF SourcesInv, Numbered
  <2>2. temp_src_id \in Nat /\ sources_frontier'[Len(sources_frontier) + 1].src_id = temp_src_id
    BY <1>0, <1>1, <1>2 DEF SourcesTypeOK
  <2>3. /\ \A id \in DOMAIN m_src_map' : id < temp_src_id'
        /\ \A i \in 1..Len(sources_frontier') : sources_frontier'[i].src_id < temp_src_id'
    BY <1>0, <1>2, <2>1, <2>2
  <2>4. \A i \in 1..Len(sources_frontier') : sources_frontier'[i].src_id \notin DOMAIN m_src_map'
    BY <1>0, <1>2, <2>1, <2>2
  <2>5. \A i, k \in 1..Len(sources_frontier') :
            sources_frontier'[i].src_id = sources_frontier'[k].src_id => i = k
    BY <1>2, <2>1, <2>2
  <2> QED
    BY <2>3, <2>4, <2>5 DEF Numbered
<1>6. Reading' /\ Joined' /\ Finished' /\ Idle' = Idle
  BY <1>0 DEF SourcesInv, Reading, Joined, Finished, Idle, pend_import
<1>7. Waiting' = Waiting \cup {path}
  BY <1>1, <1>2 DEF Waiting
<1>8. Begun' = Begun /\ Met' = Met \cup {path} /\ reading.file_path \in Begun
  BY <1>0, <1>6, <1>7 DEF Begun, Met
<1>9. Begun \subseteq Paths
  BY <1>0, <1>3 DEF SourcesTypeOK, Begun
<1>10. Followed'
  BY <1>3, <1>8, <1>9 DEF SourcesInv, Followed
<1>11. Wanted'
  <2> SUFFICES ASSUME NEW S \in SUBSET Paths, Closed(S)' PROVE Met' \subseteq S
    BY DEF Wanted
  <2>1. Closed(S)
    BY <1>3 DEF Closed
  <2>2. Met \subseteq S
    BY <2>1 DEF SourcesInv, Wanted
  <2>3. path \in S
    BY <1>3, <1>8, <2>2 DEF Closed, Met
  <2> QED
    BY <1>8, <2>2, <2>3
<1> QED
  BY <1>4, <1>5, <1>6, <1>10, <1>11 DEF SourcesInv

\* A file that has been parsed is visited, and its declarations are joined
\* (driver.cpp:118).
LEMMA ParsedSources == SourcesInv /\ source_parsed => SourcesInv'
<1> SUFFICES ASSUME SourcesInv, source_parsed PROVE SourcesInv'
  OBVIOUS
<1>0. /\ SourcesTypeOK /\ ~ Idle /\ reading \in Source
      /\ full_ast' = Append(full_ast, reading.src_id)
      /\ visited_paths' = visited_paths \cup {reading.file_path}
      /\ reading' = NoSource
      /\ UNCHANGED <<sources_frontier, temp_src_id, m_src_map, imports, outcome>>
  BY DEF SourcesInv, SourcesTypeOK, Idle, source_parsed
<1>1. /\ reading.src_id \in DOMAIN m_src_map
      /\ m_src_map[reading.src_id] = reading.file_path
      /\ reading.file_path \notin visited_paths
  BY <1>0 DEF SourcesInv, Reading
<1>2. reading.file_path \in Paths /\ reading.src_id \in Nat /\ Idle'
  BY <1>0 DEF Source, Idle
<1>3. /\ Len(full_ast) \in Nat
      /\ full_ast' \in Seq(Nat)
      /\ Len(full_ast') = Len(full_ast) + 1
      /\ \A i \in 1..Len(full_ast) : full_ast'[i] = full_ast[i]
      /\ full_ast'[Len(full_ast) + 1] = reading.src_id
  BY <1>0, <1>2, AppendProperties DEF SourcesTypeOK
<1>4. SourcesTypeOK'
  BY <1>0, <1>2, <1>3 DEF SourcesTypeOK
<1>5. Numbered'
  BY <1>0 DEF SourcesInv, Numbered
<1>6. Reading'
  BY <1>2 DEF Reading
<1>7. Joined'
  <2>1. \A i \in 1..Len(full_ast) :
            /\ full_ast'[i] \in DOMAIN m_src_map
            /\ m_src_map[full_ast'[i]] \in visited_paths
    BY <1>3 DEF SourcesInv, Joined
  <2>2. \A p \in visited_paths : \E i \in 1..Len(full_ast) : m_src_map[full_ast'[i]] = p
    BY <1>3 DEF SourcesInv, Joined
  <2>3. \A i, k \in 1..Len(full_ast) :
            m_src_map[full_ast'[i]] = m_src_map[full_ast'[k]] => i = k
    BY <1>3 DEF SourcesInv, Joined
  <2>4. \A i \in 1..Len(full_ast') : i \in 1..Len(full_ast) \/ i = Len(full_ast) + 1
    BY <1>3
  <2>5. /\ \A i \in 1..Len(full_ast') : full_ast'[i] \in DOMAIN m_src_map'
        /\ \A i \in 1..Len(full_ast') : m_src_map'[full_ast'[i]] \in visited_paths'
    BY <1>0, <1>1, <1>3, <2>1, <2>4
  <2>6. \A p \in visited_paths' : \E i \in 1..Len(full_ast') : m_src_map'[full_ast'[i]] = p
    <3> SUFFICES ASSUME NEW p \in visited_paths'
                 PROVE  \E i \in 1..Len(full_ast') : m_src_map[full_ast'[i]] = p
      BY <1>0
    <3>1. CASE p \in visited_paths
      BY <1>3, <2>2, <3>1
    <3>2. CASE p = reading.file_path
      BY <1>1, <1>3, <3>2
    <3> QED
      BY <1>0, <3>1, <3>2
  <2>7. \A i, k \in 1..Len(full_ast') :
            m_src_map'[full_ast'[i]] = m_src_map'[full_ast'[k]] => i = k
    BY <1>0, <1>1, <1>3, <2>1, <2>3, <2>4
  <2> QED
    BY <2>5, <2>6, <2>7 DEF Joined
<1>8. Begun' = Begun /\ Met' = Met
  BY <1>0, <1>2 DEF Begun, Met, Waiting
<1>9. Followed' /\ Wanted'
  BY <1>0, <1>8 DEF SourcesInv, Followed, Wanted, Closed
<1>10. Finished'
  BY <1>0 DEF source_parsed, Finished
<1> QED
  BY <1>4, <1>5, <1>6, <1>7, <1>9, <1>10 DEF SourcesInv

\* The loop ends, with all parsed or with a file that failed.
LEMMA EndSources ==
    ASSUME SourcesInv,
           all_parsed \/ \E how \in {"refused", "died"} : source_failed(how)
    PROVE  SourcesInv'
<1>1. /\ UNCHANGED <<sources_frontier, temp_src_id, visited_paths, m_src_map, reading, full_ast,
                     imports>>
      /\ outcome' \in {"parsed", "refused", "died"}
  BY DEF all_parsed, source_failed
<1>2. SourcesTypeOK' /\ Numbered' /\ Reading' /\ Joined'
  BY <1>1 DEF SourcesInv, SourcesTypeOK, Numbered, Reading, Joined, Idle
<1>3. Followed' /\ Wanted'
  BY <1>1 DEF SourcesInv, Followed, Wanted, Closed, Met, Begun, Waiting, Idle
<1>4. Finished'
  BY <1>1 DEF all_parsed, source_failed, Finished, Idle
<1> QED
  BY <1>2, <1>3, <1>4 DEF SourcesInv

\* The invariant is inductive.
LEMMA NextSources == SourcesInv /\ [SourcesNext]_sourcesVars => SourcesInv'
<1> SUFFICES ASSUME SourcesInv, [SourcesNext]_sourcesVars PROVE SourcesInv'
  OBVIOUS
<1>1. CASE skip_visited
  BY <1>1, SkipSources
<1>2. CASE read_source
  BY <1>2, ReadSources
<1>3. CASE source_parsed
  BY <1>3, ParsedSources
<1>4. CASE all_parsed \/ \E how \in {"refused", "died"} : source_failed(how)
  BY <1>4, EndSources
<1>5. CASE \E path \in Paths : pend_import(path)
  BY <1>5, ImportSources
<1>6. CASE UNCHANGED sourcesVars
  <2>1. SourcesTypeOK' /\ Numbered' /\ Reading' /\ Joined' /\ Finished'
    BY <1>6 DEF SourcesInv, SourcesTypeOK, Numbered, Reading, Joined, Finished, Idle, sourcesVars
  <2>2. Followed' /\ Wanted'
    BY <1>6 DEF SourcesInv, Followed, Wanted, Closed, Met, Begun, Waiting, Idle, sourcesVars
  <2> QED
    BY <2>1, <2>2 DEF SourcesInv
<1> QED
  BY <1>1, <1>2, <1>3, <1>4, <1>5, <1>6 DEF SourcesNext

-----------------------------------------------------------------------------
(* What parse_sources promises *)

\* The worklist keeps its invariant through any files and imports.
THEOREM SourcesSafety == SourcesSpec => []SourcesInv
BY InitSources, NextSources, PTL DEF SourcesSpec

\* Every file is parsed and joined once (driver.cpp:100).
THEOREM PathsJoinedOnce == SourcesSpec => []EachPathOnce
<1>1. SourcesInv => EachPathOnce
  <2> SUFFICES ASSUME SourcesInv PROVE EachPathOnce
    OBVIOUS
  <2>1. full_ast \in Seq(Nat) /\ DOMAIN full_ast = 1..Len(full_ast)
    BY DEF SourcesInv, SourcesTypeOK
  <2> QED
    BY <2>1 DEF SourcesInv, Joined, EachPathOnce
<1> QED
  BY <1>1, SourcesSafety, PTL

\* No declaration is ever without the text of its file (analyzer.cpp:542).
THEOREM TextsStayAtHand == SourcesSpec => []TextAtHand
<1>1. SourcesInv => TextAtHand
  <2> SUFFICES ASSUME SourcesInv PROVE TextAtHand
    OBVIOUS
  <2>1. /\ DOMAIN full_ast = 1..Len(full_ast)
        /\ DOMAIN sources_frontier = 1..Len(sources_frontier)
    BY DEF SourcesInv, SourcesTypeOK
  <2> QED
    BY <2>1 DEF SourcesInv, Joined, Numbered, Reading, TextAtHand
<1> QED
  BY <1>1, SourcesSafety, PTL

\* When all is parsed, it is what imports lead to from the main file: cycles and
\* diamonds neither lose a file nor bring one in.
THEOREM ImportsFollowed == SourcesSpec => []AllImportsParsed
<1>1. SourcesInv => AllImportsParsed
  <2> SUFFICES ASSUME SourcesInv, outcome = "parsed"
               PROVE  /\ Closed(visited_paths)
                      /\ \A S \in SUBSET Paths : Closed(S) => visited_paths \subseteq S
    BY DEF AllImportsParsed
  <2>1. Idle /\ sources_frontier = <<>>
    BY DEF SourcesInv, Finished
  <2>2. Met = visited_paths /\ Begun = visited_paths
    BY <2>1 DEF Met, Begun, Waiting
  <2> QED
    BY <2>2 DEF SourcesInv, Followed, Wanted, Closed
<1> QED
  BY <1>1, SourcesSafety, PTL

-----------------------------------------------------------------------------
(* The front end *)

\* Each step of the front end is one of the worklist, or none of it (driver.cpp:82,
\* parsing.cpp:740).
LEMMA FrontendStep ==
    ASSUME ImportsNamePaths, [Next]_frontendVars
    PROVE  [SourcesNext]_sourcesVars
<1>1. CASE work_through
  BY <1>1 DEF work_through, SourcesNext
<1>2. CASE begin_parse
  BY <1>2 DEF begin_parse, SourcesNext
<1>3. CASE parse
  BY <1>3 DEF parse
<1>4. CASE parse_import
  <2>1. m_current.text \in Paths
    BY <1>4 DEF parse_import, consume, ImportsNamePaths
  <2>2. pend_import(m_current.text)
    BY <1>4 DEF parse_import
  <2> QED
    BY <2>1, <2>2 DEF SourcesNext
<1>5. CASE end_parse
  BY <1>5 DEF end_parse, SourcesNext
<1>6. CASE end_with_errors
  BY <1>6 DEF end_with_errors, SourcesNext
<1>7. CASE terminate
  BY <1>7 DEF terminate, SourcesNext
<1>8. CASE check_semantics
  BY <1>8 DEF check_semantics
<1>9. CASE UNCHANGED frontendVars
  BY <1>9 DEF frontendVars
<1> QED
  BY <1>1, <1>2, <1>3, <1>4, <1>5, <1>6, <1>7, <1>8, <1>9 DEF Next

\* The front end implements the worklist, as long as files import paths in Paths.
THEOREM FrontendIsWorklist == Spec /\ []ImportsNamePaths => SourcesSpec
<1>1. Init => SourcesInit
  BY DEF Init
<1>2. ImportsNamePaths /\ [Next]_frontendVars => [SourcesNext]_sourcesVars
  BY FrontendStep
<1> QED
  BY <1>1, <1>2, PTL DEF Spec, SourcesSpec

\* So every file is parsed once, with its text at hand, and none that imports lead to
\* is missing, whatever the texts and their errors (driver.cpp:82).
THEOREM FrontendKeepsFiles ==
    Spec /\ []ImportsNamePaths => [](EachPathOnce /\ TextAtHand /\ AllImportsParsed)
BY FrontendIsWorklist, PathsJoinedOnce, TextsStayAtHand, ImportsFollowed, PTL

-----------------------------------------------------------------------------
(* Sequences, and counting up *)

IsSeq(s) == \E S : s \in Seq(S)

LEMMA SeqFacts ==
    ASSUME NEW s, IsSeq(s)
    PROVE  Len(s) \in Nat /\ DOMAIN s = 1..Len(s) /\ (s # <<>> <=> Len(s) > 0)
<1>1. PICK S : s \in Seq(S)
  BY DEF IsSeq
<1> QED
  BY <1>1, LenProperties, EmptySeq

LEMMA SeqOfMany ==
    ASSUME NEW n \in Nat, NEW f, f = [i \in 1..n |-> f[i]]
    PROVE  IsSeq(f) /\ Len(f) = n
<1> DEFINE S == {f[i] : i \in 1..n}
<1>1. f \in [1..n -> S]
  OBVIOUS
<1>2. f \in Seq(S)
  BY <1>1, SeqDef
<1>3. DOMAIN f = 1..n /\ DOMAIN f = 1..Len(f) /\ Len(f) \in Nat
  BY <1>1, <1>2, LenProperties
<1>4. Len(f) = n
  BY <1>3
<1> QED
  BY <1>2, <1>4 DEF IsSeq

LEMMA SeqCat ==
    ASSUME NEW s, IsSeq(s), NEW t, IsSeq(t)
    PROVE  /\ IsSeq(s \o t) /\ Len(s \o t) = Len(s) + Len(t)
           /\ \A i \in 1..Len(s) : (s \o t)[i] = s[i]
           /\ \A i \in 1..Len(t) : (s \o t)[Len(s) + i] = t[i]
<1>1. PICK S : s \in Seq(S)
  BY DEF IsSeq
<1>2. PICK T : t \in Seq(T)
  BY DEF IsSeq
<1>3. s \in Seq(S \cup T) /\ t \in Seq(S \cup T)
  BY <1>1, <1>2, SeqMonotonic
<1>4. /\ s \o t \in Seq(S \cup T) /\ Len(s \o t) = Len(s) + Len(t)
      /\ \A i \in 1..(Len(s) + Len(t)) :
            (s \o t)[i] = IF i <= Len(s) THEN s[i] ELSE t[i - Len(s)]
  BY <1>3, ConcatProperties
<1>5. \A i \in 1..Len(t) : Len(s) + i \in 1..(Len(s) + Len(t)) /\ (Len(s) + i) - Len(s) = i
                            /\ ~ (Len(s) + i <= Len(s))
  BY <1>3, LenProperties
<1>6. \A i \in 1..Len(s) : i \in 1..(Len(s) + Len(t))
  BY <1>3, LenProperties
<1> QED
  BY <1>4, <1>5, <1>6 DEF IsSeq

LEMMA SeqAdd ==
    ASSUME NEW s, IsSeq(s), NEW x
    PROVE  LET t == Append(s, x)
           IN /\ IsSeq(t) /\ Len(t) = Len(s) + 1 /\ t # <<>>
              /\ t[Len(s) + 1] = x
              /\ \A i \in 1..Len(s) : t[i] = s[i]
<1>1. PICK S : s \in Seq(S)
  BY DEF IsSeq
<1>2. s \in Seq(S \cup {x})
  BY <1>1, SeqMonotonic
<1>3. /\ Append(s, x) \in Seq(S \cup {x}) /\ Len(Append(s, x)) = Len(s) + 1
      /\ Append(s, x)[Len(s) + 1] = x /\ \A i \in 1..Len(s) : Append(s, x)[i] = s[i]
  BY <1>2, AppendProperties
<1>4. Append(s, x) # <<>>
  BY <1>3, EmptySeq, LenProperties, <1>1
<1> QED
  BY <1>3, <1>4 DEF IsSeq

\* A part of a sequence; the whole, if it is taken from the first to the last.
LEMMA SeqPart ==
    ASSUME NEW s, IsSeq(s), NEW m \in 1..(Len(s) + 1), NEW n \in (m - 1)..Len(s)
    PROVE  LET t == SubSeq(s, m, n)
           IN IsSeq(t) /\ Len(t) = n - m + 1 /\ \A i \in 1..(n - m + 1) : t[i] = s[m + i - 1]
<1>1. PICK S : s \in Seq(S)
  BY DEF IsSeq
<1>2. Len(s) \in Nat /\ m \in Nat \ {0} /\ n \in Nat
  BY SeqFacts
<1>3. \A i \in m..n : s[i] \in S
  <2>1. \A i \in m..n : i \in 1..Len(s)
    BY <1>2
  <2> QED
    BY <1>1, <2>1, ElementOfSeq
<1>4. /\ SubSeq(s, m, n) \in Seq(S)
      /\ Len(SubSeq(s, m, n)) = IF m <= n THEN n - m + 1 ELSE 0
      /\ \A i \in 1..(n - m + 1) : SubSeq(s, m, n)[i] = s[m + i - 1]
  BY <1>2, <1>3, SubSeqProperties
<1> QED
  BY <1>2, <1>4 DEF IsSeq

LEMMA SeqRest ==
    ASSUME NEW s, IsSeq(s), s # <<>>
    PROVE  /\ IsSeq(Tail(s)) /\ Len(Tail(s)) = Len(s) - 1
           /\ \A i \in 1..(Len(s) - 1) : Tail(s)[i] = s[i + 1]
<1>1. PICK S : s \in Seq(S)
  BY DEF IsSeq
<1> QED
  BY <1>1, HeadTailProperties DEF IsSeq

LEMMA SeqSame ==
    ASSUME NEW s, IsSeq(s), NEW t, IsSeq(t), Len(s) = Len(t), \A i \in 1..Len(s) : s[i] = t[i]
    PROVE  s = t
<1>1. PICK S : s \in Seq(S)
  BY DEF IsSeq
<1>2. PICK T : t \in Seq(T)
  BY DEF IsSeq
<1>3. s \in Seq(S \cup T) /\ t \in Seq(S \cup T)
  BY <1>1, <1>2, SeqMonotonic
<1> QED
  BY <1>3, SeqEqual

\* Taking the first of what is joined.
LEMMA SeqCatRest ==
    ASSUME NEW s, IsSeq(s), s # <<>>, NEW t, IsSeq(t)
    PROVE  Tail(s \o t) = Tail(s) \o t /\ (s \o t)[1] = s[1] /\ s \o t # <<>>
<1>1. Len(s) \in Nat \ {0} /\ Len(t) \in Nat
  BY SeqFacts
<1>2. /\ IsSeq(s \o t) /\ Len(s \o t) = Len(s) + Len(t)
      /\ \A i \in 1..Len(s) : (s \o t)[i] = s[i]
      /\ \A i \in 1..Len(t) : (s \o t)[Len(s) + i] = t[i]
  BY SeqCat
<1>3. s \o t # <<>>
  BY <1>1, <1>2, SeqFacts
<1>4. /\ IsSeq(Tail(s)) /\ Len(Tail(s)) = Len(s) - 1
      /\ \A i \in 1..(Len(s) - 1) : Tail(s)[i] = s[i + 1]
  BY SeqRest
<1>5. /\ IsSeq(Tail(s \o t)) /\ Len(Tail(s \o t)) = Len(s) + Len(t) - 1
      /\ \A i \in 1..(Len(s) + Len(t) - 1) : Tail(s \o t)[i] = (s \o t)[i + 1]
  <2> DEFINE u == s \o t
  <2>1. IsSeq(u) /\ u # <<>> /\ Len(u) = Len(s) + Len(t)
    BY <1>2, <1>3
  <2> HIDE DEF u
  <2>2. /\ IsSeq(Tail(u)) /\ Len(Tail(u)) = Len(u) - 1
        /\ \A i \in 1..(Len(u) - 1) : Tail(u)[i] = u[i + 1]
    BY <2>1, SeqRest
  <2>3. /\ IsSeq(Tail(u)) /\ Len(Tail(u)) = Len(s) + Len(t) - 1
        /\ \A i \in 1..(Len(s) + Len(t) - 1) : Tail(u)[i] = u[i + 1]
    BY <2>1, <2>2
  <2> QED
    BY <2>3 DEF u
<1>6. /\ IsSeq(Tail(s) \o t) /\ Len(Tail(s) \o t) = Len(s) - 1 + Len(t)
      /\ \A i \in 1..(Len(s) - 1) : (Tail(s) \o t)[i] = Tail(s)[i]
      /\ \A i \in 1..Len(t) : (Tail(s) \o t)[Len(s) - 1 + i] = t[i]
  BY <1>4, SeqCat
<1>7. ASSUME NEW i \in 1..(Len(s) + Len(t) - 1) PROVE Tail(s \o t)[i] = (Tail(s) \o t)[i]
  <2>1. CASE i <= Len(s) - 1
    <3>1. i \in 1..(Len(s) - 1) /\ i + 1 \in 1..Len(s)
      BY <1>1, <2>1
    <3> QED
      BY <1>2, <1>4, <1>5, <1>6, <3>1
  <2>2. CASE i > Len(s) - 1
    <3> DEFINE k == i - (Len(s) - 1)
    <3>1. k \in 1..Len(t) /\ i = Len(s) - 1 + k /\ i + 1 = Len(s) + k
      BY <1>1, <2>2
    <3> HIDE DEF k
    <3> QED
      BY <1>2, <1>5, <1>6, <3>1
  <2> QED
    BY <1>1, <2>1, <2>2
<1>8. Tail(s \o t) = Tail(s) \o t
  BY <1>1, <1>5, <1>6, <1>7, SeqSame
<1>9. 1 \in 1..Len(s)
  BY <1>1
<1> QED
  BY <1>2, <1>3, <1>8, <1>9

LEMMA SeqCatTwice ==
    ASSUME NEW s, IsSeq(s), NEW t, IsSeq(t), NEW u, IsSeq(u)
    PROVE  (s \o t) \o u = s \o (t \o u)
<1>1. PICK S : s \in Seq(S)
  BY DEF IsSeq
<1>2. PICK T : t \in Seq(T)
  BY DEF IsSeq
<1>3. PICK U : u \in Seq(U)
  BY DEF IsSeq
<1> DEFINE W == S \cup T \cup U
<1>4. s \in Seq(W) /\ t \in Seq(W) /\ u \in Seq(W)
  BY <1>1, <1>2, <1>3, SeqMonotonic
<1> HIDE DEF W
<1> QED
  BY <1>4, ConcatAssociative

LEMMA Smallest ==
    ASSUME NEW T \in SUBSET Nat, T # {}
    PROVE  \E x \in T : \A y \in T : x <= y
<1> DEFINE R == StrictSubsetOrdering(Nat)
<1> DEFINE UpTo == {0..x : x \in T}
<1>1. IsWellFoundedOn(R, FiniteSubsetsOf(Nat))
  BY FS_StrictSubsetOrderingWellFounded
<1>2. UpTo \subseteq FiniteSubsetsOf(Nat) /\ UpTo # {}
  <2>1. ASSUME NEW x \in T PROVE 0..x \in FiniteSubsetsOf(Nat)
    <3>1. x \in Nat /\ 0..x \in SUBSET Nat
      OBVIOUS
    <3>2. IsFiniteSet(0..x)
      BY <3>1, FS_Interval
    <3> QED
      BY <3>1, <3>2 DEF FiniteSubsetsOf
  <2> QED
    BY <2>1
<1>3. PICK x \in T : \A y \in T : <<0..y, 0..x>> \notin R
  <2>1. \E U \in UpTo : \A V \in UpTo : ~ (<<V, U>> \in R)
    <3> HIDE DEF R, UpTo
    <3> QED
      BY <1>1, <1>2, WFMin
  <2> QED
    BY <2>1
<1>4. ASSUME NEW y \in T, y < x PROVE FALSE
  <2>1. 0..y \subseteq 0..x /\ x \in 0..x /\ x \notin 0..y /\ 0..x \subseteq Nat
    BY <1>4
  <2> QED
    BY <1>3, <2>1 DEF StrictSubsetOrdering
<1> QED
  BY <1>4

\* Induction from m to n, with a set in the place of a predicate.
LEMMA Climbs ==
    ASSUME NEW m \in Nat, NEW n \in Nat, NEW T, m \in T,
           \A i \in m..(n - 1) : i \in T => i + 1 \in T
    PROVE  m..n \subseteq T
<1> DEFINE Missing == {i \in m..n : i \notin T}
<1> SUFFICES ASSUME Missing # {} PROVE FALSE
  OBVIOUS
<1>1. Missing \in SUBSET Nat
  OBVIOUS
<1>2. PICK i \in Missing : \A k \in Missing : i <= k
  <2> HIDE DEF Missing
  <2> QED
    BY <1>1, Smallest
<1>3. i # m /\ i - 1 \in m..(n - 1) /\ i - 1 \in m..n /\ (i - 1) + 1 = i
  OBVIOUS
<1>4. i - 1 \in T
  BY <1>2, <1>3
<1> QED
  BY <1>3, <1>4

-----------------------------------------------------------------------------
(* What goals come to                                                       *)

\* Where the parser is in a body: the brackets that are open, each with the operands
\* there were behind it, and the operands there are.
Brackets == {"sequence", "call", "lambda", "destructure"}
Level == [open : Seq(Brackets \X Nat), height : Nat]
Ground == [open |-> <<>>, height |-> 0]

Innermost(a) == a.open[Len(a.open)]
Floor(a) == IF a.open = <<>> THEN 0 ELSE Innermost(a)[2]
Within(a, bracket) == a.open # <<>> /\ Innermost(a)[1] = bracket
Above(a, n) == a.height >= Floor(a) + n
Exactly(a, n) == a.height = Floor(a) + n
Statement(a, n) == (a.open = <<>> \/ Within(a, "lambda")) /\ Exactly(a, n)

Up(a, n) == [open |-> a.open, height |-> a.height + n]
Into(a, bracket, n) ==
    [open |-> Append(a.open, <<bracket, a.height + n>>), height |-> a.height + n]
Moves(a, b, n) == b = Up(a, n)
OpensTo(a, b, bracket, n) == b = Into(a, bracket, n)
ClosesTo(a, b, bracket, extra, n) ==
    /\ a.open = Append(b.open, <<bracket, a.height - extra>>)
    /\ b.height = a.height + n

\* What an event needs, and where it leads.
Acts(a, kind, b) ==
    \/ kind \in {"name", "literal", "string"} /\ Above(a, 0) /\ Moves(a, b, 1)
    \/ kind = "negate" /\ Above(a, 1) /\ Moves(a, b, 0)
    \/ kind = "binary" /\ Above(a, 2) /\ Moves(a, b, -1)
    \/ kind = "assign" /\ Statement(a, 2) /\ Moves(a, b, -1)
    \/ kind \in {"expression", "def", "then", "do", "return"} /\ Statement(a, 1) /\ Moves(a, b, -1)
    \/ kind \in {"if", "else", "while", "end", "break"} /\ Statement(a, 0) /\ Moves(a, b, 0)
    \/ kind \in {"parameter", "detup_name"} /\ Moves(a, b, 0)
    \/ kind = "sequence" /\ Above(a, 0) /\ OpensTo(a, b, "sequence", 0)
    \/ kind = "item" /\ Within(a, "sequence") /\ Exactly(a, 1) /\ Moves(a, b, -1)
    \/ kind \in {"list", "tuple"} /\ ClosesTo(a, b, "sequence", 0, 1)
    \/ kind = "call" /\ Above(a, 1) /\ OpensTo(a, b, "call", 0)
    \/ kind = "argument" /\ Within(a, "call") /\ Exactly(a, 1) /\ Moves(a, b, -1)
    \/ kind = "called" /\ ClosesTo(a, b, "call", 0, 0)
    \/ kind = "lambda" /\ Above(a, 0) /\ OpensTo(a, b, "lambda", 1)
    \/ kind = "lambda_end" /\ ClosesTo(a, b, "lambda", 0, 0)
    \/ kind = "destructure" /\ Statement(a, 0) /\ OpensTo(a, b, "destructure", 0)
    \/ kind = "detup" /\ ClosesTo(a, b, "destructure", 1, -1)

\* A body whose events lead from the ground to m.
Leads(events, m) ==
    /\ IsSeq(events)
    /\ \E f \in [0..Len(events) -> Level] :
          /\ f[0] = Ground /\ f[Len(events)] = m
          /\ \A i \in 1..Len(events) :
                /\ events[i] = <<events[i][1], events[i][2]>>
                /\ Acts(f[i - 1], events[i][1], f[i])

\* What may be listed, and where.
Item(a, item) ==
    \/ item = <<Rule("primary"), Mark("item")>> /\ Within(a, "sequence") /\ Exactly(a, 0)
    \/ item = parse_compare \o <<Mark("argument")>> /\ Within(a, "call") /\ Exactly(a, 0)
    \/ item \in {<<Named("parameter")>>, <<Named("detup_name")>>,
                 <<TakeAs("identifier", "params")>>}

\* What a goal needs, and where the events it will come to lead.
GoalActs(a, g, b) ==
    \/ g[1] = "emit" /\ g = <<g[1], g[2], g[3]>> /\ Acts(a, g[2], b)
    \/ g[1] = "take" /\ b = a
    \/ g[1] = "named" /\ g[2] \in {"parameter", "detup_name"} /\ b = a
    \/ g[1] \in {"primary", "unary"} /\ Above(a, 0) /\ Moves(a, b, 1)
    \/ g[1] \in {"access", "call"} /\ Above(a, 1) /\ b = a
    \/ g[1] = "binary" /\ g[2] \in 0..4 /\ g[3] \in 1..5 /\ Above(a, 1) /\ b = a
    \/ g[1] = "assign" /\ Statement(a, 1) /\ b = a
    \/ g[1] \in {"definition", "stmts", "else"} /\ Statement(a, 0) /\ b = a
    \/ g[1] = "items" /\ Item(a, g[3]) /\ b = a
    \/ g[1] = "more" /\ Item(a, g[2]) /\ b = a

Walk(w, a, b) ==
    \E f \in [0..Len(w) -> Level] :
        /\ f[0] = a /\ f[Len(w)] = b
        /\ \A i \in 1..Len(w) : GoalActs(f[i - 1], w[i], f[i])

-----------------------------------------------------------------------------
(* Walks *)

LEMMA WalkNone == ASSUME NEW a \in Level PROVE Walk(<<>>, a, a)
<1> DEFINE f == [i \in 0..0 |-> a]
<1>1. Len(<<>>) = 0 /\ f \in [0..0 -> Level] /\ f[0] = a
  BY EmptySeq
<1>2. \A i \in 1..0 : FALSE
  OBVIOUS
<1> QED
  BY <1>1, <1>2 DEF Walk

LEMMA WalkStays == ASSUME NEW a, NEW b, Walk(<<>>, a, b) PROVE a = b
<1>1. Len(<<>>) = 0
  BY EmptySeq
<1> QED
  BY <1>1 DEF Walk

LEMMA WalkOne ==
    ASSUME NEW a \in Level, NEW b \in Level, NEW g, GoalActs(a, g, b)
    PROVE  Walk(<<g>>, a, b) /\ IsSeq(<<g>>)
<1> DEFINE f == [i \in 0..1 |-> IF i = 0 THEN a ELSE b]
<1>1. <<g>> \in Seq({g}) /\ Len(<<g>>) = 1 /\ <<g>>[1] = g
  OBVIOUS
<1>2. f \in [0..1 -> Level] /\ f[0] = a /\ f[1] = b
  OBVIOUS
<1> HIDE DEF f
<1>3. \A i \in 1..1 : GoalActs(f[i - 1], <<g>>[i], f[i])
  BY <1>1, <1>2
<1> QED
  BY <1>1, <1>2, <1>3 DEF Walk, IsSeq

LEMMA WalkOn ==
    ASSUME NEW a, NEW b, NEW c, NEW u, IsSeq(u), NEW v, IsSeq(v), Walk(u, a, b), Walk(v, b, c)
    PROVE  Walk(u \o v, a, c) /\ IsSeq(u \o v)
<1> DEFINE m == Len(u)
<1> DEFINE n == Len(v)
<1> DEFINE w == u \o v
<1>1. m \in Nat /\ n \in Nat
  BY SeqFacts
<1>2. /\ IsSeq(w) /\ Len(w) = m + n
      /\ \A i \in 1..m : w[i] = u[i]
      /\ \A i \in 1..n : w[m + i] = v[i]
  BY SeqCat
<1>3. PICK f \in [0..m -> Level] :
        f[0] = a /\ f[m] = b /\ \A i \in 1..m : GoalActs(f[i - 1], u[i], f[i])
  BY DEF Walk
<1>4. PICK h \in [0..n -> Level] :
        h[0] = b /\ h[n] = c /\ \A i \in 1..n : GoalActs(h[i - 1], v[i], h[i])
  BY DEF Walk
<1> HIDE DEF w, m, n
<1> DEFINE k == [i \in 0..(m + n) |-> IF i <= m THEN f[i] ELSE h[i - m]]
<1>5. k \in [0..(m + n) -> Level]
  <2>1. ASSUME NEW i \in 0..(m + n) PROVE (IF i <= m THEN f[i] ELSE h[i - m]) \in Level
    <3>1. CASE i <= m
      BY <1>1, <1>3, <3>1
    <3>2. CASE ~ (i <= m)
      <4>1. i - m \in 0..n
        BY <1>1, <3>2
      <4> QED
        BY <1>4, <3>2, <4>1
    <3> QED
      BY <3>1, <3>2
  <2> QED
    BY <2>1
<1>6. \A i \in 0..m : k[i] = f[i]
  BY <1>1
<1>7. \A i \in 0..n : k[m + i] = h[i]
  <2> TAKE i \in 0..n
  <2>1. CASE i = 0
    <3>1. m + i = m /\ m \in 0..m
      BY <1>1, <2>1
    <3> QED
      BY <1>3, <1>4, <1>6, <2>1, <3>1
  <2>2. CASE i # 0
    <3>1. m + i \in 0..(m + n) /\ ~ (m + i <= m) /\ (m + i) - m = i
      BY <1>1, <2>2
    <3> QED
      BY <3>1
  <2> QED
    BY <2>1, <2>2
<1> HIDE DEF k
<1>8. k[0] = a /\ k[m + n] = c
  <2>1. 0 \in 0..m /\ n \in 0..n
    BY <1>1
  <2> QED
    BY <1>3, <1>4, <1>6, <1>7, <2>1
<1>9. ASSUME NEW i \in 1..(m + n) PROVE GoalActs(k[i - 1], w[i], k[i])
  <2>1. CASE i <= m
    <3>1. i \in 1..m /\ i - 1 \in 0..m /\ i \in 0..m
      BY <1>1, <2>1
    <3> QED
      BY <1>2, <1>3, <1>6, <3>1
  <2>2. CASE i > m
    <3> DEFINE l == i - m
    <3>1. l \in 1..n /\ i = m + l /\ l - 1 \in 0..n /\ l \in 0..n /\ i - 1 = m + (l - 1)
      BY <1>1, <2>2
    <3> HIDE DEF l
    <3>2. k[i - 1] = h[l - 1] /\ k[i] = h[l] /\ w[i] = v[l]
      BY <1>2, <1>7, <3>1
    <3> QED
      BY <1>4, <3>1, <3>2
  <2> QED
    BY <1>1, <2>1, <2>2
<1>10. Walk(w, a, c)
  BY <1>2, <1>5, <1>8, <1>9 DEF Walk
<1> QED
  BY <1>2, <1>10 DEF w

\* The first goal of a walk, and the walk that is left.
LEMMA WalkFirst ==
    ASSUME NEW a, NEW c, NEW w, IsSeq(w), w # <<>>, Walk(w, a, c)
    PROVE  \E b \in Level : a \in Level /\ GoalActs(a, w[1], b) /\ Walk(Tail(w), b, c)
<1> DEFINE n == Len(w)
<1>1. n \in Nat \ {0}
  BY SeqFacts
<1>2. /\ IsSeq(Tail(w)) /\ Len(Tail(w)) = n - 1
      /\ \A i \in 1..(n - 1) : Tail(w)[i] = w[i + 1]
  BY SeqRest
<1>3. PICK f \in [0..n -> Level] :
        f[0] = a /\ f[n] = c /\ \A i \in 1..n : GoalActs(f[i - 1], w[i], f[i])
  BY DEF Walk
<1> HIDE DEF n
<1> DEFINE h == [i \in 0..(n - 1) |-> f[i + 1]]
<1>4. h \in [0..(n - 1) -> Level] /\ h[0] = f[1] /\ h[n - 1] = f[n]
  BY <1>1, <1>3
<1>5. ASSUME NEW i \in 1..(n - 1) PROVE GoalActs(h[i - 1], Tail(w)[i], h[i])
  <2>1. i + 1 \in 1..n /\ (i + 1) - 1 = i /\ i - 1 \in 0..(n - 1) /\ (i - 1) + 1 = i /\ i \in 0..(n - 1)
    BY <1>1
  <2>2. h[i - 1] = f[i] /\ h[i] = f[i + 1]
    BY <2>1
  <2> QED
    BY <1>2, <1>3, <2>1, <2>2
<1>6. Walk(Tail(w), f[1], c)
  BY <1>2, <1>3, <1>4, <1>5 DEF Walk
<1>7. 1 \in 1..n /\ 1 - 1 = 0 /\ 1 \in 0..n /\ 0 \in 0..n
  BY <1>1
<1> QED
  BY <1>3, <1>6, <1>7

\* A goal, and a walk from where it leads.
LEMMA WalkThen ==
    ASSUME NEW a \in Level, NEW b \in Level, NEW c, NEW g, NEW w, IsSeq(w),
           GoalActs(a, g, b), Walk(w, b, c)
    PROVE  Walk(<<g>> \o w, a, c) /\ IsSeq(<<g>> \o w)
<1>1. Walk(<<g>>, a, b) /\ IsSeq(<<g>>)
  BY WalkOne
<1> QED
  BY <1>1, WalkOn

LEMMA PairJoined == ASSUME NEW g, NEW h PROVE <<g, h>> = <<g>> \o <<h>>
<1>1. /\ <<g>> \in Seq({g}) /\ Len(<<g>>) = 1 /\ <<g>>[1] = g
      /\ <<h>> \in Seq({h}) /\ Len(<<h>>) = 1 /\ <<h>>[1] = h
      /\ <<g, h>> \in Seq({g, h}) /\ Len(<<g, h>>) = 2 /\ <<g, h>>[1] = g /\ <<g, h>>[2] = h
  OBVIOUS
<1> DEFINE s == <<g>>
<1> DEFINE t == <<h>>
<1> DEFINE w == <<g, h>>
<1> HIDE DEF s, t, w
<1>2. IsSeq(s) /\ IsSeq(t) /\ IsSeq(w)
  BY <1>1 DEF IsSeq, s, t, w
<1>3. IsSeq(s \o t) /\ Len(s \o t) = 2 /\ (s \o t)[1] = g /\ (s \o t)[2] = h
  <2>1. /\ IsSeq(s \o t) /\ Len(s \o t) = Len(s) + Len(t)
        /\ \A i \in 1..Len(s) : (s \o t)[i] = s[i]
        /\ \A i \in 1..Len(t) : (s \o t)[Len(s) + i] = t[i]
    BY <1>2, SeqCat
  <2> QED
    BY <1>1, <2>1 DEF s, t
<1>4. \A i \in 1..2 : w[i] = (s \o t)[i]
  BY <1>1, <1>3 DEF w
<1>5. w = s \o t
  BY <1>1, <1>2, <1>3, <1>4, SeqSame DEF w
<1> QED
  BY <1>5 DEF s, t, w

LEMMA TripleJoined == ASSUME NEW g, NEW h, NEW i PROVE <<g, h, i>> = <<g>> \o <<h, i>>
OBVIOUS

LEMMA WalkTwo ==
    ASSUME NEW a \in Level, NEW b \in Level, NEW c \in Level, NEW g, NEW h,
           GoalActs(a, g, b), GoalActs(b, h, c)
    PROVE  Walk(<<g, h>>, a, c) /\ IsSeq(<<g, h>>)
<1>1. Walk(<<h>>, b, c) /\ IsSeq(<<h>>)
  BY WalkOne
<1>2. Walk(<<g>> \o <<h>>, a, c) /\ IsSeq(<<g>> \o <<h>>)
  BY <1>1, WalkThen
<1> QED
  BY <1>2, PairJoined

LEMMA WalkThree ==
    ASSUME NEW a \in Level, NEW b \in Level, NEW c \in Level, NEW d \in Level, NEW g, NEW h, NEW i,
           GoalActs(a, g, b), GoalActs(b, h, c), GoalActs(c, i, d)
    PROVE  Walk(<<g, h, i>>, a, d) /\ IsSeq(<<g, h, i>>)
<1>1. Walk(<<h, i>>, b, d) /\ IsSeq(<<h, i>>)
  BY WalkTwo
<1>2. Walk(<<g>> \o <<h, i>>, a, d) /\ IsSeq(<<g>> \o <<h, i>>)
  BY <1>1, WalkThen
<1> QED
  BY <1>2, TripleJoined

-----------------------------------------------------------------------------
(* Levels *)

LEMMA LevelFacts ==
    ASSUME NEW a \in Level
    PROVE  /\ a.open \in Seq(Brackets \X Nat) /\ IsSeq(a.open) /\ Len(a.open) \in Nat
           /\ a.height \in Nat /\ Floor(a) \in Nat
           /\ a = [open |-> a.open, height |-> a.height] /\ Up(a, 0) = a
           /\ a.open # <<>> =>
                Innermost(a) = <<Innermost(a)[1], Innermost(a)[2]>>
                  /\ Innermost(a) \in Brackets \X Nat
<1>1. a.open \in Seq(Brackets \X Nat) /\ a.height \in Nat
      /\ a = [open |-> a.open, height |-> a.height] /\ Len(a.open) \in Nat
  BY DEF Level
<1>2. ASSUME a.open # <<>> PROVE Innermost(a) \in Brackets \X Nat
  <2>1. Len(a.open) \in 1..Len(a.open)
    BY <1>1, <1>2, EmptySeq
  <2> QED
    BY <1>1, <2>1 DEF Innermost
<1>3. Floor(a) \in Nat
  BY <1>2 DEF Floor
<1>4. a.open # <<>> => Innermost(a) = <<Innermost(a)[1], Innermost(a)[2]>>
  BY <1>2
<1>5. Up(a, 0) = a
  <2>1. a.height + 0 = a.height
    BY <1>1
  <2> QED
    BY <1>1, <2>1 DEF Up
<1> QED
  BY <1>1, <1>2, <1>3, <1>4, <1>5 DEF IsSeq

\* Operands come and go between the same brackets.
LEMMA UpFacts ==
    ASSUME NEW a \in Level, NEW n \in Int, a.height + n >= 0
    PROVE  /\ Up(a, n) \in Level /\ Moves(a, Up(a, n), n)
           /\ Up(a, n).open = a.open /\ Up(a, n).height = a.height + n
           /\ Floor(Up(a, n)) = Floor(a)
           /\ \A bracket : Within(Up(a, n), bracket) <=> Within(a, bracket)
           /\ \A k \in Int : Above(a, k) => Above(Up(a, n), k + n)
           /\ \A k \in Int : Exactly(a, k) => Exactly(Up(a, n), k + n)
           /\ \A k \in Int : Statement(a, k) => Statement(Up(a, n), k + n)
<1>1. Up(a, n) \in Level /\ Up(a, n).open = a.open /\ Up(a, n).height = a.height + n
  BY DEF Level, Up
<1>2. Floor(Up(a, n)) = Floor(a) /\ \A bracket : Within(Up(a, n), bracket) <=> Within(a, bracket)
  BY <1>1 DEF Floor, Innermost, Within
<1>3. Floor(a) \in Nat /\ a.height \in Nat
  BY LevelFacts
<1>4. \A k \in Int : (Above(a, k) => Above(Up(a, n), k + n))
                       /\ (Exactly(a, k) => Exactly(Up(a, n), k + n))
  BY <1>1, <1>2, <1>3 DEF Above, Exactly
<1>5. \A k \in Int : Statement(a, k) => Statement(Up(a, n), k + n)
  BY <1>1, <1>2, <1>4 DEF Statement
<1> QED
  BY <1>1, <1>2, <1>4, <1>5 DEF Moves

\* A bracket is opened.
LEMMA IntoFacts ==
    ASSUME NEW a \in Level, NEW bracket \in Brackets, NEW n \in Nat
    PROVE  LET b == Into(a, bracket, n)
           IN /\ b \in Level /\ OpensTo(a, b, bracket, n)
              /\ b.open = Append(a.open, <<bracket, a.height + n>>) /\ b.height = a.height + n
              /\ b.open # <<>> /\ Len(b.open) = Len(a.open) + 1
              /\ Innermost(b) = <<bracket, a.height + n>> /\ Floor(b) = a.height + n
              /\ Within(b, bracket) /\ Above(b, 0) /\ Exactly(b, 0)
<1> DEFINE b == Into(a, bracket, n)
<1>1. a.open \in Seq(Brackets \X Nat) /\ a.height \in Nat
  BY LevelFacts
<1>2. <<bracket, a.height + n>> \in Brackets \X Nat
  BY <1>1
<1>3. /\ Append(a.open, <<bracket, a.height + n>>) \in Seq(Brackets \X Nat)
      /\ Len(Append(a.open, <<bracket, a.height + n>>)) = Len(a.open) + 1
      /\ Append(a.open, <<bracket, a.height + n>>)[Len(a.open) + 1] = <<bracket, a.height + n>>
      /\ Append(a.open, <<bracket, a.height + n>>) # <<>>
  <2>1. IsSeq(a.open)
    BY <1>1 DEF IsSeq
  <2>2. Append(a.open, <<bracket, a.height + n>>) \in Seq(Brackets \X Nat)
    BY <1>1, <1>2, AppendProperties
  <2> QED
    BY <2>1, <2>2, SeqAdd
<1>4. b.open = Append(a.open, <<bracket, a.height + n>>) /\ b.height = a.height + n
  BY DEF Into
<1>5. b \in Level
  BY <1>1, <1>3 DEF Into, Level
<1> HIDE DEF b
<1>6. Innermost(b) = <<bracket, a.height + n>> /\ Floor(b) = a.height + n /\ Within(b, bracket)
  BY <1>3, <1>4 DEF Innermost, Floor, Within
<1>7. Above(b, 0) /\ Exactly(b, 0)
  BY <1>1, <1>4, <1>6 DEF Above, Exactly
<1> QED
  BY <1>3, <1>4, <1>5, <1>6, <1>7 DEF OpensTo, b

\* And closed.
LEMMA Closing ==
    ASSUME NEW a \in Level, NEW bracket \in Brackets, NEW m \in Nat, NEW extra \in Nat, NEW n \in Int
    PROVE  ClosesTo(Up(Into(a, bracket, m), extra), Up(a, m + extra + n), bracket, extra, n)
<1>1. a.height \in Nat
  BY LevelFacts
<1>2. (a.height + m + extra) - extra = a.height + m
  BY <1>1
<1>3. a.height + (m + extra + n) = (a.height + m + extra) + n
  BY <1>1
<1> QED
  BY <1>2, <1>3 DEF ClosesTo, Up, Into

LEMMA FiveJoined ==
    ASSUME NEW g, NEW h, NEW i, NEW j, NEW k
    PROVE  <<g, h, i, j, k>> = <<g, h>> \o <<i, j, k>>
OBVIOUS

LEMMA SixJoined ==
    ASSUME NEW g, NEW h, NEW i, NEW j, NEW k, NEW l
    PROVE  <<g, h, i, j, k, l>> = <<g, h, i>> \o <<j, k, l>>
OBVIOUS

LEMMA UpTwice ==
    ASSUME NEW a \in Level, NEW m \in Int, NEW n \in Int
    PROVE  Up(Up(a, m), n) = Up(a, m + n)
<1>1. (a.height + m) + n = a.height + (m + n)
  BY LevelFacts
<1> QED
  BY <1>1 DEF Up

\* One more operand.
LEMMA UpOne ==
    ASSUME NEW a \in Level
    PROVE  /\ Up(a, 1) \in Level /\ Up(Up(a, 1), -1) = a
           /\ Above(a, 0) => Above(Up(a, 1), 1)
           /\ Above(a, 1) => Above(a, 0) /\ Above(Up(a, 1), 2)
           /\ Exactly(a, 0) => Above(a, 0) /\ Exactly(Up(a, 1), 1)
           /\ Statement(a, 0) => Above(a, 0) /\ Statement(Up(a, 1), 1)
           /\ Statement(a, 1) => Above(a, 0) /\ Statement(Up(a, 1), 2)
           /\ \A bracket : Within(a, bracket) => Within(Up(a, 1), bracket)
<1>1. a.height \in Nat /\ Floor(a) \in Nat /\ a.height + 1 >= 0 /\ Up(a, 0) = a
  BY LevelFacts
<1>2. /\ Up(a, 1) \in Level
      /\ \A bracket : Within(Up(a, 1), bracket) <=> Within(a, bracket)
      /\ \A k \in Int : Above(a, k) => Above(Up(a, 1), k + 1)
      /\ \A k \in Int : Exactly(a, k) => Exactly(Up(a, 1), k + 1)
      /\ \A k \in Int : Statement(a, k) => Statement(Up(a, 1), k + 1)
  BY <1>1, UpFacts
<1>3. /\ Above(a, 0) => Above(Up(a, 1), 1)
      /\ Above(a, 1) => Above(Up(a, 1), 2)
      /\ Exactly(a, 0) => Exactly(Up(a, 1), 1)
      /\ Statement(a, 0) => Statement(Up(a, 1), 1)
      /\ Statement(a, 1) => Statement(Up(a, 1), 2)
  <2>1. 0 \in Int /\ 1 \in Int /\ 0 + 1 = 1 /\ 1 + 1 = 2
    OBVIOUS
  <2> QED
    BY <1>2, <2>1
<1>4. /\ Above(a, 1) => Above(a, 0)
      /\ Exactly(a, 0) => Above(a, 0)
      /\ Exactly(a, 1) => Above(a, 0)
  BY <1>1 DEF Above, Exactly
<1>5. (Statement(a, 0) => Exactly(a, 0)) /\ (Statement(a, 1) => Exactly(a, 1))
  BY DEF Statement
<1>6. Up(Up(a, 1), -1) = a
  <2>1. Up(Up(a, 1), -1) = Up(a, 1 + (-1)) /\ 1 + (-1) = 0
    BY UpTwice
  <2> QED
    BY <1>1, <2>1
<1> QED
  BY <1>2, <1>3, <1>4, <1>5, <1>6

-----------------------------------------------------------------------------
(* What goals and events need, to lead where they do *)

LEMMA TakeActs ==
    ASSUME NEW a, NEW token_type, NEW use
    PROVE  GoalActs(a, Take(token_type), a) /\ GoalActs(a, TakeAs(token_type, use), a)
BY DEF GoalActs, Take, TakeAs

LEMMA EmitActs ==
    ASSUME NEW a, NEW b, NEW kind, NEW text, Acts(a, kind, b)
    PROVE  GoalActs(a, Emit(kind, text), b) /\ GoalActs(a, Mark(kind), b)
BY DEF GoalActs, Emit, Mark

LEMMA RuleActs ==
    ASSUME NEW a
    PROVE  /\ \A name \in {"primary", "unary"} : Above(a, 0) => GoalActs(a, Rule(name), Up(a, 1))
           /\ \A name \in {"access", "call"} : Above(a, 1) => GoalActs(a, Rule(name), a)
           /\ \A hi \in 0..4, lo \in 1..5 : Above(a, 1) => GoalActs(a, Binary(hi, lo), a)
           /\ Statement(a, 1) => GoalActs(a, Rule("assign"), a)
           /\ \A name \in {"definition", "stmts", "else"} :
                 Statement(a, 0) => GoalActs(a, Rule(name), a)
           /\ \A item : Item(a, item) => /\ \A close : GoalActs(a, Items(close, item), a)
                                         /\ GoalActs(a, More(item), a)
           /\ \A kind \in {"parameter", "detup_name"} : GoalActs(a, Named(kind), a)
BY DEF GoalActs, Rule, Binary, Items, More, Named, Moves

LEMMA OperandActs ==
    ASSUME NEW a
    PROVE  /\ \A kind \in {"name", "literal", "string"} : Above(a, 0) => Acts(a, kind, Up(a, 1))
           /\ Above(a, 1) => Acts(a, "negate", Up(a, 0))
           /\ Above(a, 2) => Acts(a, "binary", Up(a, -1))
           /\ Statement(a, 2) => Acts(a, "assign", Up(a, -1))
           /\ \A kind \in {"expression", "def", "then", "do", "return"} :
                 Statement(a, 1) => Acts(a, kind, Up(a, -1))
           /\ \A kind \in {"if", "else", "while", "end", "break"} :
                 Statement(a, 0) => Acts(a, kind, Up(a, 0))
           /\ \A kind \in {"parameter", "detup_name"} : Acts(a, kind, Up(a, 0))
           /\ Within(a, "sequence") /\ Exactly(a, 1) => Acts(a, "item", Up(a, -1))
           /\ Within(a, "call") /\ Exactly(a, 1) => Acts(a, "argument", Up(a, -1))
BY DEF Acts, Moves

LEMMA BracketActs ==
    ASSUME NEW a \in Level
    PROVE  /\ Above(a, 0) => Acts(a, "sequence", Into(a, "sequence", 0))
           /\ \A kind \in {"list", "tuple"} : Acts(Into(a, "sequence", 0), kind, Up(a, 1))
           /\ Above(a, 1) => Acts(a, "call", Into(a, "call", 0))
           /\ Acts(Into(a, "call", 0), "called", a)
           /\ Above(a, 0) => Acts(a, "lambda", Into(a, "lambda", 1))
           /\ Acts(Into(a, "lambda", 1), "lambda_end", Up(a, 1))
           /\ Statement(a, 0) => Acts(a, "destructure", Into(a, "destructure", 0))
           /\ Acts(Up(Into(a, "destructure", 0), 1), "detup", a)
<1>1. \A bracket \in Brackets, m \in Nat : Up(Into(a, bracket, m), 0) = Into(a, bracket, m)
  BY IntoFacts, LevelFacts
<1>2. \A bracket \in Brackets, m \in Nat, extra \in Nat, n \in Int :
        ClosesTo(Up(Into(a, bracket, m), extra), Up(a, m + extra + n), bracket, extra, n)
  BY Closing
<1>3. Up(a, 0) = a
  BY LevelFacts
<1>4. /\ ClosesTo(Into(a, "sequence", 0), Up(a, 1), "sequence", 0, 1)
      /\ ClosesTo(Into(a, "call", 0), a, "call", 0, 0)
      /\ ClosesTo(Into(a, "lambda", 1), Up(a, 1), "lambda", 0, 0)
      /\ ClosesTo(Up(Into(a, "destructure", 0), 1), a, "destructure", 1, -1)
  <2>1. /\ ClosesTo(Up(Into(a, "sequence", 0), 0), Up(a, 0 + 0 + 1), "sequence", 0, 1)
        /\ ClosesTo(Up(Into(a, "call", 0), 0), Up(a, 0 + 0 + 0), "call", 0, 0)
        /\ ClosesTo(Up(Into(a, "lambda", 1), 0), Up(a, 1 + 0 + 0), "lambda", 0, 0)
        /\ ClosesTo(Up(Into(a, "destructure", 0), 1), Up(a, 0 + 1 + (-1)), "destructure", 1, -1)
    BY <1>2 DEF Brackets
  <2>2. 0 + 0 + 1 = 1 /\ 0 + 0 + 0 = 0 /\ 1 + 0 + 0 = 1 /\ 0 + 1 + (-1) = 0
    OBVIOUS
  <2> QED
    BY <1>1, <1>3, <2>1, <2>2 DEF Brackets
<1> QED
  BY <1>4 DEF Acts, OpensTo

-----------------------------------------------------------------------------
(* What rules come to *)

LEMMA CompareWalk ==
    ASSUME NEW a \in Level, Above(a, 0), NEW level \in 1..5
    PROVE  Walk(parse_binary(level), a, Up(a, 1)) /\ IsSeq(parse_binary(level))
<1>1. Up(a, 1) \in Level /\ Above(Up(a, 1), 1)
  BY UpOne
<1>2. GoalActs(a, Rule("unary"), Up(a, 1)) /\ GoalActs(Up(a, 1), Binary(4, level), Up(a, 1))
  BY <1>1, RuleActs
<1> QED
  BY <1>1, <1>2, WalkTwo DEF parse_binary

LEMMA CallWalk ==
    ASSUME NEW a \in Level, Above(a, 0)
    PROVE  Walk(parse_call, a, Up(a, 1)) /\ IsSeq(parse_call)
<1>1. Up(a, 1) \in Level /\ Above(Up(a, 1), 1)
  BY UpOne
<1>2. /\ GoalActs(a, Rule("primary"), Up(a, 1))
      /\ GoalActs(Up(a, 1), Rule("access"), Up(a, 1))
      /\ GoalActs(Up(a, 1), Rule("call"), Up(a, 1))
  BY <1>1, RuleActs
<1> QED
  BY <1>1, <1>2, WalkThree DEF parse_call

LEMMA BlockWalk ==
    ASSUME NEW a \in Level, Statement(a, 0)
    PROVE  Walk(parse_block, a, a) /\ IsSeq(parse_block)
<1>1. GoalActs(a, Take("open_brace"), a) /\ GoalActs(a, Rule("stmts"), a)
  BY TakeActs, RuleActs
<1> QED
  BY <1>1, WalkTwo DEF parse_block

LEMMA ItemWalk ==
    ASSUME NEW a \in Level, NEW item, Item(a, item)
    PROVE  Walk(item, a, a) /\ IsSeq(item)
<1>0. Up(a, 1) \in Level /\ Up(Up(a, 1), -1) = a
  BY UpOne
<1>1. CASE item = <<Rule("primary"), Mark("item")>> /\ Within(a, "sequence") /\ Exactly(a, 0)
  <2>1. Above(a, 0) /\ Within(Up(a, 1), "sequence") /\ Exactly(Up(a, 1), 1)
    BY <1>1, UpOne
  <2>2. GoalActs(a, Rule("primary"), Up(a, 1)) /\ GoalActs(Up(a, 1), Mark("item"), a)
    BY <1>0, <2>1, RuleActs, OperandActs, EmitActs
  <2> QED
    BY <1>0, <1>1, <2>2, WalkTwo
<1>2. CASE item = parse_compare \o <<Mark("argument")>> /\ Within(a, "call") /\ Exactly(a, 0)
  <2>1. Above(a, 0) /\ Within(Up(a, 1), "call") /\ Exactly(Up(a, 1), 1)
    BY <1>2, UpOne
  <2>2. Walk(parse_compare, a, Up(a, 1)) /\ IsSeq(parse_compare)
    BY <2>1, CompareWalk DEF parse_compare
  <2>3. GoalActs(Up(a, 1), Mark("argument"), a)
    BY <1>0, <2>1, OperandActs, EmitActs
  <2>4. Walk(<<Mark("argument")>>, Up(a, 1), a) /\ IsSeq(<<Mark("argument")>>)
    BY <1>0, <2>3, WalkOne
  <2> QED
    BY <1>2, <2>2, <2>4, WalkOn
<1>3. CASE item \in {<<Named("parameter")>>, <<Named("detup_name")>>,
                     <<TakeAs("identifier", "params")>>}
  BY <1>3, RuleActs, TakeActs, WalkOne
<1> QED
  BY <1>1, <1>2, <1>3 DEF Item

LEMMA SequenceWalk ==
    ASSUME NEW a \in Level, Above(a, 0), NEW close, NEW kind \in {"list", "tuple"}
    PROVE  Walk(Sequence(close, kind), a, Up(a, 1)) /\ IsSeq(Sequence(close, kind))
<1> DEFINE b == Into(a, "sequence", 0)
<1> DEFINE items == Items(close, <<Rule("primary"), Mark("item")>>)
<1>1. b \in Level /\ Within(b, "sequence") /\ Exactly(b, 0) /\ Up(a, 1) \in Level
  BY IntoFacts, UpOne DEF Brackets
<1>2. GoalActs(a, Mark("sequence"), b) /\ GoalActs(b, Mark(kind), Up(a, 1))
  BY BracketActs, EmitActs
<1>3. Item(b, <<Rule("primary"), Mark("item")>>)
  BY <1>1 DEF Item
<1> HIDE DEF b
<1>4. GoalActs(b, items, b)
  BY <1>3, RuleActs
<1> HIDE DEF items
<1>5. GoalActs(b, Take(type), b) /\ GoalActs(b, Take(close), b)
  BY TakeActs
<1>6. Walk(<<Mark("sequence"), Take(type)>>, a, b) /\ IsSeq(<<Mark("sequence"), Take(type)>>)
  BY <1>1, <1>2, <1>5, WalkTwo
<1>7. Walk(<<items, Take(close), Mark(kind)>>, b, Up(a, 1)) /\ IsSeq(<<items, Take(close), Mark(kind)>>)
  BY <1>1, <1>2, <1>4, <1>5, WalkThree
<1>8. Sequence(close, kind) = <<Mark("sequence"), Take(type)>> \o <<items, Take(close), Mark(kind)>>
  BY FiveJoined DEF Sequence, items
<1> QED
  BY <1>6, <1>7, <1>8, WalkOn

LEMMA LambdaWalk ==
    ASSUME NEW a \in Level, Above(a, 0)
    PROVE  Walk(parse_lambda, a, Up(a, 1)) /\ IsSeq(parse_lambda)
<1> DEFINE b == Into(a, "lambda", 1)
<1> DEFINE items == Items("close_bracket", <<Named("parameter")>>)
<1> DEFINE head == <<Mark("lambda"), Take("keyword_fn"), Take("open_bracket"),
                     items, Take("close_bracket"), Take("arrow")>>
<1>1. b \in Level /\ Statement(b, 0) /\ Up(a, 1) \in Level
  <2>1. b \in Level /\ Within(b, "lambda") /\ Exactly(b, 0) /\ Up(a, 1) \in Level
    BY IntoFacts, UpOne DEF Brackets
  <2> QED
    BY <2>1 DEF Statement
<1>2. GoalActs(a, Mark("lambda"), b) /\ GoalActs(b, Mark("lambda_end"), Up(a, 1))
  BY BracketActs, EmitActs
<1> HIDE DEF b
<1>3. GoalActs(b, items, b)
  BY RuleActs DEF Item
<1>4. \A t : GoalActs(b, Take(t), b)
  BY TakeActs
<1> HIDE DEF items
<1>5. Walk(head, a, b) /\ IsSeq(head)
  <2>1. LET w == <<Mark("lambda"), Take("keyword_fn"), Take("open_bracket")>>
        IN Walk(w, a, b) /\ IsSeq(w)
    BY <1>1, <1>2, <1>4, WalkThree
  <2>2. LET w == <<items, Take("close_bracket"), Take("arrow")>> IN Walk(w, b, b) /\ IsSeq(w)
    BY <1>1, <1>3, <1>4, WalkThree
  <2>3. head = <<Mark("lambda"), Take("keyword_fn"), Take("open_bracket")>> \o
                 <<items, Take("close_bracket"), Take("arrow")>>
    BY SixJoined
  <2> HIDE DEF head
  <2> QED
    BY <2>1, <2>2, <2>3, WalkOn
<1>6. parse_lambda = (head \o parse_block) \o <<Mark("lambda_end")>>
  BY DEF parse_lambda, items
<1> HIDE DEF head
<1>7. Walk(parse_block, b, b) /\ IsSeq(parse_block)
  BY <1>1, BlockWalk
<1>8. Walk(<<Mark("lambda_end")>>, b, Up(a, 1)) /\ IsSeq(<<Mark("lambda_end")>>)
  BY <1>1, <1>2, WalkOne
<1>9. Walk(head \o parse_block, a, b) /\ IsSeq(head \o parse_block)
  BY <1>5, <1>7, WalkOn
<1> QED
  BY <1>6, <1>8, <1>9, WalkOn

LEMMA PrimaryWalk ==
    ASSUME NEW a \in Level, Above(a, 0), BeginsPrimary
    PROVE  Walk(parse_primary, a, Up(a, 1)) /\ IsSeq(parse_primary)
<1>0. Up(a, 1) \in Level /\ \A t : GoalActs(Up(a, 1), Take(t), Up(a, 1)) /\ GoalActs(a, Take(t), a)
  BY UpOne, TakeActs
<1>1. ASSUME NEW kind \in {"name", "literal", "string"}, NEW text
      PROVE  Walk(<<Emit(kind, text), Take(type)>>, a, Up(a, 1))
               /\ IsSeq(<<Emit(kind, text), Take(type)>>)
  <2>1. GoalActs(a, Emit(kind, text), Up(a, 1))
    BY OperandActs, EmitActs
  <2> QED
    BY <1>0, <2>1, WalkTwo
<1>2. CASE type = "identifier"
  BY <1>1, <1>2 DEF parse_primary, Literals
<1>3. CASE type = "keyword_fn"
  <2>1. parse_primary = parse_lambda
    BY <1>3 DEF parse_primary, Literals
  <2> QED
    BY <2>1, LambdaWalk
<1>4. CASE type = "open_paren"
  <2>1. parse_primary = (<<Take(type)>> \o parse_compare) \o <<Take("close_paren")>>
    BY <1>4 DEF parse_primary, Literals
  <2>2. Walk(parse_compare, a, Up(a, 1)) /\ IsSeq(parse_compare)
    BY CompareWalk DEF parse_compare
  <2>3. Walk(<<Take("close_paren")>>, Up(a, 1), Up(a, 1)) /\ IsSeq(<<Take("close_paren")>>)
    BY <1>0, WalkOne
  <2>4. LET w == <<Take(type)>> \o parse_compare IN Walk(w, a, Up(a, 1)) /\ IsSeq(w)
    BY <1>0, <2>2, WalkThen
  <2> QED
    BY <2>1, <2>3, <2>4, WalkOn
<1>5. CASE type = "open_bracket"
  <2>1. parse_primary = Sequence("close_bracket", "tuple")
    BY <1>5 DEF parse_primary, Literals
  <2> QED
    BY <2>1, SequenceWalk
<1>6. CASE type = "open_brace"
  <2>1. parse_primary = Sequence("close_brace", "list")
    BY <1>6 DEF parse_primary, Literals
  <2> QED
    BY <2>1, SequenceWalk
<1>7. CASE type = "literal_string"
  <2>1. parse_primary = <<Emit("string", m_current.text), Take(type)>>
    BY <1>7 DEF parse_primary, Literals
  <2> QED
    BY <1>1, <2>1
<1>8. CASE type \in Literals
  <2>1. parse_primary = <<Emit("literal", m_current.text), Take(type)>>
    BY <1>8 DEF parse_primary, Literals
  <2> QED
    BY <1>1, <2>1
<1> QED
  BY <1>2, <1>3, <1>4, <1>5, <1>6, <1>7, <1>8 DEF BeginsPrimary

LEMMA AccessWalk ==
    ASSUME NEW a \in Level, Above(a, 1)
    PROVE  Walk(parse_access, a, a) /\ IsSeq(parse_access)
<1>1. CASE type # "dot"
  BY <1>1, WalkNone DEF parse_access, IsSeq
<1>2. CASE type = "dot"
  <2> DEFINE tail == <<Emit("binary", <<"seq_obj_get">>), Rule("access")>>
  <2>1. parse_access = (<<Take("dot")>> \o parse_call) \o tail
    BY <1>2 DEF parse_access
  <2>2. Up(a, 1) \in Level /\ Up(Up(a, 1), -1) = a /\ Above(a, 0) /\ Above(Up(a, 1), 2)
    BY UpOne
  <2>3. Walk(parse_call, a, Up(a, 1)) /\ IsSeq(parse_call)
    BY <2>2, CallWalk
  <2>4. GoalActs(a, Take("dot"), a)
    BY TakeActs
  <2>5. LET w == <<Take("dot")>> \o parse_call IN Walk(w, a, Up(a, 1)) /\ IsSeq(w)
    BY <2>2, <2>3, <2>4, WalkThen
  <2>6. /\ GoalActs(Up(a, 1), Emit("binary", <<"seq_obj_get">>), a)
        /\ GoalActs(a, Rule("access"), a)
    BY <2>2, OperandActs, EmitActs, RuleActs
  <2>7. Walk(tail, Up(a, 1), a) /\ IsSeq(tail)
    BY <2>2, <2>6, WalkTwo
  <2> HIDE DEF tail
  <2> QED
    BY <2>1, <2>5, <2>7, WalkOn
<1> QED
  BY <1>1, <1>2

LEMMA ArgumentsWalk ==
    ASSUME NEW a \in Level, Above(a, 1)
    PROVE  Walk(parse_arguments, a, a) /\ IsSeq(parse_arguments)
<1>1. CASE type # "open_paren"
  BY <1>1, WalkNone DEF parse_arguments, IsSeq
<1>2. CASE type = "open_paren"
  <2> DEFINE b == Into(a, "call", 0)
  <2> DEFINE item == parse_compare \o <<Mark("argument")>>
  <2> DEFINE items == Items("close_paren", item)
  <2>1. b \in Level /\ Within(b, "call") /\ Exactly(b, 0)
    BY IntoFacts DEF Brackets
  <2>2. GoalActs(a, Mark("call"), b) /\ GoalActs(b, Mark("called"), a)
    BY BracketActs, EmitActs
  <2> HIDE DEF b
  <2>3. Item(b, item)
    BY <2>1 DEF Item
  <2> HIDE DEF item
  <2>4. GoalActs(b, items, b)
    BY <2>3, RuleActs
  <2>5. parse_arguments =
          <<Mark("call"), Take("open_paren")>> \o <<items, Take("close_paren"), Mark("called")>>
    <3>1. parse_arguments =
            <<Mark("call"), Take("open_paren"), items, Take("close_paren"), Mark("called")>>
      BY <1>2 DEF parse_arguments, item
    <3> QED
      BY <3>1, FiveJoined
  <2> HIDE DEF items
  <2>6. \A t : GoalActs(b, Take(t), b)
    BY TakeActs
  <2>7. LET w == <<Mark("call"), Take("open_paren")>> IN Walk(w, a, b) /\ IsSeq(w)
    BY <2>1, <2>2, <2>6, WalkTwo
  <2>8. LET w == <<items, Take("close_paren"), Mark("called")>> IN Walk(w, b, a) /\ IsSeq(w)
    BY <2>1, <2>2, <2>4, <2>6, WalkThree
  <2> QED
    BY <2>5, <2>7, <2>8, WalkOn
<1> QED
  BY <1>1, <1>2

LEMMA UnaryWalk ==
    ASSUME NEW a \in Level, Above(a, 0)
    PROVE  Walk(parse_unary, a, Up(a, 1)) /\ IsSeq(parse_unary)
<1>1. CASE type # "oper_minus"
  BY <1>1, CallWalk DEF parse_unary
<1>2. CASE type = "oper_minus"
  <2>1. parse_unary = (<<Take("oper_minus")>> \o parse_call) \o <<Mark("negate")>>
    BY <1>2 DEF parse_unary
  <2>2. Up(a, 1) \in Level /\ Above(Up(a, 1), 1) /\ Up(Up(a, 1), 0) = Up(a, 1)
    BY UpOne, LevelFacts
  <2>3. GoalActs(a, Take("oper_minus"), a) /\ GoalActs(Up(a, 1), Mark("negate"), Up(a, 1))
    BY <2>2, TakeActs, OperandActs, EmitActs
  <2>4. LET w == <<Take("oper_minus")>> \o parse_call IN Walk(w, a, Up(a, 1)) /\ IsSeq(w)
    BY <2>3, CallWalk, WalkThen
  <2>5. Walk(<<Mark("negate")>>, Up(a, 1), Up(a, 1)) /\ IsSeq(<<Mark("negate")>>)
    BY <2>2, <2>3, WalkOne
  <2> QED
    BY <2>1, <2>4, <2>5, WalkOn
<1> QED
  BY <1>1, <1>2

LEMMA OperatorsWalk ==
    ASSUME NEW a \in Level, Above(a, 1), NEW hi \in 0..4, NEW lo \in 1..5
    PROVE  Walk(parse_operators(hi, lo), a, a) /\ IsSeq(parse_operators(hi, lo))
<1>1. CASE ~ \E op \in Operators : op[1] = type /\ op[2] \in lo..hi
  BY <1>1, WalkNone DEF parse_operators, IsSeq
<1>2. CASE \E op \in Operators : op[1] = type /\ op[2] \in lo..hi
  <2> DEFINE op == CHOOSE o \in Operators : o[1] = type
  <2> DEFINE tail == <<Emit("binary", <<op[3]>>), Binary(op[2], lo)>>
  <2>1. op \in Operators
    BY <1>2
  <2>2. op[2] \in 1..4
    <3>1. \A o \in Operators : o[2] \in 1..4
      BY DEF Operators
    <3> QED
      BY <2>1, <3>1
  <2>3. parse_operators(hi, lo) = (<<Take(type)>> \o parse_binary(op[2] + 1)) \o tail
    BY <1>2 DEF parse_operators, OperandLevel
  <2> HIDE DEF op
  <2>4. op[2] + 1 \in 1..5 /\ op[2] \in 0..4
    BY <2>2
  <2>5. Up(a, 1) \in Level /\ Up(Up(a, 1), -1) = a /\ Above(a, 0) /\ Above(Up(a, 1), 2)
    BY UpOne
  <2>6. Walk(parse_binary(op[2] + 1), a, Up(a, 1)) /\ IsSeq(parse_binary(op[2] + 1))
    BY <2>4, <2>5, CompareWalk
  <2>7. GoalActs(a, Take(type), a)
    BY TakeActs
  <2>8. LET w == <<Take(type)>> \o parse_binary(op[2] + 1) IN Walk(w, a, Up(a, 1)) /\ IsSeq(w)
    BY <2>6, <2>7, WalkThen
  <2>9. GoalActs(Up(a, 1), Emit("binary", <<op[3]>>), a) /\ GoalActs(a, Binary(op[2], lo), a)
    BY <2>4, <2>5, OperandActs, EmitActs, RuleActs
  <2>10. Walk(tail, Up(a, 1), a) /\ IsSeq(tail)
    BY <2>5, <2>9, WalkTwo
  <2> HIDE DEF tail
  <2> QED
    BY <2>3, <2>8, <2>10, WalkOn
<1> QED
  BY <1>1, <1>2

\* A token, an expression, and the event that uses it.
LEMMA UseWalk ==
    ASSUME NEW a \in Level, NEW b \in Level, Above(a, 0), NEW token_type, NEW kind, NEW text,
           Acts(Up(a, 1), kind, b)
    PROVE  LET w == <<Take(token_type)>> \o parse_compare \o <<Emit(kind, text)>>
           IN Walk(w, a, b) /\ IsSeq(w)
<1>1. GoalActs(a, Take(token_type), a) /\ GoalActs(Up(a, 1), Emit(kind, text), b) /\ Up(a, 1) \in Level
  BY TakeActs, EmitActs, UpOne
<1>2. Walk(parse_compare, a, Up(a, 1)) /\ IsSeq(parse_compare)
  BY CompareWalk DEF parse_compare
<1>3. LET w == <<Take(token_type)>> \o parse_compare IN Walk(w, a, Up(a, 1)) /\ IsSeq(w)
  BY <1>1, <1>2, WalkThen
<1>4. Walk(<<Emit(kind, text)>>, Up(a, 1), b) /\ IsSeq(<<Emit(kind, text)>>)
  BY <1>1, WalkOne
<1> QED
  BY <1>3, <1>4, WalkOn

LEMMA AssignWalk ==
    ASSUME NEW a \in Level, Statement(a, 1)
    PROVE  Walk(parse_assign, a, a) /\ IsSeq(parse_assign)
<1>1. CASE type # "oper_assign"
  BY <1>1, WalkNone DEF parse_assign, IsSeq
<1>2. CASE type = "oper_assign"
  <2>1. Up(Up(a, 1), -1) = a /\ Above(a, 0) /\ Statement(Up(a, 1), 2)
    BY UpOne
  <2>2. Acts(Up(a, 1), "assign", a)
    BY <2>1, OperandActs
  <2> QED
    BY <1>2, <2>1, <2>2, UseWalk DEF parse_assign, Mark
<1> QED
  BY <1>1, <1>2

LEMMA ItemsWalk ==
    ASSUME NEW a \in Level, NEW close, NEW item, Item(a, item)
    PROVE  Walk(parse_items(close, item), a, a) /\ IsSeq(parse_items(close, item))
<1>1. Walk(item, a, a) /\ IsSeq(item) /\ Walk(<<>>, a, a) /\ IsSeq(<<>>)
  BY ItemWalk, WalkNone DEF IsSeq
<1>2. Walk(<<More(item)>>, a, a) /\ IsSeq(<<More(item)>>)
  BY RuleActs, WalkOne
<1>3. LET w == IF type = close THEN <<>> ELSE item IN Walk(w, a, a) /\ IsSeq(w)
  BY <1>1
<1> QED
  BY <1>2, <1>3, WalkOn DEF parse_items

LEMMA MoreWalk ==
    ASSUME NEW a \in Level, NEW item, Item(a, item)
    PROVE  Walk(parse_more(item), a, a) /\ IsSeq(parse_more(item))
<1>1. CASE type # "comma"
  BY <1>1, WalkNone DEF parse_more, IsSeq
<1>2. CASE type = "comma"
  <2>1. GoalActs(a, Take("comma"), a) /\ Walk(item, a, a) /\ IsSeq(item)
    BY TakeActs, ItemWalk
  <2>2. LET w == <<Take("comma")>> \o item IN Walk(w, a, a) /\ IsSeq(w)
    BY <2>1, WalkThen
  <2>3. Walk(<<More(item)>>, a, a) /\ IsSeq(<<More(item)>>)
    BY RuleActs, WalkOne
  <2> QED
    BY <1>2, <2>2, <2>3, WalkOn DEF parse_more
<1> QED
  BY <1>1, <1>2

LEMMA DefinitionWalk ==
    ASSUME NEW a \in Level, Statement(a, 0)
    PROVE  Walk(parse_definition, a, a) /\ IsSeq(parse_definition)
<1> DEFINE head == <<Take("identifier"), Take("oper_assign")>>
<1>1. Up(a, 1) \in Level /\ Up(Up(a, 1), -1) = a /\ Above(a, 0) /\ Statement(Up(a, 1), 1)
  BY UpOne
<1>2. GoalActs(Up(a, 1), Emit("def", m_current.text), a)
  BY <1>1, OperandActs, EmitActs
<1>3. LET w == <<Emit("def", m_current.text)>> IN Walk(w, Up(a, 1), a) /\ IsSeq(w)
  BY <1>1, <1>2, WalkOne
<1>4. Walk(head, a, a) /\ IsSeq(head)
  BY TakeActs, WalkTwo
<1>5. Walk(parse_compare, a, Up(a, 1)) /\ IsSeq(parse_compare)
  BY <1>1, CompareWalk DEF parse_compare
<1>6. parse_definition = (head \o parse_compare) \o <<Emit("def", m_current.text)>>
  BY DEF parse_definition
<1> HIDE DEF head
<1>7. Walk(head \o parse_compare, a, Up(a, 1)) /\ IsSeq(head \o parse_compare)
  BY <1>4, <1>5, WalkOn
<1> QED
  BY <1>3, <1>6, <1>7, WalkOn

LEMMA DestructureWalk ==
    ASSUME NEW a \in Level, Statement(a, 0)
    PROVE  Walk(parse_destructure, a, a) /\ IsSeq(parse_destructure)
<1> DEFINE b == Into(a, "destructure", 0)
<1> DEFINE more == More(<<Named("detup_name")>>)
<1> DEFINE head == <<Mark("destructure"), Take("keyword_detup"), Take("open_bracket"),
                     Named("detup_name"), more, Take("close_bracket"), Take("oper_assign")>>
<1>1. b \in Level /\ Above(b, 0) /\ Up(b, 1) \in Level
  BY IntoFacts, UpOne DEF Brackets
<1>2. GoalActs(a, Mark("destructure"), b) /\ GoalActs(Up(b, 1), Mark("detup"), a)
  BY BracketActs, EmitActs
<1> HIDE DEF b
<1>3. GoalActs(b, Named("detup_name"), b) /\ GoalActs(b, more, b)
  BY RuleActs DEF Item
<1> HIDE DEF more
<1>4. \A t : GoalActs(b, Take(t), b)
  BY TakeActs
<1>5. parse_destructure = (head \o parse_compare) \o <<Mark("detup")>>
  BY DEF parse_destructure, more
<1>6. Walk(head, a, b) /\ IsSeq(head)
  <2>1. LET w == <<Mark("destructure"), Take("keyword_detup")>> IN Walk(w, a, b) /\ IsSeq(w)
    BY <1>1, <1>2, <1>4, WalkTwo
  <2>2. LET w == <<Take("open_bracket"), Named("detup_name")>> IN Walk(w, b, b) /\ IsSeq(w)
    BY <1>1, <1>3, <1>4, WalkTwo
  <2>3. LET w == <<more, Take("close_bracket"), Take("oper_assign")>> IN Walk(w, b, b) /\ IsSeq(w)
    BY <1>1, <1>3, <1>4, WalkThree
  <2>4. head = (<<Mark("destructure"), Take("keyword_detup")>> \o
                <<Take("open_bracket"), Named("detup_name")>>) \o
               <<more, Take("close_bracket"), Take("oper_assign")>>
    OBVIOUS
  <2> HIDE DEF head
  <2>5. LET w == <<Mark("destructure"), Take("keyword_detup")>> \o
                   <<Take("open_bracket"), Named("detup_name")>>
        IN Walk(w, a, b) /\ IsSeq(w)
    BY <2>1, <2>2, WalkOn
  <2> QED
    BY <2>3, <2>4, <2>5, WalkOn
<1> HIDE DEF head
<1>7. Walk(parse_compare, b, Up(b, 1)) /\ IsSeq(parse_compare)
  BY <1>1, CompareWalk DEF parse_compare
<1>8. Walk(<<Mark("detup")>>, Up(b, 1), a) /\ IsSeq(<<Mark("detup")>>)
  BY <1>1, <1>2, WalkOne
<1>9. Walk(head \o parse_compare, a, Up(b, 1)) /\ IsSeq(head \o parse_compare)
  BY <1>6, <1>7, WalkOn
<1> QED
  BY <1>5, <1>8, <1>9, WalkOn

\* A condition and the event behind it.
LEMMA ConditionWalk ==
    ASSUME NEW a \in Level, Statement(a, 0), NEW token_type,
           NEW first \in {"if", "while"}, NEW second \in {"then", "do"}
    PROVE  LET w == <<Mark(first), Take(token_type)>> \o parse_compare \o <<Mark(second)>>
           IN Walk(w, a, a) /\ IsSeq(w)
<1> DEFINE head == <<Mark(first), Take(token_type)>>
<1>1. /\ Up(a, 1) \in Level /\ Up(Up(a, 1), -1) = a /\ Above(a, 0) /\ Statement(Up(a, 1), 1)
      /\ Up(a, 0) = a
  BY UpOne, LevelFacts
<1>2. GoalActs(Up(a, 1), Mark(second), a) /\ GoalActs(a, Mark(first), a)
  BY <1>1, OperandActs, EmitActs
<1>3. Walk(<<Mark(second)>>, Up(a, 1), a) /\ IsSeq(<<Mark(second)>>)
  BY <1>1, <1>2, WalkOne
<1>4. Walk(head, a, a) /\ IsSeq(head)
  BY <1>2, TakeActs, WalkTwo
<1>5. Walk(parse_compare, a, Up(a, 1)) /\ IsSeq(parse_compare)
  BY <1>1, CompareWalk DEF parse_compare
<1> HIDE DEF head
<1>7. Walk(head \o parse_compare, a, Up(a, 1)) /\ IsSeq(head \o parse_compare)
  BY <1>4, <1>5, WalkOn
<1>8. LET w == (head \o parse_compare) \o <<Mark(second)>> IN Walk(w, a, a) /\ IsSeq(w)
  BY <1>3, <1>7, WalkOn
<1> QED
  BY <1>8 DEF head

LEMMA IfWalk ==
    ASSUME NEW a \in Level, Statement(a, 0)
    PROVE  Walk(parse_if, a, a) /\ IsSeq(parse_if)
<1> DEFINE u == <<Mark("if"), Take("keyword_if")>> \o parse_compare \o <<Mark("then")>>
<1> DEFINE v == <<Rule("else"), Mark("end")>>
<1>1. Walk(u, a, a) /\ IsSeq(u)
  BY ConditionWalk
<1>2. Walk(parse_block, a, a) /\ IsSeq(parse_block)
  BY BlockWalk
<1>3. Walk(v, a, a) /\ IsSeq(v)
  <2>1. GoalActs(a, Rule("else"), a) /\ GoalActs(a, Mark("end"), a)
    <3>1. Up(a, 0) = a
      BY LevelFacts
    <3> QED
      BY <3>1, RuleActs, OperandActs, EmitActs
  <2> QED
    BY <2>1, WalkTwo
<1>4. parse_if = (u \o parse_block) \o v
  BY DEF parse_if
<1> HIDE DEF u, v
<1>5. Walk(u \o parse_block, a, a) /\ IsSeq(u \o parse_block)
  BY <1>1, <1>2, WalkOn
<1> QED
  BY <1>3, <1>4, <1>5, WalkOn

LEMMA WhileWalk ==
    ASSUME NEW a \in Level, Statement(a, 0)
    PROVE  Walk(parse_while, a, a) /\ IsSeq(parse_while)
<1> DEFINE u == <<Mark("while"), Take("keyword_while")>> \o parse_compare \o <<Mark("do")>>
<1> DEFINE v == <<Mark("end")>>
<1>1. Walk(u, a, a) /\ IsSeq(u)
  BY ConditionWalk
<1>2. Walk(parse_block, a, a) /\ IsSeq(parse_block)
  BY BlockWalk
<1>3. Walk(v, a, a) /\ IsSeq(v)
  <2>1. Up(a, 0) = a
    BY LevelFacts
  <2>2. GoalActs(a, Mark("end"), a)
    BY <2>1, OperandActs, EmitActs
  <2> QED
    BY <2>2, WalkOne
<1>4. parse_while = (u \o parse_block) \o v
  BY DEF parse_while
<1> HIDE DEF u, v
<1>5. Walk(u \o parse_block, a, a) /\ IsSeq(u \o parse_block)
  BY <1>1, <1>2, WalkOn
<1> QED
  BY <1>3, <1>4, <1>5, WalkOn

LEMMA ElseWalk ==
    ASSUME NEW a \in Level, Statement(a, 0)
    PROVE  Walk(parse_else, a, a) /\ IsSeq(parse_else)
<1>1. CASE type # "keyword_else"
  BY <1>1, WalkNone DEF parse_else, IsSeq
<1>2. CASE type = "keyword_else"
  <2> DEFINE head == <<Mark("else"), Take(type)>>
  <2>1. parse_else = head \o parse_block
    BY <1>2 DEF parse_else
  <2>2. Up(a, 0) = a
    BY LevelFacts
  <2>3. GoalActs(a, Mark("else"), a) /\ GoalActs(a, Take(type), a)
    BY <2>2, OperandActs, EmitActs, TakeActs
  <2>4. Walk(head, a, a) /\ IsSeq(head)
    BY <2>3, WalkTwo
  <2> HIDE DEF head
  <2> QED
    BY <2>1, <2>4, BlockWalk, WalkOn
<1> QED
  BY <1>1, <1>2

LEMMA StmtWalk ==
    ASSUME NEW a \in Level, Statement(a, 0)
    PROVE  Walk(parse_stmt, a, a) /\ IsSeq(parse_stmt)
<1>0. /\ \A t : GoalActs(a, Take(t), a)
      /\ Up(a, 1) \in Level /\ Up(Up(a, 1), -1) = a /\ Above(a, 0) /\ Statement(Up(a, 1), 1)
      /\ Up(a, 0) = a
  BY TakeActs, UpOne, LevelFacts
<1>1. CASE type = "keyword_def"
  <2>1. parse_stmt = <<Take(type), Rule("definition")>>
    BY <1>1 DEF parse_stmt
  <2> QED
    BY <1>0, <2>1, RuleActs, WalkTwo
<1>2. CASE type = "keyword_detup"
  <2>1. parse_stmt = parse_destructure
    BY <1>2 DEF parse_stmt
  <2> QED
    BY <2>1, DestructureWalk
<1>3. CASE type = "keyword_if"
  <2>1. parse_stmt = parse_if
    BY <1>3 DEF parse_stmt
  <2> QED
    BY <2>1, IfWalk
<1>4. CASE type = "keyword_return"
  <2>1. parse_stmt = <<Take(type)>> \o parse_compare \o <<Emit("return", <<>>)>>
    BY <1>4 DEF parse_stmt, Mark
  <2>2. Acts(Up(a, 1), "return", a)
    BY <1>0, OperandActs
  <2> QED
    BY <1>0, <2>1, <2>2, UseWalk
<1>5. CASE type = "keyword_while"
  <2>1. parse_stmt = parse_while
    BY <1>5 DEF parse_stmt
  <2> QED
    BY <2>1, WhileWalk
<1>6. CASE type = "keyword_break"
  <2>1. parse_stmt = <<Mark("break"), Take(type)>>
    BY <1>6 DEF parse_stmt
  <2>2. GoalActs(a, Mark("break"), a)
    BY <1>0, OperandActs, EmitActs
  <2> QED
    BY <1>0, <2>1, <2>2, WalkTwo
<1>7. CASE type \notin {"keyword_def", "keyword_detup", "keyword_if", "keyword_return",
                        "keyword_while", "keyword_break"}
  <2>1. parse_stmt = <<Rule("unary"), Rule("assign"), Mark("expression")>>
    BY <1>7 DEF parse_stmt
  <2>2. /\ GoalActs(a, Rule("unary"), Up(a, 1)) /\ GoalActs(Up(a, 1), Rule("assign"), Up(a, 1))
        /\ GoalActs(Up(a, 1), Mark("expression"), a)
    BY <1>0, RuleActs, OperandActs, EmitActs
  <2> QED
    BY <1>0, <2>1, <2>2, WalkThree
<1> QED
  BY <1>1, <1>2, <1>3, <1>4, <1>5, <1>6, <1>7

LEMMA StmtsWalk ==
    ASSUME NEW a \in Level, Statement(a, 0)
    PROVE  Walk(parse_stmts, a, a) /\ IsSeq(parse_stmts)
<1>1. CASE type = "eof"
  BY <1>1, WalkNone DEF parse_stmts, IsSeq
<1>2. CASE type = "close_brace"
  <2>1. parse_stmts = <<Take(type)>>
    BY <1>2 DEF parse_stmts
  <2> QED
    BY <2>1, TakeActs, WalkOne
<1>3. CASE type \notin {"eof", "close_brace"}
  <2>1. parse_stmts = parse_stmt \o <<Rule("stmts")>>
    BY <1>3 DEF parse_stmts
  <2>2. Walk(<<Rule("stmts")>>, a, a) /\ IsSeq(<<Rule("stmts")>>)
    BY RuleActs, WalkOne
  <2> QED
    BY <2>1, <2>2, StmtWalk, WalkOn
<1> QED
  BY <1>1, <1>2, <1>3

LEMMA SignatureWalk ==
    ASSUME NEW a \in Level
    PROVE  Walk(parse_signature, a, a) /\ IsSeq(parse_signature)
<1> DEFINE items == Items("close_bracket", <<TakeAs("identifier", "params")>>)
<1>1. GoalActs(a, items, a)
  BY RuleActs DEF Item
<1>2. parse_signature =
        <<Take("keyword_fun"), TakeAs("identifier", "name"), Take("colon")>> \o
        <<Take("open_bracket"), items, Take("close_bracket")>>
  BY SixJoined DEF parse_signature, items
<1> HIDE DEF items
<1>3. LET w == <<Take("keyword_fun"), TakeAs("identifier", "name"), Take("colon")>>
      IN Walk(w, a, a) /\ IsSeq(w)
  BY TakeActs, WalkThree
<1>4. LET w == <<Take("open_bracket"), items, Take("close_bracket")>> IN Walk(w, a, a) /\ IsSeq(w)
  BY <1>1, TakeActs, WalkThree
<1> QED
  BY <1>2, <1>3, <1>4, WalkOn

\* Every rule comes to goals that lead where it was to lead.
LEMMA ExpansionWalk ==
    ASSUME NEW a \in Level, NEW b \in Level, GoalActs(a, goal, b),
           goal[1] \notin {"emit", "take"}, goal[1] = "primary" => BeginsPrimary
    PROVE  Walk(Expansion, a, b) /\ IsSeq(Expansion)
<1>1. CASE goal[1] = "named" /\ goal[2] \in {"parameter", "detup_name"} /\ b = a
  <2>1. Expansion = <<Emit(goal[2], m_current.text), Take("identifier")>>
    BY <1>1 DEF Expansion
  <2>2. Up(a, 0) = a
    BY LevelFacts
  <2>3. Acts(a, goal[2], a)
    BY <1>1, <2>2, OperandActs
  <2>4. GoalActs(a, Emit(goal[2], m_current.text), a) /\ GoalActs(a, Take("identifier"), a)
    BY <2>3, EmitActs, TakeActs
  <2> QED
    BY <1>1, <2>1, <2>4, WalkTwo
<1>2. CASE goal[1] = "primary" /\ Above(a, 0) /\ Moves(a, b, 1)
  <2>1. Expansion = parse_primary
    BY <1>2 DEF Expansion
  <2> QED
    BY <1>2, <2>1, PrimaryWalk DEF Moves
<1>3. CASE goal[1] = "unary" /\ Above(a, 0) /\ Moves(a, b, 1)
  <2>1. Expansion = parse_unary
    BY <1>3 DEF Expansion
  <2> QED
    BY <1>3, <2>1, UnaryWalk DEF Moves
<1>4. CASE goal[1] = "access" /\ Above(a, 1) /\ b = a
  <2>1. Expansion = parse_access
    BY <1>4 DEF Expansion
  <2> QED
    BY <1>4, <2>1, AccessWalk
<1>5. CASE goal[1] = "call" /\ Above(a, 1) /\ b = a
  <2>1. Expansion = parse_arguments
    BY <1>5 DEF Expansion
  <2> QED
    BY <1>5, <2>1, ArgumentsWalk
<1>6. CASE goal[1] = "binary" /\ goal[2] \in 0..4 /\ goal[3] \in 1..5 /\ Above(a, 1) /\ b = a
  <2>1. Expansion = parse_operators(goal[2], goal[3])
    BY <1>6 DEF Expansion
  <2> QED
    BY <1>6, <2>1, OperatorsWalk
<1>7. CASE goal[1] = "assign" /\ Statement(a, 1) /\ b = a
  <2>1. Expansion = parse_assign
    BY <1>7 DEF Expansion
  <2> QED
    BY <1>7, <2>1, AssignWalk
<1>8. CASE goal[1] = "definition" /\ Statement(a, 0) /\ b = a
  <2>1. Expansion = parse_definition
    BY <1>8 DEF Expansion
  <2> QED
    BY <1>8, <2>1, DefinitionWalk
<1>9. CASE goal[1] = "stmts" /\ Statement(a, 0) /\ b = a
  <2>1. Expansion = parse_stmts
    BY <1>9 DEF Expansion
  <2> QED
    BY <1>9, <2>1, StmtsWalk
<1>10. CASE goal[1] = "else" /\ Statement(a, 0) /\ b = a
  <2>1. Expansion = parse_else
    BY <1>10 DEF Expansion
  <2> QED
    BY <1>10, <2>1, ElseWalk
<1>11. CASE goal[1] = "items" /\ Item(a, goal[3]) /\ b = a
  <2>1. Expansion = parse_items(goal[2], goal[3])
    BY <1>11 DEF Expansion
  <2> QED
    BY <1>11, <2>1, ItemsWalk
<1>12. CASE goal[1] = "more" /\ Item(a, goal[2]) /\ b = a
  <2>1. Expansion = parse_more(goal[2])
    BY <1>12 DEF Expansion
  <2> QED
    BY <1>12, <2>1, MoreWalk
<1> QED
  BY <1>1, <1>2, <1>3, <1>4, <1>5, <1>6, <1>7, <1>8, <1>9, <1>10, <1>11, <1>12 DEF GoalActs

Kinds == {"import", "native", "function"}
Ending(kind) == <<Declare(kind), Rule("program")>>

LEMMA EndingSeq == ASSUME NEW kind PROVE IsSeq(Ending(kind)) /\ Len(Ending(kind)) = 2
<1>1. Ending(kind) \in Seq({Declare(kind), Rule("program")})
  BY DEF Ending
<1>2. Len(Ending(kind)) = 2
  BY DEF Ending
<1> QED
  BY <1>1, <1>2 DEF IsSeq

LEMMA EndingFacts ==
    ASSUME NEW kind
    PROVE  /\ Ending(kind)[1] = <<"declare", kind>> /\ Ending(kind)[2] = <<"program">>
           /\ Tail(Ending(kind)) = <<Rule("program")>>
<1>1. Ending(kind)[1] = <<"declare", kind>> /\ Ending(kind)[2] = <<"program">>
  BY DEF Ending, Declare, Rule
<1>2. Tail(Ending(kind)) = <<Rule("program")>>
  BY DEF Ending
<1> QED
  BY <1>1, <1>2

LEMMA EndingJoined ==
    ASSUME NEW kind, NEW w, IsSeq(w)
    PROVE  /\ IsSeq(w \o Ending(kind)) /\ Len(w \o Ending(kind)) = Len(w) + 2
           /\ \A i \in 1..Len(w) : (w \o Ending(kind))[i] = w[i]
           /\ \A i \in 1..2 : (w \o Ending(kind))[Len(w) + i] = Ending(kind)[i]
<1> DEFINE t == Ending(kind)
<1>1. Len(t) = 2
  BY EndingSeq
<1>0. IsSeq(t)
  BY EndingSeq
<1> HIDE DEF t
<1>2. /\ IsSeq(w \o t) /\ Len(w \o t) = Len(w) + Len(t)
      /\ \A i \in 1..Len(w) : (w \o t)[i] = w[i]
      /\ \A i \in 1..Len(t) : (w \o t)[Len(w) + i] = t[i]
  BY <1>0, SeqCat
<1>3. /\ IsSeq(w \o t) /\ Len(w \o t) = Len(w) + 2
      /\ \A i \in 1..Len(w) : (w \o t)[i] = w[i]
      /\ \A i \in 1..2 : (w \o t)[Len(w) + i] = t[i]
  BY <1>1, <1>2
<1> QED
  BY <1>3 DEF t

\* A declaration comes to its signature and body, and then it is complete.
LEMMA ProgramWalk ==
    ASSUME BeginsDeclaration
    PROVE  \E kind \in Kinds : \E w :
              /\ IsSeq(w) /\ Walk(w, Ground, Ground)
              /\ parse_program = w \o Ending(kind)
<1>0. Ground \in Level /\ Statement(Ground, 0)
  <2>1. Ground \in Level
    <3>1. <<>> \in Seq(Brackets \X Nat)
      OBVIOUS
    <3> QED
      BY <3>1 DEF Ground, Level
  <2> QED
    BY <2>1 DEF Ground, Statement, Exactly, Floor
<1>1. CASE type = "keyword_import"
  <2> DEFINE w == <<Take(type), TakeAs("literal_string", "import")>>
  <2>1. parse_program = <<Take(type), TakeAs("literal_string", "import"), Declare("import"), Rule("program")>>
    BY <1>1 DEF parse_program
  <2>2. parse_program = w \o Ending("import")
    BY <2>1 DEF Ending
  <2>3. Walk(w, Ground, Ground) /\ IsSeq(w)
    BY <1>0, TakeActs, WalkTwo
  <2> QED
    BY <2>2, <2>3 DEF Kinds
<1>2. CASE type = "keyword_native"
  <2> DEFINE w == <<Take(type)>> \o parse_signature
  <2>1. parse_program = w \o Ending("native")
    BY <1>2 DEF parse_program, Ending
  <2>2. GoalActs(Ground, Take(type), Ground)
    BY TakeActs
  <2>3. Walk(w, Ground, Ground) /\ IsSeq(w)
    BY <1>0, <2>2, SignatureWalk, WalkThen
  <2> QED
    BY <2>1, <2>3 DEF Kinds
<1>3. CASE type = "keyword_fun"
  <2> DEFINE u == parse_signature \o <<Take("arrow")>>
  <2> DEFINE w == u \o parse_block
  <2>1. parse_program = w \o Ending("function")
    BY <1>3 DEF parse_program, Ending
  <2>2. Walk(<<Take("arrow")>>, Ground, Ground) /\ IsSeq(<<Take("arrow")>>)
    BY <1>0, TakeActs, WalkOne
  <2>3. Walk(u, Ground, Ground) /\ IsSeq(u)
    BY <1>0, <2>2, SignatureWalk, WalkOn
  <2> HIDE DEF u
  <2>4. Walk(w, Ground, Ground) /\ IsSeq(w)
    BY <1>0, <2>3, BlockWalk, WalkOn
  <2> QED
    BY <2>1, <2>4 DEF Kinds
<1> QED
  BY <1>1, <1>2, <1>3 DEF BeginsDeclaration

-----------------------------------------------------------------------------
(* Events that are due at once *)

\* A body that goes on with more events.
LEMMA LeadsOn ==
    ASSUME NEW s, NEW m, Leads(s, m), NEW e, IsSeq(e), NEW h \in [0..Len(e) -> Level], h[0] = m,
           \A i \in 1..Len(e) : e[i] = <<e[i][1], e[i][2]>> /\ Acts(h[i - 1], e[i][1], h[i])
    PROVE  Leads(s \o e, h[Len(e)])
<1> DEFINE p == Len(s)
<1> DEFINE n == Len(e)
<1> DEFINE w == s \o e
<1>0. IsSeq(s)
  BY DEF Leads
<1>1. p \in Nat /\ n \in Nat
  BY <1>0, SeqFacts
<1>2. /\ IsSeq(w) /\ Len(w) = p + n
      /\ \A i \in 1..p : w[i] = s[i]
      /\ \A i \in 1..n : w[p + i] = e[i]
  BY <1>0, SeqCat
<1>3. PICK f \in [0..p -> Level] :
        f[0] = Ground /\ f[p] = m
        /\ \A i \in 1..p : s[i] = <<s[i][1], s[i][2]>> /\ Acts(f[i - 1], s[i][1], f[i])
  BY DEF Leads
<1>4. /\ h \in [0..n -> Level] /\ h[0] = m
      /\ \A i \in 1..n : e[i] = <<e[i][1], e[i][2]>> /\ Acts(h[i - 1], e[i][1], h[i])
  OBVIOUS
<1> HIDE DEF w, p, n
<1> DEFINE k == [i \in 0..(p + n) |-> IF i <= p THEN f[i] ELSE h[i - p]]
<1>5. k \in [0..(p + n) -> Level]
  <2>1. ASSUME NEW i \in 0..(p + n) PROVE (IF i <= p THEN f[i] ELSE h[i - p]) \in Level
    <3>1. CASE i <= p
      BY <1>1, <1>3, <3>1
    <3>2. CASE ~ (i <= p)
      <4>1. i - p \in 0..n
        BY <1>1, <3>2
      <4> QED
        BY <1>4, <3>2, <4>1
    <3> QED
      BY <3>1, <3>2
  <2> QED
    BY <2>1
<1>6. \A i \in 0..p : k[i] = f[i]
  BY <1>1
<1>7. \A i \in 0..n : k[p + i] = h[i]
  <2> TAKE i \in 0..n
  <2>1. CASE i = 0
    <3>1. p + i = p /\ p \in 0..p
      BY <1>1, <2>1
    <3> QED
      BY <1>3, <1>4, <1>6, <2>1, <3>1
  <2>2. CASE i # 0
    <3>1. p + i \in 0..(p + n) /\ ~ (p + i <= p) /\ (p + i) - p = i
      BY <1>1, <2>2
    <3> QED
      BY <3>1
  <2> QED
    BY <2>1, <2>2
<1> HIDE DEF k
<1>8. k[0] = Ground /\ k[p + n] = h[n]
  <2>1. 0 \in 0..p /\ n \in 0..n
    BY <1>1
  <2> QED
    BY <1>3, <1>6, <1>7, <2>1
<1>9. ASSUME NEW i \in 1..(p + n) PROVE w[i] = <<w[i][1], w[i][2]>> /\ Acts(k[i - 1], w[i][1], k[i])
  <2>1. CASE i <= p
    <3>1. i \in 1..p /\ i - 1 \in 0..p /\ i \in 0..p
      BY <1>1, <2>1
    <3> QED
      BY <1>2, <1>3, <1>6, <3>1
  <2>2. CASE i > p
    <3> DEFINE l == i - p
    <3>1. l \in 1..n /\ i = p + l /\ l - 1 \in 0..n /\ l \in 0..n /\ i - 1 = p + (l - 1)
      BY <1>1, <2>2
    <3> HIDE DEF l
    <3>2. k[i - 1] = h[l - 1] /\ k[i] = h[l] /\ w[i] = e[l]
      BY <1>2, <1>7, <3>1
    <3> QED
      BY <1>4, <3>1, <3>2
  <2> QED
    BY <1>1, <2>1, <2>2
<1>10. Leads(w, h[n])
  BY <1>2, <1>5, <1>8, <1>9 DEF Leads
<1> QED
  BY <1>10 DEF w, n

\* The parser is inside a declaration: its events so far and the goals to come lead
\* from the ground to the ground.
InsideAs(gs, d, kind, m, w) ==
    /\ gs = w \o Ending(kind) /\ IsSeq(w) /\ (w # <<>> => w[1][1] # "emit")
    /\ Leads(d.body, m) /\ Walk(w, m, Ground)
Inside(gs, d) == \E kind \in Kinds : \E m \in Level : \E w : InsideAs(gs, d, kind, m, w)

\* Events that are due go to the body, and the parser stays inside the declaration.
LEMMA ContinueKeeps ==
    ASSUME NEW kind \in Kinds, NEW m \in Level, NEW v, IsSeq(v), Walk(v, m, Ground),
           NEW d, d = [kind |-> d.kind, name |-> d.name, params |-> d.params, body |-> d.body],
           Leads(d.body, m), Continue(v \o Ending(kind), d)
    PROVE  /\ Inside(goals', draft')
           /\ draft' = [kind |-> draft'.kind, name |-> draft'.name, params |-> draft'.params,
                        body |-> draft'.body]
<1> DEFINE gs == v \o Ending(kind)
<1> DEFINE L == Len(v)
<1>1. L \in Nat
  BY SeqFacts
<1>2. /\ IsSeq(gs) /\ Len(gs) = L + 2
      /\ \A i \in 1..L : gs[i] = v[i]
      /\ \A i \in 1..2 : gs[L + i] = Ending(kind)[i]
  BY EndingJoined
<1>3. gs[L + 1][1] # "emit" /\ gs[L + 1] = Ending(kind)[1] /\ gs[L + 2] = Ending(kind)[2]
  BY <1>1, <1>2, EndingFacts
<1> DEFINE P(k) == /\ \A i \in 1..k : gs[i][1] = "emit"
                   /\ k < Len(gs) => gs[k + 1][1] # "emit"
<1> DEFINE n == CHOOSE k \in 0..Len(gs) :
                   /\ \A i \in 1..k : gs[i][1] = "emit"
                   /\ k < Len(gs) => gs[k + 1][1] # "emit"
<1>4. /\ goals' = SubSeq(gs, n + 1, Len(gs))
      /\ draft' = [d EXCEPT !.body = @ \o [i \in 1..n |-> <<gs[i][2], gs[i][3]>>]]
  BY DEF Continue
<1> HIDE DEF gs, L
<1>5. \E k \in 0..Len(gs) : P(k)
  <2> DEFINE T == {i \in 1..Len(gs) : gs[i][1] # "emit"}
  <2>1. T \in SUBSET Nat /\ L + 1 \in T
    BY <1>1, <1>2, <1>3
  <2>2. PICK x \in T : \A y \in T : x <= y
    <3> HIDE DEF T
    <3> QED
      BY <2>1, Smallest
  <2>3. x - 1 \in 0..Len(gs) /\ (x - 1) + 1 = x /\ \A i \in 1..(x - 1) : i \in 1..Len(gs) /\ ~ (x <= i)
    BY <1>1, <1>2
  <2>4. P(x - 1)
    BY <2>2, <2>3
  <2> QED
    BY <2>3, <2>4
<1>6. n \in 0..Len(gs) /\ P(n)
  BY <1>5
<1> HIDE DEF n
<1>7. n \in 0..L
  <2>1. ~ (L + 1 \in 1..n)
    BY <1>3, <1>6
  <2> QED
    BY <1>1, <1>6, <2>1
<1>8. \A i \in 1..n : v[i][1] = "emit" /\ gs[i] = v[i] /\ i \in 1..L
  <2>1. \A i \in 1..n : i \in 1..L
    BY <1>1, <1>7
  <2> QED
    BY <1>2, <1>6, <2>1
<1>9. n < L => v[n + 1][1] # "emit"
  <2>1. ASSUME n < L PROVE n + 1 \in 1..L /\ n < Len(gs)
    BY <1>1, <1>2, <1>7, <2>1
  <2> QED
    BY <1>2, <1>6, <2>1
<1>10. PICK f \in [0..L -> Level] :
         f[0] = m /\ f[L] = Ground /\ \A i \in 1..L : GoalActs(f[i - 1], v[i], f[i])
  BY DEF Walk, L
<1> DEFINE e == [i \in 1..n |-> <<v[i][2], v[i][3]>>]
<1> DEFINE h == [i \in 0..n |-> f[i]]
<1>11. draft' = [d EXCEPT !.body = @ \o e]
  <2>1. [i \in 1..n |-> <<gs[i][2], gs[i][3]>>] = e
    BY <1>8
  <2> QED
    BY <1>4, <2>1
<1>12. IsSeq(e) /\ Len(e) = n
  <2>1. n \in Nat /\ e = [i \in 1..n |-> e[i]]
    BY <1>1, <1>7
  <2> HIDE DEF e
  <2> QED
    BY <2>1, SeqOfMany
<1>13. h \in [0..n -> Level] /\ h[0] = m /\ h[n] = f[n] /\ f[n] \in Level
  BY <1>1, <1>7, <1>10
<1>14. ASSUME NEW i \in 1..n PROVE e[i] = <<e[i][1], e[i][2]>> /\ Acts(h[i - 1], e[i][1], h[i])
  <2>1. i \in 1..L /\ i - 1 \in 0..n /\ i \in 0..n
    BY <1>1, <1>7
  <2>2. GoalActs(f[i - 1], v[i], f[i]) /\ v[i][1] = "emit"
    BY <1>8, <1>10, <2>1
  <2>3. Acts(f[i - 1], v[i][2], f[i])
    BY <2>2 DEF GoalActs
  <2>4. e[i] = <<v[i][2], v[i][3]>> /\ h[i - 1] = f[i - 1] /\ h[i] = f[i]
    BY <2>1
  <2> QED
    BY <2>3, <2>4
<1>15. Leads(d.body \o e, f[n])
  <2> HIDE DEF e, h
  <2> QED
    BY <1>12, <1>13, <1>14, LeadsOn
<1> DEFINE w == SubSeq(v, n + 1, L)
<1>16. IsSeq(w) /\ Len(w) = L - n /\ \A i \in 1..(L - n) : w[i] = v[n + i]
  <2>1. IsSeq(v) /\ n + 1 \in 1..(Len(v) + 1) /\ L \in ((n + 1) - 1)..Len(v)
    BY <1>1, <1>7 DEF L
  <2>2. IsSeq(w) /\ Len(w) = L - (n + 1) + 1 /\ \A i \in 1..(L - (n + 1) + 1) : w[i] = v[(n + 1) + i - 1]
    BY <2>1, SeqPart
  <2>3. L - (n + 1) + 1 = L - n /\ \A i \in 1..(L - n) : (n + 1) + i - 1 = n + i
    BY <1>1, <1>7
  <2> QED
    BY <2>2, <2>3
<1>17. goals' = w \o Ending(kind)
  <2> DEFINE g == SubSeq(gs, n + 1, Len(gs))
  <2>1. IsSeq(g) /\ Len(g) = L + 2 - n /\ \A i \in 1..(L + 2 - n) : g[i] = gs[n + i]
    <3>1. IsSeq(gs) /\ n + 1 \in 1..(Len(gs) + 1) /\ Len(gs) \in ((n + 1) - 1)..Len(gs)
      BY <1>1, <1>2, <1>7
    <3>2. /\ IsSeq(g) /\ Len(g) = Len(gs) - (n + 1) + 1
          /\ \A i \in 1..(Len(gs) - (n + 1) + 1) : g[i] = gs[(n + 1) + i - 1]
      BY <3>1, SeqPart
    <3>3. Len(gs) - (n + 1) + 1 = L + 2 - n /\ \A i \in 1..(L + 2 - n) : (n + 1) + i - 1 = n + i
      BY <1>1, <1>2, <1>7
    <3> QED
      BY <3>2, <3>3
  <2> HIDE DEF w, g
  <2>2. /\ IsSeq(w \o Ending(kind)) /\ Len(w \o Ending(kind)) = L - n + 2
        /\ \A i \in 1..(L - n) : (w \o Ending(kind))[i] = w[i]
        /\ \A i \in 1..2 : (w \o Ending(kind))[L - n + i] = Ending(kind)[i]
    BY <1>16, EndingJoined
  <2>3. ASSUME NEW i \in 1..(L + 2 - n) PROVE g[i] = (w \o Ending(kind))[i]
    <3>1. CASE i <= L - n
      <4>1. i \in 1..(L - n) /\ n + i \in 1..L
        BY <1>1, <1>7, <3>1
      <4> QED
        BY <1>2, <1>16, <2>1, <2>2, <4>1
    <3>2. CASE i > L - n
      <4> DEFINE k == i - (L - n)
      <4>1. k \in 1..2 /\ i = L - n + k /\ n + i = L + k
        BY <1>1, <1>7, <3>2
      <4> HIDE DEF k
      <4> QED
        BY <1>2, <2>1, <2>2, <4>1
    <3>3. i <= L - n \/ i > L - n
      BY <1>1, <1>7
    <3> QED
      BY <3>1, <3>2, <3>3
  <2>4. L - n + 2 = L + 2 - n
    BY <1>1, <1>7
  <2>5. g = w \o Ending(kind)
    BY <2>1, <2>2, <2>3, <2>4, SeqSame
  <2> QED
    BY <1>4, <2>5 DEF g
<1>18. w # <<>> => w[1][1] # "emit"
  <2> SUFFICES ASSUME w # <<>> PROVE w[1][1] # "emit"
    OBVIOUS
  <2>1. L - n > 0
    <3> HIDE DEF w
    <3> QED
      BY <1>16, SeqFacts
  <2>2. n < L /\ 1 \in 1..(L - n)
    BY <1>1, <1>7, <2>1
  <2> QED
    BY <1>9, <1>16, <2>2
<1>19. Walk(w, f[n], Ground)
  <2> DEFINE k == [i \in 0..(L - n) |-> f[n + i]]
  <2>1. \A i \in 0..(L - n) : n + i \in 0..L
    BY <1>1, <1>7
  <2>2. k \in [0..(L - n) -> Level]
    BY <1>10, <2>1
  <2>3. k[0] = f[n] /\ k[L - n] = Ground
    <3>1. 0 \in 0..(L - n) /\ L - n \in 0..(L - n) /\ n + 0 = n /\ n + (L - n) = L
      BY <1>1, <1>7
    <3> QED
      BY <1>10, <3>1
  <2>4. ASSUME NEW i \in 1..(L - n) PROVE GoalActs(k[i - 1], w[i], k[i])
    <3>1. n + i \in 1..L /\ i - 1 \in 0..(L - n) /\ i \in 0..(L - n) /\ n + (i - 1) = (n + i) - 1
      BY <1>1, <1>7
    <3>2. k[i - 1] = f[(n + i) - 1] /\ k[i] = f[n + i] /\ w[i] = v[n + i]
      BY <1>16, <3>1
    <3> QED
      BY <1>10, <3>1, <3>2
  <2> HIDE DEF w, k
  <2> QED
    BY <1>16, <2>2, <2>3, <2>4 DEF Walk
<1>20. draft'.body = d.body \o e
  <2> HIDE DEF e
  <2> QED
    BY <1>11
<1>21. InsideAs(goals', draft', kind, f[n], w)
  <2> HIDE DEF w, e
  <2> QED
    BY <1>15, <1>16, <1>17, <1>18, <1>19, <1>20 DEF InsideAs
<1>22. Inside(goals', draft')
  <2> HIDE DEF w
  <2> QED
    BY <1>13, <1>21 DEF Inside
<1>23. draft' = [kind |-> draft'.kind, name |-> draft'.name, params |-> draft'.params,
                 body |-> draft'.body]
  <2> HIDE DEF e
  <2> QED
    BY <1>11
<1> QED
  BY <1>22, <1>23

-----------------------------------------------------------------------------
(* The parser's invariant *)

DeclarationOf(d) == [kind |-> d.kind, name |-> d.name, params |-> d.params, body |-> d.body]
Declared(ds) ==
    /\ IsSeq(ds)
    /\ \A i \in 1..Len(ds) : ds[i].kind \in Kinds /\ Leads(ds[i].body, Ground)

\* Before, between and after the declarations of a unit.
Between ==
    /\ goals \in {<<>>, <<Rule("begin"), Rule("program")>>, <<Rule("program")>>, <<Rule("recover")>>}
    /\ draft = NoDraft

ParserInv ==
    /\ Between \/ Inside(goals, draft)
    /\ draft = DeclarationOf(draft)
    /\ Declared(decls)
    /\ unread = [text |-> unread.text, parts |-> unread.parts, spare |-> unread.spare,
                 ending |-> unread.ending]
    /\ unread.spare \in Nat \cup {-1}
    /\ m_error_count \in Nat

LEMMA GroundFacts == Ground \in Level /\ Leads(<<>>, Ground) /\ Ground.open = <<>> /\ Ground.height = 0
<1>1. Ground \in Level
  <2>1. <<>> \in Seq(Brackets \X Nat)
    OBVIOUS
  <2> QED
    BY <2>1 DEF Ground, Level
<1>2. Leads(<<>>, Ground)
  <2> DEFINE f == [i \in 0..0 |-> Ground]
  <2>1. Len(<<>>) = 0 /\ f \in [0..0 -> Level] /\ f[0] = Ground /\ IsSeq(<<>>)
    BY <1>1, EmptySeq DEF IsSeq
  <2>2. \A i \in 1..0 : FALSE
    OBVIOUS
  <2> QED
    BY <2>1, <2>2 DEF Leads
<1> QED
  BY <1>1, <1>2 DEF Ground

\* No goal inside a declaration is one of those between.
LEMMA GoalTags ==
    ASSUME NEW a, NEW g, NEW b, GoalActs(a, g, b)
    PROVE  g[1] \in Rules \ {"declare", "begin", "recover", "program"}
BY DEF GoalActs, Rules

\* The goal that is next inside a declaration.
LEMMA InsideNext ==
    ASSUME NEW d, Inside(goals, d)
    PROVE  /\ goals # <<>>
           /\ \E kind \in Kinds, m \in Level :
                \/ goals = Ending(kind) /\ goal[1] = "declare" /\ goal[2] = kind /\ m = Ground
                     /\ Leads(d.body, Ground) /\ Tail(goals) = <<Rule("program")>>
                \/ \E w : \E b \in Level :
                     /\ IsSeq(w) /\ Tail(goals) = w \o Ending(kind)
                     /\ goal[1] \notin {"emit", "declare", "begin", "recover", "program"}
                     /\ Leads(d.body, m) /\ GoalActs(m, goal, b) /\ Walk(w, b, Ground)
<1>1. PICK kind \in Kinds, m \in Level : \E w : InsideAs(goals, d, kind, m, w)
  BY DEF Inside
<1>2. PICK w : InsideAs(goals, d, kind, m, w)
  BY <1>1
<1>3. /\ goals = w \o Ending(kind) /\ IsSeq(w) /\ (w # <<>> => w[1][1] # "emit")
      /\ Leads(d.body, m) /\ Walk(w, m, Ground)
  BY <1>2 DEF InsideAs
<1>4. CASE w = <<>>
  <2>1. goals = Ending(kind)
    <3>1. <<>> \o Ending(kind) = Ending(kind)
      BY DEF Ending
    <3> QED
      BY <1>3, <1>4, <3>1
  <2>2. goal[1] = "declare" /\ goal[2] = kind /\ Tail(goals) = <<Rule("program")>>
    BY <2>1, EndingFacts DEF goal
  <2>3. m = Ground
    BY <1>3, <1>4, WalkStays
  <2>4. goals # <<>>
    BY <2>1, EndingSeq, SeqFacts
  <2> QED
    BY <1>3, <2>1, <2>2, <2>3, <2>4
<1>5. CASE w # <<>>
  <2>1. PICK b \in Level : GoalActs(m, w[1], b) /\ Walk(Tail(w), b, Ground)
    BY <1>3, <1>5, WalkFirst
  <2>2. Tail(goals) = Tail(w) \o Ending(kind) /\ goals[1] = w[1] /\ goals # <<>>
    <3>1. IsSeq(Ending(kind))
      BY EndingSeq
    <3> QED
      BY <1>3, <1>5, <3>1, SeqCatRest
  <2>3. IsSeq(Tail(w))
    BY <1>3, <1>5, SeqRest
  <2>4. goal[1] \notin {"emit", "declare", "begin", "recover", "program"}
    BY <1>3, <1>5, <2>1, <2>2, GoalTags DEF goal
  <2> QED
    BY <1>3, <2>1, <2>2, <2>3, <2>4 DEF goal
<1> QED
  BY <1>4, <1>5

\* The goals between declarations.
LEMMA BetweenNext ==
    ASSUME Between, goals # <<>>
    PROVE  /\ goal[1] \in {"begin", "program", "recover"}
           /\ goal[1] = "begin" => Tail(goals) = <<Rule("program")>>
           /\ goal[1] = "program" => goals = <<Rule("program")>> /\ Tail(goals) = <<>>
           /\ draft = NoDraft
<1>1. CASE goals = <<Rule("begin"), Rule("program")>>
  <2>1. goals[1] = <<"begin">> /\ Tail(goals) = <<Rule("program")>>
    BY <1>1 DEF Rule
  <2> QED
    BY <2>1 DEF Between, goal
<1>2. CASE goals = <<Rule("program")>>
  <2>1. goals[1] = <<"program">> /\ Tail(goals) = <<>>
    BY <1>2 DEF Rule
  <2> QED
    BY <1>2, <2>1 DEF Between, goal
<1>3. CASE goals = <<Rule("recover")>>
  <2>1. goals[1] = <<"recover">>
    BY <1>3 DEF Rule
  <2> QED
    BY <2>1 DEF Between, goal
<1> QED
  BY <1>1, <1>2, <1>3 DEF Between

LEMMA ContinueProgram ==
    ASSUME Continue(<<Rule("program")>>, NoDraft)
    PROVE  goals' = <<Rule("program")>> /\ draft' = NoDraft
<1> DEFINE gs == <<Rule("program")>>
<1> DEFINE n == CHOOSE k \in 0..Len(gs) :
                   /\ \A i \in 1..k : gs[i][1] = "emit"
                   /\ k < Len(gs) => gs[k + 1][1] # "emit"
<1>1. Len(gs) = 1 /\ gs[1][1] = "program" /\ gs \in Seq({Rule("program")})
  BY DEF Rule
<1>2. /\ goals' = SubSeq(gs, n + 1, Len(gs))
      /\ draft' = [NoDraft EXCEPT !.body = @ \o [i \in 1..n |-> <<gs[i][2], gs[i][3]>>]]
  BY DEF Continue
<1>3. n = 0
  <2> HIDE DEF gs
  <2>1. 0 \in 0..Len(gs) /\ (\A i \in 1..0 : gs[i][1] = "emit") /\ gs[0 + 1][1] # "emit"
    BY <1>1
  <2>2. n \in 0..1 /\ \A i \in 1..n : gs[i][1] = "emit"
    BY <1>1, <2>1
  <2>3. n # 1
    BY <1>1, <2>2
  <2> QED
    BY <2>2, <2>3
<1> HIDE DEF n
<1>4. goals' = <<Rule("program")>>
  <2>1. goals' = SubSeq(gs, 1, 1) /\ IsSeq(gs) /\ Len(gs) = 1
    <3>1. n + 1 = 1
      BY <1>3
    <3>2. IsSeq(gs)
      BY <1>1 DEF IsSeq
    <3> HIDE DEF gs
    <3> QED
      BY <1>1, <1>2, <3>1, <3>2
  <2> HIDE DEF gs
  <2>2. LET t == SubSeq(gs, 1, 1)
        IN IsSeq(t) /\ Len(t) = 1 /\ \A i \in 1..1 : t[i] = gs[i]
    <3>1. 1 \in 1..(Len(gs) + 1) /\ 1 \in (1 - 1)..Len(gs)
      BY <2>1
    <3>2. LET t == SubSeq(gs, 1, 1)
          IN IsSeq(t) /\ Len(t) = 1 - 1 + 1 /\ \A i \in 1..(1 - 1 + 1) : t[i] = gs[1 + i - 1]
      BY <2>1, <3>1, SeqPart
    <3> QED
      BY <3>2
  <2>3. SubSeq(gs, 1, 1) = gs
    BY <2>1, <2>2, SeqSame
  <2> QED
    BY <2>1, <2>3 DEF gs
<1>5. draft' = NoDraft
  <2> DEFINE none == [i \in 1..0 |-> <<gs[i][2], gs[i][3]>>]
  <2>1. none = <<>>
    OBVIOUS
  <2>2. draft' = [NoDraft EXCEPT !.body = @ \o none]
    BY <1>2, <1>3
  <2>3. <<>> \o <<>> = <<>>
    OBVIOUS
  <2> HIDE DEF none
  <2> QED
    BY <2>1, <2>2, <2>3 DEF NoDraft
<1> QED
  BY <1>4, <1>5

\* Expanding a rule.
LEMMA ExpandKeeps ==
    ASSUME ParserInv, expand
    PROVE  (Between \/ Inside(goals, draft))' /\ (draft = DeclarationOf(draft))'
<1>0. /\ goals # <<>> /\ goal[1] \notin {"take", "declare", "begin", "recover"}
      /\ goal[1] = "primary" => BeginsPrimary
      /\ goal[1] = "program" => BeginsDeclaration
      /\ Continue(Expansion \o Tail(goals), draft)
  BY DEF expand
<1>1. CASE Between
  <2>1. goal[1] = "program" /\ Tail(goals) = <<>> /\ draft = NoDraft
    BY <1>0, <1>1, BetweenNext
  <2>8. PICK kind \in Kinds :
           \E w : IsSeq(w) /\ Walk(w, Ground, Ground) /\ parse_program = w \o Ending(kind)
    BY <1>0, <2>1, ProgramWalk
  <2>2. PICK w : IsSeq(w) /\ Walk(w, Ground, Ground) /\ parse_program = w \o Ending(kind)
    BY <2>8
  <2>3. Expansion \o Tail(goals) = w \o Ending(kind)
    <3>1. Expansion = parse_program
      BY <2>1 DEF Expansion
    <3>2. IsSeq(w \o Ending(kind))
      BY <2>2, EndingJoined
    <3>3. ASSUME NEW s, IsSeq(s) PROVE s \o <<>> = s
      BY <3>3 DEF IsSeq
    <3> QED
      BY <2>1, <2>2, <3>1, <3>2, <3>3
  <2>4. Continue(w \o Ending(kind), NoDraft)
    BY <1>0, <2>1, <2>3
  <2>5. Leads(NoDraft.body, Ground) /\ NoDraft = DeclarationOf(NoDraft)
    BY GroundFacts DEF NoDraft, DeclarationOf
  <2>6. /\ Inside(goals', draft')
        /\ draft' = [kind |-> draft'.kind, name |-> draft'.name, params |-> draft'.params,
                     body |-> draft'.body]
    BY <2>2, <2>4, <2>5, GroundFacts, ContinueKeeps DEF DeclarationOf
  <2> QED
    BY <2>6 DEF DeclarationOf, Inside
<1>2. CASE Inside(goals, draft)
  <2>1. PICK kind \in Kinds, m \in Level :
          \E w : \E b \in Level :
                     /\ IsSeq(w) /\ Tail(goals) = w \o Ending(kind)
                     /\ goal[1] \notin {"emit", "declare", "begin", "recover", "program"}
                     /\ Leads(draft.body, m) /\ GoalActs(m, goal, b) /\ Walk(w, b, Ground)
    BY <1>0, <1>2, InsideNext
  <2>2. PICK w : \E b \in Level :
                     /\ IsSeq(w) /\ Tail(goals) = w \o Ending(kind)
                     /\ goal[1] \notin {"emit", "declare", "begin", "recover", "program"}
                     /\ Leads(draft.body, m) /\ GoalActs(m, goal, b) /\ Walk(w, b, Ground)
    BY <2>1
  <2>3. PICK b \in Level :
                     /\ IsSeq(w) /\ Tail(goals) = w \o Ending(kind)
                     /\ goal[1] \notin {"emit", "declare", "begin", "recover", "program"}
                     /\ Leads(draft.body, m) /\ GoalActs(m, goal, b) /\ Walk(w, b, Ground)
    BY <2>2
  <2>4. Walk(Expansion, m, b) /\ IsSeq(Expansion)
    BY <1>0, <2>3, ExpansionWalk
  <2> DEFINE v == Expansion \o w
  <2>5. Walk(v, m, Ground) /\ IsSeq(v)
    BY <2>3, <2>4, WalkOn
  <2>6. Expansion \o Tail(goals) = v \o Ending(kind)
    <3> DEFINE e == Expansion
    <3> DEFINE t == Ending(kind)
    <3>1. IsSeq(e) /\ IsSeq(w) /\ IsSeq(t)
      BY <2>3, <2>4, EndingSeq
    <3> HIDE DEF e, t
    <3>2. (e \o w) \o t = e \o (w \o t)
      BY <3>1, SeqCatTwice
    <3> QED
      BY <2>3, <3>2 DEF e, t
  <2> HIDE DEF v
  <2>7. Continue(v \o Ending(kind), draft)
    BY <1>0, <2>6
  <2>8. /\ Inside(goals', draft')
        /\ draft' = [kind |-> draft'.kind, name |-> draft'.name, params |-> draft'.params,
                     body |-> draft'.body]
    BY <2>3, <2>5, <2>7, ContinueKeeps DEF ParserInv, DeclarationOf
  <2> QED
    BY <2>8 DEF DeclarationOf, Inside
<1> QED
  BY <1>1, <1>2 DEF ParserInv

\* Consuming a token.
LEMMA ConsumeKeeps ==
    ASSUME ParserInv, NEW use \in {"", "name", "params", "import"}, consume(use)
    PROVE  (Between \/ Inside(goals, draft))' /\ (draft = DeclarationOf(draft))'
<1>0. goals # <<>> /\ goal[1] = "take" /\ Continue(Tail(goals), Filled(use))
  BY DEF consume, Pending
<1>1. Inside(goals, draft)
  BY <1>0, BetweenNext DEF ParserInv
<1>2. PICK kind \in Kinds, m \in Level :
          \E w : \E b \in Level :
                     /\ IsSeq(w) /\ Tail(goals) = w \o Ending(kind)
                     /\ Leads(draft.body, m) /\ GoalActs(m, goal, b) /\ Walk(w, b, Ground)
  BY <1>0, <1>1, InsideNext
<1>3. PICK w : \E b \in Level :
                     /\ IsSeq(w) /\ Tail(goals) = w \o Ending(kind)
                     /\ Leads(draft.body, m) /\ GoalActs(m, goal, b) /\ Walk(w, b, Ground)
  BY <1>2
<1>4. Walk(w, m, Ground) /\ IsSeq(w) /\ Tail(goals) = w \o Ending(kind) /\ Leads(draft.body, m)
  BY <1>0, <1>3 DEF GoalActs
<1>5. Filled(use) = DeclarationOf(Filled(use)) /\ Filled(use).body = draft.body
  <2>1. draft = DeclarationOf(draft)
    BY DEF ParserInv
  <2>2. CASE use \in {"name", "import"}
    BY <2>1, <2>2 DEF Filled, DeclarationOf
  <2>3. CASE use = "params"
    BY <2>1, <2>3 DEF Filled, DeclarationOf
  <2>4. CASE use = ""
    BY <2>1, <2>4 DEF Filled, DeclarationOf
  <2> QED
    BY <2>2, <2>3, <2>4
<1> DEFINE d == Filled(use)
<1>6. d = DeclarationOf(d) /\ Leads(d.body, m) /\ Continue(w \o Ending(kind), d)
  BY <1>0, <1>4, <1>5
<1> HIDE DEF d
<1>7. /\ Inside(goals', draft')
      /\ draft' = [kind |-> draft'.kind, name |-> draft'.name, params |-> draft'.params,
                   body |-> draft'.body]
  BY <1>4, <1>6, ContinueKeeps DEF DeclarationOf
<1> QED
  BY <1>7 DEF DeclarationOf, Inside

\* Declarations that are joined.
LEMMA DeclaredTwice ==
    ASSUME NEW s, Declared(s), NEW t, Declared(t)
    PROVE  Declared(s \o t)
<1>1. IsSeq(s) /\ IsSeq(t) /\ Len(s) \in Nat /\ Len(t) \in Nat
  BY SeqFacts DEF Declared
<1>2. /\ IsSeq(s \o t) /\ Len(s \o t) = Len(s) + Len(t)
      /\ \A i \in 1..Len(s) : (s \o t)[i] = s[i]
      /\ \A i \in 1..Len(t) : (s \o t)[Len(s) + i] = t[i]
  BY <1>1, SeqCat
<1>3. ASSUME NEW i \in 1..(Len(s) + Len(t))
      PROVE  (s \o t)[i].kind \in Kinds /\ Leads((s \o t)[i].body, Ground)
  <2>1. CASE i <= Len(s)
    <3>1. i \in 1..Len(s)
      BY <1>1, <2>1
    <3>2. s[i].kind \in Kinds /\ Leads(s[i].body, Ground) /\ (s \o t)[i] = s[i]
      BY <1>2, <3>1 DEF Declared
    <3> QED
      BY <3>2
  <2>2. CASE i > Len(s)
    <3> DEFINE k == i - Len(s)
    <3>1. k \in 1..Len(t) /\ i = Len(s) + k
      BY <1>1, <2>2
    <3> HIDE DEF k
    <3>2. t[k].kind \in Kinds /\ Leads(t[k].body, Ground) /\ (s \o t)[i] = t[k]
      BY <1>2, <3>1 DEF Declared
    <3> QED
      BY <3>2
  <2> QED
    BY <1>1, <2>1, <2>2
<1> QED
  BY <1>2, <1>3 DEF Declared

\* A declaration is complete.
LEMMA DeclareKeeps ==
    ASSUME ParserInv, declare
    PROVE  Between' /\ (draft = DeclarationOf(draft))' /\ Declared(decls)'
<1>0. /\ goals # <<>> /\ goal[1] = "declare"
      /\ decls' = Append(decls, [draft EXCEPT !.kind = goal[2]])
      /\ Continue(Tail(goals), NoDraft)
  BY DEF declare, Pending
<1>1. Inside(goals, draft)
  BY <1>0, BetweenNext DEF ParserInv
<1>2. /\ goal[2] \in Kinds /\ Leads(draft.body, Ground) /\ Tail(goals) = <<Rule("program")>>
  BY <1>0, <1>1, InsideNext
<1>3. goals' = <<Rule("program")>> /\ draft' = NoDraft
  BY <1>0, <1>2, ContinueProgram
<1>4. (draft = DeclarationOf(draft))'
  BY <1>3 DEF NoDraft, DeclarationOf
<1> DEFINE d == [draft EXCEPT !.kind = goal[2]]
<1>5. d.kind \in Kinds /\ Leads(d.body, Ground)
  <2>1. draft = DeclarationOf(draft)
    BY DEF ParserInv
  <2>2. d.kind = goal[2] /\ d.body = draft.body
    BY <2>1 DEF DeclarationOf
  <2> QED
    BY <1>2, <2>2
<1> HIDE DEF d
<1>6. IsSeq(decls) /\ \A i \in 1..Len(decls) : decls[i].kind \in Kinds /\ Leads(decls[i].body, Ground)
  BY DEF ParserInv, Declared
<1> DEFINE ds == Append(decls, d)
<1>7. /\ IsSeq(ds) /\ Len(ds) = Len(decls) + 1 /\ ds[Len(decls) + 1] = d
      /\ \A i \in 1..Len(decls) : ds[i] = decls[i]
  BY <1>6, SeqAdd
<1>8. Len(decls) \in Nat
  BY <1>6, SeqFacts
<1>9. Declared(ds)
  <2> HIDE DEF ds
  <2> SUFFICES ASSUME NEW i \in 1..Len(ds) PROVE ds[i].kind \in Kinds /\ Leads(ds[i].body, Ground)
    BY <1>7 DEF Declared
  <2>1. i \in 1..Len(decls) \/ i = Len(decls) + 1
    BY <1>7, <1>8
  <2> QED
    BY <1>5, <1>6, <1>7, <2>1
<1>10. decls' = ds
  BY <1>0 DEF d
<1>11. Declared(decls)'
  BY <1>9, <1>10 DEF Declared
<1> QED
  BY <1>3, <1>4, <1>11 DEF Between

\* The text that is left.
LEMMA ReadKeeps ==
    ASSUME ParserInv, Reads \/ Rejects \/ (\E more : \E left \in Nat \cup {-1} : Holds(more, left))
    PROVE  /\ unread' = [text |-> unread'.text, parts |-> unread'.parts, spare |-> unread'.spare,
                         ending |-> unread'.ending]
           /\ unread'.spare \in Nat \cup {-1}
<1>1. /\ unread = [text |-> unread.text, parts |-> unread.parts, spare |-> unread.spare,
                   ending |-> unread.ending]
      /\ unread.spare \in Nat \cup {-1}
  BY DEF ParserInv
<1>2. CASE Reads \/ Rejects
  <2>1. \E token : unread' = [unread EXCEPT !.text = token.rest]
    BY <1>2 DEF Reads, Rejects
  <2> QED
    BY <1>1, <2>1
<1>3. CASE \E more : \E left \in Nat \cup {-1} : Holds(more, left)
  BY <1>1, <1>3 DEF Holds
<1> QED
  BY <1>2, <1>3

LEMMA ParseKeeps ==
    ASSUME ParserInv, Parse \/ consume("import") \/ uncaught
    PROVE  ParserInv'
<1> USE DEF DeclarationOf
<1>0. /\ draft = DeclarationOf(draft) /\ Declared(decls)
      /\ unread = [text |-> unread.text, parts |-> unread.parts, spare |-> unread.spare,
                   ending |-> unread.ending]
      /\ unread.spare \in Nat \cup {-1} /\ m_error_count \in Nat
  BY DEF ParserInv
<1>1. CASE expand
  <2>1. UNCHANGED <<unread, m_error_count, decls>>
    BY <1>1 DEF expand
  <2>2. (Between \/ Inside(goals, draft))' /\ (draft = DeclarationOf(draft))'
    BY <1>1, ExpandKeeps
  <2> QED
    BY <1>0, <2>1, <2>2 DEF ParserInv
<1>2. ASSUME NEW use \in {"", "name", "params", "import"}, consume(use) PROVE ParserInv'
  <2>1. UNCHANGED <<m_error_count, decls>> /\ Reads
    BY <1>2 DEF consume
  <2>2. (Between \/ Inside(goals, draft))' /\ (draft = DeclarationOf(draft))'
    BY <1>2, ConsumeKeeps
  <2>3. /\ unread' = [text |-> unread'.text, parts |-> unread'.parts, spare |-> unread'.spare,
                      ending |-> unread'.ending]
        /\ unread'.spare \in Nat \cup {-1}
    BY <2>1, ReadKeeps
  <2> QED
    BY <1>0, <2>1, <2>2, <2>3 DEF ParserInv
<1>3. ASSUME Throws, UNCHANGED decls, Rejects \/ UNCHANGED unread PROVE ParserInv'
  <2>1. m_error_count' \in Nat /\ goals' = <<Rule("recover")>> /\ draft' = NoDraft
    BY <1>0, <1>3 DEF Throws
  <2>2. Between' /\ (draft = DeclarationOf(draft))'
    BY <2>1 DEF Between, NoDraft
  <2>3. /\ unread' = [text |-> unread'.text, parts |-> unread'.parts, spare |-> unread'.spare,
                      ending |-> unread'.ending]
        /\ unread'.spare \in Nat \cup {-1}
    BY <1>0, <1>3, ReadKeeps
  <2> QED
    BY <1>0, <1>3, <2>1, <2>2, <2>3 DEF ParserInv
<1>4. CASE invalid_token
  BY <1>3, <1>4 DEF invalid_token
<1>5. CASE unexpected
  BY <1>3, <1>5 DEF unexpected
<1>6. CASE declare
  <2>1. UNCHANGED <<unread, m_error_count>>
    BY <1>6 DEF declare
  <2>2. Between' /\ (draft = DeclarationOf(draft))' /\ Declared(decls)'
    BY <1>6, DeclareKeeps
  <2> QED
    BY <1>0, <2>1, <2>2 DEF ParserInv
<1>7. ASSUME goals # <<>>, goal[1] \in {"begin", "recover"} PROVE Between
  BY <1>7, InsideNext DEF ParserInv
<1>8. CASE recovered
  <2>1. goals' = <<Rule("program")>> /\ UNCHANGED <<unread, m_error_count, draft, decls>> /\ Between
    BY <1>7, <1>8 DEF recovered, Pending
  <2>2. Between'
    BY <2>1 DEF Between
  <2> QED
    BY <1>0, <2>1, <2>2 DEF ParserInv
<1>9. CASE skip_token
  <2>1. /\ goals # <<>> /\ goal[1] \in {"begin", "recover"} /\ Reads
        /\ goals' = (IF goal[1] = "begin" THEN Tail(goals) ELSE goals)
        /\ UNCHANGED <<m_error_count, draft, decls>>
    BY <1>9 DEF skip_token, SkipsToken, Pending
  <2>2. Between'
    <3>1. Between /\ goals' \in {goals, <<Rule("program")>>}
      BY <1>7, <2>1, BetweenNext
    <3> QED
      BY <2>1, <3>1 DEF Between
  <2>3. /\ unread' = [text |-> unread'.text, parts |-> unread'.parts, spare |-> unread'.spare,
                      ending |-> unread'.ending]
        /\ unread'.spare \in Nat \cup {-1}
    BY <2>1, ReadKeeps
  <2> QED
    BY <1>0, <2>1, <2>2, <2>3 DEF ParserInv
<1>10. CASE uncaught
  <2>1. Rejects /\ UNCHANGED <<m_error_count, goals, draft, decls>>
    BY <1>10 DEF uncaught
  <2>2. (Between \/ Inside(goals, draft))'
    BY <2>1 DEF ParserInv, Between, Inside
  <2>3. /\ unread' = [text |-> unread'.text, parts |-> unread'.parts, spare |-> unread'.spare,
                      ending |-> unread'.ending]
        /\ unread'.spare \in Nat \cup {-1}
    BY <2>1, ReadKeeps
  <2> QED
    BY <1>0, <2>1, <2>2, <2>3 DEF ParserInv
<1>11. CASE text_goes_on
  <2>1. UNCHANGED <<m_error_count, goals, draft, decls>>
    BY <1>11 DEF text_goes_on
  <2>2. \E more : \E left \in Nat \cup {-1} : Holds(more, left)
    <3>1. CASE unread.spare > 0 /\ \E part \in unread.parts : Holds(part, unread.spare - 1)
      BY <1>0, <3>1
    <3>2. CASE Holds(unread.ending, -1)
      BY <3>2
    <3> QED
      BY <1>11, <3>1, <3>2 DEF text_goes_on
  <2>3. (Between \/ Inside(goals, draft))'
    BY <2>1 DEF ParserInv, Between, Inside
  <2>4. /\ unread' = [text |-> unread'.text, parts |-> unread'.parts, spare |-> unread'.spare,
                      ending |-> unread'.ending]
        /\ unread'.spare \in Nat \cup {-1}
    BY <2>2, ReadKeeps
  <2> QED
    BY <1>0, <2>1, <2>3, <2>4 DEF ParserInv
<1> QED
  BY <1>1, <1>2, <1>4, <1>5, <1>6, <1>8, <1>9, <1>10, <1>11 DEF Parse

LEMMA DeclaredNone == Declared(<<>>)
<1>1. Len(<<>>) = 0 /\ IsSeq(<<>>)
  BY EmptySeq DEF IsSeq
<1>2. \A i \in 1..0 : FALSE
  OBVIOUS
<1> QED
  BY <1>1, <1>2 DEF Declared

LEMMA OpenKeeps ==
    ASSUME NEW file, Opened(file), file.spare \in Nat,
           file = [text |-> file.text, parts |-> file.parts, spare |-> file.spare,
                   ending |-> file.ending]
    PROVE  ParserInv'
<1>1. /\ unread' = file /\ m_error_count' = 0 /\ draft' = NoDraft /\ decls' = <<>>
      /\ goals' = <<Rule("begin"), Rule("program")>>
  BY DEF Opened
<1>2. Between'
  BY <1>1 DEF Between
<1>3. (draft = DeclarationOf(draft))'
  BY <1>1 DEF NoDraft, DeclarationOf
<1> QED
  BY <1>1, <1>2, <1>3, DeclaredNone DEF ParserInv

LEMMA InitParser == ParserInit => ParserInv
<1> SUFFICES ASSUME ParserInit PROVE ParserInv
  OBVIOUS
<1>1. /\ unread = EmptyFile /\ m_error_count = 0 /\ draft = NoDraft /\ decls = <<>>
      /\ goals = <<>>
  BY DEF ParserInit
<1>2. Between
  BY <1>1 DEF Between
<1>3. draft = DeclarationOf(draft)
  BY <1>1 DEF NoDraft, DeclarationOf
<1> QED
  BY <1>1, <1>2, <1>3, DeclaredNone DEF ParserInv, EmptyFile

\* Every goal is one that Parse knows.
LEMMA GoalsKnown == ParserInv => \A i \in DOMAIN goals : goals[i][1] \in Rules
<1> SUFFICES ASSUME ParserInv, NEW i \in DOMAIN goals PROVE goals[i][1] \in Rules
  OBVIOUS
<1>1. CASE goals = <<>>
  BY <1>1
<1>2. CASE goals = <<Rule("begin"), Rule("program")>>
  BY <1>2 DEF Rule, Rules
<1>3. CASE goals \in {<<Rule("program")>>, <<Rule("recover")>>}
  BY <1>3 DEF Rule, Rules
<1>4. CASE Inside(goals, draft)
  <2>1. PICK kind \in Kinds, m \in Level : \E w : InsideAs(goals, draft, kind, m, w)
    BY <1>4 DEF Inside
  <2>2. PICK w : InsideAs(goals, draft, kind, m, w)
    BY <2>1
  <2>3. goals = w \o Ending(kind) /\ IsSeq(w) /\ Walk(w, m, Ground)
    BY <2>2 DEF InsideAs
  <2>4. /\ IsSeq(goals) /\ Len(goals) = Len(w) + 2
        /\ \A k \in 1..Len(w) : goals[k] = w[k]
        /\ \A k \in 1..2 : goals[Len(w) + k] = Ending(kind)[k]
    <3>1. IsSeq(w)
      BY <2>3
    <3>2. /\ IsSeq(w \o Ending(kind)) /\ Len(w \o Ending(kind)) = Len(w) + 2
          /\ \A k \in 1..Len(w) : (w \o Ending(kind))[k] = w[k]
          /\ \A k \in 1..2 : (w \o Ending(kind))[Len(w) + k] = Ending(kind)[k]
      BY <3>1, EndingJoined
    <3> QED
      BY <2>3, <3>2
  <2>5. i \in 1..(Len(w) + 2) /\ Len(w) \in Nat
    BY <2>3, <2>4, SeqFacts
  <2>6. CASE i <= Len(w)
    <3>1. i \in 1..Len(w)
      BY <2>5, <2>6
    <3>2. PICK f \in [0..Len(w) -> Level] : \A k \in 1..Len(w) : GoalActs(f[k - 1], w[k], f[k])
      BY <2>3 DEF Walk
    <3>3. w[i][1] \in Rules
      BY <3>1, <3>2, GoalTags
    <3> QED
      BY <2>4, <3>1, <3>3
  <2>7. CASE i > Len(w)
    <3>1. i = Len(w) + 1 \/ i = Len(w) + 2
      BY <2>5, <2>7
    <3>2. goals[Len(w) + 1] = <<"declare", kind>> /\ goals[Len(w) + 2] = <<"program">>
      BY <2>4, EndingFacts
    <3> QED
      BY <3>1, <3>2 DEF Rules
  <2> QED
    BY <2>5, <2>6, <2>7
<1> QED
  BY <1>1, <1>2, <1>3, <1>4 DEF ParserInv, Between
=============================================================================
