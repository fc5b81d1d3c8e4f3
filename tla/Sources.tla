-------------------------------- MODULE Sources --------------------------------
(***************************************************************************)
(* Driver::parse_sources (src/src/driver/driver.cpp): the files of a       *)
(* program, one after the other, from the main file on.  An import found   *)
(* while one is parsed puts its path on a stack, with a number of its own; *)
(* a path that has been visited when it comes off the stack is skipped.    *)
(*                                                                         *)
(* What a file holds is left open here: while it is parsed, any number of  *)
(* imports may be met, and it may be refused or end the compiler.          *)
(***************************************************************************)
EXTENDS Integers, Sequences

CONSTANTS
    Paths,      \* of files, there or not: a missing one reads as an empty text
    Main

ASSUME SourcesAssumption == Main \in Paths

VARIABLES
    sources_frontier,   \* the stack of pending sources, the top last
    temp_src_id,        \* the number of the next one
    visited_paths,
    m_src_map,          \* number -> the path whose text is kept under it
    reading,            \* the source whose text is being parsed
    full_ast,           \* the numbers of the sources whose declarations have been joined
    imports,            \* history: path -> the paths it imports
    outcome             \* "parsing", "parsed", "refused" or "died"

sourcesVars == <<sources_frontier, temp_src_id, visited_paths, m_src_map, reading, full_ast,
                 imports, outcome>>

-----------------------------------------------------------------------------
PendingSource(path, id) == [file_path |-> path, src_id |-> id]
NoSource == PendingSource(Main, -1)
Idle == reading = NoSource

SourcesInit ==
    /\ sources_frontier = <<PendingSource(Main, 0)>>
    /\ temp_src_id = 1
    /\ visited_paths = {}
    /\ m_src_map = [id \in {} |-> Main]
    /\ reading = NoSource
    /\ full_ast = <<>>
    /\ imports = [p \in Paths |-> {}]
    /\ outcome = "parsing"

top == sources_frontier[Len(sources_frontier)]
Popped == SubSeq(sources_frontier, 1, Len(sources_frontier) - 1)
Loops == outcome = "parsing" /\ Idle /\ sources_frontier # <<>>

\* Mutant of Seen: only the file just parsed is skipped.
JustParsed(path) == full_ast # <<>> /\ path = m_src_map[full_ast[Len(full_ast)]]

Seen(path) == path \in visited_paths

skip_visited ==
    /\ Loops /\ Seen(top.file_path)
    /\ sources_frontier' = Popped
    /\ UNCHANGED <<temp_src_id, visited_paths, m_src_map, reading, full_ast, imports, outcome>>

read_source ==
    /\ Loops /\ ~ Seen(top.file_path)
    /\ sources_frontier' = Popped
    /\ reading' = top
    /\ m_src_map' = [id \in DOMAIN m_src_map \cup {top.src_id} |->
                       IF id = top.src_id THEN top.file_path ELSE m_src_map[id]]
    /\ UNCHANGED <<temp_src_id, visited_paths, full_ast, imports, outcome>>

\* Mutants of PushPending: the source on top is replaced; an import has the number
\* of the file it is in.
ReplaceTop(path) ==
    sources_frontier' = Append(IF sources_frontier = <<>> THEN <<>> ELSE Popped,
                               PendingSource(path, temp_src_id))
PushUnderOwn(path) ==
    sources_frontier' = Append(sources_frontier, PendingSource(path, reading.src_id))

PushPending(path) ==
    sources_frontier' = Append(sources_frontier, PendingSource(path, temp_src_id))

\* The parser meets an import.
pend_import(path) ==
    /\ outcome = "parsing" /\ ~ Idle
    /\ PushPending(path)
    /\ temp_src_id' = temp_src_id + 1
    /\ imports' = [imports EXCEPT ![reading.file_path] = @ \cup {path}]
    /\ UNCHANGED <<visited_paths, m_src_map, reading, full_ast, outcome>>

\* The parser returns the declarations of the file.
source_parsed ==
    /\ outcome = "parsing" /\ ~ Idle
    /\ full_ast' = Append(full_ast, reading.src_id)
    /\ visited_paths' = visited_paths \cup {reading.file_path}
    /\ reading' = NoSource
    /\ UNCHANGED <<sources_frontier, temp_src_id, m_src_map, imports, outcome>>

\* The parser returns nothing, or throws.
source_failed(how) ==
    /\ outcome = "parsing" /\ ~ Idle
    /\ outcome' = how
    /\ UNCHANGED <<sources_frontier, temp_src_id, visited_paths, m_src_map, reading, full_ast,
                   imports>>

all_parsed ==
    /\ outcome = "parsing" /\ Idle /\ sources_frontier = <<>>
    /\ outcome' = "parsed"
    /\ UNCHANGED <<sources_frontier, temp_src_id, visited_paths, m_src_map, reading, full_ast,
                   imports>>

SourcesNext ==
    \/ skip_visited \/ read_source \/ source_parsed \/ all_parsed
    \/ \E path \in Paths : pend_import(path)
    \/ \E how \in {"refused", "died"} : source_failed(how)

SourcesSpec == SourcesInit /\ [][SourcesNext]_sourcesVars

-----------------------------------------------------------------------------
(* Properties                                                              *)

\* Every file is parsed, and its declarations joined, once, whatever imports lead to
\* it: a second time would define its functions again, which the analyzer refuses.
EachPathOnce ==
    /\ \A i, k \in DOMAIN full_ast :
          m_src_map[full_ast[i]] = m_src_map[full_ast[k]] => i = k
    /\ visited_paths = {m_src_map[full_ast[i]] : i \in DOMAIN full_ast}

\* The later stages look up the text of each declaration by its number, in the file it
\* came from: no number is given to two files, nor a text replaced (analyzer.cpp:542
\* fears "invalid access on src_map: source 2 does not push to it").
TextAtHand ==
    /\ \A i \in DOMAIN full_ast : full_ast[i] \in DOMAIN m_src_map
    /\ ~ Idle => m_src_map[reading.src_id] = reading.file_path
    /\ \A i \in DOMAIN sources_frontier : sources_frontier[i].src_id \notin DOMAIN m_src_map
    /\ \A i, k \in DOMAIN sources_frontier :
          sources_frontier[i].src_id = sources_frontier[k].src_id => i = k

\* A set of files that holds the main one and what its files import.
Closed(S) == Main \in S /\ \A p \in S : imports[p] \subseteq S

\* When all is parsed, the files parsed are those that imports lead to from the main
\* one, cycles and diamonds included: none is missing and none is there in vain.
AllImportsParsed ==
    outcome = "parsed" =>
        Closed(visited_paths) /\ \A S \in SUBSET Paths : Closed(S) => visited_paths \subseteq S
=============================================================================
