------------------------------- MODULE Frontend -------------------------------
(***************************************************************************)
(* The driver up to the semantic checks (src/src/driver/driver.cpp): files *)
(* are read and parsed as imports are found, and their declarations, in    *)
(* the order in which the files were parsed, go to the analyzer.           *)
(***************************************************************************)
EXTENDS Sources, Parser, Analyzer

CONSTANT FileSets      \* each a function from the paths of files to files

ASSUME FilesAssumption ==
    \A filesystem \in FileSets : \A p \in DOMAIN filesystem :
        LET file == filesystem[p]
        IN /\ file = [text |-> file.text, parts |-> file.parts, spare |-> file.spare,
                      ending |-> file.ending]
           /\ file.spare \in Nat

VARIABLE files

frontendVars == <<files, sourcesVars, parserVars, analyzerVars>>

\* A path where no file can be read gives an empty text.
FileAt(path) == IF path \in DOMAIN files THEN files[path] ELSE EmptyFile

Init ==
    /\ files \in FileSets
    /\ SourcesInit /\ ParserInit /\ AnalyzerInit

begin_parse ==
    /\ read_source
    /\ Opened(FileAt(top.file_path))
    /\ UNCHANGED <<files, analyzerVars>>

parse ==
    /\ ~ Idle /\ outcome = "parsing"
    /\ Parse
    /\ UNCHANGED <<files, sourcesVars, analyzerVars>>

parse_import ==
    /\ consume("import")
    /\ pend_import(m_current.text)
    /\ UNCHANGED <<files, analyzerVars>>

end_parse ==
    /\ AtEnd /\ m_error_count = 0
    /\ source_parsed
    /\ program' = program \o decls
    /\ UNCHANGED <<files, parserVars, m_scopes, m_prepassing, walk, verdict>>

end_with_errors ==
    /\ AtEnd /\ m_error_count > 0
    /\ source_failed("refused")
    /\ UNCHANGED <<files, parserVars, analyzerVars>>

terminate ==
    /\ uncaught
    /\ source_failed("died")
    /\ UNCHANGED <<files, analyzerVars>>

work_through == (skip_visited \/ all_parsed) /\ UNCHANGED <<files, parserVars, analyzerVars>>

check_semantics ==
    /\ outcome = "parsed"
    /\ Analyze
    /\ UNCHANGED <<files, sourcesVars, parserVars>>

Next ==
    \/ work_through \/ begin_parse \/ parse \/ parse_import
    \/ end_parse \/ end_with_errors \/ terminate \/ check_semantics

\* The stages run to their ends: nothing in them waits.
Spec == Init /\ [][Next]_frontendVars /\ WF_frontendVars(Next)

\* Every path that a file can import is in Paths.
ImportsNamePaths ==
    Pending("take") /\ goal[3] = "import" /\ goal[2] = type => m_current.text \in Paths

Rules == {"take", "emit", "named", "declare", "items", "more", "binary", "begin", "recover",
          "unary", "primary", "access", "call", "assign", "definition", "stmts", "else", "program"}

\* The analyzer has a result for every operand that is complete and not used yet, and
\* it has left every scope when it has checked all there is.
FrontendTypeOK ==
    /\ outcome \in {"parsing", "parsed", "refused", "died"}
    /\ verdict \in {"waiting", "checking", "accepted", "refused", "died"}
    /\ \A i \in DOMAIN goals : goals[i][1] \in Rules
    /\ unread.spare \in Nat \cup {-1} /\ m_error_count \in Nat
    /\ \A i \in DOMAIN decls : decls[i].kind \in {"import", "native", "function"}
    /\ InBody => at \in 1..(Len(body) + 1) /\ Len(found) = Height(body)[at - 1]
    /\ Len(m_scopes) \in 0..2
    /\ ImportsNamePaths
    /\ decl > Len(program) => Len(m_scopes) < 2 /\ found = <<>>

Over == outcome \in {"refused", "died"} \/ verdict \in {"accepted", "refused", "died"}

\* Every text comes to an end, through every error and import: recovery always gets
\* past a token, no rule goes round without one, and no cycle of imports is followed.
FrontendEnds == <>Over
=============================================================================
