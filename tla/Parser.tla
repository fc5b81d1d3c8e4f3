-------------------------------- MODULE Parser --------------------------------
(***************************************************************************)
(* Parser (src/src/frontend/parsing.cpp): the recursive descent, and what  *)
(* it does after an error.                                                 *)
(*                                                                         *)
(* goals is the call stack of the descent as what is left to be done, the  *)
(* next goal first: take a token of a type, emit an event, or go on with a *)
(* rule.  parse_X below is the body of the code's function of that name:   *)
(* the goals it comes to, given the token that is current.  The AST is the *)
(* stream of events that Lowering reads.                                   *)
(***************************************************************************)
EXTENDS Lexer

VARIABLES
    unread,          \* the text after the current token
    m_current,
    m_error_count,
    goals,
    draft,           \* the declaration being parsed
    decls,           \* those of the unit so far
    source_text      \* history: the text of the unit, as far as it has been looked at

parserVars == <<unread, m_current, m_error_count, goals, draft, decls, source_text>>

\* A file is [text, parts, spare, ending]: after text, up to spare parts (texts
\* themselves), then the ending.
EmptyFile == [text |-> <<>>, parts |-> {}, spare |-> 0, ending |-> <<>>]
NoDraft == [kind |-> "", name |-> <<>>, params |-> <<>>, body |-> <<>>]
NoToken == Token("unknown", <<>>, <<>>)

type == m_current.type

-----------------------------------------------------------------------------
(* Goals                                                                    *)

Take(token_type) == <<"take", token_type, "">>
TakeAs(token_type, use) == <<"take", token_type, use>>     \* and put it in the draft
Emit(kind, text) == <<"emit", kind, text>>
Mark(kind) == Emit(kind, <<>>)
Named(kind) == <<"named", kind>>
Declare(kind) == <<"declare", kind>>
Items(close, item) == <<"items", close, item>>             \* item is a sequence of goals
More(item) == <<"more", item>>
Rule(name) == <<name>>
Binary(hi, lo) == <<"binary", hi, lo>>

\* Operators by level: a level's operands are expressions of the next one.
Operators ==
    {<<"oper_lesser", 1, "lt">>, <<"oper_greater", 1, "gt">>,
     <<"oper_at_most", 1, "lte">>, <<"oper_at_least", 1, "gte">>,
     <<"oper_equality", 2, "equ">>, <<"oper_inequality", 2, "neq">>,
     <<"oper_plus", 3, "add">>, <<"oper_minus", 3, "sub">>,
     <<"oper_times", 4, "mul">>, <<"oper_slash", 4, "div">>, <<"oper_modulo", 4, "mod">>}

parse_binary(level) == <<Rule("unary"), Binary(4, level)>>
parse_compare == parse_binary(1)
parse_call == <<Rule("primary"), Rule("access"), Rule("call")>>
parse_block == <<Take("open_brace"), Rule("stmts")>>

-----------------------------------------------------------------------------
(* Expressions                                                              *)

Literals == {"literal_false", "literal_true", "literal_char", "literal_int", "literal_double"}

Sequence(close, kind) ==
    <<Mark("sequence"), Take(type), Items(close, <<Rule("primary"), Mark("item")>>),
      Take(close), Mark(kind)>>

parse_lambda ==
    <<Mark("lambda"), Take("keyword_fn"), Take("open_bracket"),
      Items("close_bracket", <<Named("parameter")>>), Take("close_bracket"), Take("arrow")>>
        \o parse_block \o <<Mark("lambda_end")>>

\* An expression can begin with this token.
BeginsPrimary ==
    type \in Literals \cup {"identifier", "keyword_fn", "open_paren", "literal_string",
                            "open_bracket", "open_brace"}

parse_primary ==
    CASE type = "identifier" -> <<Emit("name", m_current.text), Take(type)>>
      [] type = "keyword_fn" -> parse_lambda
      [] type = "open_paren" -> <<Take(type)>> \o parse_compare \o <<Take("close_paren")>>
      [] type = "open_bracket" -> Sequence("close_bracket", "tuple")
      [] type = "open_brace" -> Sequence("close_brace", "list")
      [] type = "literal_string" -> <<Emit("string", m_current.text), Take(type)>>
      [] type \in Literals -> <<Emit("literal", m_current.text), Take(type)>>

\* What is accessed with is a call, which may access in turn: a.b.c is a.(b.c).
parse_access ==
    IF type = "dot"
    THEN <<Take("dot")>> \o parse_call \o <<Emit("binary", <<"seq_obj_get">>), Rule("access")>>
    ELSE <<>>

parse_arguments ==
    IF type = "open_paren"
    THEN <<Mark("call"), Take("open_paren"),
           Items("close_paren", parse_compare \o <<Mark("argument")>>),
           Take("close_paren"), Mark("called")>>
    ELSE <<>>

parse_unary ==
    IF type = "oper_minus" THEN <<Take("oper_minus")>> \o parse_call \o <<Mark("negate")>>
    ELSE parse_call

\* Mutant of OperandLevel: the operand takes the operators of its own level.
SameLevel(level) == level

OperandLevel(level) == level + 1

\* The loops of the levels hi down to lo, of which the first has got its operand.
parse_operators(hi, lo) ==
    IF \E op \in Operators : op[1] = type /\ op[2] \in lo..hi
    THEN LET op == CHOOSE o \in Operators : o[1] = type
         IN <<Take(type)>> \o parse_binary(OperandLevel(op[2])) \o
            <<Emit("binary", <<op[3]>>), Binary(op[2], lo)>>
    ELSE <<>>

parse_assign ==
    IF type = "oper_assign" THEN <<Take(type)>> \o parse_compare \o <<Mark("assign")>> ELSE <<>>

\* What can be listed up to a closing token, and what can follow a comma.
parse_items(close, item) == (IF type = close THEN <<>> ELSE item) \o <<More(item)>>
parse_more(item) ==
    IF type = "comma" THEN <<Take("comma")>> \o item \o <<More(item)>> ELSE <<>>

-----------------------------------------------------------------------------
(* Statements and declarations                                              *)

parse_definition ==
    <<Take("identifier"), Take("oper_assign")>> \o parse_compare \o
    <<Emit("def", m_current.text)>>

parse_destructure ==
    <<Mark("destructure"), Take("keyword_detup"), Take("open_bracket"), Named("detup_name"),
      More(<<Named("detup_name")>>), Take("close_bracket"), Take("oper_assign")>>
        \o parse_compare \o <<Mark("detup")>>

parse_if ==
    <<Mark("if"), Take("keyword_if")>> \o parse_compare \o <<Mark("then")>> \o parse_block \o
    <<Rule("else"), Mark("end")>>

\* Mutant of parse_else: its statements are added to those before the else.
ElseWithThen == IF type = "keyword_else" THEN <<Take(type)>> \o parse_block ELSE <<>>

parse_else ==
    IF type = "keyword_else" THEN <<Mark("else"), Take(type)>> \o parse_block ELSE <<>>

parse_while ==
    <<Mark("while"), Take("keyword_while")>> \o parse_compare \o <<Mark("do")>> \o parse_block \o
    <<Mark("end")>>

parse_stmt ==
    CASE type = "keyword_def" -> <<Take(type), Rule("definition")>>
      [] type = "keyword_detup" -> parse_destructure
      [] type = "keyword_if" -> parse_if
      [] type = "keyword_return" -> <<Take(type)>> \o parse_compare \o <<Mark("return")>>
      [] type = "keyword_while" -> parse_while
      [] type = "keyword_break" -> <<Mark("break"), Take(type)>>
      [] OTHER -> <<Rule("unary"), Rule("assign"), Mark("expression")>>

\* A block ends with its brace, or with the file.
parse_stmts ==
    CASE type = "eof" -> <<>>
      [] type = "close_brace" -> <<Take(type)>>
      [] OTHER -> parse_stmt \o <<Rule("stmts")>>

parse_signature ==
    <<Take("keyword_fun"), TakeAs("identifier", "name"), Take("colon"), Take("open_bracket"),
      Items("close_bracket", <<TakeAs("identifier", "params")>>), Take("close_bracket")>>

\* The statements of a program begin with one of these.
BeginsDeclaration == type \in {"keyword_import", "keyword_native", "keyword_fun"}

parse_program ==
    CASE type = "keyword_import" ->
            <<Take(type), TakeAs("literal_string", "import"), Declare("import"), Rule("program")>>
      [] type = "keyword_native" ->
            <<Take(type)>> \o parse_signature \o <<Declare("native"), Rule("program")>>
      [] type = "keyword_fun" ->
            parse_signature \o <<Take("arrow")>> \o parse_block \o
            <<Declare("function"), Rule("program")>>

-----------------------------------------------------------------------------
(* Steps                                                                    *)

goal == goals[1]
Pending(name) == goals # <<>> /\ goal[1] = name

Expansion ==
    CASE goal[1] = "named" -> <<Emit(goal[2], m_current.text), Take("identifier")>>
      [] goal[1] = "items" -> parse_items(goal[2], goal[3])
      [] goal[1] = "more" -> parse_more(goal[2])
      [] goal[1] = "unary" -> parse_unary
      [] goal[1] = "binary" -> parse_operators(goal[2], goal[3])
      [] goal[1] = "primary" -> parse_primary
      [] goal[1] = "access" -> parse_access
      [] goal[1] = "call" -> parse_arguments
      [] goal[1] = "assign" -> parse_assign
      [] goal[1] = "definition" -> parse_definition
      [] goal[1] = "stmts" -> parse_stmts
      [] goal[1] = "else" -> parse_else
      [] goal[1] = "program" -> parse_program

\* The goals to come, after the events that are due at once.
Continue(gs, filled) ==
    LET n == CHOOSE k \in 0..Len(gs) :
                 /\ \A i \in 1..k : gs[i][1] = "emit"
                 /\ k < Len(gs) => gs[k + 1][1] # "emit"
    IN /\ goals' = SubSeq(gs, n + 1, Len(gs))
       /\ draft' = [filled EXCEPT !.body =
                      @ \o [i \in 1..n |-> <<gs[i][2], gs[i][3]>>]]

\* Enter a rule.
expand ==
    /\ goals # <<>> /\ goal[1] \notin {"take", "declare", "begin", "recover"}
    /\ goal[1] = "primary" => BeginsPrimary
    /\ goal[1] = "program" => BeginsDeclaration
    /\ Continue(Expansion \o Tail(goals), draft)
    /\ UNCHANGED <<unread, m_current, m_error_count, decls, source_text>>

\* There is more of the text to come, and the next token reaches to the end of what there
\* is: it may be longer, so it is not read yet.
Cut == unread.spare >= 0 /\ advance(unread.text).rest = <<>>

\* The next token becomes the current one.
Reads ==
    LET token == advance(unread.text)
    IN /\ ~ Cut /\ token.type # "unknown"
       /\ m_current' = Token(token.type, token.text, <<>>)
       /\ unread' = [unread EXCEPT !.text = token.rest]
       /\ UNCHANGED source_text

\* What comes next is no token, which throws: the current one stays.
Rejects ==
    LET token == advance(unread.text)
    IN /\ ~ Cut /\ token.type = "unknown"
       /\ unread' = [unread EXCEPT !.text = token.rest]
       /\ UNCHANGED <<m_current, source_text>>

Throws == m_error_count' = m_error_count + 1 /\ goals' = <<Rule("recover")>> /\ draft' = NoDraft

Filled(use) ==
    CASE use \in {"name", "import"} -> [draft EXCEPT !.name = m_current.text]
      [] use = "params" -> [draft EXCEPT !.params = Append(@, m_current.text)]
      [] use = "" -> draft

\* consume a token that is expected, as a part of the draft or not.
consume(use) ==
    /\ Pending("take") /\ goal[2] = type /\ goal[3] = use
    /\ Reads
    /\ Continue(Tail(goals), Filled(use))
    /\ UNCHANGED <<m_error_count, decls>>

\* What comes after it is no token.
invalid_token ==
    /\ Pending("take") /\ goal[2] = type
    /\ Rejects
    /\ Throws
    /\ UNCHANGED decls

\* report_error: another token is there.
unexpected ==
    /\ \/ Pending("take") /\ goal[2] # type
       \/ Pending("primary") /\ ~ BeginsPrimary
       \/ Pending("program") /\ ~ BeginsDeclaration /\ type # "eof"
    /\ Throws
    /\ UNCHANGED <<unread, m_current, decls, source_text>>

declare ==
    /\ Pending("declare")
    /\ decls' = Append(decls, [draft EXCEPT !.kind = goal[2]])
    /\ Continue(Tail(goals), NoDraft)
    /\ UNCHANGED <<unread, m_current, m_error_count, source_text>>

\* Mutant of StopsRecovery: the end of the file is looked for no more.
StopsAtFun == type = "keyword_fun"

StopsRecovery == type \in {"eof", "keyword_fun"}

recovered ==
    /\ Pending("recover") /\ StopsRecovery
    /\ goals' = <<Rule("program")>>
    /\ UNCHANGED <<unread, m_current, m_error_count, draft, decls, source_text>>

\* The first token of a unit, and those that are skipped after an error, are read where
\* no exception is caught.
SkipsToken == Pending("begin") \/ (Pending("recover") /\ ~ StopsRecovery)

skip_token ==
    /\ SkipsToken
    /\ Reads
    /\ goals' = IF goal[1] = "begin" THEN Tail(goals) ELSE goals
    /\ UNCHANGED <<m_error_count, draft, decls>>

uncaught ==
    /\ SkipsToken
    /\ Rejects
    /\ UNCHANGED <<m_error_count, goals, draft, decls>>

Holds(more, left) ==
    /\ unread' = [unread EXCEPT !.text = @ \o more, !.spare = left]
    /\ source_text' = source_text \o more

\* Not a step of the parser: what the file holds next is chosen when it is about to be
\* read, a part or the ending.
text_goes_on ==
    /\ SkipsToken \/ (Pending("take") /\ goal[2] = type)
    /\ Cut
    /\ \/ unread.spare > 0 /\ \E part \in unread.parts : Holds(part, unread.spare - 1)
       \/ Holds(unread.ending, -1)
    /\ UNCHANGED <<m_current, m_error_count, goals, draft, decls>>

AtEnd == Pending("program") /\ type = "eof"

-----------------------------------------------------------------------------
\* A new parser, for the next file.
Opened(file) ==
    /\ unread' = file
    /\ m_current' = NoToken /\ m_error_count' = 0
    /\ goals' = <<Rule("begin"), Rule("program")>>
    /\ draft' = NoDraft /\ decls' = <<>> /\ source_text' = file.text

Parse ==
    \/ expand \/ consume("") \/ consume("name") \/ consume("params")
    \/ invalid_token \/ unexpected \/ declare \/ recovered \/ skip_token
    \/ text_goes_on

ParserInit ==
    /\ unread = EmptyFile
    /\ m_current = NoToken /\ m_error_count = 0
    /\ goals = <<>> /\ draft = NoDraft /\ decls = <<>>
    /\ source_text = <<>>
=============================================================================
