------------------------------ MODULE MCFrontend ------------------------------
(***************************************************************************)
(* Programs for the front end: every graph of imports among three files,   *)
(* expressions, statements and phrases for the analyzer of a few parts     *)
(* each, texts with errors in them, and sources of Samples as texts.       *)
(***************************************************************************)
EXTENDS Frontend, Samples, TLC

Seqs == INSTANCE SequencesExt

MCLetters == {"a", "b", "f", "g", "i", "l", "n", "p", "s", "t", "x", "y", "z", "main", "count", "ans", "foo",
              "print", "prompt_int", "list_push_back", "len_of",
              "true", "false", "fn", "import", "fun", "native", "def", "detup", "if",
              "else", "match", "_", "return", "while", "break"}
MCDigits == {"0", "1", "2", "3", "5"}

\* Words, with blanks between them.
Spelled(word) ==
    CASE word = "==" -> <<"=", "=">> [] word = "=>" -> <<"=", ">">>
      [] word = "1-2" -> <<"1", "-", "2">> [] word = "n-1" -> <<"n", "-", "1">>
      [] OTHER -> <<word>>
Words(words) ==
    LET text[n \in 0..Len(words)] ==
          IF n = 0 THEN <<>> ELSE text[n - 1] \o Spelled(words[n]) \o <<" ">>
    IN text[Len(words)]

File(text, parts, spare, ending) ==
    [text |-> text, parts |-> parts, spare |-> spare, ending |-> ending]
Alone(file) == [p \in {Main} |-> file]
Each(words) == {Words(w) : w \in words}

MCMain == <<"main">>
MCPaths == {<<"main">>, <<"a">>, <<"f">>, <<"lost">>}

\* Files that import any two of the others, or themselves; one is not there.
ImportOf(path) == <<"import", " ", "\"">> \o path \o <<"\"", " ">>
ImportGraphs ==
    [p \in MCPaths \ {<<"lost">>} |->
        File(<<>>, {ImportOf(q) : q \in MCPaths \ {IF p = Main THEN <<"lost">> ELSE <<"f">>}},
             2, <<>>)]

MainOf(params) == <<"fun", "main", ":", "[">> \o params \o <<"]", "=>", "{">>

Expressions(n) ==
    Alone(File(Words(MainOf(<<"x">>) \o <<"return", "x">>),
        Each({<<"+", "x">>, <<"*", "x">>, <<"<", "x">>, <<"==", "1">>, <<".", "x">>, <<"(", "x">>,
              <<")">>, <<"%", "(", "-", "x">>, <<",", "{", "x", ",", "1", "}">>}),
        n, Words(<<"}">>)))

Statements(n) ==
    Alone(File(Words(MainOf(<<"x">>)),
        Each({<<"if", "x", "{">>, <<"while", "x", "{">>, <<"}">>, <<"else", "{">>,
              <<"def", "y", "=", "1">>, <<"y", "=", "x">>, <<"return", "[", "x", "]">>, <<"break">>,
              <<"detup", "[", "a", ",", "y", "]", "=", "[", "x", ",", "1", "]">>}),
        n, Words(<<"}">>)))

\* Functions p of one parameter, a native, f, g and main.
Phrases(n) ==
    Alone(File(Words(<<"native", "fun", "p", ":", "[", "a", "]",
                       "fun", "f", ":", "[", "x", "]", "=>", "{">>),
        Each({<<"def", "y", "=", "x">>, <<"def", "y", "=", "p">>, <<"def", "f", "=", "{", "}">>,
              <<"y", "=", "{", "1", "}">>, <<"x", "=", "1">>, <<"y", ".", "0", "=", "y">>,
              <<"f", "(", "z", ")">>, <<"y", "(", ")">>, <<"y", "(", "y", ")">>,
              <<"detup", "[", "z", "]", "=", "[", "y", "]">>, <<"{", "z", "}">>,
              <<"p", "(", "fn", "[", "]", "=>", "{", "z", "}", ")">>,
              <<"}", "fun", "g", ":", "[", "z", "]", "=>", "{">>}),
        n, Words(<<"}">> \o MainOf(<<>>) \o <<"return", "f", "(", "1", ")", "}">>)))

\* Pieces of declarations, and characters next to each other.
Broken(n) ==
    Alone(File(<<>>,
        Each({<<"fun", "f", ":", "[", "x">>, <<"]">>, <<"=>", "{">>, <<"}">>, <<"native">>, <<"def">>,
              <<"fn", "[", ",">>, <<"?">>}) \cup {ImportOf(<<"lost">>)},
        n, <<"\n">>))
Characters(n) ==
    Alone(File(Words(MainOf(<<>>)),
        {<<"x">>, <<"1">>, <<"-">>, <<".">>, <<"=">>, <<">">>, <<"#">>, <<"'">>, <<"\"">>, <<" ">>, <<"fun">>},
        n, <<"\n">>))

\* Sources of Samples, by hand.
Asking == MainOf(<<>>) \o <<"def", "x", "=", "prompt_int", "(", ")",
                          "return", "f", "(", "x", ")", "}">>
Natives1(name, params) == <<"native", "fun", name, ":", "[">> \o params \o <<"]">>
\* A sign is part of a numeral in it or before it: no subtraction is in this one.
SignsSource == <<Fun("main", <<>>,
    Let("n", Lit("1-2")) \o Return(Var("n")) \o Do(Lit("-1")))>>

Texts ==
    {<<SumLoopSource, Asking \o
       <<"fun", "f", ":", "[", "n", "]", "=>", "{", "def", "count", "=", "n", "def", "ans", "=", "0",
         "while", "count", ">", "0", "{", "ans", "=", "ans", "+", "count",
         "count", "=", "count", "-", "1", "}", "return", "ans", "}">>>>,
     <<FibonacciSource, Asking \o
       <<"fun", "f", ":", "[", "n", "]", "=>", "{", "if", "n", "<", "2", "{", "return", "n", "}",
         "return", "f", "(", "n", "-", "1", ")", "+", "f", "(", "n", "-", "2", ")", "}">>>>,
     <<AccessSeqsSource, MainOf(<<>>) \o
       <<"def", "x", "=", "prompt_int", "(", ")", "def", "foo", "=", "{", "1", "}",
         "foo", ".", "0", "=", "x", "return", "foo", ".", "0", "}">>>>,
     <<PushToTupleSource, MainOf(<<>>) \o
       <<"def", "x", "=", "prompt_int", "(", ")", "def", "t", "=", "[", "1", "]",
         "if", "x", "==", "0", "{", "list_push_back", "(", "t", ",", "3", ")", "}",
         "return", "len_of", "(", "t", ")", "}">>>>,
     <<BreaksOutSource, MainOf(<<>>) \o
       <<"def", "n", "=", "prompt_int", "(", ")", "def", "s", "=", "0",
         "while", "n", ">", "0", "{", "if", "n", "==", "2", "{", "break", "}",
         "if", "n", "==", "1", "{", "s", "=", "s", "+", "5", "}",
         "else", "{", "s", "=", "s", "+", "n", "}", "n", "=", "n", "-", "1", "}",
         "return", "s", "}">>>>,
     <<NegatesSource, MainOf(<<>>) \o
       <<"def", "x", "=", "prompt_int", "(", ")", "def", "b", "=", "x", "==", "0",
         "return", "-", "b", "}">>>>,
     <<CallsInLoopSource, MainOf(<<>>) \o
       <<"def", "i", "=", "0", "def", "s", "=", "0", "while", "i", "<", "2", "{",
         "s", "=", "s", "+", "f", "(", "i", ")", "i", "=", "i", "+", "1", "}", "return", "s", "}",
         "fun", "f", ":", "[", "x", "]", "=>", "{", "return", "x", "}">>>>,
     <<SignsSource, MainOf(<<>>) \o <<"def", "n", "=", "1-2", "return", "n-1", "}">>>>}

\* Each with the natives it may call.
TextFile(words) ==
    Alone(File(Words(Natives1("prompt_int", <<>>) \o Natives1("len_of", <<"l">>) \o
                     Natives1("list_push_back", <<"l", ",", "x">>) \o words), {}, 0, <<>>))

SampleFiles == {<<pair[1], TextFile(pair[2])>> : pair \in Texts}
Expressed == Expressions(4)

MCFileSets ==
    {ImportGraphs, Expressed, Statements(4), Phrases(3), Broken(4), Characters(4)} \cup
    {pair[2] : pair \in SampleFiles}

-----------------------------------------------------------------------------
(* Texts and what they are parsed to                                        *)

\* Sources of Samples are accepted, and parsed to the events that MCCompiler compiles.
Flat(text) == Seqs!FoldLeft(\o, "", text)
SampleFunction(d) ==
    Fun(Flat(d.name), [i \in DOMAIN d.params |-> Flat(d.params[i])],
        [i \in DOMAIN d.body |-> <<d.body[i][1], Flat(d.body[i][2])>>])
IsFunction(d) == d.kind = "function"

SamplesParse ==
    outcome # "parsing" =>
        \A pair \in SampleFiles : files = pair[2] =>
            LET functions == SelectSeq(program, IsFunction)
            IN /\ outcome = "parsed" /\ verdict \notin {"refused", "died"}
               /\ pair[1] = [i \in DOMAIN functions |-> SampleFunction(functions[i])]

\* A unit has been parsed without an error.
UnitParsed == AtEnd /\ m_error_count = 0

OperatorText ==
    [lt |-> <<"<">>, gt |-> <<">">>, lte |-> <<"<", "=">>, gte |-> <<">", "=">>,
     equ |-> <<"=", "=">>, neq |-> <<"!", "=">>, add |-> <<"+">>, sub |-> <<"-">>,
     mul |-> <<"*">>, div |-> <<"/">>, mod |-> <<"%">>, seq_obj_get |-> <<".">>]

\* The text of events: a stack of texts, that of the statements below the operands'.
TextOf(events) ==
    LET text[i \in 0..Len(events)] ==
          IF i = 0 THEN <<<<>>>>
          ELSE LET e == events[i]
                   s == text[i - 1]
                   n == Len(s)
                   Put(t) == Append(s, t)
                   Around(before, after) == [s EXCEPT ![n] = before \o @ \o after]
                   Join(between, after) ==
                      Append(SubSeq(s, 1, n - 2), s[n - 1] \o between \o s[n] \o after)
                   arrow == IF events[i + 1][1] = "parameter" THEN <<>>
                            ELSE <<"]", "=", ">", "{">>
               IN CASE e[1] \in {"name", "literal"} -> Put(e[2])
                    [] e[1] = "string" -> Put(<<"\"">> \o e[2] \o <<"\"">>)
                    [] e[1] = "sequence" -> Put(<<>>)
                    [] e[1] = "list" -> Around(<<"{">>, <<"}">>)
                    [] e[1] = "tuple" -> Around(<<"[">>, <<"]">>)
                    [] e[1] = "lambda" -> Put(<<"fn", "[">> \o arrow)
                    [] e[1] = "parameter" -> Around(<<>>, e[2] \o arrow)
                    [] e[1] = "negate" -> Around(<<"-">>, <<>>)
                    [] e[1] = "binary" -> Join(OperatorText[e[2][1]], <<>>)
                    [] e[1] = "assign" -> Join(<<"=">>, <<>>)
                    [] e[1] \in {"item", "argument", "expression"} -> Join(<<>>, <<>>)
                    [] e[1] = "def" -> Join(<<"def">> \o e[2] \o <<"=">>, <<>>)
                    [] e[1] = "return" -> Join(<<"return">>, <<>>)
                    [] e[1] = "detup" -> Join(<<"]", "=">>, <<>>)
                    [] e[1] \in {"then", "do"} -> Join(<<>>, <<"{">>)
                    [] e[1] \in {"if", "while", "break"} -> Around(<<>>, <<e[1]>>)
                    [] e[1] = "else" -> Around(<<>>, <<"}", "else", "{">>)
                    [] e[1] \in {"end", "lambda_end"} -> Around(<<>>, <<"}">>)
                    [] e[1] = "destructure" -> Around(<<>>, <<"detup", "[">>)
                    [] e[1] = "detup_name" -> Around(<<>>, e[2])
                    [] OTHER -> s
    IN text[Len(events)][1]

Joined(seqs) ==
    LET joined[n \in 0..Len(seqs)] == IF n = 0 THEN <<>> ELSE joined[n - 1] \o seqs[n]
    IN joined[Len(seqs)]

TextOfDeclaration(d) ==
    LET signature == <<"fun">> \o d.name \o <<":", "[">> \o Joined(d.params) \o <<"]">>
    IN CASE d.kind = "import" -> <<"import", "\"">> \o d.name \o <<"\"">>
         [] d.kind = "native" -> <<"native">> \o signature
         [] d.kind = "function" -> signature \o <<"=", ">", "{">> \o TextOf(d.body) \o <<"}">>

Kept(c) == c \notin {" ", "\n", ",", "(", ")"}
Brace(c) == c = "}"

\* What has been parsed without an error says all that its text says, in that order:
\* no name, operator, branch or statement is lost, moved or made up, but for the braces
\* of blocks that are still open at the end of the file.  (Blanks, commas and
\* parentheses are not compared, nor texts with comments.)
NothingLost ==
    (UnitParsed /\ \A i \in DOMAIN source_text : source_text[i] # "#") =>
        LET written == SelectSeq(source_text, Kept)
            understood ==
                SelectSeq(Joined([i \in DOMAIN decls |-> TextOfDeclaration(decls[i])]), Kept)
            added == From(understood, Len(written) + 1)
        IN understood = written \o added /\ added = SelectSeq(added, Brace)

-----------------------------------------------------------------------------
(* How expressions group, from the text alone.                              *)

Precedence(op) ==
    CASE op \in {"lt", "gt", "lte", "gte"} -> 1 [] op \in {"equ", "neq"} -> 2
      [] op \in {"add", "sub"} -> 3 [] op \in {"mul", "div", "mod"} -> 4

\* The brackets open after a position.
Nesting(ts) ==
    LET Sort(brackets, i) == Cardinality({k \in 1..i : ts[k] \in brackets})
    IN [i \in 0..Len(ts) |-> Sort({"(", "{"}, i) - Sort({")", "}"}, i)]
Outside(ts, c) == {i \in DOMAIN ts : ts[i] = c /\ Nesting(ts)[i] = 0}

\* The operators outside of brackets, with their positions.
Binaries(ts) ==
    {b \in (2..Len(ts)) \X (DOMAIN OperatorText \ {"seq_obj_get"}) :
        LET sign == OperatorText[b[2]]
        IN /\ b[1] + Len(sign) - 1 <= Len(ts) /\ SubSeq(ts, b[1], b[1] + Len(sign) - 1) = sign
           /\ Nesting(ts)[b[1]] = 0 /\ ts[b[1] - 1] \notin OperatorChars}

\* The last of the lowest precedence is on top of the tree.
TopBinary(ts) ==
    CHOOSE b \in Binaries(ts) : \A o \in Binaries(ts) :
        \/ Precedence(b[2]) < Precedence(o[2])
        \/ Precedence(b[2]) = Precedence(o[2]) /\ b[1] >= o[1]

\* The parts between commas.
Listed(ts) ==
    LET cuts == {0, Len(ts) + 1} \cup Outside(ts, ",")
        Nth(n) == CHOOSE c \in cuts : Cardinality({d \in cuts : d < c}) = n
    IN IF ts = <<>> THEN <<>>
       ELSE [n \in 1..(Cardinality(cuts) - 1) |-> SubSeq(ts, Nth(n - 1) + 1, Nth(n) - 1)]

\* Calls bind more than access, access more than a sign, a sign more than operators;
\* what is accessed with comes last: a.b.c is a.(b.c).
RECURSIVE Tree(_)
Tree(ts) ==
    LET n == Len(ts)
        dots == Outside(ts, ".")
        dot == CHOOSE i \in dots : \A k \in dots : i <= k
        opened == CHOOSE i \in 1..n : Nesting(ts)[i - 1] = 0 /\ \A k \in i..(n - 1) : Nesting(ts)[k] > 0
        Mark1(kind) == <<<<kind, <<>>>>>>
        EachIn(parts, kind) == Joined([i \in DOMAIN parts |-> Tree(parts[i]) \o Mark1(kind)])
    IN IF Binaries(ts) # {}
       THEN LET b == TopBinary(ts)
            IN Tree(SubSeq(ts, 1, b[1] - 1)) \o Tree(From(ts, b[1] + Len(OperatorText[b[2]])))
                 \o <<<<"binary", <<b[2]>>>>>>
       ELSE IF ts[1] = "-" THEN Tree(Tail(ts)) \o Mark1("negate")
       ELSE IF dots # {}
       THEN Tree(SubSeq(ts, 1, dot - 1)) \o Tree(From(ts, dot + 1)) \o
            <<<<"binary", <<"seq_obj_get">>>>>>
       ELSE IF n = 1 THEN <<<<IF ts[1] \in Digits THEN "literal" ELSE "name", ts>>>>
       ELSE IF opened > 1
       THEN Tree(SubSeq(ts, 1, opened - 1)) \o Mark1("call") \o
            EachIn(Listed(SubSeq(ts, opened + 1, n - 1)), "argument") \o Mark1("called")
       ELSE IF ts[1] = "(" THEN Tree(SubSeq(ts, 2, n - 1))
       ELSE Mark1("sequence") \o EachIn(Listed(SubSeq(ts, 2, n - 1)), "item") \o Mark1("list")

\* An expression is parsed to the tree that the precedence of its operators, read off
\* the text, says: they group to the left, and brackets are respected.  (The texts are
\* those of one return statement, where no call is called or accessed in turn.)
Returning == Words(MainOf(<<"x">>) \o <<"return">>)
NoBlank(c) == c # " "

ExpressionsGroup ==
    (UnitParsed /\ files = Expressed) =>
        LET events == decls[1].body
            ts == SelectSeq(SubSeq(source_text, Len(Returning) + 1, Len(source_text) - 2), NoBlank)
        IN (/\ \A i \in DOMAIN events : events[i][1] # "expression"
            /\ \A i \in DOMAIN ts : i > 1 /\ ts[i - 1] = ")" => ts[i] \notin {"(", "."}) =>
              events = Tree(ts) \o <<<<"return", <<>>>>>>

=============================================================================
