--------------------------------- MODULE Lexer ---------------------------------
(***************************************************************************)
(* Lexer (src/src/frontend/lexing.cpp), as what its operator() gives for a *)
(* text: the first token, and the text that is left.  A text is a sequence *)
(* of characters; which of them are letters and digits is a parameter, so  *)
(* that a whole word can stand for a letter of the alphabet.  The line     *)
(* break is "\n".                                                          *)
(***************************************************************************)
EXTENDS Integers, Sequences, FiniteSets

CONSTANTS
    Letters,     \* match_alpha
    Digits       \* match_digit

Spaces == {" ", "\n"}
OperatorChars == {"*", "/", "%", "+", "-", "!", ":", "=", "<", ">"}
Singles ==
    {<<"[", "open_bracket">>, <<"]", "close_bracket">>, <<"{", "open_brace">>,
     <<"}", "close_brace">>, <<"(", "open_paren">>, <<")", "close_paren">>,
     <<",", "comma">>, <<":", "colon">>, <<".", "dot">>}

\* The entries of the driver: words and operators, with their token types.
m_items ==
    {<<<<"true">>, "literal_true">>, <<<<"false">>, "literal_false">>,
     <<<<"fn">>, "keyword_fn">>, <<<<"import">>, "keyword_import">>,
     <<<<"fun">>, "keyword_fun">>, <<<<"native">>, "keyword_native">>,
     <<<<"def">>, "keyword_def">>, <<<<"detup">>, "keyword_detup">>,
     <<<<"if">>, "keyword_if">>, <<<<"else">>, "keyword_else">>,
     <<<<"match">>, "keyword_match">>, <<<<"pat">>, "keyword_pat">>,
     <<<<"_">>, "keyword_discard">>, <<<<"return">>, "keyword_return">>,
     <<<<"while">>, "keyword_while">>, <<<<"break">>, "keyword_break">>,
     <<<<"*">>, "oper_times">>, <<<<"/">>, "oper_slash">>, <<<<"%">>, "oper_modulo">>,
     <<<<"+">>, "oper_plus">>, <<<<"-">>, "oper_minus">>,
     <<<<"=", "=">>, "oper_equality">>, <<<<"!", "=">>, "oper_inequality">>,
     <<<<"<">>, "oper_lesser">>, <<<<">">>, "oper_greater">>,
     <<<<"<", "=">>, "oper_at_most">>, <<<<">", "=">>, "oper_at_least">>,
     <<<<"=">>, "oper_assign">>, <<<<"=", ">">>, "arrow">>}

Entry(table, key, otherwise) ==
    IF \E entry \in table : entry[1] = key
    THEN (CHOOSE entry \in table : entry[1] = key)[2] ELSE otherwise

-----------------------------------------------------------------------------
\* A token, with the text after it.  Its own text is what the later stages read,
\* without the delimiters of strings and comments.
Token(type, text, rest) == [type |-> type, text |-> text, rest |-> rest]
From(s, i) == SubSeq(s, i, Len(s))

\* The first position from the second on with one of these characters, or past the end.
Next1(s, chars) ==
    CHOOSE i \in 2..(Len(s) + 1) :
        /\ i <= Len(s) => s[i] \in chars
        /\ \A k \in 2..(i - 1) : s[k] \notin chars

\* The longest run of these characters at the beginning.
Run(s, chars) ==
    SubSeq(s, 1, CHOOSE n \in 1..Len(s) :
                    /\ n < Len(s) => s[n + 1] \notin chars
                    /\ \A k \in 2..n : s[k] \in chars)

Whole(type, lexeme, s) == Token(type, lexeme, From(s, Len(lexeme) + 1))

lex_single(s) == Token(Entry(Singles, s[1], "unknown"), <<s[1]>>, Tail(s))

lex_spaces(s) == Whole("spaces", Run(s, Spaces), s)

\* Up to the next such character, which a text that is never closed does not have.
lex_between(s, type) ==
    LET close == Next1(s, {s[1]})
    IN Token(IF close <= Len(s) THEN type ELSE "unknown", SubSeq(s, 2, close - 1),
             From(s, close + 1))

\* Nothing is a character literal: the end that should be behind the beginning is
\* never moved.  The quote that closes it is left, and is the next token's first.
lex_char(s) == Token("unknown", <<>>, From(s, Next1(s, {"'", "\n"})))

\* A minus is part of a numeral, wherever it is: "1-2" is one integer.
lex_numeric(s) ==
    LET lexeme == Run(s, Digits \cup {".", "-"})
        Count(c) == Cardinality({i \in DOMAIN lexeme : lexeme[i] = c})
    IN Whole(IF Count("-") > 1 \/ Count(".") > 1 THEN "unknown"
             ELSE IF Count(".") = 1 THEN "literal_double" ELSE "literal_int", lexeme, s)

lex_operator(s) ==
    LET lexeme == Run(s, OperatorChars) IN Whole(Entry(m_items, lexeme, "unknown"), lexeme, s)

lex_word(s) ==
    LET lexeme == Run(s, Letters \cup Digits)
    IN Whole(Entry(m_items, lexeme, "identifier"), lexeme, s)

\* Mutant of StartsNumeral: any minus begins one.
MinusStarts(s) == s[1] \in Digits \cup {"-"}

StartsNumeral(s) == s[1] \in Digits \/ (s[1] = "-" /\ Len(s) > 1 /\ s[2] \in Digits)

lexer(s) ==
    IF s = <<>> THEN Token("eof", <<>>, <<>>)
    ELSE LET c == s[1]
         IN CASE c \in Spaces -> lex_spaces(s)
              [] c = "#" -> lex_between(s, "comment")
              [] c = "\"" -> lex_between(s, "literal_string")
              [] c = "'" -> lex_char(s)
              [] c \in Letters -> lex_word(s)
              [] StartsNumeral(s) -> lex_numeric(s)
              [] c \in OperatorChars \ {":"} /\ ~ StartsNumeral(s) -> lex_operator(s)
              [] OTHER -> lex_single(s)

-----------------------------------------------------------------------------
(* Parser::advance: the first token that is no space or comment.            *)

advance(s) ==
    LET at[n \in 0..Len(s)] ==          \* when n characters are left
          LET token == lexer(From(s, Len(s) - n + 1))
          IN IF token.type \in {"spaces", "comment"} THEN at[Len(token.rest)] ELSE token
    IN at[Len(s)]
=============================================================================
