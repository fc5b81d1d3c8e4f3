------------------------------- MODULE Analyzer -------------------------------
(***************************************************************************)
(* Analyzer (src/src/semantics/analyzer.cpp): two passes over the          *)
(* declarations of all files, the first for the names of the functions,    *)
(* the second through the bodies.  A body is a stream of events (Parser);  *)
(* found is the stack of what check_expr has returned for the operands in  *)
(* progress, Nothing where it has reported an error.                       *)
(***************************************************************************)
EXTENDS Integers, Sequences, FiniteSets

VARIABLES
    program,          \* the declarations: [kind, name, params, body]
    m_scopes,         \* each a function from names to items, the innermost last
    m_prepassing,
    decl, at,         \* the declaration being checked, and the event of its body
    found,
    verdict           \* "waiting", "checking", "accepted", "refused" or "died"

analyzerVars == <<program, m_scopes, m_prepassing, decl, at, found, verdict>>
walk == <<decl, at, found>>

-----------------------------------------------------------------------------
(* Items and scopes                                                         *)

SemanticItem(kind, arity, group, readonly) ==
    [kind |-> kind, arity |-> arity, group |-> group, readonly |-> readonly]
Nothing == SemanticItem("nothing", 0, "temporary", TRUE)
Temporary(kind) == SemanticItem(kind, 0, "temporary", TRUE)
Anything == Temporary("anything")
Callable(d) == SemanticItem("callable", Len(d.params), "locator", TRUE)
Parameter == SemanticItem("anything", 0, "locator", TRUE)
Element == SemanticItem("anything", 0, "locator", FALSE)
to_lvalue(item) == [item EXCEPT !.group = "locator", !.readonly = FALSE]

NoNames == [x \in {} |-> Nothing]
Known(x) == \E s \in DOMAIN m_scopes : x \in DOMAIN m_scopes[s]

lookup_named_item(x) ==
    IF ~ Known(x) THEN Nothing
    ELSE LET s == CHOOSE i \in DOMAIN m_scopes :
                    /\ x \in DOMAIN m_scopes[i]
                    /\ \A k \in DOMAIN m_scopes : x \in DOMAIN m_scopes[k] => k <= i
         IN m_scopes[s][x]

\* In the innermost scope, where the name must be new.
CanRecord(x) == x \notin DOMAIN m_scopes[Len(m_scopes)]
record_named_item(x, item) ==
    m_scopes' = [m_scopes EXCEPT ![Len(m_scopes)] =
                   [y \in DOMAIN @ \cup {x} |-> IF y = x THEN item ELSE @[y]]]

\* cm_table, which has the same answer for all arithmetic and comparisons.
Computes(item) == item.kind \in {"anything", "primitive"}

check_op_by_kinds(lhs, rhs) ==
    lhs.kind = "anything" \/ rhs.kind = "anything" \/ (Computes(lhs) /\ Computes(rhs))

CanAccess(lhs, rhs) ==
    /\ lhs.kind \in {"anything", "sequence_fixed", "sequence_flexible"}
    /\ Computes(rhs)

\* Mutant of check_assignability: any place will do.
AnyLocator(lhs) == lhs.group = "locator"

check_assignability(lhs) == ~ lhs.readonly /\ lhs.group = "locator"

-----------------------------------------------------------------------------
(* Reading a body                                                           *)

declaration == program[decl]
body == declaration.body
event == body[at]

Openers == {"sequence", "call", "lambda", "destructure"}
Closers == {"list", "tuple", "called", "lambda_end", "detup"}

\* The event that closes what event i opens, or is an immediate part of.
Close(events, i) ==
    LET Count(kinds, j) == Cardinality({k \in (i + 1)..j : events[k][1] \in kinds})
    IN CHOOSE j \in (i + 1)..Len(events) :
          /\ Count(Closers, j) = Count(Openers, j) + 1
          /\ \A k \in (i + 1)..(j - 1) : Count(Closers, k) <= Count(Openers, k)

\* The parts of a kind that are closed by event j.
PartsOf(events, kind, i, j) ==
    {k \in (i + 1)..(j - 1) : events[k][1] = kind /\ Close(events, k) = j}

Checking(pass) == verdict = "checking" /\ m_prepassing = pass /\ decl <= Len(program)
InBody == Checking(FALSE) /\ declaration.kind = "function" /\ Len(m_scopes) = 2
On(kinds) == InBody /\ at <= Len(body) /\ event[1] \in kinds

Last(n) == found[Len(found) - n]
Below(n) == SubSeq(found, 1, Len(found) - n)
Finds(n, item) == found' = Append(Below(n), item) /\ UNCHANGED <<decl, verdict>>
Goes(next) == at' = next
Unmoved == UNCHANGED <<program, m_scopes, m_prepassing>>

\* An error is reported, and every caller returns false.
Refuse == verdict' = "refused" /\ UNCHANGED <<program, m_scopes, m_prepassing, walk>>
Terminate == verdict' = "died" /\ UNCHANGED <<program, m_scopes, m_prepassing, walk>>

-----------------------------------------------------------------------------
(* Expressions                                                              *)

check_literal ==
    /\ On({"literal", "string", "name"})
    /\ Finds(0, CASE event[1] = "literal" -> Temporary("primitive")
                  [] event[1] = "string" ->
                        [Temporary("sequence_flexible") EXCEPT !.readonly = FALSE]
                  [] event[1] = "name" -> lookup_named_item(event[2]))
    /\ Goes(at + 1) /\ Unmoved

\* The first item that is wrong ends the check of the sequence.
check_item ==
    /\ On({"item"})
    /\ IF Last(0) = Nothing
       THEN Finds(1, Nothing) /\ Goes(Close(body, at) + 1)
       ELSE found' = Below(1) /\ Goes(at + 1) /\ UNCHANGED <<decl, verdict>>
    /\ Unmoved

check_sequence ==
    /\ On({"list", "tuple"})
    /\ Finds(0, IF event[1] = "tuple" THEN Temporary("sequence_fixed")
                ELSE [Temporary("sequence_flexible") EXCEPT !.readonly = FALSE])
    /\ Goes(at + 1) /\ Unmoved

check_lambda ==
    /\ On({"lambda"})
    /\ Finds(0, Nothing) /\ Goes(Close(body, at) + 1) /\ Unmoved

Argc == Cardinality(PartsOf(body, "argument", at, Close(body, at)))

\* The arguments are counted, and not looked at.  The arity of what may be anything
\* is not there to be read, and reading it throws; the error message about what is no
\* function looks for the last argument, and for none anything may happen.
check_call ==
    /\ On({"call"})
    /\ \/ /\ Last(0).kind = "callable" /\ Last(0).arity = Argc
          /\ Finds(1, Anything) /\ Goes(Close(body, at) + 1) /\ Unmoved
       \/ /\ Last(0).kind # "anything"
          /\ Last(0).kind = "callable" => Last(0).arity # Argc
          /\ Finds(1, Nothing) /\ Goes(Close(body, at) + 1) /\ Unmoved
       \/ Last(0).kind = "anything" /\ Terminate
       \/ Last(0).kind \notin {"anything", "callable", "nothing"} /\ Argc = 0 /\ Terminate

check_unary ==
    /\ On({"negate"})
    /\ Finds(1, IF Computes(Last(0)) THEN Anything ELSE Nothing)
    /\ Goes(at + 1) /\ Unmoved

check_binary ==
    /\ On({"binary"})
    /\ LET lhs == Last(1)
           rhs == Last(0)
       IN Finds(2, IF Nothing \in {lhs, rhs} THEN Nothing
                   ELSE IF event[2] = <<"seq_obj_get">>
                   THEN IF CanAccess(lhs, rhs) THEN Element ELSE Nothing
                   ELSE IF check_op_by_kinds(lhs, rhs) THEN Anything ELSE Nothing)
    /\ Goes(at + 1) /\ Unmoved

check_assign ==
    /\ On({"assign"})
    /\ Finds(2, IF Nothing \notin {Last(0), Last(1)} /\ check_assignability(Last(1))
                THEN Anything ELSE Nothing)
    /\ Goes(at + 1) /\ Unmoved

check_expr ==
    \/ check_literal \/ check_item \/ check_sequence \/ check_lambda \/ check_call
    \/ check_unary \/ check_binary \/ check_assign

-----------------------------------------------------------------------------
(* Statements                                                               *)

\* The expression of a statement, a condition or a tuple is done.
check_operand ==
    /\ On({"expression", "then", "do", "return", "detup"})
    /\ \/ Last(0) = Nothing /\ Refuse
       \/ /\ Last(0) # Nothing
          /\ found' = Below(1) /\ Goes(at + 1) /\ UNCHANGED <<decl, verdict>> /\ Unmoved

check_local_def ==
    /\ On({"def"})
    /\ \/ (Last(0) = Nothing \/ ~ CanRecord(event[2])) /\ Refuse
       \/ /\ Last(0) # Nothing /\ CanRecord(event[2])
          /\ record_named_item(event[2], to_lvalue(Last(0)))
          /\ found' = Below(1) /\ Goes(at + 1)
          /\ UNCHANGED <<program, m_prepassing, decl, verdict>>

\* Where the names of a destructuring end; its right-hand side must be written out as
\* a tuple of as many items.  The names are not recorded.
check_detup_def ==
    /\ On({"destructure"})
    /\ LET close == Close(body, at)
           names == {k \in (at + 1)..close :
                       \A i \in (at + 1)..k : body[i][1] = "detup_name"}
           rhs == at + Cardinality(names) + 1
           Sound ==
              /\ \A k \in names : ~ Known(body[k][2])
              /\ body[rhs][1] = "sequence" /\ Close(body, rhs) = close - 1
              /\ body[close - 1][1] = "tuple"
              /\ Cardinality(PartsOf(body, "item", rhs, close - 1)) = Cardinality(names)
       IN \/ ~ Sound /\ Refuse
          \/ Sound /\ Goes(rhs) /\ UNCHANGED <<found, decl, verdict>> /\ Unmoved

\* The other events are passed by; an else that is missing is, too.
pass_by ==
    /\ On({"if", "else", "while", "end", "break", "sequence"})
    /\ Goes(at + 1) /\ UNCHANGED <<found, decl, verdict>> /\ Unmoved

check_stmt == check_operand \/ check_local_def \/ check_detup_def \/ pass_by

-----------------------------------------------------------------------------
(* Declarations                                                             *)

begin_analysis ==
    /\ verdict = "waiting"
    /\ verdict' = "checking"
    /\ m_scopes' = <<NoNames>>
    /\ UNCHANGED <<program, m_prepassing, walk>>

NextDeclaration == decl' = decl + 1 /\ at' = 1 /\ UNCHANGED <<found, verdict>>

\* The first pass records functions and natives.
prepass ==
    /\ Checking(TRUE)
    /\ \/ /\ declaration.kind = "import"
          /\ NextDeclaration /\ UNCHANGED <<program, m_scopes, m_prepassing>>
       \/ /\ declaration.kind # "import" /\ CanRecord(declaration.name)
          /\ record_named_item(declaration.name, Callable(declaration))
          /\ NextDeclaration /\ UNCHANGED <<program, m_prepassing>>
       \/ /\ declaration.kind # "import" /\ ~ CanRecord(declaration.name) /\ Refuse

second_pass ==
    /\ verdict = "checking" /\ m_prepassing /\ decl > Len(program)
    /\ m_prepassing' = FALSE /\ decl' = 1
    /\ UNCHANGED <<program, m_scopes, at, found, verdict>>

skip_declaration ==
    /\ Checking(FALSE) /\ declaration.kind # "function"
    /\ NextDeclaration /\ UNCHANGED <<program, m_scopes, m_prepassing>>

enter_function ==
    /\ Checking(FALSE) /\ declaration.kind = "function" /\ Len(m_scopes) = 1
    /\ LET params == declaration.params
           Twice == \E i, k \in DOMAIN params : i # k /\ params[i] = params[k]
       IN \/ Twice /\ Refuse
          \/ /\ ~ Twice
             /\ m_scopes' = Append(m_scopes, [x \in {params[i] : i \in DOMAIN params} |-> Parameter])
             /\ UNCHANGED <<program, m_prepassing, walk, verdict>>

\* Mutant of ScopesLeft: the names of the function go to the global scope.
ScopesMerged ==
    <<[x \in DOMAIN m_scopes[1] \cup DOMAIN m_scopes[2] |->
         IF x \in DOMAIN m_scopes[2] THEN m_scopes[2][x] ELSE m_scopes[1][x]]>>

\* Mutant of ScopesLeft: the scope is not left.
ScopesKept == m_scopes

ScopesLeft == SubSeq(m_scopes, 1, Len(m_scopes) - 1)

leave_function ==
    /\ InBody /\ at > Len(body)
    /\ m_scopes' = ScopesLeft
    /\ NextDeclaration /\ UNCHANGED <<program, m_prepassing>>

all_checked ==
    /\ verdict = "checking" /\ ~ m_prepassing /\ decl > Len(program)
    /\ verdict' = "accepted"
    /\ m_scopes' = <<>>
    /\ UNCHANGED <<program, m_prepassing, walk>>

Analyze ==
    \/ begin_analysis \/ prepass \/ second_pass \/ skip_declaration
    \/ enter_function \/ leave_function \/ all_checked
    \/ check_expr \/ check_stmt

AnalyzerInit ==
    /\ program = <<>>
    /\ m_scopes = <<>> /\ m_prepassing = TRUE
    /\ decl = 1 /\ at = 1 /\ found = <<>>
    /\ verdict = "waiting"

-----------------------------------------------------------------------------
(* What is accepted                                                         *)

\* The operands and the brackets that are open after each event of a body.
Adds == {"name", "literal", "string", "list", "tuple", "lambda"}
Uses == {"item", "argument", "binary", "assign", "expression", "def", "then", "do",
         "return", "detup"}
CountUpTo(events, kinds, i) == Cardinality({k \in 1..i : events[k][1] \in kinds})
Height(events) ==
    [i \in 0..Len(events) |-> CountUpTo(events, Adds, i) - CountUpTo(events, Uses, i)]
Depth(events) ==
    [i \in 0..Len(events) |-> CountUpTo(events, Openers, i) - CountUpTo(events, Closers, i)]

\* Events that are checked: the arguments of calls are not.
Checked(events, i) ==
    \A k \in 1..(i - 1) : events[k][1] = "call" => Close(events, k) <= i

Functions == {program[i].name : i \in {k \in DOMAIN program : program[k].kind # "import"}}
FunctionNamed(x) ==
    program[CHOOSE i \in DOMAIN program : program[i].kind # "import" /\ program[i].name = x]
ParamsOf(d) == {d.params[k] : k \in DOMAIN d.params}
Locals(d, i) ==
    ParamsOf(d) \cup
    {d.body[k][2] : k \in {j \in 1..(i - 1) : d.body[j][1] = "def" /\ Checked(d.body, j)}}

NamesDiffer ==
    \A i, k \in DOMAIN program :
        program[i].kind # "import" /\ program[k].kind # "import"
          /\ program[i].name = program[k].name => i = k

\* What lowering asks of event i of a function.
LowerableAt(d, i) ==
    LET events == d.body
        x == events[i][2]
    IN /\ events[i][1] = "name" => x \in Functions \cup Locals(d, i)
       /\ events[i][1] = "def" => x \notin Locals(d, i)
       /\ (i < Len(events) /\ events[i][1] = "name" /\ events[i + 1][1] = "call"
             /\ x \notin Locals(d, i)) =>
             Cardinality(PartsOf(events, "argument", i + 1, Close(events, i + 1)))
                = Len(FunctionNamed(x).params)

\* What Lowering relies on of every program that is accepted: outside of arguments, a
\* name is known where it is read, and in the function that reads it; none is defined
\* twice; and a function is called with as many arguments as it has parameters.
AcceptedIsLowerable ==
    verdict = "accepted" =>
        /\ NamesDiffer
        /\ \A f \in DOMAIN program : program[f].kind = "function" =>
              \A i \in DOMAIN program[f].body :
                  Checked(program[f].body, i) => LowerableAt(program[f], i)

\* The event that completes the left-hand side of the assignment at event i.
Target(events, i) ==
    LET Single(j) == Height(events)[j] = 1 /\ Depth(events)[j] = Depth(events)[i]
    IN CHOOSE j \in 1..(i - 1) : Single(j) /\ \A k \in (j + 1)..(i - 1) : ~ Single(k)

\* A local variable, or an item of a sequence.
Variable(d, j, i) ==
    \/ d.body[j][1] = "name" /\ d.body[j][2] \in Locals(d, i) \ ParamsOf(d)
    \/ d.body[j] = <<"binary", <<"seq_obj_get">>>>

AssignsVariable(d, i) == d.body[i][1] = "assign" => Variable(d, Target(d.body, i), i)

\* An accepted program changes nothing but local variables and items of sequences: no
\* parameter, function, literal or result of an operation.
AssignsOnlyVariables ==
    verdict = "accepted" =>
        \A f \in DOMAIN program : program[f].kind = "function" =>
            \A i \in DOMAIN program[f].body :
                Checked(program[f].body, i) => AssignsVariable(program[f], i)
=============================================================================
