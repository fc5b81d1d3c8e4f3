# Minuet in TLA+

Specifications of the Minuet language implementation (`src/`): its front end, from the files of
a program to the checked AST, its compiler, its register VM, its heap and its mark-and-sweep
collector; TLC configurations that check them on small instances; and TLAPS proofs, for every
size, of the import worklist, the parser's events and what the analyzer accepts, the compiler's
types and the calling convention of what it emits, the values, the heap, the collector, and the
engine: heap, pointers, types and the stack of activations under every program that it may run.
Paths below are relative to `src/src/`, but for `docs/` and `test_suite/`, which are in `src/`.

1. [Inventory](#1-inventory) of the system
2. [Modules](#2-modules), and how they correspond to the code
3. [Runs](#3-runs): what is checked, within which bounds, and what it shows
4. [Fairness](#4-fairness)
5. [Proofs](#5-proofs)
6. [Disagreements](#6-disagreements-between-code-and-documentation) between code and documentation
7. [Not modelled](#7-what-is-not-modelled-and-what-is-only-model-checked)
8. [Plan](#8-plan)

## 1. Inventory

One process, one thread, no persistence: `main.cpp` registers fifteen native procedures and
calls `Driver::operator()`, which runs the stages one after the other on the whole program.

    text -> Lexer -> Parser -> (imports) -> Analyzer -> ASTConversion -> Emitter -> Engine

| component | state | operations | what makes it correct |
|---|---|---|---|
| Lexer (`frontend/lexing`) | position, line, column | `operator()`: next token | every character is in one token, or in a blank or comment |
| Parser (`frontend/parsing`) | two tokens, error count | one function per rule; `recover` | ends on every input, errors or not; the tree says what the text says |
| Import worklist (`driver.cpp:82`) | stack of pending sources, set of visited paths | `parse_sources` | each file parsed once, cycles included; every file named by an import is reached |
| Analyzer (`semantics/analyzer`) | stack of scopes, diagnostics count | one check per expression and statement | what it accepts, the lowering can lower |
| AST to IR (`ir/convert_ast`, `ir/cfg`) | graphs, names, literals, next register, pending links | one `emit_...` per expression and statement | blocks linked as the source nests; registers neither shared nor out of order |
| Emitter (`bcgen/emitter`) | chunks, open ifs and loops, stack of blocks | `emit_chunk`, `emit_bb`, `emit_step` | every block emitted once, in an order its fall-throughs survive; every jump patched |
| Engine (`runtime/vm`) | six special registers, register file, frames, program | one `handle_...` per opcode | a stack of activations; stops with a status, never in undefined behaviour |
| Heap (`runtime/heap_storage`) | cells, hole queue, next id, score | `try_create_value`, `try_destroy_value`, `is_ripe` | a bounded pool: no cell lost, overwritten or handed out twice |
| Collector (`vm.cpp:211`) | queue, visited set, cell index | `try_mark_and_sweep` at each return | marks what the registers reach, no more, no less; destroys the rest |
| Values (`runtime/*_value`) | tag and union; item vectors with a frozen flag | arithmetic, comparisons, references, push, pop, freeze | C's integer arithmetic; orders that are total but for NaN; references survive or dangle, never shift |
| Natives (`mintrinsics`) | none (they work on the engine) | fifteen procedures | argument and result registers by the calling convention |
| Plugins (`driver/plugins`) | none | print IR and bytecode | |

The stages hand over data: a text, tokens, declarations with the number of their source, graphs,
chunks.  The stack of pending sources is the one thing that two of them change: the parser
pushes the imports it meets, the driver pops them.

Interaction is by calls and by shared state only.  The parts that share state are the engine,
the heap, the natives and the collector: a native reaches into the engine's registers and
creates objects in its heap; the collector runs inside a return and reads the registers of the
frames that are left.  The compiler and the engine share an agreement that no single place
writes down: which register holds an argument, a result and a variable.

There are no threads, messages or crashes to model.  What is hard here:

- *long legal sequences*: creation, destruction, reuse of cells and collection in any order;
- *stale state*: item references into vectors that are reallocated, registers that keep pointers
  across a collection, a top-of-frames register that never comes down within a function;
- *order*: bytecode comes out in the order in which a depth-first search visits the blocks, and
  jumps are patched by markers met on the way, so every nesting of `if`, `else`, `while` and
  `break` is another case;
- *limits*: a full heap, a full frame stack, the width of integers, the ends of lists and
  slices;
- *partial failure*: handlers and natives that have changed something when they find an error; a
  statement that cannot be lowered in the body of an `if` or a `while`; calls whose arguments
  nobody checks;
- *recovery*: an error in a declaration, after which parsing goes on at the next one, from tokens
  that were read ahead;
- *termination* of the traversal on cyclic data, of the interpreter's loop, of error recovery, and
  of imports that form cycles.

`PROJECT.json` lists each of these hazards at its line, with the properties that cover it.

## 2. Modules

Each line says what a module extends; `=>` is a refinement (`INSTANCE`, or a theorem).

    Parser             Lexer
    Frontend           Sources, Parser, Analyzer      => Sources
    MCFrontend         Frontend, Samples
    FrontendProofs     Frontend
    AnalyzerProofs     FrontendProofs

    Emitter            Lowering, Bytecode
    MCCompiler         Emitter, Samples
    CompilerProofs     Emitter

    HeapStorage        Addresses                      => ObjectPool
    MCHeap             HeapStorage
    HeapStorageProofs  HeapStorage
    Collector          HeapStorage
    MCCollector        Collector
    CollectorProofs    Collector, HeapStorageProofs

    FastValue          Addresses
    FastValueProofs    FastValue
    MCValues           FastValue
    MCValuesProofs     MCValues, FastValueProofs

    EngineState        HeapStorage, FastValue, Bytecode
    Natives            EngineState
    Engine             Natives                        => ActivationStack
    MCEngine           Engine, Samples
    EngineProofs       Engine, HeapStorageProofs, FastValueProofs

| module | models | state and actions |
|---|---|---|
| `Addresses` | | the addresses of heap objects, which cells own and values point to |
| `HeapStorage` | `heap_storage.{hpp,cpp}` | the four fields under their own names; `try_create_value`, `try_destroy_value`.  An object is an address. Creation at an id past the vector is undefined in C++: `OutOfBounds` holds then, and nothing follows. |
| `ObjectPool` | (abstract) | a set of at most `Size` objects that only a full pool can overflow |
| `Collector` | `vm.cpp:211-257` | one action per loop iteration: `ScanRegister`, `Visit`, `ScanItem`, `ItemsDone`, `Sweep`, ...; `handle_make_seq`, `handle_seq_obj_push`, `handle_mov`, `handle_ret` shape the object graph in between.  `phase` is the loop the code is in, `cursor` its index. |
| `FastValue` | `fast_value`, `sequence_value`, `string_value` | pure operators on values and on what heap objects hold; a double is a fraction in lowest terms, an infinity (1/0, -1/0: what is above `MaxDouble`) or NaN (0/0), for which arithmetic and comparisons do as IEEE 754 says; an item vector has a capacity (`room`) and a buffer number (`gen`), so that a reference into a replaced buffer dangles |
| `EngineState` | `vm.hpp`, the constructor, `fetch_value` | `m_memory`, `m_call_frames`, `m_rfi`, `m_rip`, `m_rbp`, `m_rft`, `m_res`; `contents` (what objects hold), `inputs` (what the terminal gave), `fault` |
| `Bytecode` | `bytecode.hpp`, `docs/vm.md` | no state: what the engine takes for granted of a chunk and the emitter has to see to.  Which arguments are no registers; where the arguments of a call have to be (`ArgumentsInPlace`); `Prepared` programs.  `Emitter` and `Engine` state their sides of it with the same operators. |
| `Natives` | `mintrinsics/*.cpp`, `handle_native_call`, `handle_native_fn_access`, `handle_native_fn_return` | one operator per native, its preconditions in `NativeUndefined` and `NativeTerminates` |
| `Engine` | `vm.cpp`, all handlers | one action per handler, a return with the collection it may end with (in one step; `Collector` takes it apart) |
| `ActivationStack` | (abstract) | calls push, returns pop, and nothing touches a suspended function's registers |
| `Sources` | `driver.cpp:82-130` | the stack `sources_frontier`, `visited_paths`, `m_src_map` and the rest under their own names; `skip_visited`, `read_source`, `pend_import`, `source_parsed`, `source_failed`.  What a file holds is open here. |
| `Lexer` | `lexing.cpp` | `advance` of a text: one operator per lexing function |
| `Parser` | `parsing.cpp` | `goals` is the call stack of the descent, as what is left to be done; one operator `parse_...` per function says what it comes to, given the current token; `consume`, `recovered`, `skip_token`, `uncaught`.  `text_goes_on` is not the parser's: it chooses what the file holds next. |
| `Analyzer` | `analyzer.cpp` | `m_scopes`, `m_prepassing`; one action per check, over the events of a body; `found` is what `check_expr` has returned for the operands in progress |
| `Frontend` | `driver.cpp:82-136` | composes the four: files are opened, parsed and joined as the worklist says, then checked |
| `Lowering` | `convert_ast.cpp`, `cfg.cpp` | one action per `emit_...`, split where it recurses: `begin_if`, `if_then`, `if_else`, `end_if_else`, ...; `fail_stmt` and the other actions of `pass_over` for what cannot be lowered |
| `Emitter` | `emitter.cpp` | `begin_chunk`, `visit_bb`, `skip_visited`, `all_emitted`; a block's steps are folded into the chunk by `emit_step` |
| `Samples` | programs of `test_suite` and their like | an assembler, bytecode listings, and the sources of eleven of them |
| `MCHeap`, `MCCollector`, `MCValues`, `MCEngine`, `MCCompiler`, `MCFrontend` | | instances, and the reference definitions properties compare with |
| `HeapStorageProofs`, `CollectorProofs`, `FastValueProofs`, `MCValuesProofs`, `EngineProofs`, `CompilerProofs`, `FrontendProofs`, `AnalyzerProofs` | | theorems |

Conventions.  Names are the code's where the code has one.  Undefined behaviour (an index out
of its vector, a null or dangling pointer, `int` overflow in a division) sets `fault` or `ub`
and stops the model; so does `std::terminate`.  The heap may return any free address.
`Mutant` in a comment marks a wrong variant of the operator that follows; no specification uses
it.  An instruction carries the mode of each argument (`<<"reg", 3>>`) in place of metadata
bits.  The AST is a stream of events in the order of the recursive descent, operands before
operators: `Parser` writes it, `Analyzer` and `Lowering` read it.  A source for `Lowering`, and a
file for `Frontend`, may leave parts open (`parts`, `spare`), and the model then chooses each
next part, so that one source stands for every program built of those parts.  A token is not read
before it has an end: while it reaches to the end of the text so far, the text goes on (`Cut`), so
that tokens go over the ends of parts as they would in a text that was there from the start.  A text is a
sequence of characters; a run may take a whole word for a letter of the alphabet, since the
lexer only asks whether a character is a letter (`Letters`, `Digits`).

The bytecode of the eleven samples that are given with their sources was compared with what
`minuetm compile-only` prints for them: it is the same, up to the numbers of the constants (the
samples share one pool in which constant k is k).  What `Lowering` says of sources that fail was
compared with the build, too: an `if` whose body has an unknown name runs its `else` when the
condition holds and nothing when it does not; without an `else`, or in a `while`, the compiler
faults; directly in a function, nothing comes out and nothing is reported.

## 3. Runs

`tlc -config X.cfg M` in this directory; the longest takes under three minutes.

| run | module, cfg | instance | shows |
|---|---|---|---|
| heap | `MCHeap` | 4 cells, 5 addresses, 2 preloads | hole queue, score and cells agree after any order of operations (`HolesAreEmptyCells`, `OverheadExact`); no overwrite; refinement of `ObjectPool` |
| collector | `MCCollector` | 3 cells and addresses, 2 registers, 3 object items, threshold of two objects | marking is exact (`MarkedAreReachable`, `ReachableAreMarked`), ends (`MarkEnds`); a scan that ends has emptied the heap (`CollectionIsTotal`); the heap stays sound |
| values | `MCValues` | 4-bit integers, doubles up to 4 with denominators up to 8, infinities and NaN, lists of 3 | arithmetic as in C; orders and `==` that agree, and none of them for NaN (`NumbersAreOrdered`); equality by items, frozen sequences keep their items, a push never makes a reference show another item |
| engine | `MCEngine` | 25 programs; 9 cells, 24 registers, 6 frames, 8-bit integers | no dangling pointer before a collection, frames refine `ActivationStack`, frozen sizes, heap in step with contents, meaning of 14 programs, instructions and calls that stay in their function's frame (`StaysInFrame`), `Halts` |
| frontend | `MCFrontend` | every graph of imports among three files and a missing one, two imports each; all texts of 4 parts of expressions, of statements, of declarations with errors and of characters, of 3 phrases with calls, assignments and scopes; the texts of 8 samples | the worklist's `EachPathOnce`, `TextAtHand`, `AllImportsParsed`; the samples' texts are parsed to the events that the compiler run lowers (`SamplesParse`); what is parsed says what the text says (`NothingLost`) and groups by precedence (`ExpressionsGroup`); what is accepted has the names, arities and targets that lowering relies on (`AcceptedIsLowerable`, `AssignsOnlyVariables`); every text comes to an end (`FrontendEnds`) |
| compiler | `MCCompiler` | 11 samples and a `detup`; all functions of 4 control statements, also inside `while x { if x {`; all expressions of 8 parts; definitions, assignments (in the value and in the target), `if`s and `while`s with names nothing is behind | samples compile to the bytecode the engine run executes; calls come right after the move of their last argument, and no jump between (`CallsPrepared`); chunks have the source's control flow and values; of what cannot be lowered, only the first body of an `if` with an `else` gets lost without stopping the compiler (`LostOnlyBeforeElse`) |
| heap_capacity, sweep_spares, sweep_faults, calls_in_loops, native_result, nested_else | | the same | see section 6 |

Why the bounds are enough.

- *heap*: holes can be made in every order, reused partly, and mixed with fresh ids with four
  cells; the step to the overflow is included.  Anything larger is covered by the proofs.
- *collector*: three objects give self-loops, two-cycles, shared and unreachable lists, an object
  queued twice, and a dangling register after a first collection.  The threshold lets both a
  full and a partly full heap become ripe.  Larger graphs are covered by the proofs.
- *values*: all pairs of 4-bit integers include the extremes and the one quotient that does
  not fit.  Arithmetic is parameterised by the width.  The greatest double is 4 here, so that sums
  and products of small ones overflow; infinity and NaN are operands, too, and -infinity comes of
  them.  The engine run has 1000, of which only the sample that squares it gets above.
- *engine*: the programs together fire every handler and every native, with and without errors;
  `Fills(4)` and `Fills(5)` are the two sides of the last free cell, `RecursesForever` of the last
  frame; `KeepsList` uses a list after a collection, `AsksForArguments` the list of the program's
  arguments before and after one.  Input comes from `MCInts`,
  `MCFloats` and `MCLines`: negative, zero, one and more; 3/2, the
  greatest double and NaN; a number, a negative one, a text.
- *frontend*: two imports in each of three files make self-imports, cycles, diamonds, an import
  that waits twice on the stack, and one of a file that is not there; larger sets of files are
  covered by the proofs.  Four parts of an expression reach every pair of precedence levels, a
  call or a list with an operator in and around it, and unbalanced brackets; four statements an
  `else` after nested `if`s and blocks left open at the end of the file.  The broken declarations
  have errors at every token of one, two errors in a row, an unknown character while recovering,
  and an error on `fun` itself.  Characters come next to each other without blanks: `1-1`, `x-1`,
  `=>`, `->`, `1.1` and numerals, comments and strings that never end are among the texts.  The
  phrases have callees that are parameters, results, natives
  and functions, arguments that nobody checks, and names of another function.
- *compiler*: with four control statements, and with six that begin with two open ones, every
  pairwise nesting of `if`, `else`, `while`, `break` and `return` occurs, with effects before,
  between and after.  Eight parts of an expression reach a call in an argument of a call, with
  sums and lists on both sides.

What two of the compiler's properties leave out, because the code gets it wrong and neither
documentation nor test says otherwise (each is a hazard in `PROJECT.json`):

- `FlowFollowsSource` is about functions whose `break`s have a loop and whose `else`s hold no `if`
  or `while` (section 6, nested_else), whose names are known, without `detup`, for which no code is
  emitted.
- `ValuesFollowSource` is about functions without branches, `detup` and unknown names, whose calls
  have at least one argument and whose arguments after the first are names or literals.  The
  others go wrong:
  in `f(x, y + 1)` the second argument's own registers separate the two argument registers; in
  `f() + g()` both results share a register that is not reserved; `-x` changes `x`; an access
  gives a reference.

And of the front end's: `AcceptedIsLowerable` leaves out the arguments of calls, at which the
analyzer never looks, and `AssignsOnlyVariables` says nothing of a variable that was initialised
with a function.  `NothingLost` does not compare blanks, commas and parentheses, and lets the
parser close blocks that are open at the end of a file, as it does.

`LostOnlyBeforeElse` is about what `emit_block` answers when a statement cannot be lowered: -1,
which nobody looks at.  The link from block -1 that the first body of an `if` with an `else` asks
for is not made, but the rest of the code still comes out: the `else` block takes the place of
the body.  Everywhere else a null pointer is used or nothing comes out.

And of the engine's: `OnlyCollectionDangles` excepts a collection, and `StaleArgv`: the natives get
the list of arguments by an address that the constructor has stored, and after a collection it
leads to nothing, or to whatever was created there.  A comment in the code expects as much
(`mnl_utils.cpp:61`).

`HeapInStep`, `EngineTypeOK`, `CompilerTypeOK` and `FrontendTypeOK` also tie parts of the state
together (contents with cells, items with rooms, links with blocks, addresses with the registers
given out, the analyzer's results with the operands that are complete); other
properties are stated in the comments above them.

## 4. Fairness

`Collector!FairSpec` is weak fairness of `Collect`: the collector's loops run in the VM's only
thread, so once entered they go on.  Nothing is assumed of the program, which may never return.
`Engine!FairSpec` is weak fairness of `Step`: `operator()` is a loop without waiting.  Natives that
read from the terminal are assumed to get an answer; that is part of the same fairness and the
one assumption about the environment.  `Frontend!Spec` is weak fairness of `Next`: its stages are
calls in one thread that wait for nothing, and a file that cannot be read counts as empty.  The
compiler needs none: its properties are about its final states.

`CHECK_DEADLOCK FALSE` is set where a model really ends: after an overflow of the heap, after
undefined behaviour in the collector, when the front end or the compiler is done, and when no
value in `MCValues` is small enough.  `Engine` has the explicit stuttering action `Stopped`.

## 5. Proofs

All hold for every value of the constants that satisfies `SourcesAssumption` (the main file is a
path), `FilesAssumption` (a file has a text, parts that it may still get, their number and an
ending), `LoweringAssumption` (sources are sequences of functions, natives have names),
`HeapAssumption` and `CollectorAssumption` (capacity, overhead, threshold, addresses, preloads,
registers, items), `ValueAssumption` (`int` has two bits or more, there is a greatest double, a null pointer is no
address),
`ValuesAssumption` (the three objects of `MCValues` differ), `EngineAssumption` (there is a
register and a frame; literals and arguments are texts, one preload for each and one for their
list; programs are `WellFormed`: constants are spelled out in the source, hence no pointers, and
what the emitter counts or patches in are natural numbers) and `TerminalAssumption` (the terminal
offers integers, doubles and texts).  Seven theorems have a hypothesis, five about the behaviour
and two about the programs, which is in their statement and explained below.  Nothing else is assumed, and no obligation is left out.

### The front end

`FrontendProofs`, the worklist.  `EachPathOnce` is not inductive: a path may wait on the stack
several times, and it is marked as visited only when it has been parsed.  That it is joined once
needs that the file being read is not among the visited ones (`Reading`), and that its number is
not among those joined: numbers on the stack and in the map differ and lie below the next one
(`Numbered`).  `SourcesInv` adds the types; `Joined` (the files joined are the visited ones, each
once); `Followed` (what a file has imported is visited, being read, or on the stack; a file not
begun has imported nothing); `Wanted` (no file is met but by imports that lead to it from the main
file); and `Finished`.  Reachability is membership in every closed set that holds the main file.

| theorem | statement |
|---|---|
| `SourcesSafety` | `SourcesSpec => []SourcesInv` |
| `PathsJoinedOnce` | each path is joined once, whatever the imports |
| `TextsStayAtHand` | each declaration finds the text of its own file under its number |
| `ImportsFollowed` | when all is parsed, the files joined are those that imports lead to |
| `FrontendIsWorklist`, `FrontendKeepsFiles` | `Spec /\ []ImportsNamePaths => SourcesSpec`, one case per action of the front end; so the three properties hold of it |

`ImportsNamePaths` says that the files import nothing but paths that are in `Paths`; it is a
statement about the texts that an instance chooses, which TLC checks as a part of `FrontendTypeOK`.

`FrontendProofs`, the parser.  What a body of events has to be is said by levels: how many operands
wait, and which brackets are open around them, with the operands that waited when each was opened.
An event leads from a level to another (`Acts`), and events fit together when they lead from the
ground to the ground (`Leads`).  No such thing can be said of a body in the middle of its parsing,
without saying what the rest will be.  But the parser's call stack says that: in the model it is
`goals`, the rules still to be applied and the events still to be written.  Each goal leads from a
level to another, too (`GoalActs`: an expression adds one operand at the same brackets; a rule for
statements keeps the ground; an event acts), and `ParserInv` says that the body so far leads to some
level from which the goals are a walk to the ground.  A rule replaces its goal by goals that walk the
same way (one lemma per rule); an error throws body and goals away together.  Induction over the
text is in the steps of the parser, so that nothing recursive is left.

`AnalyzerProofs`.  The analyzer reads the events and pushes and pops results (`found`).  Three
things make up the invariant `BodyAt`, after each event of a body: there is a result for each
operand of the level (`Levels`), with which every pop finds what it needs; no result that is nothing
is dropped (`Honest`), so that an error found in an operand reaches the end of its statement; and if
none of the results is nothing, `Fine`: the scope has just the locals defined so far, all events
checked are sound, and a base that may be assigned to is a variable or an access.  So what is
accepted, event by event, is sound.  That a call's arguments are counted right needs that the
bracket which the call opened is the innermost one when it closes, which again is a fact about
levels.  The reference definitions (`Height`, `Close`, `PartsOf`, `Locals`) are functions of the
events alone and know neither stack nor scopes.  `FrontendInv` is `ParserInv`, the analyzer's
invariant (`AnalyzerInv`, with the scope of the declarations and the functions already checked), and
that the analyzer waits for the last file.

| theorem | statement |
|---|---|
| `FrontendTypes` | `Spec /\ []ImportsNamePaths => []FrontendTypeOK` (the hypothesis is one of its conjuncts, and serves for no other) |
| `AcceptedAreLowerable` | `Spec => []AcceptedIsLowerable`, for any files, texts and errors |
| `AssignmentsAreToVariables` | `Spec => []AssignsOnlyVariables` |

### The compiler

`CompilerProofs` proves the types in three steps: graphs under `add_bb`, `link_bb` and the emission of steps;
each action of the lowering; the emitter and the theorems.  `CompilerTypeOK` is not inductive.  That
a call's result has a register needs that as many registers are given out as there are arguments;
that a link ends in a block needs that pending links name blocks of the graph in progress; and
`m_next_local_aa` may only be reset because no operand, name or pending link of the function is
left.  `Inv` is the conjunction of `Graphs` (every link of every graph is to a block of it),
`Names`, `Stack` (the function is at the bottom of the activations and nowhere else; operands are
addresses given out), `Pending`, `Stages` (what a stage leaves to the next) and `Visits` (the
emitter's stack holds blocks of the graph of the chunk).  Failing statements and what `pass_over`
skips are actions like the others.

| theorem | statement |
|---|---|
| `CompilerSafety` | `Spec => []Inv` |
| `CompilerTypes` | `Spec => []CompilerTypeOK`, for sources of any length and nesting |
| `CompilerPrepares` | `Spec => []CallsPrepared` |
| `CompilerLands` | `Spec => []JumpsLand`: a jump leads to 0, where it is not patched, or to a `nop` of its own chunk |
| `GraphEmitted` | `Spec => []WholeGraphEmitted`: a complete chunk has the blocks that links lead to from the first one, and no others |

That arguments are where the engine looks for them is the longest argument here, because the three
parts of the compiler each do a part of it.  The lowering emits the move of an argument and then, after
any number of other arguments, the call; the emitter lays the blocks out in an order of its own; and
it patches jumps, perhaps long after, with the places it has come to.  So between a move and its call
no block may end, and no jump may be patched to lead there.  Each is an invariant of its own, on top
of `Inv`, and each has one lemma per action:

- `Prepares`, of the lowering: in every block, a call with n > 0 arguments comes right after a move
  to register n - 1 or a higher one, what marks a jump (`meta_mark_break` and its like) right after
  that jump, and what ends an `if` or a loop right after a `nop`.  It needs that the last argument's
  move is still the last step when the call is made, hence that no statement begins within an
  expression (`Layered`, `Ready`).
- `Nesting`, of the graphs: some map M gives every end of an `if` or a loop a begin of its own in an
  earlier block, and no link leads past a begin to what comes before its end, but for that which goes
  back to the begin of the loop it is in.  It holds while bodies are still open, because the begins
  of those have no end yet (`OpenAll`); and of a graph that was refused links, because there it has
  fewer of them to be right about.
- `Emission`, of the emitter: what has been visited is closed under M (`Ordered`), so an end is met only
  after its begin, and `m_active_ifs` and `m_active_loops` are longer than what earlier functions left in
  them by at least the begins met without their ends (`Tally`).  So an end takes an entry of its
  own chunk, whose marks are jumps of that chunk (`Entries`), and patches them with the
  place of a `nop`; code of other functions stays as it is.

`CallsPrepared` is a question about addresses, not about values: `ValuesFollowSource` (section 3)
says where the values are right, too.  `CompilerLands` comes with it.  It does not say that each jump
is patched, which is false (section 6, nested_else).  `GraphEmitted` says how far that loss goes: what
has no way from the first block is not emitted, all else is.  It needs of the traversal that every
link out of a visited block leads to a visited block or to one on the stack.  Both are stated in
`CompilerProofs`, and no run checks them.

### Heap and collector

`HeapStorageProofs`.  `HolesAreEmptyCells` is not inductive alone: that a fresh id lands on an
empty cell needs that no cell at or above `m_next_id` is occupied (`FreshCellsEmpty`), and that a
destroyed address is gone needs that one cell owns it (`UniqueOwner`).  `HeapInv` is the
conjunction with types and score.

| theorem | statement |
|---|---|
| `HeapSafety`, `HeapTypes` | `HeapSpec => []HeapInv`, hence `HeapSpec => []HeapTypeOK` |
| `HolesStayExact`, `ScoreStaysExact` | the hole queue is the set of emptied cells, each once; the score is that of the living objects |
| `NoOverwrite` | `HeapSpec => CreateNeverOverwrites`: `allocate_id` gives an empty cell (`AllocatedIsEmpty`) |
| `HeapImplementsPool` | `HeapSpec => ImplementsPool`.  The step needs that a heap without holes and with `m_next_id = Capacity` owns exactly `Capacity` objects (`FullWithoutHoles`, `OwnedCount`). |

`CollectorProofs`.  `MarkInv` adds to the two properties the types, the fact that the locals of a
call that is not running are empty (`Idle`), and `Covered`: registers before the cursor are queued,
and the items of every visited object, and those before the cursor of the one being visited, are
marked or queued.  One lemma per action.

| theorem | statement |
|---|---|
| `MarkingSound` | `Spec => []MarkedAreReachable`, reachability as membership in every closed set that holds the roots |
| `MarkingComplete` | `Spec => []ReachableAreMarked` |
| `CollectorUsesHeap` | `Spec => HeapSpec`: program and scan change the heap only through its operations |
| `HeapSoundUnderCollection` | hence `Spec => []HeapStaysSound` |
| `CollectorTypes` | `Spec => []TypeOK` |
| `SweepEmptiesHeap` | `Spec => CollectionIsTotal`: the scan goes from the first cell to the last, those before its cursor are empty and in the queue, marked or not |

### The values

`FastValueProofs` has what the operators of `FastValue` return for every width of `int`: values again,
with natural indices and denominators, and objects with room for their items.  The
powers of two of the widths, the search for the item that a reference leads to (`LastRef`) and, in
`MCValuesProofs`, equality (`Equal`) are recursive functions; that each satisfies its equations is
proved from such a function's existence, built level by level (`Chain`, `EqualByLevels`).  Induction
is by the least number of a set (`NatLeast`, from the well-foundedness of finite sets), as the
library's induction theorems cannot be used.

`MCValuesProofs`.  None of the properties is inductive.  `NumbersAreOrdered` needs most: a finite
double stands here for a fraction, `==` compares numerators and denominators, `<` the cross products,
and the two agree only on fractions in lowest terms (two infinities are compared by their signs, an
infinity and a fraction by the cross products again).  So `ValuesInv` says that they are (`Coprime`), and that
all arithmetic gives such ones is proved from what greatest common divisors are.  The rest of it:
objects have room for their items, and lists hold what the program can push into them.

| theorem | statement |
|---|---|
| `ValuesKept` | `Spec => []ValuesInv` |
| `IntsAreC` | `Spec => []IntsComputeLikeC`: results modulo 2^width, division towards zero with the remainder of the dividend's sign, for every width |
| `NumbersOrdered` | `Spec => []NumbersAreOrdered`: integers, characters, and doubles with infinities and NaN, for every width and every greatest double |
| `EqualByItems` | `Spec => []EqualityIsByItems`, for lists of any length |
| `FrozenKept` | `Spec => FrozenKeepsItems` |
| `ReferencesKept` | `Spec => PushKeepsReferences`: a push that finds room leaves buffer and item, one that does not changes the buffer's number |

### The engine

`EngineProofs`.  `HeapInStep` ties what objects hold to the cells that own them.  It is not
inductive: that a creation lands on an address no living object has needs all of `HeapInv`.
`EngineInv` is `HeapInv`, a kind and a sequence of items for each object (`Shape`), and that the
living objects are those that cells own, until a creation overruns the vector.  Values need no
types here: the proof has to know only which of them are pointers.  Every step is one of four kinds
(`StepKinds`), with one lemma per handler and per native:

- `Moves`: the heap stays, kinds stay, and every register and item holds afterwards what a
  register or an item of a living object held before, or a value that is no pointer (`Held`);
- `Creates`: a new object without pointers in it, at an address that no cell owns, and one pointer
  to it of its own kind;
- `Collects`: every cell was occupied and is emptied, and every object destroyed; the queue of
  holes grows by all of them;
- `HandsArgv`: a register gets the stored pointer to the list of arguments.

That a slice lies within its text is the one place where a native's own checks are needed
(`SlicePlain`): what lies past a text is no value of the program's.  That the registers and cells
an instruction names exist is `InRange`, without which the step is undefined behaviour.

| theorem | statement |
|---|---|
| `EngineSafety` | `Spec => []EngineInv`, for any programs and sizes |
| `EngineHeapInStep` | `Spec => []HeapInStep` |
| `PointersOutlive` | `Spec => OnlyCollectionDangles`: no handler and no native makes a pointer dangle, or lead to an object of another kind; `Moves` and `Creates` keep every pointer good, a collection shows in the queue of holes (unless there are no cells), and `StaleArgv` is excepted |

`EngineTypeOK` is not inductive either: the sum of two doubles has a natural denominator
only if they have, an item reference is followed only to indices that are natural, and a push keeps `items`
below `room` only if it was so for the objects that are dead, too, since a destroyed object keeps
its room.  `TypedInv` is `EngineInv` with values so typed (`Valued`, `Kempt`) and `ControlOK`, what
the handlers take the frames and special registers for.  That a jump, a call's target and its
number of arguments are numbers comes from `WellFormed`; all else the handlers check or leave
undefined.  One lemma per handler and per native says at once that values stay typed and that
tuples keep their size (`Steady`).

`TuplesKeep` has the hypothesis `[][~PushesFrozen]_vars`, because `seq_obj_push` does extend a
tuple: that no compiled program asks it to is a property of the lowering, which emits
`seq_obj_push` only for the sequence that it builds, and freezes that one last
(`convert_ast.cpp:262-292`).  The engine run checks `FrozenSizeFixed` without it, for
compiled programs.

`EngineImplementsActivations` has the hypothesis `[]StaysInFrame`: the register that an instruction writes, the arguments of a call and those of a native
are in the frame of the running function.  The engine looks at none of that.  Nor does every
compiled program keep to it: when a function without parameters begins with a native without
arguments, the result is written one register below its frame (section 6, native_result), over its
caller's last one.  (The build agrees: with `fun ask: [] => { def x = prompt_int() return x }`, the
program `def a = 1 def b = ask() print(a)` prints the number typed in.)  Of programs with such a
function the theorem says nothing.  The refinement maps the frames but for
the first, each with its control registers and the window of registers below its callee's base.  The
invariant is `TypedInv` and that no base lies below one under it (`FramesNest`).  Each step is a
call, a return (perhaps with a collection, which leaves the registers as they are), a local step or
a stutter; errors and faults stutter.

`PreparedStays` says of which programs the hypothesis holds, by looking at their bytecode alone:
those that are `Prepared`.  A call that passes arguments has the move of the last of them before it,
and no jump leads between; none is the first instruction of its chunk; and a function that some call
passes nothing to has written a register before its first native without arguments, whatever way it
is come to (`AsksLate`).  `StaysInFrame` is not inductive: at a call it needs that the top
is at the last argument or above, which only the instruction before can have seen to; and after a
return, that the same still holds of the caller, whose registers may not have been
looked at for any number of calls.  `SettledInv` therefore says `Settled` of the running function and
of every frame that waits: its base is at most one above its top, the arguments of the call it is at
are above its base, and where it has no register yet it has come past no instruction that
writes one.  TLC evaluates `Prepared` of the 25 programs of the engine run (`ProgramsPrepared` in
`MCEngine`), so the theorems are about all of them, with any number of registers and frames.

| theorem | statement |
|---|---|
| `MachineTyped` | `Spec => []TypedInv`, for any well-formed programs, sizes and width of `int` |
| `EngineTypes` | `Spec => []EngineTypeOK` |
| `TuplesKeep` | `Spec /\ [][~PushesFrozen]_vars => FrozenSizeFixed` |
| `EngineImplementsActivations` | `Spec /\ []StaysInFrame => ImplementsActivations` |
| `PreparedStays` | `(\A p \in Programs : Prepared(p)) => (Spec => []StaysInFrame)` |
| `PreparedActivations` | `(\A p \in Programs : Prepared(p)) => (Spec => ImplementsActivations)` |

`CompilerPrepares` is the compiler's side of this: the first two of the conjuncts of `Prepared`
(`Counted`, `ArgumentsInPlace`) hold of every chunk that it emits.  The other two are not proved.
`AsksLate` fails of the function above, which is section 6's native_result.  That a chunk does not
begin with a call that passes arguments is so when it is emitted, since a move comes before the call;
but the mark of an `if`'s or a loop's jump starts at 0, and that no end patches with it before it is
set, which would change an argument of the first instruction, takes more than `Tally`.

## 6. Disagreements between code and documentation

Each is a run that ends with a counterexample.

| run | what the code does | what is said |
|---|---|---|
| heap_capacity | the creation after the last free cell writes past the vector | `heap_storage.hpp:15` "capacity" |
| sweep_spares | the scan destroys every cell, marked or not | `vm.cpp:246` "anything NOT in the reachable set" |
| sweep_faults | the scan dereferences empty cells | `heap_storage.hpp:21`, cells may be empty |
| calls_in_loops | a call in a loop takes its arguments from above the registers they were moved to | `docs/vm.md:55` |
| native_result | a native without arguments writes over the caller's last variable (over that of the caller's caller, if it is the first thing that a function without parameters does) | `docs/vm.md:60` |
| nested_else | an `if` in an `else`: the block after it is refused its link and is lost with all that follows; a jump is left unpatched | `convert_ast.cpp:525` |

## 7. What is not modelled, and what is only model-checked

Not modelled, because it is output, options or data that no property tells apart: the plugins and
the command line; the text of messages, line and column numbers; the values of literals (one too
large for `int` terminates the compiler) and the text that numbers print as; of doubles, rounding, underflow and the sign of zero (a
product of small doubles is not 0 here, and 1/-infinity is 0);
different spellings of one path, which the worklist takes for two files; a NUL character in a
source, which is taken for its end; `clone`, `set_value`, `get_memory_score` and `operator%=` (no
caller); the operand-mode bits of instructions.

Smaller hazards that `PROJECT.json` does not list: `list_pop_back` and `list_pop_front` have taken
the item when they find that it is a dud and fail; `list_concat(x, x)`; `neg` of a value that
cannot be negated; jump targets, registers and constants narrowed to 16 bits; `args.back()` of a
call without arguments; two operator characters in a row make one unknown token; the lexer has
no way to finish a character literal; a block of an `if` or a `while` has no scope of its own.
Those that are control are in the modules all the same.

`check_if` looks for a kind of statement behind the null pointer of a missing `else`.  The model
takes the outcome of the build that was looked at: the statement is accepted.

Only model-checked:

- liveness: `FrontendEnds`, `MarkEnds`, `Halts`;
- what is about programs that are written down: `SamplesParse`, `SamplesCompile`, `ProgramsAnswer`;
- what compares with a reference definition that is recursive over texts or sources:
  `NothingLost`, `ExpressionsGroup`, `FlowFollowsSource`, `ValuesFollowSource`, `LostOnlyBeforeElse`.
  The reference definitions are `RECURSIVE`, and to compare a whole body with what came of it is an
  induction over its brackets: both are out of the provers' reach.  What is proved of the same code
  are the invariants under them: `FrontendTypes` (the events of a body fit together), `Nesting`
  and `GraphEmitted` (the blocks of a graph nest and all come out).

## 8. Plan

Done: the front end from files to accepted declarations, lowering with its failures, emitter,
heap, collector, values, engine with natives; proofs of all type invariants, of the worklist and
the front end's refinement, of the analyzer's promises to the lowering, of the compiler's calling
convention, of the values, the heap and the collector, of pointers, tuples and activations under the
engine, and of the programs that stay in their frames.

What would come next:

1. That every jump is patched, of sources whose `else`s hold no `if` or `while`: `Nesting` and
   `Emission` have the order in which marks are met, what is missing is that no link is
   refused.
2. The rest of `Prepared` from the compiler's side, of the programs that the analyzer accepts and
   whose calls are as section 6 would have them.
3. One run from a text to the engine's answer, for the samples: today they are followed in three
   runs that share `Samples` (text to events, events to bytecode, bytecode to answer).
