# A verification of the ParaCL compiler

TLA+ models of the compiler in `src/frontend`, the TLC runs that check them on
small instances, and the theorems about them that TLAPS proves for every value
of the constants. All paths below are relative to `src/frontend` unless they
say otherwise; `README.md:n` in comments of the modules is the compiler's own
README.

## 1. The system

The compiler is one sequential program. `main` calls `driver`, which parses the
options, opens the program, parses it, and hands the tree to one of two back
ends: the LLVM code generator, or the interpreter when it was built with
`INTERPRET` (the compiler's README:58 calls the option `INTERPRETER`). Nothing runs concurrently and nothing is persisted; what is hard
is the order in which callbacks and visitors change shared tables, error
recovery in the middle of an action's work, and the agreement of tables that
are kept twice.

| component | state | operations | used by |
| --- | --- | --- | --- |
| Lexer, `src/lexer.l`, `include/parser/lexer.hpp` | `yylineno`, `yycolumn`, the text | one rule per token; spaces, newlines, comments; unknown character; end of file | `yylex` |
| `yylex`, `src/parser.y:82` | `line_before`, `yylloc`, `yylval` | call the lexer, locate the token, convert numbers and names | the LALR machine |
| LALR(1) machine, Bison's `lalr1.cc` | parser stack, lookahead, `yyerrstatus_` | shift, reduce, accept, report, recover, abort | `parse()` in `driver` |
| Semantic actions, `src/parser.y:176-508` | the AST, the symbol table, the errors | open and close a scope, declare, use, make nodes, resynchronise | the LALR machine |
| `Scope`, `include/parser/scope.hpp` | `scopes_`, `archived_` | push, pop, lookup, find, add_variable | semantic actions |
| `Error_collector`, `My_parser` | `errors_`, `source_lines_`, `root_` | add_error, print_errors, get_line_content | `parser::error`, `driver` |
| AST, `Node_pool`, `include/data_structures` | the nodes | make, accept | all visitors |
| `Code_generator`, `src/codegen/codegen.cpp` | module, `builder_`, `current_function_`, `functions_`, `last_value_` | one `visit` per node, `compile` | `driver` |
| `Scope_stack`, `include/codegen/scope_stack.hpp` | `scopes_` | push, pop, lookup, find, declare | `Code_generator` |
| Interpreter, `src/simulator.cpp`, `src/expr_evaluator.cpp` | `nametable_`, `result_` | one `visit` per node | `driver` |
| `Option_parser`, `src/parse_options.cpp` | `options_` | `parse_options` | `driver` |
| Output paths, optimizer, `include/codegen` | files | `make_compile_paths`, `optimize` | `driver`, `compile` |
| Graph dump, `src/graph_dump.cpp` | a stream | one `visit` per node | `driver` |

How they interact: the machine calls `yylex` only when a state needs a token,
so what the lexer has counted depends on how far the parser looks ahead. Semantic
actions run when a rule is reduced, except the two mid-rule actions that open a
scope (`parser.y:454, 466`). `yy::parser::error` asks `My_parser` for the line
to show. Variable nodes keep `string_view`s into the name tables of `Scope`. The
code generator meets the names in the order in which the parser met them, with
a table of its own.

What makes each part correct:

* **Scope**: names resolve to the innermost declaration; a name has at most one
  open declaration; views stay alive; leaving a level forgets exactly its names.
* **Parser**: a table is open exactly while its block is parsed; parsing ends; a rejected program has a
  message, and what is compiled has no gaps.
* **Lexer**: locations name a line that exists, and the right one.
* **Code generator**: every name the parser accepted is found; instructions and
  allocas go to the function under way; blocks are terminated, and once where nothing returns.
* **Interpreter**: computes what the compiled program computes; knows every variable
  it visits.
* **IR**: LLVM accepts it; a name reaches the variable or the function it means in
  the text.
* **Options**: what was typed; a wrong command line has no effect.
* **Driver**: nothing is written before the parse has ended without an error; exit
  status 0 means that what was asked for is on the disk, as far as the code looks.
* **Graph dump**: shows the tree, each node once.

The hazards, each at its line with the properties that cover it, are listed in
`PROJECT.json`.

## 2. The modules

| module | models | extends |
| --- | --- | --- |
| `Declarations` | abstract: what a symbol table promises, names with levels of nesting | |
| `Scope` | class `Scope`; `Abstract` is its mapping to `Declarations` | |
| `Grammar` | the rules of `parser.y` as data, and the LR automaton built from them | |
| `Parser` | the LALR machine, the semantic actions, the verdict of `driver` | `Grammar`, `Scope` |
| `Lexer` | counters and locations | |
| `Frontend` | the composition of scanner and parser | `Parser`, `Lexer` |
| `Codegen` | the visitor `Code_generator` as a walk over any tree: functions, blocks, `Scope_stack` | `Scope` |
| `Ast` | the nodes of the tree as values | |
| `Trees` | their paths and names; which trees the parser builds | `Ast` |
| `Words` | `number_t` with few bits, and the operators on it | `Ast` |
| `Interpreter` | the visitors `Simulator` and `Expression_evaluator` | `Words` |
| `Irgen` | what `Code_generator` makes of a tree, down to operands | `Words` |
| `Machine` | external: LLVM's instructions, `printf`, `scanf` | `Irgen` |
| `Dump` | the visitor `Graph_dump` | `Trees` |
| `Backends` | the composition: one tree through the dump and both back ends | `Interpreter`, `Machine`, `Dump` |
| `Options` | `Option_parser::parse_options` | |
| `Main` | the composition: `main`, `driver`, output paths, `compile`, the disk | `Parser`, `Options` |
| `MCParser`, `MCFrontend`, `MCCodegen`, `MCBackends`, `MCMain` | the instances TLC checks | |
| `GrammarProofs`, `ScopeProofs` | lemmas on rules, items and states, those at both ends of a text among them; on the operations of `Scope` | |
| `ParserProofs` | the invariants of the parser, of its verdict and of recoveries | `GrammarProofs`, `ScopeProofs` |
| `FrontendProofs` | the invariants of locations and of the lines of errors | `ParserProofs` |
| `CodegenProofs` | the invariants of the steps of a visit: contexts, blocks that wait, tables | `ScopeProofs` |
| `OptionsProofs` | the invariant of a command line that is read from left to right | |
| `MainProofs` | the invariants of `driver` and of the disk | `ParserProofs`, `OptionsProofs` |
| `InterpreterProofs` | the invariant of the interpreter: which names are known | `Interpreter` |

### Scope and Declarations

A table is a number and a set of names; its number is its place in the order of
pushes, which identifies it when it has moved to `archived_`. A `string_view` is
the pair of a table and a name, because neither growing an `unordered_set` nor
moving it moves its strings. `lookup` is translated as "the innermost table with
the name", and `ImplementsDeclarations` says that the whole is a map from names
to levels: `push` enters a level, `pop` leaves one, `add_variable` mentions a name.
The throwing branches of `pop` and `add_variable` are left out of the definitions
and shown dead (`EnclosingScopesStayOpen`).

### Grammar and Parser

The grammar is written rule by rule from `parser.y`. The seven levels of binary
operators are one level, and operators that occur in the same places are one
token: this changes neither what a state can shift nor any action. States are
sets of kernel items computed from the rules, so no table generated by Bison has
to be trusted; where LALR merges states that differ only in lookaheads the
behaviours are the same, because Bison reduces by default rules and an error is
found before the next shift. The machine is that of `lalr1.cc`: a state that can
shift nothing reduces without a lookahead, others reduce when the token cannot
be shifted, an error pops states to one that shifts `error`, three shifts must
succeed before the next report, a token that fails at once again is discarded,
the end of file then aborts.

The text is chosen while it is read: at each call of `yylex` any unit of `Units`,
at most `MaxTokens` of them, or the end. A unit is a token, a character no rule
matches ("unknown", which the scanner returns as -1) or a number that does not
fit (`std::stoi` throws). The AST is the set of views its nodes hold, `root`, and
`dropped`: whether a statement is missing from it. Each semantic action that
changes a table or the errors is an action; all rules that only make a node are
`MakeNode`.

Two fields follow the code without being in it: `table` of a stack entry says
which table a mid-rule marker pushed, and `input` what is known of the text.

### Lexer and Frontend

The text is a sequence of spaces, newlines, comments, tokens and unknown
characters, of which only the lengths matter; `at` is the true position in it.
A call of `yylex` takes several steps (`Skip`) and returns with one that is
joined with `ReadToken`, `ReadUnknown`, `ReadHuge` or `ReadEof` of `Parser`.
`line_before` is set at each return, since nothing moves `yylineno` between two
calls. At the end of the text flex leaves 0 or 1 in `yyleng`; both are allowed.

### Codegen

A visit of the tree is a stack of steps (`work`), which stands for the C++ call
stack, and the tree is chosen while it is visited. Only trees the parser accepts
are built: the walk also drives `Scope`, with the operations the semantic actions
make at the same place of the tree, and a variable is visited only if `find` has
it. Both passes go over the names in the same order, so one walk stands for both.
A block of IR keeps its function, the number of its terminators, and whether its
last instruction is none (`open`), which is what `getTerminator` tells; `returned` are the
blocks in which a `return` was visited, where the code may go on behind the terminator. Constant
folding may leave out the instruction of an operator (`fold`). The names `func_N`
of functions without one are taken for names that the program does not use, and not entered;
`Irgen` enters them. Values, types and `last_value_` are in `Irgen`.

### Ast, Trees, Words, Interpreter

A node is a record with the members of its class; the address of a node is its
path from the root. `NewNames` and `FreeNames` are the names a tree declares and those it
wants declared, by the rules of the semantic actions; `Scoped` says which trees the
actions let pass, and `Backends` assumes it of its programs. An int has `Width` bits, and an
operator on bits is one on sets of their places; overflow wraps, as
it does in the builds (it is undefined in C++, but nothing traps on it). A division
by zero, or of the smallest number by -1, either kills the process or gives any
number of `Arbitrary`, and is remembered in `undefined`.

The interpreter's C++ recursion is the sequence `todo`: a visit replaces its node by
the visits of its children and by what it does behind them (`assign`, `apply`,
`right_eval`, `evaluate`, `last_value`, ...). `evaluators` holds the `result_` of the `Expression_evaluator`s
that live: whoever wants a value makes one with 0 (`Make`), a visit sets it or does not (`Set`), and who made it
reads it and lets it go (`Drop`). Functions, calls and returns are the empty
visits of the code: they set nothing, and visit no argument. `std::cin` gives a number that
is typed, or fails from some point on; then `value` is not initialised.

What is known of the names is given to `Interpreter` by three constants:
`Parts`, the trees whose names can be found by going through what is visited, and for each of them the names that it
`Needs` and that it `Declares`. `PartsAssumption` says of them what the semantic actions guarantee
at each node, member by member: names are looked up in the order of the text, and a block takes
its own with it. Unlike the semantic actions it lets calls and functions declare nothing, since
nothing in them is visited; a program that assigns to `x` in an argument and uses `x` behind it
is none of `Parts`. It is no recursion over trees, so the visits can be reasoned about.
In the run, `Parts` are all nodes of the programs without functions, and of four others, with
`FreeNames` and `NewNames`, and TLC checks the assumption of them.

### Irgen and Machine

`Irgen` has one operator per `visit`, from a generator (a record of the members of
`Code_generator`) to the generator behind it. It keeps what `Codegen` leaves out: the
operands and types of instructions, `last_value_` as it flows from one visit to the
next, the entries of `functions_` and `scope_stack_`. `valid` is what LLVM's verifier, its
assertions and the exceptions of the code ask for: operands dominate their uses, have
a type that fits, and are not null or void; allocas are those of the function;
blocks end once; calls have the right number of arguments. Dominance is kept as the
region of a block, the sequence of branches and loop bodies around it, because the IR
is made from nested statements. `Codegen` and `Irgen` model the same methods for
different questions: `Codegen` for any tree, chosen while it is walked; `Irgen` for a
given tree, which can be run.

`Machine` executes the blocks of `main`. Allocas that were never stored to, and division,
are as undefined as in the interpreter (`poisoned`).

### Dump

The visits write a node line and, for each child, an edge line and the child's lines.
A `return;` has a null child which the code visits all the same (`graph_dump.cpp:348`);
that is `CrashLine`.

### Backends

`Backends` takes one program through `GenProgram`, the dump, the interpreter, and the
compiled program, which reads the numbers that the interpreter has read. In the
compiler a build has one of the two back ends; visitors only read the tree, so the
order is of no consequence. Programs with functions are generated and judged
(`IrIsValid`, `NamesReachTheirFunction`) but not run, as the interpreter has nothing to
compare with. The properties have conditions, each of which is needed: without it TLC
finds a program that breaks the property.

* `BackendsAgree` leaves out `>=` (section 6), blocks that give no value but are used as
  one (`BlocksGiveValues`: the generator's `last_value_` is that of whatever was visited last,
  the interpreter's that of the last expression statement), and programs that use
  `__input_var`, which is the slot of `?`: `__input_var = 2; print ?;
  print __input_var;` prints the number that was typed twice when it is compiled. Runs in which the input ends or a division
  fails are not compared.
* `VariablesAreKnown` is about programs whose names are declared by something that is
  visited (`Understood`): the interpreter visits no arguments and no functions, so an assignment
  in one is not made. Its variable is then unknown when it is used: `foo = func(n) { n; };
  foo(x = 1); print x;` is accepted by the parser, and the interpreter throws. `VariablesHaveValues` is its counterpart for the compiled program: no load
  comes before the first store.
* `IrIsValid` asks that what is read has a value, nothing is behind a `return`, functions
  are only called, with as many arguments as they have parameters, and no function uses
  a name that an enclosing one has an alloca for: the parser accepts programs without
  each of these, and LLVM does not, or the generator throws. One that uses a variable of the program around it,
  as in `x = 1; foo = func(n) { return x; }; print foo(x);`, loads from an alloca of another function.
* `NamesReachTheirFunction` leaves out functions of one name within each other:
  `functions_` has no scopes, so behind the inner one the name stays with it.

### Options

A command line is read argument by argument, each chosen when it is read. An argument
has a `form`, the first test of the loop it passes, and its text, so that one and the
same argument is an option in one place and, behind `-o`, the value of it in another
(`require_value` looks at nothing). `OptionsAreAsGiven` compares the result with a reading of
the command line as a whole (`Role`).

### Main

`Main` is `driver` as a sequence of stages around `OptionsNext` and the `Next` of `Parser`. Every step
that can fail has its failures as alternatives: exceptions are caught in `main` (exit
status 1) after the streams in `driver` were closed, signals and LLVM's fatal errors
kill the process and close nothing. `files` maps paths to what they hold: "part" for a
broken-off or unflushed file, "earlier program" for one clang made from an IR file
that was there before. `compile` does not look at the error code of the IR stream nor
at the result of clang; the stream's destructor ends the process when it has failed,
which `Leave` models. The stream of the dump (`driver.cpp:43-48`) is an `ofstream` that is asked only once, behind
its opening; a write or the flush at its end that fails (`gvError`) is noticed by nobody, so that exit
status 0 can come with a dump in part, which the properties of the disk say. Which back end and whether a dump is a choice made behind the parse,
since nothing before depends on it. Directories and permissions are the alternatives
in which a step fails.

## 3. The runs

| run | instance | result |
| --- | --- | --- |
| `scopes` | names a, b; 7 tokens of braces, parentheses, `func`, `,`, `:`, `;`, identifiers, `=` | 453,193 states |
| `recovery` | 7 tokens of brackets, `if`, `while`, `else`, `;`, numbers, unknown characters, big numbers; fair | 145,452 states |
| `verdict` | 3 arguments of 9; 4 tokens of expressions, `print`, `return`, `}`, unknown characters, big numbers; every build and failure | 392,131 states |
| `locations` | 3 lines of at most 4 columns, 3 tokens, lengths 1 and 2 | 233,970 states |
| `blocks` | one name, trees of 4 counted nodes | 3.75 million states |
| `backends` | 3352 programs, numbers of 3 bits, 2 numbers of input out of 4, 54 visits, 40 instructions | 981,366 states |
| `leak`, `unknown`, `huge`, `where`, `redeclared`, `operators` | smallest instances | violated, see section 6 |

`scopes` asks whether the symbol table stays in step with the parser stack, with
`NoDanglingView` for the archive, the refinement for what names mean, and
`ClosesItsScopeUntilError` for which table a `pop` takes. Seven tokens reach a function with a parameter
and a body, nested blocks, and a recovery that cuts one of them off and goes on
behind it; a longer text only repeats these, as every property is about the
stack and the tables and not about how long it took to get there. The theorems of
section 5 remove the bound.

`recovery` takes the units that reach all five rules with `error`, nested in
each other: every parse ends, and until a token has been shifted behind it every
step reads a token or uses one up (`RecoveryUsesTokens`). `verdict` takes the rules of expressions, but for argument
lists, and whatever the lexer can do wrong, behind every command line of three arguments; each
argument is there in all the roles it can have (`3` is a file, a level and an output
name; `-oq.ll` gives the IR file and the program one path). Four tokens reach every
verdict, `return;` with a dump, and a rejected program; that command lines and texts
of every length are no different for what is written is proved (section 5). `OnlyUnknownEndsEarly`
says that nothing but an unknown character (finding `unknown`) lets a text be compiled before its
end was read.
`backends` has every operator on 16 pairs of numbers, with zero, both signs and the
smallest number; every block of six, with and without a value, in every place of a
value; branches and loops within each other; and functions with 19 bodies, named and
not, nested, with arguments and names of their own and of others, of which 277 meet all
conditions of `IrIsValid`. Three bits tell all operators apart and let each of them
overflow; loops count up to overflow and end within the 54 visits, or are cut off,
and what was printed until then is compared. `locations` has room for a newline or comment before,
between and behind tokens, and for a text that ends in a newline, the case in
which the index of `get_line_content` could be out of range.

`blocks` counts operators, calls, variables, assignments, inputs, blocks,
functions, `if`, `while` and `return`; numbers, arguments, parameters and
statements around an expression are free, since they lead back to the same
state or exhaust the names. Four counted nodes reach a function inside a
condition inside a loop with a variable. One name is enough, as a name
interferes only with itself.

Deadlock is checked everywhere. Every property has a mutant: a variant of a
mapped definition, next to it in the module and commented as faulty, which makes
TLC find the property violated under the same configuration.

## 4. Fairness

Only `Termination` needs it: `WF_vars(Next)`, that is, the one thread of the
program goes on while it can. The end of the text is reached because the number of
units is bounded by `MaxTokens`; the property is about the parser, which could
still recover forever on the same token.

## 5. Proofs

`ParserProofs` proves `IInv`, from `ParserAssumption` only, for every set of
names, of units and every length of text:

* `RegistersOK`: the lookahead, the counter and the sets have their types;
* `StackInv`: stack entries have their type, and the symbols of the rules in a state are on
  the stack below it (`ViablePrefix`). It is inductive
  by the shape of items: a pushed state has only items whose dot has moved over the
  pushed symbol, so the state below holds the item before, and so on down the stack;
* `ScopeInv`: tables are numbered in the order of their places, none is in both
  sequences, no name is in two open tables, the global one is first;
* `MarkerInv`: every marker on the stack has an open table, and markers have
  tables in the order of their places. This is why a pop never closes a table whose
  block is under way: the last open table is that of the last marker or was leaked
  above it.

From it follow `TypeCorrect`, `EnclosingScopes`, `Shadowless`, `ViewsAlive`
and, with the lemmas of `ScopeProofs` that each operation is a step of
`Declarations`, `ImplementsMap`.

For the verdict it is strengthened: a recovery under way, an error token on the
stack, a dropped statement or an aborted parse all come with an error in the
collector; without an error every open table has its marker; a `program` on the
stack has set `root`. When the start rule is complete there are no markers, so only
the global table is open. From this follow `WholePrograms`, `Reported` and
`ScopesFollow`. Two more follow from the same invariant:

* `OwnScopesClose`: markers and tables have one order and, without an error, the last
  table has a marker, so it is that of the last marker, which is the one of the block or
  function that ends (`LastIsOwn`). Finding `leak` is thus a matter of errors only;
* `ReadToTheEnd`: an end of file in the lookahead or on the stack was read as one, at the
  end of the text or for an unknown character (`EndSeen`), since reductions push
  nonterminals and a recovery pushes `error`; and the stack that is accepted has one.

`RecoveriesProgress` is the part of `Termination` that is about one step. While `yyerrstatus_` is 3 the
error token is on top of the stack, and behind an error token no state reduces: in every rule
with `error` a token or a block comes next (`BehindError`, `ErrorGotos`). So a step reads a token when there is
none and uses up the one there is; it cannot reduce and reach a `yyerrok`. The mutant takes the `;` off the rule
`error TOK_SEMICOLON`: then the rule is reduced at once, the same token fails again, and so on for ever.

`FrontendProofs` proves that the counters never run ahead of the text, and that
columns are exact on lines without block comments and unknown characters. `FrontendParses`
says that scanner and parser together, seen through the parser's variables, are `Parser`, so
that every theorem on it holds of `Frontend`. `ErrorLinesExist` needs the automaton. Behind any token the scanner is in
a line that exists, and the next location begins there (`LineInv`). Only an end of file can have a line that
does not exist: as the first token, of an empty text, or as the second one, behind a newline. What
the parser does there is decided by three states: the start state reduces `toplevel_none` without a lookahead, the
state behind it shifts an end of file, and so does the one behind `program`, where the second is wanted
(`FirstStates`, `EofGotos` in `GrammarProofs`). So no end of file without a line is ever an
error (`LookaheadInv`), given which states the parser can be in when nothing, or everything, has been
read (`EofInv`). The states are computed from the rules: `ProgramCorners` closes the left corners of `program`.

`CodegenProofs` proves `CInv` for every set of names and every tree, with no assumption on the
constants. What a function or a block restores is known when it is opened: it is in a
step of `work`. So the invariant gives every step that is left a context, the function under
way and the number of open tables on both sides (`Along`): the step behind an `end_func` or
an `end_block` has what that step restores, every other step has the context of the one
before it. In each of these contexts the insert block that a step moves to is one of the
function (`Placed`), and what the parser's tables hold is found in those of the generator or in
`functions_` (`Resolves`); a table of the generator is closed with one of the parser's, never
alone (`Within`). The first context is the present (`Now`). Steps that open and close
nothing keep the chain (`StepKeeps`), and one that opens puts in its place the step that
closes (`BlockKeeps`, `FuncKeeps`, `EndKeeps`). From `CInv` follow `NamesAreFound` and
`InsertBlockIsCurrent`. Two invariants go on from it:

* `BInv`, for `BlocksAreEnded`: the steps that move the insert block are what blocks wait for.
  A block that a step will move to (`Awaited`), each by one step, and the insert block have begun and
  lack their terminator; all others have one, and exactly one if no `return` was visited
  in them (`returned`): behind a `return` the code goes on in the same block. Actions that put steps before the others keep it
  if their new blocks are those that their new steps await (`NewBlocksBegin`);
* `TInv`, for `TablesBelongToFunctions`: the tables are as many as the functions under way, and
  the one of a function that will be left is as far from the last as its `end_func` is from the front. The
  property itself is inductive behind `CInv`; what is to be proved is how the number of `end_func`
  steps moves when steps are put in front or taken off.

`OptionsProofs` proves `OInv` for every set of arguments and command lines of any length. The
property compares with `Role`, a function that is chosen by a recursion along the command line; so the invariant
says that there is one such function and no other (`RoleInv`), and each step extends it by one
argument without changing the roles before it. Beside it, what is awaited is what the last
role says (`AwaitInv`), and input file, output and level are those of the part that was read
(`InputInv`, `OutputInv`, `LevelInv`), in which no argument is unknown (`KnownInv`). `OptionsGiven` takes the
result to `Main`, whose other steps leave the options alone.

`MainProofs` proves `MInv` for every command line, build and failure. `MainParses` says
that `Main`, seen through the parser's variables, is `Parser`: each step of it is a step
of the parser or leaves its variables alone. So all that was proved of `Parser` holds of
`Main`, and `MInv` adds what each stage knows: behind the parse the phase is
"compiling" (`OrderInv`), nothing is on the disk before (`EarlyInv`), a stream that failed
leads to a killed process (`StreamInv`), and a file in part is the dump or that of a
failed stream (`PartInv`, `DumpInv`), the dump behind the end only if its stream has failed. From this follow `NothingWritten`, `SuccessIsWritten` and
`WholeFiles`. That `clang` succeeded is not part of it, as the code does not know.

`InterpreterProofs` proves `KInv`, for `NamesAreKnown`, for every set of programs, whatever is typed, any
`MaxSteps`, and however often loops go round: every item of `todo` will find what it wants (`Ready`), in the table
or among what the items before it leave there. A visit puts in the place of an item others that
find what they want and give what it gave (`Replaced`), and nothing is ever taken from the
table; that is why the branches of an `if`, and a loop that comes round again, need no scopes.
It is proved from `PartsAssumption`, so the theorem says that the rules of the parser's scopes, as far as they
are about what is visited, are enough for the interpreter's flat table.

It is a theorem of `InterpreterSpec`. The run checks the property in `Backends`, each step of
which is one of the interpreter or leaves its variables alone; that is not itself a theorem,
because `Backends` has recursive operators.

Every property that a passing run checks is a theorem, but for six. Only model-checked are:

* `BackendsAgree`, `VariablesHaveValues`, `IrIsValid`, `NamesReachTheirFunction` and
  `DumpShowsTheProgram` of `Backends`: what they say of a program is computed by recursion over its
  tree (`GenProgram`, `Lines`). A module that reaches a recursive operator is out of the prover's reach, and a
  proof would be by induction over trees;
* `Termination`: liveness and ENABLED are out of the prover's reach. `RecoveriesProgress` is its safety part.

That the automaton of `Grammar` has no conflicts is not proved either: `Completed` may
offer two rules to an action, and the theorems hold then, too.

## 6. Findings

* `leak` (`parser.y:460`): a recovery leaves the table of the block it cut off open,
  and later blocks close the wrong tables. Until the first error every block closes its own
  (`OwnScopesClose`), so the tables only affect the messages behind it: `ScopesFollow` and
  `WholePrograms` hold.
* `unknown` (`lexer.l:77`): an unknown character is the end of the file for the
  parser. Since the start rule and Bison each want one end of file, one such
  character behind a statement leads to a syntax error, and two of them end the
  program without one. Nothing else ends a program early (`ReadToTheEnd`).
* `huge` (`parser.y:95`): the exception for a number that does not fit an int loses
  the errors collected before.
* `where` (`parser.y:85`): the first token of a line is reported on the line of the
  token before. Reading the line after the call instead would make
  `get_line_content` read out of range at the end of a file that ends in a
  newline: the mutant of `ErrorLineExists` is that change.
* `operators` (`codegen.cpp:130`): the case of `>=` has no `break`, and the compiled program
  gets the sum of the operands. The interpreter compares.
* `redeclared` (`scope_stack.hpp:59`): the code generator has no tables for blocks,
  and a parameter named like a variable of a closed block makes it throw.

## 7. What is not modelled, and the plan

Not modelled:

* the characters of tokens, the text of messages, the colours and labels of the dump;
* `Node_pool`, an arena that gives nothing back before the parser is destroyed, and LLVM's
  optimizer and clang, which are taken to keep what a program does;
* `parse_commandline_arguments` and `default_compl_out_dir` of `compile_path_gen.hpp`,
  which nothing calls;
* running compiled functions: the interpreter does nothing with them, so the code
  has no second opinion on what they mean;
* the names LLVM gives to functions: a function that is called `printf` or `scanf` is what
  `getOrInsertFunction` finds for the next `print` (listed as a hazard).

Planned:

1. That no state of the automaton offers two rules for one lookahead, or shifts what it
   should reduce on, as far as the default reductions of `Parser` depend on it.
2. The code generator down to operands as steps for any tree, as in `Codegen`, to prove `IrIsValid` and
   `VariablesHaveValues` as `NamesAreKnown` is; that the two back ends
   compute the same values needs induction over trees.
