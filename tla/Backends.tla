--------------------------------- MODULE Backends ---------------------------------
(***************************************************************************)
(* One program through everything that is done with its tree: the graph    *)
(* dump, the interpreter, and the code generator with what it compiles.    *)
(* driver() does one of the latter two, as the build says; here the second *)
(* is given the input the first has read, so that they can be compared.    *)
(* All visitors only read the tree, so their order is of no consequence.   *)
(* The interpreter has no functions, so what is compiled of a program with *)
(* functions is not run.                                                   *)
(***************************************************************************)
EXTENDS Interpreter, Machine, Dump, FiniteSets

\* The programs the interpreter is made for.
FunctionFree(p) ==
  \A node \in Nodes(p) : node.kind \notin {"Func", "Call", "Return_stmt"}

ASSUME BackendsAssumption ==
  \A p \in Programs : Scoped(p) /\ (FunctionFree(p) => Understood(p))

VARIABLES
  dumped,    \* the lines of its .gv file
  generated, \* the generator behind the visit of the program
  stage      \* what is done next

backendsVars == <<interpreterVars, machineVars, dumped, generated, stage>>

----------------------------------------------------------------------------
Init ==
  /\ InterpreterInit
  /\ MachineIdle
  /\ dumped = <<>> /\ generated = Entered
  /\ stage = "generate"

\* #else.
Generate ==
  /\ stage = "generate"
  /\ generated' = GenProgram(program)
  /\ stage' = "dump"
  /\ UNCHANGED <<interpreterVars, machineVars, dumped>>

\* #ifdef GRAPH_DUMP.  A dump that crashes takes the compiler with it.
DumpTree ==
  /\ stage = "dump"
  /\ dumped' = graph_dump(program)
  /\ stage' = IF Crashed(dumped') THEN "over" ELSE "interpret"
  /\ UNCHANGED <<interpreterVars, machineVars, generated>>

\* #ifdef INTERPRET.
Interpret ==
  /\ stage = "interpret"
  /\ InterpreterNext
  /\ UNCHANGED <<machineVars, dumped, generated, stage>>

\* What is invalid is not compiled.
Compile ==
  /\ stage = "interpret" /\ ending # "none"
  /\ IF generated.valid /\ FunctionFree(program)
     THEN stage' = "execute" /\ Start(generated)
     ELSE stage' = "over" /\ UNCHANGED machineVars
  /\ UNCHANGED <<interpreterVars, dumped, generated>>

Run ==
  /\ stage = "execute"
  /\ MachineNext(typed)
  /\ UNCHANGED <<interpreterVars, dumped, generated, stage>>

Compare ==
  /\ stage = "execute" /\ outcome # "none"
  /\ stage' = "over"
  /\ UNCHANGED <<interpreterVars, machineVars, dumped, generated>>

Over == stage = "over" /\ UNCHANGED backendsVars

Next == Generate \/ DumpTree \/ Interpret \/ Compile \/ Run \/ Compare \/ Over

Spec == Init /\ [][Next]_backendsVars

----------------------------------------------------------------------------
(***************************************************************************)
(* Which programs mean the same to both.                                   *)
(***************************************************************************)
\* The expressions whose value something else in the program reads.
Operands(node) ==
  CASE node.kind = "Binary_operator"                   -> {node.left, node.right}
    [] node.kind = "Unary_operator"                    -> {node.operand}
    [] node.kind \in {"Assignment_expr", "Print_stmt"} -> {node.value}
    [] node.kind = "Return_stmt"                       -> {node.value} \ {NoNode}
    [] node.kind = "Call"                              -> ToSet(node.args)
    [] node.kind \in {"If_stmt", "While_stmt"}         -> {node.condition}
    [] OTHER                                           -> {}

AllOperands(p) == UNION {Operands(node) : node \in Nodes(p)}

\* Nothing but empty statements is behind the i-th.
IsLast(stmts, i) == \A j \in i + 1 .. Len(stmts) : stmts[j].kind = "Empty_stmt"

\* The node whose value the generator has in last_value_ behind node, if it can
\* be told: the last statement of a block, if that has a value.
RECURSIVE Yields(_)
Yields(node) ==
  CASE node.kind = "Block_expr" ->
         IF \A stmt \in ToSet(node.stmts) : stmt.kind = "Empty_stmt" THEN NoNode
         ELSE Yields(Last(SelectSeq(node.stmts, LAMBDA stmt : stmt.kind # "Empty_stmt")))
    [] node.kind = "Expr_stmt"       -> Yields(node.expr)
    [] node.kind = "Assignment_expr" -> Yields(node.value)
    [] node.kind \in {"If_stmt", "While_stmt", "Return_stmt"} -> NoNode
    [] OTHER -> node

\* The evaluator gives the value of a block's last expression statement.
BlocksGiveValues(p) ==
  \A operand \in AllOperands(p) : Yields(operand).kind \notin {"null", "Print_stmt"}

\* The slot of ? is no variable of the program.
InputIsNoName(p) == Variable(InputSlot) \notin Nodes(p)

Uses(p, op) == \E node \in Nodes(p) : node.kind = "Binary_operator" /\ node.op = op

\* Both back ends have run, and nothing undefined was met.
Comparable == stage = "over" /\ outcome # "none" /\ undefined = {} /\ poisoned = {}

----------------------------------------------------------------------------
(***************************************************************************)
(* Which programs LLVM accepts.                                            *)
(***************************************************************************)
Functions(p)     == {node \in Nodes(p) : node.kind = "Func"}
FunctionNames(p) == {func.name : func \in {f \in Functions(p) : has_name(f)}}

\* What is read, and what a function returns without return, has a value.  The
\* value of a print is the result of printf.
RECURSIVE Returns(_)
Returns(node) ==
  CASE node.kind = "Block_expr" -> \E i \in DOMAIN node.stmts : Returns(node.stmts[i])
    [] node.kind = "Expr_stmt"  -> Returns(node.expr)
    [] OTHER                    -> node.kind = "Return_stmt"

ValuesAreLeft(p) ==
  /\ \A operand \in AllOperands(p) : Yields(operand) # NoNode
  /\ \A func \in Functions(p) : Returns(func.body) \/ Yields(func.body) # NoNode

\* Nothing is behind a return: no statement, and no jump back to a condition.
ReturnsAreLast(p) ==
  \A node \in Nodes(p) :
     /\ node.kind \in {"Program", "Block_expr"} =>
          \A i \in DOMAIN node.stmts : Returns(node.stmts[i]) => IsLast(node.stmts, i)
     /\ node.kind = "While_stmt" => ~Returns(node.body)

\* Functions are only called, by their own name or by that of a variable that
\* holds nothing else.  The number of arguments is right where a function is
\* called by its own name.
Callables(p) ==
  FunctionNames(p) \cup {node.variable.name : node \in
     {n \in Nodes(p) : n.kind = "Assignment_expr" /\ Yields(n.value).kind = "Func"}}

IsFunction(p, expr) ==
  LET value == Yields(expr)
  IN  value.kind = "Func" \/ (value.kind = "Variable" /\ value.name \in Callables(p))

Fits(p, call) ==
  LET value == Yields(call.target)
  IN  \A func \in Functions(p) :
        value = func \/ (has_name(func) /\ value = Variable(func.name))
          => Len(call.args) = Len(func.params)

FunctionsAreCalled(p) ==
  /\ InputSlot \notin Callables(p)
  /\ \A func \in Functions(p) : Callables(p) \cap ToSet(func.params) = {} /\ ~IsFunction(p, func.body)
  /\ \A node \in Nodes(p) :
       /\ node.kind = "Call" => IsFunction(p, node.target) /\ Fits(p, node)
       /\ \A operand \in Operands(node) : IsFunction(p, operand) =
            (node.kind = "Assignment_expr" /\ node.variable.name \in Callables(p))

\* The names that are looked up, and those that get an alloca, when a node is
\* visited, but for those of the functions in it.
RECURSIVE NamesIn(_), Allocated(_)
NamesIn(node) ==
  CASE node.kind = "Func"     -> {}
    [] node.kind = "Variable" -> {node.name}
    [] node.kind = "Input"    -> {InputSlot}
    [] OTHER -> UNION {NamesIn(Children(node)[i]) : i \in DOMAIN Children(node)}

Allocated(node) ==
  CASE node.kind = "Func"  -> {}
    [] node.kind = "Input" -> {InputSlot}
    [] OTHER -> (IF node.kind = "Assignment_expr" THEN {node.variable.name} ELSE {})
                  \cup UNION {Allocated(Children(node)[i]) : i \in DOMAIN Children(node)}

\* No function uses a name that an enclosing function has an alloca for, be it
\* the variable of a block that has been closed; allocated are the names with
\* an alloca when node is visited.
RECURSIVE Apart(_, _)
Apart(node, allocated) ==
  LET kids == Children(node)
      own  == IF node.kind = "Func" THEN ToSet(node.params) ELSE {}
      Before(i) == allocated \cup own \cup UNION {Allocated(kids[j]) : j \in 1 .. i - 1}
  IN  /\ node.kind = "Func" => /\ allocated \cap (own \cup NamesIn(node.body)) = {}
                               /\ IsInjective(node.params)
      /\ \A i \in DOMAIN kids : Apart(kids[i], Before(i))

----------------------------------------------------------------------------
(***************************************************************************)
(* What the names of functions mean.                                       *)
(***************************************************************************)
\* No function is within another of the same name, and within it no variable has
\* its name.
NamesAreClear(p) ==
  \A func \in {f \in Functions(p) : has_name(f)} :
     /\ func.name \notin Allocated(func.body) \cup ToSet(func.params)
     /\ \A inner \in Functions(func.body) :
          func.name \notin {inner.name} \cup Allocated(inner.body) \cup ToSet(inner.params)

\* The functions of a tree in the order of the text, each by its path; and for
\* each use of the name of a function within it, that function.
RECURSIVE FunctionPaths(_, _), Meant(_, _, _)
FunctionPaths(node, path) ==
  LET kids == Children(node)
      Behind(paths, i) == paths \o FunctionPaths(kids[i], Append(path, i))
  IN  FoldLeftDomain(Behind, IF node.kind = "Func" THEN <<path>> ELSE <<>>, kids)

Meant(node, path, known) ==
  LET kids  == Children(node)
      inner == IF node.kind = "Func" THEN (node.name :> path) @@ known ELSE known
      own   == node.kind = "Variable" /\ node.name \in DOMAIN known
      Behind(meant, i) == meant \o Meant(kids[i], Append(path, i), inner)
  IN  FoldLeftDomain(Behind, IF own THEN <<known[node.name]>> ELSE <<>>, kids)

\* The function with this entry block: entries are made in the order of the text.
PathOf(p, cg, entry) ==
  FunctionPaths(p, <<>>)[Cardinality({b \in 2 .. entry : cg.blocks[b].region = <<b>>})]

(***************************************************************************)
(* Properties.                                                             *)
(***************************************************************************)
\* What was printed is the same as far as both went, and if both went to the
\* end it is the same.
SameOutput ==
  /\ IsPrefix(printed, output) \/ IsPrefix(output, printed)
  /\ ending = "finished" /\ outcome = "finished" => printed = output

\* The interpreter and the compiled program print the same numbers for the same
\* input, unless something undefined is met (the input ends, or a division
\* fails), >= is used, a block that gives no value is used as a value, or a
\* variable is called __input_var.
BackendsAgree ==
  (/\ Comparable
   /\ ~Uses(program, "GreaterEq") /\ BlocksGiveValues(program) /\ InputIsNoName(program))
     => SameOutput

\* The scopes of the parser make sure that a variable has a value when it is
\* used, though the code generator has none for blocks: no load of a compiled
\* program reads an alloca nothing was stored to.
VariablesHaveValues == stage = "over" => poisoned \subseteq {"division", "input", InputSlot}

\* LLVM accepts the IR of a program in which values are there to be read, nothing
\* is behind a return, functions are only called, and each uses names of its own.
IrIsValid ==
  stage = "dump" /\ ValuesAreLeft(program) /\ ReturnsAreLast(program)
    /\ FunctionsAreCalled(program) /\ Apart(program, {})
      => generated.valid

\* The name of a function means the innermost function of that name around it,
\* though functions_ has no scopes, unless functions of one name are nested or a
\* variable has the name.
NamesReachTheirFunction ==
  stage = "dump" /\ Apart(program, {}) /\ NamesAreClear(program) =>
    Meant(program, <<>>, <<>>) =
      [i \in DOMAIN generated.reached |-> PathOf(program, generated, generated.reached[i])]

\* The dump is the tree: each node once, and right before it, but for the root,
\* the edge from the node it calls its parent.  It crashes at a return without
\* a value, and only there.
DumpShowsTheProgram ==
  LET places == {i \in DOMAIN dumped : dumped[i].line = "node"}
      Bare   == \E node \in Nodes(program) : node.kind = "Return_stmt" /\ ~has_value(node)
  IN  stage = "over" =>
        /\ Crashed(dumped) = Bare
        /\ ~Bare => {dumped[i].node : i \in places} = Paths(program)
                    /\ Cardinality(places) = Cardinality(Paths(program))
        /\ \A i \in places \ {1} :
              dumped[i - 1] = EdgeLine(dumped[i].parent, dumped[i].node)
                /\ dumped[i].parent = Front(dumped[i].node)

\* README.md:274: >= is one of the comparison operators of the language.
AllOperatorsAgree ==
  Comparable /\ BlocksGiveValues(program) /\ InputIsNoName(program) => SameOutput
===================================================================================
