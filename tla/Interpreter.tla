------------------------------- MODULE Interpreter -------------------------------
(***************************************************************************)
(* The tree-walking back end: the visitors Simulator                       *)
(* (frontend/src/simulator.cpp) and Expression_evaluator                   *)
(* (frontend/src/expr_evaluator.cpp).                                      *)
(*                                                                         *)
(* todo holds what is left of the visits under way, the next one first: a  *)
(* node, or what a visit does behind its children.  evaluators holds       *)
(* result_ of the Expression_evaluators that live, the one made last on    *)
(* top: who wants a value makes one, a visit of an expression sets its     *)
(* result_ or leaves it, and who made it reads it and lets it go.  What    *)
(* std::cin gives is chosen when it is read.                               *)
(***************************************************************************)
EXTENDS Words

CONSTANTS
  Programs,   \* the programs, trees of module Ast
  Parts,      \* trees whose names the parser has found, with all that is visited in them
  Needs,      \* the names that are known before a part, if it is to find its own
  Declares,   \* the names that are known behind it because of it
  Typed,      \* the numbers that are typed
  MaxTyped,   \* bound: how many of them
  MaxSteps    \* bound: the visits before the interpreter is looked at no longer

ASSUME InterpreterAssumption ==
  /\ \A p \in Programs : p.kind = "Program"
  /\ Typed \subseteq number_t /\ MaxTyped \in Nat /\ MaxSteps \in Nat

(***************************************************************************)
(* What the semantic actions of parser.y let pass: names are looked up in  *)
(* the order of the text, and a block takes what it declares with it.  An  *)
(* if has two orders, since one of its branches is left out.  Functions    *)
(* and calls declare as well, but nothing of theirs is visited here.       *)
(***************************************************************************)
InOrder(nodes, names) ==
  \A i \in DOMAIN nodes :
     Needs[nodes[i]] \subseteq names \cup UNION {Declares[nodes[j]] : j \in 1 .. i - 1}

Orders(node) ==
  CASE node.kind \in {"Program", "Block_expr"}          -> {node.stmts}
    [] node.kind = "Expr_stmt"                          -> {<<node.expr>>}
    [] node.kind \in {"Print_stmt", "Assignment_expr"} -> {<<node.value>>}
    [] node.kind = "Binary_operator"                    -> {<<node.left, node.right>>}
    [] node.kind = "Unary_operator"                     -> {<<node.operand>>}
    [] node.kind = "If_stmt"    -> {<<node.condition, node.then>>}
                                     \cup {<<node.condition, n>> : n \in {node.else} \ {NoNode}}
    [] node.kind = "While_stmt"                         -> {<<node.condition, node.body>>}
    [] OTHER                                            -> {}

DeclaredIn(node) ==
  CASE node.kind = "Program"          -> UNION {Declares[stmt] : stmt \in ToSet(node.stmts)}
    [] node.kind = "Expr_stmt"                  -> Declares[node.expr]
    [] node.kind = "Print_stmt"                 -> Declares[node.value]
    [] node.kind = "Assignment_expr"            -> Declares[node.value] \cup {node.variable.name}
    [] node.kind = "Binary_operator"            -> Declares[node.left] \cup Declares[node.right]
    [] node.kind = "Unary_operator"             -> Declares[node.operand]
    [] node.kind \in {"If_stmt", "While_stmt"} -> Declares[node.condition]
    [] OTHER                                    -> {}

ASSUME PartsAssumption ==
  \A node \in Parts :
     /\ node.kind \in Kinds
     /\ node.kind = "Variable" => node.name \in Needs[node]
     /\ \A nodes \in Orders(node) : nodes \in Seq(Parts) /\ InOrder(nodes, Needs[node])
     /\ Declares[node] \subseteq DeclaredIn(node)

----------------------------------------------------------------------------
VARIABLES
  program,     \* the program
  todo,        \* the visits left, as a sequence
  evaluators,  \* result_ of the evaluators that live, the last one made on top
  nametable_,  \* the variables, a function from names to numbers
  typed,       \* what std::cin has given
  printed,     \* what std::cout was given
  undefined,   \* the operations without a defined result that were met
  ending,      \* how the walk ended, "none" while it goes on
  steps        \* the visits made, for the bound

interpreterVars ==
  <<program, todo, evaluators, nametable_, typed, printed, undefined, ending, steps>>

InterpreterInit ==
  /\ program \in Programs
  /\ todo = program.stmts
  /\ evaluators = <<>> /\ nametable_ = <<>>
  /\ typed = <<>> /\ printed = <<>>
  /\ undefined = {}
  /\ ending = "none"
  /\ steps = 0

----------------------------------------------------------------------------
\* The next visit is one of kind, and others take its place.
Visit(kind, others) ==
  /\ ending = "none" /\ steps < MaxSteps /\ steps' = steps + 1
  /\ todo # <<>> /\ Head(todo).kind = kind
  /\ todo' = others \o Tail(todo)
  /\ UNCHANGED program

\* A visit that leaves the evaluators, and one that makes, sets or drops some.
Defer(kind, others) ==
  Visit(kind, others) /\ UNCHANGED <<evaluators, nametable_, typed, printed, undefined, ending>>

Evaluate(kind, others, values) ==
  /\ Visit(kind, others) /\ evaluators' = values
  /\ UNCHANGED <<nametable_, typed, printed, undefined, ending>>

After(visit) == [kind |-> visit]

Node   == Head(todo)
Result == Last(evaluators)

\* The evaluators without the k made last, with a new one on top, and, with k
\* dropped, with n as the result of the one below.
Drop(k)   == SubSeq(evaluators, 1, Len(evaluators) - k)
Make      == Append(evaluators, 0)
Set(k, n) == Append(Drop(k + 1), n)

----------------------------------------------------------------------------
(***************************************************************************)
(* Expressions: the visits of Expression_evaluator.                        *)
(***************************************************************************)
visit_Number == Evaluate("Number", <<>>, Set(0, Node.number))

visit_Variable ==
  LET known == Node.name \in DOMAIN nametable_
  IN  /\ Visit("Variable", <<>>)
      /\ evaluators' = IF known THEN Set(0, nametable_[Node.name]) ELSE evaluators
      /\ ending' = IF known THEN ending ELSE "unknown variable"
      /\ UNCHANGED <<nametable_, typed, printed, undefined>>

visit_Assignment ==
  Evaluate("Assignment_expr",
           <<Node.value, [kind |-> "assign", name |-> Node.variable.name]>>, Make)

\* A faulty variant: a new name is not entered.
assignKnown ==
  /\ Visit("assign", <<>>)
  /\ nametable_' = IF Node.name \in DOMAIN nametable_
                   THEN [nametable_ EXCEPT ![Node.name] = Result] ELSE nametable_
  /\ evaluators' = Set(1, Result)
  /\ UNCHANGED <<typed, printed, undefined, ending>>

\* The value is the result of the assignment as well.
assign ==
  /\ Visit("assign", <<>>)
  /\ nametable_' = [name \in DOMAIN nametable_ \cup {Node.name} |->
                      IF name = Node.name THEN Result ELSE nametable_[name]]
  /\ evaluators' = Set(1, Result)
  /\ UNCHANGED <<typed, printed, undefined, ending>>

\* Both operands are evaluated, whatever the operator.
visit_Binary ==
  Evaluate("Binary_operator", <<Node.left, [kind |-> "right_eval", node |-> Node]>>, Make)

right_eval ==
  Evaluate("right_eval", <<Node.node.right, [kind |-> "apply", op |-> Node.node.op]>>, Make)

\* A division that fails raises a signal, or gives any number.
apply ==
  LET left  == evaluators[Len(evaluators) - 1]
      fails == DivisionFails(Node.op, left, Result)
  IN  /\ Visit("apply", <<>>)
      /\ undefined' = IF fails THEN undefined \cup {"division"} ELSE undefined
      /\ \/ /\ \E n \in IF fails THEN Arbitrary ELSE {Apply(Node.op, left, Result)} :
                  evaluators' = Set(2, n)
            /\ UNCHANGED ending
         \/ fails /\ ending' = "killed" /\ UNCHANGED evaluators
      /\ UNCHANGED <<nametable_, typed, printed>>

visit_Unary ==
  Evaluate("Unary_operator", <<Node.operand, [kind |-> "applyUnary", op |-> Node.op]>>, Make)

applyUnary == Evaluate("applyUnary", <<>>, Set(1, ApplyUnary(Node.op, Result)))

\* At the end of the input, and ever after, std::cin leaves value as it was: it
\* has no initial value.
visit_Input ==
  /\ Visit("Input", <<>>)
  /\ \/ /\ "input" \notin undefined /\ Len(typed) < MaxTyped
        /\ \E n \in Typed : evaluators' = Set(0, n) /\ typed' = Append(typed, n)
        /\ UNCHANGED undefined
     \/ /\ \E n \in Arbitrary : evaluators' = Set(0, n)
        /\ undefined' = undefined \cup {"input"}
        /\ UNCHANGED typed
  /\ UNCHANGED <<nametable_, printed, ending>>

\* last_value is 0 and then the value of each statement that is an expression; it is
\* result_ in the end, and here all the time, as nobody reads that before.
BlockVisits(stmts) ==
  [i \in DOMAIN stmts |->
     IF stmts[i].kind = "Expr_stmt" THEN [kind |-> "evaluate", stmt |-> stmts[i]] ELSE stmts[i]]

visit_Block == Evaluate("Block_expr", BlockVisits(Node.stmts), Set(0, 0))

evaluate == Evaluate("evaluate", <<Node.stmt.expr, After("last_value")>>, Make)

last_value == Evaluate("last_value", <<>>, Set(1, Result))

\* Empty visits: no argument is evaluated, and result_ is left as it was made.
visit_Func == Defer("Func", <<>>)
visit_Call == Defer("Call", <<>>)

----------------------------------------------------------------------------
(***************************************************************************)
(* Statements: the visits of Simulator.                                    *)
(***************************************************************************)
visit_Return == Defer("Return_stmt", <<>>)
visit_Empty  == Defer("Empty_stmt", <<>>)

\* evaluate_expression makes the evaluator.
visit_Expr_stmt == Evaluate("Expr_stmt", <<Node.expr, After("discard")>>, Make)
discard         == Evaluate("discard", <<>>, Drop(1))

visit_Print == Evaluate("Print_stmt", <<Node.value, After("print")>>, Make)

print ==
  /\ Visit("print", <<>>)
  /\ printed' = Append(printed, Result) /\ evaluators' = Drop(1)
  /\ UNCHANGED <<nametable_, typed, undefined, ending>>

visit_If == Evaluate("If_stmt", <<Node.condition, [kind |-> "choose", node |-> Node]>>, Make)

Branch(node, condition) ==
  IF condition # 0 THEN <<node.then, After("discard")>>
  ELSE IF contains_else_branch(node) THEN <<node.else, After("discard")>> ELSE <<>>

\* The evaluator of the condition goes, and one for what is visited is made.
Renewed(others) == IF others = <<>> THEN Drop(1) ELSE Set(0, 0)

choose ==
  LET others == Branch(Node.node, Result)
  IN  Evaluate("choose", others, Renewed(others))

visit_While == Evaluate("While_stmt", <<Node.condition, [kind |-> "loop", node |-> Node]>>, Make)

\* After the body comes the same statement again.
loop ==
  LET others == IF Result = 0 THEN <<>> ELSE <<Node.node.body, After("discard"), Node.node>>
  IN  Evaluate("loop", others, Renewed(others))

finish ==
  /\ ending = "none" /\ todo = <<>>
  /\ ending' = "finished"
  /\ UNCHANGED <<program, todo, evaluators, nametable_, typed, printed, undefined, steps>>

\* The bound: the walk is looked at no longer.
cut ==
  /\ ending = "none" /\ todo # <<>> /\ steps = MaxSteps
  /\ ending' = "cut"
  /\ UNCHANGED <<program, todo, evaluators, nametable_, typed, printed, undefined, steps>>

InterpreterNext ==
  \/ visit_Number \/ visit_Variable \/ visit_Assignment \/ assign
  \/ visit_Binary \/ right_eval \/ apply \/ visit_Unary \/ applyUnary
  \/ visit_Input \/ visit_Block \/ evaluate \/ last_value \/ visit_Func \/ visit_Call
  \/ visit_Return \/ visit_Empty \/ visit_Expr_stmt \/ discard \/ visit_Print \/ print
  \/ visit_If \/ choose \/ visit_While \/ loop \/ finish \/ cut

InterpreterSpec == InterpreterInit /\ [][InterpreterNext]_interpreterVars

----------------------------------------------------------------------------
\* All names in the program are found by the interpreter's rules.
Understood(p) == p \in Parts /\ Needs[p] = {}

\* The table of the interpreter has one level, is never cleared, and knows nothing
\* of blocks, branches and loops; that the names of a program were found by the
\* scopes of the parser is all that keeps expr_evaluator.cpp:21 from throwing.
VariablesAreKnown == Understood(program) => ending # "unknown variable"
==================================================================================
