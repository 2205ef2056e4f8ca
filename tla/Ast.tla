----------------------------------- MODULE Ast -----------------------------------
(***************************************************************************)
(* The nodes of the abstract syntax tree                                   *)
(* (frontend/include/data_structures/node.hpp) as values: a record holds   *)
(* the members of its class, and kind names the class, which is what       *)
(* accept tells a visitor.  A node is shared by no two parents, so it can  *)
(* be told from an equal one by its path from the root.                    *)
(***************************************************************************)
EXTENDS Integers, Sequences, SequencesExt

\* The null pointer of a member that may be missing.
NoNode == [kind |-> "null"]

Program(stmts)    == [kind |-> "Program", stmts |-> stmts]
Block_expr(stmts) == [kind |-> "Block_expr", stmts |-> stmts]
Empty_stmt        == [kind |-> "Empty_stmt"]
Expr_stmt(expr)   == [kind |-> "Expr_stmt", expr |-> expr]
Print_stmt(value) == [kind |-> "Print_stmt", value |-> value]

Return_stmt(value) == [kind |-> "Return_stmt", value |-> value]

While_stmt(condition, body) ==
  [kind |-> "While_stmt", condition |-> condition, body |-> body]

If_stmt(condition, then_branch, else_branch) ==
  [kind |-> "If_stmt", condition |-> condition, then |-> then_branch, else |-> else_branch]

Number(number)  == [kind |-> "Number", number |-> number]
Variable(name)  == [kind |-> "Variable", name |-> name]
Input           == [kind |-> "Input"]

Assignment_expr(name, value) ==
  [kind |-> "Assignment_expr", variable |-> Variable(name), value |-> value]

Binary_operator(op, left, right) ==
  [kind |-> "Binary_operator", op |-> op, left |-> left, right |-> right]

Unary_operator(op, operand) ==
  [kind |-> "Unary_operator", op |-> op, operand |-> operand]

Func(name, params, body) ==
  [kind |-> "Func", name |-> name, params |-> params, body |-> body]

Call(target, args) == [kind |-> "Call", target |-> target, args |-> args]

Comparisons == {"Eq", "Neq", "Less", "LessEq", "Greater", "GreaterEq"}
Binary_operators ==
  Comparisons \cup {"Add", "Sub", "Mul", "Div", "RemDiv", "And", "Xor", "Or", "LogOr", "LogAnd"}
Unary_operators == {"Neg", "Plus", "Not"}

contains_else_branch(node) == node.else # NoNode
has_value(node)            == node.value # NoNode
has_name(func)             == func.name # ""

\* The classes that are derived from Statement, and from Expression.
Statement  == {"Empty_stmt", "Expr_stmt", "Print_stmt", "Return_stmt", "While_stmt", "If_stmt"}
Expression == {"Number", "Variable", "Input", "Assignment_expr", "Binary_operator",
                "Unary_operator", "Block_expr", "Func", "Call"}
Kinds      == {"Program"} \cup Statement \cup Expression

----------------------------------------------------------------------------
\* The nodes a node points to; which field holds them depends on its class.
Children(node) ==
  LET Held(field) == IF field \in DOMAIN node /\ node[field] # NoNode
                     THEN <<node[field]>> ELSE <<>>
      Listed(field) == IF field \in DOMAIN node THEN node[field] ELSE <<>>
      Fields == <<"variable", "expr", "condition", "then", "else", "left", "right",
                  "operand", "target", "value", "body">>
  IN  Listed("stmts") \o FlattenSeq([i \in DOMAIN Fields |-> Held(Fields[i])]) \o Listed("args")
==================================================================================
