----------------------------------- MODULE Dump -----------------------------------
(***************************************************************************)
(* The visitor Graph_dump (frontend/src/graph_dump.cpp): the lines it      *)
(* writes to the .gv file, without their colours, names and texts.  The    *)
(* address of a node is its path from the root: path \o <<i>> for the i-th *)
(* child its parent's visit goes to.                                       *)
(***************************************************************************)
EXTENDS Trees

NodeLine(path, parent) == [line |-> "node", node |-> path, parent |-> parent]
EdgeLine(from, to)     == [line |-> "edge", from |-> from, to |-> to]

\* A call through a null pointer: nothing is written behind it.
CrashLine      == [line |-> "crash"]
Crashed(lines) == lines # <<>> /\ Last(lines) = CrashLine

\* A statement of the lists below may be null, which is passed over.
NonNull(nodes) == SelectSeq(nodes, LAMBDA node : node # NoNode)

\* A faulty variant: else is forgotten.
IfVisitsThen(node) == <<node.condition, node.then>>

IfVisits(node) ==
  <<node.condition, node.then>>
    \o (IF contains_else_branch(node) THEN <<node.else>> ELSE <<>>)

OperatorVisits(node) ==
  IF node.kind = "Binary_operator" THEN <<node.left, node.right>> ELSE <<node.operand>>

\* A return statement goes to its value, whether it has one or not.
FunctionVisits(node) ==
  CASE node.kind = "Func"        -> <<node.body>>
    [] node.kind = "Call"        -> <<node.target>> \o NonNull(node.args)
    [] node.kind = "Return_stmt" -> <<node.value>>

\* The children that the visit of each class goes to, in their order.
Visits(node) ==
  CASE node.kind \in {"Program", "Block_expr"}                -> NonNull(node.stmts)
    [] node.kind = "Assignment_expr"                          -> <<node.variable, node.value>>
    [] node.kind = "While_stmt"                               -> <<node.condition, node.body>>
    [] node.kind = "If_stmt"                                  -> IfVisits(node)
    [] node.kind = "Print_stmt"                               -> <<node.value>>
    [] node.kind = "Expr_stmt"                                -> <<node.expr>>
    [] node.kind \in {"Binary_operator", "Unary_operator"}    -> OperatorVisits(node)
    [] node.kind \in {"Func", "Call", "Return_stmt"}          -> FunctionVisits(node)
    [] OTHER                                                  -> <<>>

\* A visit writes its node, and for each child the edge to it and then what
\* the visit of the child writes.
RECURSIVE Lines(_, _, _)
Lines(node, path, parent) ==
  LET kids == Visits(node)
      Child(lines, i) ==
        IF Crashed(lines) THEN lines
        ELSE lines \o <<EdgeLine(path, Append(path, i))>>
                   \o (IF kids[i] = NoNode THEN <<CrashLine>>
                       ELSE Lines(kids[i], Append(path, i), path))
  IN  FoldLeft(Child, <<NodeLine(path, parent)>>, [i \in DOMAIN kids |-> i])

NoParent == <<0>>   \* the null pointer

graph_dump(root) == Lines(root, <<>>, NoParent)
==================================================================================
