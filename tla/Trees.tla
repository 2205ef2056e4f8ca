---------------------------------- MODULE Trees ----------------------------------
(***************************************************************************)
(* Whole trees of module Ast: their nodes, and which of them the parser    *)
(* builds.                                                                 *)
(***************************************************************************)
EXTENDS Ast

\* Every node of a tree by its path.
RECURSIVE Paths(_)
Paths(node) ==
  {<<>>} \cup UNION {{<<i>> \o path : path \in Paths(Children(node)[i])}
                     : i \in DOMAIN Children(node)}

RECURSIVE Nodes(_)
Nodes(node) == {node} \cup UNION {Nodes(Children(node)[i]) : i \in DOMAIN Children(node)}

----------------------------------------------------------------------------
(***************************************************************************)
(* The semantic actions look each name up in the open scopes, in the order *)
(* of the text: NewNames are those that are declared when a node has been  *)
(* parsed, and FreeNames those that must have been before, if none in it   *)
(* is to be undeclared.  A block or a function takes what it declares with *)
(* it.                                                                     *)
(***************************************************************************)
RECURSIVE NewNames(_)
NewNames(node) ==
  IF node.kind \in {"Block_expr", "Func"} THEN {}
  ELSE (IF node.kind = "Assignment_expr" THEN {node.variable.name} ELSE {})
         \cup UNION {NewNames(Children(node)[i]) : i \in DOMAIN Children(node)}

RECURSIVE FreeNames(_)
FreeNames(node) ==
  LET kids == IF node.kind = "Assignment_expr" THEN <<node.value>> ELSE Children(node)
      own  == IF node.kind = "Func" THEN ToSet(node.params) \cup {node.name} ELSE {}
      Before(i) == own \cup UNION {NewNames(kids[j]) : j \in 1 .. i - 1}
  IN  IF node.kind = "Variable" THEN {node.name}
      ELSE UNION {FreeNames(kids[i]) \ Before(i) : i \in DOMAIN kids}

\* The trees the parser builds without an error.
Scoped(p) == FreeNames(p) = {}
==================================================================================
