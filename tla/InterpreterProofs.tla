----------------------------- MODULE InterpreterProofs -----------------------------
(***************************************************************************)
(* Proofs about the interpreter: the names of a program are in the table   *)
(* when they are visited, if what is visited declares them.                *)
(***************************************************************************)
EXTENDS Interpreter, TLAPS

(***************************************************************************)
(* What todo holds: parts of the program, and what visits do behind their  *)
(* children.                                                               *)
(***************************************************************************)
OfKind(kind) == {node \in Parts : node.kind = kind}

Marks == {After(mark) : mark \in {"last_value", "discard", "print"}}

Steps ==
  Marks
  \cup {[kind |-> "assign", name |-> node.variable.name] : node \in OfKind("Assignment_expr")}
  \cup {[kind |-> "right_eval", node |-> node] : node \in OfKind("Binary_operator")}
  \cup {[kind |-> "apply", op |-> node.op] : node \in OfKind("Binary_operator")}
  \cup {[kind |-> "applyUnary", op |-> node.op] : node \in OfKind("Unary_operator")}
  \cup {[kind |-> "evaluate", stmt |-> node] : node \in OfKind("Expr_stmt")}
  \cup {[kind |-> "choose", node |-> node] : node \in OfKind("If_stmt")}
  \cup {[kind |-> "loop", node |-> node] : node \in OfKind("While_stmt")}

Items == Parts \cup Steps

(***************************************************************************)
(* The names that an item of todo wants to be in the table, and those it   *)
(* leaves there.                                                           *)
(***************************************************************************)
Branches(node) == {node.then} \cup ({node.else} \ {NoNode})

Wants(item) ==
  CASE item.kind = "evaluate" -> Needs[item.stmt]
    [] item.kind = "right_eval" -> Needs[item.node.right]
    [] item.kind = "choose"   -> UNION {Needs[node] : node \in Branches(item.node)}
    [] item.kind = "loop"     -> Needs[item.node] \cup Needs[item.node.body]
    [] item.kind \in Kinds    -> Needs[item]
    [] OTHER                  -> {}

Gives(item) ==
  CASE item.kind = "evaluate" -> Declares[item.stmt]
    [] item.kind = "assign"   -> {item.name}
    [] item.kind = "right_eval" -> Declares[item.node.right]
    [] item.kind \in Kinds    -> Declares[item]
    [] OTHER                  -> {}

\* Every item will find what it wants, when names are in the table now.
Ready(items, names) ==
  \A i \in DOMAIN items : \A name \in Wants(items[i]) :
     name \in names \/ \E j \in 1 .. i - 1 : name \in Gives(items[j])

KInv == todo \in Seq(Items) /\ Ready(todo, DOMAIN nametable_) /\ ending # "unknown variable"

----------------------------------------------------------------------------
(***************************************************************************)
(* Items.                                                                  *)
(***************************************************************************)
\* A part wants and gives what the parser knows of it.
LEMMA PartItem ==
  ASSUME NEW node \in Parts
  PROVE  node \in Items /\ Wants(node) = Needs[node] /\ Gives(node) = Declares[node]
<1>1. node.kind \in Kinds
  BY PartsAssumption
<1>2. node.kind \notin {"evaluate", "right_eval", "choose", "loop", "assign"}
  BY <1>1 DEF Kinds, Statement, Expression
<1> QED
  BY <1>1, <1>2 DEF Wants, Gives, Items

\* A mark wants and gives nothing.
LEMMA MarkItem ==
  ASSUME NEW mark \in {"last_value", "discard", "print"}
  PROVE  After(mark) \in Items /\ Wants(After(mark)) = {} /\ Gives(After(mark)) = {}
<1>1. After(mark).kind = mark
  BY DEF After
<1>2. After(mark) \in Items
  BY DEF Items, Steps, Marks
<1>3. mark \notin {"evaluate", "right_eval", "choose", "loop", "assign"} \cup Kinds
  BY DEF Kinds, Statement, Expression
<1> QED
  BY <1>1, <1>2, <1>3 DEF Wants, Gives

\* The item of a kind that is visited is a node, but for the kinds of steps.
LEMMA KindOfStep ==
  ASSUME NEW item \in Items, item.kind \in Kinds
  PROVE  item \in Parts
  BY DEF Items, Steps, Marks, Kinds, Statement, Expression, After

\* The steps of the other kinds.
LEMMA StepOfKind ==
  ASSUME NEW item \in Items
  PROVE  /\ item.kind = "assign" => Gives(item) = {item.name}
         /\ item.kind = "evaluate" => item.stmt \in OfKind("Expr_stmt")
         /\ item.kind = "right_eval" => item.node \in OfKind("Binary_operator")
         /\ item.kind = "choose" => item.node \in OfKind("If_stmt")
         /\ item.kind = "loop" => item.node \in OfKind("While_stmt")
<1>1. item.kind = "assign" => Gives(item) = {item.name}
  BY DEF Gives, Kinds, Statement, Expression
<1>2. item \in Parts => item.kind \in Kinds
  BY PartsAssumption
<1> QED
  BY <1>1, <1>2 DEF Items, Steps, Marks, Kinds, Statement, Expression, After

\* What is put in front of the rest gives at least what the item in whose place it
\* is put gave, so the rest finds what it wants.
LEMMA Replaced ==
  ASSUME NEW items \in Seq(Items), items # <<>>, NEW others \in Seq(Items),
         NEW names, NEW more, names \subseteq more,
         Ready(items, names), Ready(others, more),
         \A name \in Gives(Head(items)) :
            name \in more \/ \E j \in DOMAIN others : name \in Gives(others[j])
  PROVE  others \o Tail(items) \in Seq(Items) /\ Ready(others \o Tail(items), more)
<1> DEFINE rest == Tail(items)
           all  == others \o rest
           n    == Len(others)
<1>1. rest \in Seq(Items) /\ Len(rest) = Len(items) - 1 /\ \A i \in 1 .. Len(rest) : rest[i] = items[i + 1]
  OBVIOUS
<1>2. all \in Seq(Items) /\ Len(all) = n + Len(rest) /\ n \in Nat /\ Len(items) \in Nat
  BY <1>1
<1>3. \A i \in 1 .. n : all[i] = others[i]
  BY <1>1
<1>4. \A i \in n + 1 .. n + Len(rest) : all[i] = items[i - n + 1]
  BY <1>1
<1>5. ASSUME NEW i \in 1 .. Len(all), NEW name \in Wants(all[i])
      PROVE  name \in more \/ \E j \in 1 .. i - 1 : name \in Gives(all[j])
  <2>1. CASE i \in 1 .. n
    <3>1. all[i] = others[i] /\ i \in DOMAIN others
      BY <1>3, <2>1
    <3>2. name \in more \/ \E j \in 1 .. i - 1 : name \in Gives(others[j])
      BY <3>1 DEF Ready
    <3> QED
      BY <3>2, <2>1, <1>2, <1>3
  <2>2. CASE i \in n + 1 .. n + Len(rest)
    <3> DEFINE k == i - n + 1
    <3>1. all[i] = items[k] /\ k \in 2 .. Len(items)
      BY <1>1, <1>2, <1>4, <2>2
    <3>2. name \in names \/ \E j \in 1 .. k - 1 : name \in Gives(items[j])
      BY <3>1, <1>2 DEF Ready
    <3>3. CASE name \in names
      BY <3>3
    <3>4. ASSUME NEW j \in 1 .. k - 1, name \in Gives(items[j])
          PROVE  name \in more \/ \E l \in 1 .. i - 1 : name \in Gives(all[l])
      <4>1. CASE j = 1
        <5>1. items[1] = Head(items)
          OBVIOUS
        <5>2. name \in more \/ \E l \in 1 .. n : name \in Gives(others[l])
          BY <3>4, <4>1, <5>1
        <5> QED
          BY <5>2, <1>2, <1>3, <2>2
      <4>2. CASE j # 1
        <5> DEFINE l == j + n - 1
        <5>1. l \in n + 1 .. n + Len(rest) /\ l \in 1 .. i - 1 /\ l - n + 1 = j
          BY <1>1, <1>2, <2>2, <3>1, <4>2
        <5>2. all[l] = items[j]
          BY <5>1, <1>4
        <5> QED
          BY <5>1, <5>2, <3>4
      <4> QED
        BY <4>1, <4>2
    <3> QED
      BY <3>2, <3>3, <3>4
  <2> QED
    BY <1>1, <1>2, <2>1, <2>2
<1>6. DOMAIN all = 1 .. Len(all)
  BY <1>2
<1> QED
  BY <1>2, <1>5, <1>6 DEF Ready

----------------------------------------------------------------------------
(***************************************************************************)
(* Visits.                                                                 *)
(***************************************************************************)
\* The item that is visited finds what it wants.
LEMMA NodeKnown ==
  ASSUME KInv, todo # <<>>
  PROVE  Node \in Items /\ Wants(Node) \subseteq DOMAIN nametable_
<1>1. todo \in Seq(Items) /\ Ready(todo, DOMAIN nametable_)
  BY DEF KInv
<1>2. Node = todo[1] /\ 1 \in DOMAIN todo /\ Node \in Items
  BY <1>1 DEF Node
<1>3. 1 .. 1 - 1 = {}
  OBVIOUS
<1> QED
  BY <1>1, <1>2, <1>3 DEF Ready

\* Parts in an order of the parser find what they want.
LEMMA OrderIsReady ==
  ASSUME NEW nodes \in Seq(Parts), NEW wanted, InOrder(nodes, wanted),
         NEW names, wanted \subseteq names
  PROVE  nodes \in Seq(Items) /\ Ready(nodes, names)
<1>1. nodes \in Seq(Items)
  BY DEF Items
<1>2. \A i \in DOMAIN nodes : nodes[i] \in Parts
  OBVIOUS
<1>3. ASSUME NEW i \in DOMAIN nodes, NEW name \in Wants(nodes[i])
      PROVE  name \in names \/ \E j \in 1 .. i - 1 : name \in Gives(nodes[j])
  <2>1. name \in Needs[nodes[i]]
    BY <1>2, <1>3, PartItem
  <2>2. name \in wanted \/ \E j \in 1 .. i - 1 : name \in Declares[nodes[j]]
    BY <2>1 DEF InOrder
  <2>3. \A j \in 1 .. i - 1 : Gives(nodes[j]) = Declares[nodes[j]]
    BY <1>2, PartItem
  <2> QED
    BY <2>2, <2>3
<1> QED
  BY <1>1, <1>3 DEF Ready

\* A step that is put behind others.
LEMMA StepBehind ==
  ASSUME NEW items \in Seq(Items), NEW names, Ready(items, names),
         NEW item \in Items,
         \A name \in Wants(item) : name \in names \/ \E j \in DOMAIN items : name \in Gives(items[j])
  PROVE  /\ Append(items, item) \in Seq(Items) /\ Ready(Append(items, item), names)
         /\ \A name : (name \in Gives(item) \/ \E j \in DOMAIN items : name \in Gives(items[j])) =>
              \E j \in DOMAIN Append(items, item) : name \in Gives(Append(items, item)[j])
<1> DEFINE all == Append(items, item)
           n   == Len(items)
<1>1. all \in Seq(Items) /\ n \in Nat /\ DOMAIN all = 1 .. n + 1 /\ DOMAIN items = 1 .. n
  OBVIOUS
<1>2. all[n + 1] = item /\ \A i \in 1 .. n : all[i] = items[i]
  OBVIOUS
<1>3. ASSUME NEW i \in 1 .. n + 1, NEW name \in Wants(all[i])
      PROVE  name \in names \/ \E j \in 1 .. i - 1 : name \in Gives(all[j])
  <2>1. CASE i \in 1 .. n
    <3>1. name \in Wants(items[i])
      BY <1>2, <1>3, <2>1
    <3>2. name \in names \/ \E j \in 1 .. i - 1 : name \in Gives(items[j])
      BY <3>1, <2>1, <1>1 DEF Ready
    <3> QED
      BY <3>2, <2>1, <1>1, <1>2
  <2>2. CASE i = n + 1
    <3>1. name \in names \/ \E j \in 1 .. n : name \in Gives(items[j])
      BY <1>1, <1>2, <1>3, <2>2
    <3> QED
      BY <3>1, <2>2, <1>1, <1>2
  <2> QED
    BY <1>1, <2>1, <2>2
<1>4. Ready(all, names)
  BY <1>1, <1>3 DEF Ready
<1>5. ASSUME NEW name, name \in Gives(item) \/ \E j \in DOMAIN items : name \in Gives(items[j])
      PROVE  \E j \in DOMAIN all : name \in Gives(all[j])
  BY <1>1, <1>2, <1>5
<1> QED
  BY <1>1, <1>4, <1>5

\* A visit that puts others in the place of its item keeps the invariant, if they
\* find what they want in a table that has only grown, and give what it gave.
LEMMA VisitKeeps ==
  ASSUME KInv, NEW kind, NEW others \in Seq(Items), Visit(kind, others),
         DOMAIN nametable_ \subseteq DOMAIN nametable_', Ready(others, DOMAIN nametable_'),
         \A name \in Gives(Node) :
            name \in DOMAIN nametable_' \/ \E j \in DOMAIN others : name \in Gives(others[j]),
         ending' # "unknown variable"
  PROVE  KInv'
<1>1. todo # <<>> /\ todo \in Seq(Items) /\ todo' = others \o Tail(todo)
  BY DEF KInv, Visit
<1>2. Ready(todo, DOMAIN nametable_)
  BY DEF KInv
<1>3. todo' \in Seq(Items) /\ Ready(todo', DOMAIN nametable_')
  BY <1>1, <1>2, Replaced DEF Node
<1>4. Ready(todo, DOMAIN nametable_)'
  BY <1>3 DEF Ready
<1>5. (todo \in Seq(Items))'
  BY <1>3
<1> QED
  BY <1>4, <1>5 DEF KInv

\* No items want nothing.
LEMMA NothingIsReady ==
  ASSUME NEW names
  PROVE  <<>> \in Seq(Items) /\ Ready(<<>>, names)
<1>1. <<>> \in Seq(Items)
  OBVIOUS
<1>2. DOMAIN <<>> = {}
  OBVIOUS
<1> QED
  BY <1>1, <1>2 DEF Ready

\* A visit that puts nothing in the place of an item that gives nothing.
LEMMA PlainVisitKeeps ==
  ASSUME KInv, NEW kind, Visit(kind, <<>>), Gives(Node) = {}, UNCHANGED nametable_,
         ending' # "unknown variable"
  PROVE  KInv'
<1>1. DOMAIN nametable_ \subseteq DOMAIN nametable_'
  OBVIOUS
<1> QED
  BY <1>1, NothingIsReady, VisitKeeps

\* A visit that goes to the parts of a part, and then does a step of its own.
LEMMA PartVisitKeeps ==
  ASSUME KInv, NEW kind, NEW part \in Parts, Needs[part] \subseteq DOMAIN nametable_,
         Gives(Node) = Declares[part],
         NEW nodes \in Seq(Parts), InOrder(nodes, Needs[part]),
         NEW step \in Items,
         \A name \in Wants(step) :
            name \in Needs[part] \/ \E j \in DOMAIN nodes : name \in Declares[nodes[j]],
         \A name \in Declares[part] :
            name \in Gives(step) \/ \E j \in DOMAIN nodes : name \in Declares[nodes[j]],
         Visit(kind, Append(nodes, step)), UNCHANGED <<nametable_, ending>>
  PROVE  KInv'
<1>1. nodes \in Seq(Items) /\ Ready(nodes, DOMAIN nametable_)
  BY OrderIsReady
<1>2. \A j \in DOMAIN nodes : Gives(nodes[j]) = Declares[nodes[j]]
  <2>1. \A j \in DOMAIN nodes : nodes[j] \in Parts
    OBVIOUS
  <2> QED
    BY <2>1, PartItem
<1>3. \A name \in Wants(step) :
         name \in DOMAIN nametable_ \/ \E j \in DOMAIN nodes : name \in Gives(nodes[j])
  BY <1>2
<1>4. /\ Append(nodes, step) \in Seq(Items) /\ Ready(Append(nodes, step), DOMAIN nametable_)
      /\ \A name : (name \in Gives(step) \/ \E j \in DOMAIN nodes : name \in Gives(nodes[j])) =>
           \E j \in DOMAIN Append(nodes, step) : name \in Gives(Append(nodes, step)[j])
  BY <1>1, <1>3, StepBehind
<1>5. \A name \in Gives(Node) : \E j \in DOMAIN Append(nodes, step) : name \in Gives(Append(nodes, step)[j])
  BY <1>2, <1>4
<1>6. ending' # "unknown variable" /\ DOMAIN nametable_' = DOMAIN nametable_
  BY DEF KInv
<1>7. Ready(Append(nodes, step), DOMAIN nametable_')
  BY <1>4, <1>6
<1> QED
  BY <1>4, <1>5, <1>6, <1>7, VisitKeeps

\* The part that is visited: what it needs is in the table.
LEMMA PartKnown ==
  ASSUME KInv, NEW kind \in Kinds, NEW others, Visit(kind, others)
  PROVE  /\ todo # <<>> /\ Node \in Parts /\ Node.kind = kind
         /\ Needs[Node] \subseteq DOMAIN nametable_ /\ Gives(Node) = Declares[Node]
<1>1. todo # <<>> /\ Node.kind = kind
  BY DEF Visit, Node
<1>2. Node \in Items /\ Wants(Node) \subseteq DOMAIN nametable_
  BY <1>1, NodeKnown
<1>3. Node \in Parts
  BY <1>1, <1>2, KindOfStep
<1> QED
  BY <1>1, <1>2, <1>3, PartItem

\* What is no part: the steps behind the children.
LEMMA StepKnown ==
  ASSUME KInv, NEW kind, NEW others, Visit(kind, others)
  PROVE  todo # <<>> /\ Node \in Items /\ Node.kind = kind /\ Wants(Node) \subseteq DOMAIN nametable_
<1>1. todo # <<>> /\ Node.kind = kind
  BY DEF Visit, Node
<1> QED
  BY <1>1, NodeKnown

\* The parts that declare nothing.
LEMMA NothingDeclared ==
  ASSUME NEW node \in Parts,
         node.kind \in {"Block_expr", "Empty_stmt", "Return_stmt", "Number", "Variable", "Input", "Func", "Call"}
  PROVE  Declares[node] = {}
<1>1. DeclaredIn(node) = {}
  BY DEF DeclaredIn
<1> QED
  BY <1>1, PartsAssumption

\* The steps that declare nothing.
LEMMA NothingGiven ==
  ASSUME NEW item \in Items,
         item.kind \in {"apply", "applyUnary", "last_value", "discard", "print", "choose", "loop"}
  PROVE  Gives(item) = {}
<1>1. item.kind \notin Kinds
  BY DEF Kinds, Statement, Expression
<1> QED
  BY <1>1 DEF Gives

\* The parts of a part, and what they need.
LEMMA PartsOf ==
  ASSUME NEW node \in Parts, NEW nodes \in Orders(node)
  PROVE  nodes \in Seq(Parts) /\ InOrder(nodes, Needs[node])
  BY PartsAssumption

\* One part is an order of its own.
LEMMA OneInOrder ==
  ASSUME NEW node \in Parts, NEW names, Needs[node] \subseteq names
  PROVE  <<node>> \in Seq(Parts) /\ InOrder(<<node>>, names)
  BY DEF InOrder

\* Behind one part the next one finds what that declares.
LEMMA TwoInOrder ==
  ASSUME NEW first, NEW second, NEW names,
         <<first, second>> \in Seq(Parts), InOrder(<<first, second>>, names)
  PROVE  /\ first \in Parts /\ second \in Parts /\ Needs[first] \subseteq names
         /\ Needs[second] \subseteq names \cup Declares[first]
<1> DEFINE both == <<first, second>>
<1>1. both[1] = first /\ both[2] = second /\ 1 \in DOMAIN both /\ 2 \in DOMAIN both
  OBVIOUS
<1>2. 1 .. 1 - 1 = {} /\ 1 .. 2 - 1 = {1}
  OBVIOUS
<1>3. first \in Parts /\ second \in Parts
  OBVIOUS
<1>4. Needs[first] \subseteq names \cup UNION {Declares[both[j]] : j \in {}}
  BY <1>1, <1>2 DEF InOrder
<1>5. Needs[second] \subseteq names \cup UNION {Declares[both[j]] : j \in {1}}
  BY <1>1, <1>2 DEF InOrder
<1> HIDE DEF both
<1> QED
  BY <1>1, <1>3, <1>4, <1>5

\* The statements of a block want and give what they do as parts.
LEMMA BlockIsReady ==
  ASSUME NEW stmts \in Seq(Parts), NEW wanted, InOrder(stmts, wanted),
         NEW names, wanted \subseteq names
  PROVE  BlockVisits(stmts) \in Seq(Items) /\ Ready(BlockVisits(stmts), names)
<1> DEFINE all == BlockVisits(stmts)
<1>1. ASSUME NEW i \in DOMAIN stmts
      PROVE  all[i] \in Items /\ Wants(all[i]) = Needs[stmts[i]] /\ Gives(all[i]) = Declares[stmts[i]]
  <2>1. stmts[i] \in Parts
    OBVIOUS
  <2>2. CASE stmts[i].kind = "Expr_stmt"
    <3> DEFINE step == [kind |-> "evaluate", stmt |-> stmts[i]]
    <3>1. all[i] = step
      BY <2>2 DEF BlockVisits
    <3>2. step \in Items
      BY <2>1, <2>2 DEF Items, Steps, OfKind
    <3>3. "evaluate" \notin Kinds
      BY DEF Kinds, Statement, Expression
    <3>4. Wants(step) = Needs[stmts[i]] /\ Gives(step) = Declares[stmts[i]]
      BY <3>3 DEF Wants, Gives
    <3> QED
      BY <3>1, <3>2, <3>4
  <2>3. CASE stmts[i].kind # "Expr_stmt"
    <3>1. all[i] = stmts[i]
      BY <2>3 DEF BlockVisits
    <3> QED
      BY <2>1, <3>1, PartItem
  <2> QED
    BY <2>2, <2>3
<1>2. all \in Seq(Items) /\ DOMAIN all = DOMAIN stmts
  <2>1. DOMAIN all = 1 .. Len(stmts) /\ Len(stmts) \in Nat /\ DOMAIN stmts = 1 .. Len(stmts)
    BY DEF BlockVisits
  <2>2. all = [i \in 1 .. Len(stmts) |-> all[i]]
    BY <2>1 DEF BlockVisits
  <2> HIDE DEF all
  <2>3. [i \in 1 .. Len(stmts) |-> all[i]] \in Seq(Items)
    BY <1>1, <2>1
  <2> QED
    BY <2>1, <2>2, <2>3
<1>3. ASSUME NEW i \in DOMAIN all, NEW name \in Wants(all[i])
      PROVE  name \in names \/ \E j \in 1 .. i - 1 : name \in Gives(all[j])
  <2>1. i \in DOMAIN stmts /\ \A j \in 1 .. i - 1 : j \in DOMAIN stmts
    BY <1>2
  <2>2. name \in wanted \/ \E j \in 1 .. i - 1 : name \in Declares[stmts[j]]
    BY <1>1, <1>3, <2>1 DEF InOrder
  <2> QED
    BY <1>1, <2>1, <2>2
<1> QED
  BY <1>2, <1>3 DEF Ready

----------------------------------------------------------------------------
(***************************************************************************)
(* The steps.                                                              *)
(***************************************************************************)
\* Visits that only give a value.
LEMMA ValuesKeep ==
  ASSUME KInv, NEW kind \in {"Empty_stmt", "Return_stmt", "Number", "Variable", "Input", "Func", "Call"},
         Visit(kind, <<>>), UNCHANGED nametable_, ending' # "unknown variable"
  PROVE  KInv'
<1>1. kind \in Kinds
  BY DEF Kinds, Statement, Expression
<1>2. Gives(Node) = Declares[Node] /\ Node \in Parts /\ Node.kind = kind
  BY <1>1, PartKnown
<1>3. Declares[Node] = {}
  BY <1>2, NothingDeclared
<1> QED
  BY <1>2, <1>3, PlainVisitKeeps

\* A variable that is visited is in the table.
LEMMA VariableIsFound ==
  ASSUME KInv, Visit("Variable", <<>>)
  PROVE  Node.name \in DOMAIN nametable_
<1>1. "Variable" \in Kinds
  BY DEF Kinds, Statement, Expression
<1>2. Node \in Parts /\ Node.kind = "Variable" /\ Needs[Node] \subseteq DOMAIN nametable_
  BY <1>1, PartKnown
<1> QED
  BY <1>2, PartsAssumption

\* The value is visited before the name is entered.
LEMMA AssignmentKeeps ==
  ASSUME KInv, visit_Assignment
  PROVE  KInv'
<1> DEFINE step == [kind |-> "assign", name |-> Node.variable.name]
<1>1. Visit("Assignment_expr", <<Node.value, step>>) /\ UNCHANGED <<nametable_, ending>>
  BY DEF visit_Assignment, Evaluate
<1>2. "Assignment_expr" \in Kinds
  BY DEF Kinds, Statement, Expression
<1>3. Node \in Parts /\ Node.kind = "Assignment_expr" /\ Needs[Node] \subseteq DOMAIN nametable_
      /\ Gives(Node) = Declares[Node]
  BY <1>1, <1>2, PartKnown
<1>4. <<Node.value>> \in Orders(Node)
  BY <1>3 DEF Orders
<1>5. <<Node.value>> \in Seq(Parts) /\ InOrder(<<Node.value>>, Needs[Node])
  BY <1>3, <1>4, PartsOf
<1>6. step \in Items
  BY <1>3 DEF Items, Steps, OfKind
<1>7. step.kind = "assign" /\ "assign" \notin Kinds
  BY DEF Kinds, Statement, Expression
<1>8. Wants(step) = {} /\ Gives(step) = {Node.variable.name}
  BY <1>7 DEF Wants, Gives
<1>9. Declares[Node] \subseteq Declares[Node.value] \cup {Node.variable.name}
  <2>1. DeclaredIn(Node) = Declares[Node.value] \cup {Node.variable.name}
    BY <1>3 DEF DeclaredIn
  <2> QED
    BY <1>3, <2>1, PartsAssumption
<1>10. \A name \in Declares[Node] :
          name \in Gives(step) \/ \E j \in DOMAIN <<Node.value>> : name \in Declares[<<Node.value>>[j]]
  <2>1. 1 \in DOMAIN <<Node.value>> /\ <<Node.value>>[1] = Node.value
    OBVIOUS
  <2> QED
    BY <1>8, <1>9, <2>1
<1>11. <<Node.value, step>> = Append(<<Node.value>>, step)
  OBVIOUS
<1> HIDE DEF step
<1>12. Visit("Assignment_expr", Append(<<Node.value>>, step))
  BY <1>1, <1>11
<1> QED
  BY <1>1, <1>3, <1>5, <1>6, <1>8, <1>10, <1>12, PartVisitKeeps

\* The left operand is visited first; what it declares is known in the right one.
LEMMA BinaryKeeps ==
  ASSUME KInv, visit_Binary
  PROVE  KInv'
<1> DEFINE nodes == <<Node.left>>
           both  == <<Node.left, Node.right>>
           step  == [kind |-> "right_eval", node |-> Node]
<1>1. Visit("Binary_operator", <<Node.left, step>>) /\ UNCHANGED <<nametable_, ending>>
  BY DEF visit_Binary, Evaluate
<1>2. "Binary_operator" \in Kinds
  BY DEF Kinds, Statement, Expression
<1>3. Node \in Parts /\ Node.kind = "Binary_operator" /\ Needs[Node] \subseteq DOMAIN nametable_
      /\ Gives(Node) = Declares[Node]
  BY <1>1, <1>2, PartKnown
<1>4. both \in Orders(Node)
  BY <1>3 DEF Orders
<1>5. both \in Seq(Parts) /\ InOrder(both, Needs[Node])
  BY <1>3, <1>4, PartsOf
<1>6. /\ Node.left \in Parts /\ Needs[Node.left] \subseteq Needs[Node]
      /\ Needs[Node.right] \subseteq Needs[Node] \cup Declares[Node.left]
  BY <1>5, TwoInOrder
<1>7. nodes \in Seq(Parts) /\ InOrder(nodes, Needs[Node])
  BY <1>6, OneInOrder
<1>8. step \in Items
  BY <1>3 DEF Items, Steps, OfKind
<1>9. step.kind = "right_eval" /\ step.node = Node /\ "right_eval" \notin Kinds
  BY DEF Kinds, Statement, Expression
<1>10. Wants(step) = Needs[Node.right] /\ Gives(step) = Declares[Node.right]
  BY <1>9 DEF Wants, Gives
<1>11. 1 \in DOMAIN nodes /\ nodes[1] = Node.left
  OBVIOUS
<1>12. <<Node.left, step>> = Append(nodes, step)
  OBVIOUS
<1>13. Declares[Node] \subseteq Declares[Node.left] \cup Declares[Node.right]
  <2>1. DeclaredIn(Node) = Declares[Node.left] \cup Declares[Node.right]
    BY <1>3 DEF DeclaredIn
  <2> QED
    BY <1>3, <2>1, PartsAssumption
<1> HIDE DEF step, nodes
<1>14. \A name \in Wants(step) :
          name \in Needs[Node] \/ \E j \in DOMAIN nodes : name \in Declares[nodes[j]]
  BY <1>6, <1>10, <1>11
<1>15. \A name \in Declares[Node] :
          name \in Gives(step) \/ \E j \in DOMAIN nodes : name \in Declares[nodes[j]]
  BY <1>10, <1>11, <1>13
<1>16. Visit("Binary_operator", Append(nodes, step))
  BY <1>1, <1>12
<1> QED
  BY <1>1, <1>3, <1>7, <1>8, <1>14, <1>15, <1>16, PartVisitKeeps

\* The operand is visited.
LEMMA UnaryKeeps ==
  ASSUME KInv, visit_Unary
  PROVE  KInv'
<1> DEFINE nodes == <<Node.operand>>
           step  == [kind |-> "applyUnary", op |-> Node.op]
<1>1. Visit("Unary_operator", <<Node.operand, step>>) /\ UNCHANGED <<nametable_, ending>>
  BY DEF visit_Unary, Evaluate
<1>2. "Unary_operator" \in Kinds
  BY DEF Kinds, Statement, Expression
<1>3. Node \in Parts /\ Node.kind = "Unary_operator" /\ Needs[Node] \subseteq DOMAIN nametable_
      /\ Gives(Node) = Declares[Node]
  BY <1>1, <1>2, PartKnown
<1>4. nodes \in Orders(Node)
  BY <1>3 DEF Orders
<1>5. nodes \in Seq(Parts) /\ InOrder(nodes, Needs[Node])
  BY <1>3, <1>4, PartsOf
<1>6. step \in Items /\ Wants(step) = {}
  <2>1. step \in Items
    BY <1>3 DEF Items, Steps, OfKind
  <2>2. step.kind = "applyUnary" /\ "applyUnary" \notin Kinds
    BY DEF Kinds, Statement, Expression
  <2> QED
    BY <2>1, <2>2 DEF Wants
<1>7. Declares[Node] \subseteq Declares[Node.operand]
  <2>1. DeclaredIn(Node) = Declares[Node.operand]
    BY <1>3 DEF DeclaredIn
  <2> QED
    BY <1>3, <2>1, PartsAssumption
<1>8. 1 \in DOMAIN nodes /\ nodes[1] = Node.operand
  OBVIOUS
<1>9. <<Node.operand, step>> = Append(nodes, step)
  OBVIOUS
<1> HIDE DEF step, nodes
<1>10. \A name \in Declares[Node] : \E j \in DOMAIN nodes : name \in Declares[nodes[j]]
  BY <1>7, <1>8
<1>11. Visit("Unary_operator", Append(nodes, step))
  BY <1>1, <1>9
<1> QED
  BY <1>1, <1>3, <1>5, <1>6, <1>10, <1>11, PartVisitKeeps

\* The expression of a statement is visited.
LEMMA ExprStmtKeeps ==
  ASSUME KInv, visit_Expr_stmt
  PROVE  KInv'
<1> DEFINE nodes == <<Node.expr>>
           step  == After("discard")
<1>1. Visit("Expr_stmt", <<Node.expr, step>>) /\ UNCHANGED <<nametable_, ending>>
  BY DEF visit_Expr_stmt, Evaluate
<1>2. "Expr_stmt" \in Kinds
  BY DEF Kinds, Statement, Expression
<1>3. Node \in Parts /\ Node.kind = "Expr_stmt" /\ Needs[Node] \subseteq DOMAIN nametable_
      /\ Gives(Node) = Declares[Node]
  BY <1>1, <1>2, PartKnown
<1>4. nodes \in Orders(Node)
  BY <1>3 DEF Orders
<1>5. nodes \in Seq(Parts) /\ InOrder(nodes, Needs[Node])
  BY <1>3, <1>4, PartsOf
<1>6. step \in Items /\ Wants(step) = {}
  BY MarkItem
<1>7. Declares[Node] \subseteq Declares[Node.expr]
  <2>1. DeclaredIn(Node) = Declares[Node.expr]
    BY <1>3 DEF DeclaredIn
  <2> QED
    BY <1>3, <2>1, PartsAssumption
<1>8. 1 \in DOMAIN nodes /\ nodes[1] = Node.expr
  OBVIOUS
<1>9. <<Node.expr, step>> = Append(nodes, step)
  OBVIOUS
<1> HIDE DEF step, nodes
<1>10. \A name \in Declares[Node] : \E j \in DOMAIN nodes : name \in Declares[nodes[j]]
  BY <1>7, <1>8
<1>11. Visit("Expr_stmt", Append(nodes, step))
  BY <1>1, <1>9
<1> QED
  BY <1>1, <1>3, <1>5, <1>6, <1>10, <1>11, PartVisitKeeps

\* The value that is printed is visited.
LEMMA PrintKeeps ==
  ASSUME KInv, visit_Print
  PROVE  KInv'
<1> DEFINE nodes == <<Node.value>>
           step  == After("print")
<1>1. Visit("Print_stmt", <<Node.value, step>>) /\ UNCHANGED <<nametable_, ending>>
  BY DEF visit_Print, Evaluate
<1>2. "Print_stmt" \in Kinds
  BY DEF Kinds, Statement, Expression
<1>3. Node \in Parts /\ Node.kind = "Print_stmt" /\ Needs[Node] \subseteq DOMAIN nametable_
      /\ Gives(Node) = Declares[Node]
  BY <1>1, <1>2, PartKnown
<1>4. nodes \in Orders(Node)
  BY <1>3 DEF Orders
<1>5. nodes \in Seq(Parts) /\ InOrder(nodes, Needs[Node])
  BY <1>3, <1>4, PartsOf
<1>6. step \in Items /\ Wants(step) = {}
  BY MarkItem
<1>7. Declares[Node] \subseteq Declares[Node.value]
  <2>1. DeclaredIn(Node) = Declares[Node.value]
    BY <1>3 DEF DeclaredIn
  <2> QED
    BY <1>3, <2>1, PartsAssumption
<1>8. 1 \in DOMAIN nodes /\ nodes[1] = Node.value
  OBVIOUS
<1>9. <<Node.value, step>> = Append(nodes, step)
  OBVIOUS
<1> HIDE DEF step, nodes
<1>10. \A name \in Declares[Node] : \E j \in DOMAIN nodes : name \in Declares[nodes[j]]
  BY <1>7, <1>8
<1>11. Visit("Print_stmt", Append(nodes, step))
  BY <1>1, <1>9
<1> QED
  BY <1>1, <1>3, <1>5, <1>6, <1>10, <1>11, PartVisitKeeps

\* The expression of a statement in a block is visited.
LEMMA EvaluateKeeps ==
  ASSUME KInv, evaluate
  PROVE  KInv'
<1> DEFINE part  == Node.stmt
           nodes == <<part.expr>>
           step  == After("last_value")
<1>1. Visit("evaluate", <<part.expr, step>>) /\ UNCHANGED <<nametable_, ending>>
  BY DEF evaluate, Evaluate
<1>2. todo # <<>> /\ Node \in Items /\ Node.kind = "evaluate" /\ Wants(Node) \subseteq DOMAIN nametable_
  BY <1>1, StepKnown
<1>3. part \in Parts /\ part.kind = "Expr_stmt"
  BY <1>2, StepOfKind DEF OfKind
<1>4. "evaluate" \notin Kinds
  BY DEF Kinds, Statement, Expression
<1>5. Wants(Node) = Needs[part] /\ Gives(Node) = Declares[part]
  BY <1>2, <1>4 DEF Wants, Gives
<1>6. nodes \in Orders(part)
  BY <1>3 DEF Orders
<1>7. nodes \in Seq(Parts) /\ InOrder(nodes, Needs[part])
  BY <1>3, <1>6, PartsOf
<1>8. step \in Items /\ Wants(step) = {}
  BY MarkItem
<1>9. Declares[part] \subseteq Declares[part.expr]
  <2>1. DeclaredIn(part) = Declares[part.expr]
    BY <1>3 DEF DeclaredIn
  <2> QED
    BY <1>3, <2>1, PartsAssumption
<1>10. 1 \in DOMAIN nodes /\ nodes[1] = part.expr
  OBVIOUS
<1>11. <<part.expr, step>> = Append(nodes, step)
  OBVIOUS
<1> HIDE DEF step, nodes
<1>12. \A name \in Declares[part] : \E j \in DOMAIN nodes : name \in Declares[nodes[j]]
  BY <1>9, <1>10
<1>13. Visit("evaluate", Append(nodes, step))
  BY <1>1, <1>11
<1> QED
  BY <1>1, <1>2, <1>3, <1>5, <1>7, <1>8, <1>12, <1>13, PartVisitKeeps

\* The statements of a block are visited in the order of the text.
LEMMA BlockKeeps ==
  ASSUME KInv, visit_Block
  PROVE  KInv'
<1> DEFINE others == BlockVisits(Node.stmts)
<1>1. Visit("Block_expr", others) /\ UNCHANGED <<nametable_, ending>>
  BY DEF visit_Block, Evaluate
<1>2. "Block_expr" \in Kinds
  BY DEF Kinds, Statement, Expression
<1>3. Node \in Parts /\ Node.kind = "Block_expr" /\ Needs[Node] \subseteq DOMAIN nametable_
      /\ Gives(Node) = Declares[Node]
  BY <1>1, <1>2, PartKnown
<1>4. Node.stmts \in Orders(Node)
  BY <1>3 DEF Orders
<1>5. Node.stmts \in Seq(Parts) /\ InOrder(Node.stmts, Needs[Node])
  BY <1>3, <1>4, PartsOf
<1>6. others \in Seq(Items) /\ Ready(others, DOMAIN nametable_)
  BY <1>3, <1>5, BlockIsReady
<1>7. Gives(Node) = {}
  BY <1>3, NothingDeclared
<1>8. nametable_' = nametable_ /\ ending' # "unknown variable"
  BY <1>1 DEF KInv
<1> HIDE DEF others
<1>9. Ready(others, DOMAIN nametable_')
  BY <1>6, <1>8
<1> QED
  BY <1>1, <1>6, <1>7, <1>8, <1>9, VisitKeeps

\* The condition is visited; what it declares is known in both branches.
LEMMA IfKeeps ==
  ASSUME KInv, visit_If
  PROVE  KInv'
<1> DEFINE nodes == <<Node.condition>>
           step  == [kind |-> "choose", node |-> Node]
<1>1. Visit("If_stmt", <<Node.condition, step>>) /\ UNCHANGED <<nametable_, ending>>
  BY DEF visit_If, Evaluate
<1>2. "If_stmt" \in Kinds
  BY DEF Kinds, Statement, Expression
<1>3. Node \in Parts /\ Node.kind = "If_stmt" /\ Needs[Node] \subseteq DOMAIN nametable_
      /\ Gives(Node) = Declares[Node]
  BY <1>1, <1>2, PartKnown
<1>4. ASSUME NEW branch \in Branches(Node)
      PROVE  /\ Node.condition \in Parts /\ Needs[Node.condition] \subseteq Needs[Node]
             /\ Needs[branch] \subseteq Needs[Node] \cup Declares[Node.condition]
  <2> DEFINE both == <<Node.condition, branch>>
  <2>1. both \in Orders(Node)
    BY <1>3 DEF Orders, Branches
  <2>2. both \in Seq(Parts) /\ InOrder(both, Needs[Node])
    BY <1>3, <2>1, PartsOf
  <2> QED
    BY <2>2, TwoInOrder
<1>5. Node.then \in Branches(Node)
  BY DEF Branches
<1>6. nodes \in Seq(Parts) /\ InOrder(nodes, Needs[Node])
  BY <1>4, <1>5, OneInOrder
<1>7. step \in Items
  BY <1>3 DEF Items, Steps, OfKind
<1>8. step.kind = "choose" /\ step.node = Node /\ "choose" \notin Kinds
  BY DEF Kinds, Statement, Expression
<1>9. Wants(step) = UNION {Needs[node] : node \in Branches(Node)}
  BY <1>8 DEF Wants
<1>10. 1 \in DOMAIN nodes /\ nodes[1] = Node.condition
  OBVIOUS
<1>11. <<Node.condition, step>> = Append(nodes, step)
  OBVIOUS
<1>12. Declares[Node] \subseteq Declares[Node.condition]
  <2>1. DeclaredIn(Node) = Declares[Node.condition]
    BY <1>3 DEF DeclaredIn
  <2> QED
    BY <1>3, <2>1, PartsAssumption
<1> HIDE DEF step, nodes
<1>13. \A name \in Wants(step) :
          name \in Needs[Node] \/ \E j \in DOMAIN nodes : name \in Declares[nodes[j]]
  BY <1>4, <1>9, <1>10
<1>14. \A name \in Declares[Node] : \E j \in DOMAIN nodes : name \in Declares[nodes[j]]
  BY <1>10, <1>12
<1>15. Visit("If_stmt", Append(nodes, step))
  BY <1>1, <1>11
<1> QED
  BY <1>1, <1>3, <1>6, <1>7, <1>13, <1>14, <1>15, PartVisitKeeps

\* The condition is visited; what it declares is known in the body.
LEMMA WhileKeeps ==
  ASSUME KInv, visit_While
  PROVE  KInv'
<1> DEFINE nodes == <<Node.condition>>
           both  == <<Node.condition, Node.body>>
           step  == [kind |-> "loop", node |-> Node]
<1>1. Visit("While_stmt", <<Node.condition, step>>) /\ UNCHANGED <<nametable_, ending>>
  BY DEF visit_While, Evaluate
<1>2. "While_stmt" \in Kinds
  BY DEF Kinds, Statement, Expression
<1>3. Node \in Parts /\ Node.kind = "While_stmt" /\ Needs[Node] \subseteq DOMAIN nametable_
      /\ Gives(Node) = Declares[Node]
  BY <1>1, <1>2, PartKnown
<1>4. both \in Orders(Node)
  BY <1>3 DEF Orders
<1>5. both \in Seq(Parts) /\ InOrder(both, Needs[Node])
  BY <1>3, <1>4, PartsOf
<1>6. /\ Node.condition \in Parts /\ Needs[Node.condition] \subseteq Needs[Node]
      /\ Needs[Node.body] \subseteq Needs[Node] \cup Declares[Node.condition]
  BY <1>5, TwoInOrder
<1>7. nodes \in Seq(Parts) /\ InOrder(nodes, Needs[Node])
  BY <1>6, OneInOrder
<1>8. step \in Items
  BY <1>3 DEF Items, Steps, OfKind
<1>9. step.kind = "loop" /\ step.node = Node /\ "loop" \notin Kinds
  BY DEF Kinds, Statement, Expression
<1>10. Wants(step) = Needs[Node] \cup Needs[Node.body]
  BY <1>9 DEF Wants
<1>11. 1 \in DOMAIN nodes /\ nodes[1] = Node.condition
  OBVIOUS
<1>12. <<Node.condition, step>> = Append(nodes, step)
  OBVIOUS
<1>13. Declares[Node] \subseteq Declares[Node.condition]
  <2>1. DeclaredIn(Node) = Declares[Node.condition]
    BY <1>3 DEF DeclaredIn
  <2> QED
    BY <1>3, <2>1, PartsAssumption
<1> HIDE DEF step, nodes
<1>14. \A name \in Wants(step) :
          name \in Needs[Node] \/ \E j \in DOMAIN nodes : name \in Declares[nodes[j]]
  BY <1>6, <1>10, <1>11
<1>15. \A name \in Declares[Node] : \E j \in DOMAIN nodes : name \in Declares[nodes[j]]
  BY <1>11, <1>13
<1>16. Visit("While_stmt", Append(nodes, step))
  BY <1>1, <1>12
<1> QED
  BY <1>1, <1>3, <1>7, <1>8, <1>14, <1>15, <1>16, PartVisitKeeps

\* Items that each find what they want, whatever is before them.
LEMMA AllKnownIsReady ==
  ASSUME NEW items \in Seq(Items), NEW names,
         \A i \in DOMAIN items : Wants(items[i]) \subseteq names
  PROVE  Ready(items, names)
  BY DEF Ready

\* The right operand is visited.
LEMMA RightKeeps ==
  ASSUME KInv, right_eval
  PROVE  KInv'
<1> DEFINE node   == Node.node
           step   == [kind |-> "apply", op |-> node.op]
           others == <<node.right, step>>
<1>1. Visit("right_eval", others) /\ UNCHANGED <<nametable_, ending>>
  BY DEF right_eval, Evaluate
<1>2. todo # <<>> /\ Node \in Items /\ Node.kind = "right_eval" /\ Wants(Node) \subseteq DOMAIN nametable_
  BY <1>1, StepKnown
<1>3. node \in Parts /\ node.kind = "Binary_operator"
  BY <1>2, StepOfKind DEF OfKind
<1>4. "right_eval" \notin Kinds /\ "apply" \notin Kinds
  BY DEF Kinds, Statement, Expression
<1>5. Wants(Node) = Needs[node.right] /\ Gives(Node) = Declares[node.right]
  BY <1>2, <1>4 DEF Wants, Gives
<1>6. node.right \in Parts
  <2> DEFINE both == <<node.left, node.right>>
  <2>1. both \in Orders(node)
    BY <1>3 DEF Orders
  <2>2. both \in Seq(Parts) /\ InOrder(both, Needs[node])
    BY <1>3, <2>1, PartsOf
  <2> QED
    BY <2>2, TwoInOrder
<1>7. /\ node.right \in Items /\ Wants(node.right) = Needs[node.right]
      /\ Gives(node.right) = Declares[node.right]
  BY <1>6, PartItem
<1>8. step \in Items /\ Wants(step) = {}
  <2>1. step \in Items
    BY <1>3 DEF Items, Steps, OfKind
  <2>2. step.kind = "apply"
    OBVIOUS
  <2> QED
    BY <1>4, <2>1, <2>2 DEF Wants
<1> HIDE DEF step
<1>9. others \in Seq(Items) /\ \A i \in DOMAIN others : Wants(others[i]) \subseteq DOMAIN nametable_
  BY <1>2, <1>5, <1>7, <1>8
<1>10. 1 \in DOMAIN others /\ others[1] = node.right
  OBVIOUS
<1>11. nametable_' = nametable_ /\ ending' # "unknown variable"
  BY <1>1 DEF KInv
<1> HIDE DEF others
<1>12. Ready(others, DOMAIN nametable_')
  BY <1>9, <1>11, AllKnownIsReady
<1>13. \A name \in Gives(Node) : \E j \in DOMAIN others : name \in Gives(others[j])
  BY <1>5, <1>7, <1>10
<1> QED
  BY <1>1, <1>9, <1>11, <1>12, <1>13, VisitKeeps

\* A branch is visited, and the value it gives is not kept.
LEMMA ChooseKeeps ==
  ASSUME KInv, choose
  PROVE  KInv'
<1> DEFINE node   == Node.node
           others == Branch(node, Result)
<1>1. Visit("choose", others) /\ UNCHANGED <<nametable_, ending>>
  BY DEF choose, Evaluate
<1>2. todo # <<>> /\ Node \in Items /\ Node.kind = "choose" /\ Wants(Node) \subseteq DOMAIN nametable_
  BY <1>1, StepKnown
<1>3. node \in Parts /\ node.kind = "If_stmt"
  BY <1>2, StepOfKind DEF OfKind
<1>4. "choose" \notin Kinds
  BY DEF Kinds, Statement, Expression
<1>5. Wants(Node) = UNION {Needs[branch] : branch \in Branches(node)}
  BY <1>2, <1>4 DEF Wants
<1>6. ASSUME NEW branch \in Branches(node)
      PROVE  /\ branch \in Items /\ Wants(branch) \subseteq DOMAIN nametable_
  <2> DEFINE both == <<node.condition, branch>>
  <2>1. both \in Orders(node)
    BY <1>3 DEF Orders, Branches
  <2>2. both \in Seq(Parts) /\ InOrder(both, Needs[node])
    BY <1>3, <2>1, PartsOf
  <2>3. branch \in Parts
    BY <2>2, TwoInOrder
  <2>4. branch \in Items /\ Wants(branch) = Needs[branch]
    BY <2>3, PartItem
  <2> QED
    BY <1>2, <1>5, <2>4
<1>7. others \in Seq(Items) /\ Ready(others, DOMAIN nametable_)
  <2>1. ASSUME NEW branch \in Branches(node)
        PROVE  /\ <<branch, After("discard")>> \in Seq(Items)
               /\ Ready(<<branch, After("discard")>>, DOMAIN nametable_)
    <3> DEFINE items == <<branch, After("discard")>>
    <3>1. After("discard") \in Items /\ Wants(After("discard")) = {}
      BY MarkItem
    <3>2. items \in Seq(Items)
      BY <1>6, <3>1
    <3>3. \A i \in DOMAIN items : Wants(items[i]) \subseteq DOMAIN nametable_
      BY <1>6, <3>1
    <3>4. Ready(items, DOMAIN nametable_)
      <4> HIDE DEF items
      <4> QED
        BY <3>2, <3>3, AllKnownIsReady
    <3> QED
      BY <3>2, <3>4
  <2>2. node.then \in Branches(node)
    BY DEF Branches
  <2>3. contains_else_branch(node) => node.else \in Branches(node)
    BY DEF Branches, contains_else_branch
  <2>4. \/ others = <<node.then, After("discard")>>
        \/ contains_else_branch(node) /\ others = <<node.else, After("discard")>>
        \/ others = <<>>
    BY DEF Branch
  <2> HIDE DEF others
  <2> QED
    BY <2>1, <2>2, <2>3, <2>4, NothingIsReady
<1>8. Gives(Node) = {}
  BY <1>2, NothingGiven
<1>9. nametable_' = nametable_ /\ ending' # "unknown variable"
  BY <1>1 DEF KInv
<1> HIDE DEF others
<1>10. Ready(others, DOMAIN nametable_')
  BY <1>7, <1>9
<1> QED
  BY <1>1, <1>7, <1>8, <1>9, <1>10, VisitKeeps

\* The body is visited, and then the same statement again: what it needs is still
\* in the table, from which nothing is taken.
LEMMA LoopKeeps ==
  ASSUME KInv, loop
  PROVE  KInv'
<1> DEFINE node   == Node.node
           again  == <<node.body, After("discard"), node>>
           others == IF Result = 0 THEN <<>> ELSE again
<1>1. Visit("loop", others) /\ UNCHANGED <<nametable_, ending>>
  BY DEF loop, Evaluate
<1>2. todo # <<>> /\ Node \in Items /\ Node.kind = "loop" /\ Wants(Node) \subseteq DOMAIN nametable_
  BY <1>1, StepKnown
<1>3. node \in Parts /\ node.kind = "While_stmt"
  BY <1>2, StepOfKind DEF OfKind
<1>4. "loop" \notin Kinds
  BY DEF Kinds, Statement, Expression
<1>5. Wants(Node) = Needs[node] \cup Needs[node.body]
  BY <1>2, <1>4 DEF Wants
<1>6. node.body \in Parts
  <2> DEFINE both == <<node.condition, node.body>>
  <2>1. both \in Orders(node)
    BY <1>3 DEF Orders
  <2>2. both \in Seq(Parts) /\ InOrder(both, Needs[node])
    BY <1>3, <2>1, PartsOf
  <2> QED
    BY <2>2, TwoInOrder
<1>7. again \in Seq(Items) /\ Ready(again, DOMAIN nametable_)
  <2>1. After("discard") \in Items /\ Wants(After("discard")) = {}
    BY MarkItem
  <2>2. /\ node \in Items /\ Wants(node) = Needs[node]
        /\ node.body \in Items /\ Wants(node.body) = Needs[node.body]
    BY <1>3, <1>6, PartItem
  <2>3. again \in Seq(Items)
    BY <2>1, <2>2
  <2>4. \A i \in DOMAIN again : Wants(again[i]) \subseteq DOMAIN nametable_
    BY <1>2, <1>5, <2>1, <2>2
  <2> HIDE DEF again
  <2> QED
    BY <2>3, <2>4, AllKnownIsReady
<1> HIDE DEF again
<1>8. others \in Seq(Items) /\ Ready(others, DOMAIN nametable_)
  BY <1>7, NothingIsReady
<1>9. Gives(Node) = {}
  BY <1>2, NothingGiven
<1>10. nametable_' = nametable_ /\ ending' # "unknown variable"
  BY <1>1 DEF KInv
<1> HIDE DEF others
<1>11. Ready(others, DOMAIN nametable_')
  BY <1>8, <1>10
<1> QED
  BY <1>1, <1>8, <1>9, <1>10, <1>11, VisitKeeps

\* The name is entered, and no other is taken out.
LEMMA AssignKeeps ==
  ASSUME KInv, assign
  PROVE  KInv'
<1>1. Visit("assign", <<>>) /\ UNCHANGED ending
  BY DEF assign
<1>2. Node \in Items /\ Node.kind = "assign"
  BY <1>1, StepKnown
<1>3. Gives(Node) = {Node.name}
  BY <1>2, StepOfKind
<1>4. DOMAIN nametable_' = {Node.name} \cup DOMAIN nametable_
  BY DEF assign
<1>5. ending' # "unknown variable"
  BY <1>1 DEF KInv
<1>6. DOMAIN nametable_ \subseteq DOMAIN nametable_'
  BY <1>4
<1>7. \A name \in Gives(Node) : name \in DOMAIN nametable_'
  BY <1>3, <1>4
<1> QED
  BY <1>1, <1>5, <1>6, <1>7, NothingIsReady, VisitKeeps

\* Steps that only take values and give one.
LEMMA StepsKeep ==
  ASSUME KInv, NEW kind \in {"apply", "applyUnary", "last_value", "discard", "print"},
         Visit(kind, <<>>), UNCHANGED nametable_, ending' # "unknown variable"
  PROVE  KInv'
<1>1. Node \in Items /\ Node.kind = kind
  BY StepKnown
<1>2. Gives(Node) = {}
  BY <1>1, NothingGiven
<1> QED
  BY <1>2, PlainVisitKeeps

\* Every step of the interpreter.
LEMMA KInvNext ==
  ASSUME KInv, InterpreterNext
  PROVE  KInv'
<1>0. ending # "unknown variable"
  BY DEF KInv
<1>1. CASE visit_Number
  <2>1. Visit("Number", <<>>) /\ UNCHANGED <<nametable_, ending>>
    BY <1>1 DEF visit_Number, Evaluate
  <2> QED
    BY <1>0, <2>1, ValuesKeep
<1>2. CASE visit_Variable
  <2>1. Visit("Variable", <<>>) /\ UNCHANGED nametable_
    BY <1>2 DEF visit_Variable
  <2>2. Node.name \in DOMAIN nametable_
    BY <2>1, VariableIsFound
  <2>3. ending' = ending
    BY <1>2, <2>2 DEF visit_Variable
  <2> QED
    BY <1>0, <2>1, <2>3, ValuesKeep
<1>3. CASE visit_Input
  <2>1. Visit("Input", <<>>) /\ UNCHANGED <<nametable_, ending>>
    BY <1>3 DEF visit_Input
  <2> QED
    BY <1>0, <2>1, ValuesKeep
<1>4. CASE visit_Func
  <2>1. Visit("Func", <<>>) /\ UNCHANGED <<nametable_, ending>>
    BY <1>4 DEF visit_Func, Defer
  <2> QED
    BY <1>0, <2>1, ValuesKeep
<1>5. CASE visit_Call
  <2>1. Visit("Call", <<>>) /\ UNCHANGED <<nametable_, ending>>
    BY <1>5 DEF visit_Call, Defer
  <2> QED
    BY <1>0, <2>1, ValuesKeep
<1>6. CASE visit_Return
  <2>1. Visit("Return_stmt", <<>>) /\ UNCHANGED <<nametable_, ending>>
    BY <1>6 DEF visit_Return, Defer
  <2> QED
    BY <1>0, <2>1, ValuesKeep
<1>7. CASE visit_Empty
  <2>1. Visit("Empty_stmt", <<>>) /\ UNCHANGED <<nametable_, ending>>
    BY <1>7 DEF visit_Empty, Defer
  <2> QED
    BY <1>0, <2>1, ValuesKeep
<1>8. CASE apply
  <2>1. Visit("apply", <<>>) /\ UNCHANGED nametable_ /\ (UNCHANGED ending \/ ending' = "killed")
    BY <1>8 DEF apply
  <2> QED
    BY <1>0, <2>1, StepsKeep
<1>9. CASE applyUnary
  <2>1. Visit("applyUnary", <<>>) /\ UNCHANGED <<nametable_, ending>>
    BY <1>9 DEF applyUnary, Evaluate
  <2> QED
    BY <1>0, <2>1, StepsKeep
<1>10. CASE last_value
  <2>1. Visit("last_value", <<>>) /\ UNCHANGED <<nametable_, ending>>
    BY <1>10 DEF last_value, Evaluate
  <2> QED
    BY <1>0, <2>1, StepsKeep
<1>11. CASE discard
  <2>1. Visit("discard", <<>>) /\ UNCHANGED <<nametable_, ending>>
    BY <1>11 DEF discard, Evaluate
  <2> QED
    BY <1>0, <2>1, StepsKeep
<1>12. CASE print
  <2>1. Visit("print", <<>>) /\ UNCHANGED <<nametable_, ending>>
    BY <1>12 DEF print
  <2> QED
    BY <1>0, <2>1, StepsKeep
<1>13. CASE finish \/ cut
  <2>1. UNCHANGED <<todo, nametable_>> /\ ending' # "unknown variable"
    BY <1>13 DEF finish, cut
  <2>2. Ready(todo, DOMAIN nametable_)'
    BY <2>1 DEF KInv, Ready
  <2> QED
    BY <2>1, <2>2 DEF KInv
<1> QED
  BY <1>1, <1>2, <1>3, <1>4, <1>5, <1>6, <1>7, <1>8, <1>9, <1>10, <1>11, <1>12, <1>13,
     AssignmentKeeps, AssignKeeps, BinaryKeeps, RightKeeps, UnaryKeeps, BlockKeeps, EvaluateKeeps,
     ExprStmtKeeps, PrintKeeps, IfKeeps, ChooseKeeps, WhileKeeps, LoopKeeps
  DEF InterpreterNext

\* The program stays what it is.
LEMMA ProgramStays ==
  ASSUME InterpreterNext
  PROVE  program' = program
<1>1. ASSUME NEW kind, NEW others, Visit(kind, others)
      PROVE  program' = program
  BY <1>1 DEF Visit
<1> QED
  BY <1>1 DEF InterpreterNext, visit_Number, visit_Variable, visit_Assignment, assign, visit_Binary,
     right_eval, apply, visit_Unary, applyUnary, visit_Input, visit_Block, evaluate, last_value, visit_Func,
     visit_Call, visit_Return, visit_Empty, visit_Expr_stmt, discard, visit_Print, print, visit_If,
     choose, visit_While, loop, finish, cut, Defer, Evaluate

\* At first the program's statements are left, and the table is empty.
LEMMA KInvInit ==
  ASSUME InterpreterInit, Understood(program)
  PROVE  KInv
<1>1. program.kind = "Program" /\ program \in Parts /\ Needs[program] = {}
  BY InterpreterAssumption DEF InterpreterInit, Understood
<1>2. program.stmts \in Orders(program)
  BY <1>1 DEF Orders
<1>3. program.stmts \in Seq(Parts) /\ InOrder(program.stmts, Needs[program])
  BY <1>1, <1>2, PartsOf
<1>4. todo \in Seq(Items) /\ Ready(todo, DOMAIN nametable_)
  <2>1. Needs[program] \subseteq DOMAIN nametable_
    BY <1>1
  <2> QED
    BY <1>3, <2>1, OrderIsReady DEF InterpreterInit
<1> QED
  BY <1>4 DEF KInv, InterpreterInit

(***************************************************************************)
(* If each variable of a program is declared in the order of the text by   *)
(* an assignment that the interpreter visits, so by none in the argument   *)
(* of a call or in a function, it finds each variable it visits, whatever  *)
(* is typed and however often the loops go round: expr_evaluator.cpp:21    *)
(* does not throw.                                                         *)
(***************************************************************************)
THEOREM NamesAreKnown == InterpreterSpec => []VariablesAreKnown
<1> DEFINE Inv == Understood(program) => KInv
<1>1. InterpreterInit => Inv
  BY KInvInit
<1>2. Inv /\ [InterpreterNext]_interpreterVars => Inv'
  <2> SUFFICES ASSUME Inv, [InterpreterNext]_interpreterVars, Understood(program)'
               PROVE  KInv'
    OBVIOUS
  <2>1. CASE InterpreterNext
    <3>1. Understood(program)
      BY <2>1, ProgramStays DEF Understood
    <3> QED
      BY <2>1, <3>1, KInvNext
  <2>2. CASE UNCHANGED interpreterVars
    <3>1. UNCHANGED <<program, todo, nametable_, ending>>
      BY <2>2 DEF interpreterVars
    <3>2. Understood(program)
      BY <3>1 DEF Understood
    <3>3. Ready(todo, DOMAIN nametable_)'
      BY <3>1, <3>2 DEF KInv, Ready
    <3> QED
      BY <3>1, <3>2, <3>3 DEF KInv
  <2> QED
    BY <2>1, <2>2
<1>3. Inv => VariablesAreKnown
  BY DEF VariablesAreKnown, KInv
<1> QED
  BY <1>1, <1>2, <1>3, PTL DEF InterpreterSpec

====================================================================================
