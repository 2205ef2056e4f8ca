---------------------------------- MODULE Irgen ----------------------------------
(***************************************************************************)
(* What Code_generator (frontend/src/codegen/codegen.cpp) makes of a tree: *)
(* the functions and their basic blocks, down to the operands of their     *)
(* instructions.  (Module Codegen models the order in which functions,     *)
(* blocks and tables are made, step by step and for any tree, and no       *)
(* operands.)                                                              *)
(*                                                                         *)
(* Visiting a node takes a generator and gives the generator behind it, a  *)
(* record: blocks, each with its code and its region; insert, the block    *)
(* instructions go to; last, which is last_value_; tables, the symbol      *)
(* tables of scope_stack_; functions, the entry blocks of functions_;      *)
(* counter, which is func_counter_; reached, the functions that names were *)
(* resolved to, in the order of the text; and valid, whether LLVM accepts  *)
(* all of it.                                                              *)
(***************************************************************************)
EXTENDS Words

CONSTANT InputSlot   \* "__input_var", an identifier like any other

\* Operands: a constant, the value of an instruction, an argument, a function, or
\* none, which is what a br instruction has and what last_value_ is before
\* anything set it.  All values are ints, but for functions, which are pointers.
Const(n)                == [kind |-> "const", type |-> "int", number |-> n]
Reg(block, index, type) == [kind |-> "reg", type |-> type, block |-> block, index |-> index]
Argument                == [kind |-> "arg", type |-> "int"]
Function(entry, arity)  == [kind |-> "func", type |-> "ptr", entry |-> entry, arity |-> arity]
Void                    == [kind |-> "void", type |-> "void"]

\* main and its entry block.
Entered == [blocks |-> <<[code |-> <<>>, region |-> <<1>>]>>, insert |-> 1,
            last |-> Void, tables |-> << <<>> >>, functions |-> <<>>, counter |-> 0,
            reached |-> <<>>, valid |-> TRUE]

\* The region of a block is the entry of its function, and the branches and loop
\* bodies around it: a block dominates those later ones that are in its region.
Region(cg) == cg.blocks[cg.insert].region
Entry(cg)  == Head(Region(cg))

Usable(cg, operand) ==
  operand.kind = "reg" => IsPrefix(cg.blocks[operand.block].region, Region(cg))

Ints   == {"int"}
Values == {"int", "ptr"}

\* The operands are values of these types that can be used where cg is.
Needing(cg, operands, types) ==
  [cg EXCEPT !.valid = @ /\ \A operand \in operands : Usable(cg, operand) /\ operand.type \in types]

Ended(cg) == LET code == cg.blocks[cg.insert].code
             IN  code # <<>> /\ Last(code).op \in {"br", "condbr", "ret"}

\* IRBuilder::Create...: an instruction behind those of the block, which must not
\* have ended.  Constants are not folded, which changes no result.
EmitAs(cg, instruction, type) ==
  [cg EXCEPT !.blocks[cg.insert].code = Append(@, instruction),
             !.last  = Reg(cg.insert, Len(cg.blocks[cg.insert].code) + 1, type),
             !.valid = @ /\ ~Ended(cg)]

Emit(cg, instruction) == EmitAs(cg, instruction, "int")

\* An instruction whose own value is not kept in last_value_.
EmitAside(cg, instruction) == [Emit(cg, instruction) EXCEPT !.last = cg.last]

Br(cg, target)       == EmitAside(cg, [op |-> "br", target |-> target])
BrIfOpen(cg, target) == IF Ended(cg) THEN cg ELSE Br(cg, target)

CondBr(cg, condition, then_bb, else_bb) ==
  [Emit(Needing(cg, {condition}, Ints),
        [op |-> "condbr", condition |-> condition, then |-> then_bb, else |-> else_bb])
     EXCEPT !.last = Void]

Ret(cg, value) == EmitAside(Needing(cg, {value}, Ints), [op |-> "ret", value |-> value])

NewBlock(cg, region) == [cg EXCEPT !.blocks = Append(@, [code |-> <<>>, region |-> region])]
Inside(cg)           == Append(Region(cg), Len(cg.blocks) + 1)
SetInsertPoint(cg, block) == [cg EXCEPT !.insert = block]

----------------------------------------------------------------------------
\* Scope_stack: tables of allocas, each a slot of the function that holds it.
Holding(cg, name) == {k \in DOMAIN cg.tables : name \in DOMAIN cg.tables[k]}
Found(cg, name)   == Holding(cg, name) # {}
lookup(cg, name)  == cg.tables[Max(Holding(cg, name))][name]

Declare(cg, name, type) ==
  LET slot == [name |-> name, entry |-> Entry(cg), type |-> type]
  IN  [cg EXCEPT !.tables[Len(cg.tables)] = (name :> slot) @@ @]

DeclareIfNew(cg, name, type) == IF Found(cg, name) THEN cg ELSE Declare(cg, name, type)

\* No function may use the slots of another.
Own(cg, slot) == [cg EXCEPT !.valid = @ /\ slot.entry = Entry(cg)]

Load(cg, slot)         == EmitAs(Own(cg, slot), [op |-> "load", slot |-> slot], slot.type)
Store(cg, slot, value) == EmitAside(Needing(Own(cg, slot), {value}, Values),
                                    [op |-> "store", slot |-> slot, value |-> value])

----------------------------------------------------------------------------
\* accept: the visit of the class of node.
RECURSIVE Visited(_, _)

All(cg, stmts) == FoldLeft(LAMBDA c, stmt : Visited(c, stmt), cg, stmts)

GenProgram(node) ==
  LET visited == All(Entered, node.stmts)
  IN  IF Ended(visited) THEN visited ELSE Ret(visited, Const(0))

\* A faulty variant: last_value_ becomes the store.
GenAssignmentKept(cg, node) ==
  LET valued   == Visited(cg, node.value)
      declared == DeclareIfNew(valued, node.variable.name, valued.last.type)
  IN  [Store(declared, lookup(declared, node.variable.name), valued.last) EXCEPT !.last = Void]

\* A faulty variant: the first value of a variable is not stored.
GenAssignmentOfKnown(cg, node) ==
  LET valued   == Visited(cg, node.value)
      declared == DeclareIfNew(valued, node.variable.name, valued.last.type)
  IN  IF declared = valued THEN Store(declared, lookup(declared, node.variable.name), valued.last)
      ELSE declared

GenAssignment(cg, node) ==
  LET valued   == Visited(cg, node.value)
      declared == DeclareIfNew(valued, node.variable.name, valued.last.type)
  IN  Store(declared, lookup(declared, node.variable.name), valued.last)

\* A faulty variant: the operands change places.
GenBinarySwapped(cg, node) ==
  LET l == Visited(cg, node.left)
      r == Visited(l, node.right)
  IN  Emit(Needing(r, {l.last, r.last}, Ints),
           [op |-> "binary", of |-> node.op, left |-> r.last, right |-> l.last])

\* >= has no break: the comparison is made, and then the case of + goes on.
\* Two pointers can be compared.
GenBinary(cg, node) ==
  LET l  == Visited(cg, node.left)
      r  == Visited(l, node.right)
      Types(op) == IF op \in Comparisons /\ l.last.type = r.last.type THEN Values ELSE Ints
      By(c, op) == Emit(Needing(c, {l.last, r.last}, Types(op)),
                        [op |-> "binary", of |-> op, left |-> l.last, right |-> r.last])
  IN  IF node.op = "GreaterEq" THEN By(By(r, "GreaterEq"), "Add") ELSE By(r, node.op)

GenUnary(cg, node) ==
  LET operand == Visited(cg, node.operand)
  IN  IF node.op = "Plus" THEN operand
      ELSE Emit(Needing(operand, {operand.last}, Ints),
                [op |-> "unary", of |-> node.op, operand |-> operand.last])

GenInput(cg) ==
  LET declared == DeclareIfNew(cg, InputSlot, "int")
      slot     == lookup(declared, InputSlot)
  IN  Load(Emit(Own(declared, slot), [op |-> "scanf", slot |-> slot]), slot)

\* The value of the call of printf stays as last_value_.
GenPrint(cg, node) ==
  LET valued == Visited(cg, node.value)
  IN  Emit(Needing(valued, {valued.last}, Values), [op |-> "printf", value |-> valued.last])

GenIf(cg, node) ==
  LET c        == Visited(cg, node.condition)
      has_else == contains_else_branch(node)
      then_bb  == Len(c.blocks) + 1
      else_bb  == then_bb + 1
      merge_bb == then_bb + (IF has_else THEN 2 ELSE 1)
      thens    == NewBlock(c, Inside(c))
      elses    == IF has_else THEN NewBlock(thens, Inside(thens)) ELSE thens
      made     == NewBlock(elses, Region(c))
      chosen   == CondBr(made, c.last, then_bb, IF has_else THEN else_bb ELSE merge_bb)
      In(g, bb, branch) == BrIfOpen(Visited(SetInsertPoint(g, bb), branch), merge_bb)
      after_then == In(chosen, then_bb, node.then)
      after      == IF has_else THEN In(after_then, else_bb, node.else) ELSE after_then
  IN  SetInsertPoint(after, merge_bb)

\* cond_bb is made and jumped to before the condition is visited; the body jumps
\* back whether it has ended or not.
GenWhile(cg, node) ==
  LET cond_bb == Len(cg.blocks) + 1
      looped  == SetInsertPoint(Br(NewBlock(cg, Region(cg)), cond_bb), cond_bb)
      c       == Visited([looped EXCEPT !.last = Void], node.condition)
      body_bb == Len(c.blocks) + 1
      made    == NewBlock(NewBlock(c, Inside(c)), Region(c))
      chosen  == CondBr(made, c.last, body_bb, body_bb + 1)
      body    == Visited(SetInsertPoint(chosen, body_bb), node.body)
  IN  SetInsertPoint([Br(body, cond_bb) EXCEPT !.last = Void], body_bb + 1)

\* A variable, or else a function by its name, or else the lookup throws.
GenVariable(cg, node) ==
  IF Found(cg, node.name) THEN Load(cg, lookup(cg, node.name))
  ELSE IF node.name \in DOMAIN cg.functions
  THEN [cg EXCEPT !.last = cg.functions[node.name],
                  !.reached = Append(@, cg.functions[node.name].entry)]
  ELSE [cg EXCEPT !.valid = FALSE]

\* Every argument gets an alloca; declare throws for a name it knows already.
GenParam(cg, name) ==
  LET declared == Declare(cg, name, "int")
  IN  IF Found(cg, name) THEN [cg EXCEPT !.valid = FALSE]
      ELSE Store(declared, lookup(declared, name), Argument)

\* A faulty variant: the first function of a name stays.
RenamedOnce(cg, name, func) == cg.functions @@ (name :> func)

\* A later function takes the name of an earlier one.
Renamed(cg, name, func) == (name :> func) @@ cg.functions

GenFunc(cg, node) ==
  LET entry    == Len(cg.blocks) + 1
      named    == has_name(node)
      name     == IF named THEN node.name ELSE "func_" \o ToString(cg.counter)
      func     == Function(entry, Len(node.params))
      entered  == [NewBlock(cg, <<entry>>) EXCEPT
                     !.insert = entry, !.functions = Renamed(cg, name, func),
                     !.counter = IF named THEN @ ELSE @ + 1, !.tables = Append(@, <<>>)]
      visited  == Visited(FoldLeft(GenParam, entered, node.params), node.body)
      returned == IF Ended(visited) THEN visited ELSE Ret(visited, visited.last)
  IN  [returned EXCEPT !.tables = Front(@), !.insert = cg.insert, !.last = func]

\* A function that is known is called with its own type, a pointer with that of
\* the arguments.
GenCall(cg, node) ==
  LET target == Visited(cg, node.target)
      Next(made, arg) == LET c == Visited(made.cg, arg)
                         IN  [cg |-> c, values |-> Append(made.values, c.last)]
      made   == FoldLeft(Next, [cg |-> target, values |-> <<>>], node.args)
      called == Needing(Needing(made.cg, {target.last}, {"ptr"}), ToSet(made.values), Ints)
      fits   == target.last.kind = "func" => target.last.arity = Len(node.args)
  IN  Emit([called EXCEPT !.valid = @ /\ fits],
           [op |-> "call", target |-> target.last, args |-> made.values])

\* Without a value it is 0.
GenReturn(cg, node) ==
  IF has_value(node) THEN LET valued == Visited(cg, node.value) IN Ret(valued, valued.last)
  ELSE Ret(cg, Const(0))

Visited(cg, node) ==
  CASE node.kind = "Block_expr"      -> All(cg, node.stmts)
    [] node.kind = "Expr_stmt"       -> Visited(cg, node.expr)
    [] node.kind = "Empty_stmt"      -> cg
    [] node.kind = "Print_stmt"      -> GenPrint(cg, node)
    [] node.kind = "If_stmt"         -> GenIf(cg, node)
    [] node.kind = "While_stmt"      -> GenWhile(cg, node)
    [] node.kind = "Return_stmt"     -> GenReturn(cg, node)
    [] node.kind = "Assignment_expr" -> GenAssignment(cg, node)
    [] node.kind = "Binary_operator" -> GenBinary(cg, node)
    [] node.kind = "Unary_operator"  -> GenUnary(cg, node)
    [] node.kind = "Func"            -> GenFunc(cg, node)
    [] node.kind = "Call"            -> GenCall(cg, node)
    [] node.kind = "Input"           -> GenInput(cg)
    [] node.kind = "Variable"        -> GenVariable(cg, node)
    [] node.kind = "Number"          -> [cg EXCEPT !.last = Const(node.number)]
==================================================================================
