--------------------------------- MODULE Codegen ---------------------------------
(***************************************************************************)
(* The code generator: the visitor Code_generator of                       *)
(* frontend/src/codegen/codegen.cpp with the symbol table Scope_stack of   *)
(* frontend/include/codegen/scope_stack.hpp.                               *)
(*                                                                         *)
(* The tree is chosen while it is visited, and only trees the parser       *)
(* accepts are: the walk drives the parser's symbol table (module Scope)   *)
(* along, which met the names in the same order.  work holds what is left  *)
(* to do of the visits under way, the next step first; it stands for the   *)
(* call stack.  Of the IR a block keeps its function, the number of its    *)
(* terminators, and whether it still lacks one at its end; values and      *)
(* their types are left out.                                               *)
(***************************************************************************)
EXTENDS Scope, FiniteSets

CONSTANTS
  InputVar,    \* "__input_var", the variable that scanf writes to
  MaxNodes     \* bound: the nodes of the tree that Visit counts

ASSUME CodegenAssumption == MaxNodes \in Nat

VARIABLES
  work,               \* the steps left, as a sequence
  size,               \* the nodes visited, for the bound
  scope_stack_,       \* the open tables, as sets of allocas
  functions_,         \* the function each name stands for, 0 when none
  current_function_,  \* the function that new blocks go to
  builder_,           \* the insert block of builder_
  blocks,             \* the basic blocks of the module
  returned,           \* the blocks that a return statement was put into
  thrown              \* the exception that ended the visit

irVars   == <<current_function_, builder_, blocks>>
nameVars == <<scope_stack_, functions_>>

codegenVars == <<scopeVars, work, size, nameVars, irVars, returned, thrown>>

----------------------------------------------------------------------------
Step(op) == [op |-> op]

Expr   == Step("expr")
Stmts  == Step("stmts")
Block  == Step("block")
Params == Step("params")
Args   == Step("args")
Emit   == Step("emit")
Fold   == Step("fold")
Return == Step("return")

NothingThrown == [what |-> "nothing", name |-> InputVar]

\* A new block lacks a terminator at its end.
NewBlock(f) == [func |-> f, ends |-> 0, open |-> TRUE]

\* Program: main and its entry block are made.
CodegenInit ==
  /\ ScopeInit
  /\ work = <<Stmts, Step("end_program")>>
  /\ size = 0
  /\ scope_stack_ = <<{}>>
  /\ functions_ = [n \in Names |-> 0]
  /\ current_function_ = 1
  /\ blocks = <<NewBlock(1)>>
  /\ builder_ = 1
  /\ returned = {}
  /\ thrown = NothingThrown

\* The next step is one of op, and steps take its place.
Do(op, steps) ==
  /\ thrown = NothingThrown
  /\ work # <<>> /\ Head(work).op = op
  /\ work' = steps \o Tail(work)
  /\ UNCHANGED size

\* A node is chosen that op can stand for, and counted.  Numbers, arguments,
\* parameters and the statements around an expression are not.
Visit(op, steps) ==
  /\ thrown = NothingThrown
  /\ work # <<>> /\ Head(work).op = op
  /\ work' = steps \o Tail(work)
  /\ size < MaxNodes /\ size' = size + 1

----------------------------------------------------------------------------
(***************************************************************************)
(* Scope_stack.                                                            *)
(***************************************************************************)
Alloca(name, f) == [name |-> name, func |-> f]

Declared(name) == \E i \in DOMAIN scope_stack_ : \E a \in scope_stack_[i] : a.name = name

DeclareAlloca(name, f) ==
  scope_stack_' = [scope_stack_ EXCEPT ![Len(scope_stack_)] = @ \cup {Alloca(name, f)}]

\* A name that no table has gets an alloca in the function of the insert block.
AllocateIfNew(name) ==
  IF Declared(name) THEN UNCHANGED scope_stack_
  ELSE DeclareAlloca(name, blocks[builder_].func)

----------------------------------------------------------------------------
(***************************************************************************)
(* Blocks.  getTerminator is null unless the last instruction of a block   *)
(* is a terminator.                                                        *)
(***************************************************************************)
Emitted(bs, b) == [bs EXCEPT ![b].open = TRUE]
Ended(bs, b)   == [bs EXCEPT ![b].open = FALSE, ![b].ends = @ + 1]

EndedIfOpen(bs, b) == IF bs[b].open THEN Ended(bs, b) ELSE bs

NewBlocks(k) == [i \in 1 .. k |-> NewBlock(current_function_)]

\* An instruction goes to the end of the insert block.
emit ==
  /\ Do("emit", <<>>)
  /\ blocks' = Emitted(blocks, builder_)
  /\ UNCHANGED <<scopeVars, nameVars, current_function_, builder_, returned, thrown>>

\* builder_ folds constants, so an operator may leave no instruction.
fold ==
  /\ Do("fold", <<>>)
  /\ blocks' \in {blocks, Emitted(blocks, builder_)}
  /\ UNCHANGED <<scopeVars, nameVars, current_function_, builder_, returned, thrown>>

----------------------------------------------------------------------------
(***************************************************************************)
(* Expressions.                                                            *)
(***************************************************************************)
\* Nodes that only visit others: operators, a call with its target and its
\* arguments, a block in the place of an expression. 
visit_Expression ==
  /\ \/ Do("expr", <<>>)
     \/ Visit("expr", <<Expr, Expr, Fold>>)
     \/ Visit("expr", <<Expr, Fold>>)
     \/ Visit("expr", <<Expr, Args, Emit>>)
     \/ Visit("expr", <<Block>>)
     \/ Do("args", <<>>)
     \/ Do("args", <<Expr, Args>>)
  /\ UNCHANGED <<scopeVars, nameVars, irVars, returned, thrown>>

\* A name the parser let pass: a variable, or else a function.
visit_Variable ==
  /\ Visit("expr", <<>>)
  /\ \E name \in Names :
        /\ find(name)
        /\ thrown' = IF Declared(name) \/ functions_[name] # 0 THEN thrown
                     ELSE [what |-> "undeclared", name |-> name]
        /\ blocks' = IF Declared(name) THEN Emitted(blocks, builder_) ELSE blocks
  /\ UNCHANGED <<scopeVars, nameVars, current_function_, builder_, returned>>

\* The value is visited first; the parser declares the name behind it, too.
visit_Assignment ==
  /\ \E name \in Names : Visit("expr", <<Expr, [op |-> "assign", name |-> name]>>)
  /\ UNCHANGED <<scopeVars, nameVars, irVars, returned, thrown>>

assign ==
  /\ Do("assign", <<>>)
  /\ add_variable(Head(work).name)
  /\ AllocateIfNew(Head(work).name)
  /\ blocks' = Emitted(blocks, builder_)
  /\ UNCHANGED <<functions_, current_function_, builder_, returned, thrown>>

visit_Input ==
  /\ Visit("expr", <<>>)
  /\ AllocateIfNew(InputVar)
  /\ blocks' = Emitted(blocks, builder_)
  /\ UNCHANGED <<scopeVars, functions_, current_function_, builder_, returned, thrown>>

\* A block has a table in the parser and none in the code generator.
visit_Block ==
  /\ Do("block", <<Stmts, Step("end_block")>>)
  /\ push
  /\ UNCHANGED <<nameVars, irVars, returned, thrown>>

end_block ==
  /\ Do("end_block", <<>>)
  /\ pop
  /\ UNCHANGED <<nameVars, irVars, returned, thrown>>

----------------------------------------------------------------------------
(***************************************************************************)
(* Functions.                                                              *)
(***************************************************************************)
NextFunction == 1 + Cardinality({blocks[b].func : b \in DOMAIN blocks})

FuncSteps(name) ==
  <<Params, [op |-> "name", name |-> name], Stmts,
    [op |-> "end_func", func |-> current_function_, block |-> builder_]>>

\* A faulty variant: the function is not entered under its name.
visit_Func_unnamed ==
  /\ \E name \in Names \cup {InputVar} : Visit("expr", FuncSteps(name))
  /\ push
  /\ scope_stack_' = Append(scope_stack_, {})
  /\ current_function_' = NextFunction
  /\ blocks' = Append(blocks, NewBlock(NextFunction))
  /\ builder_' = Len(blocks) + 1
  /\ UNCHANGED <<functions_, returned, thrown>>

\* A faulty variant: the function has no table of its own.
visit_Func_unscoped ==
  /\ \E name \in Names \cup {InputVar} :
        /\ Visit("expr", FuncSteps(name))
        /\ functions_' = [n \in Names |-> IF n = name THEN NextFunction ELSE functions_[n]]
  /\ push
  /\ current_function_' = NextFunction
  /\ blocks' = Append(blocks, NewBlock(NextFunction))
  /\ builder_' = Len(blocks) + 1
  /\ UNCHANGED <<scope_stack_, returned, thrown>>

\* The function and its entry block are made, the name is entered (InputVar
\* stands for none: the func_N that is entered then is taken for a name that the
\* program does not use), a table is pushed, and what end_func restores is kept.
visit_Func ==
  /\ \E name \in Names \cup {InputVar} :
        /\ Visit("expr", FuncSteps(name))
        /\ functions_' = [n \in Names |-> IF n = name THEN NextFunction ELSE functions_[n]]
  /\ push
  /\ scope_stack_' = Append(scope_stack_, {})
  /\ current_function_' = NextFunction
  /\ blocks' = Append(blocks, NewBlock(NextFunction))
  /\ builder_' = Len(blocks) + 1
  /\ UNCHANGED <<returned, thrown>>

\* A parameter is stored in an alloca; declare throws when any open table has
\* the name.
param ==
  /\ Do("params", <<Params>>)
  /\ \E name \in Names :
        IF Declared(name)
        THEN /\ thrown' = [what |-> "redeclared", name |-> name]
             /\ UNCHANGED <<scopeVars, scope_stack_>>
        ELSE /\ add_variable(name)
             /\ DeclareAlloca(name, current_function_)
             /\ UNCHANGED thrown
  /\ blocks' = Emitted(blocks, builder_)
  /\ UNCHANGED <<functions_, current_function_, builder_, returned>>

end_params ==
  /\ Do("params", <<>>)
  /\ UNCHANGED <<scopeVars, nameVars, irVars, returned, thrown>>

\* The parser declares the name of a function behind its parameters.
func_name ==
  /\ Do("name", <<>>)
  /\ IF Head(work).name = InputVar THEN UNCHANGED scopeVars ELSE add_variable(Head(work).name)
  /\ UNCHANGED <<nameVars, irVars, returned, thrown>>

\* A faulty variant: instructions go on behind those of the function.
end_func_staying ==
  /\ Do("end_func", <<>>)
  /\ pop
  /\ blocks' = EndedIfOpen(blocks, builder_)
  /\ scope_stack_' = SubSeq(scope_stack_, 1, Len(scope_stack_) - 1)
  /\ current_function_' = Head(work).func
  /\ UNCHANGED <<builder_, functions_, returned, thrown>>

end_func ==
  /\ Do("end_func", <<>>)
  /\ pop
  /\ blocks' = EndedIfOpen(blocks, builder_)
  /\ scope_stack_' = SubSeq(scope_stack_, 1, Len(scope_stack_) - 1)
  /\ current_function_' = Head(work).func
  /\ builder_' = Head(work).block
  /\ UNCHANGED <<functions_, returned, thrown>>

----------------------------------------------------------------------------
(***************************************************************************)
(* Statements.                                                             *)
(***************************************************************************)
\* A list ends or goes on with a statement that only visits others.
visit_Statement ==
  /\ \/ Do("stmts", <<>>)
     \/ Do("stmts", <<Expr, Stmts>>)
     \/ Do("stmts", <<Expr, Emit, Stmts>>)
     \/ \E els \in BOOLEAN : Visit("stmts", <<Expr, [op |-> "if", els |-> els], Stmts>>)
     \/ Visit("stmts", <<Return, Stmts>>)
     \/ Visit("stmts", <<Expr, Return, Stmts>>)
  /\ UNCHANGED <<scopeVars, nameVars, irVars, returned, thrown>>

\* The condition has been visited: then, else and ifcont are made, in this order.
branch ==
  LET els   == Len(blocks) + 2
      merge == Len(blocks) + (IF Head(work).els THEN 3 ELSE 2)
      Join  == [op |-> "join", block |-> merge]
  IN  /\ Do("if", IF Head(work).els
                  THEN <<Block, [op |-> "join", block |-> els], Block, Join>>
                  ELSE <<Block, Join>>)
      /\ blocks' = Ended(blocks, builder_) \o NewBlocks(merge - Len(blocks))
      /\ builder_' = Len(blocks) + 1
      /\ UNCHANGED <<scopeVars, nameVars, current_function_, returned, thrown>>

\* A branch has been visited: it goes on to ifcont, unless it has returned.
join ==
  /\ Do("join", <<>>)
  /\ blocks' = EndedIfOpen(blocks, builder_)
  /\ builder_' = Head(work).block
  /\ UNCHANGED <<scopeVars, nameVars, current_function_, returned, thrown>>

visit_While ==
  /\ Visit("stmts", <<Expr, Step("loop"), Stmts>>)
  /\ blocks' = Ended(blocks, builder_) \o NewBlocks(1)
  /\ builder_' = Len(blocks) + 1
  /\ UNCHANGED <<scopeVars, nameVars, current_function_, returned, thrown>>

\* The condition has been visited: body_loop and end_loop are made.
loop ==
  /\ Do("loop", <<Block, [op |-> "repeat", block |-> Len(blocks) + 2]>>)
  /\ blocks' = Ended(blocks, builder_) \o NewBlocks(2)
  /\ builder_' = Len(blocks) + 1
  /\ UNCHANGED <<scopeVars, nameVars, current_function_, returned, thrown>>

\* A faulty variant: instructions go on behind the jump to cond_loop.
repeat_inside ==
  /\ Do("repeat", <<>>)
  /\ blocks' = Ended(blocks, builder_)
  /\ UNCHANGED <<builder_, scopeVars, nameVars, current_function_, returned, thrown>>

\* The body has been visited; whether it has returned is not asked.
repeat ==
  /\ Do("repeat", <<>>)
  /\ blocks' = Ended(blocks, builder_)
  /\ builder_' = Head(work).block
  /\ UNCHANGED <<scopeVars, nameVars, current_function_, returned, thrown>>

return ==
  /\ Do("return", <<>>)
  /\ blocks' = Ended(blocks, builder_)
  /\ returned' = returned \cup {builder_}
  /\ UNCHANGED <<scopeVars, nameVars, current_function_, builder_, thrown>>

end_program ==
  /\ Do("end_program", <<>>)
  /\ blocks' = EndedIfOpen(blocks, builder_)
  /\ UNCHANGED <<scopeVars, nameVars, current_function_, builder_, returned, thrown>>

Finished == (work = <<>> \/ thrown # NothingThrown) /\ UNCHANGED codegenVars

CodegenNext ==
  \/ emit \/ fold
  \/ visit_Expression \/ visit_Variable \/ visit_Assignment \/ assign \/ visit_Input
  \/ visit_Block \/ end_block
  \/ visit_Func \/ param \/ end_params \/ func_name \/ end_func
  \/ visit_Statement \/ branch \/ join \/ visit_While \/ loop \/ repeat \/ return
  \/ end_program \/ Finished

CodegenSpec == CodegenInit /\ [][CodegenNext]_codegenVars

----------------------------------------------------------------------------
(***************************************************************************)
(* Properties.                                                             *)
(***************************************************************************)
\* The two symbol tables have different rules, for blocks and for functions, but
\* a name that the parser lets pass is always found: codegen.cpp:453 is dead.
NamesResolve == thrown.what # "undeclared"

\* The code makes blocks in current_function_ and allocas in the function of the
\* insert block (codegen.cpp:81, 264): the two are the same function, also behind
\* a function in the middle of an expression.
InsertsIntoCurrentFunction == blocks[builder_].func = current_function_

\* The functions under way, main first.
EndSteps == {i \in DOMAIN work : work[i].op = "end_func"}

IsOpenFunction(k, f) ==
  \/ k = Cardinality(EndSteps) + 1 /\ f = current_function_
  \/ \E i \in EndSteps : /\ work[i].func = f
                         /\ Cardinality({j \in EndSteps : j >= i}) = k

\* Each open table of the code generator belongs to one function under way, and
\* a variable in it lives in the frame of that function.
TablesFollowFunctions ==
  thrown = NothingThrown =>
    /\ Len(scope_stack_) = Cardinality(EndSteps) + 1
    /\ \A k \in DOMAIN scope_stack_ : \A a \in scope_stack_[k] : IsOpenFunction(k, a.func)

\* Every block is ended once, by its last instruction: nothing goes behind a
\* terminator and no second one is made, but in a block with a return statement,
\* where the code goes on; and in a finished module every block is ended.
BlocksEndOnce ==
  \A b \in DOMAIN blocks :
     /\ b \notin returned => blocks[b].ends = (IF blocks[b].open THEN 0 ELSE 1)
     /\ work = <<>> => ~blocks[b].open

\* README.md:227: leaving a block deletes the variables declared in it, so only
\* a name of a scope that is still open can stand in the way of a parameter.
ClosedScopesAreForgotten == thrown.what = "redeclared" => find(thrown.name)
==================================================================================
