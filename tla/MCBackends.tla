-------------------------------- MODULE MCBackends --------------------------------
(***************************************************************************)
(* Instances of Backends for TLC: programs of a few statements, in place   *)
(* of all trees the parser can build.                                      *)
(***************************************************************************)
EXTENDS Backends

X == Variable("x")
Y == Variable("y")

Put_x(e) == Expr_stmt(Assignment_expr("x", e))
Put_y(e) == Expr_stmt(Assignment_expr("y", e))
Plus1(e) == Binary_operator("Add", e, Number(1))

\* Every operator on all pairs of numbers, and evaluation in the order of the text.
Calculations ==
  {Program(<<Print_stmt(Binary_operator(op, Input, Input))>>) : op \in Binary_operators}
  \cup {Program(<<Put_x(Unary_operator(op, Input)), Print_stmt(X)>>) : op \in Unary_operators}
  \cup {Program(<<Put_x(Input),
                  Print_stmt(Binary_operator("Sub", Assignment_expr("x", Plus1(X)), X))>>)}
  \cup {Program(<<Print_stmt(Binary_operator(op, Input, Assignment_expr("x", Input))),
                  Print_stmt(X)>>) : op \in {"LogAnd", "LogOr"}}

\* Blocks, of which some give no value.
Blocks ==
  {Block_expr(stmts) : stmts \in
     {<<>>, <<Expr_stmt(X)>>, <<Put_y(Plus1(X)), Expr_stmt(Y), Empty_stmt>>,
      <<Expr_stmt(X), Print_stmt(Number(2))>>,
      <<Print_stmt(X), Put_x(Number(0))>>, <<Expr_stmt(Block_expr(<<Put_x(Input)>>))>>}}

Conditions == {X, Unary_operator("Not", X), Binary_operator("Less", X, Number(2)), Input}

Statements ==
  {Print_stmt(block) : block \in Blocks}
  \cup {If_stmt(c, b, NoNode) : c \in Conditions, b \in Blocks}
  \cup {If_stmt(X, b, e) : b \in Blocks, e \in Blocks}
  \cup {While_stmt(c, b) : c \in Conditions,
                           b \in {Block_expr(<<Print_stmt(X), Put_x(Plus1(X))>>),
                                  Block_expr(<<If_stmt(X, Block_expr(<<Put_y(Input), Print_stmt(Y)>>),
                                                       Block_expr(<<Print_stmt(Number(1))>>)),
                                               Put_x(Plus1(X))>>)}}
  \cup {Put_y(Block_expr(<<statement>>)) :
          statement \in {If_stmt(X, b, NoNode) : b \in Blocks} \cup {While_stmt(Input, b) : b \in Blocks}}

Loops == {statement \in Statements : statement.kind = "While_stmt"}
Ifs   == {statement \in Statements : statement.kind = "If_stmt" /\ statement.condition # X}

Controls ==
  {Program(<<Put_x(Input), statement, Print_stmt(X)>>) : statement \in Statements}
  \cup {Program(<<Put_x(Input), first, second, Print_stmt(X)>>) : first \in Ifs, second \in Loops}
  \cup {Program(<<Put_x(Input), While_stmt(Binary_operator("Less", X, Number(3)),
                                          Block_expr(<<first, Put_x(Plus1(X)), second>>))>>) :
          first \in Ifs, second \in Ifs}

\* Functions: every way to end a body, in main and in each other, with names of
\* their own and with those of others.
N       == Variable("n")
Self(e) == Call(Variable("f"), <<e>>)
Foo     == Variable("foo")
Put_foo(func) == Expr_stmt(Assignment_expr("foo", func))

Bodies ==
  {<<>>, <<Expr_stmt(N)>>, <<Return_stmt(N), Empty_stmt>>, <<Return_stmt(NoNode)>>, <<Print_stmt(N)>>,
   <<Return_stmt(N), Print_stmt(N)>>, <<Expr_stmt(X)>>, <<Expr_stmt(Input)>>,
   <<Put_x(N), Expr_stmt(X)>>, <<Expr_stmt(Block_expr(<<Return_stmt(N)>>))>>,
   <<Put_x(Block_expr(<<Return_stmt(N)>>))>>, <<If_stmt(N, Block_expr(<<Expr_stmt(Number(1))>>), NoNode)>>,
   <<If_stmt(N, Block_expr(<<Return_stmt(Number(1))>>), Block_expr(<<Return_stmt(NoNode)>>)), Expr_stmt(N)>>,
   <<If_stmt(N, Block_expr(<<Return_stmt(Self(N))>>), NoNode), Put_y(Self(Number(0))), Expr_stmt(Y)>>,
   <<While_stmt(N, Block_expr(<<Return_stmt(N)>>)), Return_stmt(N)>>,
   <<While_stmt(Self(N), Block_expr(<<Print_stmt(N)>>)), Return_stmt(N)>>,
   <<Expr_stmt(Variable("f"))>>, <<Expr_stmt(Call(N, <<>>))>>, <<Return_stmt(Call(Variable("f"), <<>>))>>}

Inner ==
  {Func(name, <<"m">>, Block_expr(<<Return_stmt(e)>>)) :
     name \in {"", "f", "g"}, e \in {Variable("m"), Self(Variable("m"))}}

Bodies2 ==
  {<<Put_foo(func), Expr_stmt(Self(Call(Foo, <<N>>)))>> : func \in Inner}
  \cup {<<Return_stmt(Call(func, <<N>>))>> : func \in Inner}

Lambdas == {Func(name, params, Block_expr(body)) :
              name \in {"", "f"}, params \in {<<"n">>, <<"n", "n">>}, body \in Bodies}
           \cup {Func("f", params, Block_expr(body)) : params \in {<<"n">>, <<"n", "m">>}, body \in Bodies2}
           \cup {Func("f", <<param>>, Block_expr(<<Return_stmt(Self(Number(1)))>>)) : param \in {"f", "n"}}

Before == {<<>>, <<Put_x(Input)>>, <<Expr_stmt(Block_expr(<<Put_x(Number(1))>>))>>,
           <<Expr_stmt(Assignment_expr("f", Number(1)))>>, <<Expr_stmt(Assignment_expr("n", Number(1)))>>}

Uses_of_foo ==
  {<<Print_stmt(Call(Foo, <<Number(1)>>))>>, <<Expr_stmt(Call(Foo, <<Foo>>))>>, <<Print_stmt(Foo)>>,
   <<Put_y(Foo), Print_stmt(Binary_operator("Add", Y, Number(1)))>>,
   <<If_stmt(Call(Foo, <<Input>>), Block_expr(<<Return_stmt(Number(1))>>), NoNode)>>,
   <<Put_foo(Func("f", <<"n">>, Block_expr(<<Return_stmt(Self(N))>>))), Print_stmt(Call(Foo, <<Number(1)>>))>>}

Functional ==
  {p \in {Program(before \o <<Put_foo(func)>> \o use) :
             before \in Before, func \in Lambdas, use \in Uses_of_foo} : Scoped(p)}

\* A variable with the name of the input slot, calls of what is no function, and
\* what comes behind a return.
Others ==
  {Program(<<Expr_stmt(Assignment_expr(InputSlot, Number(2))), Print_stmt(Input),
             Print_stmt(Variable(InputSlot))>>),
   Program(<<Put_x(Call(Func("", <<>>, Block_expr(<<>>)), <<Number(1), Input>>)),
             Return_stmt(Number(0)), Print_stmt(X)>>),
   Program(<<Put_x(Number(1)), Expr_stmt(Call(X, <<X>>))>>),
   Program(<<If_stmt(Input, Block_expr(<<Return_stmt(NoNode)>>), NoNode), Print_stmt(Number(1))>>)}

SomePrograms == Calculations \cup Controls \cup Functional \cup Others

\* The trees that the interpreter visits, with their names as the parser finds
\* them: the programs without a function, and a few others.
AllParts    == {node \in UNION {Nodes(p) : p \in Calculations \cup Controls \cup Others} : TRUE}
AllNeeds    == [node \in AllParts |-> FreeNames(node)]
AllDeclares == [node \in AllParts |-> NewNames(node)]

\* TLC evaluates a definition that a constant stands for at each use of the
\* constant, and those above only once.
SomeParts    == AllParts
SomeNeeds    == AllNeeds
SomeDeclares == AllDeclares

\* What the counterexample needs.
Comparing == {Program(<<Print_stmt(Binary_operator(op, Input, Input))>>) : op \in Comparisons}

SomeNumbers == {-4, -1, 0, 3}
SomeGarbage == {-3, 1}
===================================================================================
