--------------------------------- MODULE Grammar ---------------------------------
(***************************************************************************)
(* The grammar of frontend/src/parser.y as data, and the LR automaton that *)
(* Bison builds from it.                                                   *)
(*                                                                         *)
(* A rule is a sequence: its left-hand side, then its right-hand side.     *)
(* Terminals have the names of their tokens without the prefix TOK_.       *)
(* "$@1" and "$@2" are the nonterminals Bison makes for the mid-rule       *)
(* actions.  The seven levels of binary operators (lines 315-371) are one  *)
(* level here, and terminals that occur in the same places are one         *)
(* terminal: BINARY for every operator that is only binary, SIGN for + and *)
(* -.  Neither changes what a state can shift.                             *)
(***************************************************************************)
EXTENDS Integers, Sequences

\* A faulty variant: a failed statement ends where the error is.
error_statement_bare == <<"statement", "error">>

\* A failed statement is thrown away up to the next ";".
error_statement == <<"statement", "error", "SEMICOLON">>

StatementRules ==
  [ program        |-> <<"program", "toplevel_stmt_list", "EOF">>,
    toplevel_none  |-> <<"toplevel_stmt_list">>,
    toplevel_more  |-> <<"toplevel_stmt_list", "toplevel_stmt_list", "toplevel_statement">>,
    toplevel_stmt  |-> <<"toplevel_statement", "statement">>,
    toplevel_brace |-> <<"toplevel_statement", "RIGHT_BRACE">>,
    stmts_none     |-> <<"stmt_list">>,
    stmts_more     |-> <<"stmt_list", "stmt_list", "statement">>,
    stmt_if        |-> <<"statement", "if_stmt">>,
    stmt_while     |-> <<"statement", "while_stmt">>,
    stmt_print     |-> <<"statement", "print_stmt", "SEMICOLON">>,
    stmt_return    |-> <<"statement", "return_stmt", "SEMICOLON">>,
    stmt_expr      |-> <<"statement", "expr_stmt">>,
    stmt_empty     |-> <<"statement", "empty_stmt">>,
    stmt_error     |-> error_statement,
    empty_stmt     |-> <<"empty_stmt", "SEMICOLON">>,
    expr_stmt      |-> <<"expr_stmt", "expression", "SEMICOLON">>,
    print_stmt     |-> <<"print_stmt", "PRINT", "expression">>,
    return_none    |-> <<"return_stmt", "RETURN">>,
    return_value   |-> <<"return_stmt", "RETURN", "expression">> ]

ControlRules ==
  [ if_then        |-> <<"if_stmt", "IF", "LEFT_PAREN", "expression", "RIGHT_PAREN",
                         "block_expr">>,
    if_else        |-> <<"if_stmt", "IF", "LEFT_PAREN", "expression", "RIGHT_PAREN",
                         "block_expr", "ELSE", "block_expr">>,
    if_error       |-> <<"if_stmt", "IF", "error", "RIGHT_PAREN", "block_expr">>,
    if_error_in    |-> <<"if_stmt", "IF", "LEFT_PAREN", "error", "block_expr">>,
    while_do       |-> <<"while_stmt", "WHILE", "LEFT_PAREN", "expression", "RIGHT_PAREN",
                         "block_expr">>,
    while_error    |-> <<"while_stmt", "WHILE", "error", "RIGHT_PAREN", "block_expr">>,
    while_error_in |-> <<"while_stmt", "WHILE", "LEFT_PAREN", "error", "block_expr">> ]

ExpressionRules ==
  [ expression    |-> <<"expression", "assignment_expr">>,
    assign_none   |-> <<"assignment_expr", "binary">>,
    assign        |-> <<"assignment_expr", "ID", "ASSIGN", "assignment_expr">>,
    binary_one    |-> <<"binary", "unary">>,
    binary_op     |-> <<"binary", "binary", "BINARY", "unary">>,
    binary_sign   |-> <<"binary", "binary", "SIGN", "unary">>,
    unary_sign    |-> <<"unary", "SIGN", "unary">>,
    unary_not     |-> <<"unary", "NOT", "unary">>,
    unary_none    |-> <<"unary", "postfix">>,
    postfix       |-> <<"postfix", "primary">>,
    call          |-> <<"postfix", "postfix", "LEFT_PAREN", "opt_arg_list", "RIGHT_PAREN">>,
    args_none     |-> <<"opt_arg_list">>,
    args_some     |-> <<"opt_arg_list", "arg_list">>,
    arg_first     |-> <<"arg_list", "expression">>,
    arg_more      |-> <<"arg_list", "arg_list", "COMMA", "expression">>,
    number        |-> <<"primary", "NUMBER">>,
    variable      |-> <<"primary", "ID">>,
    parens        |-> <<"primary", "LEFT_PAREN", "expression", "RIGHT_PAREN">>,
    primary_func  |-> <<"primary", "function_expr">>,
    primary_input |-> <<"primary", "input_expr">>,
    primary_block |-> <<"primary", "block_expr">>,
    input         |-> <<"input_expr", "INPUT">> ]

ScopeRules ==
  [ open_block  |-> <<"$@1">>,
    block_expr  |-> <<"block_expr", "LEFT_BRACE", "$@1", "stmt_list", "RIGHT_BRACE">>,
    open_func   |-> <<"$@2">>,
    func        |-> <<"function_expr", "FUNC", "$@2", "LEFT_PAREN", "opt_param_list",
                      "RIGHT_PAREN", "opt_func_name", "LEFT_BRACE", "stmt_list",
                      "RIGHT_BRACE">>,
    params_none |-> <<"opt_param_list">>,
    params_some |-> <<"opt_param_list", "param_list">>,
    param_first |-> <<"param_list", "ID">>,
    param_more  |-> <<"param_list", "param_list", "COMMA", "ID">>,
    name_none   |-> <<"opt_func_name">>,
    name_some   |-> <<"opt_func_name", "COLON", "ID">> ]

\* The rule Bison adds.  TOK_EOF has the number 0 (line 158), so it is also
\* the end marker of this rule: accepting takes two of them.
AcceptRule == [accept |-> <<"$accept", "program", "EOF">>]

RuleNames ==
  DOMAIN AcceptRule \cup DOMAIN StatementRules \cup DOMAIN ControlRules
    \cup DOMAIN ExpressionRules \cup DOMAIN ScopeRules

Rule ==
  [r \in RuleNames |->
     CASE r \in DOMAIN AcceptRule      -> AcceptRule[r]
       [] r \in DOMAIN StatementRules  -> StatementRules[r]
       [] r \in DOMAIN ControlRules    -> ControlRules[r]
       [] r \in DOMAIN ExpressionRules -> ExpressionRules[r]
       [] r \in DOMAIN ScopeRules      -> ScopeRules[r]]

Lhs(r)   == Rule[r][1]
Width(r) == Len(Rule[r]) - 1

\* The nonterminals of the mid-rule actions, and the rules that resynchronise.
Markers == {"$@1", "$@2"}

ErrorRules == {"stmt_error", "if_error", "if_error_in", "while_error", "while_error_in"}

Nonterminals == {Lhs(r) : r \in RuleNames}

Symbols == UNION {{Rule[r][i] : i \in 1 .. Len(Rule[r])} : r \in RuleNames}

Terminals == Symbols \ (Nonterminals \cup {"error"})

----------------------------------------------------------------------------
(***************************************************************************)
(* An item <<r, k>> is rule r with the first k symbols of Rule[r] behind   *)
(* the dot, its left-hand side counted.  A state of the automaton is the   *)
(* set of its kernel items, and Closure adds the items at the start of     *)
(* every rule that can begin at a dot.                                     *)
(***************************************************************************)
Items == {item \in RuleNames \X (1 .. 10) : item[2] <= Len(Rule[item[1]])}

IsComplete(item) == item[2] = Len(Rule[item[1]])

NextSymbol(item) == Rule[item[1]][item[2] + 1]

\* One step of the left-corner relation, and its closure.  The depth bounds
\* the chain expression ... primary ... block_expr.
Begins(syms) ==
  syms \cup {NextSymbol(<<r, 1>>) :
               r \in {q \in RuleNames : Lhs(q) \in syms /\ Width(q) > 0}}

LeftCorners ==
  [s \in Symbols |->
     LET corners[n \in 0 .. 12] == IF n = 0 THEN {s} ELSE Begins(corners[n - 1])
     IN  corners[12]]

Starts ==
  [s \in Symbols |->
     {<<r, 1>> : r \in {q \in RuleNames \ {"accept"} : Lhs(q) \in LeftCorners[s]}}]

Open(items) == {i \in items : ~IsComplete(i)}

Closure(kernel) == kernel \cup UNION {Starts[NextSymbol(i)] : i \in Open(kernel)}

Goto(kernel, sym) ==
  {<<i[1], i[2] + 1>> : i \in {j \in Open(Closure(kernel)) : NextSymbol(j) = sym}}

StartState == {<<"accept", 1>>}

Expected(kernel) == {NextSymbol(i) : i \in Open(Closure(kernel))}

CanShift(kernel, sym) == sym \in Expected(kernel)

\* The rules a state can reduce by.  No reachable state has two.
Completed(kernel) == {i[1] : i \in {j \in Closure(kernel) : IsComplete(j)}}

\* Bison reduces in a state without a look at the next token when no token
\* can be shifted there (yypact_value_is_default).
NeedsLookahead(kernel) == Expected(kernel) \cap (Terminals \cup {"error"}) # {}
==================================================================================
