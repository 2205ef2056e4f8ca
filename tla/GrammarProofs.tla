-------------------------------- MODULE GrammarProofs --------------------------------
(***************************************************************************)
(* Facts about the rules of Grammar and about the states of its automaton. *)
(* Single rules are looked at; of the automaton nothing is used but the    *)
(* definitions of Closure and Goto, and of LeftCorners for two symbols.    *)
(***************************************************************************)
EXTENDS Grammar, TLAPS

(***************************************************************************)
(* Facts about integers, to be used with terms in place of the variables.  *)
(***************************************************************************)
LEMMA IntervalBounds ==
  \A n \in 1 .. 10 : 1 \in 1 .. n /\ \A k \in 1 .. n : k \in 1 .. 10 /\ k <= n
  OBVIOUS

\* Arithmetic on positions in a stack, kept apart for the SMT solver.
LEMMA IndexBounds ==
  \A below \in Nat : \A i \in 1 .. below : \A n \in 1 .. 10 : \A k \in 2 .. n :
     n <= i => i - n + k \in 1 .. below
  OBVIOUS

\* Moving an offset from one side of an index to the other.
LEMMA IndexShift ==
  \A below \in Nat : \A i : \A n \in 2 .. 10 : \A k \in 2 .. n :
     i = below + 1 /\ n - 1 <= below /\ k # n =>
        /\ k \in 2 .. n - 1
        /\ i - n + k = below - (n - 1) + k
        /\ i - n + k \in 1 .. below
  OBVIOUS

\* A right-hand side has at most nine symbols, so a rule takes a natural number of entries.
LEMMA WidthBounds ==
  \A h \in Nat : \A n \in 1 .. 10 :
     n <= h => n - 1 \in 0 .. 9 /\ h - (n - 1) \in 1 .. h
  OBVIOUS

(***************************************************************************)
(* Facts about the rules.                                                  *)
(***************************************************************************)
LEMMA RuleCases ==
  \A r \in RuleNames : \/ r \in DOMAIN AcceptRule      /\ Rule[r] = AcceptRule[r]
                       \/ r \in DOMAIN StatementRules  /\ Rule[r] = StatementRules[r]
                       \/ r \in DOMAIN ControlRules    /\ Rule[r] = ControlRules[r]
                       \/ r \in DOMAIN ExpressionRules /\ Rule[r] = ExpressionRules[r]
                       \/ r \in DOMAIN ScopeRules      /\ Rule[r] = ScopeRules[r]
  BY DEF Rule, RuleNames

\* No rule of parser.y has more than nine symbols on its right-hand side.
LEMMA RuleLength ==
  \A r \in RuleNames : Len(Rule[r]) \in 1 .. 10 /\ DOMAIN Rule[r] = 1 .. Len(Rule[r])
  <1> DEFINE Fits(rules) == \A r \in DOMAIN rules : /\ Len(rules[r]) \in 1 .. 10
                                                    /\ DOMAIN rules[r] = 1 .. Len(rules[r])
  <1>1. Fits(AcceptRule)       BY DEF AcceptRule
  <1>2. Fits(StatementRules)   BY DEF StatementRules, error_statement
  <1>3. Fits(ControlRules)     BY DEF ControlRules
  <1>4. Fits(ExpressionRules)  BY DEF ExpressionRules
  <1>5. Fits(ScopeRules)       BY DEF ScopeRules
  <1> QED  BY <1>1, <1>2, <1>3, <1>4, <1>5, RuleCases

\* The mid-rule markers are made by their own rules only, and stand second on
\* the right-hand side of block_expr and function_expr and nowhere else.
LEMMA MarkerRules ==
  \A r \in RuleNames :
    /\ Lhs(r) \in Markers <=> r \in {"open_block", "open_func"}
    /\ \A k \in 2 .. Len(Rule[r]) :
         Rule[r][k] \in Markers => r \in {"block_expr", "func"} /\ k = 3
  <1> DEFINE NoMarker(rules) == \A r \in DOMAIN rules : \A k \in DOMAIN rules[r] :
                                   rules[r][k] \notin Markers
  <1>1. NoMarker(AcceptRule)       BY DEF Markers, AcceptRule
  <1>2. NoMarker(StatementRules)   BY DEF Markers, StatementRules, error_statement
  <1>3. NoMarker(ControlRules)     BY DEF Markers, ControlRules
  <1>4. NoMarker(ExpressionRules)  BY DEF Markers, ExpressionRules
  <1>5. \A r \in DOMAIN ScopeRules :
          /\ ScopeRules[r][1] \in Markers <=> r \in {"open_block", "open_func"}
          /\ \A k \in DOMAIN ScopeRules[r] :
               ScopeRules[r][k] \in Markers => \/ r \in {"block_expr", "func"} /\ k = 3
                                               \/ k = 1
    BY DEF Markers, ScopeRules
  <1>6. DOMAIN ScopeRules \cap (DOMAIN AcceptRule \cup DOMAIN StatementRules
          \cup DOMAIN ControlRules \cup DOMAIN ExpressionRules) = {}
    BY DEF AcceptRule, StatementRules, ControlRules, ExpressionRules, ScopeRules
  <1>7. {"open_block", "open_func"} \subseteq DOMAIN ScopeRules
    BY DEF ScopeRules
  <1> QED  BY <1>1, <1>2, <1>3, <1>4, <1>5, <1>6, <1>7, RuleCases, RuleLength DEF Lhs

\* The rules whose semantic action looks at the stack.
LEMMA ActionRules ==
  /\ {"accept", "program", "open_block", "open_func", "block_expr", "func", "param_first",
      "param_more", "name_some", "assign", "variable", "toplevel_brace"}
       \cup ErrorRules \subseteq RuleNames
  /\ Rule["accept"] = <<"$accept", "program", "EOF">>
  /\ Len(Rule["open_block"]) = 1 /\ Len(Rule["open_func"]) = 1
  /\ Len(Rule["block_expr"]) = 5 /\ Rule["block_expr"][3] \in Markers
  /\ Len(Rule["func"]) = 10 /\ Rule["func"][3] \in Markers
  /\ Len(Rule["param_first"]) = 2 /\ Rule["param_first"][2] = "ID"
  /\ Len(Rule["param_more"]) = 4 /\ Rule["param_more"][4] = "ID"
  /\ Len(Rule["name_some"]) = 3 /\ Rule["name_some"][3] = "ID"
  /\ Len(Rule["assign"]) = 4 /\ Rule["assign"][2] = "ID"
  /\ Len(Rule["variable"]) = 2 /\ Rule["variable"][2] = "ID"
  BY SMTT(60) DEF ErrorRules, Markers, Rule, RuleNames, AcceptRule, StatementRules,
                  ControlRules, ExpressionRules, ScopeRules, error_statement

\* Every rule that resynchronises has the error token on its right-hand side.
LEMMA ErrorRulesHaveError ==
  \A r \in ErrorRules : \E k \in 2 .. Len(Rule[r]) : Rule[r][k] = "error"
  <1>1. /\ Len(Rule["stmt_error"]) = 3 /\ Rule["stmt_error"][2] = "error"
        /\ Len(Rule["if_error"]) = 5 /\ Rule["if_error"][3] = "error"
        /\ Len(Rule["if_error_in"]) = 5 /\ Rule["if_error_in"][4] = "error"
        /\ Len(Rule["while_error"]) = 5 /\ Rule["while_error"][3] = "error"
        /\ Len(Rule["while_error_in"]) = 5 /\ Rule["while_error_in"][4] = "error"
    BY SMTT(60) DEF Rule, RuleNames, AcceptRule, StatementRules, ControlRules,
                    ExpressionRules, ScopeRules, error_statement
  <1> QED  BY <1>1 DEF ErrorRules

\* Neither the error token nor an identifier is a nonterminal, and only the
\* start rule makes a program.
LEMMA LeftHandSides ==
  \A r \in RuleNames :
    /\ Lhs(r) \notin {"error", "ID"}
    /\ Lhs(r) = "program" => r = "program"
    /\ Lhs(r) \in Symbols
  <1>1. \A r \in RuleNames : /\ Lhs(r) \notin {"error", "ID"}
                             /\ Lhs(r) = "program" => r = "program"
    BY SMTT(60) DEF Lhs, Rule, RuleNames, AcceptRule, StatementRules, ControlRules,
                    ExpressionRules, ScopeRules, error_statement
  <1>2. \A r \in RuleNames : Lhs(r) \in Symbols
    BY RuleLength DEF Symbols, Lhs
  <1> QED  BY <1>1, <1>2

\* The error token is a symbol of the grammar (parser.y:228).
LEMMA ErrorIsSymbol == "error" \in Symbols
  <1>1. "stmt_error" \in RuleNames /\ Rule["stmt_error"][2] = "error"
        /\ Len(Rule["stmt_error"]) = 3
    BY SMTT(60) DEF Rule, RuleNames, AcceptRule, StatementRules, ControlRules,
                    ExpressionRules, ScopeRules, error_statement
  <1> QED  BY <1>1 DEF Symbols

\* No terminal is a marker, the error token or "program".
LEMMA TerminalSymbols ==
  /\ Terminals \subseteq Symbols
  /\ \A t \in Terminals : t \notin Markers /\ t # "error" /\ t # "program"
  <1>1. Lhs("open_block") = "$@1" /\ Lhs("open_func") = "$@2" /\ Lhs("program") = "program"
    BY SMTT(60) DEF Lhs, Rule, RuleNames, AcceptRule, StatementRules, ControlRules,
                    ExpressionRules, ScopeRules, error_statement
  <1>2. Markers \subseteq Nonterminals /\ "program" \in Nonterminals
    BY <1>1, ActionRules DEF Nonterminals, Markers
  <1> QED  BY <1>2 DEF Terminals

\* The end of file is a token (parser.y:158, 177).
LEMMA EofIsTerminal == "EOF" \in Terminals
  <1>1. "EOF" \in Symbols
    <2>1. "accept" \in RuleNames /\ Rule["accept"] = <<"$accept", "program", "EOF">>
      BY ActionRules
    <2>2. Len(Rule["accept"]) = 3 /\ Rule["accept"][3] = "EOF"
      BY <2>1
    <2>3. "EOF" \in {Rule["accept"][i] : i \in 1 .. Len(Rule["accept"])}
      BY <2>2
    <2> QED  BY <2>1, <2>3 DEF Symbols
  <1>2. \A r \in RuleNames : Lhs(r) # "EOF"
    BY SMTT(60) DEF Lhs, Rule, RuleNames, AcceptRule, StatementRules, ControlRules,
                    ExpressionRules, ScopeRules, error_statement
  <1> QED  BY <1>1, <1>2 DEF Terminals, Nonterminals

----------------------------------------------------------------------------
(***************************************************************************)
(* Facts about the automaton.                                              *)
(***************************************************************************)
LEMMA ItemForm ==
  /\ \A item \in Items : /\ item = <<item[1], item[2]>>
                         /\ item[1] \in RuleNames
                         /\ item[2] \in 1 .. 10 /\ item[2] \in 1 .. Len(Rule[item[1]])
  /\ \A r \in RuleNames : \A k \in 1 .. Len(Rule[r]) : <<r, k>> \in Items
  <1>1. ASSUME NEW item \in Items
        PROVE  /\ item = <<item[1], item[2]>>
               /\ item[1] \in RuleNames
               /\ item[2] \in 1 .. 10 /\ item[2] \in 1 .. Len(Rule[item[1]])
    <2>1. item \in RuleNames \X (1 .. 10) /\ item[2] <= Len(Rule[item[1]])
      BY DEF Items
    <2>2. item = <<item[1], item[2]>> /\ item[1] \in RuleNames /\ item[2] \in 1 .. 10
      BY <2>1
    <2> QED  BY <2>1, <2>2, RuleLength
  <1>2. ASSUME NEW r \in RuleNames, NEW k \in 1 .. Len(Rule[r])
        PROVE  <<r, k>> \in Items
    <2>1. Len(Rule[r]) \in 1 .. 10
      BY RuleLength
    <2>2. k \in 1 .. 10 /\ k <= Len(Rule[r])
      BY <2>1, IntervalBounds, Zenon
    <2>3. <<r, k>> \in RuleNames \X (1 .. 10)
      BY <2>2
    <2>4. <<r, k>>[1] = r /\ <<r, k>>[2] = k
      OBVIOUS
    <2>5. <<r, k>>[2] <= Len(Rule[<<r, k>>[1]])
      BY <2>2, <2>4, Zenon
    <2> QED  BY <2>3, <2>5, Zenon DEF Items
  <1> QED  BY <1>1, <1>2

\* The closure only adds items at the start of a rule, and never the start
\* rule.
LEMMA ClosureItems ==
  ASSUME NEW K \in SUBSET Items, NEW j \in Closure(K)
  PROVE  /\ j \in Items
         /\ j \in K \/ (j[2] = 1 /\ j[1] # "accept")
  <1>1. CASE j \in K
    BY <1>1
  <1>2. CASE j \notin K
    <2>1. PICK i \in Open(K) : j \in Starts[NextSymbol(i)]
      BY <1>2 DEF Closure
    <2>2. i \in Items /\ i[1] \in RuleNames /\ i[2] + 1 \in 1 .. Len(Rule[i[1]])
      BY <2>1, ItemForm, RuleLength DEF Open, IsComplete
    <2>3. NextSymbol(i) \in Symbols
      BY <2>2 DEF NextSymbol, Symbols
    <2>4. PICK q \in RuleNames \ {"accept"} : j = <<q, 1>>
      BY <2>1, <2>3 DEF Starts
    <2>5. Len(Rule[q]) \in 1 .. 10
      BY <2>4, RuleLength, Zenon
    <2>6. 1 \in 1 .. Len(Rule[q])
      BY <2>5, IntervalBounds, Zenon
    <2>7. j \in Items
      BY <2>4, <2>6, ItemForm, Zenon
    <2> QED  BY <2>4, <2>7, Zenon
  <1> QED  BY <1>1, <1>2

\* A state reached by a symbol has that symbol before each of its dots.
LEMMA GotoItems ==
  ASSUME NEW K \in SUBSET Items, NEW sym, NEW item \in Goto(K, sym)
  PROVE  /\ item \in Items
         /\ item[2] >= 2
         /\ Rule[item[1]][item[2]] = sym
         /\ \/ <<item[1], item[2] - 1>> \in K
            \/ item[2] = 2 /\ item[1] # "accept"
  <1>1. PICK j \in Open(Closure(K)) : NextSymbol(j) = sym /\ item = <<j[1], j[2] + 1>>
    BY DEF Goto
  <1>2. j \in Items /\ j[2] # Len(Rule[j[1]]) /\ (j \in K \/ (j[2] = 1 /\ j[1] # "accept"))
    BY <1>1, ClosureItems DEF Open, IsComplete
  <1>3. j = <<j[1], j[2]>> /\ j[1] \in RuleNames /\ j[2] \in 1 .. 10
    BY <1>2, ItemForm
  <1>4. j[2] + 1 <= Len(Rule[j[1]]) /\ Len(Rule[j[1]]) \in 1 .. 10
    BY <1>2, <1>3, ItemForm, RuleLength
  <1>5. item[1] = j[1] /\ item[2] = j[2] + 1 /\ <<item[1], item[2] - 1>> = j
    BY <1>1, <1>3
  <1>6. item \in Items
    BY <1>1, <1>3, <1>4, ItemForm
  <1> QED  BY <1>1, <1>2, <1>3, <1>5, <1>6 DEF NextSymbol

----------------------------------------------------------------------------
(***************************************************************************)
(* Facts about the states at the beginning and at the end of a text.       *)
(***************************************************************************)
\* The end of the file is the last symbol of a program and of the start rule, and
\* only the start rule has a program on its right-hand side.
LEMMA EofRules ==
  /\ \A r \in RuleNames : \A k \in 1 .. Len(Rule[r]) :
       /\ Rule[r][k] = "EOF" => r \in {"program", "accept"} /\ k = 3
       /\ Rule[r][k] = "program" => k = 1 \/ (r = "accept" /\ k = 2)
  /\ Rule["program"] = <<"program", "toplevel_stmt_list", "EOF">>
  /\ {"program", "accept"} \subseteq RuleNames
  <1> DEFINE Fine(rules) == \A r \in DOMAIN rules : \A k \in DOMAIN rules[r] :
               /\ rules[r][k] = "EOF" => r \in {"program", "accept"} /\ k = 3
               /\ rules[r][k] = "program" => k = 1 \/ (r = "accept" /\ k = 2)
  <1>1. Fine(AcceptRule)       BY DEF AcceptRule
  <1>2. Fine(StatementRules)   BY DEF StatementRules, error_statement
  <1>3. Fine(ControlRules)     BY DEF ControlRules
  <1>4. Fine(ExpressionRules)  BY DEF ExpressionRules
  <1>5. Fine(ScopeRules)       BY DEF ScopeRules
  <1>6. Rule["program"] = <<"program", "toplevel_stmt_list", "EOF">>
    BY SMTT(60) DEF Rule, RuleNames, AcceptRule, StatementRules, ControlRules,
                    ExpressionRules, ScopeRules, error_statement
  <1> QED  BY <1>1, <1>2, <1>3, <1>4, <1>5, <1>6, RuleCases, RuleLength, ActionRules

\* The rules that can be at the start of a program.
LEMMA ProgramBegins ==
  /\ \A r \in RuleNames : Lhs(r) # "EOF"
  /\ \A r \in RuleNames : Lhs(r) = "program" <=> r = "program"
  /\ \A r \in RuleNames : Lhs(r) = "toplevel_stmt_list" <=> r \in {"toplevel_none", "toplevel_more"}
  /\ {"toplevel_none", "toplevel_more"} \subseteq RuleNames
  /\ Rule["toplevel_none"] = <<"toplevel_stmt_list">>
  /\ Rule["toplevel_more"] = <<"toplevel_stmt_list", "toplevel_stmt_list", "toplevel_statement">>
  <1>1. \A r \in RuleNames : /\ Lhs(r) # "EOF"
                             /\ Lhs(r) = "program" <=> r = "program"
    BY SMTT(60) DEF Lhs, Rule, RuleNames, AcceptRule, StatementRules, ControlRules,
                    ExpressionRules, ScopeRules, error_statement
  <1>2. \A r \in RuleNames : Lhs(r) = "toplevel_stmt_list" <=> r \in {"toplevel_none", "toplevel_more"}
    BY SMTT(60) DEF Lhs, Rule, RuleNames, AcceptRule, StatementRules, ControlRules,
                    ExpressionRules, ScopeRules, error_statement
  <1>3. /\ {"toplevel_none", "toplevel_more"} \subseteq RuleNames
        /\ Rule["toplevel_none"] = <<"toplevel_stmt_list">>
        /\ Rule["toplevel_more"] = <<"toplevel_stmt_list", "toplevel_stmt_list", "toplevel_statement">>
    BY SMTT(60) DEF Rule, RuleNames, AcceptRule, StatementRules, ControlRules,
                    ExpressionRules, ScopeRules, error_statement
  <1> QED  BY <1>1, <1>2, <1>3

\* The steps to the symbols that can begin with s.
AreCorners(s, corners) ==
  corners = [n \in 0 .. 12 |-> IF n = 0 THEN {s} ELSE Begins(corners[n - 1])]

LEMMA CornersAre ==
  ASSUME NEW s \in Symbols
  PROVE  LeftCorners[s] = (CHOOSE corners : AreCorners(s, corners))[12]
  BY DEF LeftCorners, AreCorners

\* When a step adds nothing more, all symbols are found.
LEMMA ClosedCorners ==
  ASSUME NEW s \in Symbols, NEW C, Begins({s}) = C, Begins(C) = C
  PROVE  LeftCorners[s] = C
  <1> DEFINE steps == [n \in 0 .. 12 |-> IF n = 0 THEN {s} ELSE C]
  <1>1. AreCorners(s, steps)
    <2>1. ASSUME NEW n \in 0 .. 12
          PROVE  (IF n = 0 THEN {s} ELSE Begins(steps[n - 1])) = IF n = 0 THEN {s} ELSE C
      <3>1. CASE n = 0
        BY <3>1
      <3>2. CASE n = 1
        BY <3>2
      <3>3. CASE n \notin {0, 1}
        <4>1. n - 1 \in 0 .. 12 /\ n - 1 # 0
          BY <3>3
        <4>2. steps[n - 1] = C
          BY <4>1
        <4> QED  BY <3>3, <4>2
      <3> QED  BY <3>1, <3>2, <3>3
    <2>2. steps = [n \in 0 .. 12 |-> IF n = 0 THEN {s} ELSE Begins(steps[n - 1])]
      BY <2>1
    <2> QED  BY <2>2, Zenon DEF AreCorners
  <1> DEFINE corners == CHOOSE c : AreCorners(s, c)
  <1>2. AreCorners(s, corners)
    <2> HIDE DEF steps
    <2> QED  BY <1>1
  <1> HIDE DEF corners
  <1>3. /\ corners[0] = {s}
        /\ \A n \in 1 .. 12 : corners[n] = Begins(corners[n - 1])
    BY <1>2 DEF AreCorners
  <1>4. corners[1] = C
    <2>1. 1 \in 1 .. 12 /\ corners[1 - 1] = {s}
      BY <1>3
    <2> QED  BY <1>3, <2>1
  <1>5. \A n \in 2 .. 12 : corners[n - 1] = C => corners[n] = C
    BY <1>3
  <1>6. corners[12] = C
    BY <1>4, <1>5
  <1> QED  BY <1>6, CornersAre DEF corners

\* What can begin with a program, and with the end of the file.
LEMMA ProgramCorners ==
  /\ LeftCorners["program"] = {"program", "toplevel_stmt_list"}
  /\ LeftCorners["EOF"] = {"EOF"}
  <1>1. "EOF" \in Symbols /\ "program" \in Symbols
    BY EofIsTerminal, TerminalSymbols, ActionRules, LeftHandSides, ProgramBegins, EofRules
  <1>2. Begins({"EOF"}) = {"EOF"}
    BY ProgramBegins DEF Begins
  <1>3. /\ NextSymbol(<<"program", 1>>) = "toplevel_stmt_list"
        /\ NextSymbol(<<"toplevel_more", 1>>) = "toplevel_stmt_list"
        /\ Width("toplevel_none") = 0 /\ Width("program") > 0
    BY EofRules, ProgramBegins DEF NextSymbol, Width
  <1>4. Begins({"program"}) = {"program", "toplevel_stmt_list"}
    <2>1. {q \in RuleNames : Lhs(q) \in {"program"} /\ Width(q) > 0} = {"program"}
      BY <1>3, ProgramBegins, EofRules
    <2>2. {NextSymbol(<<r, 1>>) : r \in {"program"}} = {"toplevel_stmt_list"}
      BY <1>3
    <2>3. Begins({"program"}) = {"program"} \cup {NextSymbol(<<r, 1>>) : r \in {"program"}}
      BY <2>1, Zenon DEF Begins
    <2> QED  BY <2>2, <2>3
  <1>5. Begins({"program", "toplevel_stmt_list"}) = {"program", "toplevel_stmt_list"}
    <2> DEFINE Q == {q \in RuleNames : Lhs(q) \in {"program", "toplevel_stmt_list"} /\ Width(q) > 0}
    <2>1. Q \subseteq {"program", "toplevel_more"}
      BY <1>3, ProgramBegins
    <2>2. \A q \in Q : NextSymbol(<<q, 1>>) = "toplevel_stmt_list"
      BY <1>3, <2>1
    <2> HIDE DEF Q
    <2>3. {NextSymbol(<<q, 1>>) : q \in Q} \subseteq {"toplevel_stmt_list"}
      BY <2>2
    <2> QED  BY <2>3 DEF Begins, Q
  <1> QED  BY <1>1, <1>2, <1>4, <1>5, ClosedCorners

\* The kernel items of a state behind the end of the file.
LastItems == {<<"program", 3>>, <<"accept", 3>>}

\* Behind the end of the file nothing is read before a reduction ...
LEMMA LastState ==
  ASSUME NEW K \in SUBSET LastItems
  PROVE  /\ Closure(K) = K /\ Expected(K) = {} /\ ~NeedsLookahead(K)
         /\ Completed(K) \subseteq {"program", "accept"}
  <1>1. \A i \in K : IsComplete(i) /\ i[1] \in {"program", "accept"}
    <2>1. Len(Rule["program"]) = 3 /\ Len(Rule["accept"]) = 3
      BY EofRules, ActionRules
    <2>2. IsComplete(<<"program", 3>>) /\ IsComplete(<<"accept", 3>>)
      BY <2>1 DEF IsComplete
    <2> QED  BY <2>2 DEF LastItems
  <1>2. Open(K) = {}
    BY <1>1 DEF Open
  <1>3. Closure(K) = K
    BY <1>2 DEF Closure
  <1> QED  BY <1>1, <1>2, <1>3 DEF Expected, NeedsLookahead, Completed

\* ... and behind a program only the end of the file is.
LEMMA AcceptState ==
  ASSUME NEW K \in SUBSET {<<"accept", 2>>}
  PROVE  /\ Completed(K) = {}
         /\ Expected(K) = IF K = {} THEN {} ELSE {"EOF"}
  <1>1. \A i \in K : i = <<"accept", 2>> /\ ~IsComplete(i) /\ NextSymbol(i) = "EOF"
    <2>1. Len(Rule["accept"]) = 3 /\ Rule["accept"][3] = "EOF"
      BY ActionRules
    <2>2. ~IsComplete(<<"accept", 2>>) /\ NextSymbol(<<"accept", 2>>) = "EOF"
      BY <2>1 DEF IsComplete, NextSymbol
    <2> QED  BY <2>2
  <1>2. Open(K) = K
    BY <1>1 DEF Open
  <1>3. Starts["EOF"] = {}
    BY ProgramCorners, ProgramBegins, EofIsTerminal, TerminalSymbols DEF Starts
  <1>4. Closure(K) = K
    BY <1>1, <1>2, <1>3 DEF Closure
  <1>5. Expected(K) = {NextSymbol(i) : i \in K}
    BY <1>2, <1>4 DEF Expected
  <1>6. Completed(K) = {}
    BY <1>1, <1>4 DEF Completed
  <1> QED  BY <1>1, <1>5, <1>6

\* The states these symbols lead to.
LEMMA EofGotos ==
  ASSUME NEW K \in SUBSET Items
  PROVE  /\ Goto(K, "EOF") \subseteq LastItems
         /\ Goto(K, "program") \subseteq {<<"accept", 2>>}
  <1>1. ASSUME NEW item \in Goto(K, "EOF") PROVE item \in LastItems
    <2>1. item \in Items /\ Rule[item[1]][item[2]] = "EOF"
      BY GotoItems
    <2>2. item = <<item[1], item[2]>> /\ item[1] \in RuleNames /\ item[2] \in 1 .. Len(Rule[item[1]])
      BY <2>1, ItemForm
    <2>3. item[1] \in {"program", "accept"} /\ item[2] = 3
      BY <2>1, <2>2, EofRules
    <2> QED  BY <2>2, <2>3 DEF LastItems
  <1>2. ASSUME NEW item \in Goto(K, "program") PROVE item = <<"accept", 2>>
    <2>1. item \in Items /\ Rule[item[1]][item[2]] = "program" /\ item[2] >= 2
      BY GotoItems
    <2>2. item = <<item[1], item[2]>> /\ item[1] \in RuleNames /\ item[2] \in 1 .. Len(Rule[item[1]])
      BY <2>1, ItemForm
    <2>3. item[2] # 1
      BY <2>1
    <2>4. item[1] = "accept" /\ item[2] = 2
      BY <2>1, <2>2, <2>3, EofRules
    <2> QED  BY <2>2, <2>4
  <1> QED  BY <1>1, <1>2

\* The first states: with nothing read, the parser makes an empty list and then
\* asks for the first token, which may be the end of the file.
LEMMA FirstStates ==
  /\ ~NeedsLookahead(StartState) /\ Completed(StartState) = {"toplevel_none"}
  /\ CanShift(Goto(StartState, "toplevel_stmt_list"), "EOF")
  /\ NeedsLookahead(Goto(StartState, "toplevel_stmt_list"))
  <1>1. Starts["program"] = {<<"program", 1>>, <<"toplevel_none", 1>>, <<"toplevel_more", 1>>}
    <2>1. {q \in RuleNames \ {"accept"} : Lhs(q) \in {"program", "toplevel_stmt_list"}}
            = {"program", "toplevel_none", "toplevel_more"}
      BY ProgramBegins, EofRules
    <2>2. "program" \in Symbols
      BY LeftHandSides, ProgramBegins, EofRules
    <2> QED  BY <2>1, <2>2, ProgramCorners DEF Starts
  <1>2. Open(StartState) = StartState /\ NextSymbol(<<"accept", 1>>) = "program"
    BY ActionRules DEF Open, StartState, IsComplete, NextSymbol
  <1>3. Closure(StartState) = {<<"accept", 1>>, <<"program", 1>>, <<"toplevel_none", 1>>, <<"toplevel_more", 1>>}
    BY <1>1, <1>2 DEF Closure, StartState
  <1>4. Open(Closure(StartState)) = {<<"accept", 1>>, <<"program", 1>>, <<"toplevel_more", 1>>}
    BY <1>3, ActionRules, EofRules, ProgramBegins DEF Open, IsComplete
  <1>5. /\ NextSymbol(<<"program", 1>>) = "toplevel_stmt_list"
        /\ NextSymbol(<<"toplevel_more", 1>>) = "toplevel_stmt_list"
    BY EofRules, ProgramBegins DEF NextSymbol
  <1>6. Expected(StartState) = {"program", "toplevel_stmt_list"}
    BY <1>2, <1>4, <1>5 DEF Expected
  <1>7. ~NeedsLookahead(StartState)
    <2>1. "toplevel_stmt_list" \in Nonterminals /\ "program" \in Nonterminals
      BY ProgramBegins, EofRules DEF Nonterminals
    <2> QED  BY <1>6, <2>1 DEF NeedsLookahead, Terminals
  <1>8. Completed(StartState) = {"toplevel_none"}
    <2>1. {j \in Closure(StartState) : IsComplete(j)} = {<<"toplevel_none", 1>>}
      BY <1>3, ActionRules, EofRules, ProgramBegins DEF IsComplete
    <2>2. Completed(StartState) = {i[1] : i \in {<<"toplevel_none", 1>>}}
      BY <2>1, Zenon DEF Completed
    <2> QED  BY <2>2
  <1>9. <<"program", 2>> \in Goto(StartState, "toplevel_stmt_list")
    BY <1>4, <1>5 DEF Goto
  <1>10. "EOF" \in Expected(Goto(StartState, "toplevel_stmt_list"))
    <2>1. ~IsComplete(<<"program", 2>>) /\ NextSymbol(<<"program", 2>>) = "EOF"
      BY EofRules DEF IsComplete, NextSymbol
    <2> QED  BY <1>9, <2>1 DEF Expected, Open, Closure
  <1> QED  BY <1>7, <1>8, <1>10, EofIsTerminal DEF CanShift, NeedsLookahead
----------------------------------------------------------------------------
(***************************************************************************)
(* Facts about the states behind an error token.                           *)
(***************************************************************************)
\* An error token is never the last symbol of a rule, and a token is what can
\* come behind it, or a block.
LEMMA BehindError ==
  \A r \in RuleNames : \A k \in 1 .. Len(Rule[r]) :
    Rule[r][k] = "error" => /\ k + 1 \in 1 .. Len(Rule[r])
                           /\ Rule[r][k + 1] \in {"SEMICOLON", "RIGHT_PAREN", "block_expr"}
  <1> DEFINE Fine(rules) == \A r \in DOMAIN rules : \A k \in DOMAIN rules[r] :
               rules[r][k] = "error" => /\ k + 1 \in DOMAIN rules[r]
                                       /\ rules[r][k + 1] \in {"SEMICOLON", "RIGHT_PAREN", "block_expr"}
  <1>1. Fine(AcceptRule)       BY DEF AcceptRule
  <1>2. Fine(StatementRules)   BY DEF StatementRules, error_statement
  <1>3. Fine(ControlRules)     BY DEF ControlRules
  <1>4. Fine(ExpressionRules)  BY DEF ExpressionRules
  <1>5. Fine(ScopeRules)       BY DEF ScopeRules
  <1>6. \A r \in RuleNames : \A k \in 1 .. Len(Rule[r]) :
          Rule[r][k] = "error" => /\ k + 1 \in 1 .. Len(Rule[r])
                                 /\ Rule[r][k + 1] \in {"SEMICOLON", "RIGHT_PAREN", "block_expr"}
    <2> SUFFICES ASSUME NEW r \in RuleNames
                 PROVE  \A k \in 1 .. Len(Rule[r]) :
                          Rule[r][k] = "error" =>
                            /\ k + 1 \in 1 .. Len(Rule[r])
                            /\ Rule[r][k + 1] \in {"SEMICOLON", "RIGHT_PAREN", "block_expr"}
      OBVIOUS
    <2>1. DOMAIN Rule[r] = 1 .. Len(Rule[r])
      BY RuleLength
    <2>2. \A k \in DOMAIN Rule[r] :
            Rule[r][k] = "error" => /\ k + 1 \in DOMAIN Rule[r]
                                   /\ Rule[r][k + 1] \in {"SEMICOLON", "RIGHT_PAREN", "block_expr"}
      BY <1>1, <1>2, <1>3, <1>4, <1>5, RuleCases
    <2> QED  BY <2>1, <2>2
  <1> QED  BY <1>6

\* The rules of the symbols that come there.
LEMMA ErrorStarts ==
  /\ \A r \in RuleNames : Lhs(r) \notin {"SEMICOLON", "RIGHT_PAREN", "LEFT_BRACE"}
  /\ \A r \in RuleNames : Lhs(r) = "block_expr" => r = "block_expr"
  /\ Rule["block_expr"] = <<"block_expr", "LEFT_BRACE", "$@1", "stmt_list", "RIGHT_BRACE">>
  <1>1. \A r \in RuleNames : Lhs(r) \notin {"SEMICOLON", "RIGHT_PAREN", "LEFT_BRACE"}
    BY SMTT(60) DEF Lhs, Rule, RuleNames, AcceptRule, StatementRules, ControlRules,
                    ExpressionRules, ScopeRules, error_statement
  <1>2. \A r \in RuleNames : Lhs(r) = "block_expr" => r = "block_expr"
    BY SMTT(60) DEF Lhs, Rule, RuleNames, AcceptRule, StatementRules, ControlRules,
                    ExpressionRules, ScopeRules, error_statement
  <1>3. Rule["block_expr"] = <<"block_expr", "LEFT_BRACE", "$@1", "stmt_list", "RIGHT_BRACE">>
    BY SMTT(60) DEF Rule, RuleNames, AcceptRule, StatementRules, ControlRules,
                    ExpressionRules, ScopeRules, error_statement
  <1> QED  BY <1>1, <1>2, <1>3

\* The rules that can begin there are not empty.
LEMMA ErrorCorners ==
  ASSUME NEW s \in {"SEMICOLON", "RIGHT_PAREN", "block_expr"}, s \in Symbols,
         NEW item \in Starts[s]
  PROVE  ~IsComplete(item)
  <1>0. Starts[s] = {<<r, 1>> : r \in {q \in RuleNames \ {"accept"} : Lhs(q) \in LeftCorners[s]}}
    BY DEF Starts
  <1>1. CASE s \in {"SEMICOLON", "RIGHT_PAREN"}
    <2>1. \A q \in RuleNames : Lhs(q) # s
      BY <1>1, ErrorStarts
    <2>2. {q \in RuleNames : Lhs(q) \in {s} /\ Width(q) > 0} = {}
      BY <2>1
    <2>3. Begins({s}) = {s} \cup {NextSymbol(<<r, 1>>) : r \in {}}
      BY <2>2, Zenon DEF Begins
    <2>4. Begins({s}) = {s}
      BY <2>3
    <2>5. LeftCorners[s] = {s}
      BY <2>4, ClosedCorners
    <2> QED  BY <1>0, <2>1, <2>5
  <1>2. CASE s = "block_expr"
    <2> DEFINE C == {"block_expr", "LEFT_BRACE"}
    <2>1. /\ NextSymbol(<<"block_expr", 1>>) = "LEFT_BRACE" /\ Width("block_expr") > 0
          /\ Len(Rule["block_expr"]) = 5 /\ "block_expr" \in RuleNames
          /\ Lhs("block_expr") = "block_expr"
      BY ErrorStarts, ActionRules DEF NextSymbol, Width, Lhs
    <2>2. {q \in RuleNames : Lhs(q) \in {"block_expr"} /\ Width(q) > 0} = {"block_expr"}
      BY <2>1, ErrorStarts
    <2>3. {q \in RuleNames : Lhs(q) \in C /\ Width(q) > 0} = {"block_expr"}
      <3>1. \A q \in RuleNames : Lhs(q) \in C => q = "block_expr"
        BY ErrorStarts
      <3> QED  BY <2>1, <3>1
    <2>4. {NextSymbol(<<r, 1>>) : r \in {"block_expr"}} = {"LEFT_BRACE"}
      BY <2>1
    <2>5. Begins({"block_expr"}) = {"block_expr"} \cup {NextSymbol(<<r, 1>>) : r \in {"block_expr"}}
      BY <2>2, Zenon DEF Begins
    <2>6. Begins(C) = C \cup {NextSymbol(<<r, 1>>) : r \in {"block_expr"}}
      BY <2>3, Zenon DEF Begins
    <2>7. Begins({"block_expr"}) = C /\ Begins(C) = C
      BY <2>4, <2>5, <2>6
    <2>8. LeftCorners[s] = C
      BY <1>2, <2>7, ClosedCorners
    <2>9. item = <<"block_expr", 1>>
      <3>1. PICK q \in RuleNames : item = <<q, 1>> /\ Lhs(q) \in C
        BY <1>0, <2>8
      <3> QED  BY <3>1, ErrorStarts
    <2> QED  BY <2>1, <2>9 DEF IsComplete
  <1> QED  BY <1>1, <1>2

\* So a state behind an error token reduces nothing.
LEMMA ErrorGotos ==
  ASSUME NEW K \in SUBSET Items
  PROVE  Completed(Goto(K, "error")) = {}
  <1>1. ASSUME NEW item \in Goto(K, "error")
        PROVE  /\ ~IsComplete(item)
               /\ NextSymbol(item) \in {"SEMICOLON", "RIGHT_PAREN", "block_expr"}
               /\ NextSymbol(item) \in Symbols
    <2>1. item \in Items /\ Rule[item[1]][item[2]] = "error"
      BY GotoItems
    <2>2. /\ item[1] \in RuleNames /\ item[2] \in 1 .. Len(Rule[item[1]])
          /\ Len(Rule[item[1]]) \in 1 .. 10
      BY <2>1, ItemForm, RuleLength
    <2>3. item[2] + 1 \in 1 .. Len(Rule[item[1]])
      BY <2>1, <2>2, BehindError
    <2>4. item[2] # Len(Rule[item[1]])
      BY <2>2, <2>3
    <2>5. Rule[item[1]][item[2] + 1] \in Symbols
      BY <2>2, <2>3 DEF Symbols
    <2> QED  BY <2>1, <2>2, <2>4, <2>5, BehindError DEF IsComplete, NextSymbol
  <1>2. ASSUME NEW item \in Closure(Goto(K, "error"))
        PROVE  ~IsComplete(item)
    <2>1. CASE item \in Goto(K, "error")
      BY <1>1, <2>1
    <2>2. CASE item \notin Goto(K, "error")
      <3>1. PICK i \in Goto(K, "error") : item \in Starts[NextSymbol(i)]
        BY <2>2 DEF Closure, Open
      <3> QED  BY <1>1, <3>1, ErrorCorners
    <2> QED  BY <2>1, <2>2
  <1> QED  BY <1>2 DEF Completed

\* NoToken is not a token of the grammar.
LEMMA NoneIsNoSymbol == "none" \notin Symbols
  <1> DEFINE Fine(rules) == \A r \in DOMAIN rules : \A k \in DOMAIN rules[r] : rules[r][k] # "none"
  <1>1. Fine(AcceptRule)       BY DEF AcceptRule
  <1>2. Fine(StatementRules)   BY DEF StatementRules, error_statement
  <1>3. Fine(ControlRules)     BY DEF ControlRules
  <1>4. Fine(ExpressionRules)  BY DEF ExpressionRules
  <1>5. Fine(ScopeRules)       BY DEF ScopeRules
  <1>6. \A r \in RuleNames : \A k \in 1 .. Len(Rule[r]) : Rule[r][k] # "none"
    BY <1>1, <1>2, <1>3, <1>4, <1>5, RuleCases, RuleLength
  <1> QED  BY <1>6 DEF Symbols
==================================================================================
