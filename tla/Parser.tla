---------------------------------- MODULE Parser ----------------------------------
(***************************************************************************)
(* The parser of the frontend: the LALR(1) machine of the Bison skeleton   *)
(* lalr1.cc, run on the grammar of module Grammar, with the semantic       *)
(* actions of frontend/src/parser.y on the symbol table of module Scope    *)
(* and on the error collector, and the use that driver.cpp makes of the    *)
(* result.                                                                 *)
(*                                                                         *)
(* The program text is chosen while it is read.  The AST is kept as the    *)
(* set of string_views its nodes hold and as the fact that a statement is  *)
(* missing from it.                                                        *)
(***************************************************************************)
EXTENDS Grammar, Scope, FiniteSets

CONSTANTS
  NoName,        \* the semantic value of a token that is no identifier
  Units,         \* the lexical units a program may consist of
  MaxTokens      \* bound: the number of units read before the end of file

\* "unknown" is a character no rule of lexer.l matches, "huge" a number
\* that does not fit an int.
ASSUME ParserAssumption ==
  /\ NoName \notin Names
  /\ Units \subseteq (Terminals \ {"EOF"}) \cup {"unknown", "huge"}
  /\ MaxTokens \in Nat

VARIABLES
  stack,         \* the parser stack
  yyla,          \* the lookahead token, NoToken when it is empty
  yyerrstatus_,  \* tokens to shift before the next syntax error is reported
  errors_,       \* the kinds of the errors in error_collector
  views,         \* the string_views held by AST nodes
  root,          \* TRUE when the Program node is made
  dropped,       \* TRUE when a statement has no node of its own in the AST
  input,         \* what is known of the text: units read, how it went on
  phase          \* how far driver() is

vars == <<scopes_, archived_, stack, yyla, yyerrstatus_, errors_, views, root,
          dropped, input, phase>>

astVars == <<views, root, dropped>>

----------------------------------------------------------------------------
\* A stack entry: the LR state, the symbol, the identifier it carries, and
\* for a mid-rule marker the table that was pushed with it (a history field).
Entry(state, sym, name, table) ==
  [state |-> state, sym |-> sym, name |-> name, table |-> table]

Token(sym, name) == [sym |-> sym, name |-> name]
NoToken          == Token("none", NoName)

Height == Len(stack)
Top    == stack[Height].state

Init ==
  /\ ScopeInit
  /\ stack = <<Entry(StartState, "$accept", NoName, 0)>>
  /\ yyla = NoToken
  /\ yyerrstatus_ = 0
  /\ errors_ = {}
  /\ views = {}
  /\ root = FALSE
  /\ dropped = FALSE
  /\ input = [read |-> 0, eof |-> FALSE, unknown |-> FALSE]
  /\ phase = "parsing"

----------------------------------------------------------------------------
(***************************************************************************)
(* yylex: the lookahead is fetched when the top state needs one.           *)
(***************************************************************************)
Fetching ==
  /\ phase = "parsing"
  /\ yyla = NoToken
  /\ NeedsLookahead(Top)
  /\ UNCHANGED <<scopeVars, stack, yyerrstatus_, errors_, astVars>>

NextUnit(u) ==
  /\ u \in Units
  /\ ~input.eof
  /\ input.read < MaxTokens

ReadToken ==
  /\ Fetching
  /\ \E u \in Units \ {"unknown", "huge"} :
        /\ NextUnit(u)
        /\ \E n \in IF u = "ID" THEN Names ELSE {NoName} :
              yyla' = Token(u, n)
  /\ input' = [input EXCEPT !.read = @ + 1]
  /\ UNCHANGED phase

\* The lexer returns -1, and yytranslate_ maps every number below 1 to the
\* end of file.  The next call goes on behind the character.
ReadUnknown ==
  /\ Fetching
  /\ NextUnit("unknown")
  /\ yyla' = Token("EOF", NoName)
  /\ input' = [input EXCEPT !.read = @ + 1, !.unknown = TRUE]
  /\ UNCHANGED phase

\* A faulty variant: the exception is caught, and yylex returns 0.
ReadHugeAsEnd ==
  /\ Fetching
  /\ NextUnit("huge")
  /\ yyla' = Token("EOF", NoName)
  /\ input' = [input EXCEPT !.read = @ + 1]
  /\ UNCHANGED phase

\* std::stoi throws out_of_range; parse() rethrows and so does driver().
ReadHuge ==
  /\ Fetching
  /\ NextUnit("huge")
  /\ input' = [input EXCEPT !.read = @ + 1]
  /\ phase' = "exception"
  /\ UNCHANGED yyla

ReadEof ==
  /\ Fetching
  /\ yyla' = Token("EOF", NoName)
  /\ input' = [input EXCEPT !.eof = TRUE]
  /\ UNCHANGED phase

----------------------------------------------------------------------------
(***************************************************************************)
(* The LR machine: shift, reduce by the default rule, accept.              *)
(***************************************************************************)
\* Pop the stack down to its first below entries and push a symbol.
PushFrom(below, sym, name, table) ==
  stack' = Append(SubSeq(stack, 1, below),
                  Entry(Goto(stack[below].state, sym), sym, name, table))

\* A faulty variant: the count is not kept at zero.
ShiftUncounted ==
  /\ phase = "parsing"
  /\ yyla # NoToken
  /\ CanShift(Top, yyla.sym)
  /\ PushFrom(Height, yyla.sym, yyla.name, 0)
  /\ yyla' = NoToken
  /\ yyerrstatus_' = yyerrstatus_ - 1
  /\ UNCHANGED <<scopeVars, errors_, astVars, input, phase>>

Shift ==
  /\ phase = "parsing"
  /\ yyla # NoToken
  /\ CanShift(Top, yyla.sym)
  /\ PushFrom(Height, yyla.sym, yyla.name, 0)
  /\ yyla' = NoToken
  /\ yyerrstatus_' = IF yyerrstatus_ = 0 THEN 0 ELSE yyerrstatus_ - 1
  /\ UNCHANGED <<scopeVars, errors_, astVars, input, phase>>

\* The rule to reduce by, if the lookahead does not say otherwise.
Reducible ==
  IF phase = "parsing"
     /\ (NeedsLookahead(Top) => yyla # NoToken /\ ~CanShift(Top, yyla.sym))
  THEN Completed(Top) ELSE {}

\* Reducing by rule r takes its right-hand side off the stack; table marks
\* the new entry.  The state below the right-hand side always has a
\* transition on the left-hand side.
Reduce(r, table) ==
  /\ PushFrom(Height - Width(r), Lhs(r), NoName, table)
  /\ UNCHANGED <<yyla, input, phase>>

Accept ==
  /\ "accept" \in Reducible
  /\ phase' = "accepted"
  /\ UNCHANGED <<scopeVars, stack, yyla, yyerrstatus_, errors_, astVars, input>>

----------------------------------------------------------------------------
(***************************************************************************)
(* The semantic actions.                                                   *)
(***************************************************************************)
\* A faulty variant: the parameters of a function go into the table around it.
OpenScopeOfBlock ==
  /\ \/ "open_block" \in Reducible /\ Reduce("open_block", FreshTable) /\ push
     \/ "open_func" \in Reducible /\ Reduce("open_func", FreshTable) /\ UNCHANGED scopeVars
  /\ UNCHANGED <<yyerrstatus_, errors_, astVars>>

\* The mid-rule actions of block_expr and function_expr.
OpenScope ==
  /\ \E r \in Reducible \cap {"open_block", "open_func"} : Reduce(r, FreshTable)
  /\ push
  /\ UNCHANGED <<yyerrstatus_, errors_, astVars>>

\* The final actions of block_expr and function_expr.
CloseScope ==
  /\ \E r \in Reducible \cap {"block_expr", "func"} : Reduce(r, 0)
  /\ pop
  /\ UNCHANGED <<yyerrstatus_, errors_, astVars>>

\* A parameter or the name of a function: add_var_to_scope.
Declare ==
  LET name == stack[Height].name
  IN  /\ \E r \in Reducible \cap {"param_first", "param_more", "name_some"} : Reduce(r, 0)
      /\ add_variable(name)
      /\ views' = views \cup {AddedView(name)}
      /\ UNCHANGED <<yyerrstatus_, errors_, root, dropped>>

\* ID = expression declares the name unless lookup finds it.
Assign ==
  LET name == stack[Height - 2].name
  IN  /\ "assign" \in Reducible
      /\ Reduce("assign", 0)
      /\ add_variable(name)
      /\ views' = views \cup {AddedView(name)}
      /\ UNCHANGED <<yyerrstatus_, errors_, root, dropped>>

\* A use of a name no open table has is an error; the name is then declared,
\* so that it is reported once.
Use ==
  LET name == stack[Height].name
  IN  /\ "variable" \in Reducible
      /\ Reduce("variable", 0)
      /\ errors_' = IF find(name) THEN errors_ ELSE errors_ \cup {"undeclared"}
      /\ add_variable(name)
      /\ views' = views \cup {AddedView(name)}
      /\ UNCHANGED <<yyerrstatus_, root, dropped>>

\* A faulty variant: "}" at top level is passed over in silence.
UnmatchedBraceIgnored ==
  /\ "toplevel_brace" \in Reducible
  /\ Reduce("toplevel_brace", 0)
  /\ dropped' = TRUE
  /\ UNCHANGED <<scopeVars, yyerrstatus_, errors_, views, root>>

\* "}" at top level: the rule sets no $$, and a null Statement is appended.
UnmatchedBrace ==
  /\ "toplevel_brace" \in Reducible
  /\ Reduce("toplevel_brace", 0)
  /\ errors_' = errors_ \cup {"unmatched"}
  /\ dropped' = TRUE
  /\ UNCHANGED <<scopeVars, yyerrstatus_, views, root>>

\* A faulty variant: a recovery closes the innermost scope, as if the error had
\* always kept a block from closing its own.
RecoverStatementClosing ==
  /\ \E r \in Reducible \cap ErrorRules : Reduce(r, 0)
  /\ yyerrstatus_' = 0
  /\ dropped' = TRUE
  /\ IF Len(scopes_) > 1 THEN pop ELSE UNCHANGED scopeVars
  /\ UNCHANGED <<errors_, views, root>>

\* The rules with an error token: yyerrok, and an Empty_stmt.
RecoverStatement ==
  /\ \E r \in Reducible \cap ErrorRules : Reduce(r, 0)
  /\ yyerrstatus_' = 0
  /\ dropped' = TRUE
  /\ UNCHANGED <<scopeVars, errors_, views, root>>

MakeProgram ==
  /\ "program" \in Reducible
  /\ Reduce("program", 0)
  /\ root' = TRUE
  /\ UNCHANGED <<scopeVars, yyerrstatus_, errors_, views, dropped>>

\* Every other rule only makes a node from the nodes of its right-hand side.
PlainRules ==
  RuleNames \ ({"accept", "program", "open_block", "open_func", "block_expr", "func",
                "param_first", "param_more", "name_some", "assign", "variable",
                "toplevel_brace"} \cup ErrorRules)

MakeNode ==
  /\ \E r \in Reducible \cap PlainRules : Reduce(r, 0)
  /\ UNCHANGED <<scopeVars, yyerrstatus_, errors_, astVars>>

----------------------------------------------------------------------------
(***************************************************************************)
(* yyerrlab: the lookahead can neither be shifted nor reduced on.  The     *)
(* error is reported unless one is being recovered from; a lookahead that  *)
(* fails right behind an error token is discarded, the end of file aborts. *)
(* Then states are popped up to one that shifts the error token; popping   *)
(* runs no semantic action, so no scope is popped.                         *)
(***************************************************************************)
Stuck ==
  /\ phase = "parsing"
  /\ yyla # NoToken
  /\ ~CanShift(Top, yyla.sym)
  /\ Completed(Top) = {}

\* A faulty variant: only what follows a first error is reported.
ReportLate ==
  errors_' = IF yyerrstatus_ = 3 THEN errors_ \cup {"syntax"} ELSE errors_

Report ==
  errors_' = IF yyerrstatus_ = 0 THEN errors_ \cup {"syntax"} ELSE errors_

AtEof == yyerrstatus_ = 3 /\ yyla.sym = "EOF"

CanRecoverAt(i) == CanShift(stack[i].state, "error")

\* A faulty variant: a lookahead that fails behind an error token is tried again.
RecoverRetrying ==
  /\ Stuck /\ Report /\ ~AtEof
  /\ \E i \in 1 .. Height :
        /\ CanRecoverAt(i)
        /\ \A j \in i + 1 .. Height : ~CanRecoverAt(j)
        /\ PushFrom(i, "error", NoName, 0)
  /\ yyerrstatus_' = 3
  /\ UNCHANGED <<yyla, scopeVars, astVars, input, phase>>

Recover ==
  /\ Stuck /\ Report /\ ~AtEof
  /\ \E i \in 1 .. Height :
        /\ CanRecoverAt(i)
        /\ \A j \in i + 1 .. Height : ~CanRecoverAt(j)
        /\ PushFrom(i, "error", NoName, 0)
  /\ yyla' = IF yyerrstatus_ = 3 THEN NoToken ELSE yyla
  /\ yyerrstatus_' = 3
  /\ UNCHANGED <<scopeVars, astVars, input, phase>>

Abort ==
  /\ Stuck /\ Report
  /\ AtEof \/ \A i \in 1 .. Height : ~CanRecoverAt(i)
  /\ phase' = "aborted"
  /\ UNCHANGED <<scopeVars, stack, yyla, yyerrstatus_, astVars, input>>

----------------------------------------------------------------------------
\* driver(): print the errors and throw, throw, or go on to the simulator or
\* the code generator.
Driver ==
  /\ phase \in {"accepted", "aborted"}
  /\ phase' = IF errors_ # {} THEN "failed"
              ELSE IF phase = "aborted" THEN "unknown error" ELSE "compiling"
  /\ UNCHANGED <<scopeVars, stack, yyla, yyerrstatus_, errors_, astVars, input>>

Final == {"failed", "unknown error", "compiling", "exception"}

Done == phase \in Final /\ UNCHANGED vars

Next ==
  \/ ReadToken \/ ReadUnknown \/ ReadHuge \/ ReadEof
  \/ Shift \/ Accept
  \/ OpenScope \/ CloseScope \/ Declare \/ Assign \/ Use
  \/ UnmatchedBrace \/ RecoverStatement \/ MakeProgram \/ MakeNode
  \/ Recover \/ Abort
  \/ Driver \/ Done

Spec == Init /\ [][Next]_vars

\* parse() and driver() are one thread that runs to its end.
FairSpec == Spec /\ WF_vars(Next)

----------------------------------------------------------------------------
(***************************************************************************)
(* Properties.                                                             *)
(***************************************************************************)
Entries == [state : SUBSET Items, sym : Symbols, name : Names \cup {NoName}, table : Nat]

RegistersOK ==
  /\ yyla \in {NoToken} \cup [sym : Terminals, name : Names \cup {NoName}]
  /\ yyerrstatus_ \in 0 .. 3
  /\ errors_ \subseteq {"syntax", "undeclared", "unmatched"}
  /\ views \subseteq [table : Nat, name : Names]
  /\ root \in BOOLEAN
  /\ dropped \in BOOLEAN
  /\ input \in [read : 0 .. MaxTokens, eof : BOOLEAN, unknown : BOOLEAN]
  /\ phase \in {"parsing", "accepted", "aborted"} \cup Final

TypeOK ==
  /\ scopes_ \in Seq(Tables) /\ archived_ \in Seq(Tables)
  /\ stack \in Seq(Entries) /\ Height >= 1
  /\ RegistersOK

IsMarker(i) == stack[i].sym \in Markers

\* A recovery may leave a table open for too long, but the table of a block or
\* function that is still being parsed is never closed early, and the global
\* table is never closed: the branches of scope.hpp:30 and 54 that throw on an
\* empty stack are dead.
EnclosingScopesStayOpen ==
  /\ Len(scopes_) >= 1 /\ scopes_[1].id = 0
  /\ \A i \in 1 .. Height :
        IsMarker(i) => \E p \in 2 .. Len(scopes_) : scopes_[p].id = stack[i].table

\* No string_view in the AST outlives its table (scope.hpp:33 archives it).
NoDanglingView == \A v \in views : IsLive(v)

\* While nothing has gone wrong, the open tables are the global one and those
\* of the blocks and functions on the parser stack.
ScopesFollowText ==
  errors_ = {} => {scopes_[p].id : p \in 1 .. Len(scopes_)} =
                  {0} \cup {stack[i].table : i \in {j \in 1 .. Height : IsMarker(j)}}

\* What is handed to the simulator or the code generator is a whole program:
\* no null and no recovered statement, and only the global scope is open.
CompilesWholePrograms ==
  phase = "compiling" => root /\ ~dropped /\ Len(scopes_) = 1

\* A program is never rejected without a message: "unknown error"
\* (driver.cpp:34) cannot happen.
RejectionsAreReported ==
  /\ phase # "unknown error"
  /\ phase = "aborted" => errors_ # {}

\* The symbol table works like a map from names to levels of nesting, however
\* the parser drives it.
ImplementsDeclarations == Abstract!Spec

\* Parsing ends for every program, however many errors it recovers from.
Termination == <>(phase \in Final)

\* A recovery cannot go on for ever where it is, nor start over behind itself:
\* while it waits for a token that fits, nothing is reduced and yyerrok not
\* reached, and every step reads a token or uses one up.  Otherwise the token that
\* failed would be tried again with yyerrstatus_ at 0.
RecoveryUsesTokens ==
  [][yyerrstatus_ = 3 /\ phase' = "parsing" => (yyla = NoToken <=> yyla' # NoToken)]_vars

\* The table that was pushed with the marker of the block or function.
ScopeOf(r) == stack[Height - (IF r = "func" THEN 7 ELSE 2)].table

ClosesOwnScope ==
  \A r \in {"block_expr", "func"} :
     r \in Reducible /\ Len(archived_') > Len(archived_)
        => scopes_[Len(scopes_)].id = ScopeOf(r)

\* README.md:227: a closed block takes its own scope with it.
BlockClosesItsScope == [][ClosesOwnScope]_vars

\* This is so until the first error: every pop takes the table that was pushed
\* for the block or function that ends there, whatever was opened in it.
ClosesItsScopeUntilError == [][errors_ = {} => ClosesOwnScope]_vars

\* README.md:85, 112: a program is a StmtList up to __end_of_file__, so what
\* is compiled has been read to its end.
CompilesToEndOfFile == phase = "compiling" => input.eof

\* Only an unknown character can end a program early: whatever errors a parse
\* has recovered from and however often it has looked for the end (lines 158 and
\* 177), a text without one is not compiled before all of it was read.
OnlyUnknownEndsEarly == phase = "compiling" => input.eof \/ input.unknown

\* README.md:129: the errors that were collected are displayed.
CollectedIsDisplayed == phase = "exception" => errors_ = {}
==================================================================================
