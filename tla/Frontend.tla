--------------------------------- MODULE Frontend ---------------------------------
(***************************************************************************)
(* The scanner and the parser together: the parser calls yylex when it     *)
(* needs a token, a call skips what comes before the token, and every      *)
(* syntax error is shown with the line of the file its location names      *)
(* (frontend/include/parser/my_parser.hpp, get_line_content).              *)
(***************************************************************************)
EXTENDS Parser, Lexer

frontendVars == <<vars, lexVars>>

FrontendInit == Init /\ LexInit

\* The scanner is in a call of yylex and has not reached the end of the text.
Scanning == Fetching /\ ~input.eof /\ Skip /\ UNCHANGED vars

GetToken   == (ReadToken \/ ReadHuge) /\ ReturnToken
GetUnknown == ReadUnknown /\ ReturnUnknown
GetEof     == ReadEof /\ ReturnEof

\* Everything the parser does between two calls of yylex.
Parsing ==
  /\ \/ Shift \/ Accept
     \/ OpenScope \/ CloseScope \/ Declare \/ Assign \/ Use
     \/ UnmatchedBrace \/ RecoverStatement \/ MakeProgram \/ MakeNode
     \/ Recover \/ Abort \/ Driver \/ Done
  /\ UNCHANGED lexVars

FrontendNext == Scanning \/ GetToken \/ GetUnknown \/ GetEof \/ Parsing

FrontendSpec == FrontendInit /\ [][FrontendNext]_frontendVars

----------------------------------------------------------------------------
(***************************************************************************)
(* Properties.                                                             *)
(***************************************************************************)
\* get_line_content is called for the first line of a lookahead that does not
\* fit, and for that of a "}" or an identifier that was shifted: the line is in
\* source_lines_ and the index is in range, also at the end of a text that ends
\* in a newline, where the scanner is one line behind the last.
ErrorLineExists ==
  yyla # NoToken /\ (yyla.sym # "EOF" \/ Stuck)
     => yylloc.begin.line \in 1 .. LinesSoFar

\* A location is never ahead of its token, and neither is the scanner of the
\* text, whatever comments it missed.
NeverAhead ==
  /\ yylineno <= at.line
  /\ yylloc.begin.line <= tokenAt.line

\* On a line without block comments and unknown characters the position of an
\* error is exact.
ColumnIsExact ==
  yyla # NoToken /\ yyla.sym # "EOF" /\ ~skewed
     => yylloc.begin.column = tokenAt.column /\ yylloc.end.column = at.column

\* README.md:118: the output has the line and the position where the error
\* occurred, at least where nothing before it has made the counters wrong (NeverAhead,
\* ColumnIsExact).
ReportsWhereItOccurred ==
  Stuck /\ yyerrstatus_ = 0 /\ yyla.sym # "EOF" /\ ~skewed /\ yylineno = at.line
     => yylloc.begin = tokenAt
==================================================================================
