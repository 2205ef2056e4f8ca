---------------------------------- MODULE Lexer ----------------------------------
(***************************************************************************)
(* Locations: the scanner of frontend/src/lexer.l with the counters of     *)
(* frontend/include/parser/lexer.hpp, and the location that yylex of       *)
(* frontend/src/parser.y gives to a token.                                 *)
(*                                                                         *)
(* One call of yylex skips spaces, newlines and comments and then returns  *)
(* a token, -1 for a character no rule matches, or the end of file.  Of    *)
(* the text only lengths matter here.  at, tokenAt and skewed follow the   *)
(* text itself; the code has no such variables.                            *)
(***************************************************************************)
EXTENDS Integers

CONSTANTS
  MaxLength,   \* bound: the length of a token, a space or a comment
  MaxLine,     \* bound: the lines of the text
  MaxColumn    \* bound: the columns of a line

ASSUME LexerAssumption ==
  MaxLength \in Nat \ {0} /\ MaxLine \in Nat \ {0} /\ MaxColumn \in Nat \ {0}

VARIABLES
  yylineno, yycolumn,  \* the counters of class Lexer
  line_before,         \* yylineno when the current call of yylex began
  yylloc,              \* the location of the last token
  at,                  \* where in the text the scanner is
  tokenAt,             \* where the last token began
  skewed               \* TRUE when this line has something yycolumn missed

lexVars == <<yylineno, yycolumn, line_before, yylloc, at, tokenAt, skewed>>

Position(line, column) == [line |-> line, column |-> column]
Location(begin, end)   == [begin |-> begin, end |-> end]

Lengths == 1 .. MaxLength

LexInit ==
  /\ yylineno = 1 /\ yycolumn = 1 /\ line_before = 1
  /\ yylloc = Location(Position(1, 1), Position(1, 1))
  /\ at = Position(1, 1) /\ tokenAt = Position(1, 1)
  /\ skewed = FALSE

\* The text goes on by n characters of this line.
Advance(n) ==
  /\ at.column + n <= MaxColumn
  /\ at' = [at EXCEPT !.column = @ + n]

----------------------------------------------------------------------------
(***************************************************************************)
(* What a call of yylex skips.                                             *)
(***************************************************************************)
\* Spaces and line comments: yycolumn += yyleng.
Blank ==
  /\ \E n \in Lengths : Advance(n) /\ yycolumn' = yycolumn + n
  /\ UNCHANGED <<yylineno, line_before, yylloc, tokenAt, skewed>>

\* A faulty variant: the column goes on over the end of the line.
NewlineKeepingColumn ==
  /\ at.line < MaxLine
  /\ at' = Position(at.line + 1, 1)
  /\ yylineno' = yylineno + 1
  /\ skewed' = FALSE
  /\ UNCHANGED <<yycolumn, line_before, yylloc, tokenAt>>

Newline ==
  /\ at.line < MaxLine
  /\ at' = Position(at.line + 1, 1)
  /\ yylineno' = yylineno + 1
  /\ yycolumn' = 1
  /\ skewed' = FALSE
  /\ UNCHANGED <<line_before, yylloc, tokenAt>>

\* A faulty variant: a block comment counts for one line, wherever it ends.
BlockCommentCounted ==
  /\ \/ \E n \in Lengths : Advance(n)
     \/ \E line \in at.line + 1 .. MaxLine, n \in Lengths : at' = Position(line, 1 + n)
  /\ yylineno' = yylineno + 1
  /\ skewed' = TRUE
  /\ UNCHANGED <<yycolumn, line_before, yylloc, tokenAt>>

\* The action of a block comment is empty: neither counter moves.
BlockComment ==
  /\ \/ \E n \in Lengths : Advance(n)
     \/ \E line \in at.line + 1 .. MaxLine, n \in Lengths : at' = Position(line, 1 + n)
  /\ skewed' = TRUE
  /\ UNCHANGED <<yylineno, yycolumn, line_before, yylloc, tokenAt>>

Skip == Blank \/ Newline \/ BlockComment

----------------------------------------------------------------------------
(***************************************************************************)
(* What a call of yylex returns.  n is yyleng.                             *)
(***************************************************************************)
\* A faulty variant: the line is asked for when the token has been scanned.
LocateLate(n) ==
  /\ yylloc' = Location(Position(yylineno, yycolumn' - n), Position(yylineno, yycolumn'))
  /\ line_before' = yylineno
  /\ tokenAt' = at
  /\ UNCHANGED yylineno

\* The line is that of the end of the previous token.  No rule that returns
\* moves yylineno, so the next call begins with the same line.
Locate(n) ==
  /\ yylloc' = Location(Position(line_before, yycolumn' - n), Position(yylineno, yycolumn'))
  /\ line_before' = yylineno
  /\ tokenAt' = at
  /\ UNCHANGED yylineno

ReturnToken ==
  /\ \E n \in Lengths : Advance(n) /\ yycolumn' = yycolumn + n /\ Locate(n)
  /\ UNCHANGED skewed

\* A character no rule matches: the column does not move, -1 is returned.
ReturnUnknown ==
  /\ Advance(1)
  /\ UNCHANGED yycolumn
  /\ Locate(1)
  /\ skewed' = TRUE

\* At the end of the text flex leaves a yyleng of 0 or 1.
ReturnEof ==
  /\ UNCHANGED <<at, yycolumn, skewed>>
  /\ \E n \in {0, 1} : Locate(n)

----------------------------------------------------------------------------
\* read_source: a line of the file is what ends in a newline, and a last one
\* without.
LinesSoFar == IF at.column > 1 THEN at.line ELSE at.line - 1
==================================================================================
