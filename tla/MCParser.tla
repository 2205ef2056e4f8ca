--------------------------------- MODULE MCParser ---------------------------------
(***************************************************************************)
(* Instances of Parser for TLC.  Each run takes the lexical units that     *)
(* drive one part of the grammar.                                          *)
(***************************************************************************)
EXTENDS Parser

Brackets == {"LEFT_BRACE", "RIGHT_BRACE", "LEFT_PAREN", "RIGHT_PAREN"}

\* Blocks, functions with parameters and names, variables.
ScopeUnits == Brackets \cup {"FUNC", "COMMA", "COLON", "SEMICOLON", "ID", "ASSIGN"}

\* Every rule with an error token, nested in each other, and cut short by what the
\* scanner does not know.
RecoveryUnits == Brackets \cup {"IF", "WHILE", "ELSE", "SEMICOLON", "NUMBER", "unknown", "huge"}

\* The units of the counterexamples.
LeakUnits    == {"LEFT_BRACE", "RIGHT_BRACE", "FUNC", "SEMICOLON"}
UnknownUnits == {"SEMICOLON", "NUMBER", "unknown"}
HugeUnits    == {"SEMICOLON", "NUMBER", "huge"}
==================================================================================
