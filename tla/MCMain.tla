---------------------------------- MODULE MCMain ----------------------------------
(***************************************************************************)
(* An instance of Main for TLC: expressions and statements with everything *)
(* the lexer can do wrong, and a command line that can say all there is to *)
(* say.                                                                    *)
(***************************************************************************)
EXTENDS Main

Argument(text, form, behind) == [text |-> text, form |-> form, behind |-> behind]

SomeArguments ==
  {Argument("--", "--", ""), Argument("-o", "-o", ""), Argument("-O", "-O", ""),
   Argument("--output=", "-o=", ""), Argument("-oq.ll", "-o=", "q.ll"),
   Argument("-O3", "-O=", "3"), Argument("-x", "unknown", ""),
   Argument("", "file", ""), Argument("3", "file", "")}

\* The texts that may be an output name.
Extensions == [name \in {argument.text : argument \in SomeArguments} \cup {"q.ll"} |->
                 IF name = "q.ll" THEN name ELSE name \o ".ll"]

ExpressionUnits ==
  {"ID", "NUMBER", "ASSIGN", "BINARY", "SIGN", "INPUT", "LEFT_PAREN", "RIGHT_PAREN",
   "RIGHT_BRACE", "SEMICOLON", "PRINT", "RETURN", "huge", "unknown"}
===================================================================================
