-------------------------------- MODULE MCFrontend --------------------------------
(***************************************************************************)
(* Instances of Frontend for TLC.                                          *)
(***************************************************************************)
EXTENDS Frontend

\* Statements that are right, wrong in the middle, and wrong at the end.
LocationUnits == {"ID", "SEMICOLON", "RIGHT_BRACE", "PRINT", "unknown"}
==================================================================================
