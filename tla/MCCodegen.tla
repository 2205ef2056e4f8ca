-------------------------------- MODULE MCCodegen --------------------------------
(***************************************************************************)
(* Instances of Codegen for TLC.                                           *)
(***************************************************************************)
EXTENDS Codegen
==================================================================================
