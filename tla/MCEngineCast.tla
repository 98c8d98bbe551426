---------------------------- MODULE MCEngineCast ----------------------------
(* Small instances of EngineCast.                                           *)
EXTENDS EngineCast
=============================================================================
