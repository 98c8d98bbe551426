---------------------------- MODULE MCEngineTurn ----------------------------
(* Small instances of EngineTurn.                                           *)
EXTENDS EngineTurn

\* One tightens, one is none, one is worth a cap and one is worth three.
MCShifts == {-1, 0, 1, 3}
=============================================================================
