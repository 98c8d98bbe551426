---------------------------- MODULE MCTurnMedia -----------------------------
(* Small instances of TurnMedia.  Jobs are interchangeable.                 *)
EXTENDS TurnMedia, TLC

Symmetry == Permutations(Job)
=============================================================================
