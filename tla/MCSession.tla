----------------------------- MODULE MCSession ------------------------------
(* Small instances of SessionHistory.  Requests are interchangeable.        *)
EXTENDS SessionHistory, TLC

Symmetry == Permutations(Req)
=============================================================================
