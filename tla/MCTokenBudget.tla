---------------------------- MODULE MCTokenBudget ---------------------------
(* Small instances of TokenBudget, in units of 500 tokens.                  *)
EXTENDS TokenBudget, TLC

Symmetry == Permutations(Caller)
=============================================================================
