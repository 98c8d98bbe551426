--------------------------- MODULE MCSessionTurns ---------------------------
(* Small instances of SessionTurns without its history.  Requests are       *)
(* interchangeable.                                                         *)
EXTENDS SessionTurns, TLC

Symmetry == Permutations(Req)

\* For liveness, one kind of session: new and logged.
LiveInit == Init /\ ~preview /\ base = <<>>
LiveSpec == LiveInit /\ [][Next]_vars /\ Fairness
=============================================================================
