----------------------------- MODULE MCScenario -----------------------------
(* Small instances of ScenarioPublish.  Requests are interchangeable.       *)
EXTENDS ScenarioPublish, TLC

Symmetry == Permutations(Req)
=============================================================================
