---------------------------- MODULE MCPrefabGate ----------------------------
(* Small instances of PrefabGate.  Jobs are interchangeable.                *)
EXTENDS PrefabGate, TLC

Symmetry == Permutations(Job)
=============================================================================
