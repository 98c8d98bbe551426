----------------------------- MODULE MCPlayView -----------------------------
(* Small instances of PlayView.                                             *)
EXTENDS PlayView
=============================================================================
