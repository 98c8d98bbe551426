------------------------------ MODULE MCLogins ------------------------------
(* Small instances of Logins.                                               *)
EXTENDS Logins

CONSTANTS t1, t2, r1, r2, r3

\* Two requests of one tab, of which one loads its page, and one of another tab,
\* which may also log in.
MCTabOf == [r \in {r1, r2, r3} |-> IF r = r3 THEN t2 ELSE t1]
MCKindsOf == [r \in {r1, r2, r3} |-> CASE r = r1 -> {"load"}
                                        [] r = r2 -> {"wrong"}
                                        [] r = r3 -> {"call", "login"}]
=============================================================================
