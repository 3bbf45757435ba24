----------------------------- MODULE MCTriggers -----------------------------
(* Small instances of Triggers for TLC. *)
EXTENDS Triggers, TLC

CONSTANTS q1, q2, q3, q4, t1, t2, p1, p2

FourRequests == {q1, q2, q3, q4}
TwoTenants   == {t1, t2}
TwoPrints    == {p1, p2}

\* Requests are interchangeable, and so are tenants and fingerprints.
Symmetry == Permutations(FourRequests) \union Permutations(TwoTenants)
              \union Permutations(TwoPrints)
=============================================================================
