----------------------------- MODULE MCSeeding -----------------------------
(* Configurations for TLC: two tenants, three keys. *)
EXTENDS Seeding, TLC

CONSTANTS api1, api2

A(k) == [tenant |-> "a", name |-> "A", key |-> k]
B(k) == [tenant |-> "b", name |-> "B", key |-> k]

\* A configuration that grows at its end; tenant a has two keys.
Growing == {<<A("k1")>>, <<A("k1"), B("k2")>>, <<A("k1"), B("k2"), A("k3")>>}

\* Entries taken out, replaced, moved, repeated; a key given to another tenant, a
\* tenant renamed, one named in two ways.
Edited == {<<>>, <<A("k1"), B("k2")>>, <<B("k2"), A("k1")>>, <<A("k3")>>, <<B("k1"), B("k2")>>,
           <<A("k1"), A("k1")>>, <<[A("k1") EXCEPT !.name = "A2"], A("k2")>>}

Deployed == Growing \cup Edited

\* The API processes are interchangeable.
TwoApis  == {api1, api2}
Symmetry == Permutations(TwoApis)
============================================================================
