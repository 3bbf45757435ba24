----------------------------- MODULE MCTenantData -----------------------------
(* A small instance of TenantData for TLC: words of which two make a chunk    *)
(* exactly, two do not fit and one is too long; a workflow may name documents *)
(* of anybody, twice, in any order, and one that never exists.                *)
EXTENDS TenantData

CONSTANTS short, middle, huge, t1, t2, w1, r1

Lengths == (short :> 2) @@ (middle :> 3) @@ (huge :> 7)

\* "ab" is part of two words, "cd" of one.
Matches == ("ab" :> {short, huge}) @@ ("cd" :> {middle})

SomeQueries == {<<>>, <<"ab">>, <<"ab", "cd">>}

Config(ids, limit, gated) == [document_ids |-> ids, limit |-> limit, gated |-> gated]

SomeConfigs ==
    {Config(<<>>, 0, FALSE), Config(<<1>>, 1, TRUE), Config(<<2, 1>>, 2, FALSE),
     Config(<<1, 1, 2>>, 2, FALSE), Config(<<1, 3>>, 0, FALSE)}

TenantSymmetry == Permutations(Tenants)
=============================================================================
