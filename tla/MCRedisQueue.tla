----------------------------- MODULE MCRedisQueue -----------------------------
(* Small instances of RedisQueue for TLC. *)
EXTENDS RedisQueue

CONSTANTS r1, r2, r3

TwoRuns   == {r1, r2}
ThreeRuns == {r1, r2, r3}

\* Every job takes one unit of the buffer, or that of r1 takes three.
Light == [r \in Runs |-> 1]
Heavy == [r \in Runs |-> IF r = r1 THEN 3 ELSE 1]
=============================================================================
