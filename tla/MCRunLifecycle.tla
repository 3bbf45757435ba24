--------------------------- MODULE MCRunLifecycle ---------------------------
(* Small instances of RunLifecycle for TLC. *)
EXTENDS RunLifecycle, TLC

CONSTANTS r1, r2, w1, w2, p1, p2

OneRun       == {r1}
TwoRuns      == {r1, r2}
OneWorker    == {w1}
TwoWorkers   == {w1, w2}
OneResumer   == {p1}
TwoResumers  == {p1, p2}

NoFaults     == {}
AllFaults    == FaultKinds
LookupFaults == {"lookup"}

\* Workers are interchangeable, and so are runs; used only where no liveness
\* property is checked.
Symmetry == Permutations(TwoRuns) \union Permutations(TwoWorkers)
=============================================================================
