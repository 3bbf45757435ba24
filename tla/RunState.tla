------------------------------ MODULE RunState ------------------------------
(***************************************************************************)
(* What a client that polls GET /v1/workflow-runs/{id} is promised: the    *)
(* status of a run moves along the edges below and nowhere else, its       *)
(* attempt counter grows by one at each start, and a run is retried only   *)
(* while attempts are left and given up only when none is.                 *)
(*                                                                         *)
(*    absent --> queued <--> failed --> dead_letter                        *)
(*       \          |          ^                                           *)
(*        \         v          |                                           *)
(*         +---> running ------+--> waiting_approval --> failed            *)
(*                  |                      |                               *)
(*                  +----> completed <-----+                               *)
(***************************************************************************)
EXTENDS Naturals

CONSTANTS Runs, MaxAttempts

VARIABLE run    \* what GetRun returns for each run

RunRow == [status: {"absent", "queued", "running", "waiting_approval",
                    "completed", "failed", "dead_letter"},
           mode: {"none", "sync", "async"},
           attempt: 0..MaxAttempts]

Init == run = [r \in Runs |->
                [status |-> "absent", mode |-> "none", attempt |-> 0]]

Becomes(r, status) == run' = [run EXCEPT ![r].status = status]

Submit(r) ==
    /\ run[r].status = "absent"
    /\ \E row \in {[status |-> "running", mode |-> "sync",  attempt |-> 0],
                   [status |-> "queued",  mode |-> "async", attempt |-> 0]} :
            run' = [run EXCEPT ![r] = row]

Start(r) ==
    /\ run[r].status = "queued"
    /\ run[r].attempt < MaxAttempts
    /\ run' = [run EXCEPT ![r].status = "running", ![r].attempt = @ + 1]

\* The queue refuses the job, or the workflow cannot be loaded.
Refuse(r) == run[r].status = "queued" /\ Becomes(r, "failed")

Finish(r) ==
    /\ run[r].status = "running"
    /\ \E status \in {"completed", "failed", "waiting_approval"} :
            Becomes(r, status)

\* An approval decision is taken; a run that reaches another gate stutters.
Decide(r) ==
    /\ run[r].status = "waiting_approval"
    /\ \E status \in {"completed", "failed"} : Becomes(r, status)

Retry(r) ==
    /\ run[r].status = "failed" /\ run[r].mode = "async"
    /\ run[r].attempt < MaxAttempts
    /\ Becomes(r, "queued")

GiveUp(r) ==
    /\ run[r].status = "failed" /\ run[r].mode = "async"
    /\ run[r].attempt = MaxAttempts
    /\ Becomes(r, "dead_letter")

Next == \E r \in Runs : \/ Submit(r) \/ Start(r) \/ Refuse(r) \/ Finish(r)
                        \/ Decide(r) \/ Retry(r) \/ GiveUp(r)

Spec == Init /\ [][Next]_run
=============================================================================
