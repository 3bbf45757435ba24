---------------------------- MODULE RunLifecycle ----------------------------
(***************************************************************************)
(* The life of a workflow run: the rows the executor keeps in its          *)
(* repository, the jobs that carry asynchronous runs to the workers, and   *)
(* the three kinds of actor that read and write both without a lock:       *)
(*                                                                         *)
(*   - the API request that starts a run   (ExecuteSync, ExecuteAsync),    *)
(*   - the workers                         (ProcessNext, ProcessAsyncJob), *)
(*   - the requests that resume a run      (ResumeApproval).               *)
(*                                                                         *)
(* Every repository or queue call is one atomic step; whatever an actor    *)
(* read before it is a local copy that may be stale by the time it writes. *)
(* The nodes of a workflow are abstracted to what executeRun makes of      *)
(* them: the run fails, completes, or pauses at an approval gate.  Gates   *)
(* are numbered in the order in which the traversal reaches them.          *)
(***************************************************************************)
EXTENDS Naturals, Sequences

CONSTANTS
    Runs,           \* identifiers of the runs that requests may create
    Workers,        \* worker processes (or goroutines) polling the queue
    Resumers,       \* concurrent approval requests
    MaxAttempts,    \* defaultAsyncMaxAttempts
    Gates,          \* bound: approval nodes on a path of the workflow
    AtomicLoad,     \* LoadPending is one read (memory) or three (Postgres)
    Faults          \* which kinds of fault may occur

FaultKinds == {"crash", "lookup", "refused", "lostReply", "restart"}

ASSUME MaxAttemptsAssumption == MaxAttempts \in Nat \ {0}
ASSUME GatesAssumption == Gates \in Nat
ASSUME AtomicLoadAssumption == AtomicLoad \in BOOLEAN
ASSUME FaultsAssumption == Faults \subseteq FaultKinds

VARIABLES
    runs,       \* repository: the row of each run
    lastStep,   \* repository: the gate that is the run's last step, or 0
    pending,    \* repository: the gate of the run's pending state, or 0
    ready,      \* queue: jobs that can be dequeued, oldest first
    delayed,    \* queue: jobs waiting for their retry delay
    api,        \* where the request that created each run stands
    worker,     \* where each worker stands, with its copies of job and row
    resumer,    \* where each approval request stands, with its copies
    executions, \* history: executions a worker started from the roots
    unacked,    \* history: runs whose job was queued but reported as refused
    dropped     \* history: runs whose carrier died holding them

vars == <<runs, lastStep, pending, ready, delayed, api, worker, resumer,
          executions, unacked, dropped>>

repo    == <<runs, lastStep, pending>>
queue   == <<ready, delayed>>
history == <<executions, unacked, dropped>>

-----------------------------------------------------------------------------
Status == {"absent", "queued", "running", "waiting_approval",
           "completed", "failed", "dead_letter"}

Row == [status: Status, mode: {"none", "sync", "async"}, attempt: Nat,
        err: {"none", "node", "lookup", "rejected", "enqueue"}]

Absent == [status |-> "absent", mode |-> "none", attempt |-> 0, err |-> "none"]

Job == [run: Runs, attempt: Nat]

\* A sync run is created with MaxAttempts 0.
Limit(row) == IF row.mode = "async" THEN MaxAttempts ELSE 0

Idle    == [pc |-> "poll"]
Waiting == [pc |-> "idle"]

Engaged == [pc: {"inspect", "claim", "execute", "decide", "requeue"},
            job: Job, row: Row]
Request == [pc: {"steps", "pending", "resolve", "execute"}, run: Runs,
            row: Row, last: 0..Gates, gate: 0..Gates]

Init ==
    /\ runs = [r \in Runs |-> Absent]
    /\ lastStep = [r \in Runs |-> 0]
    /\ pending = [r \in Runs |-> 0]
    /\ ready = <<>>
    /\ delayed = {}
    /\ api = [r \in Runs |-> "new"]
    /\ worker = [w \in Workers |-> Idle]
    /\ resumer = [p \in Resumers |-> Waiting]
    /\ executions = [r \in Runs |-> 0]
    /\ unacked = {}
    /\ dropped = {}

-----------------------------------------------------------------------------
(* The repository's writes.  Each is one lock or one transaction. *)

UpdateRun(r, row) ==
    /\ runs' = [runs EXCEPT ![r] = row]
    /\ UNCHANGED <<lastStep, pending>>

\* Broken variant: the pending row survives the end of the run.
CompleteRunKeepsPending(r, row, last) ==
    /\ runs' = [runs EXCEPT ![r] = row]
    /\ lastStep' = [lastStep EXCEPT ![r] = last]
    /\ UNCHANGED pending

CompleteRun(r, row, last) ==
    /\ runs' = [runs EXCEPT ![r] = row]
    /\ lastStep' = [lastStep EXCEPT ![r] = last]
    /\ pending' = [pending EXCEPT ![r] = 0]

SavePending(r, row, gate) ==
    /\ runs' = [runs EXCEPT ![r] = row]
    /\ lastStep' = [lastStep EXCEPT ![r] = gate]
    /\ pending' = [pending EXCEPT ![r] = gate]

(* What executeRun writes at its end, for a traversal that starts behind   *)
(* gate `from` (0: at the roots) with the actor's copy `row` of the run.   *)

Failed(row, why) == [row EXCEPT !.status = "failed", !.err = why]

ExecutionFails(r, row) == CompleteRun(r, Failed(row, "node"), 0)

ExecutionPauses(r, row, from) ==
    \E gate \in (from + 1)..Gates :
        SavePending(r, [row EXCEPT !.status = "waiting_approval"], gate)

ExecutionCompletes(r, row, from) ==
    \E last \in {0, from} :
        CompleteRun(r, [row EXCEPT !.status = "completed"], last)

-----------------------------------------------------------------------------
(* The request that starts a run. *)

StartSync(r) ==
    /\ api[r] = "new"
    /\ runs' = [runs EXCEPT ![r] = [status |-> "running", mode |-> "sync",
                                    attempt |-> 0, err |-> "none"]]
    /\ api' = [api EXCEPT ![r] = "execute"]
    /\ UNCHANGED <<lastStep, pending, queue, worker, resumer, history>>

SyncEnds(r) ==
    /\ api[r] = "execute"
    /\ \/ ExecutionFails(r, runs[r])
       \/ ExecutionPauses(r, runs[r], 0)
       \/ ExecutionCompletes(r, runs[r], 0)
    /\ api' = [api EXCEPT ![r] = "done"]
    /\ UNCHANGED <<queue, worker, resumer, history>>

\* The row ExecuteAsync creates, and keeps as its local copy.
Submitted == [status |-> "queued", mode |-> "async", attempt |-> 0, err |-> "none"]

StartAsync(r) ==
    /\ api[r] = "new"
    /\ runs' = [runs EXCEPT ![r] = Submitted]
    /\ api' = [api EXCEPT ![r] = "enqueue"]
    /\ UNCHANGED <<lastStep, pending, queue, worker, resumer, history>>

PushFirstJob(r) ==
    ready' = Append(ready, [run |-> r, attempt |-> 0])

Enqueue(r) ==
    /\ api[r] = "enqueue"
    /\ PushFirstJob(r)
    /\ api' = [api EXCEPT ![r] = "done"]
    /\ UNCHANGED <<repo, delayed, worker, resumer, history>>

\* The queue refuses the job: full until the deadline, or no connection.
EnqueueRefused(r) ==
    /\ "refused" \in Faults
    /\ api[r] = "enqueue"
    /\ api' = [api EXCEPT ![r] = "markFailed"]
    /\ UNCHANGED <<repo, queue, worker, resumer, history>>

\* LPUSH took effect, its reply did not arrive.
EnqueueReplyLost(r) ==
    /\ "lostReply" \in Faults
    /\ api[r] = "enqueue"
    /\ PushFirstJob(r)
    /\ api' = [api EXCEPT ![r] = "markFailed"]
    /\ unacked' = unacked \union {r}
    /\ UNCHANGED <<repo, delayed, worker, resumer, executions, dropped>>

MarkEnqueueFailed(r) ==
    /\ api[r] = "markFailed"
    /\ CompleteRun(r, Failed(Submitted, "enqueue"), 0)
    /\ api' = [api EXCEPT ![r] = "done"]
    /\ UNCHANGED <<queue, worker, resumer, history>>

\* A crash, a cancelled context, or an error the request returns on.
ApiDies(r) ==
    /\ "crash" \in Faults
    /\ api[r] \in {"execute", "enqueue", "markFailed"}
    /\ api' = [api EXCEPT ![r] = "done"]
    /\ dropped' = dropped \union {r}
    /\ UNCHANGED <<repo, queue, worker, resumer, executions, unacked>>

-----------------------------------------------------------------------------
(* The workers. *)

\* A delayed job becomes due and moves to the ready list.
Promote(r) ==
    \E job \in delayed :
        /\ job.run = r
        /\ delayed' = delayed \ {job}
        /\ ready' = Append(ready, job)
        /\ UNCHANGED <<repo, api, worker, resumer, history>>

\* The promoting worker dies, or its connection breaks, between ZREM and LPUSH:
\* the job was taken off the delayed ones and never gets to the ready list.
PromotionBreaks(r) ==
    /\ "crash" \in Faults
    /\ \E job \in delayed : job.run = r /\ delayed' = delayed \ {job}
    /\ dropped' = dropped \union {r}
    /\ UNCHANGED <<repo, ready, api, worker, resumer, executions, unacked>>

\* Broken variant: the job is read but stays on the list.
DequeuePeeks(w) ==
    /\ worker[w] = Idle
    /\ ready # <<>>
    /\ worker' = [worker EXCEPT ![w] =
                    [pc |-> "inspect", job |-> Head(ready), row |-> Absent]]
    /\ UNCHANGED <<repo, queue, api, resumer, history>>

Dequeue(w) ==
    /\ worker[w] = Idle
    /\ ready # <<>>
    /\ ready' = Tail(ready)
    /\ worker' = [worker EXCEPT ![w] =
                    [pc |-> "inspect", job |-> Head(ready), row |-> Absent]]
    /\ UNCHANGED <<repo, delayed, api, resumer, history>>

\* GetRun; a queued run is executed, a failed one goes straight to the
\* retry decision of ProcessNext, and the job of any other run is dropped.
Inspect(w) ==
    /\ worker[w].pc = "inspect"
    /\ LET row  == runs[worker[w].job.run]
           next == CASE row.status = "queued" -> "claim"
                     [] row.status = "failed" -> "decide"
                     [] OTHER                 -> "poll"
       IN  worker' = [worker EXCEPT ![w] =
                        IF next = "poll" THEN Idle
                        ELSE [@ EXCEPT !.pc = next, !.row = row]]
    /\ UNCHANGED <<repo, queue, api, resumer, history>>

Claimed(w) == [worker[w].row EXCEPT !.status  = "running",
                                    !.attempt = worker[w].job.attempt + 1]

Claim(w) ==
    /\ worker[w].pc = "claim"
    /\ LET r == worker[w].job.run IN
        /\ UpdateRun(r, Claimed(w))
        /\ executions' = [executions EXCEPT ![r] = @ + 1]
    /\ worker' = [worker EXCEPT ![w] =
                    [@ EXCEPT !.pc = "execute", !.row = Claimed(w)]]
    /\ UNCHANGED <<queue, api, resumer, unacked, dropped>>

\* workflows.Get fails: the run fails without using up an attempt.
LookupFails(w) ==
    /\ "lookup" \in Faults
    /\ worker[w].pc = "claim"
    /\ CompleteRun(worker[w].job.run, Failed(worker[w].row, "lookup"), 0)
    /\ worker' = [worker EXCEPT ![w] =
                    [@ EXCEPT !.pc = "decide", !.row = Failed(worker[w].row, "lookup")]]
    /\ UNCHANGED <<queue, api, resumer, history>>

JobFails(w) ==
    /\ worker[w].pc = "execute"
    /\ ExecutionFails(worker[w].job.run, worker[w].row)
    /\ worker' = [worker EXCEPT ![w] =
                    [@ EXCEPT !.pc = "decide", !.row = Failed(worker[w].row, "node")]]
    /\ UNCHANGED <<queue, api, resumer, history>>

\* Broken variant: ProcessNext retries every run that did not complete.
JobPausesAndRetries(w) ==
    /\ worker[w].pc = "execute"
    /\ ExecutionPauses(worker[w].job.run, worker[w].row, 0)
    /\ worker' = [worker EXCEPT ![w].pc = "requeue"]
    /\ UNCHANGED <<queue, api, resumer, history>>

JobPauses(w) ==
    /\ worker[w].pc = "execute"
    /\ ExecutionPauses(worker[w].job.run, worker[w].row, 0)
    /\ worker' = [worker EXCEPT ![w] = Idle]
    /\ UNCHANGED <<queue, api, resumer, history>>

JobCompletes(w) ==
    /\ worker[w].pc = "execute"
    /\ ExecutionCompletes(worker[w].job.run, worker[w].row, 0)
    /\ worker' = [worker EXCEPT ![w] = Idle]
    /\ UNCHANGED <<queue, api, resumer, history>>

\* Broken variant: the job keeps the attempt it was dequeued with.
RetryForgetsAttempt(w) ==
    /\ worker[w].pc = "decide"
    /\ worker[w].row.attempt < Limit(worker[w].row)
    /\ UpdateRun(worker[w].job.run, [worker[w].row EXCEPT !.status = "queued"])
    /\ worker' = [worker EXCEPT ![w].pc = "requeue"]
    /\ UNCHANGED <<queue, api, resumer, history>>

\* Broken variant: the run is marked for retry, its job is not queued.
RetryForgetsJob(w) ==
    /\ worker[w].pc = "decide"
    /\ worker[w].row.attempt < Limit(worker[w].row)
    /\ UpdateRun(worker[w].job.run, [worker[w].row EXCEPT !.status = "queued"])
    /\ worker' = [worker EXCEPT ![w] = Idle]
    /\ UNCHANGED <<queue, api, resumer, history>>

MarkAsyncRetry(w) ==
    /\ worker[w].pc = "decide"
    /\ worker[w].row.attempt < Limit(worker[w].row)
    /\ UpdateRun(worker[w].job.run, [worker[w].row EXCEPT !.status = "queued"])
    /\ worker' = [worker EXCEPT ![w] =
                    [@ EXCEPT !.pc = "requeue",
                              !.job = [worker[w].job EXCEPT
                                          !.attempt = worker[w].row.attempt]]]
    /\ UNCHANGED <<queue, api, resumer, history>>

EnqueueAfter(w) ==
    /\ worker[w].pc = "requeue"
    /\ delayed' = delayed \union {worker[w].job}
    /\ worker' = [worker EXCEPT ![w] = Idle]
    /\ UNCHANGED <<repo, ready, api, resumer, history>>

\* Broken variant: an attempt too early.
DeadLetterTooEarly(w) ==
    /\ worker[w].pc = "decide"
    /\ worker[w].row.attempt + 1 >= Limit(worker[w].row)
    /\ UpdateRun(worker[w].job.run,
                 [worker[w].row EXCEPT !.status = "dead_letter"])
    /\ worker' = [worker EXCEPT ![w] = Idle]
    /\ UNCHANGED <<queue, api, resumer, history>>

MarkDeadLetter(w) ==
    /\ worker[w].pc = "decide"
    /\ worker[w].row.attempt >= Limit(worker[w].row)
    /\ UpdateRun(worker[w].job.run,
                 [worker[w].row EXCEPT !.status = "dead_letter"])
    /\ worker' = [worker EXCEPT ![w] = Idle]
    /\ UNCHANGED <<queue, api, resumer, history>>

\* A crash, or any error ProcessNext returns: the job is not put back.
WorkerDies(w) ==
    /\ "crash" \in Faults
    /\ worker[w] # Idle
    /\ worker' = [worker EXCEPT ![w] = Idle]
    /\ dropped' = dropped \union {worker[w].job.run}
    /\ UNCHANGED <<repo, queue, api, resumer, executions, unacked>>

-----------------------------------------------------------------------------
(* The approval requests. *)

\* Broken variant: whatever is found is resumed.
LoadedUnchecked(r, row, last) ==
    [pc |-> "resolve", run |-> r, row |-> row, last |-> last, gate |-> pending[r]]

\* The pending state that is found decides how LoadPending ends: without one,
\* or when the last step is not the waiting one, the request answers that the
\* run is not awaiting approval.
Loaded(r, row, last) ==
    LET gate == pending[r] IN
        IF gate # 0 /\ gate = last
        THEN [pc |-> "resolve", run |-> r, row |-> row, last |-> last, gate |-> gate]
        ELSE Waiting

\* MemoryRepository.LoadPending reads everything under one lock.
LoadPending(p, r) ==
    /\ AtomicLoad
    /\ resumer[p] = Waiting
    /\ runs[r].status # "absent"
    /\ resumer' = [resumer EXCEPT ![p] = Loaded(r, runs[r], lastStep[r])]
    /\ UNCHANGED <<repo, queue, api, worker, history>>

\* PostgresRepository.LoadPending is three queries outside a transaction.
LoadRun(p, r) ==
    /\ ~AtomicLoad
    /\ resumer[p] = Waiting
    /\ runs[r].status # "absent"
    /\ resumer' = [resumer EXCEPT ![p] =
                    [pc |-> "steps", run |-> r, row |-> runs[r],
                     last |-> 0, gate |-> 0]]
    /\ UNCHANGED <<repo, queue, api, worker, history>>

LoadSteps(p) ==
    /\ resumer[p].pc = "steps"
    /\ resumer' = [resumer EXCEPT ![p] =
                    [@ EXCEPT !.pc = "pending", !.last = lastStep[resumer[p].run]]]
    /\ UNCHANGED <<repo, queue, api, worker, history>>

LoadPendingState(p) ==
    /\ resumer[p].pc = "pending"
    /\ resumer' = [resumer EXCEPT ![p] =
                    Loaded(resumer[p].run, resumer[p].row, resumer[p].last)]
    /\ UNCHANGED <<repo, queue, api, worker, history>>

Reject(p) ==
    /\ resumer[p].pc = "resolve"
    /\ CompleteRun(resumer[p].run, Failed(resumer[p].row, "rejected"),
                   resumer[p].gate)
    /\ resumer' = [resumer EXCEPT ![p] = Waiting]
    /\ UNCHANGED <<queue, api, worker, history>>

\* The new status and the cleared error stay in the request's copy until
\* executeRun writes them.
Approve(p) ==
    /\ resumer[p].pc = "resolve"
    /\ resumer' = [resumer EXCEPT ![p] =
                    [@ EXCEPT !.pc = "execute",
                              !.row = [resumer[p].row EXCEPT !.status = "running",
                                                !.err = "none"]]]
    /\ UNCHANGED <<repo, queue, api, worker, history>>

ResumedEnds(p) ==
    /\ resumer[p].pc = "execute"
    /\ LET q == resumer[p] IN
        \/ ExecutionFails(q.run, q.row)
        \/ ExecutionPauses(q.run, q.row, q.gate)
        \/ ExecutionCompletes(q.run, q.row, q.gate)
    /\ resumer' = [resumer EXCEPT ![p] = Waiting]
    /\ UNCHANGED <<queue, api, worker, history>>

\* A crash, a cancelled context, or an error the request returns on.
ResumerDies(p) ==
    /\ "crash" \in Faults
    /\ resumer[p] # Waiting
    /\ resumer' = [resumer EXCEPT ![p] = Waiting]
    /\ UNCHANGED <<repo, queue, api, worker, history>>

-----------------------------------------------------------------------------
(* The process that carries runs. *)

IsReady(r)   == \E i \in 1..Len(ready) : ready[i].run = r
IsDelayed(r) == \E job \in delayed : job.run = r
Holds(w, r)  == worker[w] # Idle /\ worker[w].job.run = r
IsHeld(r)    == \E w \in Workers : Holds(w, r)
InQueue(r)   == IsReady(r) \/ IsDelayed(r)

\* An API process without Redis ends and starts again: the rows are in Postgres,
\* while its channel and timers, its worker and its requests are gone.
Restart ==
    /\ "restart" \in Faults
    /\ ready' = <<>>
    /\ delayed' = {}
    /\ api' = [r \in Runs |-> IF api[r] = "new" THEN "new" ELSE "done"]
    /\ worker' = [w \in Workers |-> Idle]
    /\ resumer' = [p \in Resumers |-> Waiting]
    /\ dropped' = dropped \union
            {r \in Runs : api[r] \notin {"new", "done"} \/ InQueue(r) \/ IsHeld(r)}
    /\ UNCHANGED <<repo, executions, unacked>>

-----------------------------------------------------------------------------
Submit(r) == StartSync(r) \/ StartAsync(r)

BeginResume(p, r) == LoadPending(p, r) \/ LoadRun(p, r)

ApiStep(r) == SyncEnds(r) \/ Enqueue(r) \/ MarkEnqueueFailed(r)

WorkerStep(w) ==
    \/ Dequeue(w)
    \/ Inspect(w)
    \/ Claim(w)
    \/ JobFails(w)
    \/ JobPauses(w)
    \/ JobCompletes(w)
    \/ MarkAsyncRetry(w)
    \/ EnqueueAfter(w)
    \/ MarkDeadLetter(w)

ResumerStep(p) ==
    \/ LoadSteps(p)
    \/ LoadPendingState(p)
    \/ Reject(p)
    \/ Approve(p)
    \/ ResumedEnds(p)

Fault ==
    \/ \E r \in Runs : EnqueueRefused(r) \/ EnqueueReplyLost(r) \/ ApiDies(r)
    \/ \E r \in Runs : PromotionBreaks(r)
    \/ \E w \in Workers : LookupFails(w) \/ WorkerDies(w)
    \/ \E p \in Resumers : ResumerDies(p)
    \/ Restart

Next ==
    \/ \E r \in Runs : Submit(r) \/ ApiStep(r) \/ Promote(r)
    \/ \E w \in Workers : WorkerStep(w)
    \/ \E p \in Resumers : ResumerStep(p) \/ \E r \in Runs : BeginResume(p, r)
    \/ Fault

Spec == Init /\ [][Next]_vars

\* A process that can take its next step takes it; requests, faults and the
\* decision to look at a run are left to the environment.
Fairness ==
    /\ \A r \in Runs : WF_vars(ApiStep(r)) /\ WF_vars(Promote(r))
    /\ \A w \in Workers : WF_vars(WorkerStep(w))
    /\ \A p \in Resumers : WF_vars(ResumerStep(p))

FairSpec == Spec /\ Fairness

-----------------------------------------------------------------------------
(* Properties. *)

\* The rows, jobs and local copies are the ones the code's types allow, and a
\* queue entry or an actor always names a run that was created.
TypeOK ==
    /\ runs \in [Runs -> Row]
    /\ lastStep \in [Runs -> 0..Gates]
    /\ pending \in [Runs -> 0..Gates]
    /\ ready \in Seq(Job)
    /\ delayed \in SUBSET Job
    /\ api \in [Runs -> {"new", "execute", "enqueue", "markFailed", "done"}]
    /\ worker \in [Workers -> {Idle} \union Engaged]
    /\ resumer \in [Resumers -> {Waiting} \union Request]
    /\ executions \in [Runs -> Nat]
    /\ unacked \in SUBSET Runs
    /\ dropped \in SUBSET Runs

\* Somebody will still move the run: its request is about to queue it or to
\* mark it failed, a job names it, or a worker holds its job.
IsCarried(r) == api[r] \in {"enqueue", "markFailed"} \/ InQueue(r) \/ IsHeld(r)

\* At any moment at most one copy of a run's job exists, counting the one its
\* request is about to push and the one a worker holds.  ProcessAsyncJob reads
\* the status and writes it back without a lock (async.go:94-137): two copies
\* would let two workers execute the same run at once.
OneCopyPerRun ==
    /\ \A i, j \in 1..Len(ready) : ready[i].run = ready[j].run => i = j
    /\ \A job, other \in delayed : job.run = other.run => job = other
    /\ \A r \in Runs :
        /\ \A v, w \in Workers : Holds(v, r) /\ Holds(w, r) => v = w
        /\ ~(IsReady(r) /\ IsDelayed(r))
        /\ IsHeld(r) => ~InQueue(r)
        /\ api[r] = "enqueue" => ~InQueue(r) /\ ~IsHeld(r)

Resumes(p, r) == resumer[p].pc \in {"resolve", "execute"} /\ resumer[p].run = r

\* While a job of a run exists the run has no pending approval and no approval
\* request has got past LoadPending: the job side and the approval side, which
\* both overwrite whole rows, never work on one run at the same time.
JobsExcludeApprovals ==
    \A r \in Runs : InQueue(r) \/ IsHeld(r) =>
        pending[r] = 0 /\ \A p \in Resumers : ~Resumes(p, r)

\* A run waits for approval exactly when the repository has a pending state
\* for it, and then its last step is the waiting one, so LoadPending and the
\* check behind it (service.go:461) can succeed.
PendingMatchesStatus ==
    \A r \in Runs :
        IF runs[r].status = "waiting_approval"
        THEN pending[r] # 0 /\ lastStep[r] = pending[r]
        ELSE pending[r] = 0

\* A worker executes a run from its roots at most MaxAttempts times, whatever
\* crashed, was retried or failed to load in between, and the attempt counter a
\* client reads is the number of those executions.  (Not of a run whose enqueue
\* was wrongly reported as failed: MarkEnqueueFailed then resets the attempt
\* counter behind the worker's back.)
AttemptsAreExecutions ==
    \A r \in Runs \ unacked :
        runs[r].attempt = executions[r] /\ executions[r] <= MaxAttempts

\* A request that got past LoadPending has read the row of a run that was
\* awaiting approval (ErrRunNotAwaitingReview, service.go:25).
ResumedRowsAwaitApproval ==
    \A p \in Resumers : resumer[p].pc = "resolve" =>
        resumer[p].row.status = "waiting_approval"

\* An asynchronous run that is queued or running has a carrier, unless the
\* carrier died with it: nothing but a crash or an error return strands a run.
UnfinishedIsCarried ==
    \A r \in Runs \ dropped :
        runs[r].mode = "async" /\ runs[r].status \in {"queued", "running"}
            => IsCarried(r)

Settled(row) == \/ row.status \in {"completed", "dead_letter"}
                \/ row.status = "failed" /\ row.err = "rejected"

\* Once a run is completed, dead-lettered or rejected, no later write touches
\* its row: no stale copy of a worker or of an approval request is left that
\* could bring it back.  Approval requests are one at a time here.
SettledStaysSettled ==
    [][\A r \in Runs \ unacked :
        Settled(runs[r]) => runs'[r] = runs[r]]_vars

\* An approval decision takes effect only on a run that awaits one
\* (ErrRunNotAwaitingReview, service.go:25).
DecisionsHitWaitingRuns ==
    [][\A p \in Resumers :
        resumer[p].pc = "resolve" /\ (Reject(p) \/ Approve(p))
            => runs[resumer[p].run].status = "waiting_approval"]_vars

\* A queued run ends completed or dead-lettered, or stops at an approval.
QueuedRunsSettle ==
    \A r \in Runs :
        runs[r].status = "queued" ~>
            runs[r].status \in {"completed", "dead_letter", "waiting_approval"}

\* "exhausted runs are marked as dead-lettered" (README.md:63): a run whose
\* workflow cannot be loaded ends like one whose nodes fail.
LookupFailuresExhaust ==
    \A r \in Runs :
        runs[r].status = "failed" /\ runs[r].err = "lookup" ~>
            runs[r].status \in {"completed", "dead_letter", "waiting_approval"}

\* "failed async runs are retried with backoff" (README.md:62): an execution
\* that fails with attempts left is queued again.
FailedRunsAreRetried ==
    \A r \in Runs :
        (/\ runs[r].mode = "async"
         /\ runs[r].status = "failed"
         /\ runs[r].err = "node"
         /\ runs[r].attempt < MaxAttempts) ~> runs[r].status # "failed"

\* What a client reads of the rows; the abstract specification of the runs.
\* A run whose enqueue was wrongly reported as failed is left out of it from
\* then on: it stands still in the queued row it had at that moment.
Visible(row) == [status |-> row.status, mode |-> row.mode, attempt |-> row.attempt]

Shown(r) == IF r \in unacked THEN [status |-> "queued", mode |-> "async", attempt |-> 0]
                             ELSE Visible(runs[r])

Promise == INSTANCE RunState WITH run <- [r \in Runs |-> Shown(r)]

\* Every step of the actors is a legal move of the statuses a client can see:
\* no stale copy takes a run back, repeats an attempt or skips one.
KeepsPromise == Promise!Spec
=============================================================================
