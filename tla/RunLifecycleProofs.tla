------------------------- MODULE RunLifecycleProofs -------------------------
(***************************************************************************)
(* Proofs about RunLifecycle, for any set of runs, workers and approval    *)
(* requests, any number of attempts and gates, and any faults: types, the  *)
(* separation of jobs and approvals, and, resting on that, that the local  *)
(* copies of the job side are current, that unfinished runs are carried    *)
(* and attempts are executions, and that RunState is implemented.          *)
(***************************************************************************)
EXTENDS RunLifecycle, TLAPS

-----------------------------------------------------------------------------
(* Type correctness. *)

\* A worker off its polling loop holds a job and a row; an approval request
\* that has begun holds its run and what it read of it.
LEMMA Copies ==
    ASSUME TypeOK
    PROVE  /\ \A w \in Workers : worker[w].pc # "poll" => worker[w] \in Engaged
           /\ \A w \in Workers : worker[w] # Idle => worker[w] \in Engaged
           /\ \A p \in Resumers : resumer[p].pc # "idle" => resumer[p] \in Request
           /\ \A p \in Resumers : resumer[p] # Waiting => resumer[p] \in Request
    BY DEF TypeOK, Idle, Waiting

\* The rows the actors write are rows.
LEMMA RowsWritten ==
    /\ Absent \in Row
    /\ Submitted \in Row
    /\ \A row \in Row :
        /\ \A why \in {"node", "lookup", "rejected", "enqueue"} :
                Failed(row, why) \in Row
        /\ \A status \in Status : [row EXCEPT !.status = status] \in Row
    BY DEF Row, Status, Absent, Submitted, Failed

LEMMA FailedRow ==
    ASSUME NEW row \in Row, NEW why
    PROVE  Failed(row, why).status = "failed"
    BY DEF Row, Failed

\* The repository's writes keep its types.
LEMMA WritesTyped ==
    ASSUME TypeOK, NEW r \in Runs, NEW row \in Row, NEW n \in 0..Gates
    PROVE  /\ UpdateRun(r, row) => 
                /\ runs' \in [Runs -> Row]
                /\ lastStep' \in [Runs -> 0..Gates]
                /\ pending' \in [Runs -> 0..Gates]
           /\ CompleteRun(r, row, n) \/ SavePending(r, row, n) =>
                /\ runs' \in [Runs -> Row]
                /\ lastStep' \in [Runs -> 0..Gates]
                /\ pending' \in [Runs -> 0..Gates]
    <1>1. /\ 0 \in 0..Gates
          /\ runs \in [Runs -> Row]
          /\ lastStep \in [Runs -> 0..Gates] /\ pending \in [Runs -> 0..Gates]
        BY GatesAssumption DEF TypeOK
    <1>2. CASE UpdateRun(r, row)
        BY <1>1, <1>2 DEF UpdateRun
    <1>3. CASE CompleteRun(r, row, n)
        BY <1>1, <1>3 DEF CompleteRun
    <1>4. CASE SavePending(r, row, n)
        BY <1>1, <1>4 DEF SavePending
    <1> QED
        BY <1>2, <1>3, <1>4

\* So does whatever executeRun writes at its end.
LEMMA ExecutionTyped ==
    ASSUME TypeOK, NEW r \in Runs, NEW row \in Row, NEW from \in 0..Gates,
           \/ ExecutionFails(r, row)
           \/ ExecutionPauses(r, row, from)
           \/ ExecutionCompletes(r, row, from)
    PROVE  /\ runs' \in [Runs -> Row]
           /\ lastStep' \in [Runs -> 0..Gates]
           /\ pending' \in [Runs -> 0..Gates]
    <1>0. 0 \in 0..Gates /\ \A gate \in (from + 1)..Gates : gate \in 0..Gates
        BY GatesAssumption
    <1>1. CASE ExecutionFails(r, row)
        BY <1>0, <1>1, RowsWritten, WritesTyped DEF ExecutionFails
    <1>2. CASE ExecutionPauses(r, row, from)
        <2>1. [row EXCEPT !.status = "waiting_approval"] \in Row
            BY RowsWritten DEF Status
        <2> QED
            BY <1>0, <1>2, <2>1, WritesTyped DEF ExecutionPauses
    <1>3. CASE ExecutionCompletes(r, row, from)
        <2>1. [row EXCEPT !.status = "completed"] \in Row
            BY RowsWritten DEF Status
        <2> QED
            BY <1>0, <1>3, <2>1, WritesTyped DEF ExecutionCompletes
    <1> QED
        BY <1>1, <1>2, <1>3

LEMMA InitTyped == Init => TypeOK
    <1>1. 0 \in 0..Gates
        BY GatesAssumption
    <1> QED
        BY <1>1, RowsWritten DEF Init, TypeOK, Idle, Waiting, Job

\* The steps of the request that starts a run.
LEMMA ApiTyped ==
    ASSUME TypeOK, NEW r \in Runs,
           \/ Submit(r) \/ ApiStep(r)
           \/ EnqueueRefused(r) \/ EnqueueReplyLost(r) \/ ApiDies(r)
    PROVE  TypeOK'
    <1>0. 0 \in 0..Gates
        BY GatesAssumption
    <1>1. CASE StartSync(r)
        <2>1. [status |-> "running", mode |-> "sync", attempt |-> 0,
               err |-> "none"] \in Row
            BY DEF Row, Status
        <2> QED
            BY <1>1, <2>1 DEF StartSync, TypeOK, queue, history
    <1>2. CASE StartAsync(r)
        BY <1>2, RowsWritten DEF StartAsync, TypeOK, queue, history
    <1>3. CASE SyncEnds(r)
        <2>1. runs[r] \in Row
            BY DEF TypeOK
        <2>2. /\ runs' \in [Runs -> Row]
              /\ lastStep' \in [Runs -> 0..Gates]
              /\ pending' \in [Runs -> 0..Gates]
            BY <1>0, <1>3, <2>1, ExecutionTyped DEF SyncEnds
        <2> QED
            BY <1>3, <2>2 DEF SyncEnds, TypeOK, queue, history
    <1>4. CASE Enqueue(r) \/ EnqueueReplyLost(r)
        <2>1. [run |-> r, attempt |-> 0] \in Job
            BY DEF Job
        <2>2. ready' \in Seq(Job)
            <3>1. ready \in Seq(Job) /\ ready' = Append(ready, [run |-> r, attempt |-> 0])
                BY <1>4 DEF Enqueue, EnqueueReplyLost, PushFirstJob, TypeOK
            <3> QED
                BY <2>1, <3>1
        <2> QED
            BY <1>4, <2>2 DEF Enqueue, EnqueueReplyLost, TypeOK, repo, history
    <1>5. CASE EnqueueRefused(r)
        BY <1>5 DEF EnqueueRefused, TypeOK, repo, queue, history
    <1>6. CASE MarkEnqueueFailed(r)
        <2>1. /\ runs' \in [Runs -> Row]
              /\ lastStep' \in [Runs -> 0..Gates]
              /\ pending' \in [Runs -> 0..Gates]
            BY <1>0, <1>6, RowsWritten, WritesTyped DEF MarkEnqueueFailed
        <2> QED
            BY <1>6, <2>1 DEF MarkEnqueueFailed, TypeOK, queue, history
    <1>7. CASE ApiDies(r)
        BY <1>7 DEF ApiDies, TypeOK, repo, queue
    <1> QED
        BY <1>1, <1>2, <1>3, <1>4, <1>5, <1>6, <1>7 DEF Submit, ApiStep

\* A due job moving to the ready list, or lost on its way.
LEMMA PromoteTyped ==
    ASSUME TypeOK, NEW r \in Runs, Promote(r) \/ PromotionBreaks(r)
    PROVE  TypeOK'
    <1>1. CASE Promote(r)
        BY <1>1 DEF Promote, TypeOK, repo, history
    <1>2. CASE PromotionBreaks(r)
        BY <1>2 DEF PromotionBreaks, TypeOK, repo
    <1> QED
        BY <1>1, <1>2

\* The steps of a worker.
LEMMA WorkerTyped ==
    ASSUME TypeOK, NEW w \in Workers,
           WorkerStep(w) \/ LookupFails(w) \/ WorkerDies(w)
    PROVE  TypeOK'
    <1>0. 0 \in 0..Gates
        BY GatesAssumption
    <1> DEFINE r   == worker[w].job.run
               row == worker[w].row
    <1>1. CASE Dequeue(w)
        <2>1. Head(ready) \in Job /\ Tail(ready) \in Seq(Job)
            BY <1>1 DEF Dequeue, TypeOK
        <2>2. [pc |-> "inspect", job |-> Head(ready), row |-> Absent] \in Engaged
            BY <2>1, RowsWritten DEF Engaged
        <2> QED
            BY <1>1, <2>1, <2>2 DEF Dequeue, TypeOK, repo, history
    <1>2. CASE worker[w] \in Engaged
        <2>0. r \in Runs /\ row \in Row /\ worker[w].job \in Job
            BY <1>2 DEF Engaged, Job
        <2>1. ASSUME NEW pc \in {"inspect", "claim", "execute", "decide", "requeue"},
                     NEW new \in Row
              PROVE  [worker[w] EXCEPT !.pc = pc, !.row = new] \in Engaged
            BY <1>2 DEF Engaged
        <2>2. CASE Inspect(w)
            <3>1. runs[r] \in Row
                BY <2>0 DEF TypeOK
            <3>2. worker' \in [Workers -> {Idle} \union Engaged]
                BY <2>1, <2>2, <3>1 DEF Inspect, TypeOK
            <3> QED
                BY <2>2, <3>2 DEF Inspect, TypeOK, repo, queue, history
        <2>3. CASE Claim(w)
            <3>1. worker[w].job.attempt + 1 \in Nat
                BY <2>0 DEF Job
            <3>2. Claimed(w) \in Row
                BY <2>0, <3>1 DEF Claimed, Row, Status
            <3>3. /\ runs' \in [Runs -> Row]
                  /\ lastStep' \in [Runs -> 0..Gates]
                  /\ pending' \in [Runs -> 0..Gates]
                BY <1>0, <2>0, <2>3, <3>2, WritesTyped DEF Claim
            <3>4. worker' \in [Workers -> {Idle} \union Engaged]
                BY <2>1, <2>3, <3>2 DEF Claim, TypeOK
            <3>5. executions' \in [Runs -> Nat]
                BY <2>0, <2>3 DEF Claim, TypeOK
            <3> QED
                BY <2>3, <3>3, <3>4, <3>5 DEF Claim, TypeOK, queue
        <2>4. CASE LookupFails(w)
            <3>1. Failed(row, "lookup") \in Row
                BY <2>0, RowsWritten
            <3>2. /\ runs' \in [Runs -> Row]
                  /\ lastStep' \in [Runs -> 0..Gates]
                  /\ pending' \in [Runs -> 0..Gates]
                BY <1>0, <2>0, <2>4, <3>1, WritesTyped DEF LookupFails
            <3>3. worker' \in [Workers -> {Idle} \union Engaged]
                BY <2>1, <2>4, <3>1 DEF LookupFails, TypeOK
            <3> QED
                BY <2>4, <3>2, <3>3 DEF LookupFails, TypeOK, queue, history
        <2>5. CASE JobFails(w) \/ JobPauses(w) \/ JobCompletes(w)
            <3>1. Failed(row, "node") \in Row
                BY <2>0, RowsWritten
            <3>2. /\ runs' \in [Runs -> Row]
                  /\ lastStep' \in [Runs -> 0..Gates]
                  /\ pending' \in [Runs -> 0..Gates]
                BY <1>0, <2>0, <2>5, ExecutionTyped
                   DEF JobFails, JobPauses, JobCompletes
            <3>3. worker' \in [Workers -> {Idle} \union Engaged]
                BY <2>1, <2>5, <3>1 DEF JobFails, JobPauses, JobCompletes, TypeOK
            <3> QED
                BY <2>5, <3>2, <3>3
                   DEF JobFails, JobPauses, JobCompletes, TypeOK, queue, history
        <2>6. CASE MarkAsyncRetry(w)
            <3>1. [row EXCEPT !.status = "queued"] \in Row
                BY <2>0, RowsWritten DEF Status
            <3>2. /\ runs' \in [Runs -> Row]
                  /\ lastStep' \in [Runs -> 0..Gates]
                  /\ pending' \in [Runs -> 0..Gates]
                BY <1>0, <2>0, <2>6, <3>1, WritesTyped DEF MarkAsyncRetry
            <3>3. [worker[w].job EXCEPT !.attempt = row.attempt] \in Job
                BY <2>0 DEF Job, Row
            <3>4. worker' \in [Workers -> {Idle} \union Engaged]
                BY <1>2, <2>6, <3>3 DEF MarkAsyncRetry, TypeOK, Engaged
            <3> QED
                BY <2>6, <3>2, <3>4 DEF MarkAsyncRetry, TypeOK, queue, history
        <2>7. CASE EnqueueAfter(w)
            BY <2>0, <2>7 DEF EnqueueAfter, TypeOK, repo, history
        <2>8. CASE MarkDeadLetter(w)
            <3>1. [row EXCEPT !.status = "dead_letter"] \in Row
                BY <2>0, RowsWritten DEF Status
            <3>2. /\ runs' \in [Runs -> Row]
                  /\ lastStep' \in [Runs -> 0..Gates]
                  /\ pending' \in [Runs -> 0..Gates]
                BY <1>0, <2>0, <2>8, <3>1, WritesTyped DEF MarkDeadLetter
            <3> QED
                BY <2>8, <3>2 DEF MarkDeadLetter, TypeOK, queue, history
        <2>9. CASE WorkerDies(w)
            BY <2>0, <2>9 DEF WorkerDies, TypeOK, repo, queue
        <2>10. CASE Dequeue(w)
            BY <1>1, <2>10
        <2> QED
            BY <2>2, <2>3, <2>4, <2>5, <2>6, <2>7, <2>8, <2>9, <2>10 DEF WorkerStep
    <1>3. Dequeue(w) \/ worker[w] \in Engaged
        BY Copies DEF WorkerStep, Inspect, Claim, LookupFails, JobFails, JobPauses,
                      JobCompletes, MarkAsyncRetry, EnqueueAfter, MarkDeadLetter,
                      WorkerDies
    <1> QED
        BY <1>1, <1>2, <1>3

\* The steps of an approval request.
LEMMA ResumerTyped ==
    ASSUME TypeOK, NEW p \in Resumers,
           \/ \E r \in Runs : BeginResume(p, r)
           \/ ResumerStep(p) \/ ResumerDies(p)
    PROVE  TypeOK'
    <1>0. 0 \in 0..Gates
        BY GatesAssumption
    <1>1. ASSUME NEW r \in Runs, NEW row \in Row, NEW last \in 0..Gates
          PROVE  Loaded(r, row, last) \in {Waiting} \union Request
        <2>1. pending[r] \in 0..Gates
            BY DEF TypeOK
        <2> QED
            BY <1>1, <2>1 DEF Loaded, Request
    <1>2. ASSUME NEW r \in Runs, BeginResume(p, r)
          PROVE  TypeOK'
        <2>1. runs[r] \in Row /\ lastStep[r] \in 0..Gates
            BY <1>2 DEF TypeOK
        <2>2. CASE LoadPending(p, r)
            BY <1>1, <1>2, <2>1, <2>2 DEF LoadPending, TypeOK, repo, queue, history
        <2>3. CASE LoadRun(p, r)
            <3>1. [pc |-> "steps", run |-> r, row |-> runs[r], last |-> 0,
                   gate |-> 0] \in Request
                BY <1>0, <1>2, <2>1 DEF Request
            <3> QED
                BY <2>3, <3>1 DEF LoadRun, TypeOK, repo, queue, history
        <2> QED
            BY <1>2, <2>2, <2>3 DEF BeginResume
    <1>3. CASE resumer[p] \in Request
        <2> DEFINE r   == resumer[p].run
                   row == resumer[p].row
        <2>0. /\ r \in Runs /\ row \in Row
              /\ resumer[p].last \in 0..Gates /\ resumer[p].gate \in 0..Gates
            BY <1>3 DEF Request
        <2>1. CASE LoadSteps(p)
            <3>1. lastStep[r] \in 0..Gates
                BY <2>0 DEF TypeOK
            <3>2. [resumer[p] EXCEPT !.pc = "pending", !.last = lastStep[r]] \in Request
                BY <1>3, <3>1 DEF Request
            <3> QED
                BY <2>1, <3>2 DEF LoadSteps, TypeOK, repo, queue, history
        <2>2. CASE LoadPendingState(p)
            BY <1>1, <2>0, <2>2 DEF LoadPendingState, TypeOK, repo, queue, history
        <2>3. CASE Reject(p)
            <3>1. Failed(row, "rejected") \in Row
                BY <2>0, RowsWritten
            <3>2. /\ runs' \in [Runs -> Row]
                  /\ lastStep' \in [Runs -> 0..Gates]
                  /\ pending' \in [Runs -> 0..Gates]
                BY <2>0, <2>3, <3>1, WritesTyped DEF Reject
            <3> QED
                BY <2>3, <3>2 DEF Reject, TypeOK, queue, history
        <2>4. CASE Approve(p)
            <3>1. [row EXCEPT !.status = "running", !.err = "none"] \in Row
                BY <2>0 DEF Row, Status
            <3>2. [resumer[p] EXCEPT !.pc = "execute",
                      !.row = [row EXCEPT !.status = "running", !.err = "none"]]
                  \in Request
                BY <1>3, <3>1 DEF Request
            <3> QED
                BY <2>4, <3>2 DEF Approve, TypeOK, repo, queue, history
        <2>5. CASE ResumedEnds(p)
            <3>1. /\ runs' \in [Runs -> Row]
                  /\ lastStep' \in [Runs -> 0..Gates]
                  /\ pending' \in [Runs -> 0..Gates]
                BY <2>0, <2>5, ExecutionTyped DEF ResumedEnds
            <3> QED
                BY <2>5, <3>1 DEF ResumedEnds, TypeOK, queue, history
        <2>6. CASE ResumerDies(p)
            BY <2>6 DEF ResumerDies, TypeOK, repo, queue, history
        <2>7. CASE \E q \in Runs : BeginResume(p, q)
            BY <1>2, <2>7
        <2> QED
            BY <2>1, <2>2, <2>3, <2>4, <2>5, <2>6, <2>7 DEF ResumerStep
    <1>4. (\E r \in Runs : BeginResume(p, r)) \/ resumer[p] \in Request
        BY Copies DEF ResumerStep, LoadSteps, LoadPendingState, Reject, Approve,
                      ResumedEnds, ResumerDies
    <1> QED
        BY <1>2, <1>3, <1>4

LEMMA RestartTyped ==
    ASSUME TypeOK, Restart
    PROVE  TypeOK'
    <1>1. ready' \in Seq(Job) /\ delayed' \in SUBSET Job
        BY DEF Restart
    <1>2. api' \in [Runs -> {"new", "execute", "enqueue", "markFailed", "done"}]
        BY DEF Restart
    <1>3. /\ worker' \in [Workers -> {Idle} \union Engaged]
          /\ resumer' \in [Resumers -> {Waiting} \union Request]
        BY DEF Restart
    <1>4. dropped' \in SUBSET Runs
        BY DEF Restart, TypeOK
    <1> QED
        BY <1>1, <1>2, <1>3, <1>4 DEF Restart, TypeOK, repo

\* Rows, jobs and local copies stay within the code's types; in particular
\* every gate and run an actor acts on exists.
THEOREM TypeCorrect == Spec => []TypeOK
    <1>1. Init => TypeOK
        BY InitTyped
    <1>2. TypeOK /\ [Next]_vars => TypeOK'
        <2> SUFFICES ASSUME TypeOK, [Next]_vars
                     PROVE  TypeOK'
            OBVIOUS
        <2>1. CASE Next
            BY <2>1, ApiTyped, PromoteTyped, WorkerTyped, ResumerTyped, RestartTyped
               DEF Next, Fault
        <2>2. CASE UNCHANGED vars
            BY <2>2 DEF vars, TypeOK
        <2> QED
            BY <2>1, <2>2
    <1> QED
        BY <1>1, <1>2, PTL DEF Spec

-----------------------------------------------------------------------------
(* Separation of jobs and approvals: one copy of each job, no job beside a *)
(* pending approval, pending states where the status says so.              *)

Busy(r) == InQueue(r) \/ IsHeld(r)

\* What the three properties need besides each other: a run whose request has
\* not handed it over yet is nobody else's.
FreshRunsAreAlone ==
    \A r \in Runs : api[r] \in {"new", "enqueue", "execute"} =>
        /\ ~Busy(r)
        /\ pending[r] = 0
        /\ \A p \in Resumers : ~Resumes(p, r)

Separation ==
    /\ TypeOK
    /\ OneCopyPerRun
    /\ JobsExcludeApprovals
    /\ PendingMatchesStatus
    /\ FreshRunsAreAlone

\* Pushing a job whose run has none on the list.
LEMMA PushedJob ==
    ASSUME TypeOK, NEW job \in Job, ready' = Append(ready, job),
           ~IsReady(job.run),
           \A i, j \in 1..Len(ready) : ready[i].run = ready[j].run => i = j
    PROVE  /\ \A i, j \in 1..Len(ready') : ready'[i].run = ready'[j].run => i = j
           /\ \A r \in Runs : IsReady(r)' <=> IsReady(r) \/ r = job.run
    <1>1. ready \in Seq(Job) /\ Len(ready) \in Nat
        BY DEF TypeOK
    <1>2. /\ Len(ready') = Len(ready) + 1
          /\ \A i \in 1..Len(ready) : ready'[i] = ready[i]
          /\ ready'[Len(ready) + 1] = job
        BY <1>1
    <1>3. \A i \in 1..Len(ready') : i \in 1..Len(ready) \/ i = Len(ready) + 1
        BY <1>1, <1>2
    <1>4. \A i \in 1..Len(ready) : ready[i].run # job.run
        BY DEF IsReady
    <1>5. ASSUME NEW i \in 1..Len(ready'), NEW j \in 1..Len(ready'),
                 ready'[i].run = ready'[j].run
          PROVE  i = j
        BY <1>2, <1>3, <1>4, <1>5
    <1>6. ASSUME NEW r \in Runs
          PROVE  IsReady(r)' <=> IsReady(r) \/ r = job.run
        <2>1. ASSUME IsReady(r)'
              PROVE  IsReady(r) \/ r = job.run
            BY <1>2, <1>3, <2>1 DEF IsReady
        <2>2. ASSUME IsReady(r)
              PROVE  IsReady(r)'
            <3>1. PICK i \in 1..Len(ready) : ready[i].run = r
                BY <2>2 DEF IsReady
            <3>2. i \in 1..Len(ready') /\ ready'[i].run = r
                BY <1>1, <1>2, <3>1
            <3> QED
                BY <3>2 DEF IsReady
        <2>3. ASSUME r = job.run
              PROVE  IsReady(r)'
            <3>1. Len(ready) + 1 \in 1..Len(ready')
                BY <1>1, <1>2
            <3> QED
                BY <1>2, <2>3, <3>1 DEF IsReady
        <2> QED
            BY <2>1, <2>2, <2>3
    <1> QED
        BY <1>5, <1>6

\* Popping the oldest job.
LEMMA PoppedJob ==
    ASSUME TypeOK, ready # <<>>, ready' = Tail(ready),
           \A i, j \in 1..Len(ready) : ready[i].run = ready[j].run => i = j
    PROVE  /\ \A i, j \in 1..Len(ready') : ready'[i].run = ready'[j].run => i = j
           /\ Head(ready) \in Job
           /\ IsReady(Head(ready).run)
           /\ \A r \in Runs : IsReady(r)' => IsReady(r) /\ r # Head(ready).run
    <1>1. /\ ready \in Seq(Job) /\ Len(ready) \in Nat /\ Len(ready) > 0
          /\ Head(ready) = ready[1] /\ Head(ready) \in Job
        BY DEF TypeOK
    <1>2. /\ Len(ready') = Len(ready) - 1
          /\ \A i \in 1..Len(ready') : ready'[i] = ready[i + 1]
        BY <1>1
    <1>3. \A i \in 1..Len(ready') : i + 1 \in 1..Len(ready) /\ i + 1 # 1
        BY <1>1, <1>2
    <1>4. ASSUME NEW i \in 1..Len(ready'), NEW j \in 1..Len(ready'),
                 ready'[i].run = ready'[j].run
          PROVE  i = j
        <2>1. i + 1 = j + 1
            BY <1>2, <1>3, <1>4
        <2> QED
            BY <2>1
    <1>5. 1 \in 1..Len(ready)
        BY <1>1
    <1>6. ASSUME NEW r \in Runs, IsReady(r)'
          PROVE  IsReady(r) /\ r # Head(ready).run
        <2>1. PICK i \in 1..Len(ready') : ready'[i].run = r
            BY <1>6 DEF IsReady
        <2>2. ready[i + 1].run = r
            BY <1>2, <2>1
        <2> QED
            BY <1>1, <1>3, <1>5, <2>1, <2>2 DEF IsReady
    <1> QED
        BY <1>1, <1>4, <1>5, <1>6 DEF IsReady

\* The worker steps that leave the queue alone.
JobStep(w) ==
    \/ Inspect(w) \/ Claim(w) \/ LookupFails(w)
    \/ JobFails(w) \/ JobPauses(w) \/ JobCompletes(w)
    \/ MarkAsyncRetry(w) \/ MarkDeadLetter(w) \/ WorkerDies(w)

\* They act on the job the worker holds, and nobody comes to hold another.
LEMMA JobStepFrame ==
    ASSUME TypeOK, NEW w \in Workers, JobStep(w)
    PROVE  /\ UNCHANGED <<ready, delayed, api, resumer>>
           /\ worker[w] \in Engaged /\ worker[w].job.run \in Runs
           /\ Holds(w, worker[w].job.run)
           /\ \A v \in Workers, r \in Runs : Holds(v, r)' => Holds(v, r)
    <1>1. worker[w] # Idle
        BY DEF JobStep, Inspect, Claim, LookupFails, JobFails, JobPauses,
               JobCompletes, MarkAsyncRetry, MarkDeadLetter, WorkerDies, Idle
    <1>2. worker[w] \in Engaged /\ worker[w].job.run \in Runs
        BY <1>1, Copies DEF Engaged, Job
    <1>3. UNCHANGED <<ready, delayed, api, resumer>>
        BY DEF JobStep, Inspect, Claim, LookupFails, JobFails, JobPauses,
               JobCompletes, MarkAsyncRetry, MarkDeadLetter, WorkerDies, queue
    <1>4. \E new : /\ worker' = [worker EXCEPT ![w] = new]
                   /\ new = Idle \/ new.job.run = worker[w].job.run
        <2>1. CASE Inspect(w)
            <3>1. ASSUME NEW pc
                  PROVE  [worker[w] EXCEPT !.pc = pc,
                            !.row = runs[worker[w].job.run]].job.run
                              = worker[w].job.run
                BY <1>2 DEF Engaged
            <3> QED
                BY <2>1, <3>1 DEF Inspect
        <2>2. CASE Claim(w)
            <3>1. [worker[w] EXCEPT !.pc = "execute", !.row = Claimed(w)].job
                    = worker[w].job
                BY <1>2 DEF Engaged
            <3> QED
                BY <2>2, <3>1 DEF Claim
        <2>3. CASE LookupFails(w) \/ JobFails(w)
            <3>1. ASSUME NEW why
                  PROVE  [worker[w] EXCEPT !.pc = "decide",
                            !.row = Failed(worker[w].row, why)].job = worker[w].job
                BY <1>2 DEF Engaged
            <3> QED
                BY <2>3, <3>1 DEF LookupFails, JobFails
        <2>4. CASE MarkAsyncRetry(w)
            <3>1. [worker[w] EXCEPT !.pc = "requeue",
                    !.job = [worker[w].job EXCEPT
                                !.attempt = worker[w].row.attempt]].job.run
                        = worker[w].job.run
                BY <1>2 DEF Engaged, Job
            <3> QED
                BY <2>4, <3>1 DEF MarkAsyncRetry
        <2>5. CASE JobPauses(w) \/ JobCompletes(w) \/ MarkDeadLetter(w) \/ WorkerDies(w)
            BY <2>5 DEF JobPauses, JobCompletes, MarkDeadLetter, WorkerDies
        <2> QED
            BY <2>1, <2>2, <2>3, <2>4, <2>5 DEF JobStep
    <1>5. ASSUME NEW v \in Workers, NEW r \in Runs, Holds(v, r)'
          PROVE  Holds(v, r)
        <2>1. PICK new : /\ worker' = [worker EXCEPT ![w] = new]
                         /\ new = Idle \/ new.job.run = worker[w].job.run
            BY <1>4
        <2>2. worker \in [Workers -> {Idle} \union Engaged]
            BY DEF TypeOK
        <2>3. CASE v = w
            BY <1>1, <1>5, <2>1, <2>2, <2>3 DEF Holds
        <2>4. CASE v # w
            BY <1>5, <2>1, <2>2, <2>4 DEF Holds
        <2> QED
            BY <2>3, <2>4
    <1> QED
        BY <1>1, <1>2, <1>3, <1>5 DEF Holds

\* The steps that take no job from anywhere and push none.
LEMMA FewerCopies ==
    ASSUME OneCopyPerRun, UNCHANGED <<ready, delayed>>,
           \A v \in Workers, r \in Runs : Holds(v, r)' => Holds(v, r),
           \A r \in Runs : api'[r] = "enqueue" => api[r] = "enqueue" \/ ~Busy(r)
    PROVE  /\ OneCopyPerRun'
           /\ \A r \in Runs : Busy(r)' => Busy(r)
    <1>1. \A r \in Runs : /\ IsReady(r)' <=> IsReady(r)
                          /\ IsDelayed(r)' <=> IsDelayed(r)
                          /\ IsHeld(r)' => IsHeld(r)
        BY DEF IsReady, IsDelayed, IsHeld
    <1>2. /\ \A i, j \in 1..Len(ready') : ready'[i].run = ready'[j].run => i = j
          /\ \A job, other \in delayed' : job.run = other.run => job = other
        BY DEF OneCopyPerRun
    <1>3. ASSUME NEW r \in Runs
          PROVE  /\ \A v, w \in Workers : Holds(v, r)' /\ Holds(w, r)' => v = w
                 /\ ~(IsReady(r)' /\ IsDelayed(r)')
                 /\ IsHeld(r)' => ~InQueue(r)'
                 /\ api'[r] = "enqueue" => ~InQueue(r)' /\ ~IsHeld(r)'
        BY <1>1 DEF OneCopyPerRun, InQueue, Busy
    <1> QED
        BY <1>1, <1>2, <1>3 DEF OneCopyPerRun, InQueue, Busy

\* The request hands its job over.
LEMMA EnqueueCopies ==
    ASSUME Separation, NEW r \in Runs, Enqueue(r) \/ EnqueueReplyLost(r)
    PROVE  /\ OneCopyPerRun'
           /\ \A q \in Runs : Busy(q)' => Busy(q) \/ q = r
    <1> USE DEF Separation
    <1> DEFINE job == [run |-> r, attempt |-> 0]
    <1>1. /\ api[r] = "enqueue" /\ ready' = Append(ready, job)
          /\ UNCHANGED <<delayed, worker>>
          /\ api' = [api EXCEPT ![r] = "done"] \/ api' = [api EXCEPT ![r] = "markFailed"]
        BY DEF Enqueue, EnqueueReplyLost, PushFirstJob
    <1>2. job \in Job /\ job.run = r
        BY DEF Job
    <1>3. ~IsReady(r) /\ ~IsDelayed(r) /\ ~IsHeld(r)
        BY <1>1 DEF OneCopyPerRun, InQueue
    <1>4. /\ \A i, j \in 1..Len(ready') : ready'[i].run = ready'[j].run => i = j
          /\ \A q \in Runs : IsReady(q)' <=> IsReady(q) \/ q = r
        BY <1>1, <1>2, <1>3, PushedJob DEF OneCopyPerRun
    <1>5. \A q \in Runs : /\ IsDelayed(q)' <=> IsDelayed(q)
                          /\ IsHeld(q)' <=> IsHeld(q)
                          /\ \A v \in Workers : Holds(v, q)' <=> Holds(v, q)
        BY <1>1 DEF IsDelayed, IsHeld, Holds
    <1>6. \A q \in Runs : api'[q] = "enqueue" => api[q] = "enqueue" /\ q # r
        BY <1>1 DEF TypeOK
    <1>7. ASSUME NEW q \in Runs
          PROVE  /\ \A v, w \in Workers : Holds(v, q)' /\ Holds(w, q)' => v = w
                 /\ ~(IsReady(q)' /\ IsDelayed(q)')
                 /\ IsHeld(q)' => ~InQueue(q)'
                 /\ api'[q] = "enqueue" => ~InQueue(q)' /\ ~IsHeld(q)'
        BY <1>3, <1>4, <1>5, <1>6 DEF OneCopyPerRun, InQueue
    <1>8. \A a, b \in delayed' : a.run = b.run => a = b
        BY <1>1 DEF OneCopyPerRun
    <1>9. OneCopyPerRun'
        BY <1>4, <1>7, <1>8 DEF OneCopyPerRun, InQueue
    <1> QED
        BY <1>4, <1>5, <1>9 DEF Busy, InQueue

\* A due job changes its place.
LEMMA PromoteCopies ==
    ASSUME Separation, NEW r \in Runs, Promote(r)
    PROVE  /\ OneCopyPerRun'
           /\ \A q \in Runs : Busy(q)' => Busy(q)
    <1> USE DEF Separation
    <1>1. PICK job \in delayed : /\ job.run = r
                                 /\ delayed' = delayed \ {job}
                                 /\ ready' = Append(ready, job)
                                 /\ UNCHANGED <<worker, api>>
        BY DEF Promote
    <1>2. job \in Job /\ IsDelayed(r)
        BY <1>1 DEF TypeOK, IsDelayed
    <1>3. ~IsReady(r) /\ ~IsHeld(r) /\ api[r] # "enqueue"
        BY <1>2 DEF OneCopyPerRun, InQueue
    <1>4. /\ \A i, j \in 1..Len(ready') : ready'[i].run = ready'[j].run => i = j
          /\ \A q \in Runs : IsReady(q)' <=> IsReady(q) \/ q = r
        BY <1>1, <1>2, <1>3, PushedJob DEF OneCopyPerRun
    <1>5. \A q \in Runs : IsDelayed(q)' => IsDelayed(q) /\ q # r
        BY <1>1 DEF IsDelayed, OneCopyPerRun
    <1>6. \A q \in Runs : /\ IsHeld(q)' <=> IsHeld(q)
                          /\ \A v \in Workers : Holds(v, q)' <=> Holds(v, q)
        BY <1>1 DEF IsHeld, Holds
    <1>7. ASSUME NEW q \in Runs
          PROVE  /\ \A v, w \in Workers : Holds(v, q)' /\ Holds(w, q)' => v = w
                 /\ ~(IsReady(q)' /\ IsDelayed(q)')
                 /\ IsHeld(q)' => ~InQueue(q)'
                 /\ api'[q] = "enqueue" => ~InQueue(q)' /\ ~IsHeld(q)'
        BY <1>1, <1>2, <1>3, <1>4, <1>5, <1>6 DEF OneCopyPerRun, InQueue
    <1>8. \A a, b \in delayed' : a.run = b.run => a = b
        BY <1>1 DEF OneCopyPerRun
    <1>9. OneCopyPerRun'
        BY <1>4, <1>7, <1>8 DEF OneCopyPerRun, InQueue
    <1> QED
        BY <1>2, <1>4, <1>5, <1>6, <1>9 DEF Busy, InQueue

\* A due job that is lost leaves one copy less.
LEMMA PromotionBreaksCopies ==
    ASSUME Separation, NEW r \in Runs, PromotionBreaks(r)
    PROVE  /\ OneCopyPerRun'
           /\ \A q \in Runs : Busy(q)' => Busy(q)
    <1>1. delayed' \subseteq delayed /\ UNCHANGED <<ready, worker, api>>
        BY DEF PromotionBreaks
    <1>2. \A q \in Runs : /\ IsReady(q)' <=> IsReady(q)
                          /\ IsDelayed(q)' => IsDelayed(q)
                          /\ IsHeld(q)' <=> IsHeld(q)
                          /\ \A v \in Workers : Holds(v, q)' <=> Holds(v, q)
        BY <1>1 DEF IsReady, IsDelayed, IsHeld, Holds
    <1> QED
        BY <1>1, <1>2 DEF Separation, OneCopyPerRun, InQueue, Busy

\* A worker takes the oldest job.
LEMMA DequeueCopies ==
    ASSUME Separation, NEW w \in Workers, Dequeue(w)
    PROVE  /\ OneCopyPerRun'
           /\ \A q \in Runs : Busy(q)' => Busy(q)
    <1> USE DEF Separation
    <1> DEFINE r == Head(ready).run
    <1>1. /\ worker[w] = Idle /\ ready # <<>> /\ ready' = Tail(ready)
          /\ worker' = [worker EXCEPT ![w] =
                [pc |-> "inspect", job |-> Head(ready), row |-> Absent]]
          /\ UNCHANGED <<delayed, api>>
        BY DEF Dequeue
    <1>2. /\ \A i, j \in 1..Len(ready') : ready'[i].run = ready'[j].run => i = j
          /\ Head(ready) \in Job
          /\ IsReady(r)
          /\ \A q \in Runs : IsReady(q)' => IsReady(q) /\ q # r
        BY <1>1, PoppedJob DEF OneCopyPerRun
    <1>3. r \in Runs /\ ~IsDelayed(r) /\ ~IsHeld(r) /\ api[r] # "enqueue"
        BY <1>2 DEF OneCopyPerRun, InQueue, Job
    <1>4. \A q \in Runs, v \in Workers :
                Holds(v, q)' => Holds(v, q) \/ (v = w /\ q = r)
        BY <1>1 DEF Holds, TypeOK
    <1>5. \A q \in Runs : /\ IsDelayed(q)' <=> IsDelayed(q)
                          /\ IsHeld(q)' => IsHeld(q) \/ q = r
        BY <1>1, <1>4 DEF IsDelayed, IsHeld
    <1>6. ASSUME NEW q \in Runs, NEW u \in Workers, NEW v \in Workers,
                 Holds(u, q)', Holds(v, q)'
          PROVE  u = v
        BY <1>3, <1>4, <1>6 DEF OneCopyPerRun, IsHeld
    <1>7. ASSUME NEW q \in Runs
          PROVE  /\ ~(IsReady(q)' /\ IsDelayed(q)')
                 /\ IsHeld(q)' => ~InQueue(q)'
                 /\ api'[q] = "enqueue" => ~InQueue(q)' /\ ~IsHeld(q)'
        BY <1>1, <1>2, <1>3, <1>5 DEF OneCopyPerRun, InQueue
    <1>8. \A a, b \in delayed' : a.run = b.run => a = b
        BY <1>1 DEF OneCopyPerRun
    <1>9. OneCopyPerRun'
        BY <1>2, <1>6, <1>7, <1>8 DEF OneCopyPerRun, InQueue
    <1> QED
        BY <1>2, <1>5, <1>9 DEF Busy, InQueue

\* A worker gives its job back for a later retry.
LEMMA EnqueueAfterCopies ==
    ASSUME Separation, NEW w \in Workers, EnqueueAfter(w)
    PROVE  /\ OneCopyPerRun'
           /\ \A q \in Runs : Busy(q)' => Busy(q)
    <1> USE DEF Separation
    <1> DEFINE job == worker[w].job
               r   == job.run
    <1>1. /\ worker[w].pc = "requeue"
          /\ delayed' = delayed \union {job}
          /\ worker' = [worker EXCEPT ![w] = Idle]
          /\ UNCHANGED <<ready, api>>
        BY DEF EnqueueAfter
    <1>2. worker[w] # Idle /\ job \in Job /\ r \in Runs
        BY <1>1, Copies DEF Engaged, Job, Idle
    <1>3. Holds(w, r) /\ IsHeld(r)
        BY <1>2 DEF Holds, IsHeld
    <1>4. ~IsReady(r) /\ ~IsDelayed(r) /\ api[r] # "enqueue"
        BY <1>2, <1>3 DEF OneCopyPerRun, InQueue
    <1>5. \A q \in Runs, v \in Workers : Holds(v, q)' => Holds(v, q) /\ v # w
        BY <1>1 DEF Holds, TypeOK
    <1>6. \A q \in Runs : IsHeld(q)' => IsHeld(q) /\ q # r
        BY <1>2, <1>3, <1>5 DEF IsHeld, OneCopyPerRun
    <1>7. \A q \in Runs : /\ IsReady(q)' <=> IsReady(q)
                          /\ IsDelayed(q)' => IsDelayed(q) \/ q = r
        BY <1>1 DEF IsReady, IsDelayed
    <1>8. ASSUME NEW q \in Runs
          PROVE  /\ \A u, v \in Workers : Holds(u, q)' /\ Holds(v, q)' => u = v
                 /\ ~(IsReady(q)' /\ IsDelayed(q)')
                 /\ IsHeld(q)' => ~InQueue(q)'
                 /\ api'[q] = "enqueue" => ~InQueue(q)' /\ ~IsHeld(q)'
        BY <1>1, <1>4, <1>5, <1>6, <1>7 DEF OneCopyPerRun, InQueue
    <1>9. /\ \A a, b \in delayed' : a.run = b.run => a = b
          /\ \A i, j \in 1..Len(ready') : ready'[i].run = ready'[j].run => i = j
        BY <1>1, <1>4 DEF OneCopyPerRun, IsDelayed
    <1>10. OneCopyPerRun'
        BY <1>8, <1>9 DEF OneCopyPerRun, InQueue
    <1> QED
        BY <1>3, <1>6, <1>7, <1>10 DEF Busy, InQueue

\* The repository's writes keep pending states where the status says so; only
\* SavePending adds one.
LEMMA WritesMatch ==
    ASSUME TypeOK, PendingMatchesStatus, NEW r \in Runs, NEW row \in Row, NEW n
    PROVE  /\ UpdateRun(r, row) /\ row.status # "waiting_approval" /\ pending[r] = 0
                => PendingMatchesStatus' /\ pending' = pending
           /\ CompleteRun(r, row, n) /\ row.status # "waiting_approval"
                => /\ PendingMatchesStatus'
                   /\ \A q \in Runs : pending'[q] = IF q = r THEN 0 ELSE pending[q]
           /\ SavePending(r, row, n) /\ row.status = "waiting_approval" /\ n # 0
                => /\ PendingMatchesStatus'
                   /\ \A q \in Runs : q # r => pending'[q] = pending[q]
    <1>0. /\ runs \in [Runs -> Row] /\ lastStep \in [Runs -> 0..Gates]
          /\ pending \in [Runs -> 0..Gates]
        BY DEF TypeOK
    <1>1. ASSUME UpdateRun(r, row), row.status # "waiting_approval", pending[r] = 0
          PROVE  PendingMatchesStatus' /\ pending' = pending
        BY <1>0, <1>1 DEF PendingMatchesStatus, UpdateRun
    <1>2. ASSUME CompleteRun(r, row, n), row.status # "waiting_approval"
          PROVE  /\ PendingMatchesStatus'
                 /\ \A q \in Runs : pending'[q] = IF q = r THEN 0 ELSE pending[q]
        BY <1>0, <1>2 DEF PendingMatchesStatus, CompleteRun
    <1>3. ASSUME SavePending(r, row, n), row.status = "waiting_approval", n # 0
          PROVE  /\ PendingMatchesStatus'
                 /\ \A q \in Runs : q # r => pending'[q] = pending[q]
        BY <1>0, <1>3 DEF PendingMatchesStatus, SavePending
    <1> QED
        BY <1>1, <1>2, <1>3

LEMMA ExecutionMatches ==
    ASSUME TypeOK, PendingMatchesStatus, NEW r \in Runs, NEW row \in Row,
           NEW from \in 0..Gates
    PROVE  /\ ExecutionFails(r, row) \/ ExecutionCompletes(r, row, from)
                => /\ PendingMatchesStatus'
                   /\ \A q \in Runs : pending'[q] = IF q = r THEN 0 ELSE pending[q]
           /\ ExecutionPauses(r, row, from)
                => /\ PendingMatchesStatus'
                   /\ \A q \in Runs : q # r => pending'[q] = pending[q]
    <1>1. ASSUME ExecutionFails(r, row)
          PROVE  /\ PendingMatchesStatus'
                 /\ \A q \in Runs : pending'[q] = IF q = r THEN 0 ELSE pending[q]
        <2>1. Failed(row, "node") \in Row /\ Failed(row, "node").status = "failed"
            BY RowsWritten, FailedRow
        <2> QED
            BY <1>1, <2>1, WritesMatch DEF ExecutionFails
    <1>2. ASSUME ExecutionCompletes(r, row, from)
          PROVE  /\ PendingMatchesStatus'
                 /\ \A q \in Runs : pending'[q] = IF q = r THEN 0 ELSE pending[q]
        <2> DEFINE new == [row EXCEPT !.status = "completed"]
        <2>1. new \in Row /\ new.status = "completed"
            BY DEF Row, Status
        <2>2. PICK n \in {0, from} : CompleteRun(r, new, n)
            BY <1>2 DEF ExecutionCompletes
        <2> QED
            BY <2>1, <2>2, WritesMatch
    <1>3. ASSUME ExecutionPauses(r, row, from)
          PROVE  /\ PendingMatchesStatus'
                 /\ \A q \in Runs : q # r => pending'[q] = pending[q]
        <2> DEFINE new == [row EXCEPT !.status = "waiting_approval"]
        <2>1. new \in Row /\ new.status = "waiting_approval"
            BY DEF Row, Status
        <2>2. PICK gate \in (from + 1)..Gates : SavePending(r, new, gate)
            BY <1>3 DEF ExecutionPauses
        <2>3. gate # 0
            BY <2>2, GatesAssumption
        <2> QED
            BY <2>1, <2>2, <2>3, WritesMatch
    <1> QED
        BY <1>1, <1>2, <1>3

\* What is left to show once a step is known to create no copy of a job.
LEMMA Apart ==
    ASSUME Separation, NEW r \in Runs,
           OneCopyPerRun', TypeOK', PendingMatchesStatus',
           \A q \in Runs : Busy(q)' => Busy(q),
           \A q \in Runs : api'[q] \in {"new", "enqueue", "execute"} =>
                                api[q] \in {"new", "enqueue", "execute"},
           \A q \in Runs : pending'[q] \in {0, pending[q]} \/ q = r,
           \A q \in Runs, p \in Resumers :
                Resumes(p, q)' => Resumes(p, q) \/ pending[q] # 0,
           \/ pending'[r] \in {0, pending[r]}
           \/ ~Busy(r)' /\ api'[r] \notin {"new", "enqueue", "execute"}
    PROVE  Separation'
    <1> USE DEF Separation
    <1>1. ASSUME NEW q \in Runs, Busy(q)'
          PROVE  pending'[q] = 0 /\ \A p \in Resumers : ~Resumes(p, q)'
        <2>1. Busy(q) /\ pending[q] = 0 /\ \A p \in Resumers : ~Resumes(p, q)
            BY <1>1 DEF JobsExcludeApprovals, Busy
        <2> QED
            BY <1>1, <2>1
    <1>2. ASSUME NEW q \in Runs, api'[q] \in {"new", "enqueue", "execute"}
          PROVE  /\ ~Busy(q)'
                 /\ pending'[q] = 0
                 /\ \A p \in Resumers : ~Resumes(p, q)'
        <2>1. ~Busy(q) /\ pending[q] = 0 /\ \A p \in Resumers : ~Resumes(p, q)
            BY <1>2 DEF FreshRunsAreAlone
        <2> QED
            BY <1>2, <2>1
    <1>3. JobsExcludeApprovals'
        BY <1>1 DEF JobsExcludeApprovals, Busy
    <1>4. FreshRunsAreAlone'
        BY <1>2 DEF FreshRunsAreAlone
    <1> QED
        BY <1>3, <1>4

LEMMA ApiSeparated ==
    ASSUME Separation, TypeOK', NEW r \in Runs,
           \/ Submit(r) \/ ApiStep(r)
           \/ EnqueueRefused(r) \/ EnqueueReplyLost(r) \/ ApiDies(r)
    PROVE  Separation'
    <1> USE DEF Separation
    <1>0. /\ api \in [Runs -> {"new", "execute", "enqueue", "markFailed", "done"}]
          /\ runs \in [Runs -> Row] /\ 0 \in 0..Gates
        BY GatesAssumption DEF TypeOK
    <1>1. ASSUME UNCHANGED <<ready, delayed, worker, resumer>>,
                 PendingMatchesStatus',
                 \A q \in Runs : q # r => api'[q] = api[q] /\ pending'[q] = pending[q],
                 \/ /\ api'[r] \in {"enqueue", "execute"}
                    /\ api[r] = "new" /\ pending'[r] = pending[r]
                 \/ /\ api'[r] \in {"markFailed", "done"}
                    /\ api[r] \in {"new", "execute"} \/ pending'[r] \in {0, pending[r]}
          PROVE  Separation'
        <2>1. /\ \A v \in Workers, q \in Runs : Holds(v, q)' <=> Holds(v, q)
              /\ \A p \in Resumers, q \in Runs : Resumes(p, q)' <=> Resumes(p, q)
            BY <1>1 DEF Holds, Resumes
        <2>2. api[r] = "new" => ~Busy(r)
            BY DEF FreshRunsAreAlone
        <2>3. OneCopyPerRun' /\ \A q \in Runs : Busy(q)' => Busy(q)
            BY <1>1, <2>1, <2>2, FewerCopies
        <2>4. \A q \in Runs : api'[q] \in {"new", "enqueue", "execute"} =>
                                    api[q] \in {"new", "enqueue", "execute"}
            BY <1>1
        <2>5. \/ pending'[r] \in {0, pending[r]}
              \/ ~Busy(r)' /\ api'[r] \notin {"new", "enqueue", "execute"}
            BY <1>1, <2>3 DEF FreshRunsAreAlone
        <2> QED
            BY <1>1, <2>1, <2>3, <2>4, <2>5, Apart
    <1>2. CASE StartSync(r) \/ StartAsync(r)
        <2> DEFINE row == IF StartSync(r)
                          THEN [status |-> "running", mode |-> "sync",
                                attempt |-> 0, err |-> "none"]
                          ELSE Submitted
        <2>1. pending[r] = 0
            BY <1>2 DEF StartSync, StartAsync, FreshRunsAreAlone
        <2>2. row \in Row /\ row.status # "waiting_approval"
            BY DEF Row, Status, Submitted
        <2>3. UpdateRun(r, row)
            BY <1>2 DEF StartSync, StartAsync, UpdateRun
        <2>4. PendingMatchesStatus' /\ pending' = pending
            BY <2>1, <2>2, <2>3, WritesMatch
        <2> QED
            BY <1>0, <1>1, <1>2, <2>4 DEF StartSync, StartAsync, queue
    <1>3. CASE SyncEnds(r)
        <2>1. runs[r] \in Row
            BY <1>0
        <2>2. /\ PendingMatchesStatus'
              /\ \A q \in Runs : q # r => pending'[q] = pending[q]
            BY <1>0, <1>3, <2>1, ExecutionMatches DEF SyncEnds
        <2> QED
            BY <1>0, <1>1, <1>3, <2>2 DEF SyncEnds, queue
    <1>4. CASE MarkEnqueueFailed(r)
        <2>1. /\ Failed(Submitted, "enqueue") \in Row
              /\ Failed(Submitted, "enqueue").status = "failed"
            BY RowsWritten DEF Failed, Submitted
        <2>2. /\ PendingMatchesStatus'
              /\ \A q \in Runs : pending'[q] = IF q = r THEN 0 ELSE pending[q]
            BY <1>4, <2>1, WritesMatch DEF MarkEnqueueFailed
        <2> QED
            BY <1>0, <1>1, <1>4, <2>2 DEF MarkEnqueueFailed, queue
    <1>5. CASE EnqueueRefused(r) \/ ApiDies(r)
        <2>1. PendingMatchesStatus'
            BY <1>5 DEF EnqueueRefused, ApiDies, repo, PendingMatchesStatus
        <2> QED
            BY <1>0, <1>1, <1>5, <2>1 DEF EnqueueRefused, ApiDies, queue, repo
    <1>6. CASE Enqueue(r) \/ EnqueueReplyLost(r)
        <2>1. OneCopyPerRun' /\ \A q \in Runs : Busy(q)' => Busy(q) \/ q = r
            BY <1>6, EnqueueCopies
        <2>2. /\ api[r] = "enqueue" /\ api'[r] \in {"markFailed", "done"}
              /\ \A q \in Runs : q # r => api'[q] = api[q]
              /\ UNCHANGED <<runs, lastStep, pending, resumer>>
            BY <1>0, <1>6 DEF Enqueue, EnqueueReplyLost, repo
        <2>3. /\ PendingMatchesStatus'
              /\ \A p \in Resumers, q \in Runs : Resumes(p, q)' <=> Resumes(p, q)
            BY <2>2 DEF PendingMatchesStatus, Resumes
        <2>4. pending[r] = 0 /\ \A p \in Resumers : ~Resumes(p, r)
            BY <2>2 DEF FreshRunsAreAlone
        <2>5. JobsExcludeApprovals'
            BY <2>1, <2>2, <2>3, <2>4 DEF JobsExcludeApprovals, Busy
        <2>6. FreshRunsAreAlone'
            BY <2>1, <2>2, <2>3 DEF FreshRunsAreAlone
        <2> QED
            BY <2>1, <2>3, <2>5, <2>6
    <1> QED
        BY <1>2, <1>3, <1>4, <1>5, <1>6 DEF Submit, ApiStep

LEMMA QueueStepSeparated ==
    ASSUME Separation, TypeOK',
           \/ \E r \in Runs : Promote(r) \/ PromotionBreaks(r)
           \/ \E w \in Workers : Dequeue(w) \/ EnqueueAfter(w)
    PROVE  Separation'
    <1> USE DEF Separation
    <1>1. UNCHANGED <<runs, lastStep, pending, api, resumer>>
        BY DEF Promote, PromotionBreaks, Dequeue, EnqueueAfter, repo
    <1>2. OneCopyPerRun' /\ \A q \in Runs : Busy(q)' => Busy(q)
        BY PromoteCopies, PromotionBreaksCopies, DequeueCopies, EnqueueAfterCopies
    <1>3. /\ PendingMatchesStatus'
          /\ \A p \in Resumers, q \in Runs : Resumes(p, q)' <=> Resumes(p, q)
        BY <1>1 DEF PendingMatchesStatus, Resumes
    <1>4. JobsExcludeApprovals' /\ FreshRunsAreAlone'
        BY <1>1, <1>2, <1>3 DEF JobsExcludeApprovals, FreshRunsAreAlone, Busy
    <1> QED
        BY <1>2, <1>3, <1>4

LEMMA JobStepSeparated ==
    ASSUME Separation, TypeOK', NEW w \in Workers, JobStep(w)
    PROVE  Separation'
    <1> USE DEF Separation
    <1> DEFINE row == worker[w].row
    <1>r. PICK r \in Runs : r = worker[w].job.run
        BY JobStepFrame
    <1>0. /\ UNCHANGED <<ready, delayed, api, resumer>>
          /\ worker[w] \in Engaged /\ r = worker[w].job.run
          /\ Holds(w, r) /\ IsHeld(r)
          /\ \A v \in Workers, q \in Runs : Holds(v, q)' => Holds(v, q)
        BY <1>r, JobStepFrame DEF IsHeld
    <1>1. row \in Row /\ 0 \in 0..Gates
        BY <1>0, GatesAssumption DEF Engaged
    <1>2. OneCopyPerRun' /\ \A q \in Runs : Busy(q)' => Busy(q)
        BY <1>0, FewerCopies
    <1>3. /\ Busy(r) /\ pending[r] = 0
          /\ api[r] \notin {"new", "enqueue", "execute"}
        BY <1>0 DEF Busy, JobsExcludeApprovals, FreshRunsAreAlone
    <1>4. ASSUME PendingMatchesStatus',
                 \A q \in Runs : pending'[q] \in {0, pending[q]} \/ q = r,
                 pending'[r] \in {0, pending[r]} \/ ~Busy(r)'
          PROVE  Separation'
        <2>1. \A p \in Resumers, q \in Runs : Resumes(p, q)' <=> Resumes(p, q)
            BY <1>0 DEF Resumes
        <2>2. api'[r] \notin {"new", "enqueue", "execute"}
            BY <1>0, <1>3
        <2> QED
            BY <1>0, <1>2, <1>4, <2>1, <2>2, Apart
    <1>5. CASE Inspect(w) \/ WorkerDies(w)
        <2>1. UNCHANGED <<runs, lastStep, pending>>
            BY <1>5 DEF Inspect, WorkerDies, repo
        <2>2. PendingMatchesStatus'
            BY <2>1 DEF PendingMatchesStatus
        <2> QED
            BY <1>4, <2>1, <2>2
    <1>6. CASE Claim(w) \/ MarkAsyncRetry(w) \/ MarkDeadLetter(w)
        <2>1. ASSUME NEW new \in Row, new.status # "waiting_approval", UpdateRun(r, new)
              PROVE  Separation'
            <3>1. PendingMatchesStatus' /\ pending' = pending
                BY <1>0, <1>3, <2>1, WritesMatch
            <3> QED
                BY <1>4, <3>1
        <2>2. /\ Claimed(w) \in Row
              /\ Claimed(w).status = "running"
            <3>1. worker[w].job.attempt + 1 \in Nat
                BY <1>0 DEF Engaged, Job
            <3> QED
                BY <1>1, <3>1 DEF Claimed, Row, Status
        <2>3. \A status \in {"queued", "dead_letter"} :
                    /\ [row EXCEPT !.status = status] \in Row
                    /\ [row EXCEPT !.status = status].status = status
            BY <1>1 DEF Row, Status
        <2> QED
            BY <1>0, <1>6, <2>1, <2>2, <2>3 DEF Claim, MarkAsyncRetry, MarkDeadLetter
    <1>7. CASE LookupFails(w)
        <2>1. Failed(row, "lookup") \in Row /\ Failed(row, "lookup").status = "failed"
            BY <1>1, RowsWritten, FailedRow
        <2>2. /\ PendingMatchesStatus'
              /\ \A q \in Runs : pending'[q] = IF q = r THEN 0 ELSE pending[q]
            BY <1>0, <1>7, <2>1, WritesMatch DEF LookupFails
        <2> QED
            BY <1>0, <1>4, <2>2
    <1>8. CASE JobFails(w) \/ JobCompletes(w)
        <2>1. /\ PendingMatchesStatus'
              /\ \A q \in Runs : pending'[q] = IF q = r THEN 0 ELSE pending[q]
            BY <1>0, <1>1, <1>8, ExecutionMatches DEF JobFails, JobCompletes
        <2> QED
            BY <1>0, <1>4, <2>1
    <1>9. CASE JobPauses(w)
        <2>1. /\ PendingMatchesStatus'
              /\ \A q \in Runs : q # r => pending'[q] = pending[q]
            BY <1>0, <1>1, <1>9, ExecutionMatches DEF JobPauses
        <2>2. ~IsHeld(r)'
            <3>1. worker' = [worker EXCEPT ![w] = Idle]
                BY <1>9 DEF JobPauses
            <3>2. ~Holds(w, r)'
                BY <3>1 DEF Holds, TypeOK
            <3>3. \A v \in Workers : Holds(v, r) => v = w
                BY <1>0 DEF OneCopyPerRun
            <3> QED
                BY <1>0, <3>2, <3>3 DEF IsHeld
        <2>3. ~InQueue(r)'
            <3>1. ~InQueue(r)
                BY <1>0 DEF OneCopyPerRun
            <3> QED
                BY <1>0, <3>1 DEF InQueue, IsReady, IsDelayed
        <2> QED
            BY <1>4, <2>1, <2>2, <2>3 DEF Busy
    <1> QED
        BY <1>5, <1>6, <1>7, <1>8, <1>9 DEF JobStep

LEMMA ResumerSeparated ==
    ASSUME Separation, TypeOK', NEW p \in Resumers,
           \/ \E r \in Runs : BeginResume(p, r)
           \/ ResumerStep(p) \/ ResumerDies(p)
    PROVE  Separation'
    <1> USE DEF Separation
    <1>0. /\ UNCHANGED <<ready, delayed, api, worker>>
          /\ resumer \in [Resumers -> {Waiting} \union Request]
        BY DEF BeginResume, LoadPending, LoadRun, ResumerStep, LoadSteps,
               LoadPendingState, Reject, Approve, ResumedEnds, ResumerDies,
               queue, TypeOK
    <1>1. OneCopyPerRun' /\ \A q \in Runs : Busy(q)' => Busy(q)
        <2>1. \A v \in Workers, q \in Runs : Holds(v, q)' <=> Holds(v, q)
            BY <1>0 DEF Holds
        <2> QED
            BY <1>0, <2>1, FewerCopies
    <1>2. ASSUME NEW q \in Runs, Resumes(p, q)
          PROVE  ~Busy(q) /\ api[q] \notin {"new", "enqueue", "execute"}
        BY <1>2 DEF JobsExcludeApprovals, FreshRunsAreAlone, Busy
    \* Requests that only read.
    <1>3. ASSUME UNCHANGED repo, NEW new, resumer' = [resumer EXCEPT ![p] = new],
                 \/ new.pc \notin {"resolve", "execute"}
                 \/ pending[new.run] # 0
                 \/ Resumes(p, new.run)
          PROVE  Separation'
        <2>1. PendingMatchesStatus' /\ pending' = pending
            BY <1>3 DEF repo, PendingMatchesStatus
        <2>2. \A s \in Resumers, q \in Runs :
                    Resumes(s, q)' => Resumes(s, q) \/ pending[q] # 0
            BY <1>0, <1>3 DEF Resumes
        <2>3. CASE Runs = {}
            BY <1>1, <2>1, <2>3 DEF JobsExcludeApprovals, FreshRunsAreAlone
        <2>4. CASE Runs # {}
            BY <1>0, <1>1, <2>1, <2>2, <2>4, Apart
        <2> QED
            BY <2>3, <2>4
    <1>4. ASSUME NEW r, NEW row, NEW last
          PROVE  \/ Loaded(r, row, last).pc \notin {"resolve", "execute"}
                 \/ pending[Loaded(r, row, last).run] # 0
        BY DEF Loaded, Waiting
    <1>5. ASSUME NEW r \in Runs, BeginResume(p, r)
          PROVE  Separation'
        <2>1. CASE LoadPending(p, r)
            BY <1>3, <1>4, <2>1 DEF LoadPending
        <2>2. CASE LoadRun(p, r)
            BY <1>3, <2>2 DEF LoadRun
        <2> QED
            BY <1>5, <2>1, <2>2 DEF BeginResume
    <1>6. CASE LoadPendingState(p)
        BY <1>3, <1>4, <1>6 DEF LoadPendingState
    <1>7. CASE LoadSteps(p)
        <2>1. resumer[p] \in Request
            BY <1>7, Copies DEF LoadSteps
        <2>2. [resumer[p] EXCEPT !.pc = "pending",
                    !.last = lastStep[resumer[p].run]].pc = "pending"
            BY <2>1 DEF Request
        <2> QED
            BY <1>3, <1>7, <2>2 DEF LoadSteps
    <1>8. CASE ResumerDies(p)
        BY <1>3, <1>8 DEF ResumerDies, Waiting
    <1>9. CASE Approve(p)
        <2> DEFINE new == [resumer[p] EXCEPT !.pc = "execute",
                             !.row = [resumer[p].row EXCEPT !.status = "running",
                                                            !.err = "none"]]
        <2>1. resumer[p] \in Request
            BY <1>9, Copies DEF Approve
        <2>2. new.run = resumer[p].run
            BY <2>1 DEF Request
        <2>3. Resumes(p, new.run)
            BY <1>9, <2>2 DEF Approve, Resumes
        <2>4. UNCHANGED repo /\ resumer' = [resumer EXCEPT ![p] = new]
            BY <1>9 DEF Approve
        <2> HIDE DEF new
        <2> QED
            BY <1>3, <2>3, <2>4
    <1>10. CASE Reject(p) \/ ResumedEnds(p)
        <2> DEFINE row == resumer[p].row
        <2>0. resumer[p] \in Request
            BY <1>10, Copies DEF Reject, ResumedEnds
        <2>r. PICK r \in Runs : r = resumer[p].run
            BY <2>0 DEF Request
        <2>1. Resumes(p, r)
            BY <1>10, <2>r DEF Reject, ResumedEnds, Resumes
        <2>2. /\ r = resumer[p].run /\ row \in Row
              /\ resumer[p].gate \in 0..Gates
            BY <2>0, <2>r DEF Request
        <2>3. /\ PendingMatchesStatus'
              /\ \A q \in Runs : q # r => pending'[q] = pending[q]
            <3>1. CASE Reject(p)
                <4>1. /\ Failed(row, "rejected") \in Row
                      /\ Failed(row, "rejected").status = "failed"
                    BY <2>2, RowsWritten, FailedRow
                <4> QED
                    BY <2>2, <3>1, <4>1, WritesMatch DEF Reject
            <3>2. CASE ResumedEnds(p)
                BY <2>2, <3>2, ExecutionMatches DEF ResumedEnds
            <3> QED
                BY <1>10, <3>1, <3>2
        <2>4. \A s \in Resumers, q \in Runs : Resumes(s, q)' => Resumes(s, q)
            <3>1. resumer' = [resumer EXCEPT ![p] = Waiting]
                BY <1>10 DEF Reject, ResumedEnds
            <3> QED
                BY <1>0, <3>1 DEF Resumes, Waiting
        <2>5. ~Busy(r)' /\ api'[r] \notin {"new", "enqueue", "execute"}
            BY <1>0, <1>1, <1>2, <2>1, <2>2
        <2> QED
            BY <1>0, <1>1, <2>2, <2>3, <2>4, <2>5, Apart
    <1> QED
        BY <1>5, <1>6, <1>7, <1>8, <1>9, <1>10 DEF ResumerStep

\* A restart leaves no job and no actor that could meet another.
LEMMA RestartSeparated ==
    ASSUME Separation, TypeOK', Restart
    PROVE  Separation'
    <1>1. /\ Len(ready') = 0 /\ delayed' = {}
          /\ \A w \in Workers : worker'[w] = Idle
          /\ \A p \in Resumers : resumer'[p] = Waiting
          /\ runs' = runs /\ lastStep' = lastStep /\ pending' = pending
        BY DEF Restart, repo
    <1>2. 1..Len(ready') = {}
        BY <1>1
    <1>3. \A r \in Runs : ~IsReady(r)' /\ ~IsDelayed(r)' /\ ~IsHeld(r)'
        BY <1>1, <1>2 DEF IsReady, IsDelayed, IsHeld, Holds
    <1>4. /\ \A w \in Workers, r \in Runs : ~Holds(w, r)'
          /\ \A p \in Resumers, r \in Runs : ~Resumes(p, r)'
        BY <1>1 DEF Holds, Resumes, Waiting
    <1>5. OneCopyPerRun'
        BY <1>1, <1>2, <1>3, <1>4 DEF OneCopyPerRun, InQueue
    <1>6. JobsExcludeApprovals'
        BY <1>3 DEF JobsExcludeApprovals, InQueue
    <1>7. PendingMatchesStatus'
        BY <1>1 DEF Separation, PendingMatchesStatus
    <1>8. FreshRunsAreAlone'
        <2>1. \A r \in Runs : api'[r] \in {"new", "enqueue", "execute"} => api[r] = "new"
            BY DEF Restart
        <2> QED
            BY <1>1, <1>3, <1>4, <2>1 DEF Separation, FreshRunsAreAlone, Busy, InQueue
    <1> QED
        BY <1>5, <1>6, <1>7, <1>8 DEF Separation

LEMMA InitSeparated == Init => Separation
    <1> SUFFICES ASSUME Init
                 PROVE  Separation
        OBVIOUS
    <1>1. /\ Len(ready) = 0 /\ delayed = {}
          /\ \A r \in Runs : runs[r] = Absent /\ pending[r] = 0
          /\ \A w \in Workers : worker[w] = Idle
          /\ \A p \in Resumers : resumer[p] = Waiting
        BY DEF Init
    <1>2. \A r \in Runs : ~IsReady(r) /\ ~IsDelayed(r) /\ ~IsHeld(r)
        <2>1. 1..Len(ready) = {}
            BY <1>1
        <2> QED
            BY <1>1, <2>1 DEF IsReady, IsDelayed, IsHeld, Holds
    <1>3. /\ \A w \in Workers, r \in Runs : ~Holds(w, r)
          /\ \A p \in Resumers, r \in Runs : ~Resumes(p, r)
        BY <1>1 DEF Holds, Resumes, Waiting
    <1>4. OneCopyPerRun
        <2>1. 1..Len(ready) = {}
            BY <1>1
        <2> QED
            BY <1>1, <1>2, <1>3, <2>1 DEF OneCopyPerRun, InQueue
    <1>5. JobsExcludeApprovals /\ FreshRunsAreAlone
        BY <1>1, <1>2, <1>3 DEF JobsExcludeApprovals, FreshRunsAreAlone, Busy, InQueue
    <1>6. PendingMatchesStatus
        <2>1. Absent.status = "absent"
            BY DEF Absent
        <2>2. \A r \in Runs : runs[r].status = "absent" /\ pending[r] = 0
            BY <1>1, <2>1
        <2> QED
            BY <2>2 DEF PendingMatchesStatus
    <1> QED
        BY <1>4, <1>5, <1>6, InitTyped DEF Separation

\* Every step keeps jobs and approvals apart.
LEMMA SeparationStep ==
    ASSUME Separation, [Next]_vars
    PROVE  Separation'
    <1>1. TypeOK'
        <2>1. CASE Next
            BY <2>1, ApiTyped, PromoteTyped, WorkerTyped, ResumerTyped, RestartTyped
               DEF Next, Fault, Separation
        <2>2. CASE UNCHANGED vars
            BY <2>2 DEF vars, TypeOK, Separation
        <2> QED
            BY <2>1, <2>2
    <1>2. CASE Next
        BY <1>1, <1>2, ApiSeparated, QueueStepSeparated, JobStepSeparated,
           ResumerSeparated, RestartSeparated DEF Next, Fault, WorkerStep, JobStep
    <1>3. CASE UNCHANGED vars
        <2>1. \A r \in Runs : /\ Busy(r)' <=> Busy(r)
                              /\ IsReady(r)' <=> IsReady(r)
                              /\ IsDelayed(r)' <=> IsDelayed(r)
                              /\ IsHeld(r)' <=> IsHeld(r)
                              /\ InQueue(r)' <=> InQueue(r)
            BY <1>3 DEF vars, Busy, InQueue, IsReady, IsDelayed, IsHeld, Holds
        <2>2. OneCopyPerRun'
            BY <1>3, <2>1 DEF vars, Separation, OneCopyPerRun, Holds
        <2>3. JobsExcludeApprovals' /\ FreshRunsAreAlone'
            BY <1>3, <2>1 DEF vars, Separation, JobsExcludeApprovals,
                              FreshRunsAreAlone, Resumes
        <2>4. PendingMatchesStatus'
            BY <1>3 DEF vars, Separation, PendingMatchesStatus
        <2> QED
            BY <1>1, <2>2, <2>3, <2>4 DEF Separation
    <1> QED
        BY <1>2, <1>3

\* The strengthened invariant: jobs and approvals never meet.
THEOREM Separated == Spec => []Separation
    BY InitSeparated, SeparationStep, PTL DEF Spec

\* No interleaving, crash, restart, refusal or lost reply ever makes a second copy of a
\* run's job: the unlocked check-then-write of ProcessAsyncJob is safe.
THEOREM OneCopy == Spec => []OneCopyPerRun
    BY Separated, PTL DEF Separation

\* The job side and the approval side never hold the same run.
THEOREM Exclusion == Spec => []JobsExcludeApprovals
    BY Separated, PTL DEF Separation

\* A run shows waiting_approval exactly while it can be resumed.
THEOREM PendingMatches == Spec => []PendingMatchesStatus
    BY Separated, PTL DEF Separation

-----------------------------------------------------------------------------
(* Local copies are current: what an actor of the job side has in hand is   *)
(* what the repository says, for all runs but the unacknowledged ones.      *)

QueuedJobs == {ready[i] : i \in 1..Len(ready)} \union delayed

\* A run with such a job waits for its next attempt.
JobFits(job) ==
    /\ runs[job.run].status = "queued"
    /\ runs[job.run].mode = "async"
    /\ runs[job.run].attempt = job.attempt
    /\ executions[job.run] = job.attempt
    /\ job.attempt < MaxAttempts

\* What a worker has in hand: the job of a queued run, or the row of a run that
\* it has started and that nobody else has written since.
HeldFits(w) ==
    LET r   == worker[w].job.run
        row == worker[w].row
    IN  /\ worker[w].pc \in {"inspect", "claim", "requeue"} => JobFits(worker[w].job)
        /\ worker[w].pc \in {"claim", "execute", "decide"} => row = runs[r]
        /\ worker[w].pc \in {"execute", "decide"} =>
                row.mode = "async" /\ row.attempt = executions[r] /\ row.attempt <= MaxAttempts
        /\ worker[w].pc = "execute" => row.status = "running"
        /\ worker[w].pc = "decide" => row.status = "failed" /\ row.err # "rejected"

\* A run in the hands of its request is as the request has written it.
StartFits(r) ==
    /\ api[r] = "new" => runs[r] = Absent
    /\ api[r] = "execute" => /\ runs[r].status = "running" /\ runs[r].mode = "sync"
                             /\ runs[r].attempt = 0
    /\ api[r] \in {"enqueue", "markFailed"} =>
            /\ runs[r] = Submitted /\ ~Busy(r)
            /\ \A p \in Resumers : ~Resumes(p, r)
    /\ api[r] \in {"new", "execute", "enqueue", "markFailed"} => executions[r] = 0

Current ==
    /\ \A r \in Runs : /\ api[r] \in {"new", "execute", "enqueue"} => r \notin unacked
                       /\ r \in unacked \/ StartFits(r)
    /\ \A job \in QueuedJobs : job.run \in unacked \/ JobFits(job)
    /\ \A w \in Workers : worker[w] # Idle => worker[w].job.run \in unacked \/ HeldFits(w)

CurrentInv == Separation /\ Current

\* The jobs of the queue, as a set.
LEMMA QueuedTyped ==
    ASSUME TypeOK
    PROVE  /\ QueuedJobs \subseteq Job
           /\ \A job \in QueuedJobs : job.run \in Runs /\ InQueue(job.run)
           /\ \A r \in Runs : InQueue(r) => \E job \in QueuedJobs : job.run = r
    <1>1. \A i \in 1..Len(ready) : ready[i] \in Job
        BY DEF TypeOK
    <1>2. delayed \subseteq Job
        BY DEF TypeOK
    <1> QED
        BY <1>1, <1>2 DEF QueuedJobs, InQueue, IsReady, IsDelayed, Job

\* A step about run r leaves what is current about the others alone.
LEMMA CurrentFrame ==
    ASSUME CurrentInv, TypeOK', NEW r \in Runs,
           \A q \in Runs \ {r} :
                /\ runs'[q] = runs[q] /\ executions'[q] = executions[q]
                /\ api'[q] = api[q] /\ (q \in unacked' <=> q \in unacked)
                /\ Busy(q)' => Busy(q)
                /\ \A p \in Resumers : Resumes(p, q)' => Resumes(p, q) \/ pending[q] # 0,
           \A job \in QueuedJobs' :
                IF job.run = r THEN r \in unacked' \/ JobFits(job)' ELSE job \in QueuedJobs,
           \A w \in Workers : worker'[w] # Idle =>
                IF worker'[w].job.run = r THEN r \in unacked' \/ HeldFits(w)'
                ELSE worker'[w] = worker[w],
           api'[r] \in {"new", "execute", "enqueue"} => r \notin unacked',
           r \in unacked' \/ StartFits(r)'
    PROVE  Current'
    <1> USE DEF CurrentInv, Current
    <1>1. ASSUME NEW q \in Runs \ {r}
          PROVE  /\ api'[q] \in {"new", "execute", "enqueue"} => q \notin unacked'
                 /\ q \in unacked' \/ StartFits(q)'
        <2>1. CASE q \in unacked
            BY <2>1
        <2>2. CASE q \notin unacked
            <3>1. StartFits(q)
                BY <2>2
            <3>2. Submitted.status = "queued"
                BY DEF Submitted
            <3>3. api[q] \in {"enqueue", "markFailed"} => pending[q] = 0
                BY <3>1, <3>2 DEF StartFits, Separation, PendingMatchesStatus
            <3> QED
                BY <2>2, <3>1, <3>3 DEF StartFits
        <2> QED
            BY <2>1, <2>2
    <1>2. ASSUME NEW job \in QueuedJobs'
          PROVE  job.run \in unacked' \/ JobFits(job)'
        <2>1. job.run \in Runs
            <3>1. (\A i \in 1..Len(ready') : ready'[i] \in Job) /\ delayed' \subseteq Job
                BY DEF TypeOK
            <3>2. job \in Job
                BY <1>2, <3>1 DEF QueuedJobs
            <3> QED
                BY <3>2 DEF Job
        <2> QED
            BY <1>2, <2>1 DEF JobFits
    <1>3. ASSUME NEW w \in Workers, worker'[w] # Idle
          PROVE  worker'[w].job.run \in unacked' \/ HeldFits(w)'
        <2>1. worker'[w].job.run \in Runs
            BY <1>3 DEF TypeOK, Engaged, Job
        <2> QED
            BY <1>3, <2>1 DEF HeldFits, JobFits
    <1> QED
        BY <1>1, <1>2, <1>3

\* Jobs and workers of a run exist only while it is busy.
LEMMA BusyJobs ==
    ASSUME TypeOK, NEW r \in Runs, ~Busy(r)
    PROVE  /\ \A job \in QueuedJobs : job.run # r
           /\ \A w \in Workers : worker[w] # Idle => worker[w].job.run # r
    BY QueuedTyped DEF Busy, IsHeld, Holds

\* The request that starts a run writes it only while nobody else has it.
LEMMA ApiCurrent ==
    ASSUME CurrentInv, TypeOK', NEW r \in Runs,
           \/ Submit(r) \/ ApiStep(r)
           \/ EnqueueRefused(r) \/ EnqueueReplyLost(r) \/ ApiDies(r)
    PROVE  Current'
    <1> USE DEF CurrentInv, Separation
    <1>0. /\ \A q \in Runs : /\ api[q] \in {"new", "execute", "enqueue"} => q \notin unacked
                             /\ q \in unacked \/ StartFits(q)
          /\ \A job \in QueuedJobs : job.run \in unacked \/ JobFits(job)
          /\ \A w \in Workers : worker[w] # Idle => worker[w].job.run \in unacked \/ HeldFits(w)
        BY DEF Current
    <1>1. UNCHANGED <<delayed, worker, resumer, executions>>
        BY DEF Submit, StartSync, StartAsync, ApiStep, SyncEnds, Enqueue, MarkEnqueueFailed,
               EnqueueRefused, EnqueueReplyLost, ApiDies, repo, queue, history
    <1>2. \A q \in Runs : /\ IsHeld(q)' <=> IsHeld(q)
                          /\ IsDelayed(q)' <=> IsDelayed(q)
                          /\ \A p \in Resumers : Resumes(p, q)' <=> Resumes(p, q)
        BY <1>1 DEF IsHeld, Holds, IsDelayed, Resumes
    \* The steps that leave the list alone.
    <1>3. ASSUME ready' = ready, unacked' = unacked,
                 NEW row, NEW at, runs' = [runs EXCEPT ![r] = row],
                 api' = [api EXCEPT ![r] = at],
                 row = runs[r] \/ ~Busy(r) \/ r \in unacked,
                 at \in {"new", "execute", "enqueue"} => r \notin unacked',
                 r \in unacked' \/ StartFits(r)'
          PROVE  Current'
        <2>1. QueuedJobs' = QueuedJobs /\ \A q \in Runs : Busy(q)' <=> Busy(q)
            BY <1>1, <1>2, <1>3 DEF QueuedJobs, Busy, InQueue, IsReady
        <2>2. \A q \in Runs : /\ q # r => runs'[q] = runs[q] /\ api'[q] = api[q]
                              /\ runs'[r] = row /\ api'[r] = at
            BY <1>3 DEF TypeOK
        <2>3. ASSUME NEW job \in QueuedJobs', job.run = r
              PROVE  r \in unacked' \/ JobFits(job)'
            BY <1>0, <1>1, <1>3, <2>1, <2>2, <2>3, BusyJobs DEF JobFits
        <2>4. ASSUME NEW w \in Workers, worker'[w] # Idle, worker'[w].job.run = r
              PROVE  r \in unacked' \/ HeldFits(w)'
            BY <1>0, <1>1, <1>3, <2>2, <2>4, BusyJobs DEF HeldFits, JobFits
        <2>5. \A q \in Runs \ {r} :
                /\ runs'[q] = runs[q] /\ executions'[q] = executions[q]
                /\ api'[q] = api[q] /\ (q \in unacked' <=> q \in unacked)
                /\ Busy(q)' => Busy(q)
                /\ \A p \in Resumers : Resumes(p, q)' => Resumes(p, q) \/ pending[q] # 0
            BY <1>1, <1>2, <1>3, <2>1, <2>2
        <2> QED
            BY <1>1, <1>3, <2>1, <2>2, <2>3, <2>4, <2>5, CurrentFrame
    <1>4. api[r] = "new" => ~Busy(r) /\ \A p \in Resumers : ~Resumes(p, r)
        BY DEF FreshRunsAreAlone
    <1>5. CASE StartSync(r)
        <2> DEFINE row == [status |-> "running", mode |-> "sync", attempt |-> 0, err |-> "none"]
        <2>1. api[r] = "new" /\ ready' = ready /\ unacked' = unacked
              /\ runs' = [runs EXCEPT ![r] = row] /\ api' = [api EXCEPT ![r] = "execute"]
            BY <1>5 DEF StartSync, queue, history
        <2>2. api'[r] = "execute" /\ runs'[r] = row
            BY <2>1 DEF TypeOK
        <2>3. executions[r] = 0 /\ r \notin unacked
            BY <1>0, <2>1 DEF StartFits
        <2>4. StartFits(r)'
            BY <1>1, <2>2, <2>3 DEF StartFits
        <2> HIDE DEF row
        <2> QED
            BY <1>3, <1>4, <2>1, <2>3, <2>4
    <1>6. CASE StartAsync(r)
        <2>1. api[r] = "new" /\ ready' = ready /\ unacked' = unacked
              /\ runs' = [runs EXCEPT ![r] = Submitted] /\ api' = [api EXCEPT ![r] = "enqueue"]
            BY <1>6 DEF StartAsync, queue, history
        <2>2. api'[r] = "enqueue" /\ runs'[r] = Submitted
            BY <2>1 DEF TypeOK
        <2>3. executions[r] = 0 /\ r \notin unacked
            BY <1>0, <2>1 DEF StartFits
        <2>4. ~Busy(r)'
            BY <1>1, <1>2, <1>4, <2>1 DEF Busy, InQueue, IsReady
        <2>5. StartFits(r)'
            BY <1>1, <1>2, <1>4, <2>1, <2>2, <2>3, <2>4 DEF StartFits
        <2> QED
            BY <1>3, <1>4, <2>1, <2>3, <2>5
    <1>7. CASE SyncEnds(r)
        <2>1. api[r] = "execute" /\ ready' = ready /\ unacked' = unacked
              /\ api' = [api EXCEPT ![r] = "done"]
            BY <1>7 DEF SyncEnds, queue, history
        <2>2. PICK row : runs' = [runs EXCEPT ![r] = row]
            BY <1>7 DEF SyncEnds, ExecutionFails, ExecutionPauses, ExecutionCompletes,
                        CompleteRun, SavePending
        <2>3. ~Busy(r)
            BY <2>1 DEF FreshRunsAreAlone
        <2>4. api'[r] = "done"
            BY <2>1 DEF TypeOK
        <2>5. StartFits(r)'
            BY <2>4 DEF StartFits
        <2> QED
            BY <1>3, <2>1, <2>2, <2>3, <2>5
    <1>8. CASE MarkEnqueueFailed(r)
        <2>1. api[r] = "markFailed" /\ ready' = ready /\ unacked' = unacked
              /\ api' = [api EXCEPT ![r] = "done"]
            BY <1>8 DEF MarkEnqueueFailed, queue, history
        <2>2. PICK row : runs' = [runs EXCEPT ![r] = row]
            BY <1>8 DEF MarkEnqueueFailed, CompleteRun
        <2>3. ~Busy(r) \/ r \in unacked
            BY <1>0, <2>1 DEF StartFits
        <2>4. api'[r] = "done"
            BY <2>1 DEF TypeOK
        <2>5. StartFits(r)'
            BY <2>4 DEF StartFits
        <2> QED
            BY <1>3, <2>1, <2>2, <2>3, <2>5
    <1>9. CASE EnqueueRefused(r) \/ ApiDies(r)
        <2>1. PICK at \in {"markFailed", "done"} : api' = [api EXCEPT ![r] = at] /\ (at = "markFailed" => api[r] = "enqueue")
            BY <1>9 DEF EnqueueRefused, ApiDies
        <2>2. ready' = ready /\ unacked' = unacked /\ runs' = runs
            BY <1>9 DEF EnqueueRefused, ApiDies, queue, history, repo
        <2>3. runs' = [runs EXCEPT ![r] = runs[r]] /\ api'[r] = at
            BY <2>1, <2>2 DEF TypeOK
        <2>4. Busy(r)' <=> Busy(r)
            BY <1>1, <1>2, <2>2 DEF Busy, InQueue, IsReady
        <2>5. r \in unacked \/ StartFits(r)'
            BY <1>0, <1>1, <1>2, <2>1, <2>2, <2>3, <2>4 DEF StartFits
        <2> QED
            BY <1>3, <2>1, <2>2, <2>3, <2>5
    <1>10. CASE Enqueue(r) \/ EnqueueReplyLost(r)
        <2> DEFINE job == [run |-> r, attempt |-> 0]
        <2>1. /\ api[r] = "enqueue" /\ ready' = Append(ready, job)
              /\ runs' = runs /\ unacked' \subseteq unacked \union {r} /\ unacked \subseteq unacked'
              /\ \/ api' = [api EXCEPT ![r] = "done"]
                 \/ api' = [api EXCEPT ![r] = "markFailed"] /\ r \in unacked'
            BY <1>10 DEF Enqueue, EnqueueReplyLost, PushFirstJob, repo, history
        <2>2. api'[r] = "done" \/ (api'[r] = "markFailed" /\ r \in unacked')
            <3>1. api \in [Runs -> {"new", "execute", "enqueue", "markFailed", "done"}]
                BY DEF TypeOK
            <3>2. CASE api' = [api EXCEPT ![r] = "done"]
                BY <3>1, <3>2
            <3>3. CASE api' = [api EXCEPT ![r] = "markFailed"] /\ r \in unacked'
                BY <3>1, <3>3
            <3> QED
                BY <2>1, <3>2, <3>3
        <2>3. r \in unacked' \/ StartFits(r)'
            BY <2>2 DEF StartFits
        <2>4. runs[r] = Submitted /\ executions[r] = 0
            BY <1>0, <2>1 DEF StartFits
        <2>5. JobFits(job)'
            <3>1. 0 < MaxAttempts
                BY MaxAttemptsAssumption
            <3>2. runs'[r] = Submitted /\ executions'[r] = 0
                BY <1>1, <2>1, <2>4
            <3> QED
                BY <3>1, <3>2 DEF JobFits, Submitted
        <2>6. QueuedJobs' = QueuedJobs \union {job}
            <3>1. ready \in Seq(Job) /\ job \in Job
                BY DEF TypeOK, Job
            <3>2. /\ Len(ready') = Len(ready) + 1 /\ Len(ready) \in Nat
                  /\ \A i \in 1..Len(ready) : ready'[i] = ready[i]
                  /\ ready'[Len(ready) + 1] = job
                BY <2>1, <3>1
            <3>3. {ready'[i] : i \in 1..Len(ready')} = {ready[i] : i \in 1..Len(ready)} \union {job}
                BY <3>2
            <3> QED
                BY <1>1, <3>3 DEF QueuedJobs
        <2>7. \A q \in Runs : Busy(q)' => Busy(q) \/ q = r
            BY <1>10, EnqueueCopies
        <2>8. \A q \in Runs \ {r} :
                /\ runs'[q] = runs[q] /\ executions'[q] = executions[q]
                /\ api'[q] = api[q] /\ (q \in unacked' <=> q \in unacked)
                /\ Busy(q)' => Busy(q)
                /\ \A p \in Resumers : Resumes(p, q)' => Resumes(p, q) \/ pending[q] # 0
            BY <1>1, <1>2, <2>1, <2>7 DEF TypeOK
        <2>9. ~Busy(r)
            BY <2>1 DEF FreshRunsAreAlone
        <2>10. \A j \in QueuedJobs' :
                IF j.run = r THEN r \in unacked' \/ JobFits(j)' ELSE j \in QueuedJobs
            BY <2>5, <2>6, <2>9, BusyJobs
        <2>11. \A w \in Workers : worker'[w] # Idle =>
                worker'[w].job.run # r /\ worker'[w] = worker[w]
            BY <1>1, <2>9, BusyJobs
        <2> HIDE DEF job
        <2> QED
            BY <2>2, <2>3, <2>8, <2>10, <2>11, CurrentFrame
    <1> QED
        BY <1>5, <1>6, <1>7, <1>8, <1>9, <1>10 DEF Submit, ApiStep

\* A job that moves through the queue takes its run's row as it is.
LEMMA QueueStepCurrent ==
    ASSUME CurrentInv, TypeOK',
           \/ \E r \in Runs : Promote(r) \/ PromotionBreaks(r)
           \/ \E w \in Workers : Dequeue(w) \/ EnqueueAfter(w)
    PROVE  Current'
    <1> USE DEF CurrentInv, Separation
    <1>0. /\ \A q \in Runs : /\ api[q] \in {"new", "execute", "enqueue"} => q \notin unacked
                             /\ q \in unacked \/ StartFits(q)
          /\ \A job \in QueuedJobs : job.run \in unacked \/ JobFits(job)
          /\ \A w \in Workers : worker[w] # Idle => worker[w].job.run \in unacked \/ HeldFits(w)
        BY DEF Current
    <1>1. UNCHANGED <<runs, lastStep, pending, api, resumer, executions, unacked>>
        BY DEF Promote, PromotionBreaks, Dequeue, EnqueueAfter, repo, history
    <1>2. \A q \in Runs : Busy(q)' => Busy(q)
        BY PromoteCopies, PromotionBreaksCopies, DequeueCopies, EnqueueAfterCopies
    <1>3. ASSUME NEW q \in Runs
          PROVE  /\ api'[q] \in {"new", "execute", "enqueue"} => q \notin unacked'
                 /\ q \in unacked' \/ StartFits(q)'
        BY <1>0, <1>1, <1>2 DEF StartFits, Resumes
    <1>4. \A job : JobFits(job)' <=> JobFits(job)
        BY <1>1 DEF JobFits
    <1>5. \A w \in Workers : worker'[w] = worker[w] => (HeldFits(w)' <=> HeldFits(w))
        BY <1>1, <1>4 DEF HeldFits
    <1>6. ready \in Seq(Job) /\ Len(ready) \in Nat /\ delayed \subseteq Job
        BY DEF TypeOK
    <1>7. ASSUME NEW r \in Runs, Promote(r) \/ PromotionBreaks(r)
          PROVE  QueuedJobs' \subseteq QueuedJobs /\ worker' = worker
        <2>1. CASE Promote(r)
            <3>1. PICK job \in delayed : delayed' = delayed \ {job} /\ ready' = Append(ready, job)
                                         /\ worker' = worker
                BY <2>1 DEF Promote
            <3>2. /\ Len(ready') = Len(ready) + 1
                  /\ \A i \in 1..Len(ready) : ready'[i] = ready[i]
                  /\ ready'[Len(ready) + 1] = job
                BY <1>6, <3>1
            <3>3. {ready'[i] : i \in 1..Len(ready')} \subseteq {ready[i] : i \in 1..Len(ready)} \union {job}
                BY <1>6, <3>2
            <3> QED
                BY <3>1, <3>3 DEF QueuedJobs
        <2>2. CASE PromotionBreaks(r)
            BY <2>2 DEF PromotionBreaks, QueuedJobs
        <2> QED
            BY <1>7, <2>1, <2>2
    <1>8. ASSUME NEW r \in Runs, Promote(r) \/ PromotionBreaks(r)
          PROVE  Current'
        BY <1>0, <1>1, <1>3, <1>4, <1>5, <1>7, <1>8 DEF Current
    <1>9. ASSUME NEW w \in Workers, Dequeue(w)
          PROVE  Current'
        <2> DEFINE new == [pc |-> "inspect", job |-> Head(ready), row |-> Absent]
        <2>1. /\ ready # <<>> /\ ready' = Tail(ready) /\ delayed' = delayed
              /\ worker' = [worker EXCEPT ![w] = new]
            BY <1>9 DEF Dequeue
        <2>2. /\ Len(ready) > 0 /\ Head(ready) = ready[1] /\ Len(ready') = Len(ready) - 1
              /\ \A i \in 1..Len(ready') : ready'[i] = ready[i + 1]
            BY <1>6, <2>1
        <2>3. Head(ready) \in QueuedJobs
            <3>1. 1 \in 1..Len(ready)
                BY <1>6, <2>2
            <3> QED
                BY <2>2, <3>1 DEF QueuedJobs
        <2>4. QueuedJobs' \subseteq QueuedJobs
            <3>1. \A i \in 1..Len(ready') : i + 1 \in 1..Len(ready)
                BY <1>6, <2>2
            <3> QED
                BY <2>1, <2>2, <3>1 DEF QueuedJobs
        <2>5. worker'[w] = new /\ \A v \in Workers : v # w => worker'[v] = worker[v]
            BY <2>1 DEF TypeOK
        <2>6. new.job.run \in unacked' \/ HeldFits(w)'
            BY <1>0, <1>1, <1>4, <2>3, <2>5 DEF HeldFits
        <2>7. \A v \in Workers : worker'[v] # Idle => worker'[v].job.run \in unacked' \/ HeldFits(v)'
            BY <1>0, <1>1, <1>5, <2>5, <2>6
        <2>8. \A job \in QueuedJobs' : job.run \in unacked' \/ JobFits(job)'
            BY <1>0, <1>1, <1>4, <2>4
        <2> QED
            BY <1>3, <2>7, <2>8 DEF Current
    <1>10. ASSUME NEW w \in Workers, EnqueueAfter(w)
           PROVE  Current'
        <2>1. /\ worker[w].pc = "requeue" /\ ready' = ready
              /\ delayed' = delayed \union {worker[w].job}
              /\ worker' = [worker EXCEPT ![w] = Idle]
            BY <1>10 DEF EnqueueAfter
        <2>2. worker[w].job.run \in unacked \/ JobFits(worker[w].job)
            BY <1>0, <2>1 DEF HeldFits, Idle
        <2>3. QueuedJobs' = QueuedJobs \union {worker[w].job}
            BY <2>1 DEF QueuedJobs
        <2>4. \A v \in Workers : worker'[v] # Idle => worker'[v] = worker[v]
            BY <2>1 DEF TypeOK
        <2>5. \A v \in Workers : worker'[v] # Idle => worker'[v].job.run \in unacked' \/ HeldFits(v)'
            BY <1>0, <1>1, <1>5, <2>4
        <2>6. \A job \in QueuedJobs' : job.run \in unacked' \/ JobFits(job)'
            BY <1>0, <1>1, <1>4, <2>2, <2>3
        <2> QED
            BY <1>3, <2>5, <2>6 DEF Current
    <1> QED
        BY <1>8, <1>9, <1>10

\* A worker keeps in hand what it writes.
LEMMA JobStepCurrent ==
    ASSUME CurrentInv, TypeOK', NEW w \in Workers, JobStep(w)
    PROVE  Current'
    <1> USE DEF CurrentInv, Separation
    <1>r. PICK r \in Runs : r = worker[w].job.run
        BY JobStepFrame
    <1> DEFINE row == worker[w].row
    <1>0. /\ UNCHANGED <<ready, delayed, api, resumer>>
          /\ worker[w] \in Engaged /\ r = worker[w].job.run
          /\ Holds(w, r) /\ IsHeld(r)
          /\ \A v \in Workers, q \in Runs : Holds(v, q)' => Holds(v, q)
        BY <1>r, JobStepFrame DEF IsHeld
    <1>1. UNCHANGED unacked
        BY DEF JobStep, Inspect, Claim, LookupFails, JobFails, JobPauses, JobCompletes,
               MarkAsyncRetry, MarkDeadLetter, WorkerDies, history
    <1>2. /\ OneCopyPerRun' /\ \A q \in Runs : Busy(q)' => Busy(q)
        BY <1>0, FewerCopies
    <1>3. /\ Busy(r) /\ pending[r] = 0
          /\ api[r] \notin {"new", "enqueue", "execute"}
          /\ ~InQueue(r)
        BY <1>0 DEF Busy, JobsExcludeApprovals, FreshRunsAreAlone, OneCopyPerRun
    <1>4. r \in unacked \/ HeldFits(w)
        BY <1>0 DEF Current, Holds
    <1>5. r \in unacked' \/ StartFits(r)'
        BY <1>0, <1>1, <1>3 DEF StartFits, Current
    <1>6. QueuedJobs' = QueuedJobs /\ \A job \in QueuedJobs' : job.run # r
        BY <1>0, <1>3, QueuedTyped DEF QueuedJobs
    <1>7. ASSUME NEW new, worker' = [worker EXCEPT ![w] = new],
                 \A q \in Runs \ {r} : runs'[q] = runs[q] /\ executions'[q] = executions[q],
                 new = Idle \/ r \in unacked \/ HeldFits(w)'
          PROVE  Current'
        <2>1. worker'[w] = new /\ \A v \in Workers : v # w => worker'[v] = worker[v]
            BY <1>7 DEF TypeOK
        <2>2. ASSUME NEW v \in Workers, worker'[v] # Idle
              PROVE  IF worker'[v].job.run = r THEN r \in unacked' \/ HeldFits(v)'
                     ELSE worker'[v] = worker[v]
            <3>1. CASE v = w
                <4>1. worker'[v].job.run \in Runs
                    BY <2>2 DEF TypeOK, Engaged, Job
                <4>2. worker'[v].job.run = r
                    <5>1. PICK q \in Runs : q = worker'[v].job.run
                        BY <4>1
                    <5>2. Holds(v, q)'
                        BY <2>2, <5>1 DEF Holds
                    <5> QED
                        BY <1>0, <3>1, <5>1, <5>2 DEF Holds
                <4> QED
                    BY <1>1, <1>7, <2>1, <2>2, <3>1, <4>2
            <3>2. CASE v # w
                <4>1. worker[v].job.run # r
                    BY <1>0, <2>1, <2>2, <3>2 DEF OneCopyPerRun, Holds
                <4> QED
                    BY <2>1, <3>2, <4>1
            <3> QED
                BY <3>1, <3>2
        <2>3. \A q \in Runs \ {r} :
                /\ runs'[q] = runs[q] /\ executions'[q] = executions[q]
                /\ api'[q] = api[q] /\ (q \in unacked' <=> q \in unacked)
                /\ Busy(q)' => Busy(q)
                /\ \A p \in Resumers : Resumes(p, q)' => Resumes(p, q) \/ pending[q] # 0
            BY <1>0, <1>1, <1>2, <1>7 DEF Resumes
        <2>4. \A job \in QueuedJobs' :
                IF job.run = r THEN r \in unacked' \/ JobFits(job)' ELSE job \in QueuedJobs
            BY <1>6
        <2>5. api'[r] \in {"new", "execute", "enqueue"} => r \notin unacked'
            BY <1>0, <1>3
        <2> QED
            BY <1>5, <2>2, <2>3, <2>4, <2>5, CurrentFrame
    <1>8. row \in Row /\ worker[w].job \in Job /\ runs \in [Runs -> Row] /\ worker \in [Workers -> {Idle} \union Engaged]
        BY <1>0 DEF Engaged, TypeOK
    <1>9. CASE WorkerDies(w) \/ JobPauses(w) \/ JobCompletes(w) \/ MarkDeadLetter(w)
        <2>1. worker' = [worker EXCEPT ![w] = Idle] /\ executions' = executions
            BY <1>9 DEF WorkerDies, JobPauses, JobCompletes, MarkDeadLetter, history
        <2>2. \A q \in Runs \ {r} : runs'[q] = runs[q]
            BY <1>0, <1>8, <1>9
               DEF WorkerDies, JobPauses, JobCompletes, MarkDeadLetter, ExecutionPauses,
                   ExecutionCompletes, CompleteRun, SavePending, UpdateRun, repo
        <2> QED
            BY <1>7, <2>1, <2>2
    <1>10. CASE Inspect(w)
        <2>1. runs' = runs /\ executions' = executions
            BY <1>10 DEF Inspect, repo, history
        <2>2. PICK new : worker' = [worker EXCEPT ![w] = new] /\
                IF runs[r].status = "queued" THEN new = [worker[w] EXCEPT !.pc = "claim", !.row = runs[r]]
                ELSE IF runs[r].status = "failed" THEN new = [worker[w] EXCEPT !.pc = "decide", !.row = runs[r]]
                ELSE new = Idle
            BY <1>0, <1>10 DEF Inspect
        <2>3. worker'[w] = new
            BY <1>8, <2>2
        <2>4. worker[w].pc = "inspect"
            BY <1>10 DEF Inspect
        <2>5. new = Idle \/ r \in unacked \/ HeldFits(w)'
            <3>1. ASSUME r \notin unacked
                  PROVE  HeldFits(w)'
                <4>1. JobFits(worker[w].job) /\ runs[r].status = "queued"
                    BY <1>0, <1>4, <2>4, <3>1 DEF HeldFits, JobFits
                <4>2. /\ worker'[w].pc = "claim" /\ worker'[w].row = runs[r]
                      /\ worker'[w].job = worker[w].job
                    BY <1>0, <2>2, <2>3, <4>1 DEF Engaged
                <4>3. JobFits(worker[w].job)'
                    BY <2>1, <4>1, <4>2 DEF JobFits
                <4> QED
                    BY <1>0, <2>1, <4>2, <4>3 DEF HeldFits
            <3> QED
                BY <3>1
        <2> QED
            BY <1>7, <2>1, <2>2, <2>5
    <1>11. CASE Claim(w)
        <2> DEFINE new == [worker[w] EXCEPT !.pc = "execute", !.row = Claimed(w)]
        <2>1. /\ worker[w].pc = "claim"
              /\ runs' = [runs EXCEPT ![r] = Claimed(w)]
              /\ executions' = [executions EXCEPT ![r] = @ + 1]
              /\ worker' = [worker EXCEPT ![w] = new]
            BY <1>0, <1>11 DEF Claim, UpdateRun
        <2>2. worker'[w] = new /\ new.pc = "execute" /\ new.row = Claimed(w) /\ new.job = worker[w].job
            BY <1>0, <1>8, <2>1 DEF Engaged
        <2>3. runs'[r] = Claimed(w) /\ executions'[r] = executions[r] + 1
            BY <1>8, <2>1 DEF TypeOK
        <2>4. ASSUME r \notin unacked
              PROVE  HeldFits(w)'
            <3>1. JobFits(worker[w].job) /\ row = runs[r]
                BY <1>0, <1>4, <2>1, <2>4 DEF HeldFits
            <3>2. /\ Claimed(w).status = "running" /\ Claimed(w).mode = "async"
                  /\ Claimed(w).attempt = executions[r] + 1 /\ Claimed(w).attempt <= MaxAttempts
                <4>1. worker[w].job.attempt \in Nat /\ worker[w].job.attempt < MaxAttempts /\ executions[r] = worker[w].job.attempt
                    BY <1>0, <1>8, <3>1 DEF JobFits, Job
                <4>2. /\ Claimed(w).status = "running" /\ Claimed(w).mode = row.mode
                      /\ Claimed(w).attempt = worker[w].job.attempt + 1
                    BY <1>8 DEF Claimed, Row
                <4>3. row.mode = "async"
                    BY <1>0, <3>1 DEF JobFits
                <4> QED
                    BY <4>1, <4>2, <4>3, MaxAttemptsAssumption
            <3> QED
                BY <1>0, <2>2, <2>3, <3>2 DEF HeldFits
        <2>5. \A q \in Runs \ {r} : runs'[q] = runs[q] /\ executions'[q] = executions[q]
            BY <1>8, <2>1 DEF TypeOK
        <2> HIDE DEF new
        <2> QED
            BY <1>7, <2>1, <2>4, <2>5
    <1>12. CASE LookupFails(w) \/ JobFails(w)
        <2>1. PICK why \in {"lookup", "node"} :
                /\ worker[w].pc = (IF why = "lookup" THEN "claim" ELSE "execute")
                /\ runs' = [runs EXCEPT ![r] = Failed(row, why)]
                /\ worker' = [worker EXCEPT ![w] = [@ EXCEPT !.pc = "decide", !.row = Failed(row, why)]]
                /\ executions' = executions
            BY <1>0, <1>12 DEF LookupFails, JobFails, ExecutionFails, CompleteRun, history
        <2> DEFINE new == [worker[w] EXCEPT !.pc = "decide", !.row = Failed(row, why)]
        <2>2. worker'[w] = new /\ new.pc = "decide" /\ new.row = Failed(row, why) /\ new.job = worker[w].job
            BY <1>0, <1>8, <2>1 DEF Engaged
        <2>3. runs'[r] = Failed(row, why)
            BY <1>8, <2>1
        <2>4. ASSUME r \notin unacked
              PROVE  HeldFits(w)'
            <3>1. row.mode = "async" /\ row.attempt = executions[r] /\ row.attempt <= MaxAttempts
                BY <1>0, <1>4, <1>8, <2>1, <2>4, MaxAttemptsAssumption DEF HeldFits, JobFits, Job
            <3>2. /\ Failed(row, why).status = "failed" /\ Failed(row, why).err # "rejected"
                  /\ Failed(row, why).mode = row.mode /\ Failed(row, why).attempt = row.attempt
                BY <1>8 DEF Failed, Row
            <3>3. /\ worker'[w].pc = "decide" /\ worker'[w].row = runs'[r] /\ worker'[w].job.run = r
                  /\ executions'[r] = executions[r] /\ worker'[w].row = Failed(row, why)
                <4> HIDE DEF new
                <4> QED
                    BY <1>0, <2>1, <2>2, <2>3
            <3> QED
                BY <3>1, <3>2, <3>3 DEF HeldFits
        <2>5. \A q \in Runs \ {r} : runs'[q] = runs[q] /\ executions'[q] = executions[q]
            BY <1>8, <2>1
        <2>6. worker' = [worker EXCEPT ![w] = new]
            BY <2>1
        <2> HIDE DEF new
        <2> QED
            BY <1>7, <2>4, <2>5, <2>6
    <1>13. CASE MarkAsyncRetry(w)
        <2>0. PICK job : job = [worker[w].job EXCEPT !.attempt = row.attempt]
            OBVIOUS
        <2> DEFINE new == [worker[w] EXCEPT !.pc = "requeue", !.job = job]
                   again == [row EXCEPT !.status = "queued"]
        <2>1. /\ worker[w].pc = "decide" /\ row.attempt < Limit(row)
              /\ runs' = [runs EXCEPT ![r] = again]
              /\ worker' = [worker EXCEPT ![w] = new]
              /\ executions' = executions
            BY <1>0, <1>13, <2>0 DEF MarkAsyncRetry, UpdateRun, history
        <2>2. worker'[w] = new /\ new.pc = "requeue" /\ new.job = job
            BY <1>0, <1>8, <2>1 DEF Engaged
        <2>3. runs'[r] = again /\ job.run = r /\ job.attempt = row.attempt
            BY <1>0, <1>8, <2>0, <2>1 DEF Job
        <2>4. ASSUME r \notin unacked
              PROVE  HeldFits(w)'
            <3>1. row.mode = "async" /\ row.attempt = executions[r] /\ row.attempt < MaxAttempts
                BY <1>0, <1>4, <2>1, <2>4 DEF HeldFits, Limit
            <3>2. again.status = "queued" /\ again.mode = row.mode /\ again.attempt = row.attempt
                BY <1>8 DEF Row
            <3>3. JobFits(job)'
                BY <2>1, <2>3, <3>1, <3>2 DEF JobFits
            <3> QED
                BY <2>2, <3>3 DEF HeldFits
        <2>5. \A q \in Runs \ {r} : runs'[q] = runs[q] /\ executions'[q] = executions[q]
            BY <1>8, <2>1
        <2> HIDE DEF new, again
        <2> QED
            BY <1>7, <2>1, <2>4, <2>5
    <1> QED
        BY <1>9, <1>10, <1>11, <1>12, <1>13 DEF JobStep

\* An approval request writes only the run it has loaded, and loads only a run
\* with a pending state.
LEMMA ResumerFrame ==
    ASSUME TypeOK, NEW p \in Resumers,
           \/ \E r \in Runs : BeginResume(p, r)
           \/ ResumerStep(p) \/ ResumerDies(p)
    PROVE  /\ UNCHANGED <<ready, delayed, api, worker, executions, unacked, dropped>>
           /\ \A s \in Resumers, q \in Runs :
                    Resumes(s, q)' => Resumes(s, q) \/ pending[q] # 0
           /\ \A q \in Runs : runs'[q] = runs[q] \/ Resumes(p, q)
    <1>0. /\ UNCHANGED <<ready, delayed, api, worker, executions, unacked, dropped>>
          /\ resumer \in [Resumers -> {Waiting} \union Request]
          /\ runs \in [Runs -> Row]
        BY DEF BeginResume, LoadPending, LoadRun, ResumerStep, LoadSteps,
               LoadPendingState, Reject, Approve, ResumedEnds, ResumerDies,
               queue, history, TypeOK
    <1>1. ASSUME NEW new, resumer' = [resumer EXCEPT ![p] = new],
                 \/ new.pc \notin {"resolve", "execute"}
                 \/ pending[new.run] # 0
                 \/ Resumes(p, new.run)
          PROVE  \A s \in Resumers, q \in Runs :
                    Resumes(s, q)' => Resumes(s, q) \/ pending[q] # 0
        BY <1>0, <1>1 DEF Resumes
    <1>2. ASSUME NEW r, NEW row, NEW last
          PROVE  \/ Loaded(r, row, last).pc \notin {"resolve", "execute"}
                 \/ pending[Loaded(r, row, last).run] # 0
        BY DEF Loaded, Waiting
    <1>3. CASE (\E r \in Runs : BeginResume(p, r)) \/ LoadPendingState(p)
        <2>1. UNCHANGED runs
            BY <1>3 DEF BeginResume, LoadPending, LoadRun, LoadPendingState, repo
        <2>2. CASE \E r \in Runs : LoadRun(p, r)
            <3>1. PICK r \in Runs : LoadRun(p, r)
                BY <2>2
            <3> QED
                BY <1>0, <1>1, <2>1, <3>1 DEF LoadRun
        <2>3. CASE \E r \in Runs : LoadPending(p, r)
            <3>1. PICK r \in Runs : LoadPending(p, r)
                BY <2>3
            <3> QED
                BY <1>0, <1>1, <1>2, <2>1, <3>1 DEF LoadPending
        <2>4. CASE LoadPendingState(p)
            BY <1>0, <1>1, <1>2, <2>1, <2>4 DEF LoadPendingState
        <2> QED
            BY <1>3, <2>2, <2>3, <2>4 DEF BeginResume
    <1>4. CASE LoadSteps(p)
        <2>1. resumer[p] \in Request
            BY <1>4, Copies DEF LoadSteps
        <2> DEFINE new == [resumer[p] EXCEPT !.pc = "pending", !.last = lastStep[resumer[p].run]]
        <2>2. new.pc = "pending"
            BY <2>1 DEF Request
        <2>3. resumer' = [resumer EXCEPT ![p] = new] /\ runs' = runs
            BY <1>4 DEF LoadSteps, repo
        <2> HIDE DEF new
        <2> QED
            BY <1>0, <1>1, <2>2, <2>3
    <1>5. CASE ResumerDies(p)
        <2>1. resumer' = [resumer EXCEPT ![p] = Waiting] /\ runs' = runs /\ Waiting.pc = "idle"
            BY <1>5 DEF ResumerDies, Waiting, repo
        <2> QED
            BY <1>0, <1>1, <2>1
    <1>6. CASE Approve(p)
        <2> DEFINE new == [resumer[p] EXCEPT !.pc = "execute",
                             !.row = [resumer[p].row EXCEPT !.status = "running",
                                                            !.err = "none"]]
        <2>1. resumer[p] \in Request
            BY <1>6, Copies DEF Approve
        <2>2. new.run = resumer[p].run
            BY <2>1 DEF Request
        <2>3. Resumes(p, new.run)
            BY <1>6, <2>2 DEF Approve, Resumes
        <2>4. runs' = runs /\ resumer' = [resumer EXCEPT ![p] = new]
            BY <1>6 DEF Approve, repo
        <2> HIDE DEF new
        <2> QED
            BY <1>0, <1>1, <2>3, <2>4
    <1>7. CASE Reject(p) \/ ResumedEnds(p)
        <2>1. resumer' = [resumer EXCEPT ![p] = Waiting] /\ Waiting.pc = "idle"
            BY <1>7 DEF Reject, ResumedEnds, Waiting
        <2>2. PICK row : runs' = [runs EXCEPT ![resumer[p].run] = row]
            BY <1>7 DEF Reject, ResumedEnds, ExecutionFails, ExecutionPauses,
                        ExecutionCompletes, CompleteRun, SavePending
        <2>3. \A q \in Runs : runs'[q] = runs[q] \/ q = resumer[p].run
            BY <1>0, <2>2
        <2>4. resumer[p].pc \in {"resolve", "execute"}
            BY <1>7 DEF Reject, ResumedEnds
        <2>5. \A q \in Runs : runs'[q] = runs[q] \/ Resumes(p, q)
            BY <2>3, <2>4 DEF Resumes
        <2> QED
            BY <1>0, <1>1, <2>1, <2>5
    <1> QED
        BY <1>3, <1>4, <1>5, <1>6, <1>7 DEF ResumerStep

\* What an approval request writes is nobody's job.
LEMMA ResumerCurrent ==
    ASSUME CurrentInv, NEW p \in Resumers,
           \/ \E r \in Runs : BeginResume(p, r)
           \/ ResumerStep(p) \/ ResumerDies(p)
    PROVE  Current'
    <1> USE DEF CurrentInv, Separation
    <1>1. /\ UNCHANGED <<ready, delayed, api, worker, executions, unacked, dropped>>
          /\ \A s \in Resumers, q \in Runs :
                    Resumes(s, q)' => Resumes(s, q) \/ pending[q] # 0
          /\ \A q \in Runs : runs'[q] = runs[q] \/ Resumes(p, q)
        BY ResumerFrame
    <1>2. ASSUME NEW q \in Runs, Resumes(p, q)
          PROVE  ~Busy(q) /\ api[q] \notin {"new", "enqueue", "execute"}
        BY <1>2 DEF JobsExcludeApprovals, FreshRunsAreAlone, Busy
    <1>3. \A q \in Runs : Busy(q)' <=> Busy(q)
        BY <1>1 DEF Busy, InQueue, IsReady, IsDelayed, IsHeld, Holds
    <1>4. ASSUME NEW q \in Runs, q \notin unacked
          PROVE  StartFits(q)'
        <2>1. StartFits(q)
            BY <1>4 DEF Current
        <2>2. CASE Resumes(p, q)
            <3>1. api[q] \notin {"new", "enqueue", "execute", "markFailed"}
                BY <1>2, <2>1, <2>2 DEF StartFits
            <3> QED
                BY <1>1, <3>1 DEF StartFits
        <2>3. CASE ~Resumes(p, q)
            <3>1. Submitted.status = "queued"
                BY DEF Submitted
            <3>2. api[q] \in {"enqueue", "markFailed"} => pending[q] = 0
                BY <2>1, <3>1 DEF StartFits, PendingMatchesStatus
            <3> QED
                BY <1>1, <1>3, <2>1, <2>3, <3>2 DEF StartFits
        <2> QED
            BY <2>2, <2>3
    <1>5. ASSUME NEW job \in QueuedJobs, job.run \notin unacked
          PROVE  JobFits(job)'
        <2>1. job.run \in Runs /\ InQueue(job.run) /\ JobFits(job)
            BY <1>5, QueuedTyped DEF Current
        <2>2. runs'[job.run] = runs[job.run]
            BY <1>1, <1>2, <2>1 DEF Busy
        <2> QED
            BY <1>1, <2>1, <2>2 DEF JobFits
    <1>6. ASSUME NEW w \in Workers, worker[w] # Idle, worker[w].job.run \notin unacked
          PROVE  HeldFits(w)'
        <2>1. worker[w].job.run \in Runs
            BY <1>6 DEF TypeOK, Engaged, Job
        <2>2. IsHeld(worker[w].job.run)
            BY <1>6 DEF IsHeld, Holds
        <2>3. runs'[worker[w].job.run] = runs[worker[w].job.run]
            BY <1>1, <1>2, <2>1, <2>2 DEF Busy
        <2>4. HeldFits(w)
            BY <1>6 DEF Current
        <2> QED
            BY <1>1, <2>3, <2>4 DEF HeldFits, JobFits
    <1>7. QueuedJobs' = QueuedJobs
        BY <1>1 DEF QueuedJobs
    <1> QED
        BY <1>1, <1>4, <1>5, <1>6, <1>7 DEF Current

\* After a restart there are no copies.
LEMMA RestartCurrent ==
    ASSUME CurrentInv, Restart
    PROVE  Current'
    <1>1. /\ Len(ready') = 0 /\ delayed' = {}
          /\ \A w \in Workers : worker'[w] = Idle
          /\ runs' = runs /\ executions' = executions /\ unacked' = unacked
          /\ \A r \in Runs : api'[r] = IF api[r] = "new" THEN "new" ELSE "done"
        BY DEF Restart, repo
    <1>2. QueuedJobs' = {}
        <2>1. 1..Len(ready') = {}
            BY <1>1
        <2> QED
            BY <1>1, <2>1 DEF QueuedJobs
    <1>3. ASSUME NEW r \in Runs, r \notin unacked
          PROVE  StartFits(r)'
        BY <1>1, <1>3 DEF StartFits, CurrentInv, Current
    <1> QED
        BY <1>1, <1>2, <1>3 DEF CurrentInv, Current

\* At first there are no copies.
LEMMA InitCurrent == Init => CurrentInv
    <1> SUFFICES ASSUME Init
                 PROVE  CurrentInv
        OBVIOUS
    <1>1. /\ Len(ready) = 0 /\ delayed = {} /\ unacked = {}
          /\ \A r \in Runs : runs[r] = Absent /\ executions[r] = 0 /\ api[r] = "new"
          /\ \A w \in Workers : worker[w] = Idle
        BY DEF Init
    <1>2. QueuedJobs = {}
        <2>1. 1..Len(ready) = {}
            BY <1>1
        <2> QED
            BY <1>1, <2>1 DEF QueuedJobs
    <1>3. \A r \in Runs : StartFits(r)
        BY <1>1 DEF StartFits
    <1> QED
        BY <1>1, <1>2, <1>3, InitSeparated DEF CurrentInv, Current

\* Every step keeps the local copies current.
LEMMA CurrentStep ==
    ASSUME CurrentInv, [Next]_vars
    PROVE  CurrentInv'
    <1>1. Separation'
        BY SeparationStep DEF CurrentInv
    <1>2. TypeOK'
        BY <1>1 DEF Separation
    <1>3. CASE Next
        <2>1. Current'
            BY <1>2, <1>3, ApiCurrent, QueueStepCurrent, JobStepCurrent, ResumerCurrent,
               RestartCurrent DEF Next, Fault, WorkerStep, JobStep
        <2> QED
            BY <1>1, <2>1 DEF CurrentInv
    <1>4. CASE UNCHANGED vars
        <2>1. \A r \in Runs : StartFits(r)' <=> StartFits(r)
            BY <1>4 DEF vars, StartFits, Busy, InQueue, IsReady, IsDelayed, IsHeld, Holds, Resumes
        <2>2. QueuedJobs' = QueuedJobs /\ \A job \in QueuedJobs : JobFits(job)' <=> JobFits(job)
            BY <1>4 DEF vars, QueuedJobs, JobFits
        <2>3. \A w \in Workers : HeldFits(w)' <=> HeldFits(w)
            BY <1>4 DEF vars, HeldFits, JobFits
        <2>4. UNCHANGED <<api, unacked, worker>>
            BY <1>4 DEF vars
        <2>5. Current'
            BY <2>1, <2>2, <2>3, <2>4 DEF CurrentInv, Current
        <2> QED
            BY <1>1, <2>5 DEF CurrentInv
    <1> QED
        BY <1>1, <1>3, <1>4 DEF CurrentInv

\* What an actor of the job side has in hand is always what the repository says.
THEOREM CopiesAreCurrent == Spec => []CurrentInv
    BY InitCurrent, CurrentStep, PTL DEF Spec

-----------------------------------------------------------------------------
(* What the steps do to the row of the run they are about. *)

\* `old` and `new` differ in the status and the error at most.
SameRun(old, new) == new.mode = old.mode /\ new.attempt = old.attempt

\* Run r is written by nobody but the request that starts it.
ApiMove(r) ==
    \/ /\ api[r] = "new"
       /\ \/ api'[r] = "enqueue" /\ runs'[r] = Submitted
          \/ /\ runs'[r].status = "running" /\ runs'[r].mode = "sync"
             /\ runs'[r].attempt = 0
    \/ /\ api[r] = "execute" /\ SameRun(runs[r], runs'[r])
       /\ runs'[r].status \in {"completed", "failed", "waiting_approval"}
       /\ runs'[r].err # "rejected" \/ runs'[r].status # "failed"
    \/ /\ api[r] = "enqueue" /\ runs'[r] = runs[r]
       /\ InQueue(r)' \/ api'[r] = "markFailed"
    \/ /\ api[r] = "markFailed" /\ runs'[r].status = "failed"
       /\ runs'[r].mode = "async" /\ runs'[r].attempt = 0 /\ runs'[r].err = "enqueue"
    \/ runs'[r] = runs[r] /\ r \in dropped'

\* Each step of a starting request is one of these moves.
LEMMA ApiMoves ==
    ASSUME TypeOK, NEW r \in Runs,
           \/ Submit(r) \/ ApiStep(r)
           \/ EnqueueRefused(r) \/ EnqueueReplyLost(r) \/ ApiDies(r)
    PROVE  /\ UNCHANGED <<delayed, worker, resumer, executions>>
           /\ \A q \in Runs \ {r} : runs'[q] = runs[q] /\ api'[q] = api[q]
           /\ \A q \in Runs : InQueue(q) => InQueue(q)'
           /\ unacked \subseteq unacked' /\ dropped \subseteq dropped'
           /\ \A q \in unacked' : q \in unacked \/ (q = r /\ api[q] = "enqueue")
           /\ ApiMove(r)
    <1>1. /\ UNCHANGED <<delayed, worker, resumer, executions>>
          /\ unacked \subseteq unacked' /\ dropped \subseteq dropped'
          /\ \A q \in unacked' : q \in unacked \/ (q = r /\ api[q] = "enqueue")
        BY DEF Submit, StartSync, StartAsync, ApiStep, SyncEnds, Enqueue, MarkEnqueueFailed,
               EnqueueRefused, EnqueueReplyLost, ApiDies, repo, queue, history
    <1>2. /\ runs \in [Runs -> Row] /\ ready \in Seq(Job)
          /\ api \in [Runs -> {"new", "execute", "enqueue", "markFailed", "done"}]
        BY DEF TypeOK
    <1>3. ASSUME ready' = ready
          PROVE  \A q \in Runs : InQueue(q) => InQueue(q)'
        BY <1>1, <1>3 DEF InQueue, IsReady, IsDelayed
    <1>4. ASSUME NEW row, runs' = [runs EXCEPT ![r] = row],
                 NEW at, api' = [api EXCEPT ![r] = at]
          PROVE  /\ \A q \in Runs \ {r} : runs'[q] = runs[q] /\ api'[q] = api[q]
                 /\ runs'[r] = row /\ api'[r] = at
        BY <1>2, <1>4
    <1>5. runs = [runs EXCEPT ![r] = runs[r]]
        BY <1>2
    <1>6. CASE StartSync(r)
        <2> DEFINE row == [status |-> "running", mode |-> "sync", attempt |-> 0, err |-> "none"]
        <2>1. /\ api[r] = "new" /\ ready' = ready
              /\ runs' = [runs EXCEPT ![r] = row] /\ api' = [api EXCEPT ![r] = "execute"]
            BY <1>6 DEF StartSync, queue
        <2>2. row.status = "running" /\ row.mode = "sync" /\ row.attempt = 0
            OBVIOUS
        <2> HIDE DEF row
        <2> QED
            BY <1>1, <1>3, <1>4, <2>1, <2>2 DEF ApiMove
    <1>7. CASE StartAsync(r)
        <2>1. /\ api[r] = "new" /\ ready' = ready
              /\ runs' = [runs EXCEPT ![r] = Submitted] /\ api' = [api EXCEPT ![r] = "enqueue"]
            BY <1>7 DEF StartAsync, queue
        <2> QED
            BY <1>1, <1>3, <1>4, <2>1 DEF ApiMove
    <1>8. CASE SyncEnds(r)
        <2>1. api[r] = "execute" /\ ready' = ready /\ api' = [api EXCEPT ![r] = "done"]
            BY <1>8 DEF SyncEnds, queue
        <2>2. PICK row \in {Failed(runs[r], "node"), [runs[r] EXCEPT !.status = "waiting_approval"],
                            [runs[r] EXCEPT !.status = "completed"]} : runs' = [runs EXCEPT ![r] = row]
            BY <1>8 DEF SyncEnds, ExecutionFails, ExecutionPauses, ExecutionCompletes,
                        CompleteRun, SavePending
        <2>3. /\ SameRun(runs[r], row) /\ row.status \in {"completed", "failed", "waiting_approval"}
              /\ row.err # "rejected" \/ row.status # "failed"
            BY <1>2, <2>2 DEF Failed, SameRun, Row
        <2>4. /\ \A q \in Runs \ {r} : runs'[q] = runs[q] /\ api'[q] = api[q]
              /\ runs'[r] = row /\ api'[r] = "done"
            BY <1>4, <2>1, <2>2
        <2>5. ApiMove(r)
            BY <2>1, <2>3, <2>4 DEF ApiMove
        <2> QED
            BY <1>1, <1>3, <2>1, <2>4, <2>5
    <1>9. CASE MarkEnqueueFailed(r)
        <2>1. /\ api[r] = "markFailed" /\ ready' = ready /\ api' = [api EXCEPT ![r] = "done"]
              /\ runs' = [runs EXCEPT ![r] = Failed(Submitted, "enqueue")]
            BY <1>9 DEF MarkEnqueueFailed, CompleteRun, queue
        <2>2. /\ Failed(Submitted, "enqueue").status = "failed"
              /\ Failed(Submitted, "enqueue").mode = "async"
              /\ Failed(Submitted, "enqueue").attempt = 0
              /\ Failed(Submitted, "enqueue").err = "enqueue"
            BY DEF Failed, Submitted
        <2> QED
            BY <1>1, <1>3, <1>4, <2>1, <2>2 DEF ApiMove
    <1>10. CASE EnqueueRefused(r)
        <2>1. /\ api[r] = "enqueue" /\ ready' = ready /\ api' = [api EXCEPT ![r] = "markFailed"]
              /\ runs' = runs
            BY <1>10 DEF EnqueueRefused, queue, repo
        <2> QED
            BY <1>1, <1>3, <1>4, <1>5, <2>1 DEF ApiMove
    <1>11. CASE ApiDies(r)
        <2>1. /\ ready' = ready /\ api' = [api EXCEPT ![r] = "done"]
              /\ runs' = runs /\ r \in dropped'
            BY <1>11 DEF ApiDies, queue, repo
        <2> QED
            BY <1>1, <1>3, <1>4, <1>5, <2>1 DEF ApiMove
    <1>12. CASE Enqueue(r) \/ EnqueueReplyLost(r)
        <2>1. PICK at : /\ api[r] = "enqueue" /\ runs' = runs
                        /\ ready' = Append(ready, [run |-> r, attempt |-> 0])
                        /\ api' = [api EXCEPT ![r] = at]
            BY <1>12 DEF Enqueue, EnqueueReplyLost, PushFirstJob, repo
        <2>2. PICK job : job = [run |-> r, attempt |-> 0]
            OBVIOUS
        <2>3. job \in Job /\ job.run = r
            BY <2>2 DEF Job
        <2>4. /\ Len(ready) \in Nat /\ Len(ready') = Len(ready) + 1
              /\ \A i \in 1..Len(ready) : ready'[i] = ready[i]
              /\ ready'[Len(ready) + 1] = job
            BY <1>2, <2>1, <2>2, <2>3
        <2>5. \A i \in 1..Len(ready) : i \in 1..Len(ready')
            BY <2>4
        <2>6. \A q \in Runs : InQueue(q) => InQueue(q)'
            BY <1>1, <2>4, <2>5 DEF InQueue, IsReady, IsDelayed
        <2>7. Len(ready) + 1 \in 1..Len(ready')
            BY <2>4
        <2>8. InQueue(r)'
            BY <2>3, <2>4, <2>7 DEF InQueue, IsReady
        <2> QED
            BY <1>1, <1>4, <1>5, <2>1, <2>6, <2>8 DEF ApiMove
    <1> QED
        BY <1>6, <1>7, <1>8, <1>9, <1>10, <1>11, <1>12 DEF Submit, ApiStep

\* A worker writes the run it holds, from the row it has in hand.
JobMove(w, r) ==
    LET row == worker[w].row
    IN  \/ /\ worker[w].pc = "inspect" /\ runs'[r] = runs[r] /\ executions'[r] = executions[r]
           /\ worker'[w].pc # "execute"
           /\ worker'[w] = Idle => runs[r].status \notin {"queued", "failed"}
        \/ /\ worker[w].pc = "claim" /\ worker'[w].pc = "execute"
           /\ executions'[r] = executions[r] + 1
           /\ runs'[r].status = "running" /\ runs'[r].mode = row.mode
           /\ runs'[r].attempt = worker[w].job.attempt + 1
        \/ /\ worker[w].pc \in {"claim", "execute"} /\ executions'[r] = executions[r]
           /\ runs'[r].status = "failed" /\ runs'[r].err # "rejected"
           /\ SameRun(row, runs'[r])
        \/ /\ worker[w].pc = "execute" /\ executions'[r] = executions[r]
           /\ runs'[r].status \in {"completed", "waiting_approval"}
           /\ SameRun(row, runs'[r])
        \/ /\ worker[w].pc = "decide" /\ executions'[r] = executions[r]
           /\ SameRun(row, runs'[r])
           /\ \/ /\ row.attempt < Limit(row) /\ runs'[r].status = "queued"
                 /\ worker'[w] # Idle
              \/ row.attempt >= Limit(row) /\ runs'[r].status = "dead_letter"
        \/ runs'[r] = runs[r] /\ executions'[r] = executions[r] /\ r \in dropped'

\* Each step of a worker between Dequeue and EnqueueAfter is one of these moves.
LEMMA JobMoves ==
    ASSUME TypeOK, NEW w \in Workers, JobStep(w), NEW r \in Runs, r = worker[w].job.run
    PROVE  /\ UNCHANGED <<ready, delayed, api, resumer, unacked>>
           /\ dropped \subseteq dropped'
           /\ \A q \in Runs \ {r} : runs'[q] = runs[q] /\ executions'[q] = executions[q]
           /\ \A v \in Workers \ {w} : worker'[v] = worker[v]
           /\ worker'[w] = Idle \/ Holds(w, r)'
           /\ JobMove(w, r)
    <1> DEFINE row == worker[w].row
    <1>0. /\ worker[w] \in Engaged /\ runs \in [Runs -> Row]
          /\ worker \in [Workers -> {Idle} \union Engaged]
          /\ executions \in [Runs -> Nat]
        BY JobStepFrame DEF TypeOK
    <1>1. row \in Row /\ worker[w].job \in Job
        BY <1>0 DEF Engaged
    <1>2. UNCHANGED <<ready, delayed, api, resumer, unacked>> /\ dropped \subseteq dropped'
        BY JobStepFrame
           DEF JobStep, Inspect, Claim, LookupFails, JobFails, JobPauses, JobCompletes,
               MarkAsyncRetry, MarkDeadLetter, WorkerDies, history
    <1>3. ASSUME NEW new, worker' = [worker EXCEPT ![w] = new],
                 new = Idle \/ new.job.run = r
          PROVE  /\ \A v \in Workers \ {w} : worker'[v] = worker[v]
                 /\ worker'[w] = Idle \/ Holds(w, r)'
                 /\ worker'[w] = new
        BY <1>0, <1>3 DEF Holds
    <1>4. ASSUME NEW new, runs' = [runs EXCEPT ![r] = new]
          PROVE  /\ \A q \in Runs \ {r} : runs'[q] = runs[q]
                 /\ runs'[r] = new
        BY <1>0, <1>4
    <1>5. CASE Inspect(w)
        <2>1. runs' = runs /\ executions' = executions /\ worker[w].pc = "inspect"
            BY <1>5 DEF Inspect, repo, history
        <2>2. PICK new : worker' = [worker EXCEPT ![w] = new] /\
                IF runs[r].status = "queued" THEN new = [worker[w] EXCEPT !.pc = "claim", !.row = runs[r]]
                ELSE IF runs[r].status = "failed" THEN new = [worker[w] EXCEPT !.pc = "decide", !.row = runs[r]]
                ELSE new = Idle
            BY <1>5 DEF Inspect
        <2>3. /\ new.pc # "execute" /\ (new = Idle \/ new.job.run = r)
              /\ new = Idle => runs[r].status \notin {"queued", "failed"}
            <3>1. ASSUME NEW pc \in {"claim", "decide"},
                         new = [worker[w] EXCEPT !.pc = pc, !.row = runs[r]]
                  PROVE  new.pc = pc /\ new.job.run = r /\ new # Idle
                BY <1>0, <3>1 DEF Engaged, Idle
            <3>2. Idle.pc = "poll"
                BY DEF Idle
            <3> QED
                BY <2>2, <3>1, <3>2
        <2> QED
            BY <1>2, <1>3, <2>1, <2>2, <2>3 DEF JobMove
    <1>6. CASE Claim(w)
        <2> DEFINE new == [worker[w] EXCEPT !.pc = "execute", !.row = Claimed(w)]
        <2>1. /\ worker[w].pc = "claim"
              /\ runs' = [runs EXCEPT ![r] = Claimed(w)]
              /\ executions' = [executions EXCEPT ![r] = @ + 1]
              /\ worker' = [worker EXCEPT ![w] = new]
            BY <1>6 DEF Claim, UpdateRun
        <2>2. new.pc = "execute" /\ new.job.run = r
            BY <1>0 DEF Engaged
        <2>3. /\ Claimed(w).status = "running" /\ Claimed(w).mode = row.mode
              /\ Claimed(w).attempt = worker[w].job.attempt + 1
            BY <1>1 DEF Claimed, Row
        <2>4. /\ executions'[r] = executions[r] + 1
              /\ \A q \in Runs \ {r} : executions'[q] = executions[q]
            BY <1>0, <2>1
        <2> HIDE DEF new
        <2> QED
            BY <1>2, <1>3, <1>4, <2>1, <2>2, <2>3, <2>4 DEF JobMove
    <1>7. CASE LookupFails(w) \/ JobFails(w)
        <2>1. PICK why \in {"lookup", "node"} :
                /\ worker[w].pc \in {"claim", "execute"}
                /\ runs' = [runs EXCEPT ![r] = Failed(row, why)]
                /\ worker' = [worker EXCEPT ![w] = [@ EXCEPT !.pc = "decide", !.row = Failed(row, why)]]
                /\ executions' = executions
            BY <1>7 DEF LookupFails, JobFails, ExecutionFails, CompleteRun, history
        <2> DEFINE new == [worker[w] EXCEPT !.pc = "decide", !.row = Failed(row, why)]
        <2>2. new.job.run = r /\ worker' = [worker EXCEPT ![w] = new]
            BY <1>0, <2>1 DEF Engaged
        <2>3. /\ Failed(row, why).status = "failed" /\ Failed(row, why).err # "rejected"
              /\ SameRun(row, Failed(row, why))
            BY <1>1 DEF Failed, Row, SameRun
        <2> HIDE DEF new
        <2> QED
            BY <1>2, <1>3, <1>4, <2>1, <2>2, <2>3 DEF JobMove
    <1>8. CASE JobPauses(w) \/ JobCompletes(w)
        <2>1. PICK status \in {"completed", "waiting_approval"} :
                /\ worker[w].pc = "execute" /\ executions' = executions
                /\ runs' = [runs EXCEPT ![r] = [row EXCEPT !.status = status]]
                /\ worker' = [worker EXCEPT ![w] = Idle]
            BY <1>8 DEF JobPauses, JobCompletes, ExecutionPauses, ExecutionCompletes,
                        CompleteRun, SavePending, history
        <2>2. /\ [row EXCEPT !.status = status].status = status
              /\ SameRun(row, [row EXCEPT !.status = status])
            BY <1>1 DEF Row, SameRun
        <2> QED
            BY <1>2, <1>3, <1>4, <2>1, <2>2 DEF JobMove
    <1>9. CASE MarkAsyncRetry(w)
        <2>0. PICK job : job = [worker[w].job EXCEPT !.attempt = row.attempt]
            OBVIOUS
        <2> DEFINE new == [worker[w] EXCEPT !.pc = "requeue", !.job = job]
                   again == [row EXCEPT !.status = "queued"]
        <2>1. /\ worker[w].pc = "decide" /\ row.attempt < Limit(row)
              /\ runs' = [runs EXCEPT ![r] = again]
              /\ worker' = [worker EXCEPT ![w] = new]
              /\ executions' = executions
            BY <1>9, <2>0 DEF MarkAsyncRetry, UpdateRun, history
        <2>2. job.run = r
            BY <1>1, <2>0 DEF Job
        <2>3. new.job.run = r /\ new.pc = "requeue"
            BY <1>0, <2>2 DEF Engaged
        <2>4. new # Idle
            BY <2>3 DEF Idle
        <2>5. again.status = "queued" /\ SameRun(row, again)
            BY <1>1 DEF Row, SameRun
        <2> HIDE DEF new, again
        <2> QED
            BY <1>2, <1>3, <1>4, <2>1, <2>3, <2>4, <2>5 DEF JobMove
    <1>10. CASE MarkDeadLetter(w)
        <2> DEFINE given == [row EXCEPT !.status = "dead_letter"]
        <2>1. /\ worker[w].pc = "decide" /\ row.attempt >= Limit(row)
              /\ runs' = [runs EXCEPT ![r] = given]
              /\ worker' = [worker EXCEPT ![w] = Idle]
              /\ executions' = executions
            BY <1>10 DEF MarkDeadLetter, UpdateRun, history
        <2>2. given.status = "dead_letter" /\ SameRun(row, given)
            BY <1>1 DEF Row, SameRun
        <2> HIDE DEF given
        <2> QED
            BY <1>2, <1>3, <1>4, <2>1, <2>2 DEF JobMove
    <1>11. CASE WorkerDies(w)
        <2>1. /\ runs' = runs /\ executions' = executions /\ r \in dropped'
              /\ worker' = [worker EXCEPT ![w] = Idle]
            BY <1>11 DEF WorkerDies, repo
        <2> QED
            BY <1>2, <1>3, <2>1 DEF JobMove
    <1> QED
        BY <1>5, <1>6, <1>7, <1>8, <1>9, <1>10, <1>11 DEF JobStep

\* An approval request writes the run that it has loaded, or only its own copy.
ResumerMove(p) ==
    \/ /\ UNCHANGED runs
       /\ \A q \in Resumers \ {p} : resumer'[q] = resumer[q]
       /\ \/ resumer'[p] = Waiting
          \/ \E r \in Runs :
                /\ Resumes(p, r) /\ resumer'[p].run = r
                /\ SameRun(resumer[p].row, resumer'[p].row)
                /\ resumer'[p].pc = "execute"
          \/ \E r \in Runs :
                /\ resumer'[p].run = r /\ resumer'[p].row = runs[r] /\ pending[r] # 0
                /\ resumer'[p].pc = "resolve"
          \/ ~AtomicLoad
          \/ resumer[p].pc \in {"steps", "pending"}
    \/ /\ \A q \in Resumers \ {p} : resumer'[q] = resumer[q]
       /\ resumer'[p] = Waiting
       /\ \E r \in Runs :
            /\ Resumes(p, r) /\ SameRun(resumer[p].row, runs'[r])
            /\ runs'[r].status \in {"completed", "failed", "waiting_approval"}
            /\ \A q \in Runs \ {r} : runs'[q] = runs[q]

\* Each step of an approval request is one of these moves.
LEMMA ResumerMoves ==
    ASSUME TypeOK, NEW p \in Resumers,
           \/ \E r \in Runs : BeginResume(p, r)
           \/ ResumerStep(p) \/ ResumerDies(p)
    PROVE  ResumerMove(p)
    <1>0. /\ resumer \in [Resumers -> {Waiting} \union Request]
          /\ runs \in [Runs -> Row]
        BY DEF TypeOK
    <1>1. ASSUME NEW new, resumer' = [resumer EXCEPT ![p] = new]
          PROVE  resumer'[p] = new /\ \A q \in Resumers \ {p} : resumer'[q] = resumer[q]
        BY <1>0, <1>1
    <1>2. CASE LoadSteps(p) \/ LoadPendingState(p)
        <2>1. PICK new : resumer' = [resumer EXCEPT ![p] = new]
            BY <1>2 DEF LoadSteps, LoadPendingState
        <2>2. UNCHANGED runs /\ resumer[p].pc \in {"steps", "pending"}
            BY <1>2 DEF LoadSteps, LoadPendingState, repo
        <2> QED
            BY <1>1, <2>1, <2>2 DEF ResumerMove
    <1>3. ASSUME NEW r \in Runs, BeginResume(p, r)
          PROVE  ResumerMove(p)
        <2>1. CASE LoadRun(p, r)
            <3>1. PICK new : resumer' = [resumer EXCEPT ![p] = new]
                BY <2>1 DEF LoadRun
            <3>2. UNCHANGED runs /\ ~AtomicLoad
                BY <2>1 DEF LoadRun, repo
            <3> QED
                BY <1>1, <3>1, <3>2 DEF ResumerMove
        <2>2. CASE LoadPending(p, r)
            <3>1. PICK new : new = Loaded(r, runs[r], lastStep[r])
                OBVIOUS
            <3>2. UNCHANGED runs /\ resumer' = [resumer EXCEPT ![p] = new]
                BY <2>2, <3>1 DEF LoadPending, repo
            <3>3. \/ new = Waiting
                  \/ new.run = r /\ new.row = runs[r] /\ pending[r] # 0 /\ new.pc = "resolve"
                BY <3>1 DEF Loaded
            <3> QED
                BY <1>1, <3>2, <3>3 DEF ResumerMove
        <2> QED
            BY <1>3, <2>1, <2>2 DEF BeginResume
    <1>4. CASE ResumerDies(p)
        <2>1. UNCHANGED runs /\ resumer' = [resumer EXCEPT ![p] = Waiting]
            BY <1>4 DEF ResumerDies, repo
        <2> QED
            BY <1>1, <2>1 DEF ResumerMove
    <1>5. CASE Approve(p)
        <2>1. resumer[p] \in Request
            BY <1>5, Copies DEF Approve
        <2>2. PICK r \in Runs : r = resumer[p].run
            BY <2>1 DEF Request
        <2> DEFINE row == [resumer[p].row EXCEPT !.status = "running", !.err = "none"]
                   new == [resumer[p] EXCEPT !.pc = "execute", !.row = row]
        <2>3. UNCHANGED runs /\ resumer' = [resumer EXCEPT ![p] = new] /\ Resumes(p, r)
            BY <1>5, <2>2 DEF Approve, repo, Resumes
        <2>4. SameRun(resumer[p].row, row)
            BY <2>1 DEF Request, Row, SameRun
        <2> HIDE DEF row
        <2>5. new.run = r /\ new.row = row /\ new.pc = "execute"
            BY <2>1, <2>2 DEF Request
        <2> HIDE DEF new
        <2> QED
            BY <1>1, <2>3, <2>4, <2>5 DEF ResumerMove
    <1>6. CASE Reject(p) \/ ResumedEnds(p)
        <2>1. resumer[p] \in Request
            BY <1>6, Copies DEF Reject, ResumedEnds
        <2>2. PICK r \in Runs : r = resumer[p].run
            BY <2>1 DEF Request
        <2> DEFINE row == resumer[p].row
        <2>3. resumer' = [resumer EXCEPT ![p] = Waiting] /\ Resumes(p, r)
            BY <1>6, <2>2 DEF Reject, ResumedEnds, Resumes
        <2>4. PICK new \in {Failed(row, "rejected"), Failed(row, "node"),
                            [row EXCEPT !.status = "waiting_approval"],
                            [row EXCEPT !.status = "completed"]} : runs' = [runs EXCEPT ![r] = new]
            BY <1>6, <2>2 DEF Reject, ResumedEnds, ExecutionFails, ExecutionPauses,
                        ExecutionCompletes, CompleteRun, SavePending
        <2>5. /\ SameRun(row, new)
              /\ new.status \in {"completed", "failed", "waiting_approval"}
            BY <2>1, <2>4 DEF Request, Row, SameRun, Failed
        <2>6. runs'[r] = new /\ \A q \in Runs \ {r} : runs'[q] = runs[q]
            BY <1>0, <2>4
        <2> QED
            BY <1>1, <2>3, <2>5, <2>6 DEF ResumerMove
    <1> QED
        BY <1>2, <1>3, <1>4, <1>5, <1>6 DEF ResumerStep

-----------------------------------------------------------------------------
(* Unfinished runs are carried. *)

Executes(r) == \E w \in Workers : worker[w].pc = "execute" /\ Holds(w, r)

\* A run that is queued or running has a carrier, and one that is running is
\* being executed: a worker that finds it running may drop its job, as Inspect
\* does, because that job is not the run's only carrier.
CarriedRun(r) ==
    \/ r \in dropped
    \/ runs[r].mode # "async"
    \/ /\ runs[r].status = "queued" => IsCarried(r)
       /\ runs[r].status = "running" => Executes(r)

Carried == \A r \in Runs : CarriedRun(r)

CarriedInv == Separation /\ Carried

\* A request that starts a run hands it to the queue or marks it failed.
LEMMA ApiCarried ==
    ASSUME CarriedInv, NEW r \in Runs,
           \/ Submit(r) \/ ApiStep(r)
           \/ EnqueueRefused(r) \/ EnqueueReplyLost(r) \/ ApiDies(r)
    PROVE  Carried'
    <1>1. /\ UNCHANGED <<delayed, worker, resumer, executions>>
          /\ \A q \in Runs \ {r} : runs'[q] = runs[q] /\ api'[q] = api[q]
          /\ \A q \in Runs : InQueue(q) => InQueue(q)'
          /\ unacked \subseteq unacked' /\ dropped \subseteq dropped'
          /\ ApiMove(r)
        BY ApiMoves DEF CarriedInv, Separation
    <1>2. \A q \in Runs : /\ IsHeld(q)' <=> IsHeld(q)
                          /\ Executes(q)' <=> Executes(q)
        BY <1>1 DEF IsHeld, Holds, Executes
    <1>3. ASSUME NEW q \in Runs \ {r}
          PROVE  CarriedRun(q)'
        BY <1>1, <1>2 DEF CarriedInv, Carried, CarriedRun, IsCarried
    <1>4. CarriedRun(r)'
        <2>1. CarriedRun(r)
            BY DEF CarriedInv, Carried
        <2>2. Submitted.status = "queued"
            BY DEF Submitted
        <2> QED
            BY <1>1, <1>2, <2>1, <2>2 DEF ApiMove, CarriedRun, IsCarried
    <1> QED
        BY <1>3, <1>4 DEF Carried

\* The queue passes a run on, or it is dropped with the promoting worker.
LEMMA QueueStepCarried ==
    ASSUME CarriedInv, TypeOK',
           \/ \E r \in Runs : Promote(r) \/ PromotionBreaks(r)
           \/ \E w \in Workers : Dequeue(w) \/ EnqueueAfter(w)
    PROVE  Carried'
    <1> USE DEF CarriedInv, Separation
    <1>1. UNCHANGED <<runs, api>> /\ dropped \subseteq dropped'
        BY DEF Promote, PromotionBreaks, Dequeue, EnqueueAfter, repo, history
    <1>2. /\ ready \in Seq(Job) /\ Len(ready) \in Nat /\ delayed \subseteq Job
          /\ worker \in [Workers -> {Idle} \union Engaged]
        BY DEF TypeOK
    <1>3. ASSUME \A q \in Runs : Busy(q) => Busy(q)' \/ q \in dropped',
                 \A q \in Runs : Executes(q) => Executes(q)'
          PROVE  Carried'
        BY <1>1, <1>3 DEF Carried, CarriedRun, IsCarried, Busy
    <1>4. ASSUME NEW job \in Job, ready' = Append(ready, job)
          PROVE  IsReady(job.run)' /\ \A q \in Runs : IsReady(q) => IsReady(q)'
        <2>1. /\ Len(ready') = Len(ready) + 1 /\ ready'[Len(ready) + 1] = job
              /\ \A i \in 1..Len(ready) : ready'[i] = ready[i]
            BY <1>2, <1>4
        <2>2. Len(ready) + 1 \in 1..Len(ready') /\ \A i \in 1..Len(ready) : i \in 1..Len(ready')
            BY <1>2, <2>1
        <2> QED
            BY <2>1, <2>2 DEF IsReady
    <1>5. ASSUME NEW r \in Runs, Promote(r)
          PROVE  Carried'
        <2>1. PICK job \in delayed : /\ delayed' = delayed \ {job} /\ ready' = Append(ready, job)
                                     /\ worker' = worker
            BY <1>5 DEF Promote
        <2>2. \A q \in Runs : IsDelayed(q) => IsDelayed(q)' \/ q = job.run
            BY <2>1 DEF IsDelayed
        <2>3. \A q \in Runs : /\ IsHeld(q) => IsHeld(q)'
                              /\ Executes(q) => Executes(q)'
            BY <2>1 DEF IsHeld, Holds, Executes
        <2>4. job \in Job
            BY <1>2, <2>1
        <2> QED
            BY <1>3, <1>4, <2>1, <2>2, <2>3, <2>4 DEF Busy, InQueue
    <1>6. ASSUME NEW r \in Runs, PromotionBreaks(r)
          PROVE  Carried'
        <2>1. PICK job \in delayed : delayed' = delayed \ {job} /\ job.run = r
            BY <1>6 DEF PromotionBreaks
        <2>2. worker' = worker /\ ready' = ready /\ r \in dropped'
            BY <1>6 DEF PromotionBreaks
        <2>3. \A q \in Runs : IsDelayed(q) => IsDelayed(q)' \/ q = r
            BY <2>1 DEF IsDelayed
        <2>4. \A q \in Runs : /\ IsHeld(q) => IsHeld(q)'
                              /\ Executes(q) => Executes(q)'
                              /\ IsReady(q) => IsReady(q)'
            BY <2>2 DEF IsHeld, Holds, Executes, IsReady
        <2> QED
            BY <1>3, <2>2, <2>3, <2>4 DEF Busy, InQueue
    <1>7. ASSUME NEW w \in Workers, Dequeue(w)
          PROVE  Carried'
        <2> DEFINE new == [pc |-> "inspect", job |-> Head(ready), row |-> Absent]
        <2>1. /\ ready # <<>> /\ ready' = Tail(ready) /\ delayed' = delayed
              /\ worker[w] = Idle /\ worker' = [worker EXCEPT ![w] = new]
            BY <1>7 DEF Dequeue
        <2>2. /\ Len(ready) > 0 /\ Head(ready) = ready[1] /\ Len(ready') = Len(ready) - 1
              /\ \A i \in 1..Len(ready') : ready'[i] = ready[i + 1]
            BY <1>2, <2>1
        <2>3. worker'[w] = new /\ \A v \in Workers : v # w => worker'[v] = worker[v]
            BY <1>2, <2>1
        <2>4. \A q \in Runs : IsReady(q) => IsReady(q)' \/ q = ready[1].run
            <3>1. ASSUME NEW i \in 1..Len(ready)
                  PROVE  i = 1 \/ (i - 1 \in 1..Len(ready') /\ ready'[i - 1] = ready[i])
                <4>1. i = 1 \/ (i - 1 \in 1..Len(ready') /\ (i - 1) + 1 = i)
                    BY <1>2, <2>2
                <4> QED
                    BY <2>2, <4>1
            <3> QED
                BY <3>1 DEF IsReady
        <2>5. \A q \in Runs : /\ IsHeld(q) => IsHeld(q)'
                              /\ Executes(q) => Executes(q)'
                              /\ IsDelayed(q) => IsDelayed(q)'
            BY <2>1, <2>3 DEF IsHeld, Holds, Executes, IsDelayed
        <2>6. \A q \in Runs : q = ready[1].run => IsHeld(q)'
            <3>1. ready[1].run = Head(ready).run /\ worker'[w].job = Head(ready) /\ worker'[w] # Idle
                BY <2>2, <2>3 DEF Idle
            <3> QED
                BY <3>1 DEF IsHeld, Holds
        <2> QED
            BY <1>3, <2>4, <2>5, <2>6 DEF Busy, InQueue
    <1>8. ASSUME NEW w \in Workers, EnqueueAfter(w)
          PROVE  Carried'
        <2>1. /\ worker[w].pc = "requeue" /\ ready' = ready
              /\ delayed' = delayed \union {worker[w].job}
              /\ worker' = [worker EXCEPT ![w] = Idle]
            BY <1>8 DEF EnqueueAfter
        <2>2. \A v \in Workers : v # w => worker'[v] = worker[v]
            BY <1>2, <2>1
        <2>3. \A q \in Runs : /\ IsHeld(q) => IsHeld(q)' \/ q = worker[w].job.run
                              /\ Executes(q) => Executes(q)'
                              /\ IsReady(q) => IsReady(q)'
                              /\ IsDelayed(q) => IsDelayed(q)'
            BY <2>1, <2>2 DEF IsHeld, Holds, Executes, IsReady, IsDelayed
        <2>4. \A q \in Runs : q = worker[w].job.run => IsDelayed(q)'
            BY <2>1 DEF IsDelayed
        <2> QED
            BY <1>3, <2>3, <2>4 DEF Busy, InQueue
    <1> QED
        BY <1>5, <1>6, <1>7, <1>8

\* A worker lets go of a run only when it is neither queued nor running.
LEMMA JobStepCarried ==
    ASSUME CarriedInv, NEW w \in Workers, JobStep(w)
    PROVE  Carried'
    <1> USE DEF CarriedInv, Separation
    <1>1. PICK r \in Runs : r = worker[w].job.run /\ Holds(w, r)
        BY JobStepFrame
    <1>2. /\ UNCHANGED <<ready, delayed, api, resumer, unacked>>
          /\ dropped \subseteq dropped'
          /\ \A q \in Runs \ {r} : runs'[q] = runs[q] /\ executions'[q] = executions[q]
          /\ \A v \in Workers \ {w} : worker'[v] = worker[v]
          /\ worker'[w] = Idle \/ Holds(w, r)'
          /\ JobMove(w, r)
        BY <1>1, JobMoves
    <1>3. \A q \in Runs : InQueue(q)' <=> InQueue(q)
        BY <1>2 DEF InQueue, IsReady, IsDelayed
    <1>4. ASSUME NEW q \in Runs \ {r}
          PROVE  CarriedRun(q)'
        <2>1. \A v \in Workers : Holds(v, q) => v # w
            BY <1>1 DEF Holds
        <2>2. /\ IsHeld(q) => IsHeld(q)'
              /\ Executes(q) => Executes(q)'
            BY <1>2, <2>1 DEF IsHeld, Holds, Executes
        <2> QED
            BY <1>2, <1>3, <2>2 DEF Carried, CarriedRun, IsCarried
    <1>5. CarriedRun(r)'
        <2>1. Executes(r) => worker[w].pc = "execute"
            BY <1>1 DEF Executes, OneCopyPerRun
        <2>2. worker'[w] # Idle => IsCarried(r)'
            BY <1>2 DEF IsHeld, IsCarried
        <2>3. worker'[w].pc = "execute" => Executes(r)'
            BY <1>2 DEF Executes, Idle
        <2>4. CarriedRun(r)
            BY DEF Carried
        <2>5. CASE worker[w].pc = "inspect" /\ runs'[r] = runs[r]
                   /\ (worker'[w] = Idle => runs[r].status \notin {"queued", "failed"})
            BY <1>2, <2>1, <2>2, <2>4, <2>5 DEF CarriedRun
        <2>6. CASE runs'[r].status = "running" /\ worker'[w].pc = "execute"
            BY <2>3, <2>6 DEF CarriedRun
        <2>7. CASE runs'[r].status \in {"failed", "completed", "waiting_approval", "dead_letter"}
            BY <2>7 DEF CarriedRun
        <2>8. CASE runs'[r].status = "queued" /\ worker'[w] # Idle
            BY <2>2, <2>8 DEF CarriedRun
        <2>9. CASE r \in dropped'
            BY <2>9 DEF CarriedRun
        <2> QED
            BY <1>2, <2>5, <2>6, <2>7, <2>8, <2>9 DEF JobMove
    <1> QED
        BY <1>4, <1>5 DEF Carried

\* An approval request leaves no run queued or running.
LEMMA ResumerCarried ==
    ASSUME CarriedInv, NEW p \in Resumers,
           \/ \E r \in Runs : BeginResume(p, r)
           \/ ResumerStep(p) \/ ResumerDies(p)
    PROVE  Carried'
    <1>1. UNCHANGED <<ready, delayed, api, worker, executions, unacked, dropped>>
        BY ResumerFrame DEF CarriedInv, Separation
    <1>2. \A q \in Runs : \/ runs'[q] = runs[q]
                          \/ runs'[q].status \in {"completed", "failed", "waiting_approval"}
        BY ResumerMoves DEF ResumerMove, CarriedInv, Separation
    <1>3. \A q \in Runs : /\ IsCarried(q)' <=> IsCarried(q)
                          /\ Executes(q)' <=> Executes(q)
        BY <1>1 DEF IsCarried, InQueue, IsReady, IsDelayed, IsHeld, Holds, Executes
    <1> QED
        BY <1>1, <1>2, <1>3 DEF CarriedInv, Carried, CarriedRun

\* Every step keeps the unfinished runs carried.
LEMMA CarriedStep ==
    ASSUME CarriedInv, [Next]_vars
    PROVE  CarriedInv'
    <1>1. Separation' /\ TypeOK'
        BY SeparationStep DEF CarriedInv, Separation
    <1>2. CASE Restart
        <2>1. \A r \in Runs : r \notin dropped' =>
                r \notin dropped /\ api[r] \in {"new", "done"} /\ ~InQueue(r) /\ ~IsHeld(r)
            BY <1>2 DEF Restart
        <2>2. \A r \in Runs : Executes(r) => IsHeld(r)
            BY DEF Executes, IsHeld
        <2>3. runs' = runs
            BY <1>2 DEF Restart, repo
        <2>4. \A r \in Runs : CarriedRun(r)'
            BY <2>1, <2>2, <2>3 DEF CarriedInv, Carried, CarriedRun, IsCarried
        <2> QED
            BY <1>1, <2>4 DEF CarriedInv, Carried
    <1>3. CASE Next /\ ~Restart
        <2>1. Carried'
            BY <1>1, <1>3, ApiCarried, QueueStepCarried, JobStepCarried, ResumerCarried
               DEF Next, Fault, WorkerStep, JobStep
        <2> QED
            BY <1>1, <2>1 DEF CarriedInv
    <1>4. CASE UNCHANGED vars
        <2>1. \A q \in Runs : /\ IsCarried(q)' <=> IsCarried(q)
                              /\ Executes(q)' <=> Executes(q)
            BY <1>4 DEF vars, IsCarried, InQueue, IsReady, IsDelayed, IsHeld, Holds, Executes
        <2>2. UNCHANGED <<runs, dropped>>
            BY <1>4 DEF vars
        <2> QED
            BY <1>1, <2>1, <2>2 DEF CarriedInv, Carried, CarriedRun
    <1> QED
        BY <1>2, <1>3, <1>4

\* An asynchronous run that is queued or running always has a carrier, unless
\* the process that carried it died or returned an error with it.
THEOREM RunsAreCarried == Spec => []UnfinishedIsCarried
    <1>1. Init => CarriedInv
        <2>1. Init => \A r \in Runs : runs[r] = Absent
            BY DEF Init
        <2>2. Absent.mode = "none"
            BY DEF Absent
        <2> QED
            BY <2>1, <2>2, InitSeparated DEF CarriedInv, Carried, CarriedRun
    <1>2. CarriedInv => UnfinishedIsCarried
        <2>1. \A r \in Runs : Executes(r) => IsCarried(r)
            BY DEF Executes, IsCarried, IsHeld
        <2> QED
            BY <2>1 DEF CarriedInv, Carried, CarriedRun, UnfinishedIsCarried
    <1> QED
        BY <1>1, <1>2, CarriedStep, PTL DEF Spec

-----------------------------------------------------------------------------
(* Attempts are executions, when LoadPending is one read. *)

\* An approval request has loaded a run with a pending state, and counts its
\* attempts as the run does.
Counted ==
    \A p \in Resumers : resumer[p] # Waiting =>
        /\ resumer[p].pc \in {"resolve", "execute"}
        /\ \/ resumer[p].run \in unacked
           \/ resumer[p].row.attempt = executions[resumer[p].run]

CountedInv == CurrentInv /\ AttemptsAreExecutions /\ Counted

\* A step about a run that no approval request has loaded.
LEMMA CountedFrame ==
    ASSUME CountedInv, unacked \subseteq unacked', NEW r \in Runs,
           UNCHANGED resumer, \A p \in Resumers : r \in unacked \/ ~Resumes(p, r),
           \A q \in Runs \ {r} : runs'[q] = runs[q] /\ executions'[q] = executions[q],
           r \notin unacked' => runs'[r].attempt = executions'[r] /\ executions'[r] <= MaxAttempts
    PROVE  AttemptsAreExecutions' /\ Counted'
    <1>1. AttemptsAreExecutions'
        BY DEF CountedInv, AttemptsAreExecutions
    <1>2. ASSUME NEW p \in Resumers, resumer[p] # Waiting
          PROVE  /\ resumer[p].pc \in {"resolve", "execute"}
                 /\ \/ resumer[p].run \in unacked'
                    \/ resumer[p].row.attempt = executions'[resumer[p].run]
        <2>1. resumer[p].pc \in {"resolve", "execute"} /\ resumer[p].run \in Runs
            BY <1>2 DEF CountedInv, Counted, CurrentInv, Separation, TypeOK, Request
        <2>2. resumer[p].run = r => r \in unacked
            BY <2>1 DEF Resumes
        <2> QED
            BY <1>2, <2>1, <2>2 DEF CountedInv, Counted
    <1> QED
        BY <1>1, <1>2 DEF Counted

\* A run in the hands of its starting request has not been executed.
LEMMA ApiCounted ==
    ASSUME CountedInv, NEW r \in Runs,
           \/ Submit(r) \/ ApiStep(r)
           \/ EnqueueRefused(r) \/ EnqueueReplyLost(r) \/ ApiDies(r)
    PROVE  AttemptsAreExecutions' /\ Counted'
    <1>1. /\ UNCHANGED <<delayed, worker, resumer, executions>>
          /\ \A q \in Runs \ {r} : runs'[q] = runs[q]
          /\ unacked \subseteq unacked'
          /\ ApiMove(r)
        BY ApiMoves DEF CountedInv, CurrentInv, Separation
    <1>2. r \in unacked \/ StartFits(r)
        BY DEF CountedInv, CurrentInv, Current
    <1>3. CASE r \in unacked \/ runs'[r] = runs[r]
        <2>1. r \notin unacked' => runs'[r].attempt = executions'[r] /\ executions'[r] <= MaxAttempts
            BY <1>1, <1>3 DEF CountedInv, AttemptsAreExecutions
        <2>2. CASE r \in unacked
            BY <1>1, <2>1, <2>2, CountedFrame
        <2>3. CASE r \notin unacked
            <3>1. \A q \in Runs : runs'[q] = runs[q]
                BY <1>1, <1>3, <2>3
            <3> QED
                BY <1>1, <3>1 DEF CountedInv, AttemptsAreExecutions, Counted
        <2> QED
            BY <2>2, <2>3
    <1>4. CASE r \notin unacked /\ runs'[r] # runs[r]
        <2>1. api[r] \in {"new", "execute", "markFailed"}
            BY <1>1, <1>4 DEF ApiMove
        <2>2. \A p \in Resumers : ~Resumes(p, r)
            BY <1>2, <1>4, <2>1 DEF StartFits, CountedInv, CurrentInv, Separation, FreshRunsAreAlone
        <2>3. executions[r] = 0 /\ 0 <= MaxAttempts
            BY <1>2, <1>4, <2>1, MaxAttemptsAssumption DEF StartFits
        <2>4. runs'[r].attempt = 0
            <3>1. Submitted.attempt = 0
                BY DEF Submitted
            <3>2. api[r] = "execute" => runs[r].attempt = 0
                BY <1>2, <1>4 DEF StartFits
            <3> QED
                BY <1>1, <1>4, <3>1, <3>2 DEF ApiMove, SameRun
        <2> QED
            BY <1>1, <2>2, <2>3, <2>4, CountedFrame
    <1> QED
        BY <1>3, <1>4

\* A worker counts one attempt for each execution it starts.
LEMMA JobStepCounted ==
    ASSUME CountedInv, NEW w \in Workers, JobStep(w)
    PROVE  AttemptsAreExecutions' /\ Counted'
    <1> USE DEF CountedInv, CurrentInv, Separation
    <1>1. PICK r \in Runs : r = worker[w].job.run /\ Holds(w, r) /\ worker[w] \in Engaged
        BY JobStepFrame
    <1>2. /\ UNCHANGED <<ready, delayed, api, resumer, unacked>>
          /\ \A q \in Runs \ {r} : runs'[q] = runs[q] /\ executions'[q] = executions[q]
          /\ JobMove(w, r)
        BY <1>1, JobMoves
    <1>3. \A p \in Resumers : ~Resumes(p, r)
        BY <1>1 DEF JobsExcludeApprovals, IsHeld
    <1>4. ASSUME r \notin unacked
          PROVE  runs'[r].attempt = executions'[r] /\ executions'[r] <= MaxAttempts
        <2>1. HeldFits(w)
            BY <1>1, <1>4 DEF Current, Holds
        <2>2. runs[r].attempt = executions[r] /\ executions[r] <= MaxAttempts
            BY <1>4 DEF AttemptsAreExecutions
        <2>3. CASE worker[w].pc = "claim" /\ executions'[r] = executions[r] + 1
                   /\ runs'[r].attempt = worker[w].job.attempt + 1
            <3>1. /\ executions[r] = worker[w].job.attempt /\ worker[w].job.attempt < MaxAttempts
                  /\ worker[w].job.attempt \in Nat /\ MaxAttempts \in Nat
                BY <1>1, <2>1, <2>3, MaxAttemptsAssumption DEF HeldFits, JobFits, Engaged, Job
            <3> QED
                BY <2>3, <3>1
        <2>4. CASE worker[w].pc \in {"claim", "execute", "decide"} /\ executions'[r] = executions[r]
                   /\ runs'[r].attempt = worker[w].row.attempt
            <3>1. worker[w].row = runs[r]
                BY <1>1, <2>1, <2>4 DEF HeldFits
            <3> QED
                BY <2>2, <2>4, <3>1
        <2>5. CASE runs'[r] = runs[r] /\ executions'[r] = executions[r]
            BY <2>2, <2>5
        <2> QED
            BY <1>2, <2>3, <2>4, <2>5 DEF JobMove, SameRun
    <1> QED
        BY <1>2, <1>3, <1>4, CountedFrame

\* An approval request writes the count it has loaded.
LEMMA ResumerCounted ==
    ASSUME CountedInv, AtomicLoad, NEW p \in Resumers,
           \/ \E r \in Runs : BeginResume(p, r)
           \/ ResumerStep(p) \/ ResumerDies(p)
    PROVE  AttemptsAreExecutions' /\ Counted'
    <1> USE DEF CountedInv, CurrentInv, Separation
    <1>1. /\ UNCHANGED <<executions, unacked>> /\ ResumerMove(p)
        BY ResumerFrame, ResumerMoves
    <1>2. \A q \in Runs : Resumes(p, q) => q \in unacked \/ resumer[p].row.attempt = executions[q]
        BY DEF Counted, Resumes, Waiting
    <1>3. ASSUME NEW r \in Runs, Resumes(p, r), SameRun(resumer[p].row, runs'[r]),
                 \A q \in Runs \ {r} : runs'[q] = runs[q]
          PROVE  AttemptsAreExecutions'
        <2>1. r \notin unacked => runs'[r].attempt = executions[r] /\ executions[r] <= MaxAttempts
            BY <1>2, <1>3 DEF SameRun, AttemptsAreExecutions
        <2> QED
            BY <1>1, <1>3, <2>1 DEF AttemptsAreExecutions
    <1>4. AttemptsAreExecutions'
        <2>1. CASE UNCHANGED runs
            BY <1>1, <2>1 DEF AttemptsAreExecutions
        <2> QED
            BY <1>1, <1>3, <2>1 DEF ResumerMove
    <1>5. ASSUME NEW s \in Resumers, resumer'[s] # Waiting
          PROVE  /\ resumer'[s].pc \in {"resolve", "execute"}
                 /\ \/ resumer'[s].run \in unacked'
                    \/ resumer'[s].row.attempt = executions'[resumer'[s].run]
        <2>1. CASE s # p
            <3>1. resumer'[s] = resumer[s]
                BY <1>1, <2>1 DEF ResumerMove
            <3> QED
                BY <1>1, <1>5, <3>1 DEF Counted
        <2>2. CASE s = p
            <3>1. resumer[p].pc \notin {"steps", "pending"}
                BY DEF Counted, Waiting
            <3>2. CASE \E r \in Runs : /\ Resumes(p, r) /\ resumer'[p].run = r
                                       /\ SameRun(resumer[p].row, resumer'[p].row)
                                       /\ resumer'[p].pc = "execute"
                BY <1>1, <1>2, <2>2, <3>2 DEF SameRun
            <3>3. CASE \E r \in Runs : /\ resumer'[p].run = r /\ resumer'[p].row = runs[r] /\ pending[r] # 0
                                       /\ resumer'[p].pc = "resolve"
                BY <1>1, <2>2, <3>3 DEF AttemptsAreExecutions
            <3> QED
                BY <1>1, <1>5, <2>2, <3>1, <3>2, <3>3 DEF ResumerMove
        <2> QED
            BY <2>1, <2>2
    <1> QED
        BY <1>4, <1>5 DEF Counted

\* Every step keeps the counts equal.
LEMMA CountedStep ==
    ASSUME CountedInv, AtomicLoad, [Next]_vars
    PROVE  CountedInv'
    <1>1. CurrentInv'
        BY CurrentStep DEF CountedInv
    <1>2. CASE Restart
        <2>1. /\ UNCHANGED <<runs, executions, unacked>>
              /\ \A p \in Resumers : resumer'[p] = Waiting
            BY <1>2 DEF Restart, repo
        <2> QED
            BY <1>1, <2>1 DEF CountedInv, AttemptsAreExecutions, Counted
    <1>3. CASE \/ \E r \in Runs : Promote(r) \/ PromotionBreaks(r)
               \/ \E w \in Workers : Dequeue(w) \/ EnqueueAfter(w)
               \/ UNCHANGED vars
        <2>1. UNCHANGED <<runs, executions, unacked, resumer>>
            BY <1>3 DEF Promote, PromotionBreaks, Dequeue, EnqueueAfter, repo, history, vars
        <2> QED
            BY <1>1, <2>1 DEF CountedInv, AttemptsAreExecutions, Counted
    <1>4. CASE \/ \E r \in Runs : \/ Submit(r) \/ ApiStep(r)
                                  \/ EnqueueRefused(r) \/ EnqueueReplyLost(r) \/ ApiDies(r)
               \/ \E w \in Workers : JobStep(w)
               \/ \E p \in Resumers : \/ \E r \in Runs : BeginResume(p, r)
                                      \/ ResumerStep(p) \/ ResumerDies(p)
        <2>1. AttemptsAreExecutions' /\ Counted'
            BY <1>4, ApiCounted, JobStepCounted, ResumerCounted
        <2> QED
            BY <1>1, <2>1 DEF CountedInv
    <1> QED
        BY <1>2, <1>3, <1>4 DEF Next, Fault, WorkerStep, JobStep

\* At first nothing has been executed.
LEMMA InitCounted == Init => CountedInv
    <1> SUFFICES ASSUME Init
                 PROVE  CountedInv
        OBVIOUS
    <1>1. /\ \A r \in Runs : runs[r] = Absent /\ executions[r] = 0
          /\ \A p \in Resumers : resumer[p] = Waiting
        BY DEF Init
    <1>2. Absent.attempt = 0
        BY DEF Absent
    <1>3. AttemptsAreExecutions /\ Counted
        BY <1>1, <1>2, MaxAttemptsAssumption DEF AttemptsAreExecutions, Counted
    <1> QED
        BY <1>3, InitCurrent DEF CountedInv

\* With the memory repository, whose LoadPending is one read, the attempt
\* counter of a run is the number of its executions and never passes the limit,
\* whatever number of approval requests, crashes and restarts there is.
THEOREM AttemptsCounted ==
    ASSUME AtomicLoad
    PROVE  Spec => []AttemptsAreExecutions
    <1>1. CountedInv /\ [Next]_vars => CountedInv'
        BY CountedStep
    <1>2. CountedInv => AttemptsAreExecutions
        BY DEF CountedInv
    <1> QED
        BY <1>1, <1>2, InitCounted, PTL DEF Spec

-----------------------------------------------------------------------------
(* The promise of RunState, when approval requests are one at a time. *)

\* The approvers of a run come one after the other.
OneRequest == \A p, q \in Resumers : p = q

\* Nobody writes a run that the approval request has loaded.
Loads ==
    \A p \in Resumers, r \in Runs : Resumes(p, r) =>
        \/ r \in unacked
        \/ runs[r].status = "waiting_approval" /\ SameRun(resumer[p].row, runs[r])

PromiseInv == CountedInv /\ Loads

\* The moves of the abstract specification, and the stutter.
Move(old, new) ==
    \/ Visible(new) = Visible(old)
    \/ old.status = "absent" /\ Visible(new) \in
            {[status |-> "running", mode |-> "sync",  attempt |-> 0],
             [status |-> "queued",  mode |-> "async", attempt |-> 0]}
    \/ /\ old.status = "queued" /\ old.attempt < MaxAttempts
       /\ Visible(new) = [status |-> "running", mode |-> old.mode, attempt |-> old.attempt + 1]
    \/ /\ SameRun(old, new)
       /\ \/ old.status = "queued" /\ new.status = "failed"
          \/ /\ old.status = "running"
             /\ new.status \in {"completed", "failed", "waiting_approval"}
          \/ /\ old.status = "waiting_approval"
             /\ new.status \in {"completed", "failed"}
          \/ /\ old.status = "failed" /\ old.mode = "async"
             /\ old.err # "rejected"
             /\ old.attempt < MaxAttempts /\ new.status = "queued"
          \/ /\ old.status = "failed" /\ old.mode = "async"
             /\ old.err # "rejected"
             /\ old.attempt = MaxAttempts /\ new.status = "dead_letter"

\* One run moves; the others stay as they are.
OneMove ==
    /\ unacked \subseteq unacked'
    /\ \A q \in unacked' : q \in unacked \/ (q \in Runs /\ runs[q] = Submitted)
    /\ \/ \A q \in Runs : runs'[q] = runs[q]
       \/ \E r \in Runs : /\ \A q \in Runs \ {r} : runs'[q] = runs[q]
                          /\ \/ r \in unacked
                             \/ Move(runs[r], runs'[r]) /\ ~Settled(runs[r])

\* The moves of a starting request are legal.
LEMMA ApiPromise ==
    ASSUME PromiseInv, NEW r \in Runs,
           \/ Submit(r) \/ ApiStep(r)
           \/ EnqueueRefused(r) \/ EnqueueReplyLost(r) \/ ApiDies(r)
    PROVE  OneMove /\ Loads'
    <1> USE DEF PromiseInv, CountedInv, CurrentInv, Separation
    <1>1. /\ UNCHANGED <<delayed, worker, resumer, executions>>
          /\ \A q \in Runs \ {r} : runs'[q] = runs[q]
          /\ unacked \subseteq unacked'
          /\ \A q \in unacked' : q \in unacked \/ (q = r /\ api[q] = "enqueue")
          /\ ApiMove(r)
        BY ApiMoves
    <1>2. /\ r \in unacked \/ StartFits(r)
          /\ api[r] \in {"new", "execute", "enqueue"} => r \notin unacked
        BY DEF Current
    <1>3. runs \in [Runs -> Row] /\ \A q \in Runs : Resumes(q, r)' <=> Resumes(q, r)
        BY <1>1 DEF TypeOK, Resumes
    <1>4. \A q \in unacked' : q \in unacked \/ (q \in Runs /\ runs[q] = Submitted)
        BY <1>1, <1>2 DEF StartFits
    <1>5. CASE r \notin unacked /\ runs'[r] # runs[r]
        <2>1. StartFits(r) /\ api[r] \in {"new", "execute", "markFailed"}
            BY <1>1, <1>2, <1>5 DEF ApiMove
        <2>2. \A p \in Resumers : ~Resumes(p, r)
            BY <2>1 DEF StartFits, FreshRunsAreAlone
        <2>3. Move(runs[r], runs'[r]) /\ ~Settled(runs[r])
            <3>1. CASE api[r] = "new"
                <4>1. runs[r].status = "absent"
                    BY <2>1, <3>1 DEF StartFits, Absent
                <4>2. Visible(Submitted) = [status |-> "queued",  mode |-> "async", attempt |-> 0]
                    BY DEF Visible, Submitted
                <4>3. \/ runs'[r] = Submitted
                      \/ Visible(runs'[r]) = [status |-> "running", mode |-> "sync",  attempt |-> 0]
                    BY <1>1, <1>5, <3>1, <2>1 DEF ApiMove, Visible
                <4> QED
                    BY <4>1, <4>2, <4>3 DEF Move, Settled
            <3>2. CASE api[r] = "execute"
                <4>1. runs[r].status = "running"
                    BY <2>1, <3>2 DEF StartFits
                <4>2. /\ SameRun(runs[r], runs'[r])
                      /\ runs'[r].status \in {"completed", "failed", "waiting_approval"}
                    BY <1>1, <1>5, <3>2 DEF ApiMove
                <4> QED
                    BY <4>1, <4>2 DEF Move, Settled
            <3>3. CASE api[r] = "markFailed"
                <4>1. runs[r].status = "queued" /\ runs[r].mode = "async" /\ runs[r].attempt = 0
                    BY <2>1, <3>3 DEF StartFits, Submitted
                <4>2. runs'[r].status = "failed" /\ runs'[r].mode = "async" /\ runs'[r].attempt = 0
                    BY <1>1, <1>5, <3>3 DEF ApiMove
                <4> QED
                    BY <4>1, <4>2 DEF Move, Settled, SameRun
            <3> QED
                BY <2>1, <3>1, <3>2, <3>3
        <2>4. Loads'
            BY <1>1, <2>2 DEF Loads, Resumes
        <2> QED
            BY <1>1, <1>4, <2>3, <2>4 DEF OneMove
    <1>6. CASE r \in unacked
        <2>1. Loads'
            BY <1>1, <1>6 DEF Loads, Resumes
        <2> QED
            BY <1>1, <1>4, <1>6, <2>1 DEF OneMove
    <1>7. CASE runs'[r] = runs[r]
        <2>1. \A q \in Runs : runs'[q] = runs[q]
            BY <1>1, <1>7
        <2>2. Loads'
            BY <1>1, <2>1 DEF Loads, Resumes
        <2> QED
            BY <1>1, <1>4, <2>1, <2>2 DEF OneMove
    <1> QED
        BY <1>5, <1>6, <1>7

\* The moves of a worker are legal, since its copy is current.
LEMMA JobStepPromise ==
    ASSUME PromiseInv, NEW w \in Workers, JobStep(w)
    PROVE  OneMove /\ Loads'
    <1> USE DEF PromiseInv, CountedInv, CurrentInv, Separation
    <1>1. PICK r \in Runs : r = worker[w].job.run /\ Holds(w, r) /\ worker[w] \in Engaged
        BY JobStepFrame
    <1>2. /\ UNCHANGED <<ready, delayed, api, resumer, unacked>>
          /\ \A q \in Runs \ {r} : runs'[q] = runs[q] /\ executions'[q] = executions[q]
          /\ JobMove(w, r)
        BY <1>1, JobMoves
    <1>3. \A p \in Resumers : ~Resumes(p, r)
        BY <1>1 DEF JobsExcludeApprovals, IsHeld
    <1>4. Loads'
        BY <1>2, <1>3 DEF Loads, Resumes
    <1>5. CASE r \in unacked
        BY <1>2, <1>4, <1>5 DEF OneMove
    <1>6. CASE runs'[r] = runs[r]
        BY <1>2, <1>4, <1>6 DEF OneMove
    <1>7. CASE r \notin unacked /\ runs'[r] # runs[r]
        <2> DEFINE row == worker[w].row
        <2>1. HeldFits(w)
            BY <1>1, <1>7 DEF Current, Holds
        <2>2. worker[w].pc \in {"claim", "execute", "decide"}
            BY <1>2, <1>7 DEF JobMove
        <2>3. row = runs[r] /\ runs[r].attempt \in Nat /\ MaxAttempts \in Nat
            BY <1>1, <2>1, <2>2, MaxAttemptsAssumption DEF HeldFits, TypeOK, Row
        <2>4. Move(runs[r], runs'[r]) /\ ~Settled(runs[r])
            <3>1. CASE worker[w].pc = "claim"
                <4>1. JobFits(worker[w].job)
                    BY <2>1, <3>1 DEF HeldFits
                <4>2. /\ runs[r].status = "queued" /\ runs[r].mode = "async"
                      /\ runs[r].attempt = worker[w].job.attempt
                      /\ runs[r].attempt < MaxAttempts
                    BY <1>1, <4>1 DEF JobFits
                <4>3. \/ /\ runs'[r].status = "running" /\ runs'[r].mode = runs[r].mode
                         /\ runs'[r].attempt = runs[r].attempt + 1
                      \/ runs'[r].status = "failed" /\ SameRun(runs[r], runs'[r])
                    BY <1>2, <1>7, <2>3, <3>1, <4>2 DEF JobMove
                <4> QED
                    BY <4>2, <4>3 DEF Move, Settled, Visible
            <3>2. CASE worker[w].pc = "execute"
                <4>1. runs[r].status = "running"
                    BY <2>1, <2>3, <3>2 DEF HeldFits
                <4>2. /\ SameRun(runs[r], runs'[r])
                      /\ runs'[r].status \in {"completed", "failed", "waiting_approval"}
                    BY <1>2, <1>7, <2>3, <3>2 DEF JobMove
                <4> QED
                    BY <4>1, <4>2 DEF Move, Settled
            <3>3. CASE worker[w].pc = "decide"
                <4>1. /\ runs[r].status = "failed" /\ runs[r].err # "rejected"
                      /\ runs[r].mode = "async" /\ runs[r].attempt <= MaxAttempts
                    BY <2>1, <2>3, <3>3 DEF HeldFits
                <4>2. Limit(runs[r]) = MaxAttempts
                    BY <4>1 DEF Limit
                <4>3. /\ SameRun(runs[r], runs'[r])
                      /\ \/ runs[r].attempt < MaxAttempts /\ runs'[r].status = "queued"
                         \/ runs[r].attempt >= MaxAttempts /\ runs'[r].status = "dead_letter"
                    BY <1>2, <1>7, <2>3, <3>3, <4>2 DEF JobMove
                <4>4. runs[r].attempt < MaxAttempts \/ runs[r].attempt = MaxAttempts
                    BY <2>3, <4>1
                <4>5. runs[r].attempt >= MaxAttempts => runs[r].attempt = MaxAttempts
                    BY <2>3, <4>1
                <4> QED
                    BY <4>1, <4>3, <4>5 DEF Move, Settled
            <3> QED
                BY <2>2, <3>1, <3>2, <3>3
        <2> QED
            BY <1>2, <1>4, <2>4 DEF OneMove
    <1> QED
        BY <1>5, <1>6, <1>7

\* The moves of the only approval request are legal.
LEMMA ResumerPromise ==
    ASSUME PromiseInv, AtomicLoad, OneRequest, NEW p \in Resumers,
           \/ \E r \in Runs : BeginResume(p, r)
           \/ ResumerStep(p) \/ ResumerDies(p)
    PROVE  OneMove /\ Loads'
    <1> USE DEF PromiseInv, CountedInv, CurrentInv, Separation
    <1>1. /\ UNCHANGED <<executions, unacked>> /\ ResumerMove(p)
        BY ResumerFrame, ResumerMoves
    <1>2. \A s \in Resumers : s = p
        BY DEF OneRequest
    <1>3. CASE UNCHANGED runs
        <2>1. OneMove
            BY <1>1, <1>3 DEF OneMove
        <2>2. ASSUME NEW r \in Runs, Resumes(p, r)', r \notin unacked
              PROVE  runs'[r].status = "waiting_approval" /\ SameRun(resumer'[p].row, runs'[r])
            <3>1. resumer[p].pc \notin {"steps", "pending"}
                BY DEF Counted, Waiting
            <3>2. resumer'[p].run = r /\ resumer'[p] # Waiting
                BY <2>2 DEF Resumes, Waiting
            <3>3. CASE /\ Resumes(p, r)
                       /\ SameRun(resumer[p].row, resumer'[p].row)
                BY <1>3, <2>2, <3>3 DEF Loads, SameRun
            <3>4. CASE resumer'[p].row = runs[r] /\ pending[r] # 0
                BY <1>3, <3>4 DEF PendingMatchesStatus, SameRun
            <3>5. CASE resumer'[p] = Waiting
                BY <3>2, <3>5
            <3> QED
                <4>1. CASE runs' = runs /\ \/ resumer'[p] = Waiting
                                           \/ \E q \in Runs :
                                                /\ Resumes(p, q) /\ resumer'[p].run = q
                                                /\ SameRun(resumer[p].row, resumer'[p].row)
                                           \/ \E q \in Runs :
                                                /\ resumer'[p].run = q /\ resumer'[p].row = runs[q]
                                                /\ pending[q] # 0
                    BY <3>2, <3>3, <3>4, <3>5, <4>1
                <4>2. CASE resumer'[p] = Waiting
                    BY <3>5, <4>2
                <4> QED
                    BY <1>1, <3>1, <4>1, <4>2 DEF ResumerMove
        <2>3. Loads'
            BY <1>1, <1>2, <2>2 DEF Loads
        <2> QED
            BY <2>1, <2>3
    <1>4. CASE ~UNCHANGED runs
        <2>1. resumer'[p] = Waiting
            BY <1>1, <1>4 DEF ResumerMove
        <2>2. PICK r \in Runs :
                /\ Resumes(p, r) /\ SameRun(resumer[p].row, runs'[r])
                /\ runs'[r].status \in {"completed", "failed", "waiting_approval"}
                /\ \A q \in Runs \ {r} : runs'[q] = runs[q]
            BY <1>1, <1>4 DEF ResumerMove
        <2>3. Loads'
            BY <1>2, <2>1 DEF Loads, Resumes, Waiting
        <2>4. ASSUME r \notin unacked
              PROVE  Move(runs[r], runs'[r]) /\ ~Settled(runs[r])
            <3>1. runs[r].status = "waiting_approval" /\ SameRun(resumer[p].row, runs[r])
                BY <2>2, <2>4 DEF Loads
            <3>2. SameRun(runs[r], runs'[r])
                BY <2>2, <3>1 DEF SameRun
            <3>3. CASE runs'[r].status = "waiting_approval"
                BY <3>1, <3>2, <3>3 DEF Move, SameRun, Visible, Settled
            <3>4. CASE runs'[r].status \in {"completed", "failed"}
                BY <3>1, <3>2, <3>4 DEF Move, Settled
            <3> QED
                BY <2>2, <3>3, <3>4
        <2> QED
            BY <1>1, <2>2, <2>3, <2>4 DEF OneMove
    <1> QED
        BY <1>3, <1>4

\* Every step is a legal move of one run.
LEMMA PromiseStep ==
    ASSUME PromiseInv, AtomicLoad, OneRequest, [Next]_vars
    PROVE  PromiseInv' /\ OneMove
    <1>1. CountedInv'
        BY CountedStep DEF PromiseInv
    <1>2. CASE Restart
        <2>1. /\ UNCHANGED <<runs, unacked>>
              /\ \A p \in Resumers : resumer'[p] = Waiting
            BY <1>2 DEF Restart, repo
        <2>2. Loads' /\ OneMove
            BY <2>1 DEF Loads, OneMove, Resumes, Waiting
        <2> QED
            BY <1>1, <2>2 DEF PromiseInv
    <1>3. CASE \/ \E r \in Runs : Promote(r) \/ PromotionBreaks(r)
               \/ \E w \in Workers : Dequeue(w) \/ EnqueueAfter(w)
               \/ UNCHANGED vars
        <2>1. UNCHANGED <<runs, unacked, resumer>>
            BY <1>3 DEF Promote, PromotionBreaks, Dequeue, EnqueueAfter, repo, history, vars
        <2>2. Loads' /\ OneMove
            BY <2>1 DEF PromiseInv, Loads, OneMove, Resumes
        <2> QED
            BY <1>1, <2>2 DEF PromiseInv
    <1>4. CASE \/ \E r \in Runs : \/ Submit(r) \/ ApiStep(r)
                                  \/ EnqueueRefused(r) \/ EnqueueReplyLost(r) \/ ApiDies(r)
               \/ \E w \in Workers : JobStep(w)
               \/ \E p \in Resumers : \/ \E r \in Runs : BeginResume(p, r)
                                      \/ ResumerStep(p) \/ ResumerDies(p)
        <2>1. OneMove /\ Loads'
            BY <1>4, ApiPromise, JobStepPromise, ResumerPromise
        <2> QED
            BY <1>1, <2>1 DEF PromiseInv
    <1> QED
        BY <1>2, <1>3, <1>4 DEF Next, Fault, WorkerStep, JobStep

\* At first no request has loaded a run.
LEMMA InitPromise == Init => PromiseInv
    BY InitCounted DEF Init, PromiseInv, Loads, Resumes, Waiting

\* One approval request at a time, and LoadPending in one read: no stale copy
\* of a worker, of a request that starts a run or of one that resumes it ever
\* overwrites a completed, dead-lettered or rejected run.
THEOREM SettledForGood ==
    ASSUME AtomicLoad, OneRequest
    PROVE  Spec => SettledStaysSettled
    <1>1. PromiseInv /\ [Next]_vars => PromiseInv'
        BY PromiseStep
    <1>2. PromiseInv /\ [Next]_vars =>
            [\A r \in Runs \ unacked : Settled(runs[r]) => runs'[r] = runs[r]]_vars
        BY PromiseStep DEF OneMove
    <1> QED
        BY <1>1, <1>2, InitPromise, PTL DEF Spec, SettledStaysSettled

\* A step that moves one run is a step of the abstract specification.
LEMMA MoveKeepsPromise ==
    ASSUME TypeOK, OneMove
    PROVE  [Promise!Next]_([r \in Runs |-> Shown(r)])
    <1> DEFINE run == [r \in Runs |-> Shown(r)]
    <1>1. ASSUME NEW q \in Runs, runs'[q] = runs[q] \/ q \in unacked'
          PROVE  Shown(q)' = Shown(q) \/ (q \notin unacked' /\ runs'[q] # runs[q])
        <2>1. Visible(Submitted) = [status |-> "queued", mode |-> "async", attempt |-> 0]
            BY DEF Visible, Submitted
        <2> QED
            BY <1>1, <2>1 DEF OneMove, Shown, Visible
    <1>2. CASE \A q \in Runs : Shown(q)' = Shown(q)
        <2>1. run' = run
            BY <1>2
        <2> QED
            BY <2>1
    <1>3. CASE ~\A q \in Runs : Shown(q)' = Shown(q)
        <2>1. PICK r \in Runs : /\ \A q \in Runs \ {r} : runs'[q] = runs[q]
                                /\ r \in unacked \/ Move(runs[r], runs'[r])
            BY <1>1, <1>3 DEF OneMove
        <2>2. r \notin unacked' /\ r \notin unacked
            BY <1>1, <1>3, <2>1 DEF OneMove
        <2> DEFINE old == runs[r]
                   new == runs'[r]
        <2>3. /\ run[r] = Visible(old) /\ run'[r] = Visible(new)
              /\ \A q \in Runs \ {r} : run'[q] = run[q]
            BY <1>1, <2>1, <2>2 DEF Shown
        <2>4. Visible(new) # Visible(old)
            BY <1>3, <2>3
        <2>5. ASSUME NEW row, Visible(new) = row
              PROVE  run' = [run EXCEPT ![r] = row]
            BY <2>3, <2>5
        <2>6. ASSUME SameRun(old, new)
              PROVE  Promise!Becomes(r, new.status)
            <3>1. [Visible(old) EXCEPT !.status = new.status] = Visible(new)
                BY <2>6 DEF Visible, SameRun
            <3>2. run' = [run EXCEPT ![r] = [run[r] EXCEPT !.status = new.status]]
                BY <2>3, <2>5, <3>1
            <3> QED
                BY <3>2 DEF Promise!Becomes
        <2>7. /\ run[r].status = old.status /\ run[r].mode = old.mode
              /\ run[r].attempt = old.attempt
            BY <2>3 DEF Visible
        <2> HIDE DEF old, new
        <2>8. CASE old.status = "absent" /\ Visible(new) \in
                    {[status |-> "running", mode |-> "sync",  attempt |-> 0],
                     [status |-> "queued",  mode |-> "async", attempt |-> 0]}
            <3>1. Promise!Submit(r)
                BY <2>5, <2>7, <2>8 DEF Promise!Submit
            <3> QED
                BY <3>1 DEF Promise!Next
        <2>9. CASE /\ old.status = "queued" /\ old.attempt < MaxAttempts
                   /\ Visible(new) = [status |-> "running", mode |-> old.mode,
                                      attempt |-> old.attempt + 1]
            <3> DEFINE n     == old.attempt + 1
                       begun == [Visible(old) EXCEPT !.status = "running"]
            <3>1. begun = [status |-> "running", mode |-> old.mode, attempt |-> old.attempt]
                BY DEF Visible
            <3>2. [begun EXCEPT !.attempt = n] = [status |-> "running", mode |-> old.mode, attempt |-> n]
                <4> HIDE DEF n, begun
                <4> QED
                    BY <3>1
            <3>3. run' = [run EXCEPT ![r] = [begun EXCEPT !.attempt = n]]
                BY <2>5, <2>9, <3>2
            <3>4. [Visible(old) EXCEPT !.status = "running", !.attempt = n] = [begun EXCEPT !.attempt = n]
                OBVIOUS
            <3>5. run' = [run EXCEPT ![r] = [run[r] EXCEPT !.status = "running", !.attempt = n]]
                BY <2>3, <3>3, <3>4
            <3>6. Promise!Start(r)
                BY <2>7, <2>9, <3>5 DEF Promise!Start
            <3> QED
                BY <3>6 DEF Promise!Next
        <2>10. CASE SameRun(old, new) /\ old.status = "queued" /\ new.status = "failed"
            <3>1. Promise!Refuse(r)
                BY <2>6, <2>7, <2>10 DEF Promise!Refuse
            <3> QED
                BY <3>1 DEF Promise!Next
        <2>11. CASE /\ SameRun(old, new) /\ old.status = "running"
                    /\ new.status \in {"completed", "failed", "waiting_approval"}
            <3>1. Promise!Finish(r)
                BY <2>6, <2>7, <2>11 DEF Promise!Finish
            <3> QED
                BY <3>1 DEF Promise!Next
        <2>12. CASE /\ SameRun(old, new) /\ old.status = "waiting_approval"
                    /\ new.status \in {"completed", "failed"}
            <3>1. Promise!Decide(r)
                BY <2>6, <2>7, <2>12 DEF Promise!Decide
            <3> QED
                BY <3>1 DEF Promise!Next
        <2>13. CASE /\ SameRun(old, new) /\ old.status = "failed" /\ old.mode = "async"
                    /\ old.attempt < MaxAttempts /\ new.status = "queued"
            <3>1. Promise!Retry(r)
                BY <2>6, <2>7, <2>13 DEF Promise!Retry
            <3> QED
                BY <3>1 DEF Promise!Next
        <2>14. CASE /\ SameRun(old, new) /\ old.status = "failed" /\ old.mode = "async"
                    /\ old.attempt = MaxAttempts /\ new.status = "dead_letter"
            <3>1. Promise!GiveUp(r)
                BY <2>6, <2>7, <2>14 DEF Promise!GiveUp
            <3> QED
                BY <3>1 DEF Promise!Next
        <2>15. Move(old, new)
            BY <2>1, <2>2 DEF old, new
        <2> QED
            BY <2>4, <2>8, <2>9, <2>10, <2>11, <2>12, <2>13, <2>14, <2>15 DEF Move
    <1> QED
        BY <1>2, <1>3

\* And so every behaviour of the actors keeps the promise of RunState.
THEOREM PromiseKept ==
    ASSUME AtomicLoad, OneRequest
    PROVE  Spec => KeepsPromise
    <1>1. PromiseInv /\ [Next]_vars => PromiseInv'
        BY PromiseStep
    <1>2. PromiseInv /\ [Next]_vars => [Promise!Next]_([r \in Runs |-> Shown(r)])
        <2>1. PromiseInv => TypeOK
            BY DEF PromiseInv, CountedInv, CurrentInv, Separation
        <2> QED
            BY <2>1, PromiseStep, MoveKeepsPromise
    <1>3. Init => Promise!Init
        <2> SUFFICES ASSUME Init
                     PROVE  Promise!Init
            OBVIOUS
        <2>1. unacked = {} /\ \A r \in Runs : runs[r] = Absent
            BY DEF Init
        <2>2. Visible(Absent) = [status |-> "absent", mode |-> "none", attempt |-> 0]
            BY DEF Visible, Absent
        <2>3. \A r \in Runs : Shown(r) = [status |-> "absent", mode |-> "none", attempt |-> 0]
            BY <2>1, <2>2 DEF Shown
        <2> QED
            BY <2>3 DEF Promise!Init
    <1> QED
        BY <1>1, <1>2, <1>3, InitPromise, PTL DEF Spec, KeepsPromise, Promise!Spec
=============================================================================
