------------------------------ MODULE Benchmark ------------------------------
(***************************************************************************)
(* cmd/bench: a load generator that starts the whole service in its own    *)
(* process and drives it through four phases.  Three of them hand a range  *)
(* of indexes to a pool of goroutines (forEachConcurrent); the last one    *)
(* polls the asynchronous runs until each of them has ended.  The service  *)
(* is the one of RunLifecycle, with one worker, without approvals, and     *)
(* with an LLM that fails as the options ask.                              *)
(***************************************************************************)
EXTENDS Naturals, FiniteSets, Sequences

CONSTANTS
    Tenants,        \* options: number of tenants
    DocsPerTenant,  \* options: documents uploaded for each
    SyncRuns,       \* options: synchronous executions
    AsyncRuns,      \* options: asynchronous executions
    Concurrency,    \* options: goroutines of a pool
    MaxAttempts,    \* defaultAsyncMaxAttempts
    Failures        \* whether a request may be answered with an error

ValidOptions ==
    /\ Tenants \in Nat \ {0}
    /\ DocsPerTenant \in Nat \ {0}
    /\ SyncRuns \in Nat
    /\ AsyncRuns \in Nat
    /\ Concurrency \in Nat \ {0}

ASSUME OptionsAssumption == ValidOptions
ASSUME AttemptsAssumption == MaxAttempts \in Nat \ {0}
ASSUME FailuresAssumption == Failures \in BOOLEAN

Indexes(total) == {i \in 0..total : i < total}
Clients        == 1..Concurrency
TheWorker      == "worker"

VARIABLES
    \* the service; see RunLifecycle
    runs, lastStep, pending, ready, delayed, api, worker, resumer,
    executions, unacked, dropped,
    \* the pool
    phase,          \* what runBenchmark is at
    next,           \* the atomic counter of the pool
    firstErr,       \* an error was recorded
    client,         \* where each goroutine stands, with the index it works on
    slot,           \* how often the result of each index was written
    \* runBenchmark
    documents,      \* number of DocumentIDs of each tenant
    outstanding,    \* runs that are polled
    samples,        \* the sample of each asynchronous run
    report,         \* what is printed in the end
    interrupted,    \* ctx is cancelled
    \* benchmarkLLM
    attempts,       \* calls for the prompt of each asynchronous run
    bucket          \* what stableBucket makes of that prompt

service == <<runs, lastStep, pending, ready, delayed, api, worker, resumer,
             executions, unacked, dropped>>
pool    == <<next, firstErr, client, slot>>
results == <<documents, outstanding, samples, report>>
llm     == <<attempts, bucket>>

vars == <<service, phase, pool, results, interrupted, llm>>

Service == INSTANCE RunLifecycle WITH
    Runs <- Indexes(AsyncRuns), Workers <- {TheWorker}, Resumers <- {},
    Gates <- 0, AtomicLoad <- TRUE, Faults <- {"refused"}

Total(p) == CASE p = "upload" -> Tenants * DocsPerTenant
              [] p = "sync"   -> SyncRuns
              [] p = "async"  -> AsyncRuns
              [] OTHER        -> 0

\* The clients a pool starts: min(total, concurrency), none for no work.
Started(p) == [c \in Clients |-> IF c <= Total(p) THEN [pc |-> "check", index |-> 0]
                                                 ELSE [pc |-> "gone", index |-> 0]]

Unwritten(p) == [i \in Indexes(Total(p)) |-> 0]

Init ==
    /\ Service!Init
    /\ phase = "upload"
    /\ next = 0
    /\ firstErr = FALSE
    /\ client = Started("upload")
    /\ slot = Unwritten("upload")
    /\ documents = [t \in Indexes(Tenants) |-> 0]
    /\ outstanding = {}
    /\ samples = <<>>
    /\ report = <<>>
    /\ interrupted = FALSE
    /\ attempts = [r \in Indexes(AsyncRuns) |-> 0]
    /\ bucket \in [Indexes(AsyncRuns) -> {"fine", "transient", "terminal"}]

-----------------------------------------------------------------------------
(* forEachConcurrent: the loop of one goroutine. *)

Goto(c, pc) == client' = [client EXCEPT ![c].pc = pc]

\* firstErr is read under errMu.
CheckErr(c) ==
    /\ client[c].pc = "check"
    /\ Goto(c, IF firstErr THEN "gone" ELSE "take")
    /\ UNCHANGED <<service, phase, next, firstErr, slot, results, interrupted, llm>>

TakeIndex(c) ==
    /\ client[c].pc = "take"
    /\ next' = next + 1
    /\ client' = [client EXCEPT ![c] = IF next < Total(phase)
                                       THEN [pc |-> "call", index |-> next]
                                       ELSE [pc |-> "gone", index |-> 0]]
    /\ UNCHANGED <<service, phase, firstErr, slot, results, interrupted, llm>>

Write(c) == slot' = [slot EXCEPT ![client[c].index] = @ + 1]

\* An upload or a synchronous execution, answered as expected.
Call(c) ==
    /\ phase \in {"upload", "sync"}
    /\ client[c].pc = "call"
    /\ Write(c)
    /\ Goto(c, "check")
    /\ UNCHANGED <<service, phase, next, firstErr, results, interrupted, llm>>

\* An asynchronous execution: the handler stores the run and queues its job.
Submit(c) ==
    /\ phase = "async"
    /\ client[c].pc = "call"
    /\ Service!StartAsync(client[c].index)
    /\ Goto(c, "enqueue")
    /\ UNCHANGED <<phase, next, firstErr, slot, results, interrupted, llm>>

Enqueue(c) ==
    /\ client[c].pc = "enqueue"
    /\ Service!Enqueue(client[c].index)
    /\ Write(c)
    /\ Goto(c, "check")
    /\ UNCHANGED <<phase, next, firstErr, results, interrupted, llm>>

\* The queue has room for two jobs of every run, so only a cancelled context
\* makes Enqueue fail.
EnqueueRefused(c) ==
    /\ interrupted
    /\ client[c].pc = "enqueue"
    /\ Service!EnqueueRefused(client[c].index)
    /\ Goto(c, "markFailed")
    /\ UNCHANGED <<phase, next, firstErr, slot, results, interrupted, llm>>

MarkEnqueueFailed(c) ==
    /\ client[c].pc = "markFailed"
    /\ Service!MarkEnqueueFailed(client[c].index)
    /\ Goto(c, "record")
    /\ UNCHANGED <<phase, next, firstErr, slot, results, interrupted, llm>>

CallFails(c) ==
    /\ Failures
    /\ client[c].pc = "call"
    /\ Goto(c, "record")
    /\ UNCHANGED <<service, phase, next, firstErr, slot, results, interrupted, llm>>

\* Broken variant: the error of a call is dropped.
RecordErrDrops(c) ==
    /\ client[c].pc = "record"
    /\ Goto(c, "gone")
    /\ UNCHANGED <<service, phase, next, firstErr, slot, results, interrupted, llm>>

RecordErr(c) ==
    /\ client[c].pc = "record"
    /\ firstErr' = TRUE
    /\ Goto(c, "gone")
    /\ UNCHANGED <<service, phase, next, slot, results, interrupted, llm>>

ClientStep(c) ==
    \/ CheckErr(c) \/ TakeIndex(c) \/ Call(c) \/ Submit(c) \/ Enqueue(c)
    \/ EnqueueRefused(c) \/ MarkEnqueueFailed(c) \/ RecordErr(c)

-----------------------------------------------------------------------------
(* runBenchmark: the goroutine that waits for the pools. *)

\* wg.Wait
Waited == \A c \in Clients : client[c].pc = "gone"

TenantOf(index) == index % Tenants

StartPool(p) ==
    /\ phase' = p
    /\ next' = 0
    /\ firstErr' = FALSE
    /\ client' = Started(p)
    /\ slot' = Unwritten(p)

UploadsEnd ==
    /\ phase = "upload" /\ Waited /\ ~firstErr
    /\ documents' = [t \in Indexes(Tenants) |->
            Cardinality({i \in DOMAIN slot : slot[i] > 0 /\ TenantOf(i) = t})]
    /\ phase' = "create"
    /\ UNCHANGED <<service, pool, outstanding, samples, report, interrupted, llm>>

CreateWorkflows ==
    /\ phase = "create"
    /\ StartPool("sync")
    /\ UNCHANGED <<service, results, interrupted, llm>>

SyncEnds ==
    /\ phase = "sync" /\ Waited /\ ~firstErr
    /\ StartPool("async")
    /\ UNCHANGED <<service, results, interrupted, llm>>

NoSample == [completed |-> FALSE, deadLetter |-> FALSE, retried |-> FALSE]

SubmissionsEnd ==
    /\ phase = "async" /\ Waited /\ ~firstErr
    /\ phase' = "poll"
    /\ outstanding' = Indexes(AsyncRuns)
    /\ samples' = [r \in Indexes(AsyncRuns) |-> NoSample]
    /\ UNCHANGED <<service, pool, documents, report, interrupted, llm>>

Fails ==
    /\ \/ phase \in {"upload", "sync", "async"} /\ Waited /\ firstErr
       \/ phase \in {"create", "poll"} /\ Failures
       \/ phase = "poll" /\ interrupted
    /\ phase' = "failed"
    /\ UNCHANGED <<service, pool, results, interrupted, llm>>

\* Broken variant: a run that failed has ended.
EndsFailed(status) == status \in {"completed", "dead_letter", "failed"}

\* Broken variant: only runs that completed have ended.
EndsCompleted(status) == status = "completed"

Ends(status) == status \in {"completed", "dead_letter"}

PollRun(r) ==
    /\ phase = "poll"
    /\ r \in outstanding
    /\ Ends(runs[r].status)
    /\ outstanding' = outstanding \ {r}
    /\ samples' = [samples EXCEPT ![r] =
            [completed  |-> runs[r].status = "completed",
             deadLetter |-> runs[r].status = "dead_letter",
             retried    |-> runs[r].attempt > 1]]
    /\ UNCHANGED <<service, phase, pool, documents, report, interrupted, llm>>

\* SummarizeExecution of the samples of some runs.
Summarize(of) ==
    [runs        |-> Cardinality(DOMAIN of),
     completed   |-> Cardinality({r \in DOMAIN of : of[r].completed}),
     deadLetters |-> Cardinality({r \in DOMAIN of : of[r].deadLetter}),
     retried     |-> Cardinality({r \in DOMAIN of : of[r].retried})]

\* executeRetrieval refuses a workflow without documents.
HasDocuments(index) == documents[TenantOf(index)] > 0

SyncSamples == [i \in Indexes(SyncRuns) |->
                    [NoSample EXCEPT !.completed = HasDocuments(i)]]

\* BuildOverall of the samples of both phases.
Overall(one, other) == [count \in DOMAIN one |-> one[count] + other[count]]

Report ==
    /\ phase = "poll" /\ outstanding = {}
    /\ phase' = "done"
    /\ LET sync  == Summarize(SyncSamples)
           async == Summarize(samples)
       IN report' = [sync |-> sync, async |-> async, overall |-> Overall(sync, async)]
    /\ UNCHANGED <<service, pool, documents, outstanding, samples, interrupted, llm>>

MainStep == UploadsEnd \/ CreateWorkflows \/ SyncEnds \/ SubmissionsEnd \/ Report

-----------------------------------------------------------------------------
(* The worker of the service, the LLM, and the signal. *)

Ended == phase \in {"done", "failed"}

GenerateFails(r) ==
    \/ bucket[r] = "terminal"
    \/ bucket[r] = "transient" /\ attempts[r] = 0

Execute(r) ==
    /\ worker[TheWorker].pc = "execute"
    /\ r = worker[TheWorker].job.run
    /\ attempts' = [attempts EXCEPT ![r] = @ + 1]
    /\ IF GenerateFails(r) \/ ~HasDocuments(r)
       THEN Service!JobFails(TheWorker)
       ELSE Service!JobCompletes(TheWorker)
    /\ UNCHANGED <<phase, pool, results, interrupted, bucket>>

WorkerStep ==
    /\ ~Ended
    /\ \/ \E r \in Indexes(AsyncRuns) : Execute(r)
       \/ /\ \/ Service!Dequeue(TheWorker)
             \/ Service!Inspect(TheWorker)
             \/ Service!Claim(TheWorker)
             \/ Service!MarkAsyncRetry(TheWorker)
             \/ Service!EnqueueAfter(TheWorker)
             \/ Service!MarkDeadLetter(TheWorker)
          /\ UNCHANGED <<phase, pool, results, interrupted, llm>>

Promote(r) ==
    /\ ~Ended
    /\ Service!Promote(r)
    /\ UNCHANGED <<phase, pool, results, interrupted, llm>>

\* SIGINT: from now on the worker may stop, and retries may not come back.
Interrupt ==
    /\ ~Ended /\ ~interrupted
    /\ interrupted' = TRUE
    /\ UNCHANGED <<service, phase, pool, results, llm>>

Next ==
    \/ \E c \in Clients : ClientStep(c) \/ CallFails(c)
    \/ \E r \in Indexes(AsyncRuns) : PollRun(r) \/ Promote(r)
    \/ MainStep
    \/ Fails
    \/ WorkerStep
    \/ Interrupt

Spec == Init /\ [][Next]_vars

\* Goroutines run and delays pass; the worker and its timers only until the
\* context is cancelled, and then select notices it (among the ticks).
FairSpec ==
    /\ Spec
    /\ \A c \in Clients : WF_vars(ClientStep(c))
    /\ WF_vars(MainStep)
    /\ WF_vars(Fails /\ (firstErr \/ interrupted))
    /\ WF_vars(~interrupted /\ WorkerStep)
    /\ \A r \in Indexes(AsyncRuns) :
            WF_vars(PollRun(r)) /\ WF_vars(~interrupted /\ Promote(r))

-----------------------------------------------------------------------------
(* Properties. *)

\* forEachConcurrent: goroutines that share a counter and an error, with no
\* lock over both, run no index twice, and when they are all done and report no
\* error, none was left out: the samples of a phase are complete.
IndexesRunOnce ==
    /\ \A i \in DOMAIN slot : slot[i] <= 1
    /\ Waited /\ ~firstErr => \A i \in DOMAIN slot : slot[i] = 1

Having(buckets) == Cardinality({r \in Indexes(AsyncRuns) : bucket[r] \in buckets})

\* What is printed is what the options asked for, through pool, handler, queue,
\* retries and polling: every synchronous run completes, exactly the runs of the
\* dead-letter bucket end there, and a transient failure costs one retry and no
\* completion ("percent of async runs that fail once before succeeding").
ReportTellsOutcome ==
    phase = "done" =>
        /\ report.sync.completed = SyncRuns
        /\ report.async = [runs        |-> AsyncRuns,
                           completed   |-> Having({"fine", "transient"}),
                           deadLetters |-> Having({"terminal"}),
                           retried     |-> Having({"transient", "terminal"})]
        /\ report.overall.completed + report.overall.deadLetters = SyncRuns + AsyncRuns
        /\ \A r \in Indexes(AsyncRuns) :
                samples[r].completed <=> bucket[r] # "terminal"

\* The benchmark ends: no goroutine of a pool waits for another, every run that
\* was submitted reaches a status that the polling loop waits for, and when the
\* context is cancelled, and with it the worker, the loop is left all the same.
BenchmarkEnds == <>Ended
=============================================================================
