------------------------------ MODULE MemoryQueue ------------------------------
(***************************************************************************)
(* The in-process implementation of executor.JobQueue: a buffered channel, *)
(* which API requests and retry timers send to and workers receive from.   *)
(* A send to a full channel waits in the order of arrival, and a receive   *)
(* lets the first one waiting into the buffer.  A worker that queues a     *)
(* retry leaves the send to a goroutine of its own, so it never waits.     *)
(***************************************************************************)
EXTENDS Naturals, SequencesExt, FiniteSetsExt

CONSTANTS
    Runs,           \* runs that have jobs
    MaxAttempts,    \* defaultAsyncMaxAttempts
    Workers,        \* workers on the queue
    Capacity,       \* size of the channel (128 in the code)
    Deadlines       \* whether requests give up waiting

ASSUME MaxAttemptsAssumption == MaxAttempts \in Nat \ {0}
ASSUME CapacityAssumption == Capacity \in Nat \ {0}
ASSUME DeadlinesAssumption == Deadlines \in BOOLEAN

VARIABLES
    fresh,      \* runs whose first job was not enqueued yet
    channel,    \* the buffer of the channel
    senders,    \* the sends that wait for room in it
    timers,     \* the jobs whose delay is not over
    worker,     \* what each worker does
    refused     \* history: runs whose request was told that the send failed

vars == <<fresh, channel, senders, timers, worker, refused>>

Jobs == [run: Runs, attempt: 0..(MaxAttempts - 1)]

Idle == [pc |-> "idle"]

Init ==
    /\ fresh = Runs
    /\ channel = <<>>
    /\ senders = <<>>
    /\ timers = {}
    /\ worker = [w \in Workers |-> Idle]
    /\ refused = {}

Send(j, who) ==
    IF Len(channel) < Capacity
    THEN channel' = Append(channel, j) /\ UNCHANGED senders
    ELSE senders' = Append(senders, [job |-> j, by |-> who]) /\ UNCHANGED channel

Enqueue(r) ==
    /\ r \in fresh
    /\ fresh' = fresh \ {r}
    /\ Send([run |-> r, attempt |-> 0], "request")
    /\ UNCHANGED <<timers, worker, refused>>

\* Broken variant: the send goes on in a goroutine of its own.
EnqueueGivesUpWaiting(r) ==
    /\ Deadlines
    /\ r \notin refused
    /\ \E i \in DOMAIN senders : senders[i].by = "request" /\ senders[i].job.run = r
    /\ refused' = refused \union {r}
    /\ UNCHANGED <<fresh, channel, senders, timers, worker>>

\* ctx.Done while the send waits, or before it began.
EnqueueGivesUp(r) ==
    /\ Deadlines
    /\ \/ /\ r \in fresh
          /\ fresh' = fresh \ {r}
          /\ UNCHANGED senders
       \/ /\ \E i \in DOMAIN senders :
                /\ senders[i].by = "request" /\ senders[i].job.run = r
                /\ senders' = RemoveAt(senders, i)
          /\ UNCHANGED fresh
    /\ refused' = refused \union {r}
    /\ UNCHANGED <<channel, timers, worker>>

\* Broken variant: a send that does not wait, `default` in a select.
TimerFiresOnce(j) ==
    /\ j \in timers
    /\ timers' = timers \ {j}
    /\ channel' = IF Len(channel) < Capacity THEN Append(channel, j) ELSE channel
    /\ UNCHANGED <<fresh, senders, worker, refused>>

TimerFires(j) ==
    /\ j \in timers
    /\ timers' = timers \ {j}
    /\ Send(j, "timer")
    /\ UNCHANGED <<fresh, worker, refused>>

Retried(job) == [job EXCEPT !.attempt = @ + 1]

\* How the execution of a job ends for the queue: a failed one is queued again,
\* with the next attempt, unless it was the last.
Endings(job) ==
    {[pc |-> "finish", job |-> job]} \union
    {e \in {[pc |-> "retry", job |-> Retried(job)]} : e.job.attempt < MaxAttempts}

\* A worker whose wait is over without a job stays where it is.
Dequeue(w) ==
    /\ worker[w] = Idle
    /\ channel # <<>>
    /\ \E ending \in Endings(Head(channel)) :
            worker' = [worker EXCEPT ![w] = ending]
    /\ IF senders = <<>>
       THEN channel' = Tail(channel) /\ UNCHANGED senders
       ELSE /\ channel' = Append(Tail(channel), Head(senders).job)
            /\ senders' = Tail(senders)
    /\ UNCHANGED <<fresh, timers, refused>>

Finish(w) ==
    /\ worker[w].pc = "finish"
    /\ worker' = [worker EXCEPT ![w] = Idle]
    /\ UNCHANGED <<fresh, channel, senders, timers, refused>>

\* Broken variant: the worker sends the job itself and waits for room.
EnqueueAfterWaits(w) ==
    /\ worker[w].pc = "retry"
    /\ Len(channel) < Capacity
    /\ channel' = Append(channel, worker[w].job)
    /\ worker' = [worker EXCEPT ![w] = Idle]
    /\ UNCHANGED <<fresh, senders, timers, refused>>

EnqueueAfter(w) ==
    /\ worker[w].pc = "retry"
    /\ timers' = timers \union {worker[w].job}
    /\ worker' = [worker EXCEPT ![w] = Idle]
    /\ UNCHANGED <<fresh, channel, senders, refused>>

WorkerStep(w) == Dequeue(w) \/ Finish(w) \/ EnqueueAfter(w)

Next ==
    \/ \E r \in Runs : Enqueue(r) \/ EnqueueGivesUp(r)
    \/ \E j \in Jobs : TimerFires(j)
    \/ \E w \in Workers : WorkerStep(w)

\* Goroutines get to run and timers fire.
Fairness ==
    /\ \A w \in Workers : WF_vars(WorkerStep(w))
    /\ \A j \in Jobs : WF_vars(TimerFires(j))

Spec     == Init /\ [][Next]_vars
FairSpec == Spec /\ Fairness

-----------------------------------------------------------------------------
(* Properties. *)

\* A send waits only while the channel is full.
TypeOK ==
    /\ fresh \subseteq Runs
    /\ channel \in Seq(Jobs) /\ Len(channel) <= Capacity
    /\ senders \in Seq([job: Jobs, by: {"request", "timer"}])
    /\ senders # <<>> => Len(channel) = Capacity
    /\ timers \subseteq Jobs
    /\ worker \in [Workers -> {Idle} \union [pc: {"finish", "retry"}, job: Jobs]]
    /\ refused \subseteq Runs

Waiting == [i \in DOMAIN senders |-> senders[i].job]

\* The promise: a sender that waits is in the line already.
Queue == INSTANCE JobQueue WITH
    ready   <- channel \o Waiting,
    delayed <- timers,
    held    <- [w \in Workers |->
                    IF worker[w] = Idle THEN [none |-> TRUE]
                    ELSE [run |-> worker[w].job.run,
                          attempt |-> IF worker[w].pc = "retry" THEN worker[w].job.attempt - 1
                                      ELSE worker[w].job.attempt]],
    MayDrop <- Deadlines

\* Enqueue, EnqueueAfter and Dequeue do what executor.JobQueue promises, also
\* while sends wait for a full channel.
KeepsQueuePromise == Queue!Spec

IsQueued(r) == \E j \in ToSet(channel \o Waiting) \union timers : j.run = r
IsTaken(r)  == \E w \in Workers : worker[w] # Idle /\ worker[w].job.run = r

\* "the worker dequeues the job" (README.md:60): however full the channel is,
\* requests, timers and workers never wait for each other for ever; only a job whose
\* request gave up is not taken.
QueuedJobsAreTaken == \A r \in Runs : IsQueued(r) ~> IsTaken(r) \/ r \in refused

\* ExecuteAsync marks a run failed when Enqueue returns an error: its job must
\* not be executed after that.
RefusedJobsAreGone == \A r \in refused : ~IsQueued(r) /\ ~IsTaken(r)
=============================================================================
