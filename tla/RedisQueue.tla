------------------------------ MODULE RedisQueue ------------------------------
(***************************************************************************)
(* The Redis implementation of executor.JobQueue: a list of jobs and a     *)
(* sorted set of delayed ones, which every worker empties into the list    *)
(* before it takes a job.  Each Redis command is one atomic step; between  *)
(* two of them the connection may break, before or after the command took  *)
(* effect.  The list is written oldest job first: LPUSH appends to it and  *)
(* BRPOP takes its head.                                                   *)
(***************************************************************************)
EXTENDS Naturals, SequencesExt, FiniteSetsExt

CONSTANTS
    Runs,           \* runs that have jobs
    MaxAttempts,    \* defaultAsyncMaxAttempts
    Workers,        \* workers on the queue, each a client of its own
    Batch,          \* LIMIT of ZRANGEBYSCORE (32 in the code)
    Buffer,         \* how much of a reply one read of the bufio.Reader holds
    Weight,         \* what the job of a run takes of it
    SamePayload,    \* whether a retry may carry an unchanged attempt number
    MaxBreaks       \* bound on the connections that break

ASSUME MaxAttemptsAssumption == MaxAttempts \in Nat \ {0}
ASSUME BatchAssumption == Batch \in Nat \ {0}
ASSUME WeightAssumption == Weight \in [Runs -> Nat \ {0}] /\ Buffer \in Nat
ASSUME SwitchAssumption == SamePayload \in BOOLEAN /\ MaxBreaks \in Nat

VARIABLES
    fresh,      \* runs whose first job was not enqueued yet
    list,       \* the Redis list
    later,      \* the sorted set: members whose time has not come
    due,        \* the sorted set: members whose time has come, by score
    client,     \* where each worker stands
    breaks      \* connections that broke so far

vars == <<fresh, list, later, due, client, breaks>>

Jobs == [run: Runs, attempt: 0..(MaxAttempts - 1)]

Idle    == [pc |-> "idle"]
Clients == {Idle} \union [pc: {"range", "pop"}]
                  \union [pc: {"remove", "push", "cut"}, batch: Seq(Jobs) \ {<<>>}]
                  \union [pc: {"hold"}, job: Jobs]

Init ==
    /\ fresh = Runs
    /\ list = <<>>
    /\ later = {}
    /\ due = <<>>
    /\ client = [w \in Workers |-> Idle]
    /\ breaks = 0

\* readRESPBulkString reads a payload with a single Read, which returns what is
\* buffered: a reply that goes beyond the buffer is parsed only by luck.
Fits(jobs) ==
    FoldLeft(LAMBDA sum, j : sum + Weight[j.run], 0, jobs) <= Buffer
Parsed(jobs) == IF Fits(jobs) THEN {TRUE} ELSE BOOLEAN

\* What a client does with the reply that brings a batch.  When a payload is cut short
\* the rest of it is where the next one should begin, which ends Dequeue; only behind
\* the last payload nobody looks, before the reply to the next command is read.
Received(batch) ==
    {[pc |-> "remove", batch |-> batch]} \union
        IF Fits(batch) THEN {} ELSE {Idle, [pc |-> "cut", batch |-> batch]}

\* Whether a reply may go beyond the buffer: a batch has one job of a run at most.
CanOverflow ==
    \E n \in 1..Batch : \E jobs \in [1..n -> Jobs] :
        /\ ~Fits(jobs)
        /\ \A i, k \in 1..n : jobs[i].run = jobs[k].run => i = k

Enqueue(r) ==
    /\ r \in fresh
    /\ fresh' = fresh \ {r}
    /\ list' = Append(list, [run |-> r, attempt |-> 0])
    /\ UNCHANGED <<later, due, client, breaks>>

BecomeDue(j) ==
    /\ j \in later
    /\ later' = later \ {j}
    /\ due' = Append(due, j)
    /\ UNCHANGED <<fresh, list, client, breaks>>

-----------------------------------------------------------------------------
(* Dequeue, command by command. *)

\* Broken variant: the list is read without a look at the delayed jobs.
ConnectSkipsPromotion(w) ==
    /\ client[w] = Idle
    /\ client' = [client EXCEPT ![w] = [pc |-> "pop"]]
    /\ UNCHANGED <<fresh, list, later, due, breaks>>

Connect(w) ==
    /\ client[w] = Idle
    /\ client' = [client EXCEPT ![w] = [pc |-> "range"]]
    /\ UNCHANGED <<fresh, list, later, due, breaks>>

RangeFinds(w, found) ==
    /\ client[w].pc = "range"
    /\ LET batch == SubSeq(found, 1, Min({Batch, Len(found)})) IN
        IF batch = <<>>
        THEN client' = [client EXCEPT ![w] = [pc |-> "pop"]]
        ELSE \E next \in Received(batch) : client' = [client EXCEPT ![w] = next]
    /\ UNCHANGED <<fresh, list, later, due, breaks>>

\* Broken variant: ZRANGEBYSCORE up to +inf.
RangeAll(w) == RangeFinds(w, due \o SetToSeq(later))

\* ZRANGEBYSCORE: the due jobs, up to a batch; without any the list is read.
RangeDue(w) == RangeFinds(w, due)

AfterBatch(rest) ==
    IF rest = <<>> THEN [pc |-> "range"] ELSE [pc |-> "remove", batch |-> rest]

InSortedSet(j) == j \in later \union ToSet(due)

\* A sorted set has a member once.
Zrem(j) ==
    /\ later' = later \ {j}
    /\ due' = RemoveFirst(due, j)

\* Broken variant: the job is pushed whoever removed it.
RemoveDueAnyway(w) ==
    /\ client[w].pc = "remove"
    /\ Zrem(Head(client[w].batch))
    /\ client' = [client EXCEPT ![w].pc = "push"]
    /\ UNCHANGED <<fresh, list, breaks>>

\* ZREM: only the client whose command removes the job goes on to push it.
RemoveDue(w) ==
    /\ client[w].pc = "remove"
    /\ LET j == Head(client[w].batch) IN
        /\ Zrem(j)
        /\ client' = [client EXCEPT ![w] =
                        IF InSortedSet(j) THEN [@ EXCEPT !.pc = "push"]
                        ELSE AfterBatch(Tail(@.batch))]
    /\ UNCHANGED <<fresh, list, breaks>>

\* ZREM of the first job takes effect, but the rest of the last payload is read for its
\* reply, and Dequeue ends.  An only payload is itself the one that was cut short: in
\* its line end, or so that ZREM names nothing.
RemoveCut(w) ==
    /\ client[w].pc = "cut"
    /\ \/ Zrem(Head(client[w].batch))
       \/ Len(client[w].batch) = 1 /\ UNCHANGED <<later, due>>
    /\ client' = [client EXCEPT ![w] = Idle]
    /\ UNCHANGED <<fresh, list, breaks>>

PushDue(w) ==
    /\ client[w].pc = "push"
    /\ list' = Append(list, Head(client[w].batch))
    /\ client' = [client EXCEPT ![w] = AfterBatch(Tail(@.batch))]
    /\ UNCHANGED <<fresh, later, due, breaks>>

\* BRPOP: a job that cannot be decoded is gone.
Pop(w) ==
    /\ client[w].pc = "pop"
    /\ list # <<>>
    /\ list' = Tail(list)
    /\ \E parsed \in Parsed(<<Head(list)>>) :
            client' = [client EXCEPT ![w] =
                IF parsed THEN [pc |-> "hold", job |-> Head(list)] ELSE Idle]
    /\ UNCHANGED <<fresh, later, due, breaks>>

PopTimesOut(w) ==
    /\ client[w].pc = "pop"
    /\ list = <<>>
    /\ client' = [client EXCEPT ![w] = Idle]
    /\ UNCHANGED <<fresh, list, later, due, breaks>>

-----------------------------------------------------------------------------
(* What a worker does with the job it was given. *)

Finish(w) ==
    /\ client[w].pc = "hold"
    /\ client' = [client EXCEPT ![w] = Idle]
    /\ UNCHANGED <<fresh, list, later, due, breaks>>

\* The attempt grows with each execution, but not with a failed lookup.
Retried(job) ==
    {j \in Jobs : j.run = job.run /\ \/ j.attempt = job.attempt + 1
                                     \/ SamePayload /\ j = job}

\* ZADD sets the score of a member that is in the sorted set already.
EnqueueAfter(w) ==
    /\ client[w].pc = "hold"
    /\ \E j \in Retried(client[w].job) :
        /\ later' = later \union {j}
        /\ due' = RemoveFirst(due, j)
    /\ client' = [client EXCEPT ![w] = Idle]
    /\ UNCHANGED <<fresh, list, breaks>>

-----------------------------------------------------------------------------
(* Broken connections: every error of a command ends Dequeue. *)

GivesUp(w) ==
    /\ breaks < MaxBreaks
    /\ breaks' = breaks + 1
    /\ client' = [client EXCEPT ![w] = Idle]

CommandNotSent(w) ==
    /\ client[w] # Idle
    /\ GivesUp(w)
    /\ UNCHANGED <<fresh, list, later, due>>

ReplyLost(w) ==
    /\ GivesUp(w)
    /\ \/ client[w].pc = "remove" /\ Zrem(Head(client[w].batch)) /\ UNCHANGED list
       \/ client[w].pc = "push" /\ list' = Append(list, Head(client[w].batch))
                                /\ UNCHANGED <<later, due>>
       \/ client[w].pc = "pop" /\ list # <<>> /\ list' = Tail(list)
                               /\ UNCHANGED <<later, due>>
    /\ UNCHANGED fresh

WorkerStep(w) ==
    \/ Connect(w) \/ RangeDue(w) \/ RemoveDue(w) \/ RemoveCut(w) \/ PushDue(w)
    \/ Pop(w) \/ PopTimesOut(w)
    \/ Finish(w) \/ EnqueueAfter(w)

Next ==
    \/ \E r \in Runs : Enqueue(r)
    \/ \E j \in Jobs : BecomeDue(j)
    \/ \E w \in Workers : WorkerStep(w) \/ CommandNotSent(w) \/ ReplyLost(w)

\* Workers poll for ever, delays pass, and Redis answers.
Fairness ==
    /\ \A w \in Workers : WF_vars(WorkerStep(w))
    /\ \A j \in Jobs : WF_vars(BecomeDue(j))

Spec     == Init /\ [][Next]_vars
FairSpec == Spec /\ Fairness

-----------------------------------------------------------------------------
(* Properties. *)

\* The jobs on their way from the sorted set to the list.
Promoted == {Head(client[w].batch) : w \in {v \in Workers : client[v].pc = "push"}}

\* A client that removes or pushes has a rest of its batch left, or all of it.
TypeOK ==
    /\ fresh \subseteq Runs
    /\ list \in Seq(Jobs)
    /\ later \subseteq Jobs
    /\ due \in Seq(Jobs)
    /\ client \in [Workers -> Clients]
    /\ breaks \in 0..MaxBreaks

\* The promise: a job on its way from the sorted set to the list counts as
\* still delayed (promoteDueJobs).  Jobs are lost with a connection that breaks, and
\* behind a reply that one read does not hold: a job too large, or a batch whose
\* last payload is cut short (readRESPBulkString).
Queue == INSTANCE JobQueue WITH
    ready   <- list,
    delayed <- later \union ToSet(due) \union Promoted,
    held    <- [w \in Workers |-> IF client[w].pc = "hold" THEN client[w].job
                                  ELSE [none |-> TRUE]],
    MayDrop <- MaxBreaks > 0 \/ CanOverflow

\* Enqueue, EnqueueAfter and Dequeue do what executor.JobQueue promises, also
\* while other workers are between two commands.
KeepsQueuePromise == Queue!Spec

IsQueued(r) == \E j \in ToSet(list) \union later \union ToSet(due) : j.run = r
IsTaken(r)  == \E w \in Workers : client[w].pc = "hold" /\ client[w].job.run = r

\* A broken connection took the job along.
IsLost(r) ==
    breaks > 0 /\ ~IsQueued(r) /\ ~IsTaken(r) /\ \A j \in Promoted : j.run # r

\* "the worker dequeues the job" (README.md:60): no job stays in the list or in the
\* sorted set for ever, and without a connection that breaks none disappears.
EveryJobIsTaken == \A r \in Runs : IsQueued(r) ~> IsTaken(r) \/ IsLost(r)

\* What a client may read next fits the buffer.
RepliesFit ==
    /\ Fits(SubSeq(due, 1, Min({Batch, Len(due)})))
    /\ list # <<>> => Fits(<<Head(list)>>)

\* While every reply fits the buffer each job is taken, and again after each retry,
\* however the workers' commands interleave (promoteDueJobs).
QueuedJobsAreTaken == []RepliesFit => EveryJobIsTaken

\* "failed async runs are retried with backoff" (README.md:62): a delayed job
\* leaves the sorted set only when its delay is over.
RetriesWait ==
    [][\A j \in later : j \in later' \union ToSet(due')]_vars
=============================================================================
