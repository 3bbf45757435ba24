# A verification project for AI-Workflow

TLA+ modules that model the execution core of AI-Workflow (a Go backend that runs
multi-tenant workflows), TLC configurations that check them on small instances, and
TLAPS proofs for every size of most of them. Paths below are relative to the repository.

`PROJECT.json` lists the runs, what each definition models (`map`), the hazards the
properties are for, the broken variants that show that each property can fail
(`mutants`), and the theorems.

    tlc -workers 2 -config MCLifecycleFaults.cfg MCRunLifecycle
    tlapm RunLifecycleProofs.tla

## 1. Inventory

### The system

API processes accept authenticated requests; workers (in the API process or in
`cmd/worker`) take jobs from a queue. Both read and write the same repositories, in
memory or in Postgres, through services that hold no lock over more than one call.

| component | state | operations | interacts with |
|---|---|---|---|
| executor service (`internal/executor/service.go`, `async.go`) | none but its copies of rows | ExecuteSync, ExecuteAsync, ProcessAsyncJob, MarkAsyncRetry, MarkDeadLetter, ResumeApproval | run repository, queue, workflow service, audit |
| run repositories (`executor`) | runs, steps, pending state | CreateRun, UpdateRun, CompleteRun, SavePending, LoadPending | written by requests, workers and approval requests |
| traversal (`engine.go`, `graph.go`, `helpers.go`) | queue, visited nodes and outputs of one execution | buildGraph, continueExecution, pause and stateFromPending | node implementations, audit |
| worker (`internal/worker/service.go`) | the job in hand | Run, ProcessNext | queue, executor |
| Redis queue, memory queue (`internal/worker`) | list and sorted set; channel and timers | Enqueue, EnqueueAfter, Dequeue | requests, workers |
| workflow service | definitions | ValidateDefinition, Create, Get | traversal |
| trigger control (`internal/tenant/controls.go`) | quota windows, idempotency records | Allow, Lookup, Store | handleExecuteWorkflow |
| document service, S3 store | documents, chunks, objects, `bucketReady` | Create, chunkText, ensureBucket, Put, Get, ListChunks | S3, repository |
| retrieval node (`nodes.go`) | none | executeRetrieval | reads the chunks of the documents that a workflow names |
| audit service | events | Record, ListRunEvents | every step of an execution |
| bootstrap, tenants, API keys | tables tenants and api_keys | seedBootstrapData, Authenticate | every process that starts; every request |
| benchmark (`cmd/bench`) | a shared counter, the first error, samples, calls per prompt | forEachConcurrent, runBenchmark, benchmarkLLM | drives a whole service in its own process |

`PROJECT.json` "components" also lists the parts that are not modelled, with reasons.

### What is hard here

- *Read, decide, write without a lock.* ProcessAsyncJob and ResumeApproval read a row,
  work for a while, and write the whole row back. Two copies of a job, or a worker and
  an approval request on one run, would overwrite each other.
- *Row and queue are two stores.* Between marking a run for retry and queueing its job,
  or between taking a job and writing its outcome, a crash strands the run; an LPUSH
  whose reply is lost queues a job that its request reports as refused.
- *Pause and resume.* The traversal is cut at an approval and continued by another
  request from three pieces of stored state.
- *Several workers promote the same delayed jobs*, command by command, in Redis, and read
  the replies into a buffer that may be too small for them.
- *A row and its audit event are two calls*, the event before or behind the write, and an
  event that is refused is dropped in silence; some failures store no step and no event.
- *Check before, store after.* Idempotency keys are looked up before an execution and
  stored behind it; quota windows begin with a request.
- *Several processes create one bucket, seed one table*, and may die in between.
- *Tenants share tables and workers.* A workflow names documents by ids that nobody
  checks and is executed later, by a worker or behind an approval: every read on the way
  has to ask for the tenant again, in two repositories that answer alike.
- *A pool without a common lock.* The benchmark's goroutines share a counter and, under
  another lock, an error; its polling loop waits for two of the statuses of a run.

The full list, with the line where each bites, is "hazards" in `PROJECT.json`.

## 2. Modules and code

| module | models | state and actions |
|---|---|---|
| `RunState` | what a client that polls a run is promised | `run`; one action per legal move of the status |
| `RunLifecycle` | executor service, worker, run repositories, an ideal queue | `runs`, `lastStep`, `pending` (repository), `ready`, `delayed` (queue), `api`, `worker`, `resumer` (where each actor stands, with its stale copies). Every repository or queue call is a step; what executeRun does is abstracted to how it ends. Faults: refused and unacknowledged pushes, failed lookups and writes, dying workers and requests, and a restart of all processes, which loses a queue in memory and keeps the rows in Postgres |
| `WorkflowDefinition` | ValidateDefinition, buildGraph, graph.next | operators over definitions; validator (trimmed ids) and executor (raw ids) kept apart |
| `Engine` | the life of one run: creation, enqueuing, start or failure without a step, continueExecution, the pause, ResumeApproval's continuation, retry and dead letter | `exec` is the in-memory execution, `saved` and `pending` the stored one, `job` where the run's job is; one step per node. A refused enqueue (`async.go:70`) and a workflow that is not found or has no graph (`async.go:104`) fail the run, erase its steps and count no attempt |
| `AuditTrail` | composes `Engine` with the events its actors record | `events`, `announced` (a step's event, recorded ahead of the write that stores the step), `owed` (the run's event, recorded behind its write), `late` (pauses to be told of when others may be at work already), `refused` and `missed` (history). A write and its event are two steps, with crashes between them; any event may be refused, and Postgres refuses the three kinds without a workflow id |
| `JobQueue` | what executor.JobQueue promises | `ready`, `delayed`, `held` |
| `RedisQueue` | redis_queue.go, command by command | `list`, `later` and `due` (the sorted set before and behind its score), `client`. A reply beyond the buffer may be parsed, refused, or cut in its last payload, where nobody notices before the reply to ZREM is read (RemoveCut) |
| `MemoryQueue` | memory_queue.go | `channel`, `senders` (blocked sends), `timers` |
| `Triggers` | handleExecuteWorkflow and TriggerControl | one step per call of the control; `quotas`, `records` |
| `Chunking` | chunkText | one step per word |
| `TenantData` | what tenants write and read of documents, workflows, runs, steps, pending states and events; executeRetrieval | extends `Chunking`, which cuts the texts; one table per variable, one action per handler, for each tenant; the reads of the memory repository and the queries of Postgres are operators side by side |
| `DocumentUpload` | Service.Create and S3ObjectStore | one step per S3 or repository call; `mutex` is bucketMu |
| `Seeding` | seedBootstrapData, the Postgres upserts, Authenticate | one step per SQL statement; processes start, seed, serve and die |
| `Benchmark` | cmd/bench: forEachConcurrent, runBenchmark, the polling loop, benchmarkLLM, the interrupt | `next`, `firstErr`, `client`, `slot` are a pool; `phase`, `documents`, `outstanding`, `samples`, `report` are runBenchmark's; the service's variables are those of `RunLifecycle` |

`MC*` modules give the constants for TLC. `*Proofs` modules hold the proofs (section 4).
Refinements: `RunLifecycle` implements `RunState`; `RedisQueue` and `MemoryQueue`
implement `JobQueue`, which has the shape `RunLifecycle` assumes of its queue.
Compositions: `AuditTrail` runs `Engine` and records its events; `TenantData` stores what
`Chunking` cuts; `Benchmark` takes the steps of an instance of `RunLifecycle` (one
worker, no approvals) and decides with its own LLM how each execution ends.

Three abstractions recur. Data is kept only as far as control depends on it (a node's
output is the value its edges branch on, a job is its run and attempt, a word its
length). A repository call is atomic, because it is one mutex or one transaction; where
it is not (LoadPending of Postgres), it is several steps. Time is an arbitrary wait,
except in `Triggers`, where windows are compared with a clock.

History variables (`executions`, `unacked`, `dropped`, `grants`, `unread`, `hit`,
`started`, `undisturbed`, `refused`, `missed`) record what a property speaks about and are read
by no guard, but for the bound MaxRefused on `refused` in `AuditTrail`.

Definitions marked "Broken variant" are no part of any specification: each is a plausible mistake in the definition behind it, and `PROJECT.json` says which
property then fails.

## 3. Runs

Passing runs:

| run | instance | what it shows |
|---|---|---|
| `lifecycle_faults` | 2 runs, 2 workers, 1 approval request, 3 attempts, 2 gates, all faults, restarts included | OneCopyPerRun, JobsExcludeApprovals, PendingMatchesStatus, AttemptsAreExecutions, UnfinishedIsCarried, SettledStaysSettled; the rows implement `RunState` (KeepsPromise) |
| `lifecycle_live` | the same actors, 1 gate, LoadPending in three reads, no faults, fairness | every queued run settles (QueuedRunsSettle) |
| `engine` | every forest of 4 nodes, every graph of 3 nodes and up to 2 edges, ids with blanks; 2 attempts | an interrupted traversal is one breadth-first walk (WalkIsFollowed) and loses no output and no history; what the stored steps say agrees with the status, also of runs that fail without a step (StatusMatchesSteps) |
| `audit` | a node alone, before and behind an approval; 2 attempts, 9 events, 1 of them refused, the memory repository | over crashes and refusals between any two calls, the events tell of every stored step in order (StepsAreAudited), of no end that did not happen, and last of the outcome unless its own event is missing (TrailTellsOutcome) |
| `redis` | 3 runs, one with a job that exceeds a read, 2 workers, batches of 2, 2 broken connections, fairness | each push yields one copy of a job, in FIFO order, and a job that is lost goes with the one client that removed it (KeepsQueuePromise); no early retry (RetriesWait), also when replies are cut; while replies fit, every job is taken unless a broken connection took it along (QueuedJobsAreTaken) |
| `memory` | 4 runs, 2 workers, a channel of 1 | nobody waits for each other, a refused job is nowhere, FIFO |
| `triggers` | 4 requests, 2 tenants, 1 key, 2 contents, limit 2, window 2, clock to 2 | replays are faithful, repeats are replayed, quota is neither exceeded twofold nor refused early |
| `tenants` | 2 tenants, 2 documents and an id without one, 1 workflow, 1 run, texts of 3 words of lengths 2, 3, 7 with a limit of 6, 5 node configurations, 3 queries, 2 attempts | no word is lost in chunks and none is cut early or too long (WordsAreKept, ChunksAreFull); the queries of Postgres answer as the memory repository (RepositoriesAgree); a retrieval returns the best chunks, as a reference definition has them (RetrievalIsBest), and finds any text that was stored (TextIsFound); a step of a tenant changes nothing that another can read, and reads nothing of another's (TenantsAreIsolated) |
| `upload` | 3 uploads, 2 processes, all faults, fairness | listed documents have objects, every upload ends, and with success unless a fault hit it |
| `seeding` | 2 API processes, a worker, 9 configurations, 3 starts | while a configuration only grows no start fails and served keys work; never a tenant that a key was not configured for; Postgres agrees with memory until another process writes |
| `benchmark` | 2 tenants, 1 document each, 3 synchronous and 2 asynchronous runs in every bucket of the LLM, 2 goroutines, 3 attempts, failing requests, an interrupt at any time, fairness | a pool runs every index once or reports an error (IndexesRunOnce); the report's counts are what the options asked for, through pool, queue, retries and polling (ReportTellsOutcome); it ends (BenchmarkEnds) |

Why the bounds are enough. Interference needs two actors on one run and a third party
on another: two runs, two workers and an approval request give both, three attempts
give a first, a middle and a last one, two gates a pause behind a pause. A channel of
one job is full at once; three jobs and batches of two make a second batch. Four
requests fill two adjacent windows of limit two. Forests of four nodes contain a
condition with two branches below a root and approvals in sequence. 9 events are what the
longest story of `audit` takes: queued, twice started, failed at a step and as a run, retried
between, given up; or a retry, a step and a pause. They cut off only longer series of crashes
and repeated decisions. In `redis` the jobs of r2 and r3 together fill the
buffer, a batch with that of r1 exceeds it, and so does that job alone: replies of every kind,
and a batch behind another.
Three starts are one process that died, one that takes over and one
that joins. Two tenants, one of whom may name the other's document or one that does not
exist, and node configurations that name a document twice, cut matches at the limit and
sit behind an approval, reach every read of `TenantData`; three words with one longer
than a chunk give full, broken and oversized chunks. Two goroutines with three indexes
race for the last one. Symmetry is used on runs, workers, requests, tenants, contents and API
processes, only in runs without liveness properties.

Where deadlock is not checked the instance really stops: all texts are cut, all
requests answered, all jobs done or all starts used up.

Fairness. `lifecycle_live`: weak fairness of every request, worker and approval request
that has begun (a goroutine gets to run; Service.Run polls for ever) and of each delayed
job (delays pass); none on submissions, on decisions to approve, or on how an execution
ends. `redis`, `memory`: the same for workers, delays and timers; Redis answers but for
MaxBreaks breaks. `upload`: weak fairness of each upload, and strong fairness of Lock,
because sync.Mutex does not starve a waiter. `benchmark`: weak fairness of each goroutine,
of runBenchmark and of each poll; of the worker and the timers only until the interrupt,
because both stop with the context; and of leaving after an error or the interrupt,
because the loop selects on ctx.Done among its ticks.

A run that ends in a violation, a disagreement between a document and the code:

- `lifecycle_approved_fails`: an asynchronous run that fails behind an approval is
  never queued again (`internal/executor/service.go:515`), although README.md:62 says
  "failed async runs are retried with backoff".

### Further divergences

Found while modelling, each shown by a configuration that is kept beside the runs and ends in a
violation (`MCRedisPromise` passes: with replies that fit and no broken connection `JobQueue` holds
without Drop, and every job is taken):

| configuration | shows |
|---|---|
| `MCLifecycleTwoDecisions` | of two concurrent approval requests the second takes effect on a run that no longer awaits approval (`service.go:441`) |
| `MCLifecycleTornLoad` | LoadPending of Postgres can resume a run with a row read before the pause (`postgres_repository.go:118`) |
| `MCLifecycleLookup` | a run whose workflow cannot be loaded is retried for ever: the attempt is not counted (`async.go:104`; README.md:63) |
| `MCEngineDangling` | an edge whose destination differs from a node id by a blank is accepted and leads nowhere (`graph.go:26`; `workflow/service.go:229`) |
| `MCEngineCircle` | a circle beside a root is accepted and silently left out (`graph.go:36`) |
| `MCAuditPostgres` | the events of a step that waits, succeeds or fails carry no workflow id (`engine.go:141`), which audit_events requires (`migrations/0007_run_pending_and_audit.up.sql:18`); the insert fails and the error is dropped (`service.go:564`), although README.md:64 says "audit events are persisted". The event of a decision carries the id and is stored |
| `MCRedisJam` | a payload is read with a single Read (`redis_queue.go:261`): a reply beyond the 4096 bytes of the buffer, as one of 32 due jobs of 140 bytes is, fails in every Dequeue of every worker, or is cut in its last payload and costs the first job of the batch, although README.md:60 says "the worker dequeues the job". No connection breaks for it |
| `MCRedisLarge` | a single job beyond the read buffer is taken off the list and lost |
| `MCRedisBackoff` | a worker with an old batch promotes a job that was delayed anew with the same payload, before its time |
| `MCTriggersRace` | two overlapping requests with one key both execute (`limits_test.go:52`) |
| `MCTriggersConflict` | a request told 409 may have been executed before (`limits_test.go:56`) |

Also: LookupIdempotentRun takes a run that it cannot read for an unused key
(`service.go:409`), which is why RepeatsAreReplayed leaves `unread` requests out. And a
configuration that names a tenant in two ways gives it its first name in memory and its
last one in Postgres, which UndisturbedMatchesMemory leaves out. ListRuns breaks ties of
the creation time by ascending ids in memory and by descending ids in Postgres. A document
that a node names twice has its chunks returned twice (`nodes.go:33`). A run that
failed, was retried and completed keeps the error text of the failed attempt
(`async.go:130`). A restart strands queued and running runs whose jobs were only in
memory, and a worker that dies the run in its hands: UnfinishedIsCarried excepts those
(`dropped`). A run that fails without being executed (`async.go:70`, `:104`) has no event
that says so: the trail's last word stays run_queued or retry_scheduled, which
TrailTellsOutcome states as it is.

## 4. Proofs

Each theorem holds for every value of the constants: any set of runs, workers, requests,
processes, tenants, keys, configurations and definitions, any limit, and every subset of
the faults. `tlapm <module>.tla` checks a module.

| module | theorem | says |
|---|---|---|
| `RunLifecycleProofs` | TypeCorrect | []TypeOK |
| | OneCopy | []OneCopyPerRun: the job of a run exists once, over queue, delay, workers and requests |
| | Exclusion | []JobsExcludeApprovals: while a job of a run exists nobody is past LoadPending for it |
| | PendingMatches | []PendingMatchesStatus: a run waits exactly when it can be resumed |
| | Separated | []Separation, the inductive invariant behind the last three |
| | CopiesAreCurrent | []CurrentInv: what the job side has in hand is what the repository says |
| | RunsAreCarried | []UnfinishedIsCarried |
| | AttemptsCounted | AtomicLoad: []AttemptsAreExecutions |
| | SettledForGood | AtomicLoad, OneRequest: SettledStaysSettled |
| | PromiseKept | AtomicLoad, OneRequest: KeepsPromise, that is, `RunLifecycle` implements `RunState` |
| `MemoryQueueProofs` | JobsInOnePlace | []OnePlace, the inductive invariant |
| | ChannelWithinCapacity | []TypeOK: the channel's bound, and sends wait only when it is full |
| | RefusedGone | []RefusedJobsAreGone |
| | QueuePromiseKept | KeepsQueuePromise: `MemoryQueue` implements `JobQueue` |
| `RedisQueueProofs` | JobsInOnePlace, TypeCorrect | []OnePlace, the inductive invariant, and []TypeOK |
| | BatchesOutdated | ~SamePayload: [](OnePlace /\ BatchesAreOld): whatever a batch read long ago still names is due |
| | RetriesAlwaysWait | ~SamePayload: RetriesWait |
| | QueuePromiseKept | KeepsQueuePromise: `RedisQueue` implements `JobQueue`, with any faults; with `Drop` only if connections may break or replies go beyond the buffer |
| `EngineProofs` | AcceptedHasRoot, GraphIsBuilt | a definition that Valid accepts has a root for buildGraph; []BuildGraphSucceeds |
| | WalkFollowed | []WalkIsFollowed: over pauses, decisions, retries and crashes, one walk of the definition |
| | MemoryFitsRow | []EngineInv, the inductive invariant of `Engine` |
| | StatusTellsSteps, OutputsAreExecuted | []StatusMatchesSteps, with the failures that store no steps; []OutputsMatchExecuted |
| | HistoryKept | HistoryIsKept |
| | TrailFollowsEngine | TrailSpec => Spec: `AuditTrail` implements `Engine` |
| | OutcomeIsAudited | TrailSpec => []TrailTellsOutcome, with both audit repositories, crashes and refusals |
| | StepsTold | ~Postgres: TrailSpec => []StepsAreAudited, crashes and refusals included |
| `TriggersProofs` | WindowsAreWithinLimit | []TypeOK: no window counts more than the limit |
| | ReplaysFaithful, RepeatsReplayed | []ReplaysAreFaithful, []RepeatsAreReplayed |
| | BurstsBounded, LimitedWhenExhausted | []BurstsAreBounded, LimitedOnlyWhenExhausted |
| `DocumentProofs` | TextTypes | TenantSpec => []TypeOK of `Chunking` |
| | NoWordIsLost, CutsAreLate | []WordsAreKept, []ChunksAreFull |
| | ChunksAreListedAlike | []RepositoriesAgree |
| | TenantsDoNotMeet | TenantsAreIsolated |
| | MutexHeld, ListedIsStored | UploadSpec => []UploadTypeOK (the mutex is held exactly by the upload inside ensureBucket), []DocumentsHaveObjects |
| `SeedingProofs` | SeedingIsTyped | []TypeOK |
| | ServedKeysAlwaysWork, StartsAlwaysSucceed | []ServedKeysWork, []StartsSucceed |
| | AnswersConfigured, UndisturbedLikeMemory | []AnswersAreConfigured, []UndisturbedMatchesMemory |
| `BenchmarkProofs` | PoolsRunEachOnce | []IndexesRunOnce |
| | ReportsAreRight | MaxAttempts > 1: []ReportTellsOutcome |

### Assumptions

The named ASSUMEs of the modules, which TLC evaluates in each run, say what kind of value
a constant is (limits are naturals, switches are Boolean, a bound on attempts is
positive), and `DefinitionsAssumption` says what a request is decoded into: lists of nodes
and edges with the fields of `workflow.Definition`. Three say more: `NobodyAssumption` and `NoKeyAssumption` keep the model's
"no upload" and "no key" apart from the real ones (an unlocked mutex, an absent header),
and `SeedingAssumption` has every field of a configuration entry non-empty, which
parseBootstrapAPIKeys enforces (`config/bootstrap.go:49`).

Some theorems need hypotheses that not every deployment meets, and
the code shows why. In `RunLifecycleProofs`, `AtomicLoad`, LoadPending as one read, is true of the memory
repository; with the three queries of Postgres a request can resume a run with a row read
before the pause, whose attempt counter and status are old (`MCLifecycleTornLoad`).
`OneRequest`, at most one approval request at a time, rules out `MCLifecycleTwoDecisions`,
where a second decision overwrites a settled run. Neither is needed for the separation of
jobs and approvals or for RunsAreCarried. In `RedisQueueProofs`, `~SamePayload` is needed
where a retry must differ from the job it repeats: ZREM names a job by its payload, and a
lookup that fails before the attempt is counted retries with the same one
(`MCRedisBackoff`). OnePlace and QueuePromiseKept hold without it. StepsTold needs
`~Postgres`: Postgres refuses every event that carries the status of a step (`MCAuditPostgres`). In `BenchmarkProofs`, a
run must have more than one attempt (`defaultAsyncMaxAttempts` is 3): with one, a transient
failure ends dead-lettered, and the report says so.

### The arguments

`RunLifecycle`, separation. None of the three safety invariants is inductive.
OneCopyPerRun could be broken by a request that pushes a first job for a run that
somebody already carries, and JobsExcludeApprovals by an approval request that finds a
pending state beside a job. `Separation` is their conjunction with TypeOK and
FreshRunsAreAlone (before the first push, nothing names the run but its own request).
Exclusion is kept because a job exists only while `pending` is 0 - so LoadPending is
refused - and a pending state is written only by the actor that gives up the job in the
same step (JobPauses), or by an actor of the approval side, which Exclusion keeps away
from jobs. There is one lemma per group of actions; lemmas on pushing, popping and
promoting isolate the reasoning about sequences.

`RunLifecycle`, promise. Rows are read and written back without a condition, so every
claim about what a step writes is a claim about a copy. `CurrentInv` adds to Separation
that each copy is current: a queued job belongs to a queued run with the same attempt
below the limit, a worker's job to the row it loaded or wrote last. Unacknowledged
pushes, whose run the request fails while its job is queued, are excepted, as they are
in the properties. From there UnfinishedIsCarried needs that no step lets go of a run
without handing it on (`CarriedInv`); AttemptsAreExecutions that an approval request
carries the attempt of its run (`CountedInv`); SettledStaysSettled and KeepsPromise that
nobody writes a run which the one approval request has loaded (`PromiseInv`). Then each
step's change of a row is one of the moves of `RunState`, and all others stutter.

`MemoryQueue`. The channel and the sends blocked on it are seen as one line. Every step
leaves the line alone (a waiting send moving into the channel), appends to it, takes its
head, or withdraws a job whose request gave up. `OnePlace` says that a run is once in
line, timers and hands together, and no longer anywhere when refused. Without it
a withdrawal might take the wrong copy and a timer might push a job that is queued.

`RedisQueue`. No command is atomic with the next one, so what a client read with
ZRANGEBYSCORE may be false by the time it removes a job. `OnePlace` leaves the batches out
and says where a run's job really is: once over the list, the waiting and the due members
of the sorted set, and the hands of one worker, which are a job that is executed or the
head of a batch after a successful ZREM. ZREM is the only way from the sorted set into a
hand, and it succeeds for one client, so two clients with the same batch never both push.
`BatchesAreOld` bounds what a stale batch can do: each of its jobs is due, or has gone for
good, because a later retry of the run has a higher attempt; hence ZREM removes nothing
that still waits. For the promise a job counts as delayed until it is pushed; then RPUSH
promotes it, the pop takes it, and all commands in between stutter, except those whose
connection breaks with a job in hand and those behind a reply beyond the buffer: they drop
one job, as `JobQueue` allows then (`MayDrop`). `CutsOverflow` says that a reply is cut only if
some batch of jobs of different runs exceeds the buffer, so where none does nothing is dropped.

`Engine` and `AuditTrail`. `EngineInv` ties the in-memory execution to the row: the
steps in memory are all completed, their nodes are the executed ones, and they go on from
the stored steps while a pending state exists; a pending state has the executed nodes of
all stored steps but the last, which waits; the status says which form the stored steps
have. A run that is queued or failed has no steps or those of a failed execution; that a
dead-lettered one always has the latter needs the attempts (`AttemptsFit`): a failure without
steps leaves them as they were, below the limit, so the worker never gives up a run for it.
An approved decision restores exactly the first form from the second. AcceptedHasRoot
connects validator and executor: an id that no edge names after trimming is named by none
before it.

The walk of WalkIsFollowed knows no executed or queued set, so the executor follows it only
if these sets never keep a node out. That is what `WalkFits` says beside it (`QueueFits`):
nothing is queued twice or both queued and executed, and an edge that leads to a queued or
executed node comes from an executed one. The validator lets at most one edge lead to a
node (`OneEdge`). So an edge from the node whose turn it is leads to nothing that was
reached before (`NextIsFresh`), and appendQueue and the loop of continueExecution append
every next node (`AppendsAll`, `PushesAll`). A pause queues what lies behind the approval
node before the decision is known; that is the same walk because only a condition's output
chooses among edges (`SameNext`), and a walk depends on its steps only through what they
lead to (`WalksAlike`). Roots, next nodes, queue and frontiers are recursive functions;
`RecursionFollows` and `RecursionsAgree` carry what is proved of one step to all.

A write and its event are two calls, so neither property of the trail is about one action.
`TrailInv` follows the event that is owed: it agrees with the row that was just written, and an
end (completed, dead letter) is never left again, so recording it later makes nothing false.
Either it is owed, or it was missed, or the list ends with it but for pauses told late. Refused or
lost events only shorten the list. For StepsAreAudited `ToldInv` says that the events tell of the
stored steps, of the steps in memory, and of those that the write behind an announced event is
about to store (`Coming`), each by an event behind that of the step before; an event that was
refused excuses the steps it would have told of. A crash behind the announcement leaves an
event too many, which disturbs no order. The decision on an approval rewrites a step, and its own
event takes the place of the one about the pause.

`Triggers`. `ReplayInv`: a record holds a run that was created by a request with this
key, and with the content under which it is stored; what a created request stored stays
under its key with its content, whoever overwrites it. `QuotaInv`: a window counts
exactly the grants since it was opened, all within its length and one at its start, and
between the start of the window and one window's length before it there were fewer than
Limit. So a span of one window meets two windows at most, the first of them without its
opening grant, or it is within the last one.

`DocumentUpload`. An upload at "persist" has stored its object, and no step removes one
(`StoredFirst`).

`Chunking`. WordsAreKept is about the text as a whole, the step about one word.
`BuilderInv` connects them: chunks and builder together are the words read so far, in
their order; the builder is empty only before the first word and after the last, and what
it holds fits the limit unless it is a single word. Then a chunk is closed only by a word
that would not have fitted it, which is ChunksAreFull. The size and the
concatenation of chunks are recursive functions. The step from k to k + 1 is proved for
each of them, and `IntervalInduction` (the set of counterexamples in 1..n has
a least member) carries it to every length.

`TenantData`. `RowsInv`: the chunks of a document are numbered by position without
gaps, carry the document's tenant, and are as many as its chunk_count. So a
query ordered by document and index meets the same chunks as the list in
memory, which gives RepositoriesAgree. Isolation compares what a tenant can read
before and after each step that is taken in another's name: such a step writes only rows
that are new or its own (`WritesRun`), a row of another tenant looks like an absent one, and retrieval depends
on the tables only through ListChunks.

`Seeding`. `TablesInv`: every row is an entry of a configuration that was started, keys
are unique, the entries behind a process have rows, and a process that nobody disturbed
finds its own there. While configurations only grow, all that were started agree where
they overlap, so the row of an entry can only be that entry, whoever wrote it last.
`AnswerInv` carries what the first read of Authenticate found over to the second.

`Benchmark`. An index below the shared counter was written once, or is in the hands of
exactly one goroutine, or led to an error; a goroutine leaves only when the counter has
reached the total or the error is set (`PoolInv`). The counter alone decides who takes
an index, so no lock over counter and error is needed. For the report, the service inside
the benchmark is an instance of `RunLifecycle`, and the invariant of its attempts
(CopiesAreCurrent with AttemptsCounted) is cited, not proved again. `BenchmarkInv` adds that
the LLM was called once for each execution that has ended (`CallsCounted`), and that a row
tells how those calls ended (`RowsTell`): they all failed while the run is not completed, the
last one succeeded when it is, and a dead-lettered run has used all attempts. A failed
retrieval cannot be the reason, as the pool of the uploads has left every tenant a document
(`Uploaded`). So the status that ends the polling of a run gives away its bucket.

TLC confirms each inductive invariant on the instance of its run (in `EngineProofs`
without the conjuncts that steps and events are sequences over some set, which TLC
cannot enumerate).

### Only model-checked

- Liveness and fairness: QueuedRunsSettle, QueuedJobsAreTaken, UploadsEnd, BenchmarkEnds.
- What SelectSeq and SortSeq compute for every input, which the prover cannot expand:
  RetrievalIsBest and TextIsFound (selection and sorting of chunks).

## 5. Not modelled

- The JSON columns (numbers change their Go type over a pause) and the order of runs or
  steps with equal timestamps.
- What LLM and HTTP nodes compute, and the egress policy: a pure predicate over hosts.
- Restarts of the trigger control, which keeps quotas and keys in one process by design.
- The local object store, health checks, tracing and logging, ids: no state of their own
  that two actors share.
- Decoding and encoding of requests, the mapping of errors to status codes, and the
  numbers that are read from the environment.
- Latencies and throughput in the benchmark's report.
- The wiring of processes and their orderly shutdown.

## 6. Plan

Done: the modules above, in the order run lifecycle, traversal, queues, triggers,
documents, audit, seeding, then tenancy and retrieval, restarts, the benchmark; the
proofs of section 4.

Every other safety invariant and action property of the runs has a theorem. Open are
RetrievalIsBest and TextIsFound, which would need recursive functions in place of SelectSeq
and SortSeq, with their lemmas. TLC evaluates an insertion sort written that way several
times slower than SortSeq, so the instance of `tenants` would have to shrink first.
