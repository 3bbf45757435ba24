------------------------------ MODULE TenantData ------------------------------
(***************************************************************************)
(* What tenants store and read: documents with their chunks, workflows,    *)
(* runs with their steps and events.  All tenants share the tables and the *)
(* workers; a workflow names documents by id and nothing checks the ids    *)
(* when it is created, so that every id a tenant can write down reaches    *)
(* executeRetrieval.  Texts are cut by Chunking.  A run is one retrieval,  *)
(* behind an approval or not; its handlers are atomic here (RunLifecycle   *)
(* takes them apart).                                                      *)
(***************************************************************************)
EXTENDS Chunking, FiniteSets, TLC

CONSTANTS
    Tenants,
    DocumentIds,    \* ids.New; their order is not that of creation
    WorkflowIds,
    RunIds,
    Configs,        \* node configurations: document_ids, limit, gated
    Queries,        \* sequences of terms, as strings.Fields returns them
    Contains,       \* the words that contain a term
    MaxAttempts,    \* defaultAsyncMaxAttempts
    NotFound        \* ErrNotFound, and what a table without a row says

ASSUME DocumentIdsAssumption == DocumentIds \subseteq Nat
ASSUME AttemptsAssumption == MaxAttempts \in Nat \ {0}
ASSUME ConfigsAssumption ==
    Configs \subseteq [document_ids : Seq(Nat), limit : Nat, gated : BOOLEAN]

VARIABLES
    documents,  \* a row, or NotFound, for each id
    chunkRows,  \* the chunks of each document, in order
    workflows,
    runs,
    steps,      \* the steps of each run
    pending,    \* runs with a pending state
    events,     \* audit events
    jobs        \* the queue, in no order

tables   == <<documents, chunkRows, workflows>>
executor == <<runs, steps, pending, events, jobs>>

allVars == <<vars, tables, executor>>

TenantInit ==
    /\ Init
    /\ documents = [d \in DocumentIds |-> NotFound]
    /\ chunkRows = [d \in DocumentIds |-> <<>>]
    /\ workflows = [w \in WorkflowIds |-> NotFound]
    /\ runs = [r \in RunIds |-> NotFound]
    /\ steps = [r \in RunIds |-> <<>>]
    /\ pending = {}
    /\ events = {}
    /\ jobs = {}

-----------------------------------------------------------------------------
(* Reads, each for the tenant of the request.                              *)

\* A row by its id, when it is one of the tenant's.
OwnRow(table, tenant, id) ==
    IF id \in DOMAIN table /\ table[id] # NotFound
    THEN IF table[id].tenant = tenant THEN table[id] ELSE NotFound
    ELSE NotFound

GetDocument(tenant, d) == OwnRow(documents, tenant, d)

GetWorkflow(tenant, w) == OwnRow(workflows, tenant, w)

GetRun(tenant, r) == OwnRow(runs, tenant, r)

\* Broken variant: whoever knows the id of a document may read its chunks.
ListChunksOfAnyone(tenant, d) ==
    IF d \notin DocumentIds THEN NotFound
    ELSE IF documents[d] = NotFound THEN NotFound ELSE chunkRows[d]

\* ListChunks of the memory repository.
ListChunks(tenant, d) ==
    IF GetDocument(tenant, d) = NotFound THEN NotFound ELSE chunkRows[d]

\* The rows of document_chunks.
DocumentChunks ==
    UNION {{chunkRows[d][i] : i \in DOMAIN chunkRows[d]} : d \in DocumentIds}

\* The join of ListChunks of Postgres, ORDER BY chunk_index.
JoinedChunks(tenant, d) ==
    LET rows == {c \in DocumentChunks :
                    c.document = d /\ c.tenant = tenant /\ GetDocument(tenant, d) # NotFound}
    IN  [i \in 1..Cardinality(rows) |->
            CHOOSE c \in rows : Cardinality({b \in rows : b.index < c.index}) = i - 1]

\* Broken variant: the second look does not ask whose document it is.
PostgresListChunksOfAnyone(tenant, d) ==
    IF JoinedChunks(tenant, d) = <<>> /\ documents[d] = NotFound
    THEN NotFound ELSE JoinedChunks(tenant, d)

\* A join without rows is looked at again: is there a document at all?
PostgresListChunks(tenant, d) ==
    IF JoinedChunks(tenant, d) = <<>> /\ GetDocument(tenant, d) = NotFound
    THEN NotFound ELSE JoinedChunks(tenant, d)

\* The runs of a status, or all of them.
ListRuns(tenant, status) ==
    {r \in RunIds : GetRun(tenant, r) # NotFound /\ status \in {"", runs[r].status}}

ListSteps(tenant, r) == IF GetRun(tenant, r) = NotFound THEN NotFound ELSE steps[r]

\* handleGetRunEvents looks for the run first.
ListRunEvents(tenant, r) ==
    IF GetRun(tenant, r) = NotFound THEN NotFound
    ELSE {e \in events : e.run = r /\ e.tenant = tenant}

LoadPending(tenant, r) == GetRun(tenant, r) # NotFound /\ r \in pending

-----------------------------------------------------------------------------
(* executeRetrieval. *)

\* lexicalScore: how many terms of the query some word contains.
Score(query, words) ==
    IF query = <<>> THEN 1
    ELSE Cardinality({k \in DOMAIN query :
                        \E j \in DOMAIN words : words[j] \in Contains[query[k]]})

\* The order of slices.SortFunc.
Before(query, left, right) ==
    LET l == Score(query, left.words)
        r == Score(query, right.words)
    IN  \/ l > r
        \/ l = r /\ left.document < right.document
        \/ l = r /\ left.document = right.document /\ left.index < right.index

\* Broken variant: the results are cut before they are sorted.
FirstOf(results, query, limit) ==
    LET cut == IF limit > 0 /\ Len(results) > limit
               THEN SubSeq(results, 1, limit) ELSE results
    IN  SortSeq(cut, LAMBDA left, right : Before(query, left, right))

\* Sorted, and cut to a positive limit.
BestOf(results, query, limit) ==
    LET sorted == SortSeq(results, LAMBDA left, right : Before(query, left, right))
    IN  IF limit > 0 /\ Len(sorted) > limit THEN SubSeq(sorted, 1, limit) ELSE sorted

\* ListChunks for each of the named documents.
ReadDocuments(tenant, ids) == [k \in DOMAIN ids |-> ListChunks(tenant, ids[k])]

\* No document named, or one that the tenant does not have, fails the node.
RetrievalFails(lists) == lists = <<>> \/ \E k \in DOMAIN lists : lists[k] = NotFound

\* The chunks that score, document after document.
Results(lists, query) ==
    LET found(list) == SelectSeq(list, LAMBDA c : Score(query, c.words) > 0)
        all[k \in 0..Len(lists)] == IF k = 0 THEN <<>> ELSE all[k - 1] \o found(lists[k])
    IN  all[Len(lists)]

Retrieve(tenant, config, query) ==
    LET lists == ReadDocuments(tenant, config.document_ids)
    IN  IF RetrievalFails(lists) THEN NotFound
        ELSE BestOf(Results(lists, query), query, config.limit)

-----------------------------------------------------------------------------
(* Uploads and workflows. *)

StoredWords ==
    Cardinality({x \in DocumentIds \X (1..MaxWords) :
                    documents[x[1]] # NotFound /\ x[2] \in DOMAIN documents[x[1]].text})

\* MaxWords bounds the words of all documents together.
ReadText ==
    /\ \/ End
       \/ \E word \in Words : StoredWords + Len(text) < MaxWords /\ AddWord(word)
    /\ UNCHANGED <<tables, executor>>

\* buildChunks
Chunk(tenant, d, i) == [document |-> d, tenant |-> tenant, words |-> chunks[i], index |-> i - 1]

\* Service.Create: text is cut, a PDF is only stored.
CreateDocument(tenant, d, type) ==
    /\ documents[d] = NotFound
    /\ IF type = "text" THEN ended ELSE text = <<>> /\ ~ended
    /\ chunkRows' = [chunkRows EXCEPT ![d] =
            [i \in DOMAIN chunks |-> Chunk(tenant, d, i)]]
    /\ documents' = [documents EXCEPT ![d] =
            [tenant |-> tenant, type |-> type, text |-> text, chunk_count |-> Len(chunks),
             status |-> IF chunks = <<>> THEN "uploaded" ELSE "ingested"]]
    /\ text' = <<>> /\ chunks' = <<>> /\ builder' = <<>> /\ size' = 0 /\ ended' = FALSE
    /\ UNCHANGED <<workflows, executor>>

CreateWorkflow(tenant, w, config) ==
    /\ workflows[w] = NotFound
    /\ workflows' = [workflows EXCEPT ![w] = [tenant |-> tenant, config |-> config]]
    /\ UNCHANGED <<vars, documents, chunkRows, executor>>

-----------------------------------------------------------------------------
(* Runs.  The tenant is the one of the request or of the job throughout. *)

Record(r, tenant, types) ==
    events' = events \union {[tenant |-> tenant, run |-> r, type |-> type] : type \in types}

Step(node, status, output) == [node |-> node, status |-> status, output |-> output]

\* executeRun when only the retrieval is left, behind the steps that were taken and
\* the events that were told before; failed is what becomes of a run that fails.
Finish(r, run, tenant, taken, told, failed) ==
    LET output == Retrieve(tenant, workflows[run.workflow].config, run.query)
        fails  == output = NotFound
    IN  /\ runs' = [runs EXCEPT ![r] =
                        [run EXCEPT !.status = IF fails THEN failed.status ELSE "completed"]]
        /\ steps' = [steps EXCEPT ![r] =
                        Append(taken, Step("retrieve", IF fails THEN "failed" ELSE "completed",
                                           output))]
        /\ pending' = pending \ {r}
        /\ Record(r, tenant, told \union {"run_started"} \union
                    IF fails THEN {"step_failed", "run_failed"} \union failed.types
                             ELSE {"step_completed", "run_completed"})

Pause(r, run, tenant) ==
    /\ runs' = [runs EXCEPT ![r] = [run EXCEPT !.status = "waiting_approval"]]
    /\ steps' = [steps EXCEPT ![r] = <<Step("approval", "waiting_approval", NotFound)>>]
    /\ pending' = pending \union {r}
    /\ Record(r, tenant, {"run_started", "step_waiting_approval", "run_waiting_approval"})

IsGated(w) == workflows[w].config.gated

StaysFailed == [status |-> "failed", types |-> {}]

NewRun(tenant, w, query, status) ==
    [tenant |-> tenant, workflow |-> w, query |-> query, status |-> status, attempt |-> 0]

ExecuteSync(tenant, w, r, query) ==
    LET run == NewRun(tenant, w, query, "running")
    IN  /\ GetWorkflow(tenant, w) # NotFound
        /\ runs[r] = NotFound
        /\ IF IsGated(w) THEN Pause(r, run, tenant)
                         ELSE Finish(r, run, tenant, <<>>, {}, StaysFailed)
        /\ UNCHANGED <<vars, tables, jobs>>

ExecuteAsync(tenant, w, r, query) ==
    /\ GetWorkflow(tenant, w) # NotFound
    /\ runs[r] = NotFound
    /\ runs' = [runs EXCEPT ![r] = NewRun(tenant, w, query, "queued")]
    /\ jobs' = jobs \union {[tenant |-> tenant, run |-> r, workflow |-> w, attempt |-> 0]}
    /\ Record(r, tenant, {"run_queued"})
    /\ UNCHANGED <<vars, tables, steps, pending>>

\* ProcessNext: the job is executed, and a run that failed is queued again or dead.
\* (Nothing deletes runs or workflows; the other cases are RunLifecycle's.)
ProcessNext(job) ==
    LET run   == GetRun(job.tenant, job.run)
        found == GetWorkflow(job.tenant, job.workflow)
        again == job.attempt + 1 < MaxAttempts
        claim == [run EXCEPT !.attempt = job.attempt + 1]
    IN  /\ job \in jobs
        /\ run # NotFound /\ found # NotFound
        /\ run.status = "queued"
        /\ IF IsGated(job.workflow)
           THEN Pause(job.run, claim, job.tenant)
           ELSE Finish(job.run, claim, job.tenant, <<>>, {},
                       IF again THEN [status |-> "queued", types |-> {"retry_scheduled"}]
                                ELSE [status |-> "dead_letter", types |-> {"run_dead_lettered"}])
        /\ jobs' = (jobs \ {job}) \union
                (IF runs'[job.run].status = "queued" THEN {[job EXCEPT !.attempt = @ + 1]} ELSE {})
        /\ UNCHANGED <<vars, tables>>

ResumeApproval(tenant, r, approved) ==
    LET resolved == <<Step("approval", "completed", approved)>>
    IN  /\ LoadPending(tenant, r)
        /\ GetWorkflow(tenant, runs[r].workflow) # NotFound
        /\ \/ /\ approved
              /\ Finish(r, runs[r], tenant, resolved, {"approval_resolved"}, StaysFailed)
           \/ /\ ~approved
              /\ runs' = [runs EXCEPT ![r].status = "failed"]
              /\ steps' = [steps EXCEPT ![r] = resolved]
              /\ pending' = pending \ {r}
              /\ Record(r, tenant, {"approval_resolved", "run_failed"})
        /\ UNCHANGED <<vars, tables, jobs>>

\* What is done in the name of a tenant.
TenantStep(tenant) ==
    \/ \E d \in DocumentIds, type \in {"text", "pdf"} : CreateDocument(tenant, d, type)
    \/ \E w \in WorkflowIds :
          \/ \E config \in Configs : CreateWorkflow(tenant, w, config)
          \/ \E r \in RunIds, query \in Queries :
                ExecuteSync(tenant, w, r, query) \/ ExecuteAsync(tenant, w, r, query)
    \/ \E job \in jobs : job.tenant = tenant /\ ProcessNext(job)
    \/ \E r \in RunIds, approved \in BOOLEAN : ResumeApproval(tenant, r, approved)

TenantNext == ReadText \/ \E tenant \in Tenants : TenantStep(tenant)

TenantSpec == TenantInit /\ [][TenantNext]_allVars

-----------------------------------------------------------------------------
(* Properties. *)

\* Everything that the handlers, and the retrievals a tenant can ask for, answer.
Answers(tenant) ==
    [documents |-> [d \in DocumentIds |-> <<GetDocument(tenant, d), ListChunks(tenant, d)>>],
     workflows |-> [w \in WorkflowIds |-> GetWorkflow(tenant, w)],
     runs      |-> [r \in RunIds |-> <<GetRun(tenant, r), ListSteps(tenant, r),
                                      ListRunEvents(tenant, r), LoadPending(tenant, r)>>],
     listed    |-> [status \in {"", "queued", "completed"} |-> ListRuns(tenant, status)],
     found     |-> [config \in Configs |-> [query \in Queries |->
                        Retrieve(tenant, config, query)]]]

\* Tenants do not notice each other: whatever one of them uploads, defines,
\* executes, approves or has a worker do, naming whatever ids, no answer that
\* another one can get changes.  In particular the id of somebody else's row is
\* answered like one that does not exist.
TenantsAreIsolated ==
    [][\A tenant \in Tenants :
            (\E other \in Tenants \ {tenant} : TenantStep(other))
                => Answers(tenant)' = Answers(tenant)]_allVars

\* The memory repository and Postgres give the same answer about the chunks of
\* any document, the ones without chunks, of others and unknown included, and
\* chunk_count says how many they are.
RepositoriesAgree ==
    \A tenant \in Tenants, d \in DocumentIds :
        /\ ListChunks(tenant, d) = PostgresListChunks(tenant, d)
        /\ GetDocument(tenant, d) # NotFound =>
                documents[d].chunk_count = Len(PostgresListChunks(tenant, d))

Count(seq, x) == Cardinality({i \in DOMAIN seq : seq[i] = x})

\* executeRetrieval returns the best chunks: in the order of score, document and
\* position, as many as asked for and found, each as often as its document is
\* named, and none that is left out comes before one that is returned.
RetrievalIsBest ==
    \A tenant \in Tenants, config \in Configs, query \in Queries :
        LET answer    == Retrieve(tenant, config, query)
            copies(c) == IF Score(query, c.words) > 0
                         THEN Count(config.document_ids, c.document) ELSE 0
        IN  answer # NotFound =>
            /\ \A i, j \in DOMAIN answer : i < j => ~Before(query, answer[j], answer[i])
            /\ config.limit > 0 => Len(answer) <= config.limit
            /\ \A c \in DocumentChunks :
                    /\ Count(answer, c) <= copies(c)
                    /\ Count(answer, c) < copies(c) =>
                            /\ Len(answer) = config.limit
                            /\ \A i \in DOMAIN answer : ~Before(query, c, answer[i])

\* What was uploaded as text can be found: the chunks that a term finds hold
\* every word of the text that contains it, however the text was cut.
TextIsFound ==
    \A d \in DocumentIds, query \in Queries :
        documents[d] # NotFound /\ documents[d].type = "text" /\ Len(query) = 1 =>
            LET all   == [document_ids |-> <<d>>, limit |-> 0, gated |-> FALSE]
                found == Retrieve(documents[d].tenant, all, query)
                words == Joined([i \in DOMAIN found |-> found[i].words])
                hits(seq) == SelectSeq(seq, LAMBDA word : word \in Contains[query[1]])
            IN  hits(words) = hits(documents[d].text)
=============================================================================
