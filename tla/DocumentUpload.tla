---------------------------- MODULE DocumentUpload ----------------------------
(***************************************************************************)
(* Uploads of documents to the S3 object store and to the repository.      *)
(* Several API processes, each with its own S3ObjectStore, share one S3    *)
(* service; the bucket may not exist when they start.  ensureBucket holds  *)
(* a mutex of its process over its S3 calls, each of which is one step.    *)
(* Every upload has a document id, and so an object key, of its own.       *)
(***************************************************************************)
EXTENDS Naturals, FiniteSets

CONSTANTS
    Processes,
    Uploads,    \* requests to Service.Create
    Process,    \* the process that serves each of them
    Faults      \* whether calls may fail and processes restart

ASSUME ProcessAssumption == Process \in [Uploads -> Processes]
ASSUME FaultsAssumption == Faults \in BOOLEAN

VARIABLES
    bucket,     \* S3: the bucket exists
    objects,    \* S3: the uploads whose object is stored
    listed,     \* repository: the uploads whose document and chunks are listed
    ready,      \* bucketReady of each process
    mutex,      \* bucketMu: the upload that holds it in each process, or Nobody
    upload,     \* where each upload stands
    hit         \* history: the uploads that a fault has hit

uploadVars == <<bucket, objects, listed, ready, mutex, upload, hit>>

Nobody == "nobody"

\* An upload is never taken for the absence of one.
ASSUME NobodyAssumption == Nobody \notin Uploads

UploadInit ==
    /\ bucket \in BOOLEAN
    /\ objects = {}
    /\ listed = {}
    /\ ready = [p \in Processes |-> FALSE]
    /\ mutex = [p \in Processes |-> Nobody]
    /\ upload = [u \in Uploads |-> "lock"]
    /\ hit = {}

Goto(u, pc) == upload' = [upload EXCEPT ![u] = pc]

Lock(u) ==
    /\ upload[u] = "lock"
    /\ mutex[Process[u]] = Nobody
    /\ mutex' = [mutex EXCEPT ![Process[u]] = u]
    /\ Goto(u, IF ready[Process[u]] THEN "unlock" ELSE "exists")
    /\ UNCHANGED <<bucket, objects, listed, ready, hit>>

BucketExists(u) ==
    /\ upload[u] = "exists"
    /\ Goto(u, IF bucket THEN "mark" ELSE "make")
    /\ UNCHANGED <<bucket, objects, listed, ready, mutex, hit>>

\* Broken variant: a bucket that exists by now is an error.
MakeBucketOnce(u) ==
    /\ upload[u] = "make"
    /\ bucket' = TRUE
    /\ IF bucket THEN Goto(u, "failed") /\ mutex' = [mutex EXCEPT ![Process[u]] = Nobody]
                 ELSE Goto(u, "mark") /\ UNCHANGED mutex
    /\ UNCHANGED <<objects, listed, ready, hit>>

\* MakeBucket fails when another process has made the bucket in between.
MakeBucket(u) ==
    /\ upload[u] = "make"
    /\ bucket' = TRUE
    /\ Goto(u, IF bucket THEN "recheck" ELSE "mark")
    /\ UNCHANGED <<objects, listed, ready, mutex, hit>>

Unlock(u) == mutex' = [mutex EXCEPT ![Process[u]] = Nobody]

Fail(u) ==
    /\ Goto(u, "failed")
    /\ IF mutex[Process[u]] = u THEN Unlock(u) ELSE UNCHANGED mutex

RecheckBucket(u) ==
    /\ upload[u] = "recheck"
    /\ IF bucket THEN Goto(u, "mark") /\ UNCHANGED mutex ELSE Fail(u)
    /\ UNCHANGED <<bucket, objects, listed, ready, hit>>

MarkReady(u) ==
    /\ upload[u] = "mark"
    /\ ready' = [ready EXCEPT ![Process[u]] = TRUE]
    /\ Goto(u, "unlock")
    /\ UNCHANGED <<bucket, objects, listed, mutex, hit>>

ReleaseMutex(u) ==
    /\ upload[u] = "unlock"
    /\ Unlock(u)
    /\ Goto(u, "put")
    /\ UNCHANGED <<bucket, objects, listed, ready, hit>>

\* Broken variant: the document is listed first.
PersistFirst(u) ==
    /\ upload[u] = "put"
    /\ listed' = listed \union {u}
    /\ Goto(u, "persist")
    /\ UNCHANGED <<bucket, objects, ready, mutex, hit>>

PutObject(u) ==
    /\ upload[u] = "put"
    /\ bucket
    /\ objects' = objects \union {u}
    /\ Goto(u, "persist")
    /\ UNCHANGED <<bucket, listed, ready, mutex, hit>>

\* One transaction for the document and all of its chunks.
Persist(u) ==
    /\ upload[u] = "persist"
    /\ listed' = listed \union {u}
    /\ Goto(u, "done")
    /\ UNCHANGED <<bucket, objects, ready, mutex, hit>>

UploadStep(u) ==
    \/ Lock(u) \/ BucketExists(u) \/ MakeBucket(u) \/ RecheckBucket(u)
    \/ MarkReady(u) \/ ReleaseMutex(u) \/ PutObject(u) \/ Persist(u)

\* Any call may fail, whether it took effect or not.
CallFails(u) ==
    /\ Faults
    /\ upload[u] \in {"exists", "make", "recheck", "put", "persist"}
    /\ \/ upload[u] = "make" /\ bucket' = TRUE /\ Goto(u, "recheck")
          /\ UNCHANGED <<objects, listed, mutex>>
       \/ upload[u] = "make" /\ Goto(u, "recheck")
          /\ UNCHANGED <<bucket, objects, listed, mutex>>
       \/ upload[u] = "put" /\ bucket /\ objects' = objects \union {u} /\ Fail(u)
          /\ UNCHANGED <<bucket, listed>>
       \/ upload[u] = "persist" /\ listed' = listed \union {u} /\ Fail(u)
          /\ UNCHANGED <<bucket, objects>>
       \/ upload[u] # "make" /\ Fail(u) /\ UNCHANGED <<bucket, objects, listed>>
    /\ hit' = hit \union {u}
    /\ UNCHANGED ready

Restart(p) ==
    /\ Faults
    /\ ready' = [ready EXCEPT ![p] = FALSE]
    /\ mutex' = [mutex EXCEPT ![p] = Nobody]
    /\ LET cut == {u \in Uploads : Process[u] = p /\ upload[u] \notin {"lock", "done"}} IN
        /\ upload' = [u \in Uploads |-> IF u \in cut THEN "failed" ELSE upload[u]]
        /\ hit' = hit \union cut
    /\ UNCHANGED <<bucket, objects, listed>>

UploadNext ==
    \/ \E u \in Uploads : UploadStep(u) \/ CallFails(u)
    \/ \E p \in Processes : Restart(p)

UploadSpec == UploadInit /\ [][UploadNext]_uploadVars

\* The handlers run, S3 answers, and sync.Mutex does not starve a waiter.
FairUploadSpec ==
    /\ UploadSpec
    /\ \A u \in Uploads : SF_uploadVars(Lock(u)) /\ WF_uploadVars(UploadStep(u))

-----------------------------------------------------------------------------
(* Properties. *)

\* The mutex of a process is held by the upload that is inside ensureBucket.
UploadTypeOK ==
    /\ bucket \in BOOLEAN
    /\ objects \subseteq Uploads /\ listed \subseteq Uploads /\ hit \subseteq Uploads
    /\ ready \in [Processes -> BOOLEAN]
    /\ mutex \in [Processes -> Uploads \union {Nobody}]
    /\ upload \in [Uploads -> {"lock", "exists", "make", "recheck", "mark", "unlock",
                               "put", "persist", "done", "failed"}]
    /\ \A u \in Uploads : mutex[Process[u]] = u <=>
            upload[u] \in {"exists", "make", "recheck", "mark", "unlock"}

\* A document that is listed can be read: whatever fails or restarts, its object
\* was stored before (Service.Create).
DocumentsHaveObjects == listed \subseteq objects

\* Every upload ends, also behind one that failed while it held the mutex, and
\* one that no fault has hit ends with its document listed, however many
\* processes find the bucket missing at once and make it (ensureBucket).
UploadsEnd ==
    \A u \in Uploads :
        <>(\/ upload[u] = "done" /\ u \in listed
           \/ upload[u] = "failed" /\ u \in hit)
=============================================================================
