------------------------------- MODULE JobQueue -------------------------------
(***************************************************************************)
(* What the executor and the workers are promised by executor.JobQueue,    *)
(* whichever implementation is configured: jobs are handed out first in,   *)
(* first out, a delayed job joins the line once its delay is over, and a   *)
(* job is in one place at a time.  RunLifecycle takes its queue to behave  *)
(* like this; RedisQueue and MemoryQueue are shown to.                     *)
(***************************************************************************)
EXTENDS Naturals, SequencesExt

CONSTANTS
    Runs,           \* runs that have jobs
    MaxAttempts,    \* attempts of a run
    Workers,        \* who takes jobs
    MayDrop         \* whether a job may get lost or be withdrawn

VARIABLES
    ready,      \* the line
    delayed,    \* the jobs waiting for their delay, or to join the line
    held        \* the job each worker has taken, or NoJob

vars == <<ready, delayed, held>>

Jobs  == [run: Runs, attempt: 0..(MaxAttempts - 1)]
NoJob == [none |-> TRUE]

Places(r) == {j \in ToSet(ready) \union delayed \union Range(held) : j # NoJob /\ j.run = r}

Init ==
    /\ ready = <<>>
    /\ delayed = {}
    /\ held = [w \in Workers |-> NoJob]

Enqueue(j) ==
    /\ Places(j.run) = {}
    /\ ready' = Append(ready, j)
    /\ UNCHANGED <<delayed, held>>

Take(w) ==
    /\ held[w] = NoJob
    /\ ready # <<>>
    /\ held' = [held EXCEPT ![w] = Head(ready)]
    /\ ready' = Tail(ready)
    /\ UNCHANGED delayed

Finish(w) ==
    /\ held[w] # NoJob
    /\ held' = [held EXCEPT ![w] = NoJob]
    /\ UNCHANGED <<ready, delayed>>

EnqueueAfter(w, j) ==
    /\ held[w] # NoJob /\ held[w].run = j.run
    /\ held' = [held EXCEPT ![w] = NoJob]
    /\ delayed' = delayed \union {j}
    /\ UNCHANGED ready

Promote(j) ==
    /\ j \in delayed
    /\ delayed' = delayed \ {j}
    /\ ready' = Append(ready, j)
    /\ UNCHANGED held

Drop(j) ==
    /\ MayDrop
    /\ \/ /\ \E i \in DOMAIN ready : ready[i] = j /\ ready' = RemoveAt(ready, i)
          /\ UNCHANGED delayed
       \/ j \in delayed /\ delayed' = delayed \ {j} /\ UNCHANGED ready
    /\ UNCHANGED held

Next ==
    \/ \E j \in Jobs : Enqueue(j) \/ Promote(j) \/ Drop(j)
    \/ \E w \in Workers : Take(w) \/ Finish(w) \/ \E j \in Jobs : EnqueueAfter(w, j)

Spec == Init /\ [][Next]_vars
=============================================================================
