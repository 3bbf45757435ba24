------------------------------ MODULE AuditTrail ------------------------------
(***************************************************************************)
(* The audit events of a run: Engine together with the events that its     *)
(* actors record.  A row is written and an event recorded by two calls, so *)
(* an actor may crash between them.  The event of a step is recorded ahead *)
(* of the write that stores the step, the event of the run behind it.  An  *)
(* event may be refused, which the executor ignores; Postgres refuses the  *)
(* events about steps, which are recorded without the id of the workflow   *)
(* that the table asks for.                                                *)
(***************************************************************************)
EXTENDS Engine

CONSTANTS
    Postgres,       \* whether the audit repository is the Postgres one
    MaxEvents,      \* bound on the events of a run
    MaxRefused      \* bound on the other events that are refused

ASSUME PostgresAssumption == Postgres \in BOOLEAN /\ MaxEvents \in Nat /\ MaxRefused \in Nat

VARIABLES
    events,     \* the audit events of the run, oldest first
    announced,  \* the event recorded ahead of the write that follows it, or None
    owed,       \* the event to be recorded behind the latest write, or None
    late,       \* requests and workers that paused the run and are still to tell
    refused,    \* the events the repository refused now and then
    missed      \* whether the event of the latest write was refused or never sent

trail     == <<events, announced, owed, late, refused, missed>>
trailVars == <<vars, trail>>

OfRun(type)       == [type |-> type, node |-> Blank]
OfStep(type, id)  == [type |-> type, node |-> id]

StepTypes == {"step_waiting_approval", "step_completed", "step_failed"}

\* workflow_id references a workflow (migrations/0007), "" is none.
Stored(event) == IF Postgres /\ event.type \in StepTypes THEN <<>> ELSE <<event>>

Keep(event) ==
    /\ Len(events) < MaxEvents
    /\ events' = events \o Stored(event)
    /\ UNCHANGED refused

Refuse(event) ==
    /\ Cardinality(refused) < MaxRefused
    /\ refused' = refused \union {event}
    /\ UNCHANGED events

Record(event) == Keep(event) \/ Refuse(event)

TrailInit ==
    /\ Init
    /\ events = <<>> /\ refused = {}
    /\ announced = None /\ owed = None
    /\ late = 0
    /\ missed = FALSE

-----------------------------------------------------------------------------
(* What an actor records, and when. *)

\* The actor has recorded what it had to; it goes on only then.
Ready == announced = None /\ owed = None

Announce(event) ==
    /\ Ready
    /\ Record(event)
    /\ announced' = event
    /\ UNCHANGED <<vars, owed, late, missed>>

Owes(type) ==
    /\ announced' = None
    /\ owed' = OfRun(type)
    /\ missed' = FALSE
    /\ UNCHANGED <<events, late, refused>>

Recorded ==
    /\ owed # None
    /\ \/ Keep(owed) /\ UNCHANGED missed
       \/ Refuse(owed) /\ missed' = TRUE
    /\ owed' = None
    /\ UNCHANGED <<vars, announced, late>>

\* Whoever paused the run tells of it when others may be at work on it already, or
\* crashes before.
RecordedLate ==
    /\ late > 0
    /\ late' = late - 1
    /\ (Record(OfRun("run_waiting_approval")) \/ UNCHANGED <<events, refused>>)
    /\ UNCHANGED <<vars, announced, owed, missed>>

Crashed ==
    /\ Crash \/ (~Ready /\ UNCHANGED vars)
    /\ announced' = None /\ owed' = None
    /\ missed' = (missed \/ owed # None)
    /\ UNCHANGED <<events, late, refused>>

-----------------------------------------------------------------------------
(* The steps of Engine. *)

Created == CreateWorkflow /\ UNCHANGED trail

Started     == Ready /\ (StartSync \/ StartQueued) /\ Owes("run_started")
Queued      == Ready /\ CreateQueued /\ Owes("run_queued")
Retried     == Ready /\ MarkRetry /\ Owes("retry_scheduled")
GivenUp     == Ready /\ GiveUp /\ Owes("run_dead_lettered")

\* Nothing is recorded of a run that fails without being executed.
NotExecuted == Ready /\ (Enqueue \/ EnqueueRefused \/ LookupFails) /\ UNCHANGED trail

Succeeded ==
    /\ Ready
    /\ NodeSucceeds
    /\ Record(OfStep("step_completed", Current.id))
    /\ UNCHANGED <<announced, owed, late, missed>>

Completed == Ready /\ Complete /\ Owes("run_completed")

Pausing == OfStep("step_waiting_approval", Current.id)
Failing == OfStep("step_failed", Current.id)
Decided == OfStep("approval_resolved", pending.node)

AnnouncePause    == Turn /\ Current.type = "approval" /\ Announce(Pausing)

\* Broken variant: a failed step is only told of by the run.
AnnounceNoFailure ==
    /\ Turn /\ Current.type # "approval"
    /\ Ready
    /\ announced' = Failing
    /\ UNCHANGED <<vars, events, owed, late, refused, missed>>

AnnounceFailure  == Turn /\ Current.type # "approval" /\ Announce(Failing)
AnnounceDecision == Awaits /\ Announce(Decided)

Paused ==
    /\ Pause
    /\ announced = Pausing /\ announced' = None
    /\ late' = late + 1
    /\ missed' = FALSE
    /\ UNCHANGED <<events, owed, refused>>

FailedAt == NodeFails /\ announced = Failing /\ Owes("run_failed")

Approved == Approve /\ announced = Decided /\ Owes("run_started")

\* Broken variant: a rejection is recorded like an approval.
RejectedGoesOn == Reject /\ announced = Decided /\ Owes("run_started")

Rejected == Reject /\ announced = Decided /\ Owes("run_failed")

NotResumed == ResumeRefused /\ UNCHANGED trail

TrailNext ==
    \/ Created \/ Queued \/ Started \/ Retried \/ GivenUp \/ NotExecuted
    \/ AnnouncePause \/ AnnounceFailure \/ AnnounceDecision
    \/ Succeeded \/ Paused \/ FailedAt \/ Completed
    \/ Approved \/ Rejected \/ NotResumed
    \/ Recorded \/ RecordedLate \/ Crashed

TrailSpec == TrailInit /\ [][TrailNext]_trailVars

-----------------------------------------------------------------------------
(* Properties. *)

Told(step) ==
    CASE step.status = "failed"           -> {"step_failed"}
      [] step.status = "waiting_approval" -> {"step_waiting_approval"}
      [] step.output = "decision"         -> {"approval_resolved"}
      [] OTHER                            -> {"step_completed"}

Tells(event, step) == event.node = step.node /\ event.type \in Told(step)

\* The steps are found among the events, one behind the other, but for those whose
\* event was refused.
AreTold(steps) ==
    LET heard == {k \in DOMAIN steps : \A event \in refused : ~Tells(event, steps[k])}
    IN  \E at \in [heard -> DOMAIN events] :
            /\ \A k \in heard : Tells(events[at[k]], steps[k])
            /\ \A k, l \in heard : k < l => at[k] < at[l]

\* "step state, pending approval state, and audit events are persisted"
\* (README.md:64): the events tell of every step that the run lists, in the
\* order of the steps, over all pauses and wherever an actor crashed; only an event
\* that was itself refused is not among them.
StepsAreAudited == AreTold(saved)

LastEventIsOf(types) ==
    \E k \in DOMAIN events :
        /\ events[k].type \in types
        /\ \A l \in DOMAIN events : l > k => events[l].type = "run_waiting_approval"

\* A run that failed without being executed goes unmentioned behind its enqueuing.
Outcome ==
    CASE status = "completed"                  -> {"run_completed"}
      [] status = "dead_letter"                -> {"run_dead_lettered"}
      [] status = "failed" /\ saved # <<>>     -> {"run_failed"}
      [] OTHER                                 -> {"run_queued", "retry_scheduled"}

\* What a reader of the trail may conclude.  It tells of no end that the run did not
\* come to, since the row is written first.  And its last event, but for a pause told
\* late, is that of the latest write, unless the actor is about to record it, crashed
\* before it did, or was refused.
TrailTellsOutcome ==
    /\ \A k \in DOMAIN events :
        /\ events[k].type = "run_completed" => status = "completed"
        /\ events[k].type = "run_dead_lettered" => status = "dead_letter"
    /\ status \in {"queued", "completed", "failed", "dead_letter"} =>
        owed # None \/ missed \/ LastEventIsOf(Outcome)
=============================================================================
