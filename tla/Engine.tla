------------------------------- MODULE Engine -------------------------------
(***************************************************************************)
(* The execution of one run of a workflow: the traversal of its graph in   *)
(* memory, the pause at an approval node, and the continuation of the      *)
(* traversal by another request from what the pause left in the            *)
(* repository.  RunLifecycle abstracts all this to how an execution ends;  *)
(* here one actor at a time works on the run, and may crash.               *)
(***************************************************************************)
EXTENDS WorkflowDefinition, SequencesExt

CONSTANTS
    Definitions,    \* the definitions clients submit
    MaxAttempts     \* defaultAsyncMaxAttempts

ASSUME DefinitionsAssumption == \A d \in Definitions : IsDefinition(d)
ASSUME MaxAttemptsAssumption == MaxAttempts \in Nat \ {0}

VARIABLES
    workflow,   \* workflow repository: the accepted definition, or None
    status,     \* run repository: the status of the run
    saved,      \* run repository: its steps
    pending,    \* run repository: its pending state, or None
    exec,       \* the execution under way, or None
    job,        \* where the job of the run is: its request, the queue, a worker or nowhere
    starts      \* how often the run was started from its roots

vars == <<workflow, status, saved, pending, exec, job, starts>>

None == [none |-> TRUE]

Outputs == {"done", "true", "false", "message", "decision", "nil"}

StepStatus == {"waiting_approval", "completed", "failed"}

-----------------------------------------------------------------------------
(* The execution state and its pending form. *)

NewExecution == [queue |-> Roots(workflow), queued |-> ToSet(Roots(workflow)),
                 executed |-> {}, outputs |-> <<>>, steps |-> <<>>]

\* Appending what is neither executed nor queued, one at a time.
AppendNew(queue, next, executed) ==
    LET upTo[k \in 0..Len(next)] ==
            IF k = 0 THEN queue
            ELSE IF next[k] \in executed \union ToSet(upTo[k - 1]) THEN upTo[k - 1]
            ELSE Append(upTo[k - 1], next[k])
    IN  upTo[Len(next)]

\* The same with the loop's own record of what is queued.
PushNext(queue, queued, next, executed) ==
    LET upTo[k \in 0..Len(next)] ==
            IF k = 0 THEN [queue |-> queue, queued |-> queued]
            ELSE IF next[k] \in executed \union upTo[k - 1].queued THEN upTo[k - 1]
            ELSE [queue  |-> Append(upTo[k - 1].queue, next[k]),
                  queued |-> upTo[k - 1].queued \union {next[k]}]
    IN  upTo[Len(next)]

\* The outputs with the one of a node set.
WithOutput(outputs, id, output) ==
    [x \in DOMAIN outputs \union {id} |-> IF x = id THEN output ELSE outputs[x]]

Step(node, how, output) == [node |-> node.id, status |-> how, output |-> output]

Init ==
    /\ workflow = None
    /\ status = "absent"
    /\ saved = <<>>
    /\ pending = None
    /\ exec = None
    /\ job = "none"
    /\ starts = 0

\* Create stores a definition only when it is valid; nothing changes it later.
CreateWorkflow ==
    /\ workflow = None
    /\ \E d \in Definitions : Valid(d) /\ workflow' = d
    /\ UNCHANGED <<status, saved, pending, exec, job, starts>>

\* executeRun from the roots.
Start ==
    /\ Roots(workflow) # <<>>
    /\ status' = "running"
    /\ exec' = NewExecution
    /\ starts' = starts + 1
    /\ UNCHANGED <<workflow, saved, pending>>

StartSync ==
    /\ workflow # None
    /\ status = "absent"
    /\ Start
    /\ UNCHANGED job

CreateQueued ==
    /\ workflow # None
    /\ status = "absent"
    /\ status' = "queued"
    /\ job' = "request"
    /\ UNCHANGED <<workflow, saved, pending, exec, starts>>

\* By the request at first, by the worker with a delay behind a retry.
Enqueue ==
    /\ status = "queued"
    /\ job \in {"request", "worker"}
    /\ job' = "queue"
    /\ UNCHANGED <<workflow, status, saved, pending, exec, starts>>

\* CompleteRun with the status failed and no steps: those of an earlier attempt go.
FailWithoutSteps ==
    /\ status' = "failed"
    /\ saved' = <<>>
    /\ pending' = None
    /\ UNCHANGED <<workflow, exec, starts>>

EnqueueRefused ==
    /\ status = "queued"
    /\ job = "request"
    /\ FailWithoutSteps
    /\ job' = "none"

StartQueued ==
    /\ status = "queued"
    /\ job = "queue"
    /\ Start
    /\ job' = "worker"

\* Broken variant: a workflow that is not found costs an attempt.
LookupFailsCounted ==
    /\ status = "queued"
    /\ job = "queue"
    /\ status' = "failed"
    /\ saved' = <<>>
    /\ pending' = None
    /\ starts' = starts + 1
    /\ job' = "worker"
    /\ UNCHANGED <<workflow, exec>>

\* Neither the lookup of the workflow nor buildGraph counts as an attempt.
LookupFails ==
    /\ status = "queued"
    /\ job = "queue"
    /\ FailWithoutSteps
    /\ job' = "worker"

\* The worker that holds the job of a failed run has it retried, or gives it up.
MarkRetry ==
    /\ status = "failed"
    /\ job = "worker"
    /\ starts < MaxAttempts
    /\ status' = "queued"
    /\ UNCHANGED <<workflow, saved, pending, exec, job, starts>>

GiveUp ==
    /\ status = "failed"
    /\ job = "worker"
    /\ starts >= MaxAttempts
    /\ status' = "dead_letter"
    /\ job' = "none"
    /\ UNCHANGED <<workflow, saved, pending, exec, starts>>

-----------------------------------------------------------------------------
(* One turn of the loop in continueExecution. *)

Running == exec # None
Turn    == Running /\ exec.queue # <<>>
Current == NodeOf(workflow, Head(exec.queue))

\* Broken variant: the nodes behind the approval node are forgotten.
PauseForgetsNext ==
    /\ Turn
    /\ Current.type = "approval"
    /\ saved' = Append(exec.steps, Step(Current, "waiting_approval", "message"))
    /\ pending' = [node |-> Current.id, queue |-> Tail(exec.queue),
                   executed |-> exec.executed, outputs |-> exec.outputs]
    /\ status' = "waiting_approval"
    /\ exec' = None
    /\ job' = "none"
    /\ UNCHANGED <<workflow, starts>>

Pause ==
    /\ Turn
    /\ Current.type = "approval"
    /\ saved' = Append(exec.steps, Step(Current, "waiting_approval", "message"))
    /\ pending' = [node     |-> Current.id,
                   queue    |-> AppendNew(Tail(exec.queue),
                                          NextNodes(workflow, Current, "message"),
                                          exec.executed),
                   executed |-> exec.executed,
                   outputs  |-> exec.outputs]
    /\ status' = "waiting_approval"
    /\ exec' = None
    /\ job' = "none"
    /\ UNCHANGED <<workflow, starts>>

NodeSucceeds ==
    /\ Turn
    /\ Current.type \in {"task", "condition"}
    /\ \E output \in IF Current.type = "condition" THEN {"true", "false"} ELSE {"done"} :
        LET executed == exec.executed \union {Current.id}
            next == PushNext(Tail(exec.queue), exec.queued \ {Head(exec.queue)},
                             NextNodes(workflow, Current, output), executed)
        IN  exec' = [queue    |-> next.queue,
                     queued   |-> next.queued,
                     executed |-> executed,
                     outputs  |-> WithOutput(exec.outputs, Current.id, output),
                     steps    |-> Append(exec.steps, Step(Current, "completed", output))]
    /\ UNCHANGED <<workflow, status, saved, pending, job, starts>>

\* Broken variant: the pending state survives a failure behind it.
NodeFailsKeepsPending ==
    /\ Turn
    /\ Current.type # "approval"
    /\ saved' = Append(exec.steps, Step(Current, "failed", "nil"))
    /\ status' = "failed"
    /\ exec' = None
    /\ UNCHANGED <<workflow, pending, job, starts>>

\* Any node may fail, and one whose type the executor does not know always does.
NodeFails ==
    /\ Turn
    /\ Current.type # "approval"
    /\ saved' = Append(exec.steps, Step(Current, "failed", "nil"))
    /\ pending' = None
    /\ status' = "failed"
    /\ exec' = None
    /\ UNCHANGED <<workflow, job, starts>>

Complete ==
    /\ Running
    /\ exec.queue = <<>>
    /\ saved' = exec.steps
    /\ pending' = None
    /\ status' = "completed"
    /\ exec' = None
    /\ job' = "none"
    /\ UNCHANGED <<workflow, starts>>

\* Whatever the execution had in memory is gone, and the job; the repository keeps
\* its rows.  A write that the repository refuses ends the actor's work likewise.
Crash ==
    /\ Running \/ job # "none"
    /\ exec' = None
    /\ job' = "none"
    /\ UNCHANGED <<workflow, status, saved, pending, starts>>

-----------------------------------------------------------------------------
(* ResumeApproval, after LoadPending found a pending state. *)

Resolved ==
    [saved EXCEPT ![Len(saved)] =
        [node |-> @.node, status |-> "completed", output |-> "decision"]]

StateFromPending(steps, state) ==
    [queue    |-> state.queue,
     queued   |-> ToSet(state.queue),
     executed |-> state.executed,
     outputs  |-> state.outputs,
     steps    |-> steps]

\* The approval node counts as executed, and the decision is its output.
WithDecision(state) ==
    [queue    |-> state.queue,
     queued   |-> state.queued,
     executed |-> state.executed \union {pending.node},
     outputs  |-> WithOutput(state.outputs, pending.node, "decision"),
     steps    |-> state.steps]

Awaits == /\ ~Running
          /\ pending # None
          /\ saved # <<>> /\ Last(saved).node = pending.node

\* Broken variant: the steps before the approval node are not taken along.
ApproveForgetsSteps ==
    /\ Awaits
    /\ exec' = WithDecision(StateFromPending(<<Last(Resolved)>>, pending))
    /\ UNCHANGED <<workflow, status, saved, pending, job, starts>>

\* Broken variant: the output of the approval node is not kept.
ApproveForgetsOutput ==
    /\ Awaits
    /\ exec' = [StateFromPending(Resolved, pending) EXCEPT
                    !.executed = @ \union {pending.node}]
    /\ UNCHANGED <<workflow, status, saved, pending, job, starts>>

\* The row still says waiting_approval while the execution goes on.
Approve ==
    /\ Awaits
    /\ exec' = WithDecision(StateFromPending(Resolved, pending))
    /\ UNCHANGED <<workflow, status, saved, pending, job, starts>>

Reject ==
    /\ Awaits
    /\ saved' = Resolved
    /\ pending' = None
    /\ status' = "failed"
    /\ UNCHANGED <<workflow, exec, job, starts>>

\* The request is told that the run does not await approval, or that its workflow
\* was not found.
ResumeRefused == status # "absent" /\ UNCHANGED vars

-----------------------------------------------------------------------------
ExecutionStep == Pause \/ NodeSucceeds \/ NodeFails \/ Complete

Next ==
    \/ CreateWorkflow
    \/ StartSync \/ CreateQueued
    \/ Enqueue \/ EnqueueRefused
    \/ StartQueued \/ LookupFails
    \/ MarkRetry \/ GiveUp
    \/ ExecutionStep
    \/ Crash
    \/ Approve
    \/ Reject
    \/ ResumeRefused

Spec == Init /\ [][Next]_vars

-----------------------------------------------------------------------------
(* Properties. *)

StepRecord == [node: RawIds \union {Blank}, status: StepStatus, output: Outputs]

IsOutputs(outputs) ==
    DOMAIN outputs \subseteq RawIds /\ Range(outputs) \subseteq Outputs

\* The rows and the execution state have the shape of the code's types.
TypeOK ==
    /\ workflow # None => Valid(workflow)
    /\ status \in {"absent", "queued", "running", "waiting_approval", "completed",
                   "failed", "dead_letter"}
    /\ saved \in Seq(StepRecord)
    /\ pending # None =>
        /\ pending.node \in RawIds
        /\ pending.queue \in Seq(RawIds)
        /\ pending.executed \subseteq RawIds
        /\ IsOutputs(pending.outputs)
    /\ Running =>
        /\ exec.queue \in Seq(RawIds)
        /\ exec.queued = ToSet(exec.queue)
        /\ exec.executed \subseteq RawIds
        /\ IsOutputs(exec.outputs)
        /\ exec.steps \in Seq(StepRecord)
    /\ job \in {"none", "request", "queue", "worker"}
    /\ starts \in 0..MaxAttempts

\* An accepted definition always has a root for the executor, so buildGraph
\* refuses none of them (graph.go:36), although the validator counts incoming
\* edges by trimmed ids and the executor by raw ones.
BuildGraphSucceeds == workflow # None => Roots(workflow) # <<>>

\* The reference: a plain breadth-first walk of the forest that knows neither
\* pauses nor the executed and queued sets.  Frontier(d, steps) is what lies ahead
\* of it in d once the given steps are taken.
Frontiers(d, steps) ==
    LET ahead[k \in 0..Len(steps)] ==
            IF k = 0 THEN Roots(d)
            ELSE SubSeq(ahead[k - 1], 2, Len(ahead[k - 1])) \o
                    NextNodes(d, NodeOf(d, steps[k].node), steps[k].output)
    IN  ahead

IsWalk(d, steps) ==
    LET ahead == Frontiers(d, steps) IN
        \A k \in 1..Len(steps) :
            /\ ahead[k - 1] # <<>>
            /\ steps[k].node = NodeOf(d, Head(ahead[k - 1])).id

Frontier(d, steps) == Frontiers(d, steps)[Len(steps)]

\* A traversal that was paused and continued, any number of times and over any
\* number of crashes, takes the steps of one uninterrupted walk: no node is lost
\* at a pause and none is taken out of order (continueExecution, appendQueue).
WalkIsFollowed ==
    /\ Running => IsWalk(workflow, exec.steps) /\ exec.queue = Frontier(workflow, exec.steps)
    /\ pending # None => IsWalk(workflow, saved) /\ pending.queue = Frontier(workflow, saved)
    /\ status = "completed" => IsWalk(workflow, saved) /\ Frontier(workflow, saved) = <<>>

NodesOf(steps) == {steps[k].node : k \in DOMAIN steps}

\* Exactly the executed nodes have an output that later nodes can read, also
\* behind a pause (stateFromPending).
OutputsMatchExecuted ==
    /\ Running => DOMAIN exec.outputs = exec.executed
                  /\ exec.executed = NodesOf(exec.steps)
    /\ pending # None => DOMAIN pending.outputs = pending.executed
                         /\ pending.executed = NodesOf(Front(saved))

AllCompleted(steps) == \A k \in DOMAIN steps : steps[k].status = "completed"

\* What the last execution, or the rejection, left of a failure.
ToldFailure ==
    /\ saved # <<>> /\ AllCompleted(Front(saved))
    /\ \/ Last(saved).status = "failed"
       \/ Last(saved).output = "decision"

\* What the step list says agrees with the status of the run.  Only the last step
\* can be anything but completed, and a waiting run waits at it.  A run that was to
\* be started has no steps, or those of the failure before; so has a failed one,
\* since a refused enqueue and a missing workflow erase them (async.go:70, 104).  But
\* a run is given up only for a step that failed, as those two cost no attempt.
StatusMatchesSteps ==
    /\ status = "waiting_approval" <=> pending # None
    /\ status = "absent" => saved = <<>>
    /\ status = "completed" => AllCompleted(saved)
    /\ status = "waiting_approval" =>
        /\ saved # <<>> /\ AllCompleted(Front(saved))
        /\ Last(saved).status = "waiting_approval"
        /\ Last(saved).node = pending.node
    /\ status \in {"queued", "running", "failed"} => saved = <<>> \/ ToldFailure
    /\ status = "dead_letter" => ToldFailure

\* The steps in front of a pause are never rewritten or lost by what comes
\* behind it (replaceStepsTx deletes and rewrites all of them).
HistoryIsKept ==
    [][pending # None /\ saved' # saved =>
        /\ IsPrefix(Front(saved), saved')
        /\ saved'[Len(saved)].node = Last(saved).node]_vars

\* "edge destination must reference an existing node" (workflow/service.go:229):
\* what the traversal has queued exists.
EdgesLeadToNodes ==
    Running => ToSet(exec.queue) \subseteq RawNodes(workflow)

IsCyclic(d) ==
    \E circle \in SUBSET RawNodes(d) \ {{}} :
        \A id \in circle : \E edge \in Edges(d) : edge.from \in circle /\ edge.to = id

\* "workflow contains a cycle and cannot be executed" (graph.go:37).
ExecutedIsAcyclic == status # "absent" => ~IsCyclic(workflow)
=============================================================================
