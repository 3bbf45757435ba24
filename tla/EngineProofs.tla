----------------------------- MODULE EngineProofs -----------------------------
(***************************************************************************)
(* Proofs about Engine and AuditTrail, for every set of definitions, every *)
(* number of attempts and both audit repositories.  What the repository    *)
(* holds of a run - status, steps, pending state - and what an execution   *)
(* has in memory fit together at every moment, over pauses, decisions,     *)
(* retries and crashes; the steps are one walk of the definition, and the  *)
(* audit trail tells of each of them.                                      *)
(***************************************************************************)
EXTENDS AuditTrail, SequenceTheorems, FiniteSetTheorems, WellFoundedInduction, TLAPS

-----------------------------------------------------------------------------
(* The graph. *)

\* The executor finds a root in every definition that the validator accepts, of any
\* size and however the ids are spaced: a node that no trimmed id of an edge names is
\* named by no raw one either, so buildGraph never answers that there is no root.
THEOREM AcceptedHasRoot ==
    ASSUME NEW E, NEW d, d.edges \in Seq(E), Valid(d)
    PROVE  \E node \in Nodes(d) : IsRoot(d, node)
<1>1. PICK id \in Ids(d) : Incoming(d, id) = 0
  BY DEF Valid
<1>2. PICK node \in Nodes(d) : Trimmed[node.id] = id
  BY DEF Ids
<1> DEFINE into == {i \in DOMAIN d.edges : Trimmed[d.edges[i].to] = id}
<1>3. into = {}
  <2>1. DOMAIN d.edges = 1..Len(d.edges) /\ Len(d.edges) \in Nat
    BY LenProperties
  <2>2. IsFiniteSet(1..Len(d.edges))
    BY <2>1, FS_Interval
  <2>3. IsFiniteSet(into)
    BY <2>1, <2>2, FS_Subset
  <2>4. Cardinality(into) = 0
    BY <1>1 DEF Incoming
  <2> QED BY <2>3, <2>4, FS_EmptySet
<1>4. \A i \in DOMAIN d.edges : d.edges[i].to # node.id
  BY <1>2, <1>3
<1> QED BY <1>4 DEF IsRoot, Edges

-----------------------------------------------------------------------------
(* Lists of steps. *)

StepLike(x) == x = [node |-> x.node, status |-> x.status, output |-> x.output]

Steps(s) == (\E S : s \in Seq(S)) /\ \A k \in 1..Len(s) : StepLike(s[k])

\* A list of steps is a sequence.
LEMMA StepsTyped ==
    ASSUME NEW s, Steps(s)
    PROVE  /\ Len(s) \in Nat /\ DOMAIN s = 1..Len(s)
           /\ s # <<>> <=> Len(s) > 0
           /\ AllCompleted(s) <=> \A k \in 1..Len(s) : s[k].status = "completed"
           /\ NodesOf(s) = {s[k].node : k \in 1..Len(s)}
<1>1. PICK S : s \in Seq(S)
  BY DEF Steps
<1>2. Len(s) \in Nat /\ DOMAIN s = 1..Len(s)
  BY <1>1, LenProperties
<1>3. s # <<>> <=> Len(s) > 0
  BY <1>1, <1>2, EmptySeq
<1> QED BY <1>2, <1>3 DEF AllCompleted, NodesOf

\* Everything but the last step.
LEMMA StepsFront ==
    ASSUME NEW s, Steps(s), s # <<>>
    PROVE  /\ Steps(Front(s)) /\ Len(Front(s)) = Len(s) - 1
           /\ \A k \in 1..(Len(s) - 1) : Front(s)[k] = s[k]
<1>1. PICK S : s \in Seq(S)
  BY DEF Steps
<1>2. Len(s) \in Nat /\ Len(s) > 0
  BY StepsTyped
<1>3. \A i \in 1..(Len(s) - 1) : s[i] \in S
  BY <1>1, <1>2, ElementOfSeq
<1>4. /\ Front(s) \in Seq(S)
      /\ Len(Front(s)) = IF 1 <= Len(s) - 1 THEN Len(s) - 1 - 1 + 1 ELSE 0
      /\ \A i \in 1..(Len(s) - 1 - 1 + 1) : Front(s)[i] = s[1 + i - 1]
  BY <1>2, <1>3, SubSeqProperties DEF Front
<1>5. Len(Front(s)) = Len(s) - 1
  <2> DEFINE n == Len(s)
             f == Len(Front(s))
  <2>1. n \in Nat /\ n > 0 /\ f = IF 1 <= n - 1 THEN n - 1 - 1 + 1 ELSE 0
    BY <1>2, <1>4
  <2> HIDE DEF n, f
  <2>2. f = n - 1
    BY <2>1
  <2> QED BY <2>2 DEF n, f
<1>6. \A k \in 1..(Len(s) - 1) : Front(s)[k] = s[k]
  BY <1>2, <1>4
<1>7. \A k \in 1..(Len(s) - 1) : StepLike(s[k])
  BY <1>2 DEF Steps
<1> QED BY <1>4, <1>5, <1>6, <1>7 DEF Steps

\* What the front of a list says, by position.
LEMMA FrontFacts ==
    ASSUME NEW s, Steps(s), s # <<>>
    PROVE  /\ AllCompleted(Front(s)) <=> \A k \in 1..(Len(s) - 1) : s[k].status = "completed"
           /\ NodesOf(Front(s)) = {s[k].node : k \in 1..(Len(s) - 1)}
<1>1. /\ Steps(Front(s)) /\ Len(Front(s)) = Len(s) - 1
      /\ \A k \in 1..(Len(s) - 1) : Front(s)[k] = s[k]
  BY StepsFront
<1>2. AllCompleted(Front(s)) <=> \A k \in 1..(Len(s) - 1) : Front(s)[k].status = "completed"
  BY <1>1, StepsTyped
<1>3. NodesOf(Front(s)) = {Front(s)[k].node : k \in 1..(Len(s) - 1)}
  BY <1>1, StepsTyped
<1> QED BY <1>1, <1>2, <1>3

\* A list with one more step.
LEMMA StepsAppend ==
    ASSUME NEW s, Steps(s), NEW x, StepLike(x)
    PROVE  /\ Steps(Append(s, x)) /\ Append(s, x) # <<>>
           /\ Len(Append(s, x)) = Len(s) + 1
           /\ \A k \in 1..Len(s) : Append(s, x)[k] = s[k]
           /\ Append(s, x)[Len(s) + 1] = x /\ Last(Append(s, x)) = x
           /\ AllCompleted(Front(Append(s, x))) <=> AllCompleted(s)
           /\ AllCompleted(Append(s, x)) <=> AllCompleted(s) /\ x.status = "completed"
           /\ NodesOf(Front(Append(s, x))) = NodesOf(s)
           /\ NodesOf(Append(s, x)) = NodesOf(s) \union {x.node}
<1> DEFINE t == Append(s, x)
<1>1. PICK S : s \in Seq(S)
  BY DEF Steps
<1>2. s \in Seq(S \union {x})
  BY <1>1, SeqMonotonic
<1>3. /\ t \in Seq(S \union {x}) /\ t # <<>> /\ Len(t) = Len(s) + 1
      /\ \A k \in 1..Len(s) : t[k] = s[k]
      /\ t[Len(s) + 1] = x
  BY <1>2, AppendProperties
<1>4. Len(s) \in Nat
  BY StepsTyped
<1> HIDE DEF t
<1>5. \A k : k \in 1..(Len(s) + 1) <=> k \in 1..Len(s) \/ k = Len(s) + 1
  BY <1>4
<1>6. Steps(t)
  BY <1>3, <1>5 DEF Steps
<1>7. Last(t) = x
  BY <1>3 DEF Last
<1>8. Len(t) - 1 = Len(s)
  BY <1>3, <1>4
<1>9. AllCompleted(s) <=> \A k \in 1..Len(s) : s[k].status = "completed"
  BY StepsTyped
<1>10. NodesOf(s) = {s[k].node : k \in 1..Len(s)}
  BY StepsTyped
<1>11. AllCompleted(Front(t)) <=> AllCompleted(s)
  BY <1>3, <1>6, <1>8, <1>9, FrontFacts
<1>12. NodesOf(Front(t)) = NodesOf(s)
  <2>1. NodesOf(Front(t)) = {t[k].node : k \in 1..Len(s)}
    BY <1>3, <1>6, <1>8, FrontFacts
  <2> QED BY <1>3, <1>10, <2>1
<1>13. AllCompleted(t) <=> AllCompleted(s) /\ x.status = "completed"
  <2>1. AllCompleted(t) <=> \A k \in 1..(Len(s) + 1) : t[k].status = "completed"
    BY <1>3, <1>6, StepsTyped
  <2> QED BY <1>3, <1>5, <1>9, <2>1
<1>14. NodesOf(t) = NodesOf(s) \union {x.node}
  <2>1. NodesOf(t) = {t[k].node : k \in 1..(Len(s) + 1)}
    BY <1>3, <1>6, StepsTyped
  <2> QED BY <1>3, <1>5, <1>10, <2>1
<1> QED BY <1>3, <1>6, <1>7, <1>11, <1>12, <1>13, <1>14 DEF t

\* A step is a record of its three fields.
LEMMA StepIsStep ==
    ASSUME NEW node, NEW how, NEW output
    PROVE  /\ StepLike(Step(node, how, output))
           /\ Step(node, how, output).node = node.id
           /\ Step(node, how, output).status = how
           /\ Step(node, how, output).output = output
  BY DEF StepLike, Step

-----------------------------------------------------------------------------
(* The invariant. *)

\* The steps in memory go on from the steps of the pause.
Continues(steps) ==
    /\ Len(saved) <= Len(steps)
    /\ \A k \in 1..(Len(saved) - 1) : steps[k] = saved[k]
    /\ steps[Len(saved)].node = saved[Len(saved)].node

\* What an execution has in memory.
ExecFits ==
    exec # None =>
        /\ Steps(exec.steps) /\ AllCompleted(exec.steps)
        /\ DOMAIN exec.outputs = exec.executed
        /\ exec.executed = NodesOf(exec.steps)
        /\ status \in {"running", "waiting_approval"}
        /\ pending # None => Continues(exec.steps)

\* What a pause has left.
PendingFits ==
    pending # None =>
        /\ DOMAIN pending.outputs = pending.executed
        /\ pending.executed = NodesOf(Front(saved))

\* A run is queued, or fails without a step, only while attempts are left.
AttemptsFit ==
    /\ starts \in Nat
    /\ status = "absent" => starts = 0
    /\ status = "queued" /\ job # "none" => starts < MaxAttempts
    /\ status = "failed" /\ job = "worker" => saved # <<>> \/ starts < MaxAttempts

EngineInv == Steps(saved) /\ ExecFits /\ PendingFits /\ StatusMatchesSteps /\ AttemptsFit

\* The steps of the pause with the decision in the last one.
LEMMA ResolvedFacts ==
    ASSUME Steps(saved), saved # <<>>
    PROVE  /\ Steps(Resolved) /\ Resolved # <<>> /\ Len(Resolved) = Len(saved)
           /\ \A k \in 1..(Len(saved) - 1) : Resolved[k] = saved[k]
           /\ Resolved[Len(saved)].node = saved[Len(saved)].node
           /\ Resolved[Len(saved)].status = "completed"
           /\ Resolved[Len(saved)].output = "decision"
           /\ AllCompleted(Front(saved)) => AllCompleted(Resolved) /\ AllCompleted(Front(Resolved))
           /\ NodesOf(Resolved) = NodesOf(Front(saved)) \union {saved[Len(saved)].node}
<1> DEFINE n == Len(saved)
           x == [node |-> saved[n].node, status |-> "completed", output |-> "decision"]
           t == Resolved
<1>1. PICK S : saved \in Seq(S)
  BY DEF Steps
<1>2. saved \in Seq(S \union {x}) /\ n \in 1..Len(saved) /\ n \in Nat /\ n > 0
  BY <1>1, SeqMonotonic, StepsTyped
<1>3. t = [saved EXCEPT ![n] = x]
  BY DEF Resolved
<1>4. /\ t \in Seq(S \union {x}) /\ Len(t) = n
      /\ \A k \in 1..n : t[k] = IF k = n THEN x ELSE saved[k]
  BY <1>2, <1>3, ExceptSeq
<1>5. x.node = saved[n].node /\ x.status = "completed" /\ x.output = "decision" /\ StepLike(x)
  BY DEF StepLike
<1> HIDE DEF t, x
<1>6. t[n] = x /\ \A k \in 1..(n - 1) : t[k] = saved[k]
  BY <1>2, <1>4
<1>7. \A k \in 1..n : StepLike(t[k])
  BY <1>4, <1>5 DEF Steps
<1>8. Steps(t) /\ t # <<>>
  <2>1. Steps(t)
    BY <1>4, <1>7 DEF Steps
  <2> QED BY <1>2, <1>4, <2>1, StepsTyped
<1>9. \A k : k \in 1..n <=> k \in 1..(n - 1) \/ k = n
  BY <1>2
<1>10. AllCompleted(Front(saved)) => AllCompleted(t) /\ AllCompleted(Front(t))
  <2>1. AllCompleted(t) <=> \A k \in 1..n : t[k].status = "completed"
    BY <1>4, <1>8, StepsTyped
  <2>2. AllCompleted(Front(t)) <=> \A k \in 1..(n - 1) : t[k].status = "completed"
    BY <1>4, <1>8, FrontFacts
  <2>3. AllCompleted(Front(saved)) <=> \A k \in 1..(n - 1) : saved[k].status = "completed"
    BY FrontFacts
  <2> QED BY <1>5, <1>6, <1>9, <2>1, <2>2, <2>3
<1>11. NodesOf(t) = NodesOf(Front(saved)) \union {saved[n].node}
  <2>1. NodesOf(t) = {t[k].node : k \in 1..n}
    BY <1>4, <1>8, StepsTyped
  <2>2. NodesOf(Front(saved)) = {saved[k].node : k \in 1..(n - 1)}
    BY FrontFacts
  <2> QED BY <1>5, <1>6, <1>9, <2>1, <2>2
<1> QED BY <1>4, <1>5, <1>6, <1>8, <1>10, <1>11 DEF t
\* The pending state that Pause saves is one.
LEMMA PendingIsSome ==
    ASSUME NEW a, NEW b, NEW c, NEW d
    PROVE  [node |-> a, queue |-> b, executed |-> c, outputs |-> d] # None
<1>1. "node" \in DOMAIN [node |-> a, queue |-> b, executed |-> c, outputs |-> d]
  OBVIOUS
<1>2. "node" \notin DOMAIN [none |-> TRUE]
  OBVIOUS
<1> QED BY <1>1, <1>2 DEF None

\* The list without a step.
LEMMA NoSteps == Steps(<<>>) /\ AllCompleted(<<>>) /\ NodesOf(<<>>) = {} /\ DOMAIN <<>> = {}
<1>1. <<>> \in Seq({}) /\ Len(<<>>) = 0
  BY EmptySeq
<1>2. Steps(<<>>)
  BY <1>1 DEF Steps
<1> QED BY <1>2 DEF AllCompleted, NodesOf

\* Nothing is stored and nothing runs.
LEMMA EngineInit == Init => EngineInv
<1> SUFFICES ASSUME Init PROVE EngineInv
  OBVIOUS
<1>1. saved = <<>> /\ exec = None /\ pending = None /\ status = "absent" /\ starts = 0
  BY DEF Init
<1> QED BY <1>1, NoSteps DEF EngineInv, ExecFits, PendingFits, StatusMatchesSteps, AttemptsFit

\* Steps that touch neither the run's row nor the execution.
LEMMA EngineUnchanged ==
    ASSUME EngineInv, status' = status, saved' = saved, pending' = pending,
           exec' = exec \/ exec' = None, starts' = starts, job' = job \/ job' = "none"
    PROVE  EngineInv'
<1>1. Steps(saved)' /\ PendingFits' /\ StatusMatchesSteps' /\ AttemptsFit'
  BY DEF EngineInv, PendingFits, StatusMatchesSteps, ToldFailure, AttemptsFit
<1>2. ExecFits'
  BY DEF EngineInv, ExecFits, Continues
<1> QED BY <1>1, <1>2 DEF EngineInv

\* A start from the roots: nothing executed yet, and no pause to go on from.
LEMMA EngineStart ==
    ASSUME EngineInv, status \in {"absent", "queued"}, Start
    PROVE  EngineInv'
<1>1. /\ status' = "running" /\ saved' = saved /\ pending' = pending /\ exec' = NewExecution
      /\ pending = None /\ Steps(saved) /\ starts' \in Nat
  BY DEF Start, EngineInv, StatusMatchesSteps, AttemptsFit
<1>2. exec'.executed = {} /\ exec'.outputs = <<>> /\ exec'.steps = <<>>
  BY <1>1 DEF NewExecution
<1>3. ExecFits'
  BY <1>1, <1>2, NoSteps DEF ExecFits
<1>4. saved = <<>> \/ ToldFailure
  BY DEF EngineInv, StatusMatchesSteps
<1>5. PendingFits' /\ StatusMatchesSteps' /\ AttemptsFit'
  BY <1>1, <1>4 DEF PendingFits, StatusMatchesSteps, ToldFailure, AttemptsFit
<1> QED BY <1>1, <1>3, <1>5 DEF EngineInv

\* A run between its executions: created, queued, to be retried or given up.
LEMMA EngineBetween ==
    ASSUME EngineInv, CreateQueued \/ Enqueue \/ MarkRetry \/ GiveUp
    PROVE  EngineInv'
<1>1. /\ status \in {"absent", "queued", "failed"} /\ status' \in {"queued", "dead_letter"}
      /\ saved' = saved /\ pending' = pending /\ exec' = exec
      /\ starts' = starts /\ starts \in Nat
  BY DEF CreateQueued, Enqueue, MarkRetry, GiveUp, EngineInv, AttemptsFit
<1>2. exec = None /\ pending = None /\ Steps(saved)
  BY <1>1 DEF EngineInv, ExecFits, StatusMatchesSteps
<1>3. saved = <<>> \/ ToldFailure
  BY <1>1 DEF EngineInv, StatusMatchesSteps
<1>4. (starts < MaxAttempts /\ status' = "queued") \/ GiveUp
  BY MaxAttemptsAssumption DEF EngineInv, AttemptsFit, CreateQueued, Enqueue, MarkRetry
<1>5. ASSUME GiveUp
      PROVE  ToldFailure
  <2>1. status = "failed" /\ job = "worker" /\ ~(starts < MaxAttempts)
    BY <1>5, MaxAttemptsAssumption DEF GiveUp, EngineInv, AttemptsFit
  <2> QED BY <1>3, <2>1 DEF EngineInv, AttemptsFit
<1>6. ToldFailure' <=> ToldFailure
  BY <1>1 DEF ToldFailure
<1>7. (status' = "queued" /\ starts < MaxAttempts) \/ (status' = "dead_letter" /\ ToldFailure)
  BY <1>4, <1>5 DEF GiveUp
<1>8. StatusMatchesSteps' /\ AttemptsFit'
  BY <1>1, <1>2, <1>3, <1>6, <1>7 DEF StatusMatchesSteps, AttemptsFit
<1> QED BY <1>1, <1>2, <1>8 DEF EngineInv, ExecFits, PendingFits

\* A run that fails without being executed has no steps.
LEMMA EngineNotExecuted ==
    ASSUME EngineInv, EnqueueRefused \/ LookupFails
    PROVE  EngineInv'
<1>1. /\ status = "queued" /\ status' = "failed" /\ saved' = <<>> /\ pending' = None
      /\ exec' = exec /\ starts' = starts
      /\ (job = "request" /\ job' = "none") \/ (job = "queue" /\ job' = "worker")
  BY DEF EnqueueRefused, LookupFails, FailWithoutSteps
<1>2. exec = None /\ starts < MaxAttempts
  BY <1>1 DEF EngineInv, ExecFits, AttemptsFit
<1> QED BY <1>1, <1>2, NoSteps DEF EngineInv, ExecFits, PendingFits, StatusMatchesSteps, AttemptsFit

\* A pause leaves the row, the waiting step and the pending state together.
LEMMA EnginePause ==
    ASSUME EngineInv, Pause
    PROVE  EngineInv'
<1> DEFINE x == Step(Current, "waiting_approval", "message")
<1>1. exec # None
  BY DEF Pause, Turn, Running
<1>2. /\ Steps(exec.steps) /\ AllCompleted(exec.steps)
      /\ DOMAIN exec.outputs = exec.executed /\ exec.executed = NodesOf(exec.steps)
  BY <1>1 DEF EngineInv, ExecFits
<1>3. StepLike(x) /\ x.node = Current.id /\ x.status = "waiting_approval"
  BY StepIsStep
<1>4. /\ saved' = Append(exec.steps, x) /\ status' = "waiting_approval" /\ exec' = None
      /\ starts' \in Nat
  BY DEF Pause, EngineInv, AttemptsFit
<1>5. /\ pending' # None
      /\ pending'.node = Current.id
      /\ pending'.executed = exec.executed /\ pending'.outputs = exec.outputs
  BY PendingIsSome DEF Pause
<1> HIDE DEF x
<1>6. /\ Steps(saved') /\ saved' # <<>> /\ Last(saved') = x
      /\ AllCompleted(Front(saved')) /\ NodesOf(Front(saved')) = NodesOf(exec.steps)
  BY <1>2, <1>3, <1>4, StepsAppend
<1>7. StatusMatchesSteps' /\ AttemptsFit'
  BY <1>3, <1>4, <1>5, <1>6 DEF StatusMatchesSteps, AttemptsFit
<1>8. PendingFits' /\ ExecFits'
  BY <1>2, <1>4, <1>5, <1>6 DEF PendingFits, ExecFits
<1> QED BY <1>6, <1>7, <1>8 DEF EngineInv

\* A node that succeeds adds its step, its output and itself to the executed ones.
LEMMA EngineNodeSucceeds ==
    ASSUME EngineInv, NodeSucceeds
    PROVE  EngineInv'
<1>1. /\ exec # None
      /\ status' = status /\ saved' = saved /\ pending' = pending /\ starts' = starts
  BY DEF NodeSucceeds, Turn, Running
<1>2. /\ Steps(exec.steps) /\ AllCompleted(exec.steps)
      /\ DOMAIN exec.outputs = exec.executed /\ exec.executed = NodesOf(exec.steps)
      /\ status \in {"running", "waiting_approval"}
      /\ pending # None => Continues(exec.steps)
  BY <1>1 DEF EngineInv, ExecFits
<1>3. PICK output :
        /\ exec'.executed = exec.executed \union {Current.id}
        /\ exec'.outputs = WithOutput(exec.outputs, Current.id, output)
        /\ exec'.steps = Append(exec.steps, Step(Current, "completed", output))
  BY DEF NodeSucceeds
<1> DEFINE x == Step(Current, "completed", output)
<1>4. StepLike(x) /\ x.node = Current.id /\ x.status = "completed"
  BY StepIsStep
<1>5. exec'.steps = Append(exec.steps, x)
  BY <1>3
<1> HIDE DEF x
<1>6. /\ Steps(exec'.steps) /\ AllCompleted(exec'.steps)
      /\ NodesOf(exec'.steps) = NodesOf(exec.steps) \union {Current.id}
      /\ Len(exec'.steps) = Len(exec.steps) + 1
      /\ \A k \in 1..Len(exec.steps) : exec'.steps[k] = exec.steps[k]
  BY <1>2, <1>4, <1>5, StepsAppend
<1>7. DOMAIN exec'.outputs = exec'.executed
  BY <1>2, <1>3 DEF WithOutput
<1>8. ASSUME pending # None
      PROVE  Continues(exec.steps)'
  <2>1. saved # <<>> /\ Steps(saved)
    BY <1>8 DEF EngineInv, StatusMatchesSteps
  <2>2. Len(saved) \in Nat /\ Len(saved) > 0 /\ Len(exec.steps) \in Nat
    BY <1>2, <2>1, StepsTyped
  <2>3. Len(saved) <= Len(exec.steps)
    BY <1>2, <1>8 DEF Continues
  <2>4. /\ Len(saved) \in 1..Len(exec.steps) /\ Len(saved) <= Len(exec.steps) + 1
        /\ \A k \in 1..(Len(saved) - 1) : k \in 1..Len(exec.steps)
    BY <2>2, <2>3
  <2> QED BY <1>1, <1>2, <1>6, <1>8, <2>4 DEF Continues
<1>9. ExecFits'
  BY <1>1, <1>2, <1>3, <1>6, <1>7, <1>8 DEF ExecFits
<1>10. Steps(saved)' /\ PendingFits' /\ StatusMatchesSteps' /\ AttemptsFit'
  BY <1>1, <1>2 DEF EngineInv, PendingFits, StatusMatchesSteps, ToldFailure, AttemptsFit
<1> QED BY <1>9, <1>10 DEF EngineInv

\* A run that failed has the steps of its execution and the failed one behind them.
LEMMA EngineNodeFails ==
    ASSUME EngineInv, NodeFails
    PROVE  EngineInv'
<1> DEFINE x == Step(Current, "failed", "nil")
<1>1. Steps(exec.steps) /\ AllCompleted(exec.steps)
  BY DEF EngineInv, ExecFits, NodeFails, Turn, Running
<1>2. StepLike(x) /\ x.status = "failed"
  BY StepIsStep
<1>3. /\ saved' = Append(exec.steps, x) /\ pending' = None /\ status' = "failed" /\ exec' = None
      /\ starts' \in Nat
  BY DEF NodeFails, EngineInv, AttemptsFit
<1> HIDE DEF x
<1>4. Steps(saved') /\ saved' # <<>> /\ Last(saved') = x /\ AllCompleted(Front(saved'))
  BY <1>1, <1>2, <1>3, StepsAppend
<1>5. StatusMatchesSteps' /\ AttemptsFit'
  BY <1>2, <1>3, <1>4 DEF StatusMatchesSteps, ToldFailure, AttemptsFit
<1> QED BY <1>3, <1>4, <1>5 DEF EngineInv, ExecFits, PendingFits

\* A completed run has the steps of its execution, all of them completed.
LEMMA EngineComplete ==
    ASSUME EngineInv, Complete
    PROVE  EngineInv'
<1>1. Steps(exec.steps) /\ AllCompleted(exec.steps)
  BY DEF EngineInv, ExecFits, Complete, Running
<1>2. /\ saved' = exec.steps /\ pending' = None /\ status' = "completed" /\ exec' = None
      /\ starts' \in Nat
  BY DEF Complete, EngineInv, AttemptsFit
<1>3. StatusMatchesSteps' /\ AttemptsFit'
  BY <1>1, <1>2 DEF StatusMatchesSteps, AttemptsFit
<1> QED BY <1>1, <1>2, <1>3 DEF EngineInv, ExecFits, PendingFits

\* An approval goes on with the steps, the outputs and the nodes of the pause.
LEMMA EngineApprove ==
    ASSUME EngineInv, Approve
    PROVE  EngineInv'
<1>1. /\ pending # None /\ saved # <<>>
      /\ Last(saved).node = pending.node
      /\ status' = status /\ saved' = saved /\ pending' = pending /\ starts' = starts
  BY DEF Approve, Awaits
<1>2. /\ Steps(saved) /\ status = "waiting_approval" /\ AllCompleted(Front(saved))
      /\ DOMAIN pending.outputs = pending.executed
      /\ pending.executed = NodesOf(Front(saved))
  BY <1>1 DEF EngineInv, PendingFits, StatusMatchesSteps
<1>3. /\ exec'.executed = pending.executed \union {pending.node}
      /\ exec'.outputs = WithOutput(pending.outputs, pending.node, "decision")
      /\ exec'.steps = Resolved
  BY DEF Approve, StateFromPending, WithDecision
<1>4. /\ Steps(Resolved) /\ Len(Resolved) = Len(saved)
      /\ \A k \in 1..(Len(saved) - 1) : Resolved[k] = saved[k]
      /\ Resolved[Len(saved)].node = saved[Len(saved)].node
      /\ AllCompleted(Resolved)
      /\ NodesOf(Resolved) = NodesOf(Front(saved)) \union {saved[Len(saved)].node}
  BY <1>1, <1>2, ResolvedFacts
<1>5. NodesOf(exec'.steps) = exec'.executed
  BY <1>1, <1>2, <1>3, <1>4 DEF Last
<1>6. DOMAIN exec'.outputs = exec'.executed
  BY <1>2, <1>3 DEF WithOutput
<1>7. Continues(exec.steps)'
  <2>1. Len(saved) \in Nat
    BY <1>2, StepsTyped
  <2> QED BY <1>1, <1>3, <1>4, <2>1 DEF Continues
<1>8. ExecFits'
  BY <1>1, <1>2, <1>3, <1>4, <1>5, <1>6, <1>7 DEF ExecFits
<1>9. Steps(saved)' /\ PendingFits' /\ StatusMatchesSteps' /\ AttemptsFit'
  BY <1>1, <1>2 DEF EngineInv, PendingFits, StatusMatchesSteps, ToldFailure, AttemptsFit
<1> QED BY <1>8, <1>9 DEF EngineInv

\* A rejected run has the decision in its last step and no pending state.
LEMMA EngineReject ==
    ASSUME EngineInv, Reject
    PROVE  EngineInv'
<1>1. /\ pending # None /\ exec = None /\ saved # <<>>
      /\ status' = "failed" /\ saved' = Resolved /\ pending' = None /\ exec' = exec
      /\ starts' \in Nat
  BY DEF Reject, Awaits, Running, EngineInv, AttemptsFit
<1>2. Steps(saved) /\ AllCompleted(Front(saved))
  BY <1>1 DEF EngineInv, StatusMatchesSteps
<1>3. /\ Steps(Resolved) /\ Resolved # <<>> /\ Len(Resolved) = Len(saved)
      /\ Resolved[Len(saved)].output = "decision"
      /\ AllCompleted(Front(Resolved))
  BY <1>1, <1>2, ResolvedFacts
<1>4. Last(Resolved).output = "decision"
  BY <1>3 DEF Last
<1>5. StatusMatchesSteps' /\ AttemptsFit'
  BY <1>1, <1>3, <1>4 DEF StatusMatchesSteps, ToldFailure, AttemptsFit
<1> QED BY <1>1, <1>3, <1>5 DEF EngineInv, ExecFits, PendingFits

\* Every step keeps memory, row and pending state together.
LEMMA EngineStep == EngineInv /\ [Next]_vars => EngineInv'
<1> SUFFICES ASSUME EngineInv, [Next]_vars PROVE EngineInv'
  OBVIOUS
<1>1. CASE UNCHANGED vars
  BY <1>1, EngineUnchanged DEF vars
<1>2. CASE CreateWorkflow
  BY <1>2, EngineUnchanged DEF CreateWorkflow
<1>3. CASE StartSync \/ StartQueued
  BY <1>3, EngineStart DEF StartSync, StartQueued
<1>4. CASE CreateQueued \/ Enqueue \/ MarkRetry \/ GiveUp
  BY <1>4, EngineBetween
<1>5. CASE EnqueueRefused \/ LookupFails
  BY <1>5, EngineNotExecuted
<1>6. CASE ExecutionStep
  BY <1>6, EnginePause, EngineNodeSucceeds, EngineNodeFails, EngineComplete DEF ExecutionStep
<1>7. CASE Crash
  BY <1>7, EngineUnchanged DEF Crash
<1>8. CASE Approve
  BY <1>8, EngineApprove
<1>9. CASE Reject
  BY <1>9, EngineReject
<1>10. CASE ResumeRefused
  BY <1>10, EngineUnchanged DEF ResumeRefused, vars
<1> QED BY <1>1, <1>2, <1>3, <1>4, <1>5, <1>6, <1>7, <1>8, <1>9, <1>10 DEF Next

\* Memory, row and pending state of a run fit together at every moment.
THEOREM MemoryFitsRow == Spec => []EngineInv
<1> QED BY EngineInit, EngineStep, PTL DEF Spec

\* What the step list says agrees with the status of the run, also when a request, a
\* retry or a crash came between two of them.
THEOREM StatusTellsSteps == Spec => []StatusMatchesSteps
<1>1. EngineInv => StatusMatchesSteps
  BY DEF EngineInv
<1> QED BY <1>1, MemoryFitsRow, PTL

\* Exactly the executed nodes have outputs, in memory and in what a pause stores, so a
\* continued execution reads what an uninterrupted one would.
THEOREM OutputsAreExecuted == Spec => []OutputsMatchExecuted
<1>1. EngineInv => OutputsMatchExecuted
  BY DEF EngineInv, ExecFits, PendingFits, OutputsMatchExecuted, Running
<1> QED BY <1>1, MemoryFitsRow, PTL

\* A list that agrees with the steps before a pause keeps them as its prefix.
LEMMA KeepsFront ==
    ASSUME NEW t, Steps(saved), saved # <<>>, Steps(t), Len(saved) <= Len(t),
           \A k \in 1..(Len(saved) - 1) : t[k] = saved[k]
    PROVE  IsPrefix(Front(saved), t)
<1> DEFINE f == Front(saved)
           g == SubSeq(t, 1, Len(f))
<1>1. /\ Len(saved) \in Nat /\ Len(saved) > 0 /\ Len(t) \in Nat
      /\ Steps(f) /\ Len(f) = Len(saved) - 1
      /\ \A k \in 1..(Len(saved) - 1) : f[k] = saved[k]
  BY StepsTyped, StepsFront
<1>2. PICK S : f \in Seq(S)
  BY <1>1 DEF Steps
<1>3. SubSeq(f, 1, Len(f)) = f
  BY <1>2, SubSeqFull
<1> HIDE DEF f
<1>4. \A i \in 1..Len(f) : f[i] \in S /\ t[i] = f[i]
  BY <1>1, <1>2, ElementOfSeq
<1>5. Len(f) \in Nat /\ Len(f) <= Len(t) /\ 1 \in Int /\ Len(f) \in Int
  BY <1>1
<1>6. /\ g \in Seq(S)
      /\ Len(g) = IF 1 <= Len(f) THEN Len(f) - 1 + 1 ELSE 0
      /\ \A i \in 1..(Len(f) - 1 + 1) : g[i] = t[1 + i - 1]
  BY <1>4, <1>5, SubSeqProperties
<1> HIDE DEF g
<1>7. Len(g) = Len(f)
  BY <1>5, <1>6
<1>8. \A i \in 1..Len(g) : g[i] = f[i]
  BY <1>4, <1>5, <1>6, <1>7
<1>9. g = f
  BY <1>2, <1>6, <1>7, <1>8, SeqEqual
<1> QED BY <1>3, <1>5, <1>9 DEF IsPrefix, f, g

\* The steps in front of a pause are never rewritten or lost by what comes behind it.
THEOREM HistoryKept == Spec => HistoryIsKept
<1>1. ASSUME EngineInv, EngineInv', [Next]_vars, pending # None, saved' # saved
      PROVE  IsPrefix(Front(saved), saved') /\ saved'[Len(saved)].node = Last(saved).node
  <2>1. saved # <<>> /\ Steps(saved) /\ Steps(saved')
    BY <1>1 DEF EngineInv, StatusMatchesSteps
  <2>2. Len(saved) \in Nat /\ Len(saved) > 0
    BY <2>1, StepsTyped
  <2>3. ASSUME exec # None, NEW x, StepLike(x), saved' = Append(exec.steps, x)
        PROVE  IsPrefix(Front(saved), saved') /\ saved'[Len(saved)].node = Last(saved).node
    <3>1. Steps(exec.steps) /\ Continues(exec.steps)
      BY <1>1, <2>3 DEF EngineInv, ExecFits
    <3>2. /\ Len(saved') = Len(exec.steps) + 1 /\ Len(exec.steps) \in Nat
          /\ \A k \in 1..Len(exec.steps) : saved'[k] = exec.steps[k]
      BY <2>3, <3>1, StepsAppend, StepsTyped
    <3>3. /\ Len(saved) <= Len(exec.steps)
          /\ \A k \in 1..(Len(saved) - 1) : exec.steps[k] = saved[k]
          /\ exec.steps[Len(saved)].node = saved[Len(saved)].node
      BY <3>1 DEF Continues
    <3>4. /\ Len(saved) \in 1..Len(exec.steps) /\ Len(saved) <= Len(saved')
          /\ \A k \in 1..(Len(saved) - 1) : k \in 1..Len(exec.steps)
      BY <2>2, <3>2, <3>3
    <3>5. IsPrefix(Front(saved), saved')
      BY <2>1, <3>2, <3>3, <3>4, KeepsFront
    <3> QED BY <3>2, <3>3, <3>4, <3>5 DEF Last
  <2>4. CASE Pause
    BY <2>3, <2>4, StepIsStep DEF Pause, Turn, Running
  <2>5. CASE NodeFails
    BY <2>3, <2>5, StepIsStep DEF NodeFails, Turn, Running
  <2>6. CASE Complete
    <3>1. exec # None /\ saved' = exec.steps
      BY <2>6 DEF Complete, Running
    <3>2. Continues(exec.steps)
      BY <1>1, <3>1 DEF EngineInv, ExecFits
    <3>3. IsPrefix(Front(saved), saved')
      BY <2>1, <3>1, <3>2, KeepsFront DEF Continues
    <3> QED BY <3>1, <3>2, <3>3 DEF Continues, Last
  <2>7. CASE Reject
    <3>1. saved' = Resolved
      BY <2>7 DEF Reject
    <3>2. /\ Len(Resolved) = Len(saved)
          /\ \A k \in 1..(Len(saved) - 1) : Resolved[k] = saved[k]
          /\ Resolved[Len(saved)].node = saved[Len(saved)].node
      BY <2>1, ResolvedFacts
    <3>3. IsPrefix(Front(saved), saved')
      BY <2>1, <2>2, <3>1, <3>2, KeepsFront
    <3> QED BY <3>1, <3>2, <3>3 DEF Last
  <2>8. CASE EnqueueRefused \/ LookupFails
    BY <1>1, <2>8 DEF EnqueueRefused, LookupFails, EngineInv, StatusMatchesSteps
  <2> QED BY <1>1, <2>4, <2>5, <2>6, <2>7, <2>8 DEF Next, ExecutionStep, CreateWorkflow,
             StartSync, StartQueued, Start, CreateQueued, Enqueue, MarkRetry, GiveUp,
             NodeSucceeds, Crash, Approve, ResumeRefused, vars
<1>2. EngineInv /\ EngineInv' /\ [Next]_vars =>
        [pending # None /\ saved' # saved =>
            /\ IsPrefix(Front(saved), saved')
            /\ saved'[Len(saved)].node = Last(saved).node]_vars
  BY <1>1
<1> QED BY <1>2, MemoryFitsRow, PTL DEF Spec, HistoryIsKept

-----------------------------------------------------------------------------
(* Induction and recursion along an interval. *)

\* A set of naturals that is not empty has a smallest member.
LEMMA SmallestMember ==
    ASSUME NEW S \in SUBSET Nat, S # {}
    PROVE  \E n \in S : \A m \in S : n <= m
<1>1. PICK n \in S : \A m \in S : ~(<<m, n>> \in OpToRel(<, Nat))
  BY WFMin, NatLessThanWellFounded
<1>2. \A m \in S : ~(m < n)
  BY <1>1 DEF OpToRel
<1> QED BY <1>2

\* Induction along an interval.
LEMMA IntervalInduction ==
    ASSUME NEW n \in Nat, NEW S, 0 \in S, \A k \in 1..n : k - 1 \in S => k \in S
    PROVE  \A k \in 0..n : k \in S
<1> DEFINE B == {k \in 0..n : k \notin S}
<1>1. B \in SUBSET Nat
  OBVIOUS
<1>2. ASSUME B # {}
      PROVE  FALSE
  <2>1. \E k \in B : \A m \in B : k <= m
    <3> HIDE DEF B
    <3> QED BY <1>1, <1>2, SmallestMember
  <2>2. PICK k \in B : \A m \in B : k <= m
    BY <2>1
  <2>3. k \in 0..n /\ k \notin S
    OBVIOUS
  <2>4. k # 0
    BY <2>3
  <2>5. k \in 1..n /\ k - 1 \in 0..n /\ ~(k <= k - 1)
    BY <2>3, <2>4
  <2>6. k - 1 \in S
    BY <2>2, <2>5
  <2> QED BY <2>3, <2>5, <2>6
<1> QED BY <1>2

IsRecursion(f, n, V, b, F) ==
    /\ f \in [0..n -> V]
    /\ f[0] = b
    /\ \A k \in 1..n : f[k] = F[k][f[k - 1]]

AreSteps(F, n, V) == F \in [1..n -> [V -> V]]

\* A recursion along an interval defines a function.
LEMMA RecursionDefines ==
    ASSUME NEW n \in Nat, NEW V, NEW b \in V, NEW F, AreSteps(F, n, V)
    PROVE  \E f : IsRecursion(f, n, V, b, F)
<1> DEFINE S == {m \in 0..n : \E f \in [0..m -> V] :
                    f[0] = b /\ \A k \in 1..m : f[k] = F[k][f[k - 1]]}
<1>1. 0 \in S
  <2> DEFINE f == [k \in 0..0 |-> b]
  <2>1. f \in [0..0 -> V] /\ f[0] = b /\ \A k \in 1..0 : FALSE
    OBVIOUS
  <2>2. 0 \in 0..n
    OBVIOUS
  <2> HIDE DEF f
  <2> QED BY <2>1, <2>2
<1>2. ASSUME NEW m \in 1..n, m - 1 \in S
      PROVE  m \in S
  <2>1. PICK f \in [0..(m - 1) -> V] :
            f[0] = b /\ \A k \in 1..(m - 1) : f[k] = F[k][f[k - 1]]
    BY <1>2
  <2> DEFINE g == [k \in 0..m |-> IF k = m THEN F[m][f[m - 1]] ELSE f[k]]
  <2>2. m - 1 \in 0..(m - 1) /\ m \in 0..n /\ m # 0 /\ 0 \in 0..(m - 1)
    OBVIOUS
  <2>3. F[m] \in [V -> V] /\ f[m - 1] \in V
    BY <2>1, <2>2 DEF AreSteps
  <2>4. F[m][f[m - 1]] \in V
    BY <2>3
  <2>5. \A k \in 0..m : k # m => k \in 0..(m - 1)
    OBVIOUS
  <2>6. g \in [0..m -> V]
    BY <2>1, <2>4, <2>5
  <2>7. /\ g[m] = F[m][f[m - 1]]
        /\ \A k \in 0..(m - 1) : k \in 0..m /\ k # m /\ g[k] = f[k]
    OBVIOUS
  <2> HIDE DEF g
  <2>8. ASSUME NEW k \in 1..m
        PROVE  g[k] = F[k][g[k - 1]]
    <3>1. CASE k = m
      BY <2>2, <2>7, <3>1
    <3>2. CASE k # m
      <4>1. k \in 1..(m - 1) /\ k \in 0..(m - 1) /\ k - 1 \in 0..(m - 1)
        BY <3>2
      <4> QED BY <2>1, <2>7, <4>1
    <3> QED BY <3>1, <3>2
  <2>9. g[0] = b
    BY <2>1, <2>2, <2>7
  <2> QED BY <2>2, <2>6, <2>8, <2>9
<1>3. n \in S
  <2> HIDE DEF S
  <2>1. \A k \in 0..n : k \in S
    BY <1>1, <1>2, IntervalInduction
  <2> QED BY <2>1
<1> QED BY <1>3 DEF IsRecursion

\* Two recursions that start and step alike agree as far as both go.
LEMMA RecursionsAgree ==
    ASSUME NEW n \in Nat, NEW m \in Nat, n <= m, NEW V, NEW b, NEW F, NEW G, NEW f, NEW g,
           IsRecursion(f, n, V, b, F), IsRecursion(g, m, V, b, G),
           \A k \in 1..n : F[k] = G[k]
    PROVE  \A k \in 0..n : g[k] = f[k] /\ f[k] \in V
<1> DEFINE S == {k \in 0..n : f[k] = g[k]}
<1>1. 0 \in S
  BY DEF IsRecursion
<1>2. ASSUME NEW k \in 1..n, k - 1 \in S
      PROVE  k \in S
  <2>1. f[k - 1] = g[k - 1] /\ k \in 1..m /\ k \in 0..n
    BY <1>2
  <2>2. f[k] = F[k][f[k - 1]] /\ g[k] = G[k][g[k - 1]] /\ F[k] = G[k]
    BY <2>1 DEF IsRecursion
  <2> QED BY <2>1, <2>2
<1>3. \A k \in 0..n : f[k] = g[k]
  <2> HIDE DEF S
  <2>1. \A k \in 0..n : k \in S
    BY <1>1, <1>2, IntervalInduction
  <2> QED BY <2>1 DEF S
<1>4. \A k \in 0..n : f[k] \in V
  BY DEF IsRecursion
<1> QED BY <1>3, <1>4

StepsLike(g, n, V, b, F) ==
    /\ g = [k \in 0..n |-> g[k]]
    /\ g[0] = b
    /\ \A k \in 1..n : g[k - 1] \in V => g[k] = F[k][g[k - 1]]

\* A function that starts and steps like a recursion is that recursion.
LEMMA RecursionFollows ==
    ASSUME NEW n \in Nat, NEW V, NEW b, NEW F, NEW f, IsRecursion(f, n, V, b, F),
           NEW g, StepsLike(g, n, V, b, F)
    PROVE  g = f
<1> DEFINE S == {k \in 0..n : f[k] = g[k]}
<1>0. f \in [0..n -> V] /\ f[0] = b /\ \A k \in 1..n : f[k] = F[k][f[k - 1]]
  BY DEF IsRecursion
<1>1. 0 \in S
  BY <1>0 DEF StepsLike
<1>2. ASSUME NEW k \in 1..n, k - 1 \in S
      PROVE  k \in S
  <2>1. f[k - 1] = g[k - 1] /\ k \in 0..n /\ k - 1 \in 0..n
    BY <1>2
  <2>2. g[k - 1] \in V
    BY <1>0, <2>1
  <2> QED BY <1>0, <2>1, <2>2 DEF StepsLike
<1>3. \A k \in 0..n : f[k] = g[k]
  <2> HIDE DEF S
  <2>1. \A k \in 0..n : k \in S
    BY <1>1, <1>2, IntervalInduction
  <2> QED BY <2>1 DEF S
<1> QED BY <1>0, <1>3 DEF StepsLike

-----------------------------------------------------------------------------
(* Picking members of a list. *)

\* What Picked does with each position.
Pickers(list, positions, S) ==
    [k \in 1..Len(list) |->
        [v \in Seq(S) |-> IF k \in positions THEN Append(v, list[k]) ELSE v]]

\* Picked is the end of the recursion that its definition says it is.
LEMMA PickedRecursion ==
    ASSUME NEW S, NEW list \in Seq(S), NEW positions
    PROVE  \E f : /\ Picked(list, positions) = f[Len(list)]
                  /\ IsRecursion(f, Len(list), Seq(S), <<>>, Pickers(list, positions, S))
<1> DEFINE n == Len(list)
           F == Pickers(list, positions, S)
           Picks(g, k) == IF k \in positions THEN Append(g[k - 1], list[k]) ELSE g[k - 1]
           Defines(g) == g = [k \in 0..n |-> IF k = 0 THEN <<>>
                               ELSE IF k \in positions THEN Append(g[k - 1], list[k])
                               ELSE g[k - 1]]
<1>1. n \in Nat /\ \A k \in 1..n : list[k] \in S
  BY LenProperties, ElementOfSeq
<1>2. AreSteps(F, n, Seq(S))
  BY <1>1, AppendProperties DEF Pickers, AreSteps
<1>3. PICK f : IsRecursion(f, n, Seq(S), <<>>, F)
  <2>1. <<>> \in Seq(S)
    BY EmptySeq
  <2> HIDE DEF F, n
  <2> QED BY <1>1, <1>2, <2>1, RecursionDefines
<1>4. f \in [0..n -> Seq(S)] /\ f[0] = <<>> /\ \A k \in 1..n : f[k] = F[k][f[k - 1]]
  BY <1>3 DEF IsRecursion
<1>5. \A k \in 1..n : k \in 0..n /\ k # 0 /\ k - 1 \in 0..n
  BY <1>1
<1>6. ASSUME NEW k \in 1..n, NEW v \in Seq(S)
      PROVE  F[k][v] = IF k \in positions THEN Append(v, list[k]) ELSE v
  BY DEF Pickers
<1>7. Defines(f)
  <2>1. \A k \in 0..n : k # 0 => k \in 1..n
    BY <1>1
  <2>2. \A k \in 1..n : f[k] = Picks(f, k)
    <3> HIDE DEF F, n
    <3> QED BY <1>4, <1>5, <1>6
  <2>3. \A k \in 0..n : f[k] = IF k = 0 THEN <<>> ELSE Picks(f, k)
    <3> HIDE DEF F, n, Picks
    <3> QED BY <1>4, <2>1, <2>2
  <2> QED BY <1>4, <2>3
<1>8. PICK all : all = CHOOSE g : Defines(g)
  OBVIOUS
<1>9. Defines(all)
  <2> HIDE DEF Defines
  <2> QED BY <1>7, <1>8
<1>10. Picked(list, positions) = all[n]
  BY <1>8 DEF Picked
<1>11. /\ all = [k \in 0..n |-> all[k]]
       /\ all[0] = <<>>
       /\ \A k \in 1..n : all[k] = Picks(all, k)
  <2>1. all = [k \in 0..n |-> IF k = 0 THEN <<>> ELSE Picks(all, k)]
    BY <1>9
  <2>2. 0 \in 0..n
    BY <1>1
  <2> HIDE DEF n, Picks
  <2>3. \A k \in 0..n : all[k] = IF k = 0 THEN <<>> ELSE Picks(all, k)
    BY <2>1
  <2>4. all = [k \in 0..n |-> all[k]]
    BY <2>1
  <2> QED BY <1>5, <2>2, <2>3, <2>4
<1>12. all = f
  <2>1. \A k \in 1..n : all[k - 1] \in Seq(S) => all[k] = F[k][all[k - 1]]
    <3> HIDE DEF n, F
    <3> QED BY <1>6, <1>11
  <2> HIDE DEF n, F, Picks
  <2>2. StepsLike(all, n, Seq(S), <<>>, F)
    BY <1>11, <2>1 DEF StepsLike
  <2> QED BY <1>1, <1>3, <2>2, RecursionFollows
<1> QED BY <1>3, <1>10, <1>12

\* What is picked comes from the positions, once if each member is there once, and
\* from all of them.
LEMMA PickedFacts ==
    ASSUME NEW S, NEW list \in Seq(S), NEW positions \in SUBSET (1..Len(list))
    PROVE  LET picked == Picked(list, positions) IN
           /\ picked \in Seq(S)
           /\ \A i \in 1..Len(picked) : \E k \in positions : picked[i] = list[k]
           /\ (\A k, l \in positions : list[k] = list[l] => k = l) =>
                \A i, j \in 1..Len(picked) : picked[i] = picked[j] => i = j
           /\ positions # {} => picked # <<>>
<1> DEFINE n == Len(list)
           F == Pickers(list, positions, S)
<1>0. n \in Nat
  BY LenProperties
<1>1. PICK f : Picked(list, positions) = f[n] /\ IsRecursion(f, n, Seq(S), <<>>, F)
  BY PickedRecursion
<1>2. f \in [0..n -> Seq(S)] /\ f[0] = <<>> /\ \A k \in 1..n : f[k] = F[k][f[k - 1]]
  BY <1>1 DEF IsRecursion
<1>3. ASSUME NEW k \in 1..n
      PROVE  /\ k - 1 \in 0..n /\ k \in 0..n
             /\ f[k] = IF k \in positions THEN Append(f[k - 1], list[k]) ELSE f[k - 1]
             /\ f[k - 1] \in Seq(S) /\ list[k] \in S
  <2>1. k - 1 \in 0..n /\ k \in 0..n
    BY <1>0
  <2>2. f[k - 1] \in Seq(S) /\ f[k] = F[k][f[k - 1]] /\ list[k] \in S
    BY <1>2, <2>1, ElementOfSeq
  <2>3. F[k] = [v \in Seq(S) |-> IF k \in positions THEN Append(v, list[k]) ELSE v]
    BY DEF Pickers
  <2> QED BY <2>1, <2>2, <2>3
<1>9. \A l \in positions : l \in Nat /\ 1 <= l /\ l <= n
  BY <1>0
<1> HIDE DEF n, F
<1> DEFINE From(k) == {l \in positions : l <= k}
           Good(k) == /\ \A i \in 1..Len(f[k]) : \E l \in From(k) : f[k][i] = list[l]
                      /\ (\A l, m \in positions : list[l] = list[m] => l = m) =>
                            \A i, j \in 1..Len(f[k]) : f[k][i] = f[k][j] => i = j
                      /\ From(k) # {} => f[k] # <<>>
           G == {k \in 0..n : Good(k)}
<1>4. 0 \in G
  <2>1. Len(f[0]) = 0
    BY <1>2, EmptySeq
  <2>2. From(0) = {}
    <3>1. \A l \in positions : ~(l <= 0)
      BY <1>9
    <3> QED BY <3>1
  <2>3. 0 \in 0..n
    BY <1>0
  <2> QED BY <2>1, <2>2, <2>3
<1>5. ASSUME NEW k \in 1..n, k - 1 \in G
      PROVE  k \in G
  <2>1. Good(k - 1) /\ k \in 0..n
    BY <1>3, <1>5
  <2>2. \A l \in positions : (l <= k <=> l <= k - 1 \/ l = k) /\ ~(k <= k - 1)
    BY <1>0, <1>9
  <2>3. CASE k \notin positions
    <3>1. From(k) = From(k - 1) /\ f[k] = f[k - 1]
      BY <1>3, <2>2, <2>3
    <3>2. Good(k)
      <4> HIDE DEF From
      <4> QED BY <2>1, <3>1
    <3> QED BY <2>1, <3>2
  <2>4. CASE k \in positions
    <3> DEFINE old == f[k - 1]
               new == f[k]
    <3>1. new = Append(old, list[k]) /\ old \in Seq(S) /\ list[k] \in S
      BY <1>3, <2>4
    <3>2. /\ Len(old) \in Nat /\ Len(new) = Len(old) + 1 /\ new[Len(old) + 1] = list[k]
          /\ new # <<>> /\ \A i \in 1..Len(old) : new[i] = old[i]
      <4> HIDE DEF old, new
      <4> QED BY <3>1, AppendProperties, LenProperties
    <3>3. From(k) = From(k - 1) \union {k} /\ k \notin From(k - 1)
      BY <2>2, <2>4
    <3>4. /\ \A i \in 1..Len(old) : \E l \in From(k - 1) : old[i] = list[l]
          /\ (\A l, m \in positions : list[l] = list[m] => l = m) =>
                \A i, j \in 1..Len(old) : old[i] = old[j] => i = j
      BY <2>1
    <3>5. From(k - 1) \subseteq positions
      OBVIOUS
    <3> HIDE DEF old, new, From
    <3>6. \A i \in 1..Len(new) : i \in 1..Len(old) \/ i = Len(old) + 1
      BY <3>2
    <3>7. \A i \in 1..Len(new) : \E l \in From(k) : new[i] = list[l]
      BY <3>2, <3>3, <3>4, <3>6
    <3>8. ASSUME \A l, m \in positions : list[l] = list[m] => l = m,
                 NEW i \in 1..Len(new), NEW j \in 1..Len(new), new[i] = new[j]
          PROVE  i = j
      <4>1. ASSUME NEW x \in 1..Len(old)
            PROVE  old[x] # list[k]
        <5>1. PICK l \in From(k - 1) : old[x] = list[l]
          BY <3>4
        <5>2. l \in positions /\ l # k
          BY <3>3, <3>5
        <5> QED BY <2>4, <3>8, <5>1, <5>2
      <4> QED BY <3>2, <3>4, <3>6, <3>8, <4>1
    <3>9. Good(k)
      <4>1. f[k] # <<>>
        BY <3>2 DEF new
      <4> QED BY <3>7, <3>8, <4>1 DEF new
    <3> QED BY <2>1, <3>9
  <2> QED BY <2>3, <2>4
<1>6. Good(n)
  <2> HIDE DEF G, Good
  <2>1. \A k \in 0..n : k \in G
    BY <1>0, <1>4, <1>5, IntervalInduction
  <2> QED BY <1>0, <2>1 DEF G
<1>7. From(n) = positions
  BY <1>9
<1>8. f[n] \in Seq(S)
  BY <1>0, <1>2
<1>10. /\ \A i \in 1..Len(f[n]) : \E l \in positions : f[n][i] = list[l]
       /\ (\A l, m \in positions : list[l] = list[m] => l = m) =>
             \A i, j \in 1..Len(f[n]) : f[n][i] = f[n][j] => i = j
       /\ positions # {} => f[n] # <<>>
  <2> HIDE DEF From
  <2> QED BY <1>6, <1>7
<1> HIDE DEF From, Good, G
<1> QED BY <1>1, <1>8, <1>10

-----------------------------------------------------------------------------
(* Pushing nodes on the queue. *)

\* The queue with the first k of the next nodes behind it.
Grown(queue, next, k) == SubSeq(queue \o next, 1, Len(queue) + k)

\* x is queued, or one of the next nodes before the k-th.
IsThere(queue, next, k, x) ==
    (\E i \in 1..Len(queue) : x = queue[i]) \/ (\E l \in 1..(k - 1) : x = next[l])

\* The queue grows by one of the next nodes at a time, up to all of them.
LEMMA GrownFacts ==
    ASSUME NEW S, NEW queue \in Seq(S), NEW next \in Seq(S)
    PROVE  /\ Grown(queue, next, 0) = queue
           /\ Grown(queue, next, Len(next)) = queue \o next
           /\ \A k \in 0..Len(next) : Grown(queue, next, k) \in Seq(S)
           /\ \A k \in 1..Len(next) :
                /\ Grown(queue, next, k) = Append(Grown(queue, next, k - 1), next[k])
                /\ \A x \in ToSet(Grown(queue, next, k - 1)) : IsThere(queue, next, k, x)
<1> DEFINE all == queue \o next
           m == Len(queue)
           n == Len(next)
<1>1. m \in Nat /\ n \in Nat
  BY LenProperties
<1>2. /\ all \in Seq(S) /\ Len(all) = m + n
      /\ \A i \in 1..(m + n) : all[i] = IF i <= m THEN queue[i] ELSE next[i - m]
  BY ConcatProperties
<1> HIDE DEF all
<1>3. ASSUME NEW k \in 0..n
      PROVE  LET cut == SubSeq(all, 1, m + k) IN
             /\ cut \in Seq(S) /\ Len(cut) = m + k
             /\ \A i \in 1..(m + k) : cut[i] = all[i]
  <2>1. \A i \in 1..(m + k) : i \in 1..Len(all)
    BY <1>1, <1>2
  <2>2. \A i \in 1..(m + k) : all[i] \in S
    BY <1>2, <2>1, ElementOfSeq
  <2> DEFINE o == m + k
             cut == SubSeq(all, 1, o)
  <2>3. o \in Int /\ 1 \in Int /\ o \in Nat
    BY <1>1
  <2> HIDE DEF o
  <2>4. /\ cut \in Seq(S) /\ Len(cut) = IF 1 <= o THEN o - 1 + 1 ELSE 0
        /\ \A i \in 1..(o - 1 + 1) : cut[i] = all[1 + i - 1]
    BY <2>2, <2>3, SubSeqProperties DEF o
  <2> HIDE DEF cut
  <2>5. Len(cut) = o /\ \A i \in 1..o : cut[i] = all[i]
    BY <2>3, <2>4
  <2> QED BY <2>4, <2>5 DEF o, cut
<1>4. SubSeq(all, 1, m + 0) = queue
  <2>1. 0 \in 0..n /\ m + 0 = m
    BY <1>1
  <2>2. \A i \in 1..m : i \in 1..(m + n) /\ all[i] = queue[i]
    BY <1>1, <1>2
  <2> DEFINE cut == SubSeq(all, 1, m + 0)
  <2>3. cut \in Seq(S) /\ Len(cut) = m /\ \A i \in 1..m : cut[i] = queue[i]
    BY <1>3, <2>1, <2>2
  <2> HIDE DEF cut
  <2>4. cut = queue
    BY <2>3, SeqEqual
  <2> QED BY <2>4 DEF cut
<1>5. SubSeq(all, 1, m + n) = all
  BY <1>2, SubSeqFull
<1>6. ASSUME NEW k \in 1..n
      PROVE  SubSeq(all, 1, m + k) = Append(SubSeq(all, 1, m + (k - 1)), next[k])
  <2> DEFINE old == SubSeq(all, 1, m + (k - 1))
             new == SubSeq(all, 1, m + k)
  <2>1. k \in 0..n /\ k - 1 \in 0..n /\ m + k \in 1..(m + n) /\ ~(m + k <= m) /\ (m + k) - m = k
    BY <1>1
  <2>2. /\ old \in Seq(S) /\ Len(old) = m + (k - 1)
        /\ \A i \in 1..(m + (k - 1)) : old[i] = all[i]
    BY <1>3, <2>1
  <2>3. new \in Seq(S) /\ Len(new) = m + k /\ \A i \in 1..(m + k) : new[i] = all[i]
    BY <1>3, <2>1
  <2>4. all[m + k] = next[k] /\ next[k] \in S
    BY <1>2, <2>1, ElementOfSeq
  <2> HIDE DEF old, new
  <2>5. /\ Append(old, next[k]) \in Seq(S) /\ Len(Append(old, next[k])) = Len(old) + 1
        /\ \A i \in 1..Len(old) : Append(old, next[k])[i] = old[i]
        /\ Append(old, next[k])[Len(old) + 1] = next[k]
    BY <2>2, <2>4, AppendProperties
  <2> DEFINE app == Append(old, next[k])
  <2> HIDE DEF app
  <2>6. app \in Seq(S) /\ Len(app) = Len(old) + 1 /\ app[Len(old) + 1] = next[k]
        /\ \A i \in 1..Len(old) : app[i] = old[i]
    BY <2>5 DEF app
  <2>7. Len(old) + 1 = m + k /\ \A i \in 1..(m + k) : i \in 1..Len(old) \/ i = m + k
    BY <1>1, <2>2
  <2>8. Len(app) = Len(new) /\ \A i \in 1..Len(new) : new[i] = app[i]
    BY <2>2, <2>3, <2>4, <2>6, <2>7
  <2>9. new = app
    BY <2>3, <2>6, <2>8, SeqEqual
  <2> QED BY <2>9 DEF old, new, app
<1>7. ASSUME NEW k \in 1..n, NEW x \in ToSet(SubSeq(all, 1, m + (k - 1)))
      PROVE  \/ \E i \in 1..m : x = queue[i]
             \/ \E l \in 1..(k - 1) : x = next[l]
  <2> DEFINE old == SubSeq(all, 1, m + (k - 1))
  <2>1. k - 1 \in 0..n
    BY <1>1
  <2>2. /\ old \in Seq(S) /\ Len(old) = m + (k - 1)
        /\ \A i \in 1..(m + (k - 1)) : old[i] = all[i]
    BY <1>3, <2>1
  <2>3. PICK i \in DOMAIN old : x = old[i]
    BY <1>7 DEF ToSet
  <2>4. i \in 1..(m + (k - 1))
    BY <2>2, <2>3, LenProperties
  <2>5. i \in 1..(m + n) /\ x = all[i]
    BY <1>1, <2>2, <2>3, <2>4
  <2>6. CASE i <= m
    <3>1. x = queue[i] /\ i \in 1..m
      BY <1>1, <1>2, <2>4, <2>5, <2>6
    <3> QED BY <3>1
  <2>7. CASE ~(i <= m)
    <3>1. x = next[i - m] /\ i - m \in 1..(k - 1)
      BY <1>1, <1>2, <2>4, <2>5, <2>7
    <3> QED BY <3>1
  <2> QED BY <2>6, <2>7
<1> HIDE DEF n, m
<1>8. \A k : Grown(queue, next, k) = SubSeq(all, 1, m + k)
  BY DEF Grown, all, m
<1>9. Grown(queue, next, 0) = queue /\ Grown(queue, next, n) = all
  BY <1>4, <1>5, <1>8
<1>10. \A k \in 0..n : Grown(queue, next, k) \in Seq(S)
  BY <1>3, <1>8
<1>11. \A k \in 1..n : Grown(queue, next, k) = Append(Grown(queue, next, k - 1), next[k])
  BY <1>6, <1>8
<1>12. \A k \in 1..n : \A x \in ToSet(Grown(queue, next, k - 1)) :
            IsThere(queue, next, k, x)
  BY <1>7, <1>8 DEF IsThere, m
<1> QED BY <1>9, <1>10, <1>11, <1>12 DEF n, m, all

\* The next nodes are different, not executed and not in the queue.
Fresh(queue, next, executed) ==
    /\ \A k, l \in 1..Len(next) : next[k] = next[l] => k = l
    /\ \A k \in 1..Len(next) :
            next[k] \notin executed /\ \A i \in 1..Len(queue) : queue[i] # next[k]

\* A fresh node is not there yet when its turn to be pushed comes.
LEMMA FreshIsNew ==
    ASSUME NEW S, NEW queue \in Seq(S), NEW next \in Seq(S), NEW executed,
           Fresh(queue, next, executed), NEW k \in 1..Len(next)
    PROVE  next[k] \notin executed \union ToSet(Grown(queue, next, k - 1))
<1>1. Len(next) \in Nat
  BY LenProperties
<1>2. \A l \in 1..(k - 1) : l \in 1..Len(next) /\ l # k
  BY <1>1
<1>3. \A l \in 1..(k - 1) : next[l] # next[k]
  BY <1>2 DEF Fresh
<1>4. next[k] \notin executed /\ \A i \in 1..Len(queue) : queue[i] # next[k]
  BY DEF Fresh
<1>5. \A x \in ToSet(Grown(queue, next, k - 1)) :
            (\E i \in 1..Len(queue) : x = queue[i]) \/ (\E l \in 1..(k - 1) : x = next[l])
  <2>1. \A j \in 1..Len(next) : \A x \in ToSet(Grown(queue, next, j - 1)) :
            IsThere(queue, next, j, x)
    BY GrownFacts
  <2> QED BY <2>1 DEF IsThere
<1> QED BY <1>3, <1>4, <1>5

\* Then appendQueue appends all of them.
LEMMA AppendsAll ==
    ASSUME NEW S, NEW queue \in Seq(S), NEW next \in Seq(S), NEW executed,
           Fresh(queue, next, executed)
    PROVE  AppendNew(queue, next, executed) = queue \o next
<1> DEFINE n == Len(next)
           V == Seq(S)
           F == [k \in 1..n |-> [v \in V |->
                    IF next[k] \in executed \union ToSet(v) THEN v ELSE Append(v, next[k])]]
           f == [k \in 0..n |-> Grown(queue, next, k)]
           Pushed(g, k) == IF next[k] \in executed \union ToSet(g[k - 1]) THEN g[k - 1]
                           ELSE Append(g[k - 1], next[k])
           Defines(g) == g = [k \in 0..n |-> IF k = 0 THEN queue ELSE
                                IF next[k] \in executed \union ToSet(g[k - 1]) THEN g[k - 1]
                                ELSE Append(g[k - 1], next[k])]
<1>1. n \in Nat
  BY LenProperties
<1>2. 0 \in 0..n /\ n \in 0..n /\ \A k \in 1..n : k \in 0..n /\ k - 1 \in 0..n /\ k # 0
  BY <1>1
<1>3. /\ f \in [0..n -> V] /\ f[0] = queue /\ f[n] = queue \o next
      /\ \A k \in 1..n : f[k] = Append(f[k - 1], next[k])
                         /\ next[k] \notin executed \union ToSet(f[k - 1])
  <2> DEFINE G(k) == Grown(queue, next, k)
  <2>1. /\ G(0) = queue /\ G(n) = queue \o next /\ \A k \in 0..n : G(k) \in V
        /\ \A k \in 1..n : G(k) = Append(G(k - 1), next[k])
    BY GrownFacts
  <2>2. \A k \in 1..n : next[k] \notin executed \union ToSet(G(k - 1))
    BY FreshIsNew
  <2>3. \A k \in 0..n : f[k] = G(k)
    OBVIOUS
  <2>4. f \in [0..n -> V]
    BY <2>1
  <2> HIDE DEF G, f, n, V
  <2> QED BY <1>2, <2>1, <2>2, <2>3, <2>4
<1> HIDE DEF f
<1>4. ASSUME NEW k \in 1..n, NEW v \in V
      PROVE  F[k][v] = IF next[k] \in executed \union ToSet(v) THEN v ELSE Append(v, next[k])
  OBVIOUS
<1>5. IsRecursion(f, n, V, queue, F)
  <2>1. \A k \in 1..n : f[k] = F[k][f[k - 1]]
    <3> HIDE DEF F, n, V
    <3> QED BY <1>2, <1>3, <1>4
  <2> HIDE DEF F, n, V
  <2> QED BY <1>3, <2>1 DEF IsRecursion
<1>6. Defines(f)
  <2>1. \A k \in 0..n : k # 0 => k \in 1..n
    BY <1>1
  <2> HIDE DEF n, V
  <2>2. f = [k \in 0..n |-> f[k]]
    BY <1>3
  <2>3. \A k \in 0..n : f[k] = IF k = 0 THEN queue ELSE Pushed(f, k)
    BY <1>3, <2>1
  <2> HIDE DEF Pushed
  <2>4. f = [k \in 0..n |-> IF k = 0 THEN queue ELSE Pushed(f, k)]
    BY <2>2, <2>3
  <2> QED BY <2>4 DEF Pushed
<1>7. PICK all : all = CHOOSE g : Defines(g)
  OBVIOUS
<1>8. Defines(all)
  <2> HIDE DEF Defines
  <2> QED BY <1>6, <1>7
<1>9. AppendNew(queue, next, executed) = all[n]
  BY <1>7 DEF AppendNew
<1>10. StepsLike(all, n, V, queue, F)
  <2>1. all = [k \in 0..n |-> IF k = 0 THEN queue ELSE Pushed(all, k)]
    BY <1>8
  <2> HIDE DEF n, Pushed, F, V
  <2>2. \A k \in 0..n : all[k] = IF k = 0 THEN queue ELSE Pushed(all, k)
    BY <2>1
  <2>3. all = [k \in 0..n |-> all[k]]
    BY <2>1
  <2>4. all[0] = queue /\ \A k \in 1..n : all[k] = Pushed(all, k)
    BY <1>2, <2>2
  <2>5. \A k \in 1..n : all[k - 1] \in V => all[k] = F[k][all[k - 1]]
    BY <1>4, <2>4 DEF Pushed
  <2> QED BY <2>3, <2>4, <2>5 DEF StepsLike
<1>11. all = f
  <2> HIDE DEF n, F, V
  <2> QED BY <1>1, <1>5, <1>10, RecursionFollows
<1> QED BY <1>3, <1>9, <1>11

\* The loop of continueExecution, too, appends all of them, and its own record of
\* what is queued stays right.
LEMMA PushesAll ==
    ASSUME NEW S, NEW queue \in Seq(S), NEW next \in Seq(S), NEW executed,
           Fresh(queue, next, executed)
    PROVE  PushNext(queue, ToSet(queue), next, executed) =
                [queue |-> queue \o next, queued |-> ToSet(queue \o next)]
<1> DEFINE n == Len(next)
           V == [queue : Seq(S), queued : SUBSET S]
           One(k, v) == IF next[k] \in executed \union v.queued THEN v
                        ELSE [queue  |-> Append(v.queue, next[k]),
                              queued |-> v.queued \union {next[k]}]
           F == [k \in 1..n |-> [v \in V |-> One(k, v)]]
           G(k) == Grown(queue, next, k)
           P(k) == [queue |-> G(k), queued |-> ToSet(G(k))]
           f == [k \in 0..n |-> P(k)]
           b == [queue |-> queue, queued |-> ToSet(queue)]
           Defines(g) == g = [k \in 0..n |-> IF k = 0 THEN b ELSE
                                IF next[k] \in executed \union g[k - 1].queued THEN g[k - 1]
                                ELSE [queue  |-> Append(g[k - 1].queue, next[k]),
                                      queued |-> g[k - 1].queued \union {next[k]}]]
<1>1. n \in Nat
  BY LenProperties
<1>2. 0 \in 0..n /\ n \in 0..n /\ \A k \in 1..n : k \in 0..n /\ k - 1 \in 0..n /\ k # 0
  BY <1>1
<1>3. /\ G(0) = queue /\ G(n) = queue \o next /\ \A k \in 0..n : G(k) \in Seq(S)
      /\ \A k \in 1..n : G(k) = Append(G(k - 1), next[k])
  BY GrownFacts
<1>4. \A k \in 1..n : next[k] \notin executed \union ToSet(G(k - 1))
  BY FreshIsNew
<1>5. \A k \in 1..n : next[k] \in S
  BY ElementOfSeq
<1> HIDE DEF G
<1>6. ASSUME NEW s \in Seq(S), NEW x \in S
      PROVE  ToSet(Append(s, x)) = ToSet(s) \union {x} /\ ToSet(s) \subseteq S
  <2> DEFINE t == Append(s, x)
  <2>1. /\ Len(s) \in Nat /\ DOMAIN s = 1..Len(s) /\ DOMAIN t = 1..Len(t)
        /\ Len(t) = Len(s) + 1 /\ t[Len(s) + 1] = x /\ \A i \in 1..Len(s) : t[i] = s[i]
        /\ \A i \in 1..Len(s) : s[i] \in S
    BY AppendProperties, LenProperties, ElementOfSeq
  <2> HIDE DEF t
  <2>2. \A i : i \in 1..Len(t) <=> i \in 1..Len(s) \/ i = Len(s) + 1
    BY <2>1
  <2>3. ToSet(t) = ToSet(s) \union {x}
    BY <2>1, <2>2 DEF ToSet
  <2>4. ToSet(s) \subseteq S
    BY <2>1 DEF ToSet
  <2> QED BY <2>3, <2>4 DEF t
<1>7. ASSUME NEW k \in 1..n
      PROVE  P(k) = One(k, P(k - 1))
  <2>1. G(k - 1) \in Seq(S) /\ next[k] \in S /\ G(k) = Append(G(k - 1), next[k])
    BY <1>2, <1>3, <1>5
  <2>2. ToSet(G(k)) = ToSet(G(k - 1)) \union {next[k]}
    BY <1>6, <2>1
  <2>3. next[k] \notin executed \union P(k - 1).queued
    BY <1>4
  <2> QED BY <2>1, <2>2, <2>3
<1>8. ASSUME NEW k \in 0..n
      PROVE  P(k) \in V
  <2>1. G(k) \in Seq(S)
    BY <1>3
  <2>2. ToSet(G(k)) \subseteq S
    BY <2>1, ElementOfSeq, LenProperties DEF ToSet
  <2> QED BY <2>1, <2>2
<1>9. P(0) = b /\ P(n) = [queue |-> queue \o next, queued |-> ToSet(queue \o next)]
  BY <1>3
<1> HIDE DEF P, V
<1>10. /\ f \in [0..n -> V] /\ f[0] = b /\ f[n] = P(n) /\ f = [k \in 0..n |-> f[k]]
       /\ \A k \in 1..n : f[k] = One(k, f[k - 1])
  <2>1. f \in [0..n -> V]
    BY <1>8
  <2>2. \A k \in 0..n : f[k] = P(k)
    OBVIOUS
  <2>3. f = [k \in 0..n |-> f[k]]
    OBVIOUS
  <2> HIDE DEF f, One, n
  <2> QED BY <1>2, <1>7, <1>9, <2>1, <2>2, <2>3
<1> HIDE DEF f
<1>11. ASSUME NEW k \in 1..n, NEW v \in V
       PROVE  F[k][v] = One(k, v)
  <2> HIDE DEF One
  <2> QED OBVIOUS
<1>12. IsRecursion(f, n, V, b, F)
  <2>1. \A k \in 1..n : f[k] = F[k][f[k - 1]]
    <3> HIDE DEF F, n, One
    <3> QED BY <1>2, <1>10, <1>11
  <2> HIDE DEF F, n, b
  <2> QED BY <1>10, <2>1 DEF IsRecursion
<1>13. Defines(f)
  <2>1. \A k \in 0..n : k # 0 => k \in 1..n
    BY <1>1
  <2> HIDE DEF n, b, One
  <2>2. \A k \in 0..n : f[k] = IF k = 0 THEN b ELSE One(k, f[k - 1])
    BY <1>10, <2>1
  <2>3. f = [k \in 0..n |-> IF k = 0 THEN b ELSE One(k, f[k - 1])]
    BY <1>10, <2>2
  <2> QED BY <2>3 DEF One
<1>14. PICK all : all = CHOOSE g : Defines(g)
  OBVIOUS
<1>15. Defines(all)
  <2> HIDE DEF Defines
  <2> QED BY <1>13, <1>14
<1>16. PushNext(queue, ToSet(queue), next, executed) = all[n]
  BY <1>14 DEF PushNext
<1>17. StepsLike(all, n, V, b, F)
  <2>1. all = [k \in 0..n |-> IF k = 0 THEN b ELSE One(k, all[k - 1])]
    BY <1>15
  <2> HIDE DEF n, One, F, b
  <2>2. \A k \in 0..n : all[k] = IF k = 0 THEN b ELSE One(k, all[k - 1])
    BY <2>1
  <2>3. all = [k \in 0..n |-> all[k]]
    BY <2>1
  <2>4. all[0] = b /\ \A k \in 1..n : all[k] = One(k, all[k - 1])
    BY <1>2, <2>2
  <2>5. \A k \in 1..n : all[k - 1] \in V => all[k] = F[k][all[k - 1]]
    BY <1>11, <2>4
  <2> QED BY <2>3, <2>4, <2>5 DEF StepsLike
<1>18. all = f
  <2> HIDE DEF n, F, b
  <2> QED BY <1>1, <1>12, <1>17, RecursionFollows
<1> QED BY <1>9, <1>10, <1>16, <1>18

-----------------------------------------------------------------------------
(* Accepted definitions. *)

\* A definition lists nodes and edges that name ids.
LEMMA DefinitionTyped ==
    ASSUME NEW d, IsDefinition(d)
    PROVE  /\ Len(d.nodes) \in Nat /\ DOMAIN d.nodes = 1..Len(d.nodes)
           /\ \A i \in 1..Len(d.nodes) : d.nodes[i].id \in RawIds
           /\ Len(d.edges) \in Nat /\ DOMAIN d.edges = 1..Len(d.edges)
           /\ \A i \in 1..Len(d.edges) : d.edges[i].from \in RawIds /\ d.edges[i].to \in RawIds
<1>1. /\ d.nodes \in Seq([id : RawIds, type : Types])
      /\ d.edges \in Seq([from : RawIds, to : RawIds, label : Labels])
  BY DEF IsDefinition
<1>2. \A i \in 1..Len(d.nodes) : d.nodes[i] \in [id : RawIds, type : Types]
  BY <1>1, ElementOfSeq
<1>3. \A i \in 1..Len(d.edges) : d.edges[i] \in [from : RawIds, to : RawIds, label : Labels]
  BY <1>1, ElementOfSeq
<1> QED BY <1>1, <1>2, <1>3, LenProperties

\* At most one edge leads to a node.
LEMMA OneEdge ==
    ASSUME NEW d, IsDefinition(d), Valid(d), NEW k \in DOMAIN d.edges, NEW l \in DOMAIN d.edges,
           d.edges[k].to = d.edges[l].to
    PROVE  k = l
<1> DEFINE id == Trimmed[d.edges[k].to]
           into == {i \in DOMAIN d.edges : Trimmed[d.edges[i].to] = id}
<1>1. id \in Ids(d)
  BY DEF Valid, EdgesAreValid, Edges
<1>2. Cardinality(into) <= 1
  BY <1>1 DEF Valid, Incoming
<1>3. IsFiniteSet(DOMAIN d.edges)
  BY DefinitionTyped, FS_Interval
<1>4. IsFiniteSet(into)
  BY <1>3, FS_Subset
<1>5. {k, l} \subseteq into
  OBVIOUS
<1>6. Cardinality({k, l}) <= Cardinality(into) /\ Cardinality(into) \in Nat
  BY <1>4, <1>5, FS_Subset, FS_CardinalityType
<1>7. ASSUME k # l
      PROVE  Cardinality({k, l}) = 2
  <2>1. IsFiniteSet({k}) /\ Cardinality({k}) = 1
    BY FS_Singleton
  <2>2. l \notin {k}
    BY <1>7
  <2>3. Cardinality({k} \union {l}) = Cardinality({k}) + 1
    BY <2>1, <2>2, FS_AddElement
  <2>4. {k, l} = {k} \union {l}
    OBVIOUS
  <2> QED BY <2>1, <2>3, <2>4
<1> QED BY <1>2, <1>6, <1>7

\* The nodes behind a node are different, and an edge leads from it to each.
LEMMA NextFacts ==
    ASSUME NEW d, IsDefinition(d), NEW node, NEW output
    PROVE  LET next == NextNodes(d, node, output) IN
           /\ next \in Seq(RawIds)
           /\ \A i \in 1..Len(next) : \E k \in DOMAIN d.edges :
                    d.edges[k].from = node.id /\ d.edges[k].to = next[i]
           /\ Valid(d) => \A i, j \in 1..Len(next) : next[i] = next[j] => i = j
<1> DEFINE list == [i \in DOMAIN d.edges |-> d.edges[i].to]
           at == {i \in DOMAIN d.edges : /\ d.edges[i].from = node.id
                                         /\ node.type = "condition" => d.edges[i].label = output}
           next == NextNodes(d, node, output)
<1>1. next = Picked(list, at)
  BY DEF NextNodes
<1>2. list \in Seq(RawIds) /\ Len(list) = Len(d.edges)
  <2>1. list \in [1..Len(d.edges) -> RawIds] /\ Len(d.edges) \in Nat
    BY DefinitionTyped
  <2> HIDE DEF list
  <2>2. list \in Seq(RawIds)
    BY <2>1, SeqDef
  <2> QED BY <2>1, <2>2, LenProperties
<1>3. DOMAIN d.edges = 1..Len(d.edges)
  BY DefinitionTyped
<1>4. at \in SUBSET (1..Len(list))
  BY <1>2, <1>3
<1>5. \A k \in at : k \in DOMAIN d.edges /\ d.edges[k].from = node.id /\ d.edges[k].to = list[k]
  OBVIOUS
<1> HIDE DEF at, list, next
<1>6. /\ next \in Seq(RawIds)
      /\ \A i \in 1..Len(next) : \E k \in at : next[i] = list[k]
      /\ (\A k, l \in at : list[k] = list[l] => k = l) =>
            \A i, j \in 1..Len(next) : next[i] = next[j] => i = j
  BY <1>1, <1>2, <1>4, PickedFacts
<1>7. \A i \in 1..Len(next) : \E k \in DOMAIN d.edges :
            d.edges[k].from = node.id /\ d.edges[k].to = next[i]
  BY <1>5, <1>6
<1>8. ASSUME Valid(d), NEW k \in at, NEW l \in at, list[k] = list[l]
      PROVE  k = l
  BY <1>5, <1>8, OneEdge
<1> QED BY <1>6, <1>7, <1>8 DEF next

\* Only a condition looks at the output.
LEMMA SameNext ==
    ASSUME NEW d, NEW node, node.type # "condition", NEW output, NEW other
    PROVE  NextNodes(d, node, output) = NextNodes(d, node, other)
  BY DEF NextNodes

\* The roots are different, no edge leads to them, and an accepted definition has some.
LEMMA RootFacts ==
    ASSUME NEW d, IsDefinition(d), Valid(d)
    PROVE  LET roots == Roots(d) IN
           /\ roots \in Seq(RawIds)
           /\ \A i \in 1..Len(roots) : \A k \in DOMAIN d.edges : d.edges[k].to # roots[i]
           /\ \A i, j \in 1..Len(roots) : roots[i] = roots[j] => i = j
           /\ roots # <<>>
<1> DEFINE list == [i \in DOMAIN d.nodes |-> d.nodes[i].id]
           at == {i \in DOMAIN d.nodes : IsRoot(d, d.nodes[i])}
           roots == Roots(d)
<1>1. roots = Picked(list, at)
  BY DEF Roots
<1>2. list \in Seq(RawIds) /\ Len(list) = Len(d.nodes)
  <2>1. list \in [1..Len(d.nodes) -> RawIds] /\ Len(d.nodes) \in Nat
    BY DefinitionTyped
  <2> HIDE DEF list
  <2>2. list \in Seq(RawIds)
    BY <2>1, SeqDef
  <2> QED BY <2>1, <2>2, LenProperties
<1>3. DOMAIN d.nodes = 1..Len(d.nodes)
  BY DefinitionTyped
<1>4. at \in SUBSET (1..Len(list))
  BY <1>2, <1>3
<1>5. \A k \in at : k \in DOMAIN d.nodes /\ IsRoot(d, d.nodes[k]) /\ d.nodes[k].id = list[k]
  OBVIOUS
<1>6. at # {}
  <2>1. d.edges \in Seq([from : RawIds, to : RawIds, label : Labels])
    BY DEF IsDefinition
  <2>2. PICK node \in Nodes(d) : IsRoot(d, node)
    BY <2>1, AcceptedHasRoot
  <2> QED BY <2>2 DEF Nodes
<1> HIDE DEF at, list, roots
<1>7. /\ roots \in Seq(RawIds) /\ roots # <<>>
      /\ \A i \in 1..Len(roots) : \E k \in at : roots[i] = list[k]
      /\ (\A k, l \in at : list[k] = list[l] => k = l) =>
            \A i, j \in 1..Len(roots) : roots[i] = roots[j] => i = j
  <2> DEFINE picked == Picked(list, at)
  <2>1. list \in Seq(RawIds)
    BY <1>2
  <2>2. /\ picked \in Seq(RawIds)
        /\ \A i \in 1..Len(picked) : \E k \in at : picked[i] = list[k]
        /\ (\A k, l \in at : list[k] = list[l] => k = l) =>
              \A i, j \in 1..Len(picked) : picked[i] = picked[j] => i = j
        /\ at # {} => picked # <<>>
    BY ONLY <1>4, <2>1, PickedFacts
  <2> HIDE DEF picked
  <2>3. roots = picked
    BY <1>1 DEF picked
  <2> QED BY <1>6, <2>2, <2>3
<1>8. \A i \in 1..Len(roots) : \A k \in DOMAIN d.edges : d.edges[k].to # roots[i]
  BY <1>5, <1>7 DEF IsRoot, Edges
<1>9. \A k, l \in at : list[k] = list[l] => k = l
  BY <1>5 DEF Valid, NodesAreValid
<1> QED BY <1>7, <1>8, <1>9 DEF roots

\* A node that the definition names is found by its id.
LEMMA NodeFound ==
    ASSUME NEW d, NEW id, NodeOf(d, id).type # "zero"
    PROVE  NodeOf(d, id).id = id
<1>1. CASE id \in RawNodes(d)
  <2>1. \E node \in Nodes(d) : node.id = id
    BY <1>1 DEF RawNodes
  <2> QED BY <1>1, <2>1 DEF NodeOf
<1>2. CASE id \notin RawNodes(d)
  BY <1>2 DEF NodeOf
<1> QED BY <1>1, <1>2

-----------------------------------------------------------------------------
(* The walk. *)

\* What a step leaves ahead of the walk.
Ahead(d, v, step) ==
    SubSeq(v, 2, Len(v)) \o NextNodes(d, NodeOf(d, step.node), step.output)

Walkers(d, steps) ==
    [k \in 1..Len(steps) |-> [v \in Seq(RawIds) |-> Ahead(d, v, steps[k])]]

\* What lies ahead of a walk is a list of ids.
LEMMA AheadTyped ==
    ASSUME NEW d, IsDefinition(d), NEW v \in Seq(RawIds), NEW step
    PROVE  Ahead(d, v, step) \in Seq(RawIds)
<1> DEFINE next == NextNodes(d, NodeOf(d, step.node), step.output)
<1>1. next \in Seq(RawIds)
  BY NextFacts
<1>2. Len(v) \in Nat
  BY LenProperties
<1>3. \A i \in 2..Len(v) : i \in 1..Len(v)
  BY <1>2
<1>4. \A i \in 2..Len(v) : v[i] \in RawIds
  BY <1>3, ElementOfSeq
<1>5. 2 \in Int /\ Len(v) \in Int
  BY <1>2
<1>6. SubSeq(v, 2, Len(v)) \in Seq(RawIds)
  BY <1>4, <1>5, SubSeqProperties
<1> HIDE DEF next
<1> QED BY <1>1, <1>6, ConcatProperties DEF Ahead, next

\* Frontiers is the recursion that its definition says it is.
LEMMA FrontiersRecursion ==
    ASSUME NEW d, IsDefinition(d), NEW steps, Len(steps) \in Nat, Roots(d) \in Seq(RawIds)
    PROVE  IsRecursion(Frontiers(d, steps), Len(steps), Seq(RawIds), Roots(d), Walkers(d, steps))
<1> DEFINE n == Len(steps)
           V == Seq(RawIds)
           b == Roots(d)
           F == Walkers(d, steps)
           Defines(g) == g = [k \in 0..n |-> IF k = 0 THEN b ELSE
                            SubSeq(g[k - 1], 2, Len(g[k - 1])) \o
                                NextNodes(d, NodeOf(d, steps[k].node), steps[k].output)]
<1>1. AreSteps(F, n, V)
  BY AheadTyped DEF AreSteps, Walkers
<1>2. PICK f : IsRecursion(f, n, V, b, F)
  <2> HIDE DEF F, n, b, V
  <2>1. n \in Nat /\ b \in V
    BY DEF n, b, V
  <2> QED BY <1>1, <2>1, RecursionDefines
<1>3. f \in [0..n -> V] /\ f[0] = b /\ \A k \in 1..n : f[k] = F[k][f[k - 1]]
  BY <1>2 DEF IsRecursion
<1>4. 0 \in 0..n /\ \A k \in 1..n : k \in 0..n /\ k # 0 /\ k - 1 \in 0..n
  OBVIOUS
<1>5. ASSUME NEW k \in 1..n, NEW v \in V
      PROVE  F[k][v] = Ahead(d, v, steps[k])
  BY DEF Walkers
<1>6. Defines(f)
  <2>1. \A k \in 0..n : k # 0 => k \in 1..n
    OBVIOUS
  <2> HIDE DEF n, b, F, V
  <2>2. \A k \in 0..n : f[k] = IF k = 0 THEN b ELSE Ahead(d, f[k - 1], steps[k])
    BY <1>3, <1>4, <1>5, <2>1
  <2>3. f = [k \in 0..n |-> f[k]]
    BY <1>3
  <2>4. f = [k \in 0..n |-> IF k = 0 THEN b ELSE Ahead(d, f[k - 1], steps[k])]
    BY <2>2, <2>3
  <2> QED BY <2>4 DEF Ahead
<1>7. PICK all : all = CHOOSE g : Defines(g)
  OBVIOUS
<1>8. Defines(all)
  <2> HIDE DEF Defines
  <2> QED BY <1>6, <1>7
<1>9. Frontiers(d, steps) = all
  BY <1>7 DEF Frontiers
<1>10. StepsLike(all, n, V, b, F)
  <2>1. all = [k \in 0..n |-> IF k = 0 THEN b ELSE Ahead(d, all[k - 1], steps[k])]
    BY <1>8 DEF Ahead
  <2> HIDE DEF n, F, b, V
  <2>2. \A k \in 0..n : all[k] = IF k = 0 THEN b ELSE Ahead(d, all[k - 1], steps[k])
    BY <2>1
  <2>3. all = [k \in 0..n |-> all[k]]
    BY <2>1
  <2>4. all[0] = b /\ \A k \in 1..n : all[k] = Ahead(d, all[k - 1], steps[k])
    BY <1>4, <2>2
  <2>5. \A k \in 1..n : all[k - 1] \in V => all[k] = F[k][all[k - 1]]
    BY <1>5, <2>4
  <2> QED BY <2>3, <2>4, <2>5 DEF StepsLike
<1>11. all = f
  <2> HIDE DEF n, F, b, V
  <2>1. n \in Nat
    BY DEF n
  <2> QED BY <1>2, <1>10, <2>1, RecursionFollows
<1> QED BY <1>2, <1>9, <1>11

\* The steps are a walk that has the queue ahead.
Walks(d, steps, queue) == IsWalk(d, steps) /\ queue = Frontier(d, steps)

\* The walk of no steps has the roots ahead.
LEMMA WalkStarts ==
    ASSUME NEW d, IsDefinition(d), Roots(d) \in Seq(RawIds)
    PROVE  Walks(d, <<>>, Roots(d))
<1>1. Len(<<>>) = 0
  OBVIOUS
<1>2. IsRecursion(Frontiers(d, <<>>), 0, Seq(RawIds), Roots(d), Walkers(d, <<>>))
  BY <1>1, FrontiersRecursion
<1>3. Frontiers(d, <<>>)[0] = Roots(d)
  BY <1>2 DEF IsRecursion
<1> QED BY <1>1, <1>3 DEF Walks, IsWalk, Frontier

\* The walk so far only depends on the steps so far, and of a decision only on the
\* nodes that it leads to.
SameWay(d, one, other) ==
    /\ one.node = other.node
    /\ NextNodes(d, NodeOf(d, one.node), one.output)
            = NextNodes(d, NodeOf(d, one.node), other.output)

\* What lies ahead is alike as far as the steps lead the same way.
LEMMA FrontiersAgree ==
    ASSUME NEW d, IsDefinition(d), Roots(d) \in Seq(RawIds),
           NEW s, NEW t, Len(s) \in Nat, Len(t) \in Nat, Len(s) <= Len(t),
           \A k \in 1..Len(s) : SameWay(d, s[k], t[k])
    PROVE  \A k \in 0..Len(s) : /\ Frontiers(d, t)[k] = Frontiers(d, s)[k]
                                /\ Frontiers(d, s)[k] \in Seq(RawIds)
<1>1. /\ IsRecursion(Frontiers(d, s), Len(s), Seq(RawIds), Roots(d), Walkers(d, s))
      /\ IsRecursion(Frontiers(d, t), Len(t), Seq(RawIds), Roots(d), Walkers(d, t))
  BY FrontiersRecursion
<1>2. ASSUME NEW k \in 1..Len(s)
      PROVE  Walkers(d, s)[k] = Walkers(d, t)[k]
  <2>1. k \in 1..Len(t)
    OBVIOUS
  <2>2. \A v : Ahead(d, v, s[k]) = Ahead(d, v, t[k])
    BY DEF Ahead, SameWay
  <2>3. Walkers(d, s)[k] = [v \in Seq(RawIds) |-> Ahead(d, v, s[k])]
    BY DEF Walkers
  <2>4. Walkers(d, t)[k] = [v \in Seq(RawIds) |-> Ahead(d, v, t[k])]
    BY <2>1 DEF Walkers
  <2> QED BY <2>2, <2>3, <2>4
<1> DEFINE V == Seq(RawIds)
           b == Roots(d)
           f == Frontiers(d, s)
           g == Frontiers(d, t)
           F == Walkers(d, s)
           G == Walkers(d, t)
           n == Len(s)
           m == Len(t)
<1>3. /\ n \in Nat /\ m \in Nat /\ n <= m
      /\ IsRecursion(f, n, V, b, F) /\ IsRecursion(g, m, V, b, G)
      /\ \A k \in 1..n : F[k] = G[k]
  BY <1>1, <1>2
<1> HIDE DEF V, b, f, g, F, G, n, m
<1>4. \A k \in 0..n : g[k] = f[k] /\ f[k] \in V
  BY <1>3, RecursionsAgree
<1> QED BY <1>4 DEF V, f, g, n

\* Steps that lead the same way are the same walk.
LEMMA WalksAlike ==
    ASSUME NEW d, IsDefinition(d), Roots(d) \in Seq(RawIds),
           NEW s, NEW t, NEW queue, Len(s) \in Nat, Len(t) = Len(s),
           \A k \in 1..Len(s) : SameWay(d, s[k], t[k]), Walks(d, s, queue)
    PROVE  Walks(d, t, queue)
<1>1. \A k \in 0..Len(s) : Frontiers(d, t)[k] = Frontiers(d, s)[k]
  BY FrontiersAgree
<1>2. Len(s) \in 0..Len(s) /\ \A k \in 1..Len(s) : k - 1 \in 0..Len(s)
  OBVIOUS
<1>3. \A k \in 1..Len(s) : t[k].node = s[k].node
  BY DEF SameWay
<1> QED BY <1>1, <1>2, <1>3 DEF Walks, IsWalk, Frontier

\* One more step, taken with what is first in the queue.
LEMMA WalkGoesOn ==
    ASSUME NEW d, IsDefinition(d), Roots(d) \in Seq(RawIds),
           NEW s, NEW t, NEW queue, queue # <<>>, Len(s) \in Nat, Len(t) = Len(s) + 1,
           \A k \in 1..Len(s) : t[k] = s[k], Walks(d, s, queue),
           t[Len(s) + 1].node = NodeOf(d, Head(queue)).id
    PROVE  /\ queue \in Seq(RawIds)
           /\ Walks(d, t, Tail(queue) \o NextNodes(d,
                    NodeOf(d, t[Len(s) + 1].node), t[Len(s) + 1].output))
<1> DEFINE n == Len(s)
           x == t[n + 1]
<1>1. \A k \in 1..n : SameWay(d, s[k], t[k])
  BY DEF SameWay
<1>2. Len(t) \in Nat /\ n <= Len(t) /\ n + 1 \in 1..Len(t)
  OBVIOUS
<1>3. \A k \in 0..n : Frontiers(d, t)[k] = Frontiers(d, s)[k] /\ Frontiers(d, s)[k] \in Seq(RawIds)
  BY <1>1, <1>2, FrontiersAgree
<1>4. n \in 0..n /\ \A k \in 1..n : k - 1 \in 0..n
  OBVIOUS
<1>5. queue = Frontiers(d, s)[n] /\ queue \in Seq(RawIds) /\ Frontiers(d, t)[n] = queue
  BY <1>3, <1>4 DEF Walks, Frontier
<1>6. IsWalk(d, t)
  <2>1. ASSUME NEW k \in 1..n
        PROVE  /\ Frontiers(d, t)[k - 1] # <<>>
               /\ t[k].node = NodeOf(d, Head(Frontiers(d, t)[k - 1])).id
    <3>1. Frontiers(d, t)[k - 1] = Frontiers(d, s)[k - 1] /\ t[k] = s[k]
      BY <1>3, <1>4
    <3>2. /\ Frontiers(d, s)[k - 1] # <<>>
          /\ s[k].node = NodeOf(d, Head(Frontiers(d, s)[k - 1])).id
      BY DEF Walks, IsWalk
    <3> QED BY <3>1, <3>2
  <2>2. (n + 1) - 1 = n /\ \A k \in 1..Len(t) : k \in 1..n \/ k = n + 1
    OBVIOUS
  <2>3. Frontiers(d, t)[(n + 1) - 1] # <<>> /\ t[n + 1].node = NodeOf(d, Head(Frontiers(d, t)[(n + 1) - 1])).id
    BY <1>5, <2>2
  <2> QED BY <2>1, <2>2, <2>3 DEF IsWalk
<1>7. IsRecursion(Frontiers(d, t), Len(t), Seq(RawIds), Roots(d), Walkers(d, t))
  BY <1>2, FrontiersRecursion
<1>8. Frontiers(d, t)[n + 1] = Walkers(d, t)[n + 1][Frontiers(d, t)[(n + 1) - 1]] /\ (n + 1) - 1 = n
  BY <1>2, <1>7 DEF IsRecursion
<1>9. Walkers(d, t)[n + 1] = [v \in Seq(RawIds) |-> Ahead(d, v, x)]
  BY <1>2 DEF Walkers
<1>10. Frontiers(d, t)[n + 1] = Ahead(d, queue, x)
  BY <1>5, <1>8, <1>9
<1>11. SubSeq(queue, 2, Len(queue)) = Tail(queue)
  BY <1>5, TailIsSubSeq
<1> QED BY <1>5, <1>6, <1>10, <1>11 DEF Walks, Frontier, Ahead

-----------------------------------------------------------------------------
(* What lies ahead of an execution. *)

\* No edge leads to x, or one from an executed node does.
Reached(d, x, executed) ==
    \/ \A k \in DOMAIN d.edges : d.edges[k].to # x
    \/ \E k \in DOMAIN d.edges : d.edges[k].to = x /\ d.edges[k].from \in executed

\* What is queued is queued once, not executed, and not ahead of its own turn.
QueueFits(d, queue, executed) ==
    /\ queue \in Seq(RawIds)
    /\ \A i, j \in 1..Len(queue) : queue[i] = queue[j] => i = j
    /\ \A i \in 1..Len(queue) : queue[i] \notin executed /\ Reached(d, queue[i], executed)
    /\ \A x \in executed : Reached(d, x, executed)

\* The roots fit an execution that starts.
LEMMA RootsFit ==
    ASSUME NEW d, IsDefinition(d), Valid(d)
    PROVE  QueueFits(d, Roots(d), {})
  BY RootFacts DEF QueueFits, Reached

\* As at most one edge leads to a node, the nodes behind the one whose turn it is were
\* neither queued nor executed before: the traversal never leaves one of them out.
LEMMA NextIsFresh ==
    ASSUME NEW d, IsDefinition(d), Valid(d), NEW queue, queue # <<>>, NEW executed,
           QueueFits(d, queue, executed), NEW node, node.id = Head(queue), NEW output
    PROVE  LET next == NextNodes(d, node, output)
               after == executed \union {node.id}
           IN  /\ next \in Seq(RawIds) /\ Tail(queue) \in Seq(RawIds)
               /\ Fresh(Tail(queue), next, executed) /\ Fresh(Tail(queue), next, after)
               /\ QueueFits(d, Tail(queue) \o next, after)
               /\ ToSet(queue) \ {Head(queue)} = ToSet(Tail(queue))
<1> DEFINE next == NextNodes(d, node, output)
           after == executed \union {node.id}
           rest == Tail(queue)
           all == rest \o next
           m == Len(rest)
           n == Len(next)
<1>1. /\ next \in Seq(RawIds)
      /\ \A i \in 1..n : \E k \in DOMAIN d.edges :
            d.edges[k].from = node.id /\ d.edges[k].to = next[i]
      /\ \A i, j \in 1..n : next[i] = next[j] => i = j
  BY NextFacts
<1>2. /\ queue \in Seq(RawIds) /\ Len(queue) \in Nat /\ Head(queue) = queue[1]
      /\ rest \in Seq(RawIds) /\ m = Len(queue) - 1 /\ m \in Nat
      /\ \A i \in 1..m : rest[i] = queue[i + 1]
  BY HeadTailProperties, LenProperties DEF QueueFits
<1>3. /\ 1 \in 1..Len(queue) /\ \A i \in 1..m : i + 1 \in 1..Len(queue)
      /\ \A i \in 1..Len(queue) : i = 1 \/ i - 1 \in 1..m
  BY <1>2
<1>4. n \in Nat /\ DOMAIN next = 1..n /\ DOMAIN rest = 1..m /\ DOMAIN queue = 1..Len(queue)
  BY <1>1, <1>2, LenProperties
<1>5. /\ all \in Seq(RawIds) /\ Len(all) = m + n
      /\ \A i \in 1..(m + n) : all[i] = IF i <= m THEN rest[i] ELSE next[i - m]
  BY <1>1, <1>2, ConcatProperties
<1> HIDE DEF all, rest, next, m, n
<1>6. node.id \notin executed /\ Reached(d, node.id, executed)
  BY <1>2, <1>3 DEF QueueFits
<1>7. ASSUME NEW i \in 1..m
      PROVE  /\ rest[i] # node.id /\ rest[i] \notin executed /\ Reached(d, rest[i], executed)
             /\ \A j \in 1..m : rest[i] = rest[j] => i = j
  <2>1. i + 1 \in 1..Len(queue) /\ i + 1 # 1 /\ rest[i] = queue[i + 1]
    BY <1>2, <1>3
  <2>2. ASSUME NEW j \in 1..m, rest[i] = rest[j]
        PROVE  i = j
    <3>1. j + 1 \in 1..Len(queue) /\ queue[i + 1] = queue[j + 1]
      BY <1>2, <1>3, <2>1, <2>2
    <3>2. i + 1 = j + 1
      BY <2>1, <3>1 DEF QueueFits
    <3> QED BY <1>2, <3>2
  <2>3. rest[i] # queue[1]
    BY <1>3, <2>1 DEF QueueFits
  <2> QED BY <1>2, <2>1, <2>2, <2>3 DEF QueueFits
<1>8. ASSUME NEW i \in 1..n
      PROVE  /\ next[i] # node.id /\ ~Reached(d, next[i], executed)
             /\ Reached(d, next[i], after)
  <2>1. PICK k \in DOMAIN d.edges : d.edges[k].from = node.id /\ d.edges[k].to = next[i]
    BY <1>1
  <2>2. Trimmed[d.edges[k].from] # Trimmed[d.edges[k].to]
    BY DEF Valid, EdgesAreValid, Edges
  <2>3. ASSUME NEW l \in DOMAIN d.edges, d.edges[l].to = next[i], d.edges[l].from \in executed
        PROVE  FALSE
    <3>1. l = k
      BY <2>1, <2>3, OneEdge
    <3> QED BY <1>6, <2>1, <2>3, <3>1
  <2>4. ~Reached(d, next[i], executed)
    BY <2>1, <2>3 DEF Reached
  <2> QED BY <2>1, <2>2, <2>4 DEF Reached
<1>9. \A x : Reached(d, x, executed) => Reached(d, x, after)
  BY DEF Reached
<1>10. \A i \in 1..n : next[i] \notin executed /\ next[i] \notin after
  BY <1>8 DEF QueueFits
<1>11. \A i \in 1..n : \A j \in 1..m : rest[j] # next[i]
  BY <1>7, <1>8
<1>12. Fresh(rest, next, executed) /\ Fresh(rest, next, after)
  BY <1>1, <1>10, <1>11 DEF Fresh, n, m
<1>13. ASSUME NEW i \in 1..(m + n)
       PROVE  \/ i \in 1..m /\ all[i] = rest[i]
              \/ i - m \in 1..n /\ ~(i <= m) /\ all[i] = next[i - m]
  BY <1>2, <1>4, <1>5
<1>14. QueueFits(d, all, after)
  <2>1. ASSUME NEW i \in 1..(m + n), NEW j \in 1..(m + n), all[i] = all[j]
        PROVE  i = j
    <3>1. CASE i \in 1..m /\ all[i] = rest[i]
      <4>1. CASE j \in 1..m /\ all[j] = rest[j]
        <5>1. rest[i] = rest[j]
          BY <2>1, <3>1, <4>1
        <5> QED BY <1>7, <3>1, <4>1, <5>1
      <4>2. CASE j - m \in 1..n /\ all[j] = next[j - m]
        BY <1>11, <2>1, <3>1, <4>2
      <4> QED BY <1>13, <4>1, <4>2
    <3>2. CASE i - m \in 1..n /\ ~(i <= m) /\ all[i] = next[i - m]
      <4>1. ~(j \in 1..m /\ all[j] = rest[j])
        BY <1>11, <2>1, <3>2
      <4>2. j - m \in 1..n /\ all[j] = next[j - m]
        BY <1>13, <4>1
      <4>3. i - m = j - m
        BY <1>1, <2>1, <3>2, <4>2
      <4> QED BY <1>2, <1>4, <4>3
    <3> QED BY <1>13, <3>1, <3>2
  <2>2. ASSUME NEW i \in 1..(m + n)
        PROVE  all[i] \notin after /\ Reached(d, all[i], after)
    BY <1>7, <1>8, <1>9, <1>10, <1>13
  <2>3. \A x \in after : Reached(d, x, after)
    BY <1>6, <1>9 DEF QueueFits
  <2> QED BY <1>5, <2>1, <2>2, <2>3 DEF QueueFits
<1>15. ToSet(queue) \ {Head(queue)} = ToSet(rest)
  <2>1. ASSUME NEW x \in ToSet(rest)
        PROVE  x \in ToSet(queue) /\ x # Head(queue)
    <3>1. PICK i \in 1..m : x = rest[i]
      BY <1>4 DEF ToSet
    <3>2. i + 1 \in 1..Len(queue) /\ x = queue[i + 1]
      BY <1>2, <1>3, <3>1
    <3> QED BY <1>4, <1>7, <3>1, <3>2 DEF ToSet
  <2>2. ASSUME NEW x \in ToSet(queue), x # Head(queue)
        PROVE  x \in ToSet(rest)
    <3>1. PICK i \in 1..Len(queue) : x = queue[i]
      BY <1>4 DEF ToSet
    <3>2. i - 1 \in 1..m
      BY <1>2, <1>3, <2>2, <3>1
    <3>3. x = rest[i - 1]
      <4>1. rest[i - 1] = queue[(i - 1) + 1] /\ (i - 1) + 1 = i
        BY <1>2, <3>2
      <4> QED BY <3>1, <4>1
    <3> QED BY <1>4, <3>2, <3>3 DEF ToSet
  <2> QED BY <2>1, <2>2
<1> QED BY <1>1, <1>2, <1>12, <1>14, <1>15 DEF next, rest, all

\* The definition is an accepted one, the steps are a walk of it and the queue is what
\* that walk has ahead: in memory, in what a pause stores, and at the end.
WalkFits ==
    /\ workflow # None => IsDefinition(workflow) /\ Valid(workflow)
    /\ status # "absent" => workflow # None
    /\ exec # None =>
        /\ Walks(workflow, exec.steps, exec.queue)
        /\ QueueFits(workflow, exec.queue, exec.executed)
        /\ exec.queued = ToSet(exec.queue)
    /\ pending # None =>
        /\ Walks(workflow, saved, pending.queue)
        /\ QueueFits(workflow, pending.queue, pending.executed \union {pending.node})
        /\ NodeOf(workflow, pending.node).type = "approval"
    /\ status = "completed" => Walks(workflow, saved, <<>>)

\* Nothing is stored and nothing runs.
LEMMA WalkInit == Init => WalkFits
  BY DEF Init, WalkFits

\* Steps that at most end the execution.
LEMMA WalkUnchanged ==
    ASSUME WalkFits, workflow' = workflow, status' = status, saved' = saved,
           pending' = pending, exec' = exec \/ exec' = None
    PROVE  WalkFits'
  BY DEF WalkFits

\* There is nothing of a run yet when its workflow is created.
LEMMA WalkCreate ==
    ASSUME EngineInv, WalkFits, CreateWorkflow
    PROVE  WalkFits'
<1>1. /\ workflow = None /\ status' = status /\ pending' = pending /\ exec' = exec
      /\ workflow' \in Definitions /\ Valid(workflow')
  BY DEF CreateWorkflow
<1>2. status = "absent"
  BY <1>1 DEF WalkFits
<1>3. exec = None /\ pending = None
  BY <1>2 DEF EngineInv, ExecFits, StatusMatchesSteps
<1>4. IsDefinition(workflow')
  BY <1>1, DefinitionsAssumption
<1> QED BY <1>1, <1>2, <1>3, <1>4 DEF WalkFits

\* A start from the roots is the start of a walk.
LEMMA WalkStart ==
    ASSUME EngineInv, WalkFits, status \in {"absent", "queued"}, workflow # None, Start
    PROVE  WalkFits'
<1>1. /\ workflow' = workflow /\ status' = "running" /\ saved' = saved
      /\ pending' = pending /\ exec' = NewExecution
  BY DEF Start
<1>2. /\ exec'.queue = Roots(workflow) /\ exec'.queued = ToSet(Roots(workflow))
      /\ exec'.executed = {} /\ exec'.steps = <<>>
  BY <1>1 DEF NewExecution
<1>3. IsDefinition(workflow) /\ Valid(workflow)
  BY DEF WalkFits
<1>4. Roots(workflow) \in Seq(RawIds)
  BY <1>3, RootFacts
<1>5. Walks(workflow, <<>>, Roots(workflow)) /\ QueueFits(workflow, Roots(workflow), {})
  BY <1>3, <1>4, WalkStarts, RootsFit
<1>6. pending = None
  BY DEF EngineInv, StatusMatchesSteps
<1> QED BY <1>1, <1>2, <1>3, <1>5, <1>6 DEF WalkFits

\* What both turns of the loop that take a node find.
LEMMA TurnFacts ==
    ASSUME EngineInv, WalkFits, Turn, Current.type # "zero", NEW t, NEW output,
           t = Append(exec.steps, Step(Current, "completed", output))
               \/ t = Append(exec.steps, Step(Current, "waiting_approval", output))
    PROVE  LET next == NextNodes(workflow, Current, output) IN
           /\ Current.id = Head(exec.queue) /\ NodeOf(workflow, Current.id) = Current
           /\ next \in Seq(RawIds) /\ Tail(exec.queue) \in Seq(RawIds)
           /\ Fresh(Tail(exec.queue), next, exec.executed)
           /\ Fresh(Tail(exec.queue), next, exec.executed \union {Current.id})
           /\ QueueFits(workflow, Tail(exec.queue) \o next, exec.executed \union {Current.id})
           /\ exec.queued \ {Head(exec.queue)} = ToSet(Tail(exec.queue))
           /\ Walks(workflow, t, Tail(exec.queue) \o next)
<1> DEFINE next == NextNodes(workflow, Current, output)
           n == Len(exec.steps)
<1>1. /\ exec # None /\ exec.queue # <<>>
      /\ Steps(exec.steps) /\ Walks(workflow, exec.steps, exec.queue)
      /\ QueueFits(workflow, exec.queue, exec.executed)
      /\ exec.queued = ToSet(exec.queue) /\ status # "absent"
  BY DEF Turn, Running, EngineInv, ExecFits, WalkFits
<1>2. IsDefinition(workflow) /\ Valid(workflow)
  BY <1>1 DEF WalkFits
<1>3. Roots(workflow) \in Seq(RawIds)
  BY <1>2, RootFacts
<1>4. Current.id = Head(exec.queue)
  BY NodeFound DEF Current
<1>5. NodeOf(workflow, Current.id) = Current
  BY <1>4 DEF Current
<1>6. /\ next \in Seq(RawIds) /\ Tail(exec.queue) \in Seq(RawIds)
      /\ Fresh(Tail(exec.queue), next, exec.executed)
      /\ Fresh(Tail(exec.queue), next, exec.executed \union {Current.id})
      /\ QueueFits(workflow, Tail(exec.queue) \o next, exec.executed \union {Current.id})
      /\ ToSet(exec.queue) \ {Head(exec.queue)} = ToSet(Tail(exec.queue))
  BY <1>1, <1>2, <1>4, NextIsFresh
<1>7. PICK x : /\ t = Append(exec.steps, x) /\ StepLike(x)
               /\ x.node = Current.id /\ x.output = output
  BY StepIsStep
<1>8. /\ n \in Nat /\ Len(t) = n + 1 /\ t[n + 1] = x
      /\ \A k \in 1..n : t[k] = exec.steps[k]
  BY <1>1, <1>7, StepsAppend, StepsTyped
<1>9. t[n + 1].node = NodeOf(workflow, Head(exec.queue)).id
  BY <1>7, <1>8 DEF Current
<1>10. Walks(workflow, t, Tail(exec.queue) \o
            NextNodes(workflow, NodeOf(workflow, t[n + 1].node), t[n + 1].output))
  <2> HIDE DEF n
  <2> QED BY <1>1, <1>2, <1>3, <1>8, <1>9, WalkGoesOn DEF n
<1>11. NodeOf(workflow, t[n + 1].node) = Current /\ t[n + 1].output = output
  BY <1>5, <1>7, <1>8
<1>12. Walks(workflow, t, Tail(exec.queue) \o next)
  BY <1>10, <1>11
<1> HIDE DEF next
<1> QED BY <1>1, <1>4, <1>5, <1>6, <1>12 DEF next

\* A pause stores what lies behind the approval node, whatever the decision will be.
LEMMA WalkPause ==
    ASSUME EngineInv, WalkFits, Pause
    PROVE  WalkFits'
<1> DEFINE next == NextNodes(workflow, Current, "message")
           queue == AppendNew(Tail(exec.queue), next, exec.executed)
           t == Append(exec.steps, Step(Current, "waiting_approval", "message"))
<1>1. /\ Turn /\ Current.type = "approval" /\ saved' = t
      /\ workflow' = workflow /\ status' = "waiting_approval" /\ exec' = None
  BY DEF Pause
<1>2. /\ pending' # None /\ pending'.node = Current.id
      /\ pending'.queue = queue /\ pending'.executed = exec.executed
  BY PendingIsSome DEF Pause
<1>3. workflow # None /\ IsDefinition(workflow) /\ Valid(workflow)
  BY <1>1 DEF EngineInv, ExecFits, WalkFits, Turn, Running
<1>4. Current.type # "zero"
  BY <1>1
<1>5. /\ NodeOf(workflow, Current.id) = Current
      /\ next \in Seq(RawIds) /\ Tail(exec.queue) \in Seq(RawIds)
      /\ Fresh(Tail(exec.queue), next, exec.executed)
      /\ QueueFits(workflow, Tail(exec.queue) \o next, exec.executed \union {Current.id})
      /\ Walks(workflow, t, Tail(exec.queue) \o next)
  BY <1>1, <1>4, TurnFacts
<1> HIDE DEF next, t
<1>6. queue = Tail(exec.queue) \o next
  BY <1>5, AppendsAll
<1> HIDE DEF queue
<1> QED BY <1>1, <1>2, <1>3, <1>5, <1>6 DEF WalkFits

\* A turn of the loop takes the first of the queue and pushes the nodes behind it.
LEMMA WalkNodeSucceeds ==
    ASSUME EngineInv, WalkFits, NodeSucceeds
    PROVE  WalkFits'
<1>1. /\ Turn /\ Current.type # "zero"
      /\ workflow' = workflow /\ status' = status /\ saved' = saved /\ pending' = pending
  BY DEF NodeSucceeds
<1>2. PICK output :
        LET executed == exec.executed \union {Current.id}
            next == PushNext(Tail(exec.queue), exec.queued \ {Head(exec.queue)},
                             NextNodes(workflow, Current, output), executed)
        IN  /\ exec'.queue = next.queue /\ exec'.queued = next.queued
            /\ exec'.executed = executed
            /\ exec'.steps = Append(exec.steps, Step(Current, "completed", output))
  BY DEF NodeSucceeds
<1> DEFINE next == NextNodes(workflow, Current, output)
           executed == exec.executed \union {Current.id}
           t == Append(exec.steps, Step(Current, "completed", output))
<1>3. /\ next \in Seq(RawIds) /\ Tail(exec.queue) \in Seq(RawIds)
      /\ Fresh(Tail(exec.queue), next, executed)
      /\ QueueFits(workflow, Tail(exec.queue) \o next, executed)
      /\ exec.queued \ {Head(exec.queue)} = ToSet(Tail(exec.queue))
      /\ Walks(workflow, t, Tail(exec.queue) \o next)
  BY <1>1, TurnFacts
<1>4. PushNext(Tail(exec.queue), ToSet(Tail(exec.queue)), next, executed) =
            [queue |-> Tail(exec.queue) \o next, queued |-> ToSet(Tail(exec.queue) \o next)]
  <2> HIDE DEF next, executed
  <2> QED BY <1>3, PushesAll
<1>5. /\ exec'.queue = Tail(exec.queue) \o next
      /\ exec'.queued = ToSet(Tail(exec.queue) \o next)
      /\ exec'.executed = executed /\ exec'.steps = t
  <2> DEFINE pushed == PushNext(Tail(exec.queue), exec.queued \ {Head(exec.queue)}, next, executed)
  <2>1. /\ exec'.queue = pushed.queue /\ exec'.queued = pushed.queued
        /\ exec'.executed = executed /\ exec'.steps = t
    BY <1>2
  <2>2. pushed = [queue |-> Tail(exec.queue) \o next, queued |-> ToSet(Tail(exec.queue) \o next)]
    <3> HIDE DEF next, executed
    <3> QED BY <1>3, <1>4
  <2> HIDE DEF pushed, next, executed, t
  <2> QED BY <2>1, <2>2
<1> HIDE DEF next, executed, t
<1> QED BY <1>1, <1>3, <1>5 DEF WalkFits

\* The continued walk is the one that was paused.
LEMMA WalkApprove ==
    ASSUME EngineInv, WalkFits, Approve
    PROVE  WalkFits'
<1> DEFINE n == Len(saved)
<1>1. /\ pending # None /\ saved # <<>> /\ saved[n].node = pending.node
      /\ workflow' = workflow /\ status' = status /\ saved' = saved /\ pending' = pending
  BY DEF Approve, Awaits, Last
<1>2. /\ exec'.queue = pending.queue /\ exec'.queued = ToSet(pending.queue)
      /\ exec'.executed = pending.executed \union {pending.node}
      /\ exec'.steps = Resolved
  BY DEF Approve, StateFromPending, WithDecision
<1>3. /\ Steps(saved) /\ Walks(workflow, saved, pending.queue)
      /\ QueueFits(workflow, pending.queue, pending.executed \union {pending.node})
      /\ NodeOf(workflow, pending.node).type = "approval"
  BY <1>1 DEF EngineInv, WalkFits
<1>4. status = "waiting_approval"
  BY <1>1 DEF EngineInv, StatusMatchesSteps
<1>5. IsDefinition(workflow) /\ Valid(workflow)
  BY <1>4 DEF WalkFits
<1>6. Roots(workflow) \in Seq(RawIds)
  BY <1>5, RootFacts
<1>7. /\ n \in Nat /\ Len(Resolved) = n
      /\ \A k \in 1..(n - 1) : Resolved[k] = saved[k]
      /\ Resolved[n].node = saved[n].node
  BY <1>1, <1>3, ResolvedFacts, StepsTyped
<1>8. \A k \in 1..n : k \in 1..(n - 1) \/ k = n
  BY <1>7
<1>9. SameWay(workflow, saved[n], Resolved[n])
  BY <1>1, <1>3, <1>7, SameNext DEF SameWay
<1>10. \A k \in 1..n : SameWay(workflow, saved[k], Resolved[k])
  BY <1>7, <1>8, <1>9 DEF SameWay
<1>11. Walks(workflow, Resolved, pending.queue)
  BY <1>3, <1>5, <1>6, <1>7, <1>10, WalksAlike
<1> QED BY <1>1, <1>2, <1>3, <1>11 DEF WalkFits

\* A run completes when its walk has nothing ahead.
LEMMA WalkComplete ==
    ASSUME EngineInv, WalkFits, Complete
    PROVE  WalkFits'
<1>1. /\ exec # None /\ exec.queue = <<>> /\ workflow' = workflow /\ saved' = exec.steps
      /\ status' = "completed" /\ pending' = None /\ exec' = None
  BY DEF Complete, Running
<1>2. status # "absent" /\ Walks(workflow, exec.steps, <<>>)
  BY <1>1 DEF EngineInv, ExecFits, WalkFits
<1> QED BY <1>1, <1>2 DEF WalkFits

\* Every step keeps to the walk.
LEMMA WalkStep == EngineInv /\ WalkFits /\ [Next]_vars => WalkFits'
<1> SUFFICES ASSUME EngineInv, WalkFits, [Next]_vars PROVE WalkFits'
  OBVIOUS
<1>1. CASE UNCHANGED vars \/ ResumeRefused
  BY <1>1, WalkUnchanged DEF vars, ResumeRefused
<1>2. CASE CreateWorkflow
  BY <1>2, WalkCreate
<1>3. CASE StartSync
  BY <1>3, WalkStart DEF StartSync
<1>4. CASE StartQueued
  BY <1>4, WalkStart DEF StartQueued, WalkFits
<1>5. CASE CreateQueued \/ Enqueue \/ MarkRetry \/ GiveUp
  <2>1. /\ workflow' = workflow /\ saved' = saved /\ pending' = pending /\ exec' = exec
        /\ status' \in {"queued", "dead_letter"} /\ (status # "absent" \/ workflow # None)
    BY <1>5 DEF CreateQueued, Enqueue, MarkRetry, GiveUp
  <2> QED BY <2>1 DEF WalkFits
<1>13. CASE EnqueueRefused \/ LookupFails
  <2>1. /\ workflow' = workflow /\ pending' = None /\ exec' = exec
        /\ status = "queued" /\ status' = "failed"
    BY <1>13 DEF EnqueueRefused, LookupFails, FailWithoutSteps
  <2> QED BY <2>1 DEF WalkFits
<1>6. CASE NodeFails
  <2>1. exec # None /\ workflow' = workflow /\ status' = "failed" /\ pending' = None /\ exec' = None
    BY <1>6 DEF NodeFails, Turn, Running
  <2>2. status # "absent"
    BY <2>1 DEF EngineInv, ExecFits
  <2> QED BY <2>1, <2>2 DEF WalkFits
<1>7. CASE Reject
  <2>1. /\ exec = None /\ pending # None /\ workflow' = workflow /\ status' = "failed"
        /\ pending' = None /\ exec' = exec
    BY <1>7 DEF Reject, Awaits, Running
  <2>2. status = "waiting_approval"
    BY <2>1 DEF EngineInv, StatusMatchesSteps
  <2> QED BY <2>1, <2>2 DEF WalkFits
<1>8. CASE Pause
  BY <1>8, WalkPause
<1>9. CASE NodeSucceeds
  BY <1>9, WalkNodeSucceeds
<1>10. CASE Complete
  BY <1>10, WalkComplete
<1>11. CASE Crash
  BY <1>11, WalkUnchanged DEF Crash
<1>12. CASE Approve
  BY <1>12, WalkApprove
<1> QED BY <1>1, <1>2, <1>3, <1>4, <1>5, <1>6, <1>7, <1>8, <1>9, <1>10, <1>11, <1>12, <1>13
       DEF Next, ExecutionStep

\* A traversal that was paused and continued, any number of times and over any number of
\* crashes, takes the steps of one uninterrupted walk of the definition.
THEOREM WalkFollowed == Spec => []WalkIsFollowed
<1>1. EngineInv /\ WalkFits => WalkIsFollowed
  BY DEF WalkFits, WalkIsFollowed, Walks, Running
<1> QED BY <1>1, EngineInit, EngineStep, WalkInit, WalkStep, PTL DEF Spec

\* Every accepted definition of the workflow repository has a root, so buildGraph
\* refuses none of them.
THEOREM GraphIsBuilt == Spec => []BuildGraphSucceeds
<1>1. WalkFits => BuildGraphSucceeds
  BY RootFacts DEF WalkFits, BuildGraphSucceeds
<1> QED BY <1>1, EngineInit, EngineStep, WalkInit, WalkStep, PTL DEF Spec

-----------------------------------------------------------------------------
(* The audit trail. *)

\* Recording events changes nothing of how a run is executed.
THEOREM TrailFollowsEngine == TrailSpec => Spec
<1>1. TrailInit => Init
  BY DEF TrailInit
<1>2. [TrailNext]_trailVars => [Next]_vars
  <2> SUFFICES ASSUME [TrailNext]_trailVars PROVE Next \/ UNCHANGED vars
    OBVIOUS
  <2>1. CASE UNCHANGED trailVars
    BY <2>1 DEF trailVars
  <2>2. CASE Created \/ Queued \/ Started \/ Retried \/ GivenUp \/ NotExecuted
    BY <2>2 DEF Created, Queued, Started, Retried, GivenUp, NotExecuted, Next
  <2>3. CASE Succeeded \/ Paused \/ FailedAt \/ Completed
    BY <2>3 DEF Succeeded, Paused, FailedAt, Completed, Next, ExecutionStep
  <2>4. CASE Approved \/ Rejected \/ NotResumed \/ Crashed
    BY <2>4 DEF Approved, Rejected, NotResumed, Crashed, Next
  <2>5. CASE AnnouncePause \/ AnnounceFailure \/ AnnounceDecision \/ Recorded \/ RecordedLate
    BY <2>5 DEF AnnouncePause, AnnounceFailure, AnnounceDecision, Announce, Recorded, RecordedLate
  <2> QED BY <2>1, <2>2, <2>3, <2>4, <2>5 DEF TrailNext
<1> QED BY <1>1, <1>2, PTL DEF TrailSpec, Spec

IsEvents(s) == \E S : s \in Seq(S)

\* f is e with event behind it.
GoesOn(f, e, event) ==
    /\ Len(e) \in Nat /\ Len(f) = Len(e) + 1
    /\ \A i \in 1..Len(e) : f[i] = e[i]
    /\ f[Len(e) + 1] = event

\* An event that is kept stands behind the others; Postgres keeps none about a step.
LEMMA EventKept ==
    ASSUME IsEvents(events), NEW event, Keep(event)
    PROVE  /\ IsEvents(events') /\ refused' = refused
           /\ \/ GoesOn(events', events, event)
              \/ events' = events /\ Postgres /\ event.type \in StepTypes
<1>1. PICK S : events \in Seq(S)
  BY DEF IsEvents
<1> DEFINE T == S \union {event}
           one == Append(events, event)
<1>2. events \in Seq(T) /\ event \in T
  BY <1>1, SeqMonotonic
<1> HIDE DEF T
<1>3. /\ one \in Seq(T) /\ Len(one) = Len(events) + 1 /\ one[Len(events) + 1] = event
      /\ \A i \in 1..Len(events) : one[i] = events[i]
  BY <1>2, AppendProperties
<1>4. events \o <<event>> = one
  BY <1>2, AppendIsConcat
<1> HIDE DEF one
<1>5. Len(events) \in Nat
  BY <1>2, LenProperties
<1>6. events \o <<>> = events
  BY <1>2, ConcatEmptySeq
<1>7. CASE Postgres /\ event.type \in StepTypes
  BY <1>2, <1>6, <1>7 DEF Keep, Stored, IsEvents
<1>8. CASE ~(Postgres /\ event.type \in StepTypes)
  <2>1. events' = one /\ refused' = refused
    BY <1>4, <1>8 DEF Keep, Stored
  <2> QED BY <1>3, <1>5, <2>1 DEF GoesOn, IsEvents
<1> QED BY <1>7, <1>8

-----------------------------------------------------------------------------
(* What the trail tells of the outcome. *)

Settled == {"queued", "completed", "failed", "dead_letter"}

\* LastEventIsOf, for any list of events.
EndsWith(e, types) ==
    \E k \in 1..Len(e) :
        /\ e[k].type \in types
        /\ \A l \in 1..Len(e) : l > k => e[l].type = "run_waiting_approval"

\* An event of this type is true of a run with this status.
Agrees(type, state) ==
    /\ type = "run_completed" => state = "completed"
    /\ type = "run_dead_lettered" => state = "dead_letter"

AllAgree(e, state) == \A k \in 1..Len(e) : Agrees(e[k].type, state)

\* The event that is owed is the outcome's.
OwedFits ==
    owed # None =>
        /\ owed.type \notin StepTypes /\ Agrees(owed.type, status)
        /\ status \in Settled => owed.type \in Outcome

OutcomeTold == status \in Settled => owed # None \/ missed \/ EndsWith(events, Outcome)

TrailInv == IsEvents(events) /\ OwedFits /\ AllAgree(events, status) /\ OutcomeTold

\* Nothing is told of a run that is not there.
LEMMA TrailStarts == TrailInit => TrailInv
<1> SUFFICES ASSUME TrailInit PROVE TrailInv
  OBVIOUS
<1>1. events = <<>> /\ owed = None /\ status = "absent"
  BY DEF TrailInit, Init
<1>2. <<>> \in Seq({}) /\ Len(<<>>) = 0
  BY EmptySeq
<1> QED BY <1>1, <1>2 DEF TrailInv, IsEvents, OwedFits, AllAgree, OutcomeTold, Settled

\* One more event, and what a list that it ends says then.
LEMMA MoreTold ==
    ASSUME NEW e, NEW f, NEW event, NEW types, GoesOn(f, e, event)
    PROVE  /\ event.type \in types => EndsWith(f, types)
           /\ EndsWith(e, types) /\ event.type = "run_waiting_approval" => EndsWith(f, types)
           /\ \A state : AllAgree(e, state) /\ Agrees(event.type, state) => AllAgree(f, state)
<1> DEFINE n == Len(e)
<1>1. /\ n \in Nat /\ Len(f) = n + 1 /\ f[n + 1] = event
      /\ \A i \in 1..n : f[i] = e[i]
  BY DEF GoesOn
<1> HIDE DEF n
<1>2. \A k : k \in 1..(n + 1) <=> k \in 1..n \/ k = n + 1
  BY <1>1
<1>3. ASSUME event.type \in types
      PROVE  EndsWith(f, types)
  <2>1. n + 1 \in 1..Len(f) /\ \A l \in 1..Len(f) : ~(l > n + 1)
    BY <1>1
  <2> QED BY <1>1, <1>3, <2>1 DEF EndsWith
<1>4. ASSUME EndsWith(e, types), event.type = "run_waiting_approval"
      PROVE  EndsWith(f, types)
  <2>1. PICK k \in 1..n : /\ e[k].type \in types
                          /\ \A l \in 1..n : l > k => e[l].type = "run_waiting_approval"
    BY <1>4 DEF EndsWith, n
  <2>2. k \in 1..Len(f) /\ f[k].type \in types
    BY <1>1, <2>1
  <2>3. ASSUME NEW l \in 1..Len(f), l > k
        PROVE  f[l].type = "run_waiting_approval"
    <3>1. CASE l \in 1..n
      BY <1>1, <2>1, <2>3, <3>1
    <3>2. CASE l = n + 1
      BY <1>1, <1>4, <3>2
    <3> QED BY <1>1, <1>2, <3>1, <3>2
  <2> QED BY <2>2, <2>3 DEF EndsWith
<1>5. ASSUME NEW state, AllAgree(e, state), Agrees(event.type, state)
      PROVE  AllAgree(f, state)
  <2>1. \A k \in 1..n : Agrees(e[k].type, state)
    BY <1>5 DEF AllAgree, n
  <2> QED BY <1>1, <1>2, <1>5, <2>1 DEF AllAgree
<1> QED BY <1>3, <1>4, <1>5

\* A list that agrees with a run that has not ended agrees with any status.
LEMMA NothingEnded ==
    ASSUME NEW e, NEW state, NEW next, AllAgree(e, state), state \notin {"completed", "dead_letter"}
    PROVE  AllAgree(e, next)
  BY DEF AllAgree, Agrees

\* An event about the run is one.
LEMMA EventIsSome ==
    ASSUME NEW type
    PROVE  OfRun(type) # None /\ OfRun(type).type = type
<1>1. "type" \in DOMAIN [type |-> type, node |-> Blank]
  OBVIOUS
<1>2. "type" \notin DOMAIN [none |-> TRUE]
  OBVIOUS
<1> QED BY <1>1, <1>2 DEF OfRun, None

\* A write that leaves the actor with the event that tells of it.
LEMMA TrailOwes ==
    ASSUME TrailInv, NEW type, Owes(type), type \notin StepTypes,
           status \notin {"completed", "dead_letter"}, Agrees(type, status'),
           status' \in Settled => type \in Outcome'
    PROVE  TrailInv'
<1>1. owed' # None /\ owed'.type = type /\ events' = events
  BY EventIsSome DEF Owes
<1>2. AllAgree(events, status')
  BY NothingEnded DEF TrailInv
<1>3. OwedFits' /\ OutcomeTold'
  BY <1>1 DEF OwedFits, OutcomeTold
<1> QED BY <1>1, <1>2, <1>3 DEF TrailInv

\* An event of a step is recorded while the run is executed or waits.
LEMMA TrailAnnounces ==
    ASSUME TrailInv, NEW event, Record(event), status' = status, owed' = owed, owed = None,
           status \notin Settled, Agrees(event.type, status)
    PROVE  TrailInv'
<1>1. IsEvents(events) /\ AllAgree(events, status)
  BY DEF TrailInv
<1>2. IsEvents(events') /\ AllAgree(events', status)
  <2>1. CASE Keep(event)
    BY <1>1, <2>1, EventKept, MoreTold
  <2>2. CASE Refuse(event)
    BY <1>1, <2>2 DEF Refuse
  <2> QED BY <2>1, <2>2 DEF Record
<1> QED BY <1>2 DEF TrailInv, OwedFits, OutcomeTold

\* The row stays as it is while events are recorded, or lost.
LEMMA TrailRecords ==
    ASSUME TrailInv, status' = status, saved' = saved, Recorded \/ RecordedLate
    PROVE  TrailInv'
<1>1. IsEvents(events) /\ AllAgree(events, status) /\ OwedFits /\ OutcomeTold
  BY DEF TrailInv
<1>2. Outcome' = Outcome
  BY DEF Outcome
<1>3. CASE Recorded
  <2>1. /\ owed # None /\ owed' = None
        /\ (Keep(owed) /\ missed' = missed) \/ (Refuse(owed) /\ missed' = TRUE)
    BY <1>3 DEF Recorded
  <2>2. /\ owed.type \notin StepTypes /\ Agrees(owed.type, status)
        /\ status \in Settled => owed.type \in Outcome
    BY <1>1, <2>1 DEF OwedFits
  <2>3. CASE Keep(owed)
    <3>1. IsEvents(events') /\ GoesOn(events', events, owed)
      BY <1>1, <2>2, <2>3, EventKept
    <3>2. AllAgree(events', status) /\ (status \in Settled => EndsWith(events', Outcome))
      <4> HIDE DEF Outcome
      <4> QED BY <1>1, <2>2, <3>1, MoreTold
    <3> QED BY <1>2, <2>1, <3>1, <3>2 DEF TrailInv, OwedFits, OutcomeTold
  <2>4. CASE Refuse(owed) /\ missed' = TRUE
    BY <1>1, <2>1, <2>4 DEF Refuse, TrailInv, OwedFits, OutcomeTold
  <2> QED BY <2>1, <2>3, <2>4
<1>4. CASE RecordedLate
  <2> DEFINE event == OfRun("run_waiting_approval")
  <2>1. /\ owed' = owed /\ missed' = missed
        /\ Keep(event) \/ events' = events
    BY <1>4 DEF RecordedLate, Record, Refuse
  <2>2. event.type = "run_waiting_approval" /\ event.type \notin StepTypes
    BY EventIsSome DEF StepTypes
  <2>3. Agrees(event.type, status)
    BY <2>2 DEF Agrees
  <2>4. OwedFits'
    BY <1>1, <1>2, <2>1 DEF OwedFits
  <2> HIDE DEF event
  <2>5. /\ IsEvents(events') /\ AllAgree(events', status)
        /\ EndsWith(events, Outcome) => EndsWith(events', Outcome)
    <3>1. CASE events' = events
      BY <1>1, <3>1
    <3>2. CASE Keep(event)
      BY <1>1, <2>2, <2>3, <3>2, EventKept, MoreTold
    <3> QED BY <2>1, <3>1, <3>2
  <2> QED BY <1>1, <1>2, <2>1, <2>4, <2>5 DEF TrailInv, OutcomeTold
<1> QED BY <1>3, <1>4

\* Every step leaves a trail that tells of the outcome, or an actor that is to.
LEMMA TrailStep == TrailInv /\ EngineInv /\ [TrailNext]_trailVars => TrailInv'
<1> SUFFICES ASSUME TrailInv, EngineInv, [TrailNext]_trailVars PROVE TrailInv'
  OBVIOUS
<1>1. exec # None \/ pending # None => status \notin Settled
  BY DEF EngineInv, ExecFits, StatusMatchesSteps, Settled
<1>2. CASE UNCHANGED trailVars \/ Created \/ NotResumed
  <2>1. /\ events' = events /\ owed' = owed /\ missed' = missed
        /\ status' = status /\ saved' = saved
    BY <1>2 DEF trailVars, trail, vars, Created, CreateWorkflow, NotResumed, ResumeRefused
  <2> QED BY <2>1 DEF TrailInv, OwedFits, OutcomeTold, Outcome
<1>3. CASE Crashed
  <2>1. /\ events' = events /\ owed' = None /\ missed' = (missed \/ owed # None)
        /\ status' = status /\ saved' = saved
    BY <1>3 DEF Crashed, Crash, vars
  <2> QED BY <2>1 DEF TrailInv, OwedFits, OutcomeTold, Outcome
<1>4. CASE Recorded \/ RecordedLate
  <2>1. status' = status /\ saved' = saved
    BY <1>4 DEF Recorded, RecordedLate, vars
  <2> QED BY <1>4, <2>1, TrailRecords
<1>5. CASE NotExecuted
  <2>1. /\ owed = None /\ owed' = None /\ events' = events /\ missed' = missed
        /\ status = "queued"
        /\ status' = "queued" \/ (status' = "failed" /\ saved' = <<>>)
    BY <1>5 DEF NotExecuted, Ready, trail, Enqueue, EnqueueRefused, LookupFails, FailWithoutSteps
  <2>2. Outcome' = Outcome
    BY <2>1 DEF Outcome
  <2>3. AllAgree(events, status')
    BY <2>1, NothingEnded DEF TrailInv
  <2> QED BY <2>1, <2>2, <2>3 DEF TrailInv, OwedFits, OutcomeTold, Settled
<1>6. CASE Queued \/ Started \/ Retried \/ GivenUp
  <2>1. CASE Queued
    <3>1. Owes("run_queued") /\ status = "absent" /\ status' = "queued"
      BY <2>1 DEF Queued, CreateQueued
    <3> QED BY <3>1, TrailOwes DEF StepTypes, Agrees, Outcome
  <2>2. CASE Started
    <3>1. Owes("run_started") /\ status \in {"absent", "queued"} /\ status' = "running"
      BY <2>2 DEF Started, StartSync, StartQueued, Start
    <3> QED BY <3>1, TrailOwes DEF StepTypes, Agrees, Settled
  <2>3. CASE Retried
    <3>1. Owes("retry_scheduled") /\ status = "failed" /\ status' = "queued"
      BY <2>3 DEF Retried, MarkRetry
    <3> QED BY <3>1, TrailOwes DEF StepTypes, Agrees, Outcome
  <2>4. CASE GivenUp
    <3>1. Owes("run_dead_lettered") /\ status = "failed" /\ status' = "dead_letter"
      BY <2>4 DEF GivenUp, GiveUp
    <3> QED BY <3>1, TrailOwes DEF StepTypes, Agrees, Outcome
  <2> QED BY <1>6, <2>1, <2>2, <2>3, <2>4
<1>7. CASE AnnouncePause \/ AnnounceFailure \/ AnnounceDecision
  <2>1. PICK event : /\ Announce(event)
                     /\ event.type \in {"step_waiting_approval", "step_failed", "approval_resolved"}
    BY <1>7 DEF AnnouncePause, AnnounceFailure, AnnounceDecision, Pausing, Failing, Decided, OfStep
  <2>2. Record(event) /\ owed = None /\ owed' = owed /\ status' = status
    BY <2>1 DEF Announce, Ready, vars
  <2>3. status \notin Settled
    BY <1>1, <1>7 DEF AnnouncePause, AnnounceFailure, AnnounceDecision, Turn, Running, Awaits
  <2> QED BY <2>1, <2>2, <2>3, TrailAnnounces DEF Agrees
<1>8. CASE Succeeded
  <2>1. PICK event : Record(event) /\ event.type = "step_completed"
    BY <1>8 DEF Succeeded, OfStep
  <2>2. owed = None /\ owed' = owed /\ status' = status /\ exec # None
    BY <1>8 DEF Succeeded, Ready, NodeSucceeds, Turn, Running
  <2> QED BY <1>1, <2>1, <2>2, TrailAnnounces DEF Agrees
<1>9. CASE Paused
  <2>1. /\ exec # None /\ status' = "waiting_approval"
        /\ events' = events /\ owed' = owed
    BY <1>9 DEF Paused, Pause, Turn, Running
  <2>2. status \notin {"completed", "dead_letter"}
    BY <1>1, <2>1 DEF Settled
  <2>3. AllAgree(events, status')
    BY <2>2, NothingEnded DEF TrailInv
  <2> QED BY <2>1, <2>2, <2>3 DEF TrailInv, OwedFits, OutcomeTold, Settled, Agrees
<1>10. CASE FailedAt
  <2>1. Owes("run_failed") /\ exec # None /\ status' = "failed" /\ NodeFails
    BY <1>10 DEF FailedAt, NodeFails, Turn, Running
  <2>2. saved' # <<>>
    <3>1. StepLike(Step(Current, "failed", "nil")) /\ Steps(exec.steps)
      BY <2>1, StepIsStep DEF EngineInv, ExecFits
    <3> QED BY <2>1, <3>1, StepsAppend DEF NodeFails
  <2> QED BY <1>1, <2>1, <2>2, TrailOwes DEF StepTypes, Agrees, Outcome, Settled
<1>11. CASE Completed
  <2>1. Owes("run_completed") /\ exec # None /\ status' = "completed"
    BY <1>11 DEF Completed, Complete, Running
  <2> QED BY <1>1, <2>1, TrailOwes DEF StepTypes, Agrees, Outcome, Settled
<1>12. CASE Approved
  <2>1. Owes("run_started") /\ pending # None /\ status' = status
    BY <1>12 DEF Approved, Approve, Awaits
  <2> QED BY <1>1, <2>1, TrailOwes DEF StepTypes, Agrees, Settled
<1>13. CASE Rejected
  <2>1. /\ Owes("run_failed") /\ pending # None /\ status' = "failed"
        /\ saved # <<>> /\ saved' = Resolved
    BY <1>13 DEF Rejected, Reject, Awaits
  <2>2. saved' # <<>>
    BY <2>1, ResolvedFacts DEF EngineInv
  <2> QED BY <1>1, <2>1, <2>2, TrailOwes DEF StepTypes, Agrees, Outcome, Settled
<1> QED BY <1>2, <1>3, <1>4, <1>5, <1>6, <1>7, <1>8, <1>9, <1>10, <1>11, <1>12, <1>13 DEF TrailNext

\* The trail tells of no end that the run did not come to, and of every end unless its
\* event was refused or its actor crashed, with either repository and wherever actors
\* crash: the events that Postgres always refuses are never the ones of an outcome.
THEOREM OutcomeIsAudited == TrailSpec => []TrailTellsOutcome
<1>1. TrailInv => TrailTellsOutcome
  <2> SUFFICES ASSUME TrailInv PROVE TrailTellsOutcome
    OBVIOUS
  <2>1. DOMAIN events = 1..Len(events)
    BY LenProperties DEF TrailInv, IsEvents
  <2> QED BY <2>1 DEF TrailInv, AllAgree, Agrees, OutcomeTold, EndsWith, Settled,
             TrailTellsOutcome, LastEventIsOf
<1> QED BY <1>1, TrailStarts, TrailStep, TrailFollowsEngine, MemoryFitsRow, PTL DEF TrailSpec

-----------------------------------------------------------------------------
(* The audit trail tells of every step. *)

\* The steps of a list that no refused event tells of.
Heard(steps, r) ==
    {k \in 1..Len(steps) : \A event \in r : ~Tells(event, steps[k])}

\* AreTold, for any list of events and any refused ones.
ToldBy(steps, e, r) ==
    \E at \in [Heard(steps, r) -> 1..Len(e)] :
        /\ \A k \in Heard(steps, r) : Tells(e[at[k]], steps[k])
        /\ \A k, l \in Heard(steps, r) : k < l => at[k] < at[l]

\* With event, the lists e and r of kept and refused events go on as f and q.
Further(f, e, q, r, event) ==
    \/ GoesOn(f, e, event) /\ q = r
    \/ f = e /\ q = r \union {event}

\* The memory repository keeps every event that is not refused now and then.
LEMMA EventGoesOn ==
    ASSUME ~Postgres, IsEvents(events), NEW event, Record(event)
    PROVE  IsEvents(events') /\ Further(events', events, refused', refused, event)
<1>1. CASE Keep(event)
  BY <1>1, EventKept DEF Further
<1>2. CASE Refuse(event)
  BY <1>2 DEF Refuse, Further
<1> QED BY <1>1, <1>2 DEF Record

\* More events tell of the same steps, and a refused one excuses some of them.
LEMMA StillTold ==
    ASSUME NEW steps, NEW e, NEW f, NEW q, NEW r, NEW event,
           ToldBy(steps, e, r), Further(f, e, q, r, event)
    PROVE  ToldBy(steps, f, q)
<1>1. PICK at \in [Heard(steps, r) -> 1..Len(e)] :
        /\ \A k \in Heard(steps, r) : Tells(e[at[k]], steps[k])
        /\ \A k, l \in Heard(steps, r) : k < l => at[k] < at[l]
  BY DEF ToldBy
<1>2. \A i \in 1..Len(e) : i \in 1..Len(f) /\ f[i] = e[i]
  BY DEF Further, GoesOn
<1>3. Heard(steps, q) \subseteq Heard(steps, r)
  BY DEF Further, Heard
<1> DEFINE new == [k \in Heard(steps, q) |-> at[k]]
<1>4. \A k \in Heard(steps, q) : new[k] = at[k] /\ at[k] \in 1..Len(e)
  BY <1>1, <1>3
<1>5. new \in [Heard(steps, q) -> 1..Len(f)]
  BY <1>2, <1>4
<1> HIDE DEF new
<1>6. \A k \in Heard(steps, q) : Tells(f[new[k]], steps[k])
  BY <1>1, <1>2, <1>3, <1>4
<1>7. \A k, l \in Heard(steps, q) : k < l => new[k] < new[l]
  BY <1>1, <1>3, <1>4
<1> QED BY <1>5, <1>6, <1>7 DEF ToldBy

\* An event that tells of the last step completes what is told of those before it;
\* and if it is refused, the last step is excused.
LEMMA NextTold ==
    ASSUME NEW s, NEW t, Len(s) \in Nat, Len(t) \in Nat, 0 < Len(t), Len(t) - 1 <= Len(s),
           \A k \in 1..(Len(t) - 1) : t[k] = s[k],
           NEW e, NEW f, NEW q, NEW r, NEW event,
           ToldBy(s, e, r), Further(f, e, q, r, event), Tells(event, t[Len(t)])
    PROVE  ToldBy(t, f, q)
<1>1. PICK at \in [Heard(s, r) -> 1..Len(e)] :
        /\ \A k \in Heard(s, r) : Tells(e[at[k]], s[k])
        /\ \A k, l \in Heard(s, r) : k < l => at[k] < at[l]
  BY DEF ToldBy
<1> DEFINE n == Len(t)
           new == [k \in Heard(t, q) |-> IF k = n THEN Len(e) + 1 ELSE at[k]]
<1>2. \A i \in 1..Len(e) : i \in 1..Len(f) /\ f[i] = e[i] /\ i < Len(e) + 1
  BY DEF Further, GoesOn
<1>3. ASSUME NEW k \in Heard(t, q)
      PROVE  /\ k \in 1..n /\ k <= n
             /\ k # n => k \in Heard(s, r) /\ t[k] = s[k]
             /\ k = n => Len(e) + 1 \in 1..Len(f) /\ f[Len(e) + 1] = event
  <2>1. k \in 1..n /\ \A x \in q : ~Tells(x, t[k])
    BY <1>3 DEF Heard
  <2>2. r \subseteq q
    BY DEF Further
  <2>3. ASSUME k # n
        PROVE  k \in Heard(s, r) /\ t[k] = s[k]
    <3>1. k \in 1..(n - 1) /\ k \in 1..Len(s)
      BY <2>1, <2>3
    <3>2. t[k] = s[k]
      BY <3>1
    <3> QED BY <2>1, <2>2, <3>1, <3>2 DEF Heard
  <2>4. ASSUME k = n
        PROVE  Len(e) + 1 \in 1..Len(f) /\ f[Len(e) + 1] = event
    <3>1. event \notin q
      BY <2>1, <2>4
    <3>2. GoesOn(f, e, event)
      BY <3>1 DEF Further
    <3> QED BY <3>2 DEF GoesOn
  <2> QED BY <2>1, <2>3, <2>4
<1>4. \A k \in Heard(t, q) :
        /\ k = n => new[k] = Len(e) + 1
        /\ k # n => new[k] = at[k] /\ at[k] \in 1..Len(e)
  BY <1>1, <1>3
<1>5. new \in [Heard(t, q) -> 1..Len(f)]
  BY <1>2, <1>3, <1>4
<1> HIDE DEF new
<1>6. ASSUME NEW k \in Heard(t, q)
      PROVE  Tells(f[new[k]], t[k])
  <2>1. CASE k = n
    BY <1>3, <1>4, <2>1
  <2>2. CASE k # n
    BY <1>1, <1>2, <1>3, <1>4, <2>2
  <2> QED BY <2>1, <2>2
<1>7. ASSUME NEW k \in Heard(t, q), NEW l \in Heard(t, q), k < l
      PROVE  new[k] < new[l]
  <2>1. k # n
    BY <1>3, <1>7
  <2>2. CASE l = n
    BY <1>2, <1>4, <2>1, <2>2
  <2>3. CASE l # n
    BY <1>1, <1>3, <1>4, <1>7, <2>1, <2>3
  <2> QED BY <2>2, <2>3
<1> QED BY <1>5, <1>6, <1>7 DEF ToldBy

\* Nothing need be told of no step.
LEMMA NothingTold == ASSUME NEW e, NEW r PROVE ToldBy(<<>>, e, r)
<1> DEFINE at == [k \in Heard(<<>>, r) |-> 1]
<1>1. Len(<<>>) = 0 /\ 1..0 = {}
  OBVIOUS
<1>2. Heard(<<>>, r) = {}
  BY <1>1 DEF Heard
<1>3. at \in [Heard(<<>>, r) -> 1..Len(e)]
  BY <1>2
<1> HIDE DEF at
<1> QED BY <1>2, <1>3 DEF ToldBy

\* The steps that the write behind the announced event is about to store.
Coming ==
    CASE announced.type = "step_waiting_approval" ->
            Append(exec.steps, [node |-> announced.node, status |-> "waiting_approval", output |-> "message"])
      [] announced.type = "step_failed" ->
            Append(exec.steps, [node |-> announced.node, status |-> "failed", output |-> "nil"])
      [] OTHER -> Resolved

\* What is told of the steps in memory, and of those about to be stored, is told of
\* them when they are.
ToldInv ==
    /\ IsEvents(events)
    /\ ToldBy(saved, events, refused)
    /\ exec # None => ToldBy(exec.steps, events, refused)
    /\ announced # None => ToldBy(Coming, events, refused)

\* A node's step is told by the event that is recorded with it.
LEMMA StepEventTells ==
    ASSUME NEW node
    PROVE  /\ Tells(OfStep("step_waiting_approval", node.id), Step(node, "waiting_approval", "message"))
           /\ Tells(OfStep("step_failed", node.id), Step(node, "failed", "nil"))
           /\ \A output \in {"true", "false", "done"} :
                Tells(OfStep("step_completed", node.id), Step(node, "completed", output))
  BY DEF Tells, Told, OfStep, Step

\* Once the event of the last step is recorded, the trail tells of the whole list.
LEMMA LastTold ==
    ASSUME NEW s, Steps(s), NEW x, StepLike(x), NEW e, NEW f, NEW q, NEW r, NEW event,
           ToldBy(s, e, r), Further(f, e, q, r, event), Tells(event, x)
    PROVE  ToldBy(Append(s, x), f, q)
<1> DEFINE t == Append(s, x)
<1>1. /\ Len(s) \in Nat /\ Len(t) = Len(s) + 1 /\ t[Len(s) + 1] = x
      /\ \A k \in 1..Len(s) : t[k] = s[k]
  BY StepsTyped, StepsAppend
<1> HIDE DEF t
<1>2. /\ Len(t) \in Nat /\ 0 < Len(t) /\ Len(t) - 1 = Len(s) /\ Len(t) - 1 <= Len(s)
      /\ Tells(event, t[Len(t)])
  BY <1>1
<1>3. ToldBy(t, f, q)
  BY <1>1, <1>2, NextTold
<1> QED BY <1>3 DEF t

\* A decision tells of the step that waited for it.
LEMMA DecisionTold ==
    ASSUME ~Postgres, EngineInv, ToldInv, Awaits, Record(Decided)
    PROVE  ToldBy(Resolved, events', refused')
<1>1. Steps(saved) /\ saved # <<>> /\ saved[Len(saved)].node = pending.node
  BY DEF Awaits, EngineInv, Last
<1>2. Len(saved) \in Nat /\ Len(saved) > 0
  BY <1>1, StepsTyped
<1>3. Further(events', events, refused', refused, Decided) /\ ToldBy(saved, events, refused)
  BY EventGoesOn DEF ToldInv
<1> DEFINE t == Resolved
<1>4. /\ Len(t) = Len(saved) /\ \A k \in 1..(Len(saved) - 1) : t[k] = saved[k]
      /\ t[Len(saved)].node = pending.node
      /\ t[Len(saved)].status = "completed" /\ t[Len(saved)].output = "decision"
  BY <1>1, ResolvedFacts
<1> HIDE DEF t
<1>5. Tells(Decided, t[Len(t)])
  BY <1>4 DEF Tells, Told, Decided, OfStep
<1>6. Len(t) \in Nat /\ 0 < Len(t) /\ Len(t) - 1 = Len(saved) - 1 /\ Len(t) - 1 <= Len(saved)
  BY <1>2, <1>4
<1>7. ToldBy(t, events', refused')
  <2>1. \A k \in 1..(Len(t) - 1) : t[k] = saved[k]
    BY <1>4
  <2> QED BY <1>2, <1>3, <1>5, <1>6, <2>1, NextTold
<1> QED BY <1>7 DEF t

\* So is an event about a step.
LEMMA StepEventIsSome ==
    ASSUME NEW type, NEW id
    PROVE  OfStep(type, id) # None /\ OfStep(type, id).type = type
<1>1. "type" \in DOMAIN [type |-> type, node |-> id]
  OBVIOUS
<1>2. "type" \notin DOMAIN [none |-> TRUE]
  OBVIOUS
<1> QED BY <1>1, <1>2 DEF OfStep, None

\* Announcing an event makes the trail tell of the list about to be stored.
LEMMA AnnouncedTold ==
    ASSUME ~Postgres, EngineInv, ToldInv, AnnouncePause \/ AnnounceFailure \/ AnnounceDecision
    PROVE  ToldBy(Coming', events', refused')
<1>1. CASE AnnouncePause
  <2> DEFINE x == Step(Current, "waiting_approval", "message")
  <2>1. exec # None /\ exec' = exec /\ announced' = Pausing /\ Record(Pausing)
    BY <1>1 DEF AnnouncePause, Announce, Turn, Running, vars
  <2>2. Coming' = Append(exec.steps, x)
    BY <2>1 DEF Coming, Pausing, OfStep, Step
  <2>3. StepLike(x) /\ Tells(Pausing, x)
    BY StepIsStep, StepEventTells DEF Pausing
  <2> HIDE DEF x
  <2>4. /\ Further(events', events, refused', refused, Pausing)
        /\ ToldBy(exec.steps, events, refused) /\ Steps(exec.steps)
    BY <2>1, EventGoesOn DEF ToldInv, EngineInv, ExecFits
  <2>5. ToldBy(Append(exec.steps, x), events', refused')
    BY <2>3, <2>4, LastTold
  <2> QED BY <2>2, <2>5
<1>2. CASE AnnounceFailure
  <2> DEFINE x == Step(Current, "failed", "nil")
  <2>1. exec # None /\ exec' = exec /\ announced' = Failing /\ Record(Failing)
    BY <1>2 DEF AnnounceFailure, Announce, Turn, Running, vars
  <2>2. Coming' = Append(exec.steps, x)
    BY <2>1 DEF Coming, Failing, OfStep, Step
  <2>3. StepLike(x) /\ Tells(Failing, x)
    BY StepIsStep, StepEventTells DEF Failing
  <2> HIDE DEF x
  <2>4. /\ Further(events', events, refused', refused, Failing)
        /\ ToldBy(exec.steps, events, refused) /\ Steps(exec.steps)
    BY <2>1, EventGoesOn DEF ToldInv, EngineInv, ExecFits
  <2>5. ToldBy(Append(exec.steps, x), events', refused')
    BY <2>3, <2>4, LastTold
  <2> QED BY <2>2, <2>5
<1>3. CASE AnnounceDecision
  <2>1. Awaits /\ saved' = saved /\ announced' = Decided /\ Record(Decided)
    BY <1>3 DEF AnnounceDecision, Announce, vars
  <2>2. Coming' = Resolved
    BY <2>1 DEF Coming, Decided, OfStep, Resolved
  <2> QED BY <2>1, <2>2, DecisionTold
<1> QED BY <1>1, <1>2, <1>3

\* While an event is announced, only the write behind it changes the run.
LEMMA ComingStays ==
    ASSUME announced' = announced, exec' = exec, saved' = saved
    PROVE  Coming' = Coming
  BY DEF Coming, Resolved

\* Every step leaves a trail that tells of the steps in memory, of those about to be
\* stored and of those in the repository.
LEMMA ToldStep ==
    ASSUME ~Postgres, ToldInv, EngineInv, [TrailNext]_trailVars
    PROVE  ToldInv'
<1>1. /\ IsEvents(events) /\ ToldBy(saved, events, refused)
      /\ exec # None => ToldBy(exec.steps, events, refused)
      /\ announced # None => ToldBy(Coming, events, refused)
  BY DEF ToldInv
<1>2. exec # None => Steps(exec.steps)
  BY DEF EngineInv, ExecFits
<1>3. ASSUME NEW event, Record(event)
      PROVE  /\ IsEvents(events') /\ Further(events', events, refused', refused, event)
             /\ \A steps : ToldBy(steps, events, refused) => ToldBy(steps, events', refused')
  <2>1. IsEvents(events') /\ Further(events', events, refused', refused, event)
    BY <1>1, <1>3, EventGoesOn
  <2> QED BY <2>1, StillTold
<1>4. CASE UNCHANGED trailVars \/ Created \/ NotResumed
  <2>1. /\ events' = events /\ refused' = refused /\ announced' = announced
        /\ saved' = saved /\ exec' = exec
    BY <1>4 DEF trailVars, trail, vars, Created, CreateWorkflow, NotResumed, ResumeRefused
  <2>2. Coming' = Coming
    BY <2>1, ComingStays
  <2> QED BY <1>1, <2>1, <2>2 DEF ToldInv
<1>5. CASE Crashed
  <2>1. /\ events' = events /\ refused' = refused /\ announced' = None
        /\ saved' = saved /\ (exec' = exec \/ exec' = None)
    BY <1>5 DEF vars, Crashed, Crash
  <2> QED BY <1>1, <2>1 DEF ToldInv
<1>6. CASE Recorded \/ RecordedLate
  <2>1. /\ \/ \E event : Record(event)
           \/ events' = events /\ refused' = refused
        /\ saved' = saved /\ exec' = exec /\ announced' = announced
    BY <1>6 DEF vars, Recorded, RecordedLate, Record
  <2>2. Coming' = Coming
    BY <2>1, ComingStays
  <2>3. CASE events' = events /\ refused' = refused
    BY <1>1, <2>1, <2>2, <2>3 DEF ToldInv
  <2>4. CASE \E event : Record(event)
    BY <1>1, <1>3, <2>1, <2>2, <2>4 DEF ToldInv
  <2> QED BY <2>1, <2>3, <2>4
<1>7. CASE Started \/ Queued \/ Retried \/ GivenUp
  <2>1. /\ events' = events /\ refused' = refused /\ announced' = None
        /\ saved' = saved /\ (exec' = exec \/ exec'.steps = <<>>)
    BY <1>7 DEF Started, StartSync, StartQueued, Start, NewExecution, Queued, CreateQueued,
                Retried, MarkRetry, GivenUp, GiveUp, Owes
  <2> QED BY <1>1, <2>1, NothingTold DEF ToldInv
<1>8. CASE NotExecuted
  <2>1. /\ events' = events /\ refused' = refused /\ announced = None /\ announced' = None
        /\ (saved' = saved \/ saved' = <<>>) /\ exec' = exec
    BY <1>8 DEF NotExecuted, Ready, trail, Enqueue, EnqueueRefused, LookupFails, FailWithoutSteps
  <2> QED BY <1>1, <2>1, NothingTold DEF ToldInv
<1>9. CASE AnnouncePause \/ AnnounceFailure \/ AnnounceDecision
  <2>1. /\ \E event : Record(event)
        /\ saved' = saved /\ exec' = exec
    BY <1>9 DEF vars, AnnouncePause, AnnounceFailure, AnnounceDecision, Announce
  <2>2. ToldBy(Coming', events', refused')
    BY <1>9, AnnouncedTold
  <2>3. IsEvents(events') /\ ToldBy(saved', events', refused')
    BY <1>1, <1>3, <2>1
  <2>4. exec' # None => ToldBy(exec'.steps, events', refused')
    BY <1>1, <1>3, <2>1
  <2> QED BY <2>2, <2>3, <2>4 DEF ToldInv
<1>10. CASE Succeeded
  <2>1. exec # None /\ saved' = saved /\ announced' = None
    BY <1>10 DEF Succeeded, Ready, NodeSucceeds, Turn, Running
  <2>2. PICK output \in {"true", "false", "done"} :
            exec'.steps = Append(exec.steps, Step(Current, "completed", output))
    BY <1>10 DEF Succeeded, NodeSucceeds
  <2> DEFINE x == Step(Current, "completed", output)
             event == OfStep("step_completed", Current.id)
  <2>3. Record(event)
    BY <1>10 DEF Succeeded
  <2>4. StepLike(x) /\ Tells(event, x)
    BY StepIsStep, StepEventTells
  <2>5. exec'.steps = Append(exec.steps, x)
    BY <2>2
  <2> HIDE DEF x, event
  <2>6. /\ IsEvents(events') /\ Further(events', events, refused', refused, event)
        /\ ToldBy(saved, events', refused')
    BY <1>1, <1>3, <2>3
  <2>7. ToldBy(Append(exec.steps, x), events', refused')
    BY <1>1, <1>2, <2>1, <2>4, <2>6, LastTold
  <2> QED BY <2>1, <2>5, <2>6, <2>7 DEF ToldInv
<1>11. CASE Paused
  <2>1. /\ announced = Pausing /\ announced' = None /\ events' = events /\ refused' = refused
        /\ saved' = Append(exec.steps, Step(Current, "waiting_approval", "message"))
        /\ exec' = None
    BY <1>11 DEF Paused, Pause
  <2>2. announced # None /\ saved' = Coming
    BY <2>1, StepEventIsSome DEF Coming, Pausing, OfStep, Step
  <2> QED BY <1>1, <2>1, <2>2 DEF ToldInv
<1>12. CASE FailedAt
  <2>1. /\ announced = Failing /\ announced' = None /\ events' = events /\ refused' = refused
        /\ saved' = Append(exec.steps, Step(Current, "failed", "nil"))
        /\ exec' = None
    BY <1>12 DEF FailedAt, NodeFails, Owes
  <2>2. announced # None /\ saved' = Coming
    BY <2>1, StepEventIsSome DEF Coming, Failing, OfStep, Step
  <2> QED BY <1>1, <2>1, <2>2 DEF ToldInv
<1>13. CASE Completed
  <2>1. /\ exec # None /\ saved' = exec.steps /\ exec' = None
        /\ events' = events /\ refused' = refused /\ announced' = None
    BY <1>13 DEF Completed, Complete, Running, Owes
  <2> QED BY <1>1, <2>1 DEF ToldInv
<1>14. CASE Approved \/ Rejected
  <2>1. /\ announced = Decided /\ announced' = None /\ events' = events /\ refused' = refused
        /\ \/ saved' = saved /\ exec'.steps = Resolved
           \/ saved' = Resolved /\ exec' = exec
    BY <1>14 DEF Approved, Approve, StateFromPending, WithDecision, Rejected, Reject, Owes
  <2>2. announced # None /\ Coming = Resolved
    BY <2>1, StepEventIsSome DEF Coming, Decided, OfStep
  <2> HIDE DEF Resolved
  <2> QED BY <1>1, <2>1, <2>2 DEF ToldInv
<1> QED BY <1>4, <1>5, <1>6, <1>7, <1>8, <1>9, <1>10, <1>11, <1>12, <1>13, <1>14 DEF TrailNext

\* With the memory repository the events tell of every step that the run lists, in
\* order, over pauses, decisions, retries and crashes, but for events that were
\* refused.  With Postgres they do not: it refuses all the events about steps.
THEOREM StepsTold ==
    ASSUME ~Postgres
    PROVE  TrailSpec => []StepsAreAudited
<1>1. TrailInit => ToldInv
  <2> SUFFICES ASSUME TrailInit PROVE ToldInv
    OBVIOUS
  <2>1. events = <<>> /\ saved = <<>> /\ exec = None /\ announced = None
    BY DEF TrailInit, Init
  <2>2. <<>> \in Seq({})
    BY EmptySeq
  <2> QED BY <2>1, <2>2, NothingTold DEF ToldInv, IsEvents
<1>2. ToldInv /\ EngineInv => StepsAreAudited
  <2> SUFFICES ASSUME ToldInv, EngineInv PROVE AreTold(saved)
    BY DEF StepsAreAudited
  <2>1. DOMAIN saved = 1..Len(saved)
    BY StepsTyped DEF EngineInv
  <2>2. DOMAIN events = 1..Len(events)
    BY LenProperties DEF ToldInv, IsEvents
  <2> QED BY <2>1, <2>2 DEF ToldInv, ToldBy, AreTold, Heard
<1>3. ToldInv /\ EngineInv /\ [TrailNext]_trailVars => ToldInv'
  BY ToldStep
<1> QED BY <1>1, <1>2, <1>3, TrailFollowsEngine, MemoryFitsRow, PTL DEF TrailSpec
===============================================================================
