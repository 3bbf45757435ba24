------------------------------- MODULE Triggers -------------------------------
(***************************************************************************)
(* Requests that trigger a run: the idempotency key is looked up, quota is *)
(* reserved, the run is created and executed, and the key is stored.  Each *)
(* of these is one call; TriggerControl holds its mutex during a call and  *)
(* not between them, so requests with one key may overtake each other.     *)
(* A run is named by the request that created it.                          *)
(***************************************************************************)
EXTENDS Integers, FiniteSets

CONSTANTS
    Requests,   \* requests to handleExecuteWorkflow
    Tenants,
    Keys,       \* idempotency keys
    Prints,     \* fingerprints of mode, workflow and input
    Limit,      \* TenantExecuteLimit, 0 for no limit
    Window,     \* TenantExecuteWindow, in units of the clock
    MaxTime,    \* bound on the clock
    Faults      \* whether a run that was stored may fail to be read

ASSUME LimitAssumption == Limit \in Nat
ASSUME WindowAssumption == Window \in Nat \ {0} /\ MaxTime \in Nat
ASSUME FaultsAssumption == Faults \in BOOLEAN

VARIABLES
    now,        \* the clock
    quotas,     \* TriggerControl: the window of each tenant, or None
    records,    \* TriggerControl: what is stored under each key, or None
    request,    \* where each request stands
    runs,       \* the requests that created a run
    grants,     \* history: when each request was granted quota
    unread      \* history: requests whose lookup found a run it could not read

vars == <<now, quotas, records, request, runs, grants, unread>>

None  == [none |-> TRUE]
NoKey == "no key"   \* the header is absent or blank
New   == [pc |-> "new"]

ASSUME NoKeyAssumption == NoKey \notin Keys

Answers == {"replay", "created", "conflict", "limited", "error"}

Init ==
    /\ now = 0
    /\ quotas = [t \in Tenants |-> None]
    /\ records = [x \in Tenants \X Keys |-> None]
    /\ request = [q \in Requests |-> New]
    /\ runs = {}
    /\ grants = {}
    /\ unread = {}

Tick ==
    /\ now < MaxTime
    /\ now' = now + 1
    /\ UNCHANGED <<quotas, records, request, runs, grants, unread>>

Goto(q, pc) == request' = [request EXCEPT ![q].pc = pc]

Answered(q, answer, run) ==
    request' = [request EXCEPT ![q] = [pc |-> "answered", tenant |-> @.tenant, key |-> @.key,
                                       print |-> @.print, again |-> @.again,
                                       answer |-> answer, run |-> run]]

IsAnswered(q, answers) == request[q].pc = "answered" /\ request[q].answer \in answers

\* `again` is history: when the request arrived, one with the same key and
\* content had created its run and been answered.  Nobody looks at the content
\* of a request without a key.
Arrive(q) ==
    /\ request[q] = New
    /\ \E t \in Tenants, k \in Keys \union {NoKey} :
      \E p \in IF k = NoKey THEN {None} ELSE Prints :
        request' = [request EXCEPT ![q] =
            [pc |-> "lookup", tenant |-> t, key |-> k, print |-> p,
             again |-> \E e \in Requests :
                        /\ IsAnswered(e, {"created"}) /\ k # NoKey
                        /\ request[e].tenant = t /\ request[e].key = k /\ request[e].print = p]]
    /\ UNCHANGED <<now, quotas, records, runs, grants, unread>>

Record(q) == IF request[q].key = NoKey THEN None
             ELSE records[request[q].tenant, request[q].key]

\* Broken variant: whatever is stored under the key is replayed.
LookupIgnoresPrint(q) ==
    /\ request[q].pc = "lookup"
    /\ \/ Record(q) = None /\ Goto(q, "reserve")
       \/ Record(q) # None /\ Answered(q, "replay", Record(q).run)
    /\ UNCHANGED <<now, quotas, records, runs, grants, unread>>

Lookup(q) ==
    /\ request[q].pc = "lookup"
    /\ \/ Record(q) = None /\ Goto(q, "reserve")
       \/ /\ Record(q) # None /\ Record(q).print = request[q].print
          /\ Answered(q, "replay", Record(q).run)
       \/ /\ Record(q) # None /\ Record(q).print # request[q].print
          /\ Answered(q, "conflict", None)
    /\ UNCHANGED <<now, quotas, records, runs, grants, unread>>

\* LookupIdempotentRun takes an error of GetRun for a key that was not used.
LookupFindsNoRun(q) ==
    /\ Faults
    /\ request[q].pc = "lookup"
    /\ Record(q) # None /\ Record(q).print = request[q].print
    /\ Goto(q, "reserve")
    /\ unread' = unread \union {q}
    /\ UNCHANGED <<now, quotas, records, runs, grants>>

-----------------------------------------------------------------------------
(* Allow: a fixed window per tenant, opened by the first request behind the  *)
(* end of the previous one.                                                  *)

\* Broken variant: the window still counts at the moment it ends.
IsOverLate(bucket) == bucket = None \/ now - bucket.start > Window

IsOver(bucket) == bucket = None \/ now - bucket.start >= Window

Bucket(t) == IF IsOver(quotas[t]) THEN [start |-> now, count |-> 0] ELSE quotas[t]

\* Broken variant: the window does not count the request.
AllowUncounted(q) ==
    /\ request[q].pc = "reserve"
    /\ LET t == request[q].tenant IN
        \/ Limit = 0 /\ Goto(q, "execute") /\ UNCHANGED <<quotas, grants>>
        \/ /\ Limit > 0 /\ Bucket(t).count >= Limit
           /\ Answered(q, "limited", None)
           /\ UNCHANGED <<quotas, grants>>
        \/ /\ Limit > 0 /\ Bucket(t).count < Limit
           /\ quotas' = [quotas EXCEPT ![t] = Bucket(t)]
           /\ grants' = grants \union {[request |-> q, tenant |-> t, at |-> now]}
           /\ Goto(q, "execute")
    /\ UNCHANGED <<now, records, runs, unread>>

Allow(q) ==
    /\ request[q].pc = "reserve"
    /\ LET t == request[q].tenant IN
        \/ Limit = 0 /\ Goto(q, "execute") /\ UNCHANGED <<quotas, grants>>
        \/ /\ Limit > 0 /\ Bucket(t).count >= Limit
           /\ Answered(q, "limited", None)
           /\ UNCHANGED <<quotas, grants>>
        \/ /\ Limit > 0 /\ Bucket(t).count < Limit
           /\ quotas' = [quotas EXCEPT ![t] = [Bucket(t) EXCEPT !.count = @ + 1]]
           /\ grants' = grants \union {[request |-> q, tenant |-> t, at |-> now]}
           /\ Goto(q, "execute")
    /\ UNCHANGED <<now, records, runs, unread>>

\* The run is created; its execution or its job may end in an error all the same.
Execute(q) ==
    /\ request[q].pc = "execute"
    /\ runs' = runs \union {q}
    /\ Goto(q, "store") \/ Answered(q, "error", None)
    /\ UNCHANGED <<now, quotas, records, grants, unread>>

\* Unknown mode or workflow: the quota is spent, no run is created.
ExecuteRefused(q) ==
    /\ request[q].pc = "execute"
    /\ Answered(q, "error", None)
    /\ UNCHANGED <<now, quotas, records, runs, grants, unread>>

\* Broken variant: the record of another request is overwritten.
StoreOverwrites(q) ==
    /\ request[q].pc = "store"
    /\ Answered(q, "created", q)
    /\ records' = [x \in DOMAIN records |->
                     IF x = <<request[q].tenant, request[q].key>>
                     THEN [print |-> request[q].print, run |-> q] ELSE records[x]]
    /\ UNCHANGED <<now, quotas, runs, grants, unread>>

Store(q) ==
    /\ request[q].pc = "store"
    /\ \/ /\ Record(q) # None /\ Record(q).print # request[q].print
          /\ Answered(q, "conflict", None)
          /\ UNCHANGED records
       \/ /\ Record(q) # None => Record(q).print = request[q].print
          /\ Answered(q, "created", q)
          /\ records' = [x \in DOMAIN records |->
                            IF x = <<request[q].tenant, request[q].key>>
                            THEN [print |-> request[q].print, run |-> q] ELSE records[x]]
    /\ UNCHANGED <<now, quotas, runs, grants, unread>>

Next ==
    \/ Tick
    \/ \E q \in Requests :
        \/ Arrive(q) \/ Lookup(q) \/ LookupFindsNoRun(q)
        \/ Allow(q) \/ Execute(q) \/ ExecuteRefused(q) \/ Store(q)

Spec == Init /\ [][Next]_vars

-----------------------------------------------------------------------------
(* Properties. *)

Asked == [pc: {"lookup", "reserve", "execute", "store"}, tenant: Tenants,
          key: Keys \union {NoKey}, print: Prints \union {None}, again: BOOLEAN]
Told  == [pc: {"answered"}, tenant: Tenants, key: Keys \union {NoKey}, print: Prints \union {None},
          again: BOOLEAN, answer: Answers, run: Requests \union {None}]

\* No window of a tenant counts more than Limit requests (Allow).
TypeOK ==
    /\ now \in 0..MaxTime
    /\ quotas \in [Tenants -> {None} \union [start: 0..MaxTime, count: 1..Limit]]
    /\ records \in [Tenants \X Keys -> {None} \union [print: Prints, run: Requests]]
    /\ request \in [Requests -> {New} \union Asked \union Told]
    /\ runs \subseteq Requests
    /\ grants \subseteq [request: Requests, tenant: Tenants, at: 0..MaxTime]
    /\ unread \subseteq Requests

GrantsSince(t, from) == {g \in grants : g.tenant = t /\ g.at >= from}

\* A tenant is refused only when all of its quota was granted within the last
\* window, and never at or behind the reset time it was told (Allow).
LimitedOnlyWhenExhausted ==
    [][\A q \in Requests :
        IsAnswered(q, {"limited"})' /\ ~IsAnswered(q, {"limited"}) =>
            Cardinality(GrantsSince(request[q].tenant, now - Window + 1)) >= Limit]_vars

\* Windows are opened by requests and not by the clock, so a span of one window
\* meets two of them at most, the first without the request that opened it: no
\* tenant is granted twice its limit within any such span.
BurstsAreBounded ==
    Limit > 0 => \A t \in Tenants, from \in 0..MaxTime :
        Cardinality({g \in GrantsSince(t, from) : g.at < from + Window}) < 2 * Limit

SameRequest(p, q) ==
    /\ request[p].key # NoKey
    /\ request[p].tenant = request[q].tenant /\ request[p].key = request[q].key
    /\ request[p].print = request[q].print

\* A replayed run was created by a request of the same tenant with the same key
\* and the same content, however the two calls of the control were overtaken.
ReplaysAreFaithful ==
    \A q \in Requests : IsAnswered(q, {"replay"}) =>
        request[q].run \in runs /\ SameRequest(request[q].run, q)

\* A client that repeats a request after it was answered gets the replay of a
\* run, provided that the run can be read: no second run, no charge, and no
\* conflict with a request that raced for the key with different content
\* (Lookup, Store); "expected replay header to be set"
\* (tests/integration/limits_test.go:42).
RepeatsAreReplayed ==
    \A q \in {p \in Requests : request[p] # New} \ unread :
        request[q].again => request[q].pc = "lookup" \/ IsAnswered(q, {"replay"})

\* "expected same run id on replay" (tests/integration/limits_test.go:52).
SameRunForSameKey ==
    \A p, q \in Requests :
        /\ IsAnswered(p, {"created", "replay"}) /\ IsAnswered(q, {"created", "replay"})
        /\ SameRequest(p, q)
        => request[p].run = request[q].run

\* "TestWorkflowExecuteRejectsIdempotencyMismatch" (limits_test.go:56): a request
\* that is told the key was used with a different request was not executed.
ConflictsAreNotExecuted ==
    \A q \in Requests : IsAnswered(q, {"conflict"}) => q \notin runs
=============================================================================
