---------------------------- MODULE TriggersProofs ----------------------------
(***************************************************************************)
(* Proofs about Triggers, for any number of requests, tenants and keys,    *)
(* any limit and any window: what is replayed, when a tenant is refused    *)
(* and how many requests it can be granted within one window.              *)
(***************************************************************************)
EXTENDS Triggers, FiniteSetTheorems, TLAPS

\* A request that has arrived.
Arrived(q) == request[q] \in Asked \union Told

\* Requests with a key have a fingerprint.
KeyedPrints == \A q \in Requests :
    Arrived(q) /\ request[q].key # NoKey => request[q].print \in Prints

Typed == TypeOK /\ KeyedPrints

\* The fields that a request keeps once it has arrived.
Keeps(q) ==
    /\ request'[q].tenant = request[q].tenant /\ request'[q].key = request[q].key
    /\ request'[q].print = request[q].print /\ request'[q].again = request[q].again

LEMMA Shapes ==
    ASSUME TypeOK, NEW q \in Requests
    PROVE  /\ request[q].pc \in {"lookup", "reserve", "execute", "store"} => request[q] \in Asked
           /\ request[q].pc = "answered" => request[q] \in Told
           /\ request[q] # New <=> Arrived(q)
           /\ request[q] = New \/ request[q] \in Asked \/ request[q] \in Told
           /\ request[q] \in Asked => request[q].pc # "answered" /\ request[q].pc # "new"
           /\ request[q] \in Told => request[q].pc = "answered"
           /\ Arrived(q) => /\ request[q].tenant \in Tenants
                            /\ request[q].key \in Keys \union {NoKey}
                            /\ request[q].print \in Prints \union {None}
                            /\ request[q].again \in BOOLEAN
    BY DEF TypeOK, New, Asked, Told, Arrived

\* A request goes on to its next call.
LEMMA Going ==
    ASSUME TypeOK, NEW q \in Requests, request[q] \in Asked,
           NEW pc \in {"lookup", "reserve", "execute", "store"}, Goto(q, pc)
    PROVE  /\ request' \in [Requests -> {New} \union Asked \union Told]
           /\ request'[q] \in Asked /\ request'[q].pc = pc /\ Keeps(q)
           /\ \A p \in Requests : p # q => request'[p] = request[p]
    <1>1. request \in [Requests -> {New} \union Asked \union Told]
        BY DEF TypeOK
    <1>2. request' = [request EXCEPT ![q] = [request[q] EXCEPT !.pc = pc]]
        BY DEF Goto
    <1> DEFINE new == [request[q] EXCEPT !.pc = pc]
    <1>3. /\ new \in Asked /\ new.pc = pc
          /\ new.tenant = request[q].tenant /\ new.key = request[q].key
          /\ new.print = request[q].print /\ new.again = request[q].again
        BY DEF Asked
    <1> HIDE DEF new
    <1> QED
        BY <1>1, <1>2, <1>3 DEF Keeps, new

\* A request is answered.
LEMMA Answering ==
    ASSUME TypeOK, NEW q \in Requests, request[q] \in Asked,
           NEW answer \in Answers, NEW run \in Requests \union {None}, Answered(q, answer, run)
    PROVE  /\ request' \in [Requests -> {New} \union Asked \union Told]
           /\ request'[q] \in Told /\ request'[q].pc = "answered" /\ Keeps(q)
           /\ request'[q].answer = answer /\ request'[q].run = run
           /\ \A p \in Requests : p # q => request'[p] = request[p]
    <1>1. request \in [Requests -> {New} \union Asked \union Told]
        BY DEF TypeOK
    <1> DEFINE new == [pc |-> "answered", tenant |-> request[q].tenant, key |-> request[q].key,
                       print |-> request[q].print, again |-> request[q].again,
                       answer |-> answer, run |-> run]
    <1>2. request' = [request EXCEPT ![q] = new]
        BY DEF Answered
    <1>3. /\ new.tenant = request[q].tenant /\ new.key = request[q].key
          /\ new.print = request[q].print /\ new.again = request[q].again
          /\ new.pc = "answered" /\ new.answer = answer /\ new.run = run
        OBVIOUS
    <1>4. new \in Told
        BY DEF Asked, Told
    <1> HIDE DEF new
    <1> QED
        BY <1>1, <1>2, <1>3, <1>4 DEF Keeps

\* What a step of a request that has arrived does to it.
Proceeds(q) ==
    /\ request[q] \in Asked /\ Keeps(q)
    /\ request'[q] \in Asked \union Told
    /\ request' \in [Requests -> {New} \union Asked \union Told]
    /\ \A p \in Requests : p # q => request'[p] = request[p]

\* What is stored under the key of a request.
LEMMA RecordAt ==
    ASSUME NEW q \in Requests
    PROVE  /\ request[q].key = NoKey => Record(q) = None
           /\ request[q].key # NoKey =>
                Record(q) = records[<<request[q].tenant, request[q].key>>]
    BY Zenon DEF Record

LEMMA RecordTyped ==
    ASSUME Typed, NEW q \in Requests, Arrived(q)
    PROVE  /\ Record(q) \in {None} \union [print: Prints, run: Requests]
           /\ Record(q) # None => request[q].key \in Keys /\ Record(q).run \in Requests
    <1>1. CASE request[q].key = NoKey
        BY <1>1, RecordAt
    <1>2. CASE request[q].key # NoKey
        <2>1. request[q].tenant \in Tenants /\ request[q].key \in Keys
            BY <1>2, Shapes DEF Typed
        <2>2. Record(q) \in {None} \union [print: Prints, run: Requests]
            <3>1. records \in [Tenants \X Keys -> {None} \union [print: Prints, run: Requests]]
                BY DEF Typed, TypeOK
            <3>2. <<request[q].tenant, request[q].key>> \in Tenants \X Keys
                BY <2>1
            <3> QED
                BY <1>2, <3>1, <3>2, RecordAt
        <2>3. Record(q) # None => Record(q).run \in Requests
            BY <2>2
        <2> QED
            BY <2>1, <2>2, <2>3
    <1> QED
        BY <1>1, <1>2

LEMMA LookupProceeds ==
    ASSUME Typed, NEW q \in Requests, Lookup(q) \/ LookupFindsNoRun(q)
    PROVE  /\ Proceeds(q) /\ request[q].pc = "lookup"
           /\ UNCHANGED <<now, quotas, records, runs, grants>>
           /\ unread' \in {unread, unread \union {q}}
           /\ \/ request'[q].pc = "reserve" /\ (Record(q) = None \/ q \in unread')
              \/ /\ request'[q].pc = "answered" /\ request'[q].answer = "replay"
                 /\ Record(q) # None /\ Record(q).print = request[q].print
                 /\ request'[q].run = Record(q).run
              \/ /\ request'[q].pc = "answered" /\ request'[q].answer = "conflict"
                 /\ Record(q) # None /\ Record(q).print # request[q].print
    <1>1. /\ request[q].pc = "lookup" /\ UNCHANGED <<now, quotas, records, runs, grants>>
          /\ unread' \in {unread, unread \union {q}}
        BY DEF Lookup, LookupFindsNoRun
    <1>2. request[q] \in Asked /\ Arrived(q)
        BY <1>1, Shapes DEF Typed, Arrived
    <1>3. CASE Goto(q, "reserve") /\ (Record(q) = None \/ q \in unread')
        BY <1>1, <1>2, <1>3, Going DEF Typed, Proceeds
    <1>4. CASE /\ Record(q) # None /\ Record(q).print = request[q].print
               /\ Answered(q, "replay", Record(q).run)
        <2>1. Record(q).run \in Requests /\ "replay" \in Answers
            BY <1>2, <1>4, RecordTyped DEF Answers
        <2> QED
            BY <1>1, <1>2, <1>4, <2>1, Answering DEF Typed, Proceeds
    <1>5. CASE /\ Record(q) # None /\ Record(q).print # request[q].print
               /\ Answered(q, "conflict", None)
        <2>1. "conflict" \in Answers
            BY DEF Answers
        <2> QED
            BY <1>1, <1>2, <1>5, <2>1, Answering DEF Typed, Proceeds
    <1> QED
        BY <1>3, <1>4, <1>5 DEF Lookup, LookupFindsNoRun

\* The window of a tenant when one more request was granted.
Charged(t) == [Bucket(t) EXCEPT !.count = @ + 1]

LEMMA AllowProceeds ==
    ASSUME Typed, NEW q \in Requests, Allow(q)
    PROVE  /\ Proceeds(q) /\ request[q].pc = "reserve"
           /\ UNCHANGED <<now, records, runs, unread>>
           /\ \/ /\ Limit = 0 /\ request'[q].pc = "execute"
                 /\ UNCHANGED <<quotas, grants>>
              \/ /\ request'[q].pc = "answered" /\ request'[q].answer = "limited"
                 /\ Limit > 0 /\ Bucket(request[q].tenant).count >= Limit
                 /\ UNCHANGED <<quotas, grants>>
              \/ /\ request'[q].pc = "execute"
                 /\ Limit > 0 /\ Bucket(request[q].tenant).count < Limit
                 /\ quotas' = [quotas EXCEPT ![request[q].tenant] = Charged(request[q].tenant)]
                 /\ grants' = grants \union
                        {[request |-> q, tenant |-> request[q].tenant, at |-> now]}
    <1>1. request[q].pc = "reserve" /\ UNCHANGED <<now, records, runs, unread>>
        BY DEF Allow
    <1>2. request[q] \in Asked
        BY <1>1, Shapes DEF Typed
    <1>3. CASE Goto(q, "execute")
        <2>1. /\ Proceeds(q) /\ request'[q].pc = "execute"
            BY <1>2, <1>3, Going DEF Typed, Proceeds
        <2>2. request'[q] # [request[q] EXCEPT !.pc = "answered"]
            BY <1>2, <2>1 DEF Asked
        <2>3. ~Answered(q, "limited", None)
            <3>1. ASSUME Answered(q, "limited", None) PROVE FALSE
                <4>1. request'[q].pc = "answered"
                    BY <1>2, <3>1, Answering DEF Typed, Answers
                <4> QED
                    BY <2>1, <4>1
            <3> QED
                BY <3>1
        <2> QED
            BY <1>1, <2>1, <2>3 DEF Allow, Charged
    <1>4. CASE Answered(q, "limited", None)
        <2>1. "limited" \in Answers
            BY DEF Answers
        <2>2. /\ Proceeds(q) /\ request'[q].pc = "answered" /\ request'[q].answer = "limited"
            BY <1>2, <1>4, <2>1, Answering DEF Typed, Proceeds
        <2>3. ~Goto(q, "execute")
            BY <1>2, <2>2, Going DEF Typed
        <2> QED
            BY <1>1, <2>2, <2>3 DEF Allow, Charged
    <1> QED
        BY <1>3, <1>4 DEF Allow

LEMMA ExecuteProceeds ==
    ASSUME Typed, NEW q \in Requests, Execute(q) \/ ExecuteRefused(q)
    PROVE  /\ Proceeds(q) /\ request[q].pc = "execute"
           /\ UNCHANGED <<now, quotas, records, grants, unread>>
           /\ runs' \in {runs, runs \union {q}}
           /\ \/ request'[q].pc = "store" /\ q \in runs'
              \/ request'[q].pc = "answered" /\ request'[q].answer = "error"
    <1>1. /\ request[q].pc = "execute" /\ UNCHANGED <<now, quotas, records, grants, unread>>
          /\ runs' \in {runs, runs \union {q}}
        BY DEF Execute, ExecuteRefused
    <1>2. request[q] \in Asked /\ "error" \in Answers
        BY <1>1, Shapes DEF Typed, Answers
    <1>3. CASE Goto(q, "store") /\ q \in runs'
        BY <1>1, <1>2, <1>3, Going DEF Typed, Proceeds
    <1>4. CASE Answered(q, "error", None)
        BY <1>1, <1>2, <1>4, Answering DEF Typed, Proceeds
    <1> QED
        BY <1>3, <1>4 DEF Execute, ExecuteRefused

\* What Store writes, and where.
LEMMA StoreProceeds ==
    ASSUME Typed, NEW q \in Requests, Store(q)
    PROVE  /\ Proceeds(q) /\ request[q].pc = "store" /\ request'[q].pc = "answered"
           /\ UNCHANGED <<now, quotas, runs, grants, unread>>
           /\ \/ /\ request'[q].answer = "conflict" /\ UNCHANGED records
              \/ /\ request'[q].answer = "created" /\ request'[q].run = q
                 /\ Record(q) # None => Record(q).print = request[q].print
                 /\ \A t \in Tenants, k \in Keys :
                        records'[<<t, k>>] =
                            IF t = request[q].tenant /\ k = request[q].key
                            THEN [print |-> request[q].print, run |-> q] ELSE records[<<t, k>>]
                 /\ records' \in [Tenants \X Keys -> {None} \union [print: Prints, run: Requests]]
    <1>1. request[q].pc = "store" /\ UNCHANGED <<now, quotas, runs, grants, unread>>
        BY DEF Store
    <1>2. request[q] \in Asked /\ "conflict" \in Answers /\ "created" \in Answers
        BY <1>1, Shapes DEF Typed, Answers
    <1>3. CASE Answered(q, "conflict", None) /\ UNCHANGED records
        BY <1>1, <1>2, <1>3, Answering DEF Typed, Proceeds
    <1>4. CASE /\ Record(q) # None => Record(q).print = request[q].print
               /\ Answered(q, "created", q)
               /\ records' = [x \in DOMAIN records |->
                            IF x = <<request[q].tenant, request[q].key>>
                            THEN [print |-> request[q].print, run |-> q] ELSE records[x]]
        <2>1. /\ Proceeds(q) /\ request'[q].pc = "answered"
              /\ request'[q].answer = "created" /\ request'[q].run = q
            BY <1>2, <1>4, Answering DEF Typed, Proceeds
        <2>2. records \in [Tenants \X Keys -> {None} \union [print: Prints, run: Requests]]
            BY DEF Typed, TypeOK
        <2>3. DOMAIN records = Tenants \X Keys
            BY <2>2
        <2>4. request[q].tenant \in Tenants /\ request[q].key \in Keys \union {NoKey}
            BY <1>2 DEF Asked
        <2>5. request[q].key \in Keys => request[q].print \in Prints
            BY <1>2, NoKeyAssumption DEF Typed, KeyedPrints, Arrived
        <2>6. records' \in [Tenants \X Keys -> {None} \union [print: Prints, run: Requests]]
            BY <1>4, <2>2, <2>3, <2>4, <2>5
        <2>7. \A t \in Tenants, k \in Keys :
                        records'[<<t, k>>] =
                            IF t = request[q].tenant /\ k = request[q].key
                            THEN [print |-> request[q].print, run |-> q] ELSE records[<<t, k>>]
            BY <1>4, <2>3
        <2> QED
            BY <1>1, <1>4, <2>1, <2>6, <2>7
    <1> QED
        BY <1>3, <1>4 DEF Store

\* A request arrives; when it is a repetition, it has a key.
LEMMA ArriveProceeds ==
    ASSUME Typed, NEW q \in Requests, Arrive(q)
    PROVE  /\ UNCHANGED <<now, quotas, records, runs, grants, unread>>
           /\ request[q] = New /\ request'[q] \in Asked /\ request'[q].pc = "lookup"
           /\ request'[q].key # NoKey => request'[q].print \in Prints
           /\ request'[q].again =>
                /\ request'[q].key # NoKey
                /\ \E e \in Requests :
                    /\ IsAnswered(e, {"created"})
                    /\ request[e].tenant = request'[q].tenant /\ request[e].key = request'[q].key
                    /\ request[e].print = request'[q].print
           /\ request' \in [Requests -> {New} \union Asked \union Told]
           /\ \A p \in Requests : p # q => request'[p] = request[p]
    <1>1. request[q] = New /\ UNCHANGED <<now, quotas, records, runs, grants, unread>>
        BY DEF Arrive
    <1>2. PICK t \in Tenants, k \in Keys \union {NoKey} :
            \E p \in IF k = NoKey THEN {None} ELSE Prints :
                request' = [request EXCEPT ![q] =
                    [pc |-> "lookup", tenant |-> t, key |-> k, print |-> p,
                     again |-> \E e \in Requests :
                        /\ IsAnswered(e, {"created"}) /\ k # NoKey
                        /\ request[e].tenant = t /\ request[e].key = k /\ request[e].print = p]]
        BY DEF Arrive
    <1>3. PICK p \in IF k = NoKey THEN {None} ELSE Prints :
                request' = [request EXCEPT ![q] =
                    [pc |-> "lookup", tenant |-> t, key |-> k, print |-> p,
                     again |-> \E e \in Requests :
                        /\ IsAnswered(e, {"created"}) /\ k # NoKey
                        /\ request[e].tenant = t /\ request[e].key = k /\ request[e].print = p]]
        BY <1>2
    <1>4. PICK again \in BOOLEAN :
            again <=> \E e \in Requests :
                        /\ IsAnswered(e, {"created"}) /\ k # NoKey
                        /\ request[e].tenant = t /\ request[e].key = k /\ request[e].print = p
        OBVIOUS
    <1> DEFINE new == [pc |-> "lookup", tenant |-> t, key |-> k, print |-> p, again |-> again]
    <1>5. request' = [request EXCEPT ![q] = new]
        BY <1>3, <1>4, Zenon
    <1>6. new \in Asked
        BY <1>3 DEF Asked
    <1>7. /\ new.pc = "lookup" /\ new.tenant = t /\ new.key = k /\ new.print = p
          /\ new.again = again
        OBVIOUS
    <1> HIDE DEF new
    <1>8. request \in [Requests -> {New} \union Asked \union Told]
        BY DEF Typed, TypeOK
    <1>9. /\ request'[q] = new
          /\ request' \in [Requests -> {New} \union Asked \union Told]
          /\ \A s \in Requests : s # q => request'[s] = request[s]
        BY <1>5, <1>6, <1>8
    <1>10. k # NoKey => p \in Prints
        BY <1>3
    <1> QED
        BY <1>1, <1>4, <1>6, <1>7, <1>9, <1>10

LEMMA BucketTyped ==
    ASSUME TypeOK, NEW t \in Tenants, Limit > 0
    PROVE  /\ Bucket(t) \in [start: 0..MaxTime, count: 0..Limit]
           /\ quotas[t] # None => quotas[t] \in [start: 0..MaxTime, count: 1..Limit]
           /\ IsOver(quotas[t]) => Bucket(t).start = now /\ Bucket(t).count = 0
           /\ ~IsOver(quotas[t]) => Bucket(t) = quotas[t] /\ quotas[t] # None
    <1>1. quotas[t] \in {None} \union [start: 0..MaxTime, count: 1..Limit] /\ now \in 0..MaxTime
        BY DEF TypeOK
    <1>2. quotas[t] # None => quotas[t] \in [start: 0..MaxTime, count: 1..Limit]
        BY <1>1
    <1>3. CASE IsOver(quotas[t])
        <2>1. Bucket(t) = [start |-> now, count |-> 0]
            BY <1>3 DEF Bucket
        <2> QED
            BY <1>1, <1>3, <2>1, LimitAssumption, WindowAssumption
    <1>4. CASE ~IsOver(quotas[t])
        <2>1. Bucket(t) = quotas[t] /\ quotas[t] # None
            BY <1>4 DEF Bucket, IsOver
        <2>2. Bucket(t) \in [start: 0..MaxTime, count: 0..Limit]
            BY <1>2, <2>1, LimitAssumption, WindowAssumption
        <2> QED
            BY <1>2, <1>4, <2>1, <2>2
    <1> QED
        BY <1>3, <1>4

\* The window that a granted request leaves behind.
LEMMA GrantTyped ==
    ASSUME TypeOK, NEW t \in Tenants, Limit > 0, Bucket(t).count < Limit,
           quotas' = [quotas EXCEPT ![t] = Charged(t)]
    PROVE  /\ quotas' \in [Tenants -> {None} \union [start: 0..MaxTime, count: 1..Limit]]
           /\ quotas'[t].start = Bucket(t).start /\ quotas'[t].count = Bucket(t).count + 1
           /\ quotas'[t] # None
           /\ \A s \in Tenants : s # t => quotas'[s] = quotas[s]
    <1> DEFINE new == [start |-> Bucket(t).start, count |-> Bucket(t).count + 1]
    <1>1. quotas \in [Tenants -> {None} \union [start: 0..MaxTime, count: 1..Limit]]
        BY DEF TypeOK
    <1>2. Charged(t) = new
        <2>1. PICK b \in [start: 0..MaxTime, count: 0..Limit] : b = Bucket(t)
            BY BucketTyped
        <2>2. [b EXCEPT !.count = @ + 1] = [start |-> b.start, count |-> b.count + 1]
            OBVIOUS
        <2> QED
            BY <2>1, <2>2, Zenon DEF Charged
    <1>3. Bucket(t).start \in 0..MaxTime /\ Bucket(t).count + 1 \in 1..Limit
        BY BucketTyped, LimitAssumption
    <1>4. new \in [start: 0..MaxTime, count: 1..Limit]
        BY <1>3
    <1>5. new.start = Bucket(t).start /\ new.count = Bucket(t).count + 1
        OBVIOUS
    <1>6. new # None
        BY DEF None
    <1> HIDE DEF new
    <1> QED
        BY <1>1, <1>2, <1>4, <1>5, <1>6

\* A request that proceeds keeps its key and its fingerprint.
LEMMA KeyedPrintsKept ==
    ASSUME Typed, NEW q \in Requests, Proceeds(q)
    PROVE  KeyedPrints'
    <1>1. SUFFICES ASSUME NEW p \in Requests, Arrived(p)', request'[p].key # NoKey
                   PROVE  request'[p].print \in Prints
        BY DEF KeyedPrints
    <1>2. CASE p = q
        BY <1>1, <1>2 DEF Typed, KeyedPrints, Proceeds, Keeps, Arrived
    <1>3. CASE p # q
        BY <1>1, <1>3 DEF Typed, KeyedPrints, Proceeds, Arrived
    <1> QED
        BY <1>2, <1>3

\* Every step keeps the types of the state.
LEMMA TypedStep ==
    ASSUME Typed, [Next]_vars
    PROVE  Typed'
    <1>1. CASE Tick
        BY <1>1, WindowAssumption DEF Tick, Typed, TypeOK, KeyedPrints, Arrived
    <1>2. CASE UNCHANGED vars
        BY <1>2 DEF vars, Typed, TypeOK, KeyedPrints, Arrived
    <1>3. ASSUME NEW q \in Requests, Arrive(q)
          PROVE  Typed'
        <2>1. TypeOK'
            BY <1>3, ArriveProceeds DEF Typed, TypeOK
        <2>2. KeyedPrints'
            BY <1>3, ArriveProceeds DEF Typed, KeyedPrints, Arrived
        <2> QED
            BY <2>1, <2>2 DEF Typed
    <1>4. ASSUME NEW q \in Requests, Lookup(q) \/ LookupFindsNoRun(q)
          PROVE  Typed'
        <2>1. TypeOK'
            BY <1>4, LookupProceeds DEF Typed, TypeOK, Proceeds
        <2> QED
            BY <1>4, <2>1, LookupProceeds, KeyedPrintsKept DEF Typed
    <1>5. ASSUME NEW q \in Requests, Allow(q)
          PROVE  Typed'
        <2>1. Proceeds(q) /\ request[q].tenant \in Tenants /\ TypeOK
            BY <1>5, AllowProceeds DEF Proceeds, Asked, Typed
        <2>2. quotas' \in [Tenants -> {None} \union [start: 0..MaxTime, count: 1..Limit]]
            BY <1>5, <2>1, AllowProceeds, GrantTyped DEF TypeOK
        <2>3. grants' \subseteq [request: Requests, tenant: Tenants, at: 0..MaxTime]
            BY <1>5, <2>1, AllowProceeds DEF TypeOK
        <2>4. TypeOK'
            BY <1>5, <2>1, <2>2, <2>3, AllowProceeds DEF TypeOK, Proceeds
        <2> QED
            BY <2>1, <2>4, KeyedPrintsKept DEF Typed
    <1>6. ASSUME NEW q \in Requests, Execute(q) \/ ExecuteRefused(q)
          PROVE  Typed'
        <2>1. TypeOK'
            BY <1>6, ExecuteProceeds DEF Typed, TypeOK, Proceeds
        <2> QED
            BY <1>6, <2>1, ExecuteProceeds, KeyedPrintsKept DEF Typed
    <1>7. ASSUME NEW q \in Requests, Store(q)
          PROVE  Typed'
        <2>0. /\ UNCHANGED <<now, quotas, runs, grants, unread>>
              /\ request' \in [Requests -> {New} \union Asked \union Told]
              /\ records' \in [Tenants \X Keys -> {None} \union [print: Prints, run: Requests]]
            BY <1>7, StoreProceeds DEF Proceeds, Typed, TypeOK
        <2>1. TypeOK'
            BY <2>0 DEF Typed, TypeOK
        <2> QED
            BY <1>7, <2>1, StoreProceeds, KeyedPrintsKept DEF Typed
    <1> QED
        BY <1>1, <1>2, <1>3, <1>4, <1>5, <1>6, <1>7 DEF Next

LEMMA TypedInitially == Init => Typed
    <1> SUFFICES ASSUME Init PROVE Typed
        OBVIOUS
    <1>1. records = [x \in Tenants \X Keys |-> None]
        BY DEF Init
    <1>2. records \in [Tenants \X Keys -> {None} \union [print: Prints, run: Requests]]
        BY <1>1
    <1>3. now \in 0..MaxTime
        BY WindowAssumption DEF Init
    <1>4. quotas \in [Tenants -> {None} \union [start: 0..MaxTime, count: 1..Limit]]
        <2>1. quotas = [t \in Tenants |-> None]
            BY DEF Init
        <2> QED
            BY <2>1
    <1>5. request \in [Requests -> {New}]
        <2>1. request = [q \in Requests |-> New]
            BY DEF Init
        <2> QED
            BY <2>1
    <1>6. runs = {} /\ grants = {} /\ unread = {}
        BY DEF Init
    <1>7. TypeOK
        BY <1>2, <1>3, <1>4, <1>5, <1>6 DEF TypeOK
    <1>8. KeyedPrints
        BY <1>5, <1>7 DEF KeyedPrints, Arrived, New, Asked, Told
    <1> QED
        BY <1>7, <1>8 DEF Typed

\* No window of a tenant ever counts more requests than the limit, and a request
\* moves through the calls of handleExecuteWorkflow with what it arrived with.
THEOREM WindowsAreWithinLimit == Spec => []TypeOK
    <1>1. Typed /\ [Next]_vars => Typed'
        BY TypedStep
    <1>2. Typed => TypeOK
        BY DEF Typed
    <1> QED
        BY <1>1, <1>2, TypedInitially, PTL DEF Spec

-----------------------------------------------------------------------------
(* Replays. *)

\* The request e created its run and was answered.
Created(e) == IsAnswered(e, {"created"})

\* Requests that arrived with the same tenant, key and content.
Alike(p, q) ==
    /\ request[p].tenant = request[q].tenant /\ request[p].key = request[q].key
    /\ request[p].print = request[q].print

\* The place where the key of a request is stored.
Slot(q) == <<request[q].tenant, request[q].key>>

\* What is stored under a key is the run of a request that used the key, and
\* the fingerprint of that request.
RecordsAreRuns == \A x \in Tenants \X Keys : records[x] # None =>
    /\ records[x].run \in runs /\ Created(records[x].run)
    /\ Slot(records[x].run) = x /\ request[records[x].run].print = records[x].print

\* What is stored under a key may change to another run, never to another
\* content: the requests that created a run agree with it.
CreatedAreRecorded == \A e \in Requests : Created(e) /\ request[e].key # NoKey =>
    records[Slot(e)] # None /\ records[Slot(e)].print = request[e].print

RunsPrecedeStore == \A q \in Requests : request[q].pc = "store" => q \in runs

\* A repetition repeats a request that was answered.
RepeatsAreKnown == \A q \in Requests : Arrived(q) /\ request[q].again =>
    request[q].key # NoKey /\ \E e \in Requests : Created(e) /\ Alike(e, q)

\* The requests that a replay answers: the run is that of an answered request.
ReplaysAreCreated == \A q \in Requests : IsAnswered(q, {"replay"}) =>
    /\ request[q].run \in runs /\ Created(request[q].run)
    /\ request[q].key # NoKey /\ Alike(request[q].run, q)

ReplayInv ==
    /\ Typed /\ RecordsAreRuns /\ CreatedAreRecorded /\ RunsPrecedeStore
    /\ RepeatsAreKnown /\ ReplaysAreCreated /\ RepeatsAreReplayed

\* What no step takes back: runs, runs that could not be read, and what an
\* arrived request asked for; a request that was answered does not change.
Onward ==
    /\ runs \subseteq runs' /\ unread \subseteq unread'
    /\ \A p \in Requests : Arrived(p) => Arrived(p)' /\ Keeps(p)
    /\ \A p \in Requests : request[p].pc = "answered" => request'[p] = request[p]

LEMMA ProceedsOnward ==
    ASSUME Typed, NEW q \in Requests, Proceeds(q), runs \subseteq runs', unread \subseteq unread'
    PROVE  Onward
    <1>1. ASSUME NEW p \in Requests, Arrived(p)
          PROVE  Arrived(p)' /\ Keeps(p)
        BY <1>1 DEF Proceeds, Keeps, Arrived
    <1>2. ASSUME NEW p \in Requests, request[p].pc = "answered"
          PROVE  request'[p] = request[p]
        BY <1>2, Shapes DEF Proceeds, Typed
    <1> QED
        BY <1>1, <1>2 DEF Onward

LEMMA StepsGoOnward ==
    ASSUME Typed, [Next]_vars
    PROVE  Onward
    <1>1. CASE Tick \/ UNCHANGED vars
        BY <1>1 DEF Tick, vars, Onward, Arrived, Keeps
    <1>2. ASSUME NEW q \in Requests, Arrive(q)
          PROVE  Onward
        <2>1. ~Arrived(q) /\ request[q].pc # "answered"
            BY <1>2, ArriveProceeds, Shapes DEF Typed, New
        <2> QED
            BY <1>2, <2>1, ArriveProceeds DEF Onward, Arrived, Keeps
    <1>3. ASSUME NEW q \in Requests, Lookup(q) \/ LookupFindsNoRun(q)
          PROVE  Onward
        BY <1>3, LookupProceeds, ProceedsOnward
    <1>4. ASSUME NEW q \in Requests, Allow(q)
          PROVE  Onward
        BY <1>4, AllowProceeds, ProceedsOnward
    <1>5. ASSUME NEW q \in Requests, Execute(q) \/ ExecuteRefused(q)
          PROVE  Onward
        BY <1>5, ExecuteProceeds, ProceedsOnward
    <1>6. ASSUME NEW q \in Requests, Store(q)
          PROVE  Onward
        BY <1>6, StoreProceeds, ProceedsOnward
    <1> QED
        BY <1>1, <1>2, <1>3, <1>4, <1>5, <1>6 DEF Next

\* An answered request stays what it is, and so does what it is compared with.
LEMMA CreatedStays ==
    ASSUME Typed, Onward, NEW e \in Requests, Created(e)
    PROVE  /\ Created(e)' /\ request'[e] = request[e] /\ Slot(e)' = Slot(e)
           /\ Arrived(e)
           /\ \A q \in Requests : Arrived(q) => (Alike(e, q)' <=> Alike(e, q))
    <1>1. request[e].pc = "answered" /\ request[e].answer \in {"created"}
        BY DEF Created, IsAnswered
    <1>2. request'[e] = request[e]
        BY <1>1 DEF Onward
    <1>3. Arrived(e)
        BY <1>1, Shapes DEF Typed, Arrived
    <1>4. Created(e)' /\ Slot(e)' = Slot(e)
        BY <1>1, <1>2 DEF Created, IsAnswered, Slot
    <1>5. ASSUME NEW q \in Requests, Arrived(q)
          PROVE  Alike(e, q)' <=> Alike(e, q)
        BY <1>2, <1>5 DEF Onward, Keeps, Alike
    <1> QED
        BY <1>2, <1>3, <1>4, <1>5

\* Where the step leaves the records alone, they go on to describe runs.
LEMMA RecordsKept ==
    ASSUME Typed, RecordsAreRuns, Onward, UNCHANGED records
    PROVE  RecordsAreRuns'
    <1>1. SUFFICES ASSUME NEW x \in Tenants \X Keys, records[x] # None
                   PROVE  /\ records[x].run \in runs' /\ Created(records[x].run)'
                          /\ Slot(records[x].run)' = x
                          /\ request'[records[x].run].print = records[x].print
        BY DEF RecordsAreRuns, Created, Slot, IsAnswered
    <1>2. PICK e : e = records[x].run
        OBVIOUS
    <1>3. e \in runs /\ Created(e) /\ Slot(e) = x /\ request[e].print = records[x].print
        BY <1>1, <1>2 DEF RecordsAreRuns
    <1>4. e \in Requests /\ e \in runs'
        BY <1>3 DEF Typed, TypeOK, Onward
    <1>5. Created(e)' /\ request'[e] = request[e] /\ Slot(e)' = Slot(e)
        BY <1>3, <1>4, CreatedStays
    <1> QED
        BY <1>2, <1>3, <1>4, <1>5 DEF Created, Slot, IsAnswered

\* A request changes by its own steps only, and the records by Store only.
LEMMA Ways ==
    ASSUME Typed, [Next]_vars
    PROVE  /\ \A p \in Requests :
                \/ request'[p] = request[p]
                \/ Arrive(p) \/ Lookup(p) \/ LookupFindsNoRun(p)
                \/ Allow(p) \/ Execute(p) \/ ExecuteRefused(p) \/ Store(p)
           /\ UNCHANGED records \/ \E q \in Requests : Store(q)
    <1>1. CASE Tick \/ UNCHANGED vars
        BY <1>1 DEF Tick, vars
    <1>2. ASSUME NEW q \in Requests, Arrive(q)
          PROVE  UNCHANGED records /\ \A p \in Requests : p # q => request'[p] = request[p]
        BY <1>2, ArriveProceeds
    <1>3. ASSUME NEW q \in Requests, Lookup(q) \/ LookupFindsNoRun(q)
          PROVE  UNCHANGED records /\ \A p \in Requests : p # q => request'[p] = request[p]
        BY <1>3, LookupProceeds DEF Proceeds
    <1>4. ASSUME NEW q \in Requests, Allow(q)
          PROVE  UNCHANGED records /\ \A p \in Requests : p # q => request'[p] = request[p]
        BY <1>4, AllowProceeds DEF Proceeds
    <1>5. ASSUME NEW q \in Requests, Execute(q) \/ ExecuteRefused(q)
          PROVE  UNCHANGED records /\ \A p \in Requests : p # q => request'[p] = request[p]
        BY <1>5, ExecuteProceeds DEF Proceeds
    <1>6. ASSUME NEW q \in Requests, Store(q)
          PROVE  \A p \in Requests : p # q => request'[p] = request[p]
        BY <1>6, StoreProceeds DEF Proceeds
    <1> QED
        BY <1>1, <1>2, <1>3, <1>4, <1>5, <1>6, Zenon DEF Next

\* A request that has created its run is about to store its key.
LEMMA RunsPrecedeStoreStep ==
    ASSUME Typed, RunsPrecedeStore, [Next]_vars
    PROVE  RunsPrecedeStore'
    <1>1. SUFFICES ASSUME NEW p \in Requests, request'[p].pc = "store"
                   PROVE  p \in runs'
        BY DEF RunsPrecedeStore
    <1>2. CASE request'[p] = request[p]
        BY <1>1, <1>2, StepsGoOnward DEF RunsPrecedeStore, Onward
    <1>3. CASE Arrive(p)
        BY <1>1, <1>3, ArriveProceeds
    <1>4. CASE Lookup(p) \/ LookupFindsNoRun(p)
        BY <1>1, <1>4, LookupProceeds
    <1>5. CASE Allow(p)
        BY <1>1, <1>5, AllowProceeds
    <1>6. CASE Execute(p) \/ ExecuteRefused(p)
        BY <1>1, <1>6, ExecuteProceeds
    <1>7. CASE Store(p)
        BY <1>1, <1>7, StoreProceeds
    <1> QED
        BY <1>2, <1>3, <1>4, <1>5, <1>6, <1>7, Ways

\* Only Store answers that a run was created.
LEMMA CreatedByStore ==
    ASSUME Typed, [Next]_vars, NEW p \in Requests, Created(p)'
    PROVE  Created(p) \/ (Store(p) /\ request'[p].answer = "created")
    <1>1. request'[p].pc = "answered" /\ request'[p].answer = "created"
        BY DEF Created, IsAnswered
    <1>2. CASE request'[p] = request[p]
        BY <1>1, <1>2 DEF Created, IsAnswered
    <1>3. CASE Arrive(p)
        BY <1>1, <1>3, ArriveProceeds
    <1>4. CASE Lookup(p) \/ LookupFindsNoRun(p)
        BY <1>1, <1>4, LookupProceeds
    <1>5. CASE Allow(p)
        BY <1>1, <1>5, AllowProceeds
    <1>6. CASE Execute(p) \/ ExecuteRefused(p)
        BY <1>1, <1>6, ExecuteProceeds
    <1>7. CASE Store(p)
        BY <1>1, <1>7
    <1> QED
        BY <1>2, <1>3, <1>4, <1>5, <1>6, <1>7, Ways

\* What Store writes under the key of a request that created its run.
LEMMA StoreWrites ==
    ASSUME Typed, NEW q \in Requests, Store(q), request'[q].answer = "created"
    PROVE  /\ Created(q)' /\ Slot(q)' = Slot(q) /\ request'[q].print = request[q].print
           /\ request[q].tenant \in Tenants /\ request[q].key \in Keys \union {NoKey}
           /\ request'[q].key = request[q].key
           /\ Record(q) # None => Record(q).print = request[q].print
           /\ \A x \in Tenants \X Keys : x # Slot(q) => records'[x] = records[x]
           /\ request[q].key # NoKey =>
                /\ Slot(q) \in Tenants \X Keys
                /\ records'[Slot(q)] # None
                /\ records'[Slot(q)].print = request[q].print /\ records'[Slot(q)].run = q
    <1>1. /\ request[q] \in Asked /\ request'[q].pc = "answered" /\ Keeps(q)
        BY StoreProceeds DEF Proceeds
    <1>2. /\ Record(q) # None => Record(q).print = request[q].print
          /\ \A t \in Tenants, k \in Keys :
                records'[<<t, k>>] =
                    IF t = request[q].tenant /\ k = request[q].key
                    THEN [print |-> request[q].print, run |-> q] ELSE records[<<t, k>>]
        BY StoreProceeds
    <1>3. Created(q)' /\ Slot(q)' = Slot(q) /\ request'[q].print = request[q].print
        BY <1>1 DEF Created, IsAnswered, Slot, Keeps
    <1>4. request[q].tenant \in Tenants /\ request[q].key \in Keys \union {NoKey}
        BY <1>1 DEF Asked
    <1>5. ASSUME NEW x \in Tenants \X Keys, x # Slot(q)
          PROVE  records'[x] = records[x]
        <2>1. PICK t \in Tenants, k \in Keys : x = <<t, k>>
            OBVIOUS
        <2> QED
            BY <1>2, <1>5, <2>1 DEF Slot
    <1>6. ASSUME request[q].key # NoKey
          PROVE  /\ Slot(q) \in Tenants \X Keys
                 /\ records'[Slot(q)] # None
                 /\ records'[Slot(q)].print = request[q].print /\ records'[Slot(q)].run = q
        <2>1. Slot(q) \in Tenants \X Keys
            BY <1>4, <1>6 DEF Slot
        <2>2. records'[Slot(q)] = [print |-> request[q].print, run |-> q]
            BY <1>2, <1>4, <1>6 DEF Slot
        <2>3. [print |-> request[q].print, run |-> q] # None
            BY DEF None
        <2> QED
            BY <2>1, <2>2, <2>3
    <1> QED
        BY <1>1, <1>2, <1>3, <1>4, <1>5, <1>6 DEF Keeps

LEMMA RecordsAreRunsStep ==
    ASSUME Typed, RecordsAreRuns, RunsPrecedeStore, [Next]_vars
    PROVE  RecordsAreRuns'
    <1>1. CASE UNCHANGED records
        BY <1>1, StepsGoOnward, RecordsKept
    <1>2. ASSUME NEW q \in Requests, Store(q), request'[q].answer = "created"
          PROVE  RecordsAreRuns'
        <2>1. SUFFICES ASSUME NEW x \in Tenants \X Keys, records'[x] # None
                       PROVE  /\ records'[x].run \in runs' /\ Created(records[x].run)'
                              /\ Slot(records[x].run)' = x
                              /\ request'[records'[x].run].print = records'[x].print
            BY DEF RecordsAreRuns
        <2>2. CASE x = Slot(q)
            <3>1. request[q].key # NoKey
                BY <1>2, <2>2, NoKeyAssumption DEF Slot
            <3>2. records'[x].run = q /\ records'[x].print = request[q].print
                BY <1>2, <2>2, <3>1, StoreWrites
            <3>3. Created(q)' /\ Slot(q)' = Slot(q) /\ request'[q].print = request[q].print
                BY <1>2, StoreWrites
            <3>4. q \in runs'
                BY <1>2, StoreProceeds DEF RunsPrecedeStore
            <3> QED
                BY <2>2, <3>2, <3>3, <3>4 DEF Created, IsAnswered, Slot
        <2>3. CASE x # Slot(q)
            <3>1. records'[x] = records[x]
                BY <1>2, <2>3, StoreWrites
            <3>2. PICK e : e = records[x].run
                OBVIOUS
            <3>3. e \in runs /\ Created(e) /\ Slot(e) = x /\ request[e].print = records[x].print
                BY <2>1, <3>1, <3>2 DEF RecordsAreRuns
            <3>4. e \in Requests /\ e \in runs'
                BY <3>3, StepsGoOnward DEF Typed, TypeOK, Onward
            <3>5. Created(e)' /\ request'[e] = request[e] /\ Slot(e)' = Slot(e)
                BY <3>3, <3>4, CreatedStays, StepsGoOnward
            <3> QED
                BY <3>1, <3>2, <3>3, <3>4, <3>5 DEF Created, Slot, IsAnswered
        <2> QED
            BY <2>2, <2>3
    <1>3. ASSUME NEW q \in Requests, Store(q)
          PROVE  UNCHANGED records \/ request'[q].answer = "created"
        BY <1>3, StoreProceeds
    <1> QED
        BY <1>1, <1>2, <1>3, Ways

\* Store refuses to change the content that is stored under a key.
LEMMA CreatedAreRecordedStep ==
    ASSUME Typed, CreatedAreRecorded, [Next]_vars
    PROVE  CreatedAreRecorded'
    <1>1. SUFFICES ASSUME NEW e \in Requests, Created(e)', request'[e].key # NoKey
                   PROVE  /\ records'[<<request'[e].tenant, request'[e].key>>] # None
                          /\ records'[<<request'[e].tenant, request'[e].key>>].print
                                = request'[e].print
        BY DEF CreatedAreRecorded, Slot
    <1>2. CASE Store(e) /\ request'[e].answer = "created"
        BY <1>1, <1>2, StoreWrites DEF Slot
    <1>3. CASE Created(e)
        <2>1. request'[e] = request[e]
            BY <1>3, CreatedStays, StepsGoOnward
        <2>2. /\ records[Slot(e)] # None /\ records[Slot(e)].print = request[e].print
              /\ Slot(e) \in Tenants \X Keys
            <3>1. Arrived(e)
                BY <1>3, CreatedStays, StepsGoOnward
            <3> QED
                BY <1>1, <1>3, <2>1, <3>1, Shapes DEF CreatedAreRecorded, Typed, Slot
        <2>3. CASE UNCHANGED records
            BY <2>1, <2>2, <2>3 DEF Slot
        <2>4. ASSUME NEW q \in Requests, Store(q), request'[q].answer = "created"
              PROVE  /\ records'[Slot(e)] # None /\ records'[Slot(e)].print = request[e].print
            <3>1. CASE Slot(e) # Slot(q)
                BY <2>2, <2>4, <3>1, StoreWrites
            <3>2. CASE Slot(e) = Slot(q)
                <4>1. request[q].key # NoKey
                    BY <1>1, <2>1, <3>2 DEF Slot
                <4>2. Record(q) = records[Slot(q)]
                    BY <4>1, RecordAt DEF Slot
                <4>3. request[q].print = request[e].print
                    BY <2>2, <2>4, <3>2, <4>2, StoreWrites
                <4> QED
                    BY <2>4, <3>2, <4>1, <4>3, StoreWrites
            <3> QED
                BY <3>1, <3>2
        <2>5. ASSUME NEW q \in Requests, Store(q)
              PROVE  UNCHANGED records \/ request'[q].answer = "created"
            BY <2>5, StoreProceeds
        <2> QED
            BY <2>1, <2>3, <2>4, <2>5, Ways DEF Slot
    <1> QED
        BY <1>1, <1>2, <1>3, CreatedByStore

\* A request that changes has just arrived, or had arrived before.
LEMMA ArrivedBefore ==
    ASSUME Typed, [Next]_vars, NEW p \in Requests, Arrived(p)'
    PROVE  Arrived(p) \/ Arrive(p)
    <1>1. CASE request'[p] = request[p]
        BY <1>1 DEF Arrived
    <1>2. CASE Lookup(p) \/ LookupFindsNoRun(p)
        BY <1>2, LookupProceeds DEF Proceeds, Arrived
    <1>3. CASE Allow(p)
        BY <1>3, AllowProceeds DEF Proceeds, Arrived
    <1>4. CASE Execute(p) \/ ExecuteRefused(p)
        BY <1>4, ExecuteProceeds DEF Proceeds, Arrived
    <1>5. CASE Store(p)
        BY <1>5, StoreProceeds DEF Proceeds, Arrived
    <1> QED
        BY <1>1, <1>2, <1>3, <1>4, <1>5, Ways

LEMMA RepeatsAreKnownStep ==
    ASSUME Typed, RepeatsAreKnown, [Next]_vars
    PROVE  RepeatsAreKnown'
    <1>1. SUFFICES ASSUME NEW p \in Requests, Arrived(p)', request'[p].again
                   PROVE  /\ request'[p].key # NoKey
                          /\ \E e \in Requests : Created(e)' /\ Alike(e, p)'
        BY DEF RepeatsAreKnown
    <1>2. CASE Arrived(p)
        <2>1. Keeps(p)
            BY <1>2, StepsGoOnward DEF Onward
        <2>2. PICK e \in Requests : Created(e) /\ Alike(e, p)
            BY <1>1, <1>2, <2>1 DEF RepeatsAreKnown, Keeps
        <2>3. Created(e)' /\ Alike(e, p)'
            BY <1>2, <2>2, CreatedStays, StepsGoOnward
        <2>4. request'[p].key # NoKey
            BY <1>1, <1>2, <2>1 DEF RepeatsAreKnown, Keeps
        <2> QED
            BY <2>3, <2>4
    <1>3. CASE Arrive(p)
        <2>1. PICK e \in Requests :
                /\ Created(e)
                /\ request[e].tenant = request'[p].tenant /\ request[e].key = request'[p].key
                /\ request[e].print = request'[p].print
            BY <1>1, <1>3, ArriveProceeds DEF Created
        <2>2. Created(e)' /\ request'[e] = request[e]
            BY <2>1, CreatedStays, StepsGoOnward
        <2>3. Alike(e, p)'
            BY <2>1, <2>2 DEF Alike
        <2> QED
            BY <1>1, <1>3, <2>2, <2>3, ArriveProceeds
    <1> QED
        BY <1>1, <1>2, <1>3, ArrivedBefore

\* Only Lookup answers with a replay, of what is stored under the key.
LEMMA ReplayByLookup ==
    ASSUME Typed, [Next]_vars, NEW p \in Requests, IsAnswered(p, {"replay"})'
    PROVE  \/ IsAnswered(p, {"replay"}) /\ request'[p] = request[p]
           \/ /\ Arrived(p) /\ Keeps(p)
              /\ Record(p) # None /\ Record(p).print = request[p].print
              /\ request'[p].run = Record(p).run
    <1>1. request'[p].pc = "answered" /\ request'[p].answer = "replay"
        BY DEF IsAnswered
    <1>2. CASE request'[p] = request[p]
        BY <1>1, <1>2 DEF IsAnswered
    <1>3. CASE Arrive(p)
        BY <1>1, <1>3, ArriveProceeds
    <1>4. CASE Lookup(p) \/ LookupFindsNoRun(p)
        BY <1>1, <1>4, LookupProceeds DEF Proceeds, Arrived
    <1>5. CASE Allow(p)
        BY <1>1, <1>5, AllowProceeds
    <1>6. CASE Execute(p) \/ ExecuteRefused(p)
        BY <1>1, <1>6, ExecuteProceeds
    <1>7. CASE Store(p)
        BY <1>1, <1>7, StoreProceeds
    <1> QED
        BY <1>2, <1>3, <1>4, <1>5, <1>6, <1>7, Ways

LEMMA ReplaysAreCreatedStep ==
    ASSUME Typed, RecordsAreRuns, ReplaysAreCreated, [Next]_vars
    PROVE  ReplaysAreCreated'
    <1>1. SUFFICES ASSUME NEW p \in Requests, IsAnswered(p, {"replay"})',
                          NEW e, e = request'[p].run
                   PROVE  /\ e \in runs' /\ Created(e)'
                          /\ request'[p].key # NoKey /\ Alike(e, p)'
        BY DEF ReplaysAreCreated, Created, IsAnswered, Alike
    <1>2. /\ e \in runs /\ Created(e) /\ request[p].key # NoKey /\ Alike(e, p)
          /\ Arrived(p) /\ Keeps(p)
        <2>1. CASE IsAnswered(p, {"replay"}) /\ request'[p] = request[p]
            <3>1. Arrived(p)
                BY <2>1, Shapes DEF Typed, Arrived, IsAnswered
            <3> QED
                BY <1>1, <2>1, <3>1 DEF ReplaysAreCreated, Keeps
        <2>2. CASE /\ Arrived(p) /\ Keeps(p)
                   /\ Record(p) # None /\ Record(p).print = request[p].print
                   /\ request'[p].run = Record(p).run
            <3>1. request[p].key # NoKey /\ Record(p) = records[Slot(p)]
                BY <2>2, RecordAt DEF Slot
            <3>2. Slot(p) \in Tenants \X Keys
                BY <2>2, <3>1, Shapes DEF Slot, Typed
            <3>3. /\ e \in runs /\ Created(e) /\ Slot(e) = Slot(p)
                  /\ request[e].print = request[p].print
                BY <1>1, <2>2, <3>1, <3>2 DEF RecordsAreRuns
            <3> QED
                BY <2>2, <3>1, <3>3 DEF Alike, Slot
        <2> QED
            BY <1>1, <2>1, <2>2, ReplayByLookup
    <1>3. e \in Requests
        BY <1>2 DEF Typed, TypeOK
    <1>4. Created(e)' /\ Alike(e, p)'
        BY <1>2, <1>3, CreatedStays, StepsGoOnward
    <1> QED
        BY <1>2, <1>4, StepsGoOnward DEF Onward, Keeps

\* A repetition finds the content it repeats under its key.
LEMMA RepeatsFindTheirRecord ==
    ASSUME Typed, CreatedAreRecorded, RepeatsAreKnown,
           NEW q \in Requests, Arrived(q), request[q].again
    PROVE  Record(q) # None /\ Record(q).print = request[q].print
    <1>1. PICK e \in Requests : Created(e) /\ Alike(e, q)
        BY DEF RepeatsAreKnown
    <1>2. request[q].key # NoKey
        BY DEF RepeatsAreKnown
    <1>3. request[e].key # NoKey /\ Slot(e) = Slot(q)
        BY <1>1, <1>2 DEF Alike, Slot
    <1>4. records[Slot(q)] # None /\ records[Slot(q)].print = request[q].print
        BY <1>1, <1>3 DEF CreatedAreRecorded, Alike
    <1> QED
        BY <1>2, <1>4, RecordAt DEF Slot

LEMMA RepeatsAreReplayedStep ==
    ASSUME Typed, CreatedAreRecorded, RepeatsAreKnown, RepeatsAreReplayed, [Next]_vars
    PROVE  RepeatsAreReplayed'
    <1>1. SUFFICES ASSUME NEW p \in Requests, request'[p] # New, p \notin unread',
                          request'[p].again
                   PROVE  request'[p].pc = "lookup" \/ IsAnswered(p, {"replay"})'
        BY DEF RepeatsAreReplayed
    <1>2. CASE request'[p] = request[p]
        <2>1. p \notin unread
            BY <1>1, StepsGoOnward DEF Onward
        <2> QED
            BY <1>1, <1>2, <2>1 DEF RepeatsAreReplayed, IsAnswered
    <1>3. CASE Arrive(p)
        BY <1>3, ArriveProceeds
    <1>4. CASE Lookup(p) \/ LookupFindsNoRun(p)
        <2>1. Arrived(p) /\ request[p].again
            BY <1>1, <1>4, LookupProceeds DEF Proceeds, Arrived, Keeps
        <2>2. Record(p) # None /\ Record(p).print = request[p].print
            BY <2>1, RepeatsFindTheirRecord
        <2> QED
            BY <1>1, <1>4, <2>2, LookupProceeds DEF IsAnswered
    <1>5. ASSUME Proceeds(p), request[p].pc # "lookup"
          PROVE  FALSE
        <2>1. request[p] # New /\ request[p].again /\ request[p].pc # "answered"
            BY <1>1, <1>5, Shapes DEF Proceeds, Keeps, Typed, New
        <2>2. p \notin unread
            BY <1>1, StepsGoOnward DEF Onward
        <2> QED
            BY <1>5, <2>1, <2>2 DEF RepeatsAreReplayed, IsAnswered
    <1>6. CASE Allow(p)
        BY <1>5, <1>6, AllowProceeds
    <1>7. CASE Execute(p) \/ ExecuteRefused(p)
        BY <1>5, <1>7, ExecuteProceeds
    <1>8. CASE Store(p)
        BY <1>5, <1>8, StoreProceeds
    <1> QED
        BY <1>2, <1>3, <1>4, <1>6, <1>7, <1>8, Ways

LEMMA ReplayInvHolds == Spec => []ReplayInv
    <1>1. Init => ReplayInv
        <2> SUFFICES ASSUME Init PROVE ReplayInv
            OBVIOUS
        <2>1. Typed
            BY TypedInitially
        <2>2. \A q \in Requests : request[q] = New /\ request[q].pc = "new"
            BY DEF Init, New
        <2>3. \A q \in Requests : ~Arrived(q)
            BY <2>1, <2>2, Shapes DEF Typed
        <2>4. \A x \in Tenants \X Keys : records[x] = None
            BY DEF Init
        <2> QED
            BY <2>1, <2>2, <2>3, <2>4
            DEF ReplayInv, RecordsAreRuns, CreatedAreRecorded, RunsPrecedeStore, RepeatsAreKnown,
                ReplaysAreCreated, RepeatsAreReplayed, Created, IsAnswered
    <1>2. ReplayInv /\ [Next]_vars => ReplayInv'
        BY TypedStep, RecordsAreRunsStep, CreatedAreRecordedStep, RunsPrecedeStoreStep,
           RepeatsAreKnownStep, ReplaysAreCreatedStep, RepeatsAreReplayedStep DEF ReplayInv
    <1> QED
        BY <1>1, <1>2, PTL DEF Spec

\* A replay answers with a run that a request of the same tenant created with
\* the same key and content, however requests overtake each other between
\* LookupIdempotentRun and StoreIdempotentRun.
THEOREM ReplaysFaithful == Spec => []ReplaysAreFaithful
    <1>1. ReplayInv => ReplaysAreFaithful
        BY DEF ReplayInv, ReplaysAreCreated, ReplaysAreFaithful, SameRequest, Alike
    <1> QED
        BY <1>1, ReplayInvHolds, PTL

\* A client that repeats an answered request gets a replay: Store never changes
\* the content that is stored under a key, so the record that Lookup finds is
\* that of a request with the same content.
THEOREM RepeatsReplayed == Spec => []RepeatsAreReplayed
    <1>1. ReplayInv => RepeatsAreReplayed
        BY DEF ReplayInv
    <1> QED
        BY <1>1, ReplayInvHolds, PTL

-----------------------------------------------------------------------------
(* Quotas. *)

\* The grants of a tenant strictly between two moments.
GrantsBetween(t, a, b) == {g \in grants : g.tenant = t /\ a < g.at /\ g.at < b}

\* A request is granted quota once, by Allow.
GrantsAreSpent ==
    /\ IsFiniteSet(grants)
    /\ \A g \in grants : g.at <= now /\ Arrived(g.request)
                         /\ request[g.request].pc \notin {"lookup", "reserve"}

\* The window of a tenant counts the grants since it was opened, all of them
\* within its length and the first at its start.
WindowCounts(t) ==
    LET start == quotas[t].start IN
    /\ start <= now
    /\ Cardinality(GrantsSince(t, start)) = quotas[t].count
    /\ \A g \in GrantsSince(t, start) : g.at < start + Window
    /\ \E g \in grants : g.tenant = t /\ g.at = start

\* The length of a window before the window was opened has less grants than the
\* limit: the request that opened the previous window is not among them.
QuietBefore(t) ==
    Cardinality(GrantsBetween(t, quotas[t].start - Window, quotas[t].start)) < Limit

QuotaInv ==
    /\ Typed /\ GrantsAreSpent
    /\ \A t \in Tenants :
        /\ quotas[t] = None => \A g \in grants : g.tenant # t
        /\ quotas[t] # None => WindowCounts(t) /\ QuietBefore(t)
    /\ BurstsAreBounded

LEMMA Subsets ==
    ASSUME GrantsAreSpent, NEW t, NEW a, NEW b
    PROVE  /\ IsFiniteSet(GrantsSince(t, a)) /\ Cardinality(GrantsSince(t, a)) \in Nat
           /\ IsFiniteSet(GrantsBetween(t, a, b))
           /\ Cardinality(GrantsBetween(t, a, b)) \in Nat
    <1>1. GrantsSince(t, a) \in SUBSET grants /\ GrantsBetween(t, a, b) \in SUBSET grants
        BY DEF GrantsSince, GrantsBetween
    <1> QED
        BY <1>1, FS_Subset, FS_CardinalityType DEF GrantsAreSpent

\* Fields of grants.
LEMMA GrantTypes ==
    ASSUME TypeOK, NEW g \in grants
    PROVE  g.request \in Requests /\ g.tenant \in Tenants /\ g.at \in 0..MaxTime
    BY DEF TypeOK

\* Where a step grants nothing, what was granted goes on to be described.
LEMMA NoGrant ==
    ASSUME QuotaInv, [Next]_vars, UNCHANGED <<quotas, grants>>
    PROVE  QuotaInv'
    <1>1. Typed /\ Typed'
        BY TypedStep DEF QuotaInv
    <1>2. now \in Int /\ now' \in Int /\ now <= now'
        <2>1. now \in 0..MaxTime /\ now' \in 0..MaxTime
            BY <1>1 DEF Typed, TypeOK
        <2>2. now' = now \/ now' = now + 1
            BY DEF Next, vars, Tick, Arrive, Lookup, LookupFindsNoRun, Allow, Execute,
                   ExecuteRefused, Store
        <2> QED
            BY <2>1, <2>2
    <1>3. GrantsAreSpent'
        <2>1. ASSUME NEW g \in grants
              PROVE  /\ g.at <= now' /\ Arrived(g.request)'
                     /\ request'[g.request].pc \notin {"lookup", "reserve"}
            <3>1. PICK p \in Requests : p = g.request
                BY <1>1, GrantTypes DEF Typed
            <3>2. /\ g.at <= now /\ Arrived(p) /\ request[p].pc \notin {"lookup", "reserve"}
                  /\ g.at \in Int
                BY <1>1, <3>1, GrantTypes DEF QuotaInv, GrantsAreSpent, Typed
            <3>3. Arrived(p)' /\ request[p] # New
                BY <1>1, <3>2, StepsGoOnward, Shapes DEF Onward, Typed
            <3>4. request'[p].pc \notin {"lookup", "reserve"}
                <4>1. CASE request'[p] = request[p]
                    BY <3>2, <4>1
                <4>2. CASE Arrive(p)
                    BY <1>1, <3>3, <4>2, ArriveProceeds
                <4>3. CASE Lookup(p) \/ LookupFindsNoRun(p)
                    BY <1>1, <3>2, <4>3, LookupProceeds
                <4>4. CASE Allow(p)
                    BY <1>1, <3>2, <4>4, AllowProceeds
                <4>5. CASE Execute(p) \/ ExecuteRefused(p)
                    BY <1>1, <4>5, ExecuteProceeds
                <4>6. CASE Store(p)
                    BY <1>1, <4>6, StoreProceeds
                <4> QED
                    BY <1>1, <4>1, <4>2, <4>3, <4>4, <4>5, <4>6, Ways
            <3> QED
                BY <1>2, <3>1, <3>2, <3>3, <3>4 DEF Arrived
        <2> QED
            BY <2>1 DEF QuotaInv, GrantsAreSpent, Arrived
    <1>4. ASSUME NEW t \in Tenants, quotas[t] # None
          PROVE  WindowCounts(t)' /\ QuietBefore(t)'
        <2>1. WindowCounts(t) /\ QuietBefore(t)
            BY <1>4 DEF QuotaInv
        <2>2. quotas[t].start \in Int
            BY <1>1, <1>4 DEF Typed, TypeOK
        <2> QED
            BY <1>2, <2>1, <2>2 DEF WindowCounts, QuietBefore, GrantsSince, GrantsBetween
    <1>5. BurstsAreBounded'
        BY DEF QuotaInv, BurstsAreBounded, GrantsSince
    <1> QED
        BY <1>1, <1>3, <1>4, <1>5 DEF QuotaInv

\* What granting quota to the request q of the tenant t does, in terms of the
\* grant g.
Granting(q, t, g) ==
    /\ t = request[q].tenant /\ g.tenant = t /\ g.at = now /\ g.request = q
    /\ g \notin grants /\ grants' = grants \union {g} /\ now' = now
    /\ Limit > 0 /\ Bucket(t).count < Limit
    /\ quotas'[t] # None
    /\ quotas'[t].start = Bucket(t).start /\ quotas'[t].count = Bucket(t).count + 1
    /\ quotas'[t].start \in 0..MaxTime /\ quotas'[t].count \in 1..Limit
    /\ \A u \in Tenants : u # t => quotas'[u] = quotas[u]

LEMMA GrantsAreNew ==
    ASSUME QuotaInv, NEW q \in Requests, Allow(q), request'[q].pc = "execute", Limit > 0
    PROVE  \E t \in Tenants : \E g : Granting(q, t, g)
    <1>1. TypeOK /\ Typed /\ request[q] \in Asked /\ request[q].pc = "reserve"
        BY AllowProceeds DEF QuotaInv, Typed, Proceeds
    <1>2. PICK t \in Tenants : t = request[q].tenant
        BY <1>1 DEF Asked
    <1>3. PICK g : g = [request |-> q, tenant |-> t, at |-> now]
        OBVIOUS
    <1>4. g.request = q /\ g.tenant = t /\ g.at = now
        BY <1>3
    <1>5. g \notin grants
        BY <1>1, <1>4 DEF QuotaInv, GrantsAreSpent
    <1>6. /\ Bucket(t).count < Limit /\ now' = now /\ grants' = grants \union {g}
          /\ quotas' = [quotas EXCEPT ![t] = Charged(t)]
        BY <1>1, <1>2, <1>3, AllowProceeds
    <1>7. /\ quotas' \in [Tenants -> {None} \union [start: 0..MaxTime, count: 1..Limit]]
          /\ quotas'[t].start = Bucket(t).start /\ quotas'[t].count = Bucket(t).count + 1
          /\ quotas'[t] # None
          /\ \A s \in Tenants : s # t => quotas'[s] = quotas[s]
        BY <1>1, <1>6, GrantTyped
    <1>8. quotas'[t] \in [start: 0..MaxTime, count: 1..Limit]
        BY <1>7
    <1>9. quotas'[t].start \in 0..MaxTime /\ quotas'[t].count \in 1..Limit
        BY <1>8
    <1>10. Granting(q, t, g)
        BY <1>2, <1>4, <1>5, <1>6, <1>7, <1>9 DEF Granting
    <1> QED
        BY <1>10

\* The window that was opened or counted on describes the grants, and the time
\* before it stays quiet.
LEMMA WindowAfterGrant ==
    ASSUME QuotaInv, NEW q \in Requests, NEW t \in Tenants, NEW g, Granting(q, t, g)
    PROVE  WindowCounts(t)' /\ QuietBefore(t)'
    <1>1. TypeOK /\ GrantsAreSpent /\ now \in Int /\ Window \in Int /\ Window > 0
          /\ Limit \in Int /\ Limit > 0
        BY WindowAssumption, LimitAssumption DEF QuotaInv, Typed, TypeOK, Granting
    <1>2. \A h \in grants : h.at \in Int /\ h.at <= now
        BY <1>1, GrantTypes DEF GrantsAreSpent
    <1>3. PICK start \in Int : start = quotas'[t].start
        BY DEF Granting
    <1> DEFINE Since == {h \in grants : h.tenant = t /\ h.at >= start}
               Before == {h \in grants : h.tenant = t /\ start - Window < h.at /\ h.at < start}
    <1>4. SUFFICES /\ start <= now /\ now < start + Window
                   /\ Cardinality(Since) + 1 = quotas'[t].count
                   /\ \A h \in Since : h.at < start + Window
                   /\ \E h \in grants \union {g} : h.tenant = t /\ h.at = start
                   /\ Cardinality(Before) < Limit
        <2>1. IsFiniteSet(Since) /\ g \notin Since
            BY <1>1, Subsets DEF Granting, GrantsSince
        <2>2. start <= now => GrantsSince(t, start)' = Since \union {g}
            BY <1>1, <1>2 DEF GrantsSince, Granting
        <2>3. start <= now => Cardinality(GrantsSince(t, start)') = Cardinality(Since) + 1
            BY <2>1, <2>2, FS_AddElement
        <2>4. start <= now => GrantsBetween(t, start - Window, start)' = Before
            BY <1>1, <1>2, <1>3 DEF GrantsBetween, Granting
        <2>5. /\ GrantsSince(t, quotas[t].start)' = GrantsSince(t, start)'
              /\ GrantsBetween(t, quotas[t].start - Window, quotas[t].start)'
                    = GrantsBetween(t, start - Window, start)'
            BY <1>3 DEF GrantsSince, GrantsBetween
        <2> QED
            BY <1>1, <1>3, <2>2, <2>3, <2>4, <2>5 DEF WindowCounts, QuietBefore, Granting
    <1>5. CASE ~IsOver(quotas[t])
        <2>1. Bucket(t) = quotas[t] /\ quotas[t] # None /\ start = quotas[t].start
            BY <1>1, <1>3, <1>5, BucketTyped DEF Granting
        <2>2. WindowCounts(t) /\ QuietBefore(t)
            BY <2>1 DEF QuotaInv
        <2>3. now - start < Window
            BY <1>1, <1>3, <1>5, <2>1 DEF IsOver
        <2>4. Since = GrantsSince(t, quotas[t].start)
              /\ Before = GrantsBetween(t, quotas[t].start - Window, quotas[t].start)
            BY <2>1 DEF GrantsSince, GrantsBetween
        <2>5. Cardinality(Since) + 1 = quotas'[t].count
            BY <2>1, <2>2, <2>4 DEF WindowCounts, Granting
        <2>6. Cardinality(Before) < Limit
            BY <2>2, <2>4 DEF QuietBefore
        <2>7. /\ start <= now /\ \A h \in Since : h.at < start + Window
              /\ \E h \in grants \union {g} : h.tenant = t /\ h.at = start
            BY <2>1, <2>2, <2>4 DEF WindowCounts
        <2> QED
            BY <1>1, <1>3, <2>3, <2>5, <2>6, <2>7
    <1>6. CASE IsOver(quotas[t])
        <2>1. start = now /\ quotas'[t].count = 1
            BY <1>1, <1>3, <1>6, BucketTyped DEF Granting
        <2>2. Since = {} /\ Cardinality(Before) < Limit
            <3>1. CASE quotas[t] = None
                <4>1. Since = {} /\ Before = {}
                    BY <3>1 DEF QuotaInv
                <4> QED
                    BY <1>1, <4>1, FS_EmptySet
            <3>2. CASE quotas[t] # None
                <4>1. WindowCounts(t) /\ quotas[t] \in [start: 0..MaxTime, count: 1..Limit]
                    BY <1>1, <3>2, BucketTyped DEF QuotaInv
                <4>2. PICK old \in Int : old = quotas[t].start
                    BY <4>1
                <4>3. now - old >= Window
                    BY <1>6, <3>2, <4>2 DEF IsOver
                <4>4. \A h \in GrantsSince(t, old) : h.at < old + Window
                    BY <4>1, <4>2 DEF WindowCounts
                <4>5. Since = {}
                    BY <1>1, <1>2, <2>1, <4>2, <4>3, <4>4 DEF GrantsSince
                <4>6. PICK opener \in grants : opener.tenant = t /\ opener.at = old
                    BY <4>1, <4>2 DEF WindowCounts
                <4>7. opener \in GrantsSince(t, old)
                    BY <1>2, <4>2, <4>6 DEF GrantsSince
                <4>8. Before \in SUBSET (GrantsSince(t, old) \ {opener})
                    BY <1>1, <1>2, <2>1, <4>2, <4>3, <4>6 DEF GrantsSince
                <4>9. IsFiniteSet(GrantsSince(t, old)) /\ Cardinality(GrantsSince(t, old)) \in Nat
                    BY <1>1, Subsets
                <4>10. /\ IsFiniteSet(GrantsSince(t, old) \ {opener})
                       /\ Cardinality(GrantsSince(t, old) \ {opener})
                            = Cardinality(GrantsSince(t, old)) - 1
                    BY <4>7, <4>9, FS_RemoveElement
                <4>11. IsFiniteSet(Before)
                       /\ Cardinality(Before) <= Cardinality(GrantsSince(t, old) \ {opener})
                    BY <4>8, <4>10, FS_Subset
                <4>12. Cardinality(Before) \in Nat
                    BY <4>11, FS_CardinalityType
                <4>13. Cardinality(GrantsSince(t, old)) = quotas[t].count
                    BY <4>1, <4>2 DEF WindowCounts
                <4>14. quotas[t].count \in Int /\ quotas[t].count <= Limit
                    BY <1>1, <4>1
                <4> HIDE DEF Before, Since
                <4> QED
                    BY <1>1, <4>5, <4>9, <4>10, <4>11, <4>12, <4>13, <4>14
            <3> QED
                BY <3>1, <3>2
        <2>3. Cardinality(Since) = 0
            BY <2>2, FS_EmptySet
        <2>4. g.tenant = t /\ g.at = start
            BY <2>1 DEF Granting
        <2> QED
            BY <1>1, <2>1, <2>2, <2>3, <2>4
    <1> QED
        BY <1>5, <1>6

\* A span of one window holds grants of two windows at most: the last one, and
\* of the one before it less than the limit.
LEMMA BurstAfterGrant ==
    ASSUME QuotaInv, NEW q \in Requests, NEW t \in Tenants, NEW g, Granting(q, t, g),
           GrantsAreSpent', TypeOK', WindowCounts(t)', QuietBefore(t)',
           NEW from \in 0..MaxTime
    PROVE  Cardinality({h \in grants' : h.tenant = t /\ h.at >= from /\ h.at < from + Window})
                < 2 * Limit
    <1>1. TypeOK /\ now \in Int /\ Window \in Int /\ Window > 0 /\ Limit \in Int /\ Limit > 0
          /\ from \in Int
        BY WindowAssumption, LimitAssumption DEF QuotaInv, Typed, TypeOK, Granting
    <1>2. PICK start \in Int : start = quotas'[t].start
        BY DEF Granting
    <1> DEFINE Span == {h \in grants' : h.tenant = t /\ h.at >= from /\ h.at < from + Window}
               A == {h \in grants' : h.tenant = t /\ start - Window < h.at /\ h.at < start}
               B == {h \in grants' : h.tenant = t /\ h.at >= start}
    <1>3. IsFiniteSet(A) /\ IsFiniteSet(B) /\ IsFiniteSet(Span)
        <2>1. A \in SUBSET grants' /\ B \in SUBSET grants' /\ Span \in SUBSET grants'
            OBVIOUS
        <2>2. IsFiniteSet(grants')
            BY DEF GrantsAreSpent
        <2> HIDE DEF A, B, Span
        <2> QED
            BY <2>1, <2>2, FS_Subset
    <1>4. CASE from <= now /\ now < from + Window
        <2>1. A = GrantsBetween(t, quotas[t].start - Window, quotas[t].start)'
              /\ B = GrantsSince(t, quotas[t].start)' /\ start <= now
            BY <1>2 DEF GrantsBetween, GrantsSince, WindowCounts, Granting
        <2>2. Cardinality(A) < Limit
            BY <2>1 DEF QuietBefore
        <2>3. Cardinality(B) <= Limit
            <3> HIDE DEF A, B, Span
            <3>1. Cardinality(B) = quotas'[t].count
                BY <2>1 DEF WindowCounts
            <3>2. quotas'[t].count \in 1..Limit
                BY DEF Granting
            <3> QED
                BY <1>1, <3>1, <3>2
        <2>4. \A h \in grants' : h.at \in Int
            BY DEF TypeOK
        <2>5. Span \in SUBSET (A \union B)
            BY <1>1, <1>4, <2>1, <2>4
        <2> HIDE DEF A, B, Span
        <2>6. IsFiniteSet(A \union B) /\ IsFiniteSet(A \cap B)
              /\ Cardinality(A \union B) = Cardinality(A) + Cardinality(B) - Cardinality(A \cap B)
            <3>1. (A \cap B) \in SUBSET A
                OBVIOUS
            <3> QED
                BY <1>3, <3>1, FS_Union, FS_Subset
        <2>7. Cardinality(Span) <= Cardinality(A \union B)
            BY <2>5, <2>6, FS_Subset
        <2>8. /\ Cardinality(A) \in Nat /\ Cardinality(B) \in Nat /\ Cardinality(Span) \in Nat
              /\ Cardinality(A \cap B) \in Nat /\ Cardinality(A \union B) \in Nat
            BY <1>3, <2>6, FS_CardinalityType
        <2>9. Cardinality(Span) < 2 * Limit
            BY <1>1, <2>2, <2>3, <2>6, <2>7, <2>8
        <2> QED
            BY <2>9 DEF Span
    <1>5. CASE ~(from <= now /\ now < from + Window)
        <2>1. Span = {h \in GrantsSince(t, from) : h.at < from + Window}
            BY <1>1, <1>5 DEF GrantsSince, Granting
        <2> QED
            BY <1>1, <2>1 DEF QuotaInv, BurstsAreBounded
    <1> QED
        BY <1>4, <1>5

LEMMA GrantStep ==
    ASSUME QuotaInv, NEW q \in Requests, Allow(q), request'[q].pc = "execute", Limit > 0
    PROVE  QuotaInv'
    <1>1. Typed /\ Typed'
        BY TypedStep DEF QuotaInv, Next
    <1>2. PICK t \in Tenants : \E g : Granting(q, t, g)
        BY GrantsAreNew
    <1>3. PICK g : Granting(q, t, g)
        BY <1>2
    <1>4. GrantsAreSpent'
        <2>1. IsFiniteSet(grants')
            BY <1>3, FS_AddElement DEF Granting, QuotaInv, GrantsAreSpent
        <2>2. ASSUME NEW h \in grants'
              PROVE  /\ h.at <= now' /\ Arrived(h.request)'
                     /\ request'[h.request].pc \notin {"lookup", "reserve"}
            <3>1. CASE h.request = q
                <4>1. h.at <= now
                    <5>1. CASE h = g
                        BY <1>1, <1>3, <5>1 DEF Granting, Typed, TypeOK
                    <5>2. CASE h # g
                        BY <1>3, <2>2, <5>2 DEF Granting, QuotaInv, GrantsAreSpent
                    <5> QED
                        BY <5>1, <5>2
                <4>2. Arrived(q)'
                    BY <1>1, AllowProceeds DEF Proceeds, Arrived
                <4> QED
                    BY <1>3, <3>1, <4>1, <4>2 DEF Granting, Arrived
            <3>2. CASE h.request # q
                <4>1. h \in grants
                    BY <1>3, <2>2, <3>2 DEF Granting
                <4>2. h.request \in Requests
                    BY <1>1, <4>1, GrantTypes DEF Typed
                <4>3. request'[h.request] = request[h.request]
                    BY <1>1, <3>2, <4>2, AllowProceeds DEF Proceeds
                <4> QED
                    BY <1>3, <4>1, <4>3 DEF Granting, QuotaInv, GrantsAreSpent, Arrived
            <3> QED
                BY <3>1, <3>2
        <2> QED
            BY <2>1, <2>2 DEF GrantsAreSpent, Arrived
    <1>5. WindowCounts(t)' /\ QuietBefore(t)'
        BY <1>3, WindowAfterGrant
    <1>6. ASSUME NEW u \in Tenants, u # t
          PROVE  /\ quotas'[u] = quotas[u]
                 /\ \A h \in grants' : h.tenant = u => h \in grants
        BY <1>3, <1>6 DEF Granting
    <1>7. ASSUME NEW u \in Tenants, u # t, quotas'[u] = None, NEW h \in grants'
          PROVE  h.tenant # u
        BY <1>6, <1>7 DEF QuotaInv
    <1>8. ASSUME NEW u \in Tenants, u # t, quotas'[u] # None
          PROVE  WindowCounts(u)' /\ QuietBefore(u)'
        <2>1. WindowCounts(u) /\ QuietBefore(u) /\ quotas'[u] = quotas[u] /\ now' = now
              /\ grants \subseteq grants'
            BY <1>3, <1>6, <1>8 DEF QuotaInv, Granting
        <2>2. /\ GrantsSince(u, quotas[u].start)' = GrantsSince(u, quotas[u].start)
              /\ GrantsBetween(u, quotas[u].start - Window, quotas[u].start)'
                    = GrantsBetween(u, quotas[u].start - Window, quotas[u].start)
            BY <1>6, <1>8, <2>1 DEF GrantsSince, GrantsBetween
        <2> QED
            BY <2>1, <2>2 DEF WindowCounts, QuietBefore
    <1>9. BurstsAreBounded'
        <2>1. SUFFICES ASSUME NEW u \in Tenants, NEW from \in 0..MaxTime
                       PROVE  Cardinality({h \in GrantsSince(u, from)' : h.at < from + Window})
                                < 2 * Limit
            BY DEF BurstsAreBounded
        <2>2. CASE u = t
            <3>1. {h \in GrantsSince(u, from)' : h.at < from + Window}
                    = {h \in grants' : h.tenant = t /\ h.at >= from /\ h.at < from + Window}
                BY <2>2 DEF GrantsSince
            <3> QED
                BY <1>1, <1>3, <1>4, <1>5, <3>1, BurstAfterGrant DEF Typed
        <2>3. CASE u # t
            <3>1. GrantsSince(u, from)' = GrantsSince(u, from)
                BY <1>3, <1>6, <2>3 DEF GrantsSince, Granting
            <3> QED
                BY <3>1 DEF QuotaInv, BurstsAreBounded
        <2> QED
            BY <2>2, <2>3
    <1>10. quotas'[t] # None
        BY <1>3 DEF Granting
    <1> QED
        BY <1>1, <1>4, <1>5, <1>7, <1>8, <1>9, <1>10 DEF QuotaInv

\* Quotas and grants change together, when Allow lets a request through.
LEMMA GrantsByAllow ==
    ASSUME Typed, [Next]_vars
    PROVE  \/ UNCHANGED <<quotas, grants>>
           \/ \E q \in Requests : Allow(q) /\ request'[q].pc = "execute" /\ Limit > 0
    <1>1. CASE Tick \/ UNCHANGED vars
        BY <1>1 DEF Tick, vars
    <1>2. ASSUME NEW q \in Requests, Arrive(q)
          PROVE  UNCHANGED <<quotas, grants>>
        BY <1>2 DEF Arrive
    <1>3. ASSUME NEW q \in Requests, Lookup(q) \/ LookupFindsNoRun(q)
          PROVE  UNCHANGED <<quotas, grants>>
        BY <1>3 DEF Lookup, LookupFindsNoRun
    <1>4. ASSUME NEW q \in Requests, Allow(q)
          PROVE  UNCHANGED <<quotas, grants>> \/ (request'[q].pc = "execute" /\ Limit > 0)
        BY <1>4, AllowProceeds
    <1>5. ASSUME NEW q \in Requests, Execute(q) \/ ExecuteRefused(q) \/ Store(q)
          PROVE  UNCHANGED <<quotas, grants>>
        BY <1>5 DEF Execute, ExecuteRefused, Store
    <1> QED
        BY <1>1, <1>2, <1>3, <1>4, <1>5 DEF Next

LEMMA QuotaInvHolds == Spec => []QuotaInv
    <1>1. Init => QuotaInv
        <2> SUFFICES ASSUME Init PROVE QuotaInv
            OBVIOUS
        <2>1. Typed /\ grants = {} /\ \A t \in Tenants : quotas[t] = None
            BY TypedInitially DEF Init
        <2>2. GrantsAreSpent
            BY <2>1, FS_EmptySet DEF GrantsAreSpent
        <2>3. BurstsAreBounded
            <3>1. SUFFICES ASSUME Limit > 0, NEW t \in Tenants, NEW from \in 0..MaxTime
                           PROVE  Cardinality({g \in GrantsSince(t, from) : g.at < from + Window})
                                    < 2 * Limit
                BY DEF BurstsAreBounded
            <3>2. {g \in GrantsSince(t, from) : g.at < from + Window} = {}
                BY <2>1 DEF GrantsSince
            <3> QED
                BY <3>1, <3>2, FS_EmptySet, LimitAssumption
        <2> QED
            BY <2>1, <2>2, <2>3 DEF QuotaInv
    <1>2. QuotaInv /\ [Next]_vars => QuotaInv'
        BY GrantsByAllow, NoGrant, GrantStep DEF QuotaInv
    <1> QED
        BY <1>1, <1>2, PTL DEF Spec

\* Allow grants no tenant twice its limit within any span of one window,
\* whatever the clock does and however requests are interleaved.
THEOREM BurstsBounded == Spec => []BurstsAreBounded
    <1>1. QuotaInv => BurstsAreBounded
        BY DEF QuotaInv
    <1> QED
        BY <1>1, QuotaInvHolds, PTL

\* Allow refuses a tenant only when the whole limit was granted within the last
\* window: a window that is over is never held against a request.
THEOREM LimitedWhenExhausted == Spec => LimitedOnlyWhenExhausted
    <1>1. ASSUME QuotaInv, [Next]_vars, NEW q \in Requests,
                 IsAnswered(q, {"limited"})', ~IsAnswered(q, {"limited"})
          PROVE  Cardinality(GrantsSince(request[q].tenant, now - Window + 1)) >= Limit
        <2>1. Typed /\ TypeOK /\ GrantsAreSpent
            BY <1>1 DEF QuotaInv, Typed
        <2>2. request'[q].pc = "answered" /\ request'[q].answer = "limited"
            BY <1>1 DEF IsAnswered
        <2>3. Allow(q)
            <3>1. request'[q] # request[q]
                BY <1>1, <2>2 DEF IsAnswered
            <3>2. ~Arrive(q)
                BY <2>1, <2>2, ArriveProceeds
            <3>3. ~(Lookup(q) \/ LookupFindsNoRun(q))
                BY <2>1, <2>2, LookupProceeds
            <3>4. ~(Execute(q) \/ ExecuteRefused(q))
                BY <2>1, <2>2, ExecuteProceeds
            <3>5. ~Store(q)
                BY <2>1, <2>2, StoreProceeds
            <3> QED
                BY <1>1, <2>1, <3>1, <3>2, <3>3, <3>4, <3>5, Ways
        <2>4. PICK t \in Tenants : t = request[q].tenant
            BY <2>1, <2>3, AllowProceeds DEF Proceeds, Asked
        <2>5. Limit > 0 /\ Bucket(t).count >= Limit
            BY <2>1, <2>2, <2>3, <2>4, AllowProceeds
        <2>6. Limit \in Int /\ now \in Int /\ Window \in Int
            BY <2>1, LimitAssumption, WindowAssumption DEF TypeOK
        <2>7. ~IsOver(quotas[t])
            BY <2>1, <2>5, <2>6, BucketTyped
        <2>8. quotas[t] # None /\ quotas[t].count >= Limit
            BY <2>1, <2>5, <2>7, BucketTyped
        <2>9. PICK start \in Int : start = quotas[t].start
            BY <2>1, <2>5, <2>8, BucketTyped
        <2>10. start >= now - Window + 1
            BY <2>6, <2>7, <2>9 DEF IsOver
        <2>11. Cardinality(GrantsSince(t, start)) >= Limit
            BY <1>1, <2>8, <2>9 DEF QuotaInv, WindowCounts
        <2>12. GrantsSince(t, start) \in SUBSET GrantsSince(t, now - Window + 1)
            BY <2>1, <2>6, <2>10, GrantTypes DEF GrantsSince
        <2>13. Cardinality(GrantsSince(t, start)) <= Cardinality(GrantsSince(t, now - Window + 1))
            BY <2>1, <2>12, Subsets, FS_Subset
        <2>14. Cardinality(GrantsSince(t, start)) \in Int
               /\ Cardinality(GrantsSince(t, now - Window + 1)) \in Int
            BY <2>1, Subsets
        <2> QED
            BY <2>4, <2>6, <2>11, <2>13, <2>14
    <1>2. QuotaInv /\ [Next]_vars =>
            [\A q \in Requests :
                IsAnswered(q, {"limited"})' /\ ~IsAnswered(q, {"limited"}) =>
                    Cardinality(GrantsSince(request[q].tenant, now - Window + 1)) >= Limit]_vars
        BY <1>1
    <1> QED
        BY <1>2, QuotaInvHolds, PTL DEF Spec, LimitedOnlyWhenExhausted
=============================================================================
