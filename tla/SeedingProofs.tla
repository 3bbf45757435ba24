---------------------------- MODULE SeedingProofs ----------------------------
(***************************************************************************)
(* Proofs about Seeding, for any number of processes, starts and           *)
(* configurations: what the tables hold, what a serving process can count  *)
(* on, and who a request is taken for.                                     *)
(***************************************************************************)
EXTENDS Seeding, WellFoundedInduction, TLAPS

Names == {e.name : e \in Entries}

Places == {"down", "tenant", "key", "serving", "refused"}

ProcessStates == [at : Places, config : Configs \cup {<<>>}, entry : Nat]

RequestStates == [at : {"idle", "found", "answered", "unread"}, key : Keys \cup {""},
                  tenant : TenantIds \cup {""}, name : Names \cup {NoName}]

Rows == [tenant : TenantIds, key : Keys]

\* A process seeds an entry of its configuration, and only a process that serves
\* has a request.
Placed ==
    /\ \A p \in Processes :
         process[p].at \in {"tenant", "key"} => process[p].entry \in DOMAIN process[p].config
    /\ \A p \in Apis :
         /\ request[p].at # "idle" => process[p].at = "serving"
         /\ request[p].at = "found" => request[p].tenant \in TenantIds

Typed ==
    /\ tenants \in [TenantIds -> {NoName} \cup Names]
    /\ apiKeys \in [Slots -> {NoRow} \cup Rows]
    /\ process \in [Processes -> ProcessStates]
    /\ request \in [Apis -> RequestStates]
    /\ starts \in 0..MaxStarts
    /\ started \subseteq Configs
    /\ undisturbed \subseteq Processes
    /\ Placed

LEMMA TypedIsTypeOK == Typed => TypeOK
    <1> SUFFICES ASSUME Typed PROVE TypeOK
        OBVIOUS
    <1>1. \A p \in Processes : process[p] \in ProcessStates
        BY DEF Typed
    <1>2. \A p \in Processes : process[p].at \in Places /\ process[p].config \in Configs \cup {<<>>}
        BY <1>1 DEF ProcessStates
    <1>3. \A p \in Apis : request[p] \in RequestStates
        BY DEF Typed
    <1>4. \A p \in Apis : request[p].at \in {"idle", "found", "answered", "unread"}
        BY <1>3 DEF RequestStates
    <1> QED
        BY <1>2, <1>4 DEF Typed, TypeOK, Placed, Places, Rows, Names

\* Configurations are sequences of entries without empty fields.
LEMMA ConfigEntries ==
    ASSUME NEW c \in Configs, NEW i \in DOMAIN c
    PROVE  /\ c[i] \in Entries /\ i \in Slots /\ i \in Nat /\ i >= 1 /\ i <= Len(c)
           /\ c[i].tenant \in TenantIds /\ c[i].key \in Keys /\ c[i].name \in Names
           /\ c[i].tenant # "" /\ c[i].key # "" /\ c[i].name # NoName
           /\ Len(c) \in Nat /\ DOMAIN c = 1..Len(c)
    <1> DEFINE Entered == [tenant : NonEmpty, name : NonEmpty, key : NonEmpty]
    <1>1. c \in Seq(Entered)
        BY SeedingAssumption
    <1> HIDE DEF Entered
    <1>2. DOMAIN c = 1..Len(c) /\ Len(c) \in Nat
        BY <1>1
    <1>3. i \in 1..Len(c)
        BY <1>2
    <1>4. c[i].tenant # "" /\ c[i].key # "" /\ c[i].name # NoName
        <2>1. c[i] \in Entered
            BY <1>1, <1>3
        <2> QED
            BY <2>1 DEF Entered, NonEmpty, NoName
    <1>5. c[i] \in ToSet(c)
        BY DEF ToSet
    <1>6. c[i] \in Entries /\ i \in Slots
        BY <1>5 DEF Entries, Slots
    <1>7. c[i].tenant \in TenantIds /\ c[i].key \in Keys /\ c[i].name \in Names
        BY <1>6 DEF TenantIds, Keys, Names
    <1>8. i \in Nat /\ i >= 1 /\ i <= Len(c)
        BY <1>2, <1>3
    <1> QED
        BY <1>2, <1>4, <1>6, <1>7, <1>8

LEMMA NonEmptyKeys ==
    ASSUME NEW k \in Keys
    PROVE  k # ""
    <1>1. PICK e \in Entries : k = e.key
        BY DEF Keys
    <1>2. PICK c \in Configs : e \in ToSet(c)
        BY DEF Entries
    <1>3. PICK i \in DOMAIN c : e = c[i]
        BY <1>2 DEF ToSet
    <1> QED
        BY <1>1, <1>3, ConfigEntries

LEMMA NonEmptyRows ==
    ASSUME NEW row \in Rows
    PROVE  row # NoRow /\ row.key # "" /\ row.key \in Keys /\ row.tenant \in TenantIds
    <1>1. row.key \in Keys /\ row.tenant \in TenantIds
        BY DEF Rows
    <1>2. row.key # ""
        BY <1>1, NonEmptyKeys
    <1>3. NoRow.key = ""
        BY DEF NoRow
    <1> QED
        BY <1>1, <1>2, <1>3

\* The entry a process is seeding.
LEMMA EntryTyped ==
    ASSUME Typed, NEW p \in Processes, process[p].at \in {"tenant", "key"}
    PROVE  /\ process[p].config \in Configs /\ process[p].entry \in DOMAIN process[p].config
           /\ Entry(p) = process[p].config[process[p].entry]
           /\ Entry(p) \in Entries /\ process[p].entry \in Slots
           /\ Entry(p).tenant \in TenantIds /\ Entry(p).key \in Keys /\ Entry(p).name \in Names
           /\ Entry(p).key # "" /\ Entry(p).name # NoName
           /\ [tenant |-> Entry(p).tenant, key |-> Entry(p).key] \in Rows
    <1>1. process[p].entry \in DOMAIN process[p].config
        BY DEF Typed, Placed
    <1>2. process[p].config \in Configs \cup {<<>>}
        BY DEF Typed, ProcessStates
    <1>3. process[p].config \in Configs
        BY <1>1, <1>2
    <1>4. PICK c \in Configs : c = process[p].config
        BY <1>3
    <1>5. PICK i \in DOMAIN c : i = process[p].entry
        BY <1>1, <1>4
    <1>6. Entry(p) = c[i]
        BY <1>4, <1>5 DEF Entry
    <1>7. /\ c[i] \in Entries /\ i \in Slots
          /\ c[i].tenant \in TenantIds /\ c[i].key \in Keys /\ c[i].name \in Names
          /\ c[i].key # "" /\ c[i].name # NoName
        BY ConfigEntries
    <1>8. [tenant |-> c[i].tenant, key |-> c[i].key] \in Rows
        BY <1>7 DEF Rows
    <1> QED
        BY <1>1, <1>3, <1>4, <1>5, <1>6, <1>7, <1>8

\* The step of a process changes its own state only.
Moves(p, new) ==
    /\ process' = [process EXCEPT ![p] = new]
    /\ new \in ProcessStates
    /\ new.at \in {"tenant", "key"} => new.entry \in DOMAIN new.config

LEMMA Moved ==
    ASSUME Typed, NEW p \in Processes, NEW new, Moves(p, new)
    PROVE  /\ process' \in [Processes -> ProcessStates]
           /\ process'[p] = new
           /\ \A q \in Processes : q # p => process'[q] = process[q]
           /\ \A q \in Processes :
                process'[q].at \in {"tenant", "key"} => process'[q].entry \in DOMAIN process'[q].config
    <1>1. process \in [Processes -> ProcessStates]
        BY DEF Typed
    <1>2. /\ process' \in [Processes -> ProcessStates] /\ process'[p] = new
          /\ \A q \in Processes : q # p => process'[q] = process[q]
        BY <1>1 DEF Moves
    <1> QED
        BY <1>2 DEF Moves, Typed, Placed

-----------------------------------------------------------------------------
(* What each action does to the state of its process. *)

LEMMA StartMoves ==
    ASSUME Typed, NEW p \in Processes, NEW c \in Configs, Start(p, c)
    PROVE  \E new : /\ Moves(p, new) /\ new.config = c
                    /\ new.at = (IF c = <<>> THEN "serving" ELSE "tenant") /\ new.entry = 1
    <1> DEFINE new == [at |-> IF c = <<>> THEN "serving" ELSE "tenant", config |-> c, entry |-> 1]
    <1>1. process' = [process EXCEPT ![p] = new]
        BY DEF Start
    <1>2. new \in ProcessStates
        BY DEF ProcessStates, Places
    <1>3. c # <<>> => 1 \in DOMAIN c
        <2>1. c \in Seq([tenant : NonEmpty, name : NonEmpty, key : NonEmpty])
            BY SeedingAssumption
        <2> QED
            BY <2>1
    <1>4. Moves(p, new)
        BY <1>1, <1>2, <1>3 DEF Moves
    <1> QED
        BY <1>4

LEMMA UpsertTenantMoves ==
    ASSUME Typed, NEW p \in Processes, UpsertTenant(p)
    PROVE  \E new : /\ Moves(p, new) /\ new.at = "key"
                    /\ new.config = process[p].config /\ new.entry = process[p].entry
    <1>1. PICK old \in ProcessStates : old = process[p]
        BY DEF Typed
    <1> DEFINE new == [old EXCEPT !.at = "key"]
    <1>2. process' = [process EXCEPT ![p] = new]
        BY <1>1 DEF UpsertTenant
    <1>3. new \in ProcessStates /\ new.at = "key" /\ new.config = old.config /\ new.entry = old.entry
        BY DEF ProcessStates, Places
    <1>4. old.entry \in DOMAIN old.config
        BY <1>1 DEF UpsertTenant, Typed, Placed
    <1> HIDE DEF new
    <1> QED
        BY <1>1, <1>2, <1>3, <1>4 DEF Moves

LEMMA UpsertKeyMoves ==
    ASSUME Typed, NEW p \in Processes, UpsertKey(p)
    PROVE  \E new :
            /\ Moves(p, new) /\ new.config = process[p].config
            /\ \/ new.at = "serving" /\ process[p].entry = Len(process[p].config)
               \/ new.at = "tenant" /\ new.entry = process[p].entry + 1
    <1>1. PICK old \in ProcessStates : old = process[p]
        BY DEF Typed
    <1>2. old.entry \in DOMAIN old.config /\ old.config \in Configs
        BY <1>1, EntryTyped DEF UpsertKey
    <1>3. old.entry \in Nat /\ DOMAIN old.config = 1..Len(old.config) /\ Len(old.config) \in Nat
        BY <1>2, ConfigEntries
    <1>4. CASE Seeded(old)
        <2> DEFINE new == [old EXCEPT !.at = "serving"]
        <2>1. process' = [process EXCEPT ![p] = new]
            BY <1>1, <1>4 DEF UpsertKey
        <2>2. new \in ProcessStates /\ new.at = "serving" /\ new.config = old.config
            BY DEF ProcessStates, Places
        <2> HIDE DEF new
        <2> QED
            BY <1>1, <1>4, <2>1, <2>2 DEF Moves, Seeded
    <1>5. CASE ~Seeded(old)
        <2> DEFINE new == [at |-> "tenant", config |-> old.config, entry |-> old.entry + 1]
        <2>1. process' = [process EXCEPT ![p] = new]
            BY <1>1, <1>5 DEF UpsertKey
        <2>2. /\ new \in ProcessStates /\ new.at = "tenant" /\ new.config = old.config
              /\ new.entry = old.entry + 1
            BY <1>2, <1>3 DEF ProcessStates, Places
        <2>3. new.entry \in DOMAIN new.config
            BY <1>2, <1>3, <1>5 DEF Seeded
        <2> HIDE DEF new
        <2> QED
            BY <1>1, <2>1, <2>2, <2>3 DEF Moves
    <1> QED
        BY <1>4, <1>5

LEMMA RefusedMoves ==
    ASSUME Typed, NEW p \in Processes, UpsertKeyRefused(p)
    PROVE  \E new : Moves(p, new) /\ new.at = "refused" /\ new.config = process[p].config
    <1>1. PICK old \in ProcessStates : old = process[p]
        BY DEF Typed
    <1> DEFINE new == [old EXCEPT !.at = "refused"]
    <1>2. process' = [process EXCEPT ![p] = new]
        BY <1>1 DEF UpsertKeyRefused
    <1>3. new \in ProcessStates /\ new.at = "refused" /\ new.config = old.config
        BY DEF ProcessStates, Places
    <1> HIDE DEF new
    <1> QED
        BY <1>1, <1>2, <1>3 DEF Moves

LEMMA DiesMoves ==
    ASSUME NEW p \in Processes, Dies(p)
    PROVE  Moves(p, Down) /\ Down.at = "down"
    BY DEF Dies, Moves, Down, ProcessStates, Places

\* The rows that the two statements of seedBootstrapData write.
LEMMA UpsertTenantWrites ==
    ASSUME Typed, NEW p \in Processes, UpsertTenant(p)
    PROVE  /\ tenants' \in [TenantIds -> {NoName} \cup Names]
           /\ Entry(p).tenant \in TenantIds /\ tenants'[Entry(p).tenant] = Entry(p).name
           /\ Entry(p).name # NoName
           /\ \A t \in TenantIds : t # Entry(p).tenant => tenants'[t] = tenants[t]
           /\ UNCHANGED apiKeys
    <1>1. Entry(p).tenant \in TenantIds /\ Entry(p).name \in Names /\ Entry(p).name # NoName
        BY EntryTyped DEF UpsertTenant
    <1>2. tenants' = [tenants EXCEPT ![Entry(p).tenant] = Entry(p).name] /\ UNCHANGED apiKeys
        BY DEF UpsertTenant
    <1>3. tenants \in [TenantIds -> {NoName} \cup Names]
        BY DEF Typed
    <1> QED
        BY <1>1, <1>2, <1>3

LEMMA UpsertKeyWrites ==
    ASSUME Typed, NEW p \in Processes, UpsertKey(p)
    PROVE  /\ apiKeys' \in [Slots -> {NoRow} \cup Rows]
           /\ process[p].entry \in Slots
           /\ apiKeys'[process[p].entry] = [tenant |-> Entry(p).tenant, key |-> Entry(p).key]
           /\ apiKeys'[process[p].entry] \in Rows
           /\ \A i \in Slots : i # process[p].entry => apiKeys'[i] = apiKeys[i]
           /\ UNCHANGED tenants
    <1>1. /\ process[p].entry \in Slots
          /\ [tenant |-> Entry(p).tenant, key |-> Entry(p).key] \in Rows
        BY EntryTyped DEF UpsertKey
    <1>2. /\ apiKeys' = [apiKeys EXCEPT ![process[p].entry] =
                            [tenant |-> Entry(p).tenant, key |-> Entry(p).key]]
          /\ UNCHANGED tenants
        BY DEF UpsertKey, Upserted
    <1>3. apiKeys \in [Slots -> {NoRow} \cup Rows]
        BY DEF Typed
    <1> QED
        BY <1>1, <1>2, <1>3

\* What authentication does to the request of a process.
Asks(p, new) ==
    /\ request' = [request EXCEPT ![p] = new]
    /\ new \in RequestStates
    /\ new.at # "idle" => process[p].at = "serving"
    /\ new.at = "found" => new.tenant \in TenantIds
    /\ UNCHANGED <<tenants, apiKeys, process, starts, started, undisturbed>>

LEMMA Asked ==
    ASSUME Typed, NEW p \in Apis, NEW new, Asks(p, new)
    PROVE  /\ request' \in [Apis -> RequestStates] /\ request'[p] = new
           /\ \A q \in Apis : q # p => request'[q] = request[q]
           /\ Typed'
    <1>1. request \in [Apis -> RequestStates]
        BY DEF Typed
    <1>2. /\ request' \in [Apis -> RequestStates] /\ request'[p] = new
          /\ \A q \in Apis : q # p => request'[q] = request[q]
        BY <1>1 DEF Asks
    <1>3. Placed'
        BY <1>2 DEF Asks, Typed, Placed
    <1> QED
        BY <1>2, <1>3 DEF Asks, Typed

LEMMA LookupAsks ==
    ASSUME Typed, NEW p \in Apis, NEW k \in Keys, LookupByHash(p, k)
    PROVE  \E new :
            /\ Asks(p, new) /\ new.key = k
            /\ \/ /\ new.at = "found"
                  /\ \E row \in RowsOf(k) : row \in Rows /\ row.key = k /\ new.tenant = row.tenant
               \/ new.at = "answered" /\ RowsOf(k) = {} /\ new.tenant = ""
    <1>1. process[p].at = "serving"
          /\ UNCHANGED <<tenants, apiKeys, process, starts, started, undisturbed>>
        BY DEF LookupByHash
    <1>2. ASSUME NEW row \in RowsOf(k)
          PROVE  row \in Rows /\ row.key = k /\ row.tenant \in TenantIds
        <2>1. PICK i \in Slots : row = apiKeys[i] /\ apiKeys[i].key = k
            BY DEF RowsOf
        <2>2. row \in {NoRow} \cup Rows
            BY <2>1 DEF Typed
        <2>3. row # NoRow
            <3>1. NoRow.key = "" /\ k # ""
                BY NonEmptyKeys DEF NoRow
            <3> QED
                BY <2>1, <3>1
        <2> QED
            BY <2>1, <2>2, <2>3, NonEmptyRows
    <1>3. ASSUME NEW row \in RowsOf(k),
                 request' = [request EXCEPT ![p] =
                    [at |-> "found", key |-> k, tenant |-> row.tenant, name |-> NoName]]
          PROVE  \E new : /\ Asks(p, new) /\ new.key = k /\ new.at = "found"
                          /\ row \in Rows /\ row.key = k /\ new.tenant = row.tenant
        <2> DEFINE new == [at |-> "found", key |-> k, tenant |-> row.tenant, name |-> NoName]
        <2>1. new \in RequestStates /\ new.at = "found" /\ new.key = k /\ new.tenant = row.tenant
            BY <1>2 DEF RequestStates
        <2>2. Asks(p, new)
            BY <1>1, <1>2, <1>3, <2>1 DEF Asks
        <2> QED
            BY <1>2, <2>1, <2>2
    <1>4. ASSUME RowsOf(k) = {}, request' = [request EXCEPT ![p] = Unauthorized(k)]
          PROVE  \E new : /\ Asks(p, new) /\ new.key = k /\ new.at = "answered" /\ new.tenant = ""
        <2>1. /\ Unauthorized(k) \in RequestStates /\ Unauthorized(k).at = "answered"
              /\ Unauthorized(k).key = k /\ Unauthorized(k).tenant = ""
            BY DEF Unauthorized, RequestStates
        <2>2. Asks(p, Unauthorized(k))
            BY <1>1, <1>4, <2>1 DEF Asks
        <2> QED
            BY <2>1, <2>2
    <1> QED
        BY <1>3, <1>4 DEF LookupByHash

LEMMA GetTenantAsks ==
    ASSUME Typed, NEW p \in Apis, GetTenant(p)
    PROVE  \E new :
            /\ Asks(p, new) /\ new.at = "answered" /\ request[p].at = "found"
            /\ new.key = request[p].key /\ new.tenant = request[p].tenant
            /\ new.tenant \in TenantIds /\ new.name = tenants[new.tenant]
    <1>1. PICK old \in RequestStates : old = request[p]
        BY DEF Typed
    <1>2. old.at = "found" /\ old.tenant \in TenantIds /\ process[p].at = "serving"
          /\ UNCHANGED <<tenants, apiKeys, process, starts, started, undisturbed>>
        BY <1>1 DEF GetTenant, Typed, Placed
    <1> DEFINE new == [at |-> "answered", key |-> old.key, tenant |-> old.tenant,
                       name |-> tenants[old.tenant]]
    <1>3. request' = [request EXCEPT ![p] = new]
        BY <1>1 DEF GetTenant
    <1>4. tenants[old.tenant] \in {NoName} \cup Names
        BY <1>2 DEF Typed
    <1>5. /\ new \in RequestStates /\ new.at = "answered" /\ new.key = old.key
          /\ new.tenant = old.tenant /\ new.name = tenants[old.tenant]
        BY <1>4 DEF RequestStates
    <1> HIDE DEF new
    <1>6. Asks(p, new)
        BY <1>2, <1>3, <1>5 DEF Asks
    <1> QED
        BY <1>1, <1>2, <1>5, <1>6

LEMMA OtherAsks ==
    ASSUME Typed, NEW p \in Apis, (\E k \in Keys : ReadFails(p, k)) \/ RequestEnds(p)
    PROVE  \E new : Asks(p, new) /\ new.at \in {"idle", "unread"}
    <1>1. ASSUME NEW k \in Keys, ReadFails(p, k)
          PROVE  \E new : Asks(p, new) /\ new.at \in {"idle", "unread"}
        <2> DEFINE new == [Unauthorized(k) EXCEPT !.at = "unread"]
        <2>1. new \in RequestStates /\ new.at = "unread"
            BY DEF Unauthorized, RequestStates
        <2>2. Asks(p, new)
            BY <1>1, <2>1 DEF Asks, ReadFails
        <2> QED
            BY <2>1, <2>2
    <1>2. CASE RequestEnds(p)
        <2>1. Idle \in RequestStates /\ Idle.at = "idle"
            BY DEF Idle, RequestStates, NoName
        <2>2. Asks(p, Idle)
            BY <1>2, <2>1 DEF Asks, RequestEnds
        <2> QED
            BY <2>1, <2>2
    <1> QED
        BY <1>1, <1>2

-----------------------------------------------------------------------------
(* Types. *)

\* A process that leaves its place while it has no request keeps Placed.
LEMMA PlacedAfterMove ==
    ASSUME Typed, NEW p \in Processes, NEW new, Moves(p, new), UNCHANGED request,
           process[p].at # "serving"
    PROVE  Placed'
    <1>1. /\ \A q \in Processes : q # p => process'[q] = process[q]
          /\ \A q \in Processes :
                process'[q].at \in {"tenant", "key"} => process'[q].entry \in DOMAIN process'[q].config
        BY Moved
    <1>2. ASSUME NEW q \in Apis
          PROVE  /\ request[q].at # "idle" => process'[q].at = "serving"
                 /\ request[q].at = "found" => request[q].tenant \in TenantIds
        <2>1. q \in Processes /\ (request[q].at # "idle" => process[q].at = "serving")
              /\ (request[q].at = "found" => request[q].tenant \in TenantIds)
            BY DEF Typed, Placed, Processes
        <2> QED
            BY <1>1, <2>1
    <1> QED
        BY <1>1, <1>2 DEF Placed

LEMMA TypedStep ==
    ASSUME Typed, [Next]_vars
    PROVE  Typed'
    <1>1. ASSUME NEW p \in Processes, NEW c \in Configs, Start(p, c)
          PROVE  Typed'
        <2>1. PICK new : Moves(p, new)
            BY <1>1, StartMoves
        <2>2. /\ process[p].at # "serving" /\ starts' \in 0..MaxStarts /\ started' \subseteq Configs
              /\ undisturbed' \subseteq Processes /\ UNCHANGED <<tenants, apiKeys, request>>
            BY <1>1, SeedingAssumption DEF Start, Typed
        <2>3. process' \in [Processes -> ProcessStates] /\ Placed'
            BY <2>1, <2>2, Moved, PlacedAfterMove
        <2> QED
            BY <2>2, <2>3 DEF Typed
    <1>2. ASSUME NEW p \in Processes, UpsertTenant(p)
          PROVE  Typed'
        <2>1. PICK new : Moves(p, new)
            BY <1>2, UpsertTenantMoves
        <2>2. /\ process[p].at # "serving" /\ UNCHANGED <<apiKeys, request, starts, started>>
              /\ undisturbed' \subseteq Processes
            BY <1>2 DEF UpsertTenant, Disturb, Typed
        <2>3. process' \in [Processes -> ProcessStates] /\ Placed'
            BY <2>1, <2>2, Moved, PlacedAfterMove
        <2> QED
            BY <1>2, <2>2, <2>3, UpsertTenantWrites DEF Typed
    <1>3. ASSUME NEW p \in Processes, UpsertKey(p)
          PROVE  Typed'
        <2>1. PICK new : Moves(p, new)
            BY <1>3, UpsertKeyMoves
        <2>2. /\ process[p].at # "serving" /\ UNCHANGED <<tenants, request, starts, started>>
              /\ undisturbed' \subseteq Processes
            BY <1>3 DEF UpsertKey, Disturb, Typed
        <2>3. process' \in [Processes -> ProcessStates] /\ Placed'
            BY <2>1, <2>2, Moved, PlacedAfterMove
        <2> QED
            BY <1>3, <2>2, <2>3, UpsertKeyWrites DEF Typed
    <1>4. ASSUME NEW p \in Processes, UpsertKeyRefused(p)
          PROVE  Typed'
        <2>1. PICK new : Moves(p, new)
            BY <1>4, RefusedMoves
        <2>2. /\ process[p].at # "serving" /\ UNCHANGED <<tenants, apiKeys, request, starts, started>>
              /\ undisturbed' \subseteq Processes
            BY <1>4 DEF UpsertKeyRefused, Typed
        <2>3. process' \in [Processes -> ProcessStates] /\ Placed'
            BY <2>1, <2>2, Moved, PlacedAfterMove
        <2> QED
            BY <2>2, <2>3 DEF Typed
    <1>5. ASSUME NEW p \in Processes, Dies(p)
          PROVE  Typed'
        <2>1. /\ request' = [q \in Apis |-> IF q = p THEN Idle ELSE request[q]]
              /\ UNCHANGED <<tenants, apiKeys, starts, started>> /\ undisturbed' \subseteq Processes
            BY <1>5 DEF Dies, Typed
        <2>2. Idle \in RequestStates /\ Idle.at = "idle"
            BY DEF Idle, RequestStates, NoName
        <2>3. request' \in [Apis -> RequestStates]
            BY <2>1, <2>2 DEF Typed
        <2>4. /\ process' \in [Processes -> ProcessStates]
              /\ \A q \in Processes : q # p => process'[q] = process[q]
              /\ \A q \in Processes :
                    process'[q].at \in {"tenant", "key"} =>
                        process'[q].entry \in DOMAIN process'[q].config
            BY <1>5, DiesMoves, Moved
        <2>5. Placed'
            BY <2>1, <2>2, <2>4 DEF Placed, Typed, Processes
        <2> QED
            BY <2>1, <2>3, <2>4, <2>5 DEF Typed
    <1>6. ASSUME NEW p \in Apis, NEW k \in Keys, LookupByHash(p, k)
          PROVE  Typed'
        BY <1>6, LookupAsks, Asked
    <1>7. ASSUME NEW p \in Apis, GetTenant(p)
          PROVE  Typed'
        BY <1>7, GetTenantAsks, Asked
    <1>8. ASSUME NEW p \in Apis, (\E k \in Keys : ReadFails(p, k)) \/ RequestEnds(p)
          PROVE  Typed'
        BY <1>8, OtherAsks, Asked
    <1>9. CASE UNCHANGED vars
        BY <1>9 DEF vars, Typed, Placed
    <1> QED
        BY <1>1, <1>2, <1>3, <1>4, <1>5, <1>6, <1>7, <1>8, <1>9 DEF Next

LEMMA TypedInitially == Init => Typed
    <1> SUFFICES ASSUME Init PROVE Typed
        OBVIOUS
    <1>1. tenants \in [TenantIds -> {NoName} \cup Names] /\ apiKeys \in [Slots -> {NoRow} \cup Rows]
        BY DEF Init
    <1>2. Down \in ProcessStates /\ Down.at = "down"
        BY DEF Down, ProcessStates, Places
    <1>3. Idle \in RequestStates /\ Idle.at = "idle"
        BY DEF Idle, RequestStates, NoName
    <1>4. process \in [Processes -> ProcessStates] /\ \A p \in Processes : process[p].at = "down"
        BY <1>2 DEF Init
    <1>5. request \in [Apis -> RequestStates] /\ \A p \in Apis : request[p].at = "idle"
        BY <1>3 DEF Init
    <1>6. Placed
        BY <1>4, <1>5 DEF Placed
    <1> QED
        BY <1>1, <1>4, <1>5, <1>6, SeedingAssumption DEF Init, Typed

\* The tables only hold what some configuration asks for, a process seeds within
\* its configuration, and only a process that has seeded it all has requests.
THEOREM SeedingIsTyped == Spec => []TypeOK
    <1>1. Typed /\ [Next]_vars => Typed'
        BY TypedStep
    <1> QED
        BY <1>1, TypedInitially, TypedIsTypeOK, PTL DEF Spec

-----------------------------------------------------------------------------
(* What the tables hold. *)

Row(e) == [tenant |-> e.tenant, key |-> e.key]

\* Every process works on a configuration that a start brought in.
ConfigsAreStarted == \A p \in Processes : process[p].at # "down" => process[p].config \in started

RowsAreConfigured == \A i \in Slots : apiKeys[i] # NoRow =>
    \E c \in started : i \in DOMAIN c /\ apiKeys[i] = Row(c[i])

NamesAreConfigured == \A t \in TenantIds : tenants[t] # NoName =>
    \E c \in started : \E i \in DOMAIN c : c[i].tenant = t /\ tenants[t] = c[i].name

\* The column's UNIQUE.
KeysAreUnique == \A i, j \in Slots : apiKeys[i] # NoRow /\ apiKeys[i].key = apiKeys[j].key => i = j

\* The process has written the key of its entry j, or its tenant.
KeyDone(p, j) ==
    /\ j \in DOMAIN process[p].config
    /\ process[p].at = "serving" \/ (process[p].at \in {"tenant", "key"} /\ j < process[p].entry)

TenantDone(p, j) ==
    KeyDone(p, j) \/ (process[p].at = "key" /\ j = process[p].entry)

\* No row disappears: what a process has written is still there, perhaps
\* rewritten by another one.
Progress == \A p \in Processes : \A j \in DOMAIN process[p].config :
    /\ KeyDone(p, j) => apiKeys[j] # NoRow
    /\ TenantDone(p, j) => tenants[process[p].config[j].tenant] # NoName

\* What a process has written is as it wrote it, while nobody else changes a row.
OwnRows == \A p \in undisturbed : \A j \in DOMAIN process[p].config :
    /\ KeyDone(p, j) => apiKeys[j] = Row(process[p].config[j])
    /\ TenantDone(p, j) => \E i \in DOMAIN process[p].config :
            /\ process[p].config[i].tenant = process[p].config[j].tenant
            /\ tenants[process[p].config[j].tenant] = process[p].config[i].name

TablesInv ==
    /\ Typed /\ ConfigsAreStarted /\ RowsAreConfigured /\ NamesAreConfigured
    /\ KeysAreUnique /\ Progress /\ OwnRows

\* The tables change by the two upserts only, and the starts are remembered.
LEMMA TableSteps ==
    ASSUME Typed, [Next]_vars
    PROVE  /\ started \subseteq started'
           /\ \/ UNCHANGED <<tenants, apiKeys>>
              \/ \E p \in Processes : UpsertTenant(p) \/ UpsertKey(p)
    <1>1. ASSUME NEW p \in Processes
          PROVE  /\ \A c \in Configs : Start(p, c) =>
                        started \subseteq started' /\ UNCHANGED <<tenants, apiKeys>>
                 /\ UpsertTenant(p) \/ UpsertKey(p) => started \subseteq started'
                 /\ UpsertKeyRefused(p) \/ Dies(p) =>
                        started \subseteq started' /\ UNCHANGED <<tenants, apiKeys>>
        BY DEF Start, UpsertTenant, UpsertKey, UpsertKeyRefused, Dies
    <1>2. ASSUME NEW p \in Apis
          PROVE  /\ \A k \in Keys : LookupByHash(p, k) \/ ReadFails(p, k) =>
                        UNCHANGED <<tenants, apiKeys, started>>
                 /\ GetTenant(p) \/ RequestEnds(p) => UNCHANGED <<tenants, apiKeys, started>>
        BY DEF LookupByHash, ReadFails, GetTenant, RequestEnds
    <1>3. CASE UNCHANGED vars
        BY <1>3 DEF vars
    <1> QED
        BY <1>1, <1>2, <1>3, Zenon DEF Next

\* How the state of a process can change.
LEMMA ProcessSteps ==
    ASSUME Typed, [Next]_vars, NEW q \in Processes
    PROVE  \/ process'[q] = process[q] /\ (q \in undisturbed' => q \in undisturbed)
           \/ \E c \in Configs : Start(q, c)
           \/ UpsertTenant(q) \/ UpsertKey(q) \/ UpsertKeyRefused(q) \/ Dies(q)
    <1>1. ASSUME NEW p \in Processes, NEW c \in Configs, Start(p, c), p # q
          PROVE  process'[q] = process[q] /\ (q \in undisturbed' => q \in undisturbed)
        BY <1>1, StartMoves, Moved DEF Start
    <1>2. ASSUME NEW p \in Processes, UpsertTenant(p), p # q
          PROVE  process'[q] = process[q] /\ (q \in undisturbed' => q \in undisturbed)
        BY <1>2, UpsertTenantMoves, Moved DEF UpsertTenant, Disturb
    <1>3. ASSUME NEW p \in Processes, UpsertKey(p), p # q
          PROVE  process'[q] = process[q] /\ (q \in undisturbed' => q \in undisturbed)
        BY <1>3, UpsertKeyMoves, Moved DEF UpsertKey, Disturb
    <1>4. ASSUME NEW p \in Processes, UpsertKeyRefused(p), p # q
          PROVE  process'[q] = process[q] /\ (q \in undisturbed' => q \in undisturbed)
        BY <1>4, RefusedMoves, Moved DEF UpsertKeyRefused
    <1>5. ASSUME NEW p \in Processes, Dies(p), p # q
          PROVE  process'[q] = process[q] /\ (q \in undisturbed' => q \in undisturbed)
        BY <1>5, DiesMoves, Moved DEF Dies
    <1>6. ASSUME NEW p \in Apis
          PROVE  /\ \A k \in Keys : LookupByHash(p, k) \/ ReadFails(p, k) =>
                        UNCHANGED <<process, undisturbed>>
                 /\ GetTenant(p) \/ RequestEnds(p) => UNCHANGED <<process, undisturbed>>
        BY DEF LookupByHash, ReadFails, GetTenant, RequestEnds
    <1>7. CASE UNCHANGED vars
        BY <1>7 DEF vars
    <1> QED
        BY <1>1, <1>2, <1>3, <1>4, <1>5, <1>6, <1>7, Zenon DEF Next

\* What a process has done after a step, it had done before, or does by the step.
LEMMA DoneBefore ==
    ASSUME Typed, [Next]_vars, NEW q \in Processes, NEW j
    PROVE  /\ KeyDone(q, j)' =>
                /\ process'[q].config = process[q].config
                /\ q \in undisturbed' => q \in undisturbed
                /\ KeyDone(q, j) \/ (UpsertKey(q) /\ j = process[q].entry)
           /\ TenantDone(q, j)' =>
                /\ process'[q].config = process[q].config
                /\ q \in undisturbed' => q \in undisturbed
                /\ TenantDone(q, j) \/ (UpsertTenant(q) /\ j = process[q].entry)
    <1>1. CASE process'[q] = process[q] /\ (q \in undisturbed' => q \in undisturbed)
        BY <1>1 DEF KeyDone, TenantDone
    <1>2. ASSUME NEW c \in Configs, Start(q, c)
          PROVE  ~KeyDone(q, j)' /\ ~TenantDone(q, j)'
        <2>1. /\ process'[q].config = c /\ process'[q].entry = 1
              /\ process'[q].at = (IF c = <<>> THEN "serving" ELSE "tenant")
            BY <1>2, StartMoves, Moved
        <2>2. c = <<>> \/ \A i \in DOMAIN c : i \in Nat /\ i >= 1
            BY ConfigEntries
        <2> QED
            BY <2>1, <2>2 DEF KeyDone, TenantDone
    <1>3. CASE UpsertTenant(q)
        <2>1. /\ process'[q].at = "key" /\ process'[q].config = process[q].config
              /\ process'[q].entry = process[q].entry /\ process[q].at = "tenant"
              /\ undisturbed' \subseteq undisturbed
            <3>1. PICK new :
                    /\ Moves(q, new) /\ new.at = "key"
                    /\ new.config = process[q].config /\ new.entry = process[q].entry
                BY <1>3, UpsertTenantMoves
            <3>2. process'[q] = new
                BY <3>1, Moved
            <3>3. process[q].at = "tenant"
                BY <1>3 DEF UpsertTenant
            <3>4. undisturbed' \subseteq undisturbed
                BY <1>3 DEF UpsertTenant, Disturb
            <3> QED
                BY <3>1, <3>2, <3>3, <3>4
        <2> QED
            BY <1>3, <2>1 DEF KeyDone, TenantDone
    <1>4. CASE UpsertKey(q)
        <2>1. /\ process'[q].config = process[q].config /\ process[q].at = "key"
              /\ \/ process'[q].at = "serving" /\ process[q].entry = Len(process[q].config)
                 \/ process'[q].at = "tenant" /\ process'[q].entry = process[q].entry + 1
              /\ undisturbed' \subseteq undisturbed
            <3>1. PICK new :
                    /\ Moves(q, new) /\ new.config = process[q].config
                    /\ \/ new.at = "serving" /\ process[q].entry = Len(process[q].config)
                       \/ new.at = "tenant" /\ new.entry = process[q].entry + 1
                BY <1>4, UpsertKeyMoves
            <3>2. process'[q] = new
                BY <3>1, Moved
            <3>3. process[q].at = "key"
                BY <1>4 DEF UpsertKey
            <3>4. undisturbed' \subseteq undisturbed
                BY <1>4 DEF UpsertKey, Disturb
            <3> QED
                BY <3>1, <3>2, <3>3, <3>4
        <2>2. process[q].config \in Configs /\ process[q].entry \in DOMAIN process[q].config
            BY <2>1, EntryTyped
        <2>3. process[q].entry \in Nat
            BY <2>2, ConfigEntries
        <2>4. \A i \in DOMAIN process[q].config : i \in Nat /\ i <= Len(process[q].config)
            BY <2>2, ConfigEntries
        <2>5. KeyDone(q, j)' => KeyDone(q, j) \/ j = process[q].entry
            BY <2>1, <2>3, <2>4 DEF KeyDone
        <2>6. TenantDone(q, j)' => TenantDone(q, j)
            BY <2>1, <2>5 DEF TenantDone, KeyDone
        <2> QED
            BY <1>4, <2>1, <2>5, <2>6
    <1>5. CASE UpsertKeyRefused(q) \/ Dies(q)
        <2>1. process'[q].at \in {"refused", "down"}
            BY <1>5, RefusedMoves, DiesMoves, Moved
        <2> QED
            BY <2>1 DEF KeyDone, TenantDone
    <1> QED
        BY <1>1, <1>2, <1>3, <1>4, <1>5, ProcessSteps

LEMMA ConfigsAreStartedStep ==
    ASSUME Typed, ConfigsAreStarted, [Next]_vars
    PROVE  ConfigsAreStarted'
    <1>1. SUFFICES ASSUME NEW q \in Processes, process'[q].at # "down"
                   PROVE  process'[q].config \in started'
        BY DEF ConfigsAreStarted
    <1>2. ASSUME NEW c \in Configs, Start(q, c)
          PROVE  process'[q].config \in started'
        <2>1. process'[q].config = c
            BY <1>2, StartMoves, Moved
        <2> QED
            BY <1>2, <2>1 DEF Start
    <1>3. ASSUME process[q].at # "down", process'[q].config = process[q].config
          PROVE  process'[q].config \in started'
        BY <1>3, TableSteps DEF ConfigsAreStarted
    <1>4. CASE process'[q] = process[q]
        BY <1>1, <1>3, <1>4
    <1>5. CASE UpsertTenant(q)
        BY <1>3, <1>5, UpsertTenantMoves, Moved DEF UpsertTenant
    <1>6. CASE UpsertKey(q)
        BY <1>3, <1>6, UpsertKeyMoves, Moved DEF UpsertKey
    <1>7. CASE UpsertKeyRefused(q)
        BY <1>3, <1>7, RefusedMoves, Moved DEF UpsertKeyRefused
    <1>8. CASE Dies(q)
        BY <1>1, <1>8, DiesMoves, Moved
    <1> QED
        BY <1>2, <1>4, <1>5, <1>6, <1>7, <1>8, ProcessSteps

LEMMA RowsStep ==
    ASSUME Typed, ConfigsAreStarted, RowsAreConfigured, NamesAreConfigured, KeysAreUnique,
           [Next]_vars
    PROVE  RowsAreConfigured' /\ NamesAreConfigured' /\ KeysAreUnique'
    <1>1. started \subseteq started'
        BY TableSteps
    <1>2. CASE UNCHANGED <<tenants, apiKeys>>
        BY <1>1, <1>2 DEF RowsAreConfigured, NamesAreConfigured, KeysAreUnique
    <1>3. ASSUME NEW p \in Processes, UpsertTenant(p)
          PROVE  RowsAreConfigured' /\ NamesAreConfigured' /\ KeysAreUnique'
        <2>1. PICK c \in started' : c = process[p].config
            BY <1>1, <1>3 DEF ConfigsAreStarted, UpsertTenant
        <2>2. process[p].entry \in DOMAIN c /\ Entry(p) = c[process[p].entry]
            BY <1>3, <2>1, EntryTyped DEF UpsertTenant
        <2>3. RowsAreConfigured' /\ KeysAreUnique'
            BY <1>1, <1>3, UpsertTenantWrites DEF RowsAreConfigured, KeysAreUnique
        <2>4. ASSUME NEW t \in TenantIds, tenants'[t] # NoName
              PROVE  \E d \in started' : \E i \in DOMAIN d : d[i].tenant = t /\ tenants'[t] = d[i].name
            <3>1. CASE t = Entry(p).tenant
                BY <1>3, <2>2, <3>1, UpsertTenantWrites
            <3>2. CASE t # Entry(p).tenant
                BY <1>1, <1>3, <2>4, <3>2, UpsertTenantWrites DEF NamesAreConfigured
            <3> QED
                BY <3>1, <3>2
        <2> QED
            BY <2>3, <2>4 DEF NamesAreConfigured
    <1>4. ASSUME NEW p \in Processes, UpsertKey(p)
          PROVE  RowsAreConfigured' /\ NamesAreConfigured' /\ KeysAreUnique'
        <2>1. PICK c \in started' : c = process[p].config
            BY <1>1, <1>4 DEF ConfigsAreStarted, UpsertKey
        <2>2. process[p].entry \in DOMAIN c /\ Entry(p) = c[process[p].entry]
            BY <1>4, <2>1, EntryTyped DEF UpsertKey
        <2>3. NamesAreConfigured'
            <3>1. UNCHANGED tenants
                BY <1>4, UpsertKeyWrites
            <3> QED
                BY <1>1, <3>1 DEF NamesAreConfigured
        <2>4. PICK n \in Slots : n = process[p].entry
            BY <1>4, UpsertKeyWrites
        <2>5. /\ apiKeys'[n] = Row(Entry(p)) /\ apiKeys'[n].key = Entry(p).key
              /\ \A i \in Slots : i # n => apiKeys'[i] = apiKeys[i]
            BY <1>4, <2>4, UpsertKeyWrites DEF Row
        <2>6. ASSUME NEW i \in Slots, apiKeys'[i] # NoRow
              PROVE  \E d \in started' : i \in DOMAIN d /\ apiKeys'[i] = Row(d[i])
            <3>1. CASE i = n
                BY <2>2, <2>4, <2>5, <3>1
            <3>2. CASE i # n
                BY <1>1, <2>5, <2>6, <3>2 DEF RowsAreConfigured
            <3> QED
                BY <3>1, <3>2
        <2>7. \A i \in Slots : i # n => apiKeys[i].key # Entry(p).key
            BY <1>4, <2>4 DEF UpsertKey, BreaksConstraint
        <2>8. KeysAreUnique'
            BY <2>5, <2>7 DEF KeysAreUnique
        <2> QED
            BY <2>3, <2>6, <2>8 DEF RowsAreConfigured
    <1> QED
        BY <1>2, <1>3, <1>4, TableSteps

\* Rows are overwritten and never deleted.
LEMMA RowsStay ==
    ASSUME Typed, [Next]_vars
    PROVE  /\ \A i \in Slots : apiKeys[i] # NoRow => apiKeys'[i] # NoRow
           /\ \A t \in TenantIds : tenants[t] # NoName => tenants'[t] # NoName
    <1>1. ASSUME NEW p \in Processes, UpsertTenant(p)
          PROVE  /\ \A i \in Slots : apiKeys[i] # NoRow => apiKeys'[i] # NoRow
                 /\ \A t \in TenantIds : tenants[t] # NoName => tenants'[t] # NoName
        BY <1>1, UpsertTenantWrites
    <1>2. ASSUME NEW p \in Processes, UpsertKey(p)
          PROVE  /\ \A i \in Slots : apiKeys[i] # NoRow => apiKeys'[i] # NoRow
                 /\ \A t \in TenantIds : tenants[t] # NoName => tenants'[t] # NoName
        BY <1>2, UpsertKeyWrites, NonEmptyRows
    <1> QED
        BY <1>1, <1>2, TableSteps

\* The configuration of a process that has done something is one of Configs.
LEMMA DoneConfig ==
    ASSUME Typed, NEW q \in Processes, NEW j \in DOMAIN process[q].config
    PROVE  process[q].config \in Configs /\ j \in Slots /\ process[q].config[j].tenant \in TenantIds
    <1>1. process[q].config \in Configs \cup {<<>>}
        BY DEF Typed, ProcessStates
    <1>2. process[q].config \in Configs
        BY <1>1
    <1> QED
        BY <1>2, ConfigEntries

LEMMA ProgressStep ==
    ASSUME Typed, Progress, [Next]_vars
    PROVE  Progress'
    <1>1. SUFFICES ASSUME NEW q \in Processes, NEW j \in DOMAIN process'[q].config
                   PROVE  /\ KeyDone(q, j)' => apiKeys'[j] # NoRow
                          /\ TenantDone(q, j)' => tenants'[process'[q].config[j].tenant] # NoName
        BY DEF Progress
    <1>2. ASSUME KeyDone(q, j)'
          PROVE  apiKeys'[j] # NoRow
        <2>1. process'[q].config = process[q].config
              /\ (KeyDone(q, j) \/ (UpsertKey(q) /\ j = process[q].entry))
            BY <1>2, DoneBefore
        <2>2. CASE KeyDone(q, j)
            BY <1>1, <2>1, <2>2, RowsStay, DoneConfig DEF Progress
        <2>3. CASE UpsertKey(q) /\ j = process[q].entry
            BY <2>3, UpsertKeyWrites, NonEmptyRows
        <2> QED
            BY <2>1, <2>2, <2>3
    <1>3. ASSUME TenantDone(q, j)'
          PROVE  tenants'[process'[q].config[j].tenant] # NoName
        <2>1. process'[q].config = process[q].config
              /\ (TenantDone(q, j) \/ (UpsertTenant(q) /\ j = process[q].entry))
            BY <1>3, DoneBefore
        <2>2. CASE TenantDone(q, j)
            BY <1>1, <2>1, <2>2, RowsStay, DoneConfig DEF Progress
        <2>3. CASE UpsertTenant(q) /\ j = process[q].entry
            BY <2>1, <2>3, UpsertTenantWrites DEF Entry
        <2> QED
            BY <2>1, <2>2, <2>3
    <1> QED
        BY <1>2, <1>3

\* While a process is undisturbed, the tables change by its own upserts only.
LEMMA OnlyOwnSteps ==
    ASSUME Typed, [Next]_vars, NEW q \in Processes, q \in undisturbed'
    PROVE  UNCHANGED <<tenants, apiKeys>> \/ UpsertTenant(q) \/ UpsertKey(q)
    <1>1. ASSUME NEW p \in Processes, UpsertTenant(p) \/ UpsertKey(p), p # q
          PROVE  UNCHANGED <<tenants, apiKeys>>
        <2>1. undisturbed' = IF <<tenants', apiKeys'>> = <<tenants, apiKeys>>
                             THEN undisturbed ELSE undisturbed \cap {p}
            BY <1>1 DEF UpsertTenant, UpsertKey, Disturb
        <2> QED
            BY <1>1, <2>1
    <1> QED
        BY <1>1, TableSteps

LEMMA OwnRowsStep ==
    ASSUME Typed, OwnRows, [Next]_vars
    PROVE  OwnRows'
    <1>1. SUFFICES ASSUME NEW q \in undisturbed', q \in Processes,
                          NEW j \in DOMAIN process'[q].config
                   PROVE  /\ KeyDone(q, j)' => apiKeys'[j] = Row(process'[q].config[j])
                          /\ TenantDone(q, j)' => \E i \in DOMAIN process'[q].config :
                                /\ process'[q].config[i].tenant = process'[q].config[j].tenant
                                /\ tenants'[process'[q].config[j].tenant] = process'[q].config[i].name
        <2>1. undisturbed' \subseteq Processes
            BY TypedStep DEF Typed
        <2> QED
            BY <2>1 DEF OwnRows, Row
    <1>2. ASSUME KeyDone(q, j)'
          PROVE  apiKeys'[j] = Row(process'[q].config[j])
        <2>1. process'[q].config = process[q].config /\ q \in undisturbed
              /\ (KeyDone(q, j) \/ (UpsertKey(q) /\ j = process[q].entry))
            BY <1>1, <1>2, DoneBefore
        <2>2. j \in Slots
            BY <1>1, <2>1, DoneConfig
        <2>3. CASE UpsertKey(q) /\ j = process[q].entry
            BY <1>1, <2>1, <2>3, UpsertKeyWrites DEF Row, Entry
        <2>4. CASE KeyDone(q, j) /\ ~(UpsertKey(q) /\ j = process[q].entry)
            <3>1. apiKeys[j] = Row(process[q].config[j])
                BY <1>1, <2>1, <2>4 DEF OwnRows
            <3>2. apiKeys'[j] = apiKeys[j]
                BY <1>1, <2>2, <2>4, OnlyOwnSteps, UpsertTenantWrites, UpsertKeyWrites
            <3> QED
                BY <2>1, <3>1, <3>2
        <2> QED
            BY <2>1, <2>3, <2>4
    <1>3. ASSUME TenantDone(q, j)'
          PROVE  \E i \in DOMAIN process'[q].config :
                    /\ process'[q].config[i].tenant = process'[q].config[j].tenant
                    /\ tenants'[process'[q].config[j].tenant] = process'[q].config[i].name
        <2>1. process'[q].config = process[q].config /\ q \in undisturbed
              /\ (TenantDone(q, j) \/ (UpsertTenant(q) /\ j = process[q].entry))
            BY <1>1, <1>3, DoneBefore
        <2>2. process[q].config[j].tenant \in TenantIds
            BY <1>1, <2>1, DoneConfig
        <2>3. CASE UpsertTenant(q) /\ Entry(q).tenant = process[q].config[j].tenant
            <3>1. process[q].entry \in DOMAIN process[q].config
                BY <1>1, <2>3, EntryTyped DEF UpsertTenant
            <3>2. tenants'[process[q].config[j].tenant] = Entry(q).name
                BY <1>1, <2>3, UpsertTenantWrites
            <3> QED
                BY <2>1, <2>3, <3>1, <3>2 DEF Entry
        <2>4. CASE TenantDone(q, j) /\ ~(UpsertTenant(q) /\ Entry(q).tenant = process[q].config[j].tenant)
            <3>1. PICK i \in DOMAIN process[q].config :
                    /\ process[q].config[i].tenant = process[q].config[j].tenant
                    /\ tenants[process[q].config[j].tenant] = process[q].config[i].name
                BY <1>1, <2>1, <2>4 DEF OwnRows
            <3>2. tenants'[process[q].config[j].tenant] = tenants[process[q].config[j].tenant]
                BY <1>1, <2>2, <2>4, OnlyOwnSteps, UpsertTenantWrites, UpsertKeyWrites
            <3> QED
                BY <2>1, <3>1, <3>2
        <2>5. UpsertTenant(q) /\ j = process[q].entry => Entry(q).tenant = process[q].config[j].tenant
            BY DEF Entry
        <2> QED
            BY <2>1, <2>3, <2>4, <2>5
    <1> QED
        BY <1>2, <1>3

LEMMA TablesInvHolds == Spec => []TablesInv
    <1>1. Init => TablesInv
        <2> SUFFICES ASSUME Init PROVE TablesInv
            OBVIOUS
        <2>1. /\ Typed /\ undisturbed = {}
              /\ \A i \in Slots : apiKeys[i] = NoRow
              /\ \A t \in TenantIds : tenants[t] = NoName
            BY TypedInitially DEF Init
        <2>2. \A p \in Processes : process[p].at = "down"
            BY DEF Init, Down
        <2> QED
            BY <2>1, <2>2 DEF TablesInv, ConfigsAreStarted, RowsAreConfigured, NamesAreConfigured,
                              KeysAreUnique, Progress, OwnRows, KeyDone, TenantDone
    <1>2. TablesInv /\ [Next]_vars => TablesInv'
        BY TypedStep, ConfigsAreStartedStep, RowsStep, ProgressStep, OwnRowsStep DEF TablesInv
    <1> QED
        BY <1>1, <1>2, PTL DEF Spec

-----------------------------------------------------------------------------
(* Configurations that only grow. *)

\* Entries at one place are one entry; a key names its place, a tenant its name.
LEMMA GrownConfigs ==
    ASSUME OnlyGrown, started \subseteq Configs, NEW c \in started, NEW d \in started,
           NEW i \in DOMAIN c, NEW j \in DOMAIN d
    PROVE  /\ i \in DOMAIN d => c[i] = d[i]
           /\ c[i].key = d[j].key => i = j
           /\ c[i].tenant = d[j].tenant => c[i].name = d[j].name
    <1> DEFINE Entered == [tenant : NonEmpty, name : NonEmpty, key : NonEmpty]
    <1>1. c \in Seq(Entered) /\ d \in Seq(Entered)
        BY SeedingAssumption
    <1> HIDE DEF Entered
    <1>2. /\ DOMAIN c = 1..Len(c) /\ Len(c) \in Nat /\ i \in 1..Len(c)
          /\ DOMAIN d = 1..Len(d) /\ Len(d) \in Nat /\ j \in 1..Len(d)
        BY <1>1
    <1>3. c[i].tenant \in TenantIds
        BY ConfigEntries
    <1>4. NamesKeyOnce(c) /\ NamesKeyOnce(d) /\ NamedOnce(c, c[i].tenant) /\ NamedOnce(d, c[i].tenant)
        BY <1>3 DEF OnlyGrown
    <1>5. IsPrefix(c, d) \/ IsPrefix(d, c)
        BY DEF OnlyGrown
    <1>6. CASE IsPrefix(c, d)
        <2>1. Len(c) <= Len(d) /\ SubSeq(c, 1, Len(c)) = SubSeq(d, 1, Len(c))
            BY <1>6 DEF IsPrefix
        <2>2. SubSeq(c, 1, Len(c))[i] = c[i] /\ SubSeq(d, 1, Len(c))[i] = d[i]
            BY <1>1, <1>2, <2>1
        <2>3. c[i] = d[i] /\ i \in DOMAIN d
            BY <1>2, <2>1, <2>2
        <2> QED
            BY <1>4, <2>3 DEF NamesKeyOnce, NamedOnce
    <1>7. CASE IsPrefix(d, c)
        <2>1. Len(d) <= Len(c) /\ SubSeq(d, 1, Len(d)) = SubSeq(c, 1, Len(d))
            BY <1>7 DEF IsPrefix
        <2>2. \A k \in 1..Len(d) : SubSeq(d, 1, Len(d))[k] = d[k] /\ SubSeq(c, 1, Len(d))[k] = c[k]
            BY <1>1, <1>2, <2>1
        <2>3. \A k \in DOMAIN d : c[k] = d[k] /\ k \in DOMAIN c
            BY <1>2, <2>1, <2>2
        <2> QED
            BY <1>4, <2>3 DEF NamesKeyOnce, NamedOnce
    <1> QED
        BY <1>5, <1>6, <1>7

\* A configuration that has only grown had only grown before.
LEMMA GrownBefore ==
    ASSUME Typed, [Next]_vars, OnlyGrown'
    PROVE  OnlyGrown
    BY TableSteps DEF OnlyGrown

\* The row and the name that a configuration asks for are the ones in the tables,
\* once there is a row and a name.
LEMMA GrownTables ==
    ASSUME TablesInv, OnlyGrown, NEW c \in started, NEW i \in DOMAIN c
    PROVE  /\ apiKeys[i] # NoRow => RowsOf(c[i].key) = {Row(c[i])}
           /\ tenants[c[i].tenant] # NoName => tenants[c[i].tenant] = c[i].name
           /\ \A j \in Slots : apiKeys[j].key = c[i].key => j = i
    <1>1. started \subseteq Configs /\ c \in Configs
        BY DEF TablesInv, Typed
    <1>2. i \in Slots /\ c[i].tenant \in TenantIds /\ c[i].key # ""
        BY <1>1, ConfigEntries
    <1>3. ASSUME NEW j \in Slots, apiKeys[j].key = c[i].key
          PROVE  j = i
        <2>1. NoRow.key = ""
            BY DEF NoRow
        <2>2. apiKeys[j] # NoRow
            BY <1>2, <1>3, <2>1
        <2>3. PICK d \in started : j \in DOMAIN d /\ apiKeys[j] = Row(d[j])
            BY <2>2 DEF TablesInv, RowsAreConfigured
        <2>4. d[j].key = c[i].key
            BY <1>3, <2>3 DEF Row
        <2> QED
            BY <1>1, <2>3, <2>4, GrownConfigs
    <1>4. ASSUME apiKeys[i] # NoRow
          PROVE  RowsOf(c[i].key) = {Row(c[i])}
        <2>1. PICK d \in started : i \in DOMAIN d /\ apiKeys[i] = Row(d[i])
            BY <1>2, <1>4 DEF TablesInv, RowsAreConfigured
        <2>2. apiKeys[i] = Row(c[i])
            BY <1>1, <2>1, GrownConfigs
        <2>3. apiKeys[i].key = c[i].key
            BY <2>2 DEF Row
        <2> QED
            BY <1>2, <1>3, <2>2, <2>3 DEF RowsOf
    <1>5. ASSUME tenants[c[i].tenant] # NoName
          PROVE  tenants[c[i].tenant] = c[i].name
        <2>1. PICK d \in started :
                \E j \in DOMAIN d : d[j].tenant = c[i].tenant /\ tenants[c[i].tenant] = d[j].name
            BY <1>2, <1>5 DEF TablesInv, NamesAreConfigured
        <2>2. PICK j \in DOMAIN d : d[j].tenant = c[i].tenant /\ tenants[c[i].tenant] = d[j].name
            BY <2>1
        <2> QED
            BY <1>1, <2>2, GrownConfigs
    <1> QED
        BY <1>3, <1>4, <1>5

LEMMA ServedKeys == TablesInv => ServedKeysWork
    <1>1. SUFFICES ASSUME TablesInv, OnlyGrown, NEW p \in Processes, process[p].at = "serving",
                          NEW i \in DOMAIN process[p].config
                   PROVE  /\ RowsOf(process[p].config[i].key) = {Row(process[p].config[i])}
                          /\ tenants[process[p].config[i].tenant] = process[p].config[i].name
        BY DEF ServedKeysWork, Row
    <1>2. process[p].config \in started
        BY <1>1 DEF TablesInv, ConfigsAreStarted
    <1>3. KeyDone(p, i) /\ TenantDone(p, i)
        BY <1>1 DEF KeyDone, TenantDone
    <1>4. apiKeys[i] # NoRow /\ tenants[process[p].config[i].tenant] # NoName
        BY <1>1, <1>3 DEF TablesInv, Progress
    <1> QED
        BY <1>1, <1>2, <1>4, GrownTables

\* While a process serves and configurations only grow, every key of it leads to
\* its entry's tenant and name: rows are never deleted, and every process that
\* writes one of them again writes the same (seedBootstrapData).
THEOREM ServedKeysAlwaysWork == Spec => []ServedKeysWork
    BY ServedKeys, TablesInvHolds, PTL

\* While configurations only grow, the database refuses no process: the rows that
\* could collide with an entry are the entry's own.
THEOREM StartsAlwaysSucceed == Spec => []StartsSucceed
    <1>1. Init => StartsSucceed
        BY DEF Init, StartsSucceed, Down
    <1>2. ASSUME TablesInv, StartsSucceed, [Next]_vars
          PROVE  StartsSucceed'
        <2>1. SUFFICES ASSUME OnlyGrown', NEW q \in Processes, process'[q].at = "refused"
                       PROVE  FALSE
            BY DEF StartsSucceed
        <2>2. Typed /\ OnlyGrown
            BY <1>2, <2>1, GrownBefore DEF TablesInv
        <2>3. process[q].at # "refused"
            BY <1>2, <2>2 DEF StartsSucceed
        <2>4. UpsertKeyRefused(q)
            <3>1. ASSUME NEW c \in Configs, Start(q, c)
                  PROVE  FALSE
                BY <2>1, <2>2, <3>1, StartMoves, Moved
            <3>2. ~UpsertTenant(q)
                BY <2>1, <2>2, UpsertTenantMoves, Moved
            <3>3. ~UpsertKey(q)
                BY <2>1, <2>2, UpsertKeyMoves, Moved
            <3>4. ~Dies(q)
                BY <2>1, <2>2, DiesMoves, Moved
            <3> QED
                BY <1>2, <2>1, <2>2, <2>3, <3>1, <3>2, <3>3, <3>4, ProcessSteps
        <2>5. process[q].at = "key" /\ BreaksConstraint(q)
            BY <2>4 DEF UpsertKeyRefused
        <2>6. PICK c \in started : c = process[q].config
            BY <1>2, <2>5 DEF TablesInv, ConfigsAreStarted
        <2>7. PICK n \in DOMAIN c : n = process[q].entry /\ Entry(q) = c[n]
            BY <2>2, <2>5, <2>6, EntryTyped
        <2>8. TenantDone(q, n)
            BY <2>5, <2>7 DEF TenantDone
        <2>9. tenants[Entry(q).tenant] # NoName
            BY <1>2, <2>6, <2>7, <2>8 DEF TablesInv, Progress
        <2>10. \A j \in Slots : apiKeys[j].key = Entry(q).key => j = n
            BY <1>2, <2>2, <2>7, GrownTables
        <2> QED
            BY <2>5, <2>7, <2>9, <2>10 DEF BreaksConstraint
    <1> QED
        BY <1>1, <1>2, TablesInvHolds, PTL DEF Spec

-----------------------------------------------------------------------------
(* Authentication. *)

\* What a request has found out: a tenant that some entry gave its key, and while
\* configurations only grow the tenant, and then the name, of its key's entry.
AnswerInv == \A p \in Apis : request[p].at \in {"found", "answered"} =>
    /\ \/ request[p].tenant = ""
       \/ \E e \in Entries : e.key = request[p].key /\ e.tenant = request[p].tenant
    /\ OnlyGrown => \A e \in ToSet(process[p].config) : request[p].key = e.key =>
            /\ request[p].tenant = e.tenant
            /\ request[p].at = "answered" => request[p].name = e.name

\* A request goes on by the reads of its own process, which stays what it is.
LEMMA RequestSteps ==
    ASSUME Typed, [Next]_vars, NEW q \in Apis, request'[q].at \in {"found", "answered"}
    PROVE  \/ request'[q] = request[q] /\ process'[q].config = process[q].config
           \/ /\ (\E k \in Keys : LookupByHash(q, k)) \/ GetTenant(q)
              /\ process'[q].config = process[q].config
    <1>1. q \in Processes
        BY DEF Processes
    <1>2. CASE request'[q] = request[q]
        <2>1. process[q].at = "serving"
            BY <1>2 DEF Typed, Placed
        <2>2. ~Dies(q)
            <3>1. ASSUME Dies(q) PROVE FALSE
                <4>1. request'[q] = Idle
                    BY <3>1 DEF Dies
                <4>2. Idle.at = "idle"
                    BY DEF Idle
                <4> QED
                    BY <4>1, <4>2
            <3> QED
                BY <3>1
        <2>3. /\ \A c \in Configs : ~Start(q, c)
              /\ ~UpsertTenant(q) /\ ~UpsertKey(q) /\ ~UpsertKeyRefused(q)
            BY <2>1 DEF Start, UpsertTenant, UpsertKey, UpsertKeyRefused
        <2>4. process'[q] = process[q]
            BY <1>1, <2>2, <2>3, ProcessSteps
        <2> QED
            BY <1>2, <2>4
    <1>3. CASE request'[q] # request[q]
        <2>1. ASSUME NEW p \in Processes
              PROVE  /\ \A c \in Configs : ~Start(p, c)
                     /\ ~UpsertTenant(p) /\ ~UpsertKey(p) /\ ~UpsertKeyRefused(p)
            BY <1>3 DEF Start, UpsertTenant, UpsertKey, UpsertKeyRefused
        <2>2. ASSUME NEW p \in Processes, Dies(p)
              PROVE  FALSE
            <3>1. request'[q] = Idle
                BY <1>3, <2>2 DEF Dies
            <3>2. Idle.at = "idle"
                BY DEF Idle
            <3> QED
                BY <3>1, <3>2
        <2>3. ASSUME NEW p \in Apis, NEW k \in Keys, LookupByHash(p, k)
              PROVE  p = q /\ UNCHANGED process
            <3>1. PICK new : Asks(p, new)
                BY <2>3, LookupAsks
            <3> QED
                BY <1>3, <3>1, Asked DEF Asks
        <2>4. ASSUME NEW p \in Apis, GetTenant(p)
              PROVE  p = q /\ UNCHANGED process
            <3>1. PICK new : Asks(p, new)
                BY <2>4, GetTenantAsks
            <3> QED
                BY <1>3, <3>1, Asked DEF Asks
        <2>5. ASSUME NEW p \in Apis, (\E k \in Keys : ReadFails(p, k)) \/ RequestEnds(p)
              PROVE  FALSE
            <3>1. PICK new : Asks(p, new) /\ new.at \in {"idle", "unread"}
                BY <2>5, OtherAsks
            <3>2. request'[q] = new
                BY <1>3, <3>1, Asked
            <3> QED
                BY <3>1, <3>2
        <2>6. CASE UNCHANGED vars
            BY <1>3, <2>6 DEF vars
        <2>7. CASE Next
            <3>1. (\E k \in Keys : LookupByHash(q, k)) \/ GetTenant(q)
                BY <2>1, <2>2, <2>3, <2>4, <2>5, <2>7, Zenon DEF Next
            <3>2. UNCHANGED process
                BY <2>3, <2>4, <3>1
            <3> QED
                BY <3>1, <3>2
        <2> QED
            BY <2>6, <2>7
    <1> QED
        BY <1>2, <1>3

LEMMA AnswerStep ==
    ASSUME TablesInv, AnswerInv, [Next]_vars
    PROVE  AnswerInv'
    <1>1. SUFFICES ASSUME NEW q \in Apis, request'[q].at \in {"found", "answered"}
                   PROVE  /\ \/ request'[q].tenant = ""
                             \/ \E e \in Entries :
                                    e.key = request'[q].key /\ e.tenant = request'[q].tenant
                          /\ OnlyGrown' => \A e \in ToSet(process'[q].config) :
                                request'[q].key = e.key =>
                                    /\ request'[q].tenant = e.tenant
                                    /\ request'[q].at = "answered" => request'[q].name = e.name
        BY DEF AnswerInv
    <1>2. Typed /\ (OnlyGrown' => OnlyGrown) /\ q \in Processes
        BY GrownBefore DEF TablesInv, Processes
    <1>3. process'[q].config = process[q].config
        BY <1>1, <1>2, RequestSteps
    <1>4. CASE request'[q] = request[q]
        BY <1>1, <1>2, <1>3, <1>4 DEF AnswerInv
    <1>5. ASSUME NEW e \in ToSet(process[q].config), OnlyGrown, process[q].at = "serving"
          PROVE  RowsOf(e.key) = {Row(e)} /\ tenants[e.tenant] = e.name
        <2>1. PICK i \in DOMAIN process[q].config : e = process[q].config[i]
            BY <1>5 DEF ToSet
        <2> QED
            BY <1>2, <1>5, <2>1, ServedKeys DEF ServedKeysWork, Row
    <1>6. ASSUME NEW k \in Keys, LookupByHash(q, k), NEW new, Asks(q, new), new.key = k,
                 \/ /\ new.at = "found"
                    /\ \E row \in RowsOf(k) : row \in Rows /\ row.key = k /\ new.tenant = row.tenant
                 \/ new.at = "answered" /\ RowsOf(k) = {} /\ new.tenant = ""
          PROVE  /\ \/ new.tenant = ""
                    \/ \E e \in Entries : e.key = new.key /\ e.tenant = new.tenant
                 /\ OnlyGrown => \A e \in ToSet(process[q].config) : new.key = e.key =>
                        new.tenant = e.tenant /\ (new.at = "answered" => new.name = e.name)
        <2>1. process[q].at = "serving"
            BY <1>6 DEF LookupByHash
        <2>2. CASE new.at = "answered" /\ RowsOf(k) = {} /\ new.tenant = ""
            BY <1>5, <1>6, <2>1, <2>2
        <2>3. ASSUME NEW row \in RowsOf(k), row \in Rows, row.key = k, new.tenant = row.tenant
              PROVE  /\ \E e \in Entries : e.key = new.key /\ e.tenant = new.tenant
                     /\ OnlyGrown => \A e \in ToSet(process[q].config) : new.key = e.key =>
                            new.tenant = e.tenant
            <3>1. PICK i \in Slots : row = apiKeys[i]
                BY DEF RowsOf
            <3>2. row # NoRow
                BY <2>3, NonEmptyRows
            <3>3. PICK c \in started : i \in DOMAIN c /\ row = Row(c[i])
                BY <3>1, <3>2 DEF TablesInv, RowsAreConfigured
            <3>4. c[i] \in Entries
                BY <1>2, <3>3, ConfigEntries DEF Typed
            <3>5. c[i].key = new.key /\ c[i].tenant = new.tenant
                BY <1>6, <2>3, <3>3 DEF Row
            <3>6. ASSUME OnlyGrown, NEW e \in ToSet(process[q].config), new.key = e.key
                  PROVE  new.tenant = e.tenant
                <4>1. row = Row(e)
                    BY <1>5, <1>6, <2>1, <2>3, <3>6
                <4> QED
                    BY <2>3, <4>1 DEF Row
            <3> QED
                BY <3>4, <3>5, <3>6
        <2> QED
            BY <1>6, <2>2, <2>3
    <1>7. ASSUME NEW k \in Keys, LookupByHash(q, k)
          PROVE  /\ \/ request'[q].tenant = ""
                    \/ \E e \in Entries : e.key = request'[q].key /\ e.tenant = request'[q].tenant
                 /\ OnlyGrown => \A e \in ToSet(process[q].config) : request'[q].key = e.key =>
                        /\ request'[q].tenant = e.tenant
                        /\ request'[q].at = "answered" => request'[q].name = e.name
        <2>1. PICK new :
                /\ Asks(q, new) /\ new.key = k
                /\ \/ /\ new.at = "found"
                      /\ \E row \in RowsOf(k) : row \in Rows /\ row.key = k /\ new.tenant = row.tenant
                   \/ new.at = "answered" /\ RowsOf(k) = {} /\ new.tenant = ""
            BY <1>2, <1>7, LookupAsks
        <2>2. request'[q] = new
            BY <1>2, <2>1, Asked
        <2> QED
            BY <1>6, <1>7, <2>1, <2>2
    <1>8. CASE GetTenant(q)
        <2>1. PICK new :
                /\ Asks(q, new) /\ new.at = "answered" /\ request[q].at = "found"
                /\ new.key = request[q].key /\ new.tenant = request[q].tenant
                /\ new.tenant \in TenantIds /\ new.name = tenants[new.tenant]
            BY <1>2, <1>8, GetTenantAsks
        <2>2. request'[q] = new /\ process[q].at = "serving"
            BY <1>2, <2>1, Asked DEF Typed, Placed
        <2>3. \/ new.tenant = ""
              \/ \E e \in Entries : e.key = new.key /\ e.tenant = new.tenant
            BY <2>1 DEF AnswerInv
        <2>4. ASSUME OnlyGrown, NEW e \in ToSet(process[q].config), new.key = e.key
              PROVE  new.tenant = e.tenant /\ new.name = e.name
            <3>1. request[q].tenant = e.tenant
                BY <2>1, <2>4 DEF AnswerInv
            <3>2. tenants[e.tenant] = e.name
                BY <1>5, <2>2, <2>4
            <3> QED
                BY <2>1, <3>1, <3>2
        <2> QED
            BY <1>2, <1>3, <2>2, <2>3, <2>4
    <1> QED
        BY <1>1, <1>2, <1>3, <1>4, <1>7, <1>8, RequestSteps

\* Authenticate reads the key and its tenant in two statements, with upserts of
\* other processes between them.  No request is taken for a tenant that no entry
\* gave its key, and while configurations only grow a request with a configured
\* key is taken for exactly its entry.
THEOREM AnswersConfigured == Spec => []AnswersAreConfigured
    <1>1. Init => AnswerInv
        <2> SUFFICES ASSUME Init PROVE \A p \in Apis : request[p].at = "idle"
            BY DEF AnswerInv
        <2> QED
            BY DEF Init, Idle
    <1>2. TablesInv /\ AnswerInv /\ [Next]_vars => AnswerInv'
        BY AnswerStep
    <1>3. AnswerInv => AnswersAreConfigured
        BY DEF AnswerInv, AnswersAreConfigured, IsIdentity
    <1> QED
        BY <1>1, <1>2, <1>3, TablesInvHolds, PTL DEF Spec

-----------------------------------------------------------------------------
(* Postgres and the memory repositories. *)

LEMMA SmallestIndex ==
    ASSUME NEW S \in SUBSET Nat, S # {}
    PROVE  \E m \in S : \A n \in S : m <= n
    <1>1. PICK m \in S : \A n \in S : ~(<<n, m>> \in OpToRel(<, Nat))
        BY WFMin, NatLessThanWellFounded
    <1>2. \A n \in S : ~(n < m)
        BY <1>1 DEF OpToRel
    <1> QED
        BY <1>2

\* A serving process whose rows nobody else touched resolves its keys as the
\* memory repositories would: the UNIQUE on the key column leaves no room for a
\* configuration that names a key twice.
THEOREM UndisturbedLikeMemory == Spec => []UndisturbedMatchesMemory
    <1>1. SUFFICES TablesInv => UndisturbedMatchesMemory
        BY TablesInvHolds, PTL
    <1>2. SUFFICES ASSUME TablesInv, NEW p \in undisturbed, process[p].at = "serving",
                          NEW c, c = process[p].config, NEW i \in DOMAIN c
                   PROVE  /\ RowsOf(c[i].key) = {[tenant |-> MemoryTenant(c, c[i].key), key |-> c[i].key]}
                          /\ NamedOnce(c, MemoryTenant(c, c[i].key)) =>
                                tenants[MemoryTenant(c, c[i].key)] =
                                    MemoryName(c, MemoryTenant(c, c[i].key))
        BY DEF UndisturbedMatchesMemory, ToSet
    <1>3. /\ Typed /\ p \in Processes /\ c \in Configs
        BY <1>2, DoneConfig DEF TablesInv, Typed
    <1>4. \A j \in DOMAIN c : apiKeys[j] = Row(c[j]) /\ j \in Slots
        BY <1>2, <1>3, ConfigEntries DEF TablesInv, OwnRows, KeyDone
    <1>5. \A j \in DOMAIN c : apiKeys[j] # NoRow
        BY <1>2, <1>3 DEF TablesInv, Progress, KeyDone
    <1>6. ASSUME NEW j \in Slots, apiKeys[j].key = c[i].key
          PROVE  j = i
        <2>1. apiKeys[i] = Row(c[i])
            BY <1>4
        <2>2. apiKeys[i].key = c[i].key
            BY <2>1 DEF Row
        <2> QED
            BY <1>2, <1>4, <1>5, <1>6, <2>2 DEF TablesInv, KeysAreUnique
    <1>7. \A j \in DOMAIN c : c[j].key = c[i].key => j = i
        <2>1. ASSUME NEW j \in DOMAIN c, c[j].key = c[i].key
              PROVE  j = i
            <3>1. apiKeys[j] = Row(c[j]) /\ j \in Slots
                BY <1>4, <2>1
            <3>2. apiKeys[j].key = c[i].key
                BY <2>1, <3>1 DEF Row
            <3> QED
                BY <1>6, <3>1, <3>2
        <2> QED
            BY <2>1
    <1>8. MemoryTenant(c, c[i].key) = c[i].tenant
        <2> DEFINE P(n) == c[n].key = c[i].key /\ \A j \in DOMAIN c : c[j].key = c[i].key => j <= n
        <2>1. i \in Nat
            BY <1>3, ConfigEntries
        <2>2. P(i)
            BY <1>7, <2>1
        <2>3. \A n \in DOMAIN c : P(n) => n = i
            BY <1>7
        <2>4. (CHOOSE n \in DOMAIN c : P(n)) = i
            BY <2>2, <2>3
        <2> QED
            BY <2>4 DEF MemoryTenant
    <1>9. RowsOf(c[i].key) = {Row(c[i])}
        <2>1. apiKeys[i] = Row(c[i]) /\ apiKeys[i].key = c[i].key /\ i \in Slots
            BY <1>2, <1>4 DEF Row
        <2> QED
            BY <1>6, <2>1 DEF RowsOf
    <1>10. ASSUME NamedOnce(c, c[i].tenant)
           PROVE  tenants[c[i].tenant] = MemoryName(c, c[i].tenant)
        <2> DEFINE S == {n \in DOMAIN c : c[n].tenant = c[i].tenant}
        <2>1. S \in SUBSET Nat /\ i \in S
            BY <1>3, ConfigEntries
        <2>2. PICK m \in S : \A n \in S : m <= n
            BY <2>1, SmallestIndex
        <2> DEFINE P(n) == c[n].tenant = c[i].tenant
                           /\ \A j \in DOMAIN c : c[j].tenant = c[i].tenant => n <= j
        <2>3. \E n \in DOMAIN c : P(n)
            BY <2>2
        <2>4. PICK n \in DOMAIN c : n = (CHOOSE x \in DOMAIN c : P(x)) /\ P(n)
            BY <2>3
        <2>5. MemoryName(c, c[i].tenant) = c[n].name
            BY <2>4 DEF MemoryName
        <2>6. PICK h \in DOMAIN c : c[h].tenant = c[i].tenant /\ tenants[c[i].tenant] = c[h].name
            BY <1>2, <1>3 DEF TablesInv, OwnRows, TenantDone, KeyDone
        <2> QED
            BY <1>10, <2>4, <2>5, <2>6 DEF NamedOnce
    <1> QED
        BY <1>8, <1>9, <1>10 DEF Row
=============================================================================
