------------------------------ MODULE Seeding ------------------------------
(***************************************************************************)
(* How the processes of a deployment fill the tables tenants and api_keys  *)
(* from BOOTSTRAP_API_KEYS, and how a request is authenticated against     *)
(* them: bootstrap/repositories.go, config/bootstrap.go, the two Postgres  *)
(* repositories and auth.Service.Authenticate.                             *)
(*                                                                         *)
(* Every API and worker process seeds before it serves, entry by entry and *)
(* without a transaction around the whole: the tenant of entry i, then its *)
(* key as the row "bootstrap-key-i".  The tables outlive the processes,    *)
(* which may start together, with different configurations, and die at any *)
(* step.  A configuration is the parsed one: a sequence of entries         *)
(* [tenant, name, key], each field non-empty.                              *)
(***************************************************************************)
EXTENDS Naturals, Sequences, SequencesExt

CONSTANTS
    Apis,       \* processes of cmd/api
    Workers,    \* processes of cmd/worker: they seed too, and serve no request
    Configs,    \* the configurations a process may be started with
    MaxStarts,  \* bound on the process starts of a behaviour
    Faults      \* whether a request's database reads may fail

NonEmpty == STRING \ {""}

\* parseBootstrapAPIKeys refuses an entry with an empty field.
ASSUME SeedingAssumption ==
    /\ Apis \cap Workers = {}
    /\ Configs \subseteq Seq([tenant : NonEmpty, name : NonEmpty, key : NonEmpty])
    /\ MaxStarts \in Nat
    /\ Faults \in BOOLEAN

VARIABLES
    tenants,     \* table tenants: id -> name (every row written is active)
    apiKeys,     \* table api_keys: i -> the row "bootstrap-key-i"
    process,     \* each process: where it is, its configuration, the entry it seeds
    request,     \* the request each API process is authenticating
    starts,      \* process starts so far
    started,     \* history: the configurations of those starts
    undisturbed  \* history: the processes since whose start nobody else changed a row

vars == <<tenants, apiKeys, process, request, starts, started, undisturbed>>

Processes == Apis \cup Workers
Entries == UNION {ToSet(c) : c \in Configs}
TenantIds == {e.tenant : e \in Entries}
Keys == {e.key : e \in Entries}
Slots == UNION {DOMAIN c : c \in Configs}

NoName == ""
NoRow == [tenant |-> "", key |-> ""]
Down == [at |-> "down", config |-> <<>>, entry |-> 0]
Idle == [at |-> "idle", key |-> "", tenant |-> "", name |-> ""]

\* A request is answered 401, or goes on with the identity [tenant, name].
Unauthorized(k) == [at |-> "answered", key |-> k, tenant |-> "", name |-> NoName]

TypeOK ==
    /\ tenants \in [TenantIds -> {NoName} \cup {e.name : e \in Entries}]
    /\ apiKeys \in [Slots -> {NoRow} \cup [tenant : TenantIds, key : Keys]]
    /\ \A p \in Processes :
         /\ process[p].at \in {"down", "tenant", "key", "serving", "refused"}
         /\ process[p].config \in Configs \cup {<<>>}
         /\ process[p].at \in {"tenant", "key"} => process[p].entry \in DOMAIN process[p].config
    /\ \A p \in Apis :
         /\ request[p].at \in {"idle", "found", "answered", "unread"}
         /\ request[p].at # "idle" => process[p].at = "serving"
         /\ request[p].at = "found" => request[p].tenant \in TenantIds
    /\ starts \in 0..MaxStarts
    /\ started \subseteq Configs
    /\ undisturbed \subseteq Processes

\* The database has been migrated and is empty.
Init ==
    /\ tenants = [t \in TenantIds |-> NoName]
    /\ apiKeys = [i \in Slots |-> NoRow]
    /\ process = [p \in Processes |-> Down]
    /\ request = [p \in Apis |-> Idle]
    /\ starts = 0
    /\ started = {}
    /\ undisturbed = {}

----------------------------------------------------------------------------
(* Seeding. *)

\* Broken variant of Start: it first deletes the keys beyond the configuration's end.
StartPrunes(p, c) ==
    /\ process[p].at \in {"down", "refused"}
    /\ starts < MaxStarts
    /\ process' = [process EXCEPT ![p] =
           [at |-> IF c = <<>> THEN "serving" ELSE "tenant", config |-> c, entry |-> 1]]
    /\ apiKeys' = [i \in Slots |-> IF i \in DOMAIN c THEN apiKeys[i] ELSE NoRow]
    /\ starts' = starts + 1
    /\ started' = started \cup {c}
    /\ undisturbed' = undisturbed \cup {p}
    /\ UNCHANGED <<tenants, request>>

Start(p, c) ==
    /\ process[p].at \in {"down", "refused"}
    /\ starts < MaxStarts
    /\ process' = [process EXCEPT ![p] =
           [at |-> IF c = <<>> THEN "serving" ELSE "tenant", config |-> c, entry |-> 1]]
    /\ starts' = starts + 1
    /\ started' = started \cup {c}
    /\ undisturbed' = undisturbed \cup {p}
    /\ UNCHANGED <<tenants, apiKeys, request>>

Entry(p) == process[p].config[process[p].entry]

Disturb(p) ==
    undisturbed' = IF <<tenants', apiKeys'>> = <<tenants, apiKeys>>
                   THEN undisturbed ELSE undisturbed \cap {p}

UpsertTenant(p) ==
    /\ process[p].at = "tenant"
    /\ tenants' = [tenants EXCEPT ![Entry(p).tenant] = Entry(p).name]
    /\ process' = [process EXCEPT ![p].at = "key"]
    /\ UNCHANGED <<apiKeys, request, starts, started>>
    /\ Disturb(p)

\* Broken variant of BreaksConstraint: a plain INSERT, which the row's own id breaks too.
BreaksOnOwnId(p) ==
    \/ tenants[Entry(p).tenant] = NoName
    \/ apiKeys[process[p].entry] # NoRow
    \/ \E i \in Slots \ {process[p].entry} : apiKeys[i].key = Entry(p).key

\* The statement's ON CONFLICT (id) is about the row's own id only: a key that
\* another row holds breaks the column's UNIQUE, a tenant that has no row the
\* foreign key.
BreaksConstraint(p) ==
    \/ tenants[Entry(p).tenant] = NoName
    \/ \E i \in Slots \ {process[p].entry} : apiKeys[i].key = Entry(p).key

\* Broken variants of Upserted: the update leaves tenant_id out; DO NOTHING.
UpsertedKeepsTenant(row, e) ==
    IF row = NoRow THEN [tenant |-> e.tenant, key |-> e.key] ELSE [row EXCEPT !.key = e.key]
UpsertedKeepsRow(row, e) == IF row = NoRow THEN [tenant |-> e.tenant, key |-> e.key] ELSE row

Upserted(row, e) == [tenant |-> e.tenant, key |-> e.key]

Seeded(ps) == ps.entry = Len(ps.config)

UpsertKey(p) ==
    /\ process[p].at = "key"
    /\ ~BreaksConstraint(p)
    /\ apiKeys' = [apiKeys EXCEPT ![process[p].entry] = Upserted(@, Entry(p))]
    /\ process' = [process EXCEPT ![p] =
           IF Seeded(@) THEN [@ EXCEPT !.at = "serving"]
           ELSE [at |-> "tenant", config |-> @.config, entry |-> @.entry + 1]]
    /\ UNCHANGED <<tenants, request, starts, started>>
    /\ Disturb(p)

\* The statement fails; OpenRepositories returns the error and main exits.  What
\* the earlier statements wrote stays.
UpsertKeyRefused(p) ==
    /\ process[p].at = "key"
    /\ BreaksConstraint(p)
    /\ process' = [process EXCEPT ![p].at = "refused"]
    /\ undisturbed' = undisturbed \ {p}
    /\ UNCHANGED <<tenants, apiKeys, request, starts, started>>

\* A process dies, or exits because the database failed it while it was seeding.
Dies(p) ==
    /\ process[p].at \in {"tenant", "key", "serving"}
    /\ process' = [process EXCEPT ![p] = Down]
    /\ request' = [q \in Apis |-> IF q = p THEN Idle ELSE request[q]]
    /\ undisturbed' = undisturbed \ {p}
    /\ UNCHANGED <<tenants, apiKeys, starts, started>>

----------------------------------------------------------------------------
(* Authentication: two reads, with other processes' upserts between them. *)

RowsOf(k) == {apiKeys[i] : i \in {j \in Slots : apiKeys[j].key = k}}

LookupByHash(p, k) ==
    /\ process[p].at = "serving"
    /\ request[p].at = "idle"
    /\ \/ \E row \in RowsOf(k) :
            request' = [request EXCEPT ![p] =
                [at |-> "found", key |-> k, tenant |-> row.tenant, name |-> NoName]]
       \/ /\ RowsOf(k) = {}
          /\ request' = [request EXCEPT ![p] = Unauthorized(k)]
    /\ UNCHANGED <<tenants, apiKeys, process, starts, started, undisturbed>>

GetTenant(p) ==
    /\ request[p].at = "found"
    /\ request' = [request EXCEPT ![p] =
           [at |-> "answered", key |-> @.key, tenant |-> @.tenant, name |-> tenants[@.tenant]]]
    /\ UNCHANGED <<tenants, apiKeys, process, starts, started, undisturbed>>

\* Either read fails: Authenticate turns a failure of the second into
\* ErrInvalidAPIKey, and requireAPIKey answers 401 whatever the error is.
ReadFails(p, k) ==
    /\ Faults
    /\ process[p].at = "serving"
    /\ \/ request[p].at = "idle"
       \/ request[p].at = "found" /\ request[p].key = k
    /\ request' = [request EXCEPT ![p] = [Unauthorized(k) EXCEPT !.at = "unread"]]
    /\ UNCHANGED <<tenants, apiKeys, process, starts, started, undisturbed>>

RequestEnds(p) ==
    /\ request[p].at \in {"answered", "unread"}
    /\ request' = [request EXCEPT ![p] = Idle]
    /\ UNCHANGED <<tenants, apiKeys, process, starts, started, undisturbed>>

Next ==
    \/ \E p \in Processes, c \in Configs : Start(p, c)
    \/ \E p \in Processes :
         \/ UpsertTenant(p)
         \/ UpsertKey(p)
         \/ UpsertKeyRefused(p)
         \/ Dies(p)
    \/ \E p \in Apis, k \in Keys :
         \/ LookupByHash(p, k)
         \/ ReadFails(p, k)
    \/ \E p \in Apis : GetTenant(p) \/ RequestEnds(p)

Spec == Init /\ [][Next]_vars

----------------------------------------------------------------------------
(* Without Postgres the same configuration is put into two maps: a key held *)
(* twice belongs to its last entry, a tenant named twice has its first name.*)

MemoryTenant(c, k) == c[CHOOSE i \in DOMAIN c :
                           /\ c[i].key = k
                           /\ \A j \in DOMAIN c : c[j].key = k => j <= i].tenant

MemoryName(c, t) == c[CHOOSE i \in DOMAIN c :
                         /\ c[i].tenant = t
                         /\ \A j \in DOMAIN c : c[j].tenant = t => i <= j].name

NamedOnce(c, t) == \A i, j \in DOMAIN c : c[i].tenant = t /\ c[j].tenant = t => c[i].name = c[j].name

----------------------------------------------------------------------------
(* Properties. *)

NamesKeyOnce(c) == \A i, j \in DOMAIN c : c[i].key = c[j].key => i = j

\* The configuration has only grown at its end so far, by entries that neither
\* repeat a key nor rename a tenant.
OnlyGrown ==
    /\ \A c, d \in started : IsPrefix(c, d) \/ IsPrefix(d, c)
    /\ \A c \in started : NamesKeyOnce(c) /\ \A t \in TenantIds : NamedOnce(c, t)

\* The database refuses no start while the configuration only grows: processes
\* that seed together, repeat what an earlier start wrote, or take over after one
\* that died half-way (seedBootstrapData's upserts) all come through.
StartsSucceed == OnlyGrown => \A p \in Processes : process[p].at # "refused"

\* While a process serves and the configuration only grows, every key of the
\* process leads to the entry's tenant under the entry's name, whatever processes
\* with an older or newer configuration write, and wherever they die
\* (seedBootstrapData).
ServedKeysWork ==
    OnlyGrown => \A p \in Processes : process[p].at = "serving" =>
        \A i \in DOMAIN process[p].config :
            LET e == process[p].config[i] IN
            /\ RowsOf(e.key) = {[tenant |-> e.tenant, key |-> e.key]}
            /\ tenants[e.tenant] = e.name

IsIdentity(r, e) == r.key = e.key /\ r.tenant = e.tenant /\ r.name = e.name

\* Authenticate reads the key and its tenant in two statements.  Whatever
\* configurations follow each other, no request is answered with a tenant that no
\* entry ever gave its key, and while the configuration only grows a request with
\* a configured key is answered with the identity of that key's entry.
AnswersAreConfigured ==
    \A p \in Apis : request[p].at = "answered" =>
        /\ \/ request[p].tenant = ""
           \/ \E e \in Entries : e.key = request[p].key /\ e.tenant = request[p].tenant
        /\ OnlyGrown => \A e \in ToSet(process[p].config) :
                request[p].key = e.key => IsIdentity(request[p], e)

\* A process that serves, and since whose start nobody else changed a row, resolves
\* its keys as the memory repositories built from its configuration would, names of
\* tenants that the configuration names in two ways excepted (OpenRepositories).
UndisturbedMatchesMemory ==
    \A p \in undisturbed : process[p].at = "serving" =>
        \A e \in ToSet(process[p].config) :
            LET c == process[p].config
                t == MemoryTenant(c, e.key) IN
            /\ RowsOf(e.key) = {[tenant |-> t, key |-> e.key]}
            /\ NamedOnce(c, t) => tenants[t] = MemoryName(c, t)

============================================================================
