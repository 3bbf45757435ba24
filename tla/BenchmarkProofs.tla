---------------------------- MODULE BenchmarkProofs ----------------------------
(***************************************************************************)
(* Proofs about cmd/bench, for every number of goroutines and of indexes.  *)
(* The goroutines of a pool share a counter and an error flag and hold no  *)
(* lock over both: what makes the pool right is that an index below the    *)
(* counter was written, or is in the hands of one goroutine, or led to an  *)
(* error.  The report is right because each row of the service tells how   *)
(* often the LLM was called for its run, and how the last call ended.      *)
(***************************************************************************)
EXTENDS Benchmark, FiniteSetTheorems, TLAPS

PoolPhases == {"upload", "sync", "async"}
Busy       == {"call", "enqueue", "markFailed", "record"}
Places     == Busy \union {"check", "take", "gone"}

\* The pool of one phase, with the number of indexes it was given.
PoolTyped(total) ==
    /\ total \in Nat
    /\ next \in Nat
    /\ firstErr \in BOOLEAN
    /\ client \in [Clients -> [pc: Places, index: Nat]]
    /\ slot \in [Indexes(total) -> Nat]

IsAt(c, i) == client[c].pc \in Busy /\ client[c].index = i

\* The index of a busy goroutine was taken from the counter, by this one alone, and
\* is not written yet.
HandsApart(total) ==
    \A c \in Clients : client[c].pc \in Busy =>
        /\ client[c].index < next /\ client[c].index < total
        /\ slot[client[c].index] = 0
        /\ \A b \in Clients : client[b].pc \in Busy /\ client[b].index = client[c].index => b = c

\* No index is written twice, nor before it was taken; a taken one is written, in
\* somebody's hands, or led to an error.
NoneLost(total) ==
    \A i \in Indexes(total) :
        /\ slot[i] \in {0, 1}
        /\ slot[i] = 1 => i < next
        /\ i < next => slot[i] = 1 \/ firstErr \/ \E c \in Clients : IsAt(c, i)

\* A goroutine that was started leaves only when all indexes are taken, or on an error.
LeavesLast(total) ==
    \A c \in Clients : client[c].pc = "gone" /\ c <= total => firstErr \/ next >= total

Pool(total) == PoolTyped(total) /\ HandsApart(total) /\ NoneLost(total) /\ LeavesLast(total)

\* While a pool works it is the pool of its phase; afterwards it rests.
PoolInv ==
    /\ phase \in PoolPhases => Pool(Total(phase))
    /\ phase \notin PoolPhases => Waited /\ IndexesRunOnce

\* Options give every phase a number of indexes.
LEMMA TotalTyped == \A p : Total(p) \in Nat
<1>1. Tenants * DocsPerTenant \in Nat /\ SyncRuns \in Nat /\ AsyncRuns \in Nat
  BY OptionsAssumption DEF ValidOptions
<1> QED BY <1>1 DEF Total

\* A pool that was waited for and has no error ran each index exactly once.
LEMMA PoolRunsOnce ==
    ASSUME NEW total, Pool(total)
    PROVE  IndexesRunOnce
<1>1. /\ total \in Nat /\ next \in Nat /\ slot \in [Indexes(total) -> Nat]
      /\ DOMAIN slot = Indexes(total)
  BY DEF Pool, PoolTyped
<1>2. \A i \in DOMAIN slot : slot[i] <= 1
  BY <1>1 DEF Pool, NoneLost
<1>3. ASSUME Waited, ~firstErr, NEW i \in DOMAIN slot
      PROVE  slot[i] = 1
  <2>1. i \in Nat /\ i < total /\ total > 0
    BY <1>1 DEF Indexes
  <2>2. 1 \in Clients
    BY OptionsAssumption DEF ValidOptions, Clients
  <2>3. client[1].pc = "gone" /\ 1 <= total
    BY <1>1, <1>3, <2>1, <2>2 DEF Waited
  <2>4. next >= total
    BY <1>3, <2>2, <2>3 DEF Pool, LeavesLast
  <2>5. i < next /\ i \in Indexes(total)
    BY <1>1, <2>1, <2>4
  <2>6. ~ \E c \in Clients : IsAt(c, i)
    BY <1>3 DEF Waited, IsAt, Busy
  <2> QED BY <1>3, <2>5, <2>6 DEF Pool, NoneLost
<1> QED BY <1>2, <1>3 DEF IndexesRunOnce

\* A pool that starts.
LEMMA PoolStarts ==
    ASSUME NEW p, next' = 0, firstErr' = FALSE, client' = Started(p), slot' = Unwritten(p)
    PROVE  Pool(Total(p))'
<1>1. Total(p) \in Nat /\ Concurrency \in Nat
  BY TotalTyped, OptionsAssumption DEF ValidOptions
<1>2. PoolTyped(Total(p))'
  BY <1>1 DEF PoolTyped, Started, Unwritten, Places
<1>3. \A c \in Clients : client'[c].pc \notin Busy /\ (client'[c].pc = "gone" => ~(c <= Total(p)))
  BY DEF Started, Busy
<1>4. \A i \in Indexes(Total(p)) : slot'[i] = 0 /\ ~(i < next') /\ i \in Nat
  BY DEF Unwritten, Indexes
<1>5. HandsApart(Total(p))' /\ LeavesLast(Total(p))'
  BY <1>3 DEF HandsApart, LeavesLast
<1>6. NoneLost(Total(p))'
  BY <1>4 DEF NoneLost
<1> QED BY <1>2, <1>5, <1>6 DEF Pool

\* One goroutine goes on with the index it has.
LEMMA ClientMoves ==
    ASSUME NEW total, PoolTyped(total), NEW c \in Clients, NEW pc \in Places, Goto(c, pc)
    PROVE  /\ client' \in [Clients -> [pc: Places, index: Nat]]
           /\ client'[c].pc = pc /\ client'[c].index = client[c].index
           /\ \A b \in Clients : b # c => client'[b] = client[b]
<1>1. client \in [Clients -> [pc: Places, index: Nat]]
  BY DEF PoolTyped
<1>2. /\ client'[c] = [client[c] EXCEPT !.pc = pc]
      /\ \A b \in Clients : b # c => client'[b] = client[b]
      /\ client' = [client EXCEPT ![c] = [client[c] EXCEPT !.pc = pc]]
  BY <1>1 DEF Goto
<1>3. client[c] \in [pc: Places, index: Nat]
  BY <1>1
<1>4. /\ [client[c] EXCEPT !.pc = pc] \in [pc: Places, index: Nat]
      /\ [client[c] EXCEPT !.pc = pc].pc = pc
      /\ [client[c] EXCEPT !.pc = pc].index = client[c].index
  BY <1>3
<1>5. client' \in [Clients -> [pc: Places, index: Nat]]
  BY <1>1, <1>2, <1>4
<1> QED BY <1>2, <1>4, <1>5

\* The error flag is read: the goroutine goes on, or leaves because of an error.
LEMMA PoolCheckErr ==
    ASSUME NEW total, Pool(total), NEW c \in Clients, client[c].pc = "check",
           Goto(c, IF firstErr THEN "gone" ELSE "take"),
           next' = next, firstErr' = firstErr, slot' = slot
    PROVE  Pool(total)'
<1> DEFINE pc == IF firstErr THEN "gone" ELSE "take"
<1>1. PoolTyped(total) /\ pc \in Places /\ pc \notin Busy /\ client[c].pc \notin Busy
  BY DEF Pool, Places, Busy
<1>2. /\ client' \in [Clients -> [pc: Places, index: Nat]]
      /\ client'[c].pc = pc
      /\ \A b \in Clients : b # c => client'[b] = client[b]
  BY <1>1, ClientMoves
<1>3. PoolTyped(total)'
  BY <1>1, <1>2 DEF PoolTyped
<1>4. \A b \in Clients : \A i : IsAt(b, i) <=> IsAt(b, i)'
  BY <1>1, <1>2 DEF IsAt
<1>5. HandsApart(total)'
  BY <1>1, <1>2 DEF Pool, HandsApart
<1>6. NoneLost(total)'
  BY <1>4 DEF Pool, NoneLost
<1>7. LeavesLast(total)'
  BY <1>2 DEF Pool, LeavesLast
<1> QED BY <1>3, <1>5, <1>6, <1>7 DEF Pool

\* The counter is advanced: the goroutine has an index of its own, or all are taken.
LEMMA PoolTakeIndex ==
    ASSUME NEW total, Pool(total), NEW c \in Clients, client[c].pc = "take",
           next' = next + 1,
           client' = [client EXCEPT ![c] = IF next < total
                                           THEN [pc |-> "call", index |-> next]
                                           ELSE [pc |-> "gone", index |-> 0]],
           firstErr' = firstErr, slot' = slot
    PROVE  Pool(total)'
<1> DEFINE to == IF next < total THEN [pc |-> "call", index |-> next]
                                 ELSE [pc |-> "gone", index |-> 0]
<1>1. /\ total \in Nat /\ next \in Nat /\ slot \in [Indexes(total) -> Nat]
      /\ client \in [Clients -> [pc: Places, index: Nat]]
      /\ client[c].pc \notin Busy
  BY DEF Pool, PoolTyped, Busy
<1>2. to \in [pc: Places, index: Nat]
  BY <1>1 DEF Places, Busy
<1>3. /\ client' \in [Clients -> [pc: Places, index: Nat]]
      /\ client'[c] = to
      /\ \A b \in Clients : b # c => client'[b] = client[b]
  BY <1>1, <1>2
<1>4. PoolTyped(total)'
  BY <1>1, <1>3 DEF Pool, PoolTyped
<1>5. CASE next < total
  <2>1. client'[c].pc = "call" /\ client'[c].index = next /\ "call" \in Busy
    BY <1>3, <1>5 DEF Busy
  <2>2. next \in Indexes(total) /\ slot[next] = 0
    <3>1. next \in Indexes(total)
      BY <1>1, <1>5 DEF Indexes
    <3> QED BY <1>1, <3>1 DEF Pool, NoneLost
  <2>3. \A b \in Clients : client[b].pc \in Busy =>
            client[b].index < next /\ client[b].index < total /\ client[b].index \in Nat
    BY <1>1 DEF Pool, HandsApart
  <2>4. HandsApart(total)'
    <3> SUFFICES ASSUME NEW a \in Clients, client'[a].pc \in Busy
                 PROVE  /\ client'[a].index < next' /\ client'[a].index < total
                        /\ slot'[client'[a].index] = 0
                        /\ \A b \in Clients :
                            client'[b].pc \in Busy /\ client'[b].index = client'[a].index => b = a
      BY DEF HandsApart
    <3>1. CASE a = c
      BY <1>1, <1>3, <1>5, <2>1, <2>2, <2>3, <3>1
    <3>2. CASE a # c
      <4>1. client'[a] = client[a] /\ client[a].pc \in Busy
        BY <1>3, <3>2
      <4>2. /\ client[a].index < next /\ client[a].index < total
            /\ slot[client[a].index] = 0
            /\ \A b \in Clients : client[b].pc \in Busy /\ client[b].index = client[a].index => b = a
        BY <4>1 DEF Pool, HandsApart
      <4>3. client[a].index \in Nat
        BY <1>1
      <4> QED BY <1>1, <1>3, <2>1, <4>1, <4>2, <4>3
    <3> QED BY <3>1, <3>2
  <2>5. NoneLost(total)'
    <3> SUFFICES ASSUME NEW i \in Indexes(total)
                 PROVE  /\ slot'[i] \in {0, 1} /\ (slot'[i] = 1 => i < next')
                        /\ (i < next' => slot'[i] = 1 \/ firstErr' \/ \E b \in Clients : IsAt(b, i)')
      BY DEF NoneLost
    <3>1. i \in Nat
      BY DEF Indexes
    <3>2. /\ slot[i] \in {0, 1} /\ (slot[i] = 1 => i < next)
          /\ (i < next => slot[i] = 1 \/ firstErr \/ \E b \in Clients : IsAt(b, i))
      BY DEF Pool, NoneLost
    <3>3. \A b \in Clients : IsAt(b, i) => IsAt(b, i)'
      BY <1>1, <1>3 DEF IsAt
    <3>4. i < next' => i < next \/ i = next
      BY <1>1, <3>1
    <3>5. i < next => i < next'
      BY <1>1, <3>1
    <3>6. i = next => IsAt(c, i)'
      BY <2>1 DEF IsAt
    <3> QED BY <3>2, <3>3, <3>4, <3>5, <3>6
  <2>6. LeavesLast(total)'
    <3>1. client'[c].pc # "gone"
      BY <2>1
    <3>2. ~(next >= total)
      BY <1>1, <1>5
    <3> QED BY <1>3, <3>1, <3>2 DEF Pool, LeavesLast
  <2> QED BY <1>4, <2>4, <2>5, <2>6 DEF Pool
<1>6. CASE ~(next < total)
  <2>1. client'[c].pc = "gone" /\ "gone" \notin Busy
    BY <1>3, <1>6 DEF Busy
  <2>2. \A b \in Clients : \A i : IsAt(b, i) <=> IsAt(b, i)'
    BY <1>1, <1>3, <2>1 DEF IsAt
  <2>3. \A i \in Nat : i < next => i < next'
    BY <1>1
  <2>4. HandsApart(total)'
    BY <1>1, <1>3, <2>1, <2>3 DEF Pool, HandsApart
  <2>5. \A i \in Indexes(total) : i < next /\ i < next'
    BY <1>1, <1>6 DEF Indexes
  <2>6. NoneLost(total)'
    BY <2>2, <2>5 DEF Pool, NoneLost
  <2>7. LeavesLast(total)'
    BY <1>1, <1>6 DEF LeavesLast
  <2> QED BY <1>4, <2>4, <2>6, <2>7 DEF Pool
<1> QED BY <1>5, <1>6

\* The result of an index is written by the goroutine that has it.
LEMMA PoolWrite ==
    ASSUME NEW total, Pool(total), NEW c \in Clients, client[c].pc \in Busy,
           Write(c), Goto(c, "check"), next' = next, firstErr' = firstErr
    PROVE  Pool(total)'
<1> DEFINE k == client[c].index
<1>1. /\ PoolTyped(total) /\ total \in Nat /\ next \in Nat /\ slot \in [Indexes(total) -> Nat]
      /\ client \in [Clients -> [pc: Places, index: Nat]]
      /\ "check" \in Places /\ "check" \notin Busy
  BY DEF Pool, PoolTyped, Busy, Places
<1>2. /\ client' \in [Clients -> [pc: Places, index: Nat]]
      /\ client'[c].pc = "check"
      /\ \A b \in Clients : b # c => client'[b] = client[b]
  BY <1>1, ClientMoves
<1>3. /\ k \in Nat /\ k < next /\ k < total /\ slot[k] = 0
      /\ \A b \in Clients : client[b].pc \in Busy /\ client[b].index = k => b = c
  BY <1>1 DEF Pool, HandsApart
<1>4. k \in Indexes(total)
  BY <1>1, <1>3 DEF Indexes
<1>5. /\ slot' \in [Indexes(total) -> Nat] /\ slot'[k] = 1
      /\ \A i \in Indexes(total) : i # k => slot'[i] = slot[i]
  BY <1>1, <1>3, <1>4 DEF Write
<1> HIDE DEF k
<1>6. PoolTyped(total)'
  BY <1>1, <1>2, <1>5 DEF PoolTyped
<1>7. HandsApart(total)'
  <2> SUFFICES ASSUME NEW a \in Clients, client'[a].pc \in Busy
               PROVE  /\ client'[a].index < next' /\ client'[a].index < total
                      /\ slot'[client'[a].index] = 0
                      /\ \A b \in Clients :
                          client'[b].pc \in Busy /\ client'[b].index = client'[a].index => b = a
    BY DEF HandsApart
  <2>1. a # c /\ client'[a] = client[a] /\ client[a].index \in Nat
    BY <1>1, <1>2
  <2>2. /\ client[a].index < next /\ client[a].index < total
        /\ slot[client[a].index] = 0
        /\ \A b \in Clients : client[b].pc \in Busy /\ client[b].index = client[a].index => b = a
    BY <2>1 DEF Pool, HandsApart
  <2>3. client[a].index # k
    BY <1>3, <2>1
  <2>4. client[a].index \in Indexes(total)
    BY <1>1, <2>1, <2>2 DEF Indexes
  <2> QED BY <1>1, <1>2, <1>5, <2>1, <2>2, <2>3, <2>4
<1>8. NoneLost(total)'
  <2> SUFFICES ASSUME NEW i \in Indexes(total)
               PROVE  /\ slot'[i] \in {0, 1} /\ (slot'[i] = 1 => i < next')
                      /\ (i < next' => slot'[i] = 1 \/ firstErr' \/ \E b \in Clients : IsAt(b, i)')
    BY DEF NoneLost
  <2>1. /\ slot[i] \in {0, 1} /\ (slot[i] = 1 => i < next)
        /\ (i < next => slot[i] = 1 \/ firstErr \/ \E b \in Clients : IsAt(b, i))
    BY DEF Pool, NoneLost
  <2>2. CASE i = k
    BY <1>3, <1>5, <2>2
  <2>3. CASE i # k
    <3>1. slot'[i] = slot[i]
      BY <1>5, <2>3
    <3>2. \A b \in Clients : IsAt(b, i) => IsAt(b, i)'
      BY <1>2, <2>3 DEF IsAt, k
    <3> QED BY <2>1, <3>1, <3>2
  <2> QED BY <2>2, <2>3
<1>9. LeavesLast(total)'
  BY <1>2 DEF Pool, LeavesLast
<1> QED BY <1>6, <1>7, <1>8, <1>9 DEF Pool

\* A busy goroutine stays with its index.
LEMMA PoolGoesOn ==
    ASSUME NEW total, Pool(total), NEW c \in Clients, client[c].pc \in Busy,
           NEW pc \in Busy, Goto(c, pc), next' = next, firstErr' = firstErr, slot' = slot
    PROVE  Pool(total)'
<1>1. PoolTyped(total) /\ pc \in Places
  BY DEF Pool, Places
<1>2. /\ client' \in [Clients -> [pc: Places, index: Nat]]
      /\ client'[c].pc = pc /\ client'[c].index = client[c].index
      /\ \A b \in Clients : b # c => client'[b] = client[b]
  BY <1>1, ClientMoves
<1>3. \A b \in Clients : /\ client'[b].pc \in Busy <=> client[b].pc \in Busy
                         /\ client'[b].index = client[b].index
                         /\ client'[b].pc = "gone" => client[b].pc = "gone"
  BY <1>2 DEF Busy
<1>4. PoolTyped(total)'
  BY <1>1, <1>2 DEF PoolTyped
<1>5. HandsApart(total)'
  BY <1>3 DEF Pool, HandsApart
<1>6. NoneLost(total)'
  <2>1. \A b \in Clients : \A i : IsAt(b, i)' <=> IsAt(b, i)
    BY <1>3 DEF IsAt
  <2> QED BY <2>1 DEF Pool, NoneLost
<1>7. LeavesLast(total)'
  BY <1>3 DEF Pool, LeavesLast
<1> QED BY <1>4, <1>5, <1>6, <1>7 DEF Pool

\* A goroutine whose call failed leaves the error behind.
LEMMA PoolRecordErr ==
    ASSUME NEW total, Pool(total), NEW c \in Clients, client[c].pc = "record",
           Goto(c, "gone"), firstErr' = TRUE, next' = next, slot' = slot
    PROVE  Pool(total)'
<1>1. PoolTyped(total) /\ "gone" \in Places /\ "gone" \notin Busy
  BY DEF Pool, Places, Busy
<1>2. /\ client' \in [Clients -> [pc: Places, index: Nat]]
      /\ client'[c].pc = "gone"
      /\ \A b \in Clients : b # c => client'[b] = client[b]
  BY <1>1, ClientMoves
<1>3. PoolTyped(total)'
  BY <1>1, <1>2 DEF PoolTyped
<1>4. HandsApart(total)'
  BY <1>1, <1>2 DEF Pool, HandsApart
<1>5. NoneLost(total)' /\ LeavesLast(total)'
  BY DEF Pool, NoneLost, LeavesLast
<1> QED BY <1>3, <1>4, <1>5 DEF Pool

\* Each step of a goroutine keeps its pool right.
LEMMA ClientKeepsPool ==
    ASSUME NEW total, total = Total(phase), Pool(total), NEW c \in Clients,
           ClientStep(c) \/ CallFails(c)
    PROVE  Pool(total)' /\ phase' = phase
<1>0. "call" \in Busy /\ "enqueue" \in Busy /\ "markFailed" \in Busy /\ "record" \in Busy
  BY DEF Busy
<1>1. CASE CheckErr(c)
  BY <1>1, PoolCheckErr DEF CheckErr
<1>2. CASE TakeIndex(c)
  BY <1>2, PoolTakeIndex DEF TakeIndex
<1>3. CASE Call(c)
  BY <1>0, <1>3, PoolWrite DEF Call
<1>4. CASE Submit(c)
  BY <1>0, <1>4, PoolGoesOn DEF Submit
<1>5. CASE Enqueue(c)
  BY <1>0, <1>5, PoolWrite DEF Enqueue
<1>6. CASE EnqueueRefused(c)
  BY <1>0, <1>6, PoolGoesOn DEF EnqueueRefused
<1>7. CASE MarkEnqueueFailed(c)
  BY <1>0, <1>7, PoolGoesOn DEF MarkEnqueueFailed
<1>8. CASE RecordErr(c)
  BY <1>8, PoolRecordErr DEF RecordErr
<1>9. CASE CallFails(c)
  BY <1>0, <1>9, PoolGoesOn DEF CallFails
<1> QED BY <1>1, <1>2, <1>3, <1>4, <1>5, <1>6, <1>7, <1>8, <1>9 DEF ClientStep

\* When everybody has left, nobody takes a step.
LEMMA NobodyMoves ==
    ASSUME Waited, NEW c \in Clients
    PROVE  ~ClientStep(c) /\ ~CallFails(c)
<1>1. client[c].pc = "gone"
  BY DEF Waited
<1> QED BY <1>1 DEF ClientStep, CheckErr, TakeIndex, Call, Submit, Enqueue, EnqueueRefused,
           MarkEnqueueFailed, RecordErr, CallFails

\* Steps that leave the pool alone.
LEMMA PoolUntouched ==
    ASSUME PoolInv, UNCHANGED pool, phase' = phase
    PROVE  PoolInv'
<1>1. next' = next /\ firstErr' = firstErr /\ client' = client /\ slot' = slot
  BY DEF pool
<1> QED BY <1>1 DEF PoolInv, Pool, PoolTyped, HandsApart, NoneLost, LeavesLast, IsAt, Waited,
           IndexesRunOnce

\* A pool that was waited for rests.
LEMMA PoolRests ==
    ASSUME PoolInv, UNCHANGED pool, Waited, phase' \notin PoolPhases
    PROVE  PoolInv'
<1>1. next' = next /\ firstErr' = firstErr /\ client' = client /\ slot' = slot
  BY DEF pool
<1>2. IndexesRunOnce
  BY PoolRunsOnce DEF PoolInv
<1> QED BY <1>1, <1>2 DEF PoolInv, Waited, IndexesRunOnce

\* Each step of the benchmark keeps the pool right.
LEMMA PoolNext == PoolInv /\ [Next]_vars => PoolInv'
<1> SUFFICES ASSUME PoolInv, [Next]_vars PROVE PoolInv'
  OBVIOUS
<1>0. /\ "upload" \in PoolPhases /\ "sync" \in PoolPhases /\ "async" \in PoolPhases
      /\ "create" \notin PoolPhases /\ "poll" \notin PoolPhases
      /\ "done" \notin PoolPhases /\ "failed" \notin PoolPhases
  BY DEF PoolPhases
<1>1. CASE UNCHANGED vars
  BY <1>1, PoolUntouched DEF vars
<1>2. ASSUME NEW c \in Clients, ClientStep(c) \/ CallFails(c)
      PROVE  PoolInv'
  <2>1. phase \in PoolPhases
    BY <1>2, NobodyMoves DEF PoolInv
  <2>2. PICK p : p = phase
    OBVIOUS
  <2>3. Pool(Total(p))
    BY <2>1, <2>2 DEF PoolInv
  <2>4. Pool(Total(p))' /\ phase' = p
    BY <1>2, <2>2, <2>3, ClientKeepsPool
  <2> QED BY <2>1, <2>2, <2>4 DEF PoolInv
<1>3. ASSUME NEW p \in PoolPhases, StartPool(p)
      PROVE  PoolInv'
  <2>1. Pool(Total(p))' /\ phase' = p
    BY <1>3, PoolStarts DEF StartPool
  <2> QED BY <1>3, <2>1 DEF PoolInv
<1>4. CASE MainStep
  <2>1. CASE UploadsEnd
    BY <1>0, <2>1, PoolRests DEF UploadsEnd
  <2>2. CASE CreateWorkflows
    BY <1>0, <1>3, <2>2 DEF CreateWorkflows
  <2>3. CASE SyncEnds
    BY <1>0, <1>3, <2>3 DEF SyncEnds
  <2>4. CASE SubmissionsEnd
    BY <1>0, <2>4, PoolRests DEF SubmissionsEnd
  <2>5. CASE Report
    <3>1. Waited
      BY <1>0, <2>5 DEF Report, PoolInv
    <3> QED BY <1>0, <2>5, <3>1, PoolRests DEF Report
  <2> QED BY <1>4, <2>1, <2>2, <2>3, <2>4, <2>5 DEF MainStep
<1>5. CASE Fails
  <2>1. Waited
    BY <1>0, <1>5 DEF Fails, PoolInv
  <2> QED BY <1>0, <1>5, <2>1, PoolRests DEF Fails
<1>6. ASSUME NEW r \in Indexes(AsyncRuns), PollRun(r) \/ Promote(r)
      PROVE  PoolInv'
  BY <1>6, PoolUntouched DEF PollRun, Promote
<1>7. CASE WorkerStep
  BY <1>7, PoolUntouched DEF WorkerStep, Execute
<1>8. CASE Interrupt
  BY <1>8, PoolUntouched DEF Interrupt
<1> QED BY <1>1, <1>2, <1>4, <1>5, <1>6, <1>7, <1>8 DEF Next

\* The first pool starts with the benchmark.
LEMMA PoolInit == Init => PoolInv
<1> SUFFICES ASSUME Init PROVE PoolInv
  OBVIOUS
<1>1. phase = "upload" /\ "upload" \in PoolPhases
  BY DEF Init, PoolPhases
<1>2. /\ next = 0 /\ firstErr = FALSE /\ client = Started("upload")
      /\ slot = Unwritten("upload")
  BY DEF Init
<1> DEFINE total == Total("upload")
<1>3. total \in Nat /\ Concurrency \in Nat
  BY TotalTyped, OptionsAssumption DEF ValidOptions
<1>4. PoolTyped(total)
  BY <1>2, <1>3 DEF PoolTyped, Started, Unwritten, Places
<1>5. \A c \in Clients : client[c].pc \notin Busy /\ (client[c].pc = "gone" => ~(c <= total))
  BY <1>2 DEF Started, Busy
<1>6. \A i \in Indexes(total) : slot[i] = 0 /\ ~(i < next) /\ i \in Nat
  BY <1>2 DEF Unwritten, Indexes
<1> HIDE DEF total
<1>7. HandsApart(total) /\ LeavesLast(total)
  BY <1>5 DEF HandsApart, LeavesLast
<1>8. NoneLost(total)
  BY <1>6 DEF NoneLost
<1>9. Pool(total)
  BY <1>4, <1>7, <1>8 DEF Pool
<1> QED BY <1>1, <1>9 DEF PoolInv, total

\* A pool that was waited for and reports no error ran each of its indexes exactly once,
\* for every number of goroutines and of indexes, wherever calls fail or the benchmark
\* is interrupted: goroutines that share only a counter and an error flag leave none out.
THEOREM PoolsRunEachOnce == Spec => []IndexesRunOnce
<1>1. PoolInv => IndexesRunOnce
  BY PoolRunsOnce DEF PoolInv
<1> QED BY <1>1, PoolInit, PoolNext, PTL DEF Spec

-----------------------------------------------------------------------------
(* The report.  The service is RunLifecycle without approvals and crashes, *)
(* so what is proved of its rows, jobs and copies holds here as well.      *)

Lifecycle == INSTANCE RunLifecycleProofs WITH
    Runs <- Indexes(AsyncRuns), Workers <- {TheWorker}, Resumers <- {},
    Gates <- 0, AtomicLoad <- TRUE, Faults <- {"refused"}

\* What RunLifecycle asks of its constants.
LEMMA ServiceAssumed ==
    /\ Lifecycle!MaxAttemptsAssumption /\ Lifecycle!GatesAssumption
    /\ Lifecycle!AtomicLoadAssumption /\ Lifecycle!FaultsAssumption
<1>1. Lifecycle!FaultsAssumption
  BY DEF Lifecycle!FaultsAssumption, Lifecycle!FaultKinds
<1>2. Lifecycle!MaxAttemptsAssumption
  BY AttemptsAssumption DEF Lifecycle!MaxAttemptsAssumption
<1>3. Lifecycle!GatesAssumption /\ Lifecycle!AtomicLoadAssumption
  BY DEF Lifecycle!GatesAssumption, Lifecycle!AtomicLoadAssumption
<1> QED BY <1>1, <1>2, <1>3

\* The handler of a run and the timers are those of RunLifecycle.
LEMMA RequestActions ==
    /\ \A r : Service!StartAsync(r) <=> Lifecycle!StartAsync(r)
    /\ \A r : Service!Enqueue(r) <=> Lifecycle!Enqueue(r)
    /\ \A r : Service!EnqueueRefused(r) <=> Lifecycle!EnqueueRefused(r)
    /\ \A r : Service!MarkEnqueueFailed(r) <=> Lifecycle!MarkEnqueueFailed(r)
    /\ \A r : Service!Promote(r) <=> Lifecycle!Promote(r)
<1> USE DEF Service!repo, Lifecycle!repo, Service!queue, Lifecycle!queue,
            Service!history, Lifecycle!history
<1>1. \A r : Service!StartAsync(r) <=> Lifecycle!StartAsync(r)
  BY DEF Service!StartAsync, Lifecycle!StartAsync, Service!Submitted, Lifecycle!Submitted
<1>2. \A r : Service!Enqueue(r) <=> Lifecycle!Enqueue(r)
  BY DEF Service!Enqueue, Lifecycle!Enqueue, Service!PushFirstJob, Lifecycle!PushFirstJob
<1>3. \A r : Service!EnqueueRefused(r) <=> Lifecycle!EnqueueRefused(r)
  BY DEF Service!EnqueueRefused, Lifecycle!EnqueueRefused
<1>4. \A r : Service!MarkEnqueueFailed(r) <=> Lifecycle!MarkEnqueueFailed(r)
  BY DEF Service!MarkEnqueueFailed, Lifecycle!MarkEnqueueFailed, Service!CompleteRun,
         Lifecycle!CompleteRun, Service!Failed, Lifecycle!Failed, Service!Submitted,
         Lifecycle!Submitted
<1>5. \A r : Service!Promote(r) <=> Lifecycle!Promote(r)
  BY DEF Service!Promote, Lifecycle!Promote
<1> QED BY <1>1, <1>2, <1>3, <1>4, <1>5

\* So are the steps of the worker.
LEMMA WorkerActions ==
    /\ \A w : Service!Dequeue(w) <=> Lifecycle!Dequeue(w)
    /\ \A w : Service!Inspect(w) <=> Lifecycle!Inspect(w)
    /\ \A w : Service!Claim(w) <=> Lifecycle!Claim(w)
    /\ \A w : Service!JobFails(w) <=> Lifecycle!JobFails(w)
    /\ \A w : Service!JobCompletes(w) <=> Lifecycle!JobCompletes(w)
    /\ \A w : Service!MarkAsyncRetry(w) <=> Lifecycle!MarkAsyncRetry(w)
    /\ \A w : Service!EnqueueAfter(w) <=> Lifecycle!EnqueueAfter(w)
    /\ \A w : Service!MarkDeadLetter(w) <=> Lifecycle!MarkDeadLetter(w)
<1> USE DEF Service!repo, Lifecycle!repo, Service!queue, Lifecycle!queue,
            Service!history, Lifecycle!history, Service!Idle, Lifecycle!Idle
<1>1. \A w : Service!Dequeue(w) <=> Lifecycle!Dequeue(w)
  BY DEF Service!Dequeue, Lifecycle!Dequeue, Service!Absent, Lifecycle!Absent
<1>2. \A w : Service!Inspect(w) <=> Lifecycle!Inspect(w)
  BY DEF Service!Inspect, Lifecycle!Inspect
<1>3. \A w : Service!Claim(w) <=> Lifecycle!Claim(w)
  BY DEF Service!Claim, Lifecycle!Claim, Service!Claimed, Lifecycle!Claimed,
         Service!UpdateRun, Lifecycle!UpdateRun
<1>4. \A w : Service!JobFails(w) <=> Lifecycle!JobFails(w)
  BY DEF Service!JobFails, Lifecycle!JobFails, Service!ExecutionFails, Lifecycle!ExecutionFails,
         Service!CompleteRun, Lifecycle!CompleteRun, Service!Failed, Lifecycle!Failed
<1>5. \A w : Service!JobCompletes(w) <=> Lifecycle!JobCompletes(w)
  BY DEF Service!JobCompletes, Lifecycle!JobCompletes, Service!ExecutionCompletes,
         Lifecycle!ExecutionCompletes, Service!CompleteRun, Lifecycle!CompleteRun
<1>6. \A w : Service!MarkAsyncRetry(w) <=> Lifecycle!MarkAsyncRetry(w)
  BY DEF Service!MarkAsyncRetry, Lifecycle!MarkAsyncRetry, Service!Limit, Lifecycle!Limit,
         Service!UpdateRun, Lifecycle!UpdateRun
<1>7. \A w : Service!EnqueueAfter(w) <=> Lifecycle!EnqueueAfter(w)
  BY DEF Service!EnqueueAfter, Lifecycle!EnqueueAfter
<1>8. \A w : Service!MarkDeadLetter(w) <=> Lifecycle!MarkDeadLetter(w)
  BY DEF Service!MarkDeadLetter, Lifecycle!MarkDeadLetter, Service!Limit, Lifecycle!Limit,
         Service!UpdateRun, Lifecycle!UpdateRun
<1> QED BY <1>1, <1>2, <1>3, <1>4, <1>5, <1>6, <1>7, <1>8

\* What a request, a timer and the worker do to the service.
RequestMove(r) == \/ Lifecycle!StartAsync(r) \/ Lifecycle!Enqueue(r)
                  \/ Lifecycle!EnqueueRefused(r) \/ Lifecycle!MarkEnqueueFailed(r)

WorkerMove == \/ Lifecycle!Dequeue(TheWorker) \/ Lifecycle!Inspect(TheWorker)
              \/ Lifecycle!Claim(TheWorker) \/ Lifecycle!MarkAsyncRetry(TheWorker)
              \/ Lifecycle!EnqueueAfter(TheWorker) \/ Lifecycle!MarkDeadLetter(TheWorker)

ExecuteMove == Lifecycle!JobFails(TheWorker) \/ Lifecycle!JobCompletes(TheWorker)

\* Only a goroutine of the last pool is inside the handler of an asynchronous run.
Handling ==
    \A c \in Clients : client[c].pc \in {"enqueue", "markFailed"} => phase = "async"

\* Each step of the benchmark, seen from the service.
LEMMA ServiceMoves ==
    ASSUME PoolInv, Handling, [Next]_vars
    PROVE  \/ UNCHANGED <<service, llm>>
           \/ /\ phase = "async" /\ \E r \in Indexes(AsyncRuns) : RequestMove(r)
              /\ UNCHANGED <<results, llm, phase>>
           \/ (\E r \in Indexes(AsyncRuns) : Lifecycle!Promote(r)) /\ UNCHANGED <<results, llm, phase>>
           \/ WorkerMove /\ UNCHANGED <<results, llm, phase>>
           \/ \E r \in Indexes(AsyncRuns) : Execute(r)
<1>1. CASE UNCHANGED vars
  BY <1>1 DEF vars
<1>2. ASSUME NEW c \in Clients, ClientStep(c) \/ CallFails(c)
      PROVE  \/ UNCHANGED <<service, llm>>
             \/ /\ phase = "async" /\ \E r \in Indexes(AsyncRuns) : RequestMove(r)
                /\ UNCHANGED <<results, llm, phase>>
  <2>1. phase \in PoolPhases
    BY <1>2, NobodyMoves DEF PoolInv
  <2>2. CASE CheckErr(c) \/ TakeIndex(c) \/ Call(c) \/ RecordErr(c) \/ CallFails(c)
    BY <2>2 DEF CheckErr, TakeIndex, Call, RecordErr, CallFails
  <2>3. CASE Submit(c) \/ Enqueue(c) \/ EnqueueRefused(c) \/ MarkEnqueueFailed(c)
    <3>1. client[c].pc \in {"call", "enqueue", "markFailed"} /\ phase = "async"
      BY <2>3 DEF Submit, Enqueue, EnqueueRefused, MarkEnqueueFailed, Handling
    <3>2. client[c].index \in Indexes(AsyncRuns)
      <4>1. Pool(AsyncRuns)
        BY <2>1, <3>1 DEF PoolInv, Total
      <4>2. client[c].index \in Nat /\ client[c].index < AsyncRuns /\ AsyncRuns \in Nat
        BY <3>1, <4>1 DEF Pool, PoolTyped, HandsApart, Busy
      <4> QED BY <4>2 DEF Indexes
    <3>3. RequestMove(client[c].index) /\ UNCHANGED <<results, llm, phase>>
      BY <2>3, RequestActions DEF Submit, Enqueue, EnqueueRefused, MarkEnqueueFailed, RequestMove
    <3> QED BY <3>1, <3>2, <3>3
  <2> QED BY <1>2, <2>2, <2>3 DEF ClientStep
<1>3. CASE MainStep \/ Fails \/ Interrupt
  BY <1>3 DEF MainStep, UploadsEnd, CreateWorkflows, SyncEnds, SubmissionsEnd, Report, Fails,
              Interrupt
<1>4. ASSUME NEW r \in Indexes(AsyncRuns), PollRun(r)
      PROVE  UNCHANGED <<service, llm>>
  BY <1>4 DEF PollRun
<1>5. ASSUME NEW r \in Indexes(AsyncRuns), Promote(r)
      PROVE  Lifecycle!Promote(r) /\ UNCHANGED <<results, llm, phase>>
  BY <1>5, RequestActions DEF Promote
<1>6. CASE WorkerStep
  BY <1>6, WorkerActions DEF WorkerStep, WorkerMove
<1> QED BY <1>1, <1>2, <1>3, <1>4, <1>5, <1>6 DEF Next

\* So what holds along RunLifecycle holds along the benchmark.
LEMMA CountedHere ==
    ASSUME PoolInv, Handling, Lifecycle!CountedInv, [Next]_vars
    PROVE  Lifecycle!CountedInv'
<1>1. [Lifecycle!Next]_(Lifecycle!vars)
  <2>1. CASE UNCHANGED <<service, llm>>
    BY <2>1 DEF service, Lifecycle!vars
  <2>2. CASE \E r \in Indexes(AsyncRuns) : RequestMove(r)
    BY <2>2 DEF RequestMove, Lifecycle!Next, Lifecycle!Submit, Lifecycle!ApiStep, Lifecycle!Fault
  <2>3. CASE \E r \in Indexes(AsyncRuns) : Lifecycle!Promote(r)
    BY <2>3 DEF Lifecycle!Next
  <2>4. CASE WorkerMove \/ ExecuteMove
    <3>1. Lifecycle!WorkerStep(TheWorker)
      BY <2>4 DEF WorkerMove, ExecuteMove, Lifecycle!WorkerStep
    <3> QED BY <3>1 DEF Lifecycle!Next
  <2>5. ASSUME NEW r, Execute(r)
        PROVE  ExecuteMove
    BY <2>5, WorkerActions DEF Execute, ExecuteMove
  <2> QED BY <2>1, <2>2, <2>3, <2>4, <2>5, ServiceMoves
<1> QED BY <1>1, ServiceAssumed, Lifecycle!CountedStep

\* The handler of a goroutine ends before its pool does.
LEMMA HandlingStep ==
    ASSUME PoolInv, Handling, [Next]_vars
    PROVE  Handling'
<1>1. CASE client' = client /\ phase' = phase
  BY <1>1 DEF Handling
<1>2. ASSUME NEW c \in Clients, ClientStep(c) \/ CallFails(c)
      PROVE  Handling'
  <2>1. phase \in PoolPhases
    BY <1>2, NobodyMoves DEF PoolInv
  <2>2. client \in [Clients -> [pc: Places, index: Nat]]
    BY <2>1 DEF PoolInv, Pool, PoolTyped
  <2>3. /\ phase' = phase
        /\ \A b \in Clients : b # c => client'[b] = client[b]
    BY <1>2, <2>2 DEF ClientStep, CheckErr, TakeIndex, Call, Submit, Enqueue, EnqueueRefused,
                      MarkEnqueueFailed, RecordErr, CallFails, Goto
  <2>4. client'[c].pc \in {"enqueue", "markFailed"} => phase = "async"
    <3>1. CASE CheckErr(c) \/ Call(c) \/ MarkEnqueueFailed(c) \/ RecordErr(c) \/ CallFails(c)
      BY <2>2, <3>1 DEF CheckErr, Call, MarkEnqueueFailed, RecordErr, CallFails, Goto
    <3>2. CASE TakeIndex(c) \/ Enqueue(c)
      BY <2>2, <3>2 DEF TakeIndex, Enqueue, Goto
    <3>3. CASE Submit(c) \/ EnqueueRefused(c)
      BY <3>3 DEF Submit, EnqueueRefused, Handling
    <3> QED BY <1>2, <3>1, <3>2, <3>3 DEF ClientStep
  <2> QED BY <2>3, <2>4 DEF Handling
<1>3. ASSUME NEW p, StartPool(p)
      PROVE  Handling'
  <2>1. \A c \in Clients : client'[c].pc \in {"check", "gone"}
    BY <1>3 DEF StartPool, Started
  <2> QED BY <2>1 DEF Handling
<1>4. CASE Waited /\ UNCHANGED pool
  BY <1>4 DEF Handling, Waited, pool
<1>5. CASE MainStep \/ Fails
  <2>1. CASE UploadsEnd \/ SubmissionsEnd
    BY <1>4, <2>1 DEF UploadsEnd, SubmissionsEnd
  <2>2. CASE CreateWorkflows \/ SyncEnds
    BY <1>3, <2>2 DEF CreateWorkflows, SyncEnds
  <2>3. CASE Report
    <3>1. phase \notin PoolPhases
      BY <2>3 DEF Report, PoolPhases
    <3>2. Waited /\ UNCHANGED pool
      BY <2>3, <3>1 DEF Report, PoolInv
    <3> QED BY <1>4, <3>2
  <2>4. CASE Fails
    <3>1. Waited
      BY <2>4 DEF Fails, PoolInv, PoolPhases
    <3>2. UNCHANGED pool
      BY <2>4 DEF Fails
    <3> QED BY <1>4, <3>1, <3>2
  <2> QED BY <1>5, <2>1, <2>2, <2>3, <2>4 DEF MainStep
<1>6. CASE WorkerStep
  BY <1>1, <1>6 DEF WorkerStep, Execute, pool
<1>7. CASE Interrupt \/ UNCHANGED vars
  BY <1>1, <1>7 DEF Interrupt, pool, vars
<1>8. ASSUME NEW r, PollRun(r) \/ Promote(r)
      PROVE  Handling'
  BY <1>1, <1>8 DEF PollRun, Promote, pool
<1> QED BY <1>2, <1>5, <1>6, <1>7, <1>8 DEF Next

-----------------------------------------------------------------------------
(* What a row tells about the calls of the LLM. *)

Buckets == {"fine", "transient", "terminal"}

InExecution(r) == worker[TheWorker].pc = "execute" /\ worker[TheWorker].job.run = r

\* Each execution calls the LLM once, at its end.
CallsCounted ==
    /\ attempts \in [Indexes(AsyncRuns) -> Nat]
    /\ \A r \in Indexes(AsyncRuns) :
            executions[r] = attempts[r] + (IF InExecution(r) THEN 1 ELSE 0)

\* Every call for the prompt of a run failed so far.
AllFailed(r) ==
    \/ attempts[r] = 0
    \/ attempts[r] = 1 /\ bucket[r] = "transient"
    \/ bucket[r] = "terminal"

\* The call that succeeded was the last one; a run is given up at the limit of attempts.
RowTells(r) ==
    /\ runs[r].status # "completed" => AllFailed(r)
    /\ runs[r].status = "completed" =>
            /\ bucket[r] # "terminal"
            /\ attempts[r] = IF bucket[r] = "fine" THEN 1 ELSE 2
    /\ runs[r].status = "dead_letter" => runs[r].attempt = MaxAttempts

RowsTell ==
    /\ bucket \in [Indexes(AsyncRuns) -> Buckets]
    /\ \A r \in Indexes(AsyncRuns) : RowTells(r)

\* A run is submitted, and later phases are reached, when each tenant has a document.
Uploaded ==
    \/ phase \in {"create", "sync", "async", "poll", "done"}
    \/ \E r \in Indexes(AsyncRuns) : api[r] # "new"
    => \A t \in Indexes(Tenants) : documents[t] > 0

\* What is proved of the service, and that no request was told that a queued job is refused.
ServiceInv == Lifecycle!CountedInv /\ unacked = {}

\* What the worker has in hand is current.
LEMMA WorkerFits ==
    ASSUME ServiceInv
    PROVE  /\ runs \in [Indexes(AsyncRuns) -> Lifecycle!Row]
           /\ executions \in [Indexes(AsyncRuns) -> Nat]
           /\ worker \in [{TheWorker} -> {Lifecycle!Idle} \union Lifecycle!Engaged]
           /\ TheWorker \in {TheWorker}
           /\ worker[TheWorker] # Lifecycle!Idle =>
                /\ worker[TheWorker] \in Lifecycle!Engaged
                /\ worker[TheWorker].job.run \in Indexes(AsyncRuns)
                /\ api[worker[TheWorker].job.run] # "new"
                /\ Lifecycle!HeldFits(TheWorker)
<1>1. Lifecycle!TypeOK
  BY DEF ServiceInv, Lifecycle!CountedInv, Lifecycle!CurrentInv, Lifecycle!Separation
<1>2. /\ runs \in [Indexes(AsyncRuns) -> Lifecycle!Row]
      /\ executions \in [Indexes(AsyncRuns) -> Nat]
      /\ worker \in [{TheWorker} -> {Lifecycle!Idle} \union Lifecycle!Engaged]
  BY <1>1 DEF Lifecycle!TypeOK
<1>3. ASSUME worker[TheWorker] # Lifecycle!Idle
      PROVE  /\ worker[TheWorker] \in Lifecycle!Engaged
             /\ worker[TheWorker].job.run \in Indexes(AsyncRuns)
             /\ api[worker[TheWorker].job.run] # "new"
             /\ Lifecycle!HeldFits(TheWorker)
  <2>1. worker[TheWorker] \in Lifecycle!Engaged
    BY <1>2, <1>3
  <2>2. worker[TheWorker].job.run \in Indexes(AsyncRuns)
    BY <2>1 DEF Lifecycle!Engaged, Lifecycle!Job
  <2>3. Lifecycle!Busy(worker[TheWorker].job.run)
    BY <1>3 DEF Lifecycle!Busy, Lifecycle!IsHeld, Lifecycle!Holds
  <2>4. api[worker[TheWorker].job.run] # "new"
    BY <2>2, <2>3 DEF ServiceInv, Lifecycle!CountedInv, Lifecycle!CurrentInv,
                      Lifecycle!Separation, Lifecycle!FreshRunsAreAlone
  <2>5. Lifecycle!HeldFits(TheWorker)
    BY <1>3 DEF ServiceInv, Lifecycle!CountedInv, Lifecycle!CurrentInv, Lifecycle!Current
  <2> QED BY <2>1, <2>2, <2>4, <2>5
<1> QED BY <1>2, <1>3

\* It stays so: replies are not lost here.
LEMMA ServiceStep ==
    ASSUME PoolInv, Handling, ServiceInv, [Next]_vars
    PROVE  ServiceInv'
<1> USE DEF Lifecycle!repo, Lifecycle!queue, Lifecycle!history
<1>1. ASSUME NEW r, RequestMove(r)
      PROVE  unacked' = unacked
  BY <1>1 DEF RequestMove, Lifecycle!StartAsync, Lifecycle!Enqueue, Lifecycle!EnqueueRefused,
              Lifecycle!MarkEnqueueFailed
<1>2. ASSUME NEW r, Lifecycle!Promote(r)
      PROVE  unacked' = unacked
  BY <1>2 DEF Lifecycle!Promote
<1>3. ASSUME WorkerMove
      PROVE  unacked' = unacked
  BY <1>3 DEF WorkerMove, Lifecycle!Dequeue, Lifecycle!Inspect, Lifecycle!Claim,
              Lifecycle!MarkAsyncRetry, Lifecycle!EnqueueAfter, Lifecycle!MarkDeadLetter
<1>4. ASSUME NEW r, Execute(r)
      PROVE  unacked' = unacked
  BY <1>4, WorkerActions DEF Execute, Lifecycle!JobFails, Lifecycle!JobCompletes
<1>5. ASSUME UNCHANGED <<service, llm>>
      PROVE  unacked' = unacked
  BY <1>5 DEF service
<1>6. unacked' = unacked
  BY <1>1, <1>2, <1>3, <1>4, <1>5, ServiceMoves DEF ServiceInv
<1> QED BY <1>6, CountedHere DEF ServiceInv

\* A row that is not completed is written, and stays so.
LEMMA RowWritten ==
    ASSUME ServiceInv, RowsTell, NEW r \in Indexes(AsyncRuns), NEW row,
           runs' = [runs EXCEPT ![r] = row], UNCHANGED llm,
           runs[r].status # "completed", row.status # "completed",
           row.status = "dead_letter" => row.attempt = MaxAttempts
    PROVE  RowsTell'
<1>1. /\ attempts' = attempts /\ bucket' = bucket
      /\ runs \in [Indexes(AsyncRuns) -> Lifecycle!Row]
  BY WorkerFits DEF llm
<1>2. runs'[r] = row /\ \A q \in Indexes(AsyncRuns) : q # r => runs'[q] = runs[q]
  BY <1>1
<1>3. \A q \in Indexes(AsyncRuns) : AllFailed(q) <=> AllFailed(q)'
  BY <1>1 DEF AllFailed
<1>4. AllFailed(r)'
  BY <1>3 DEF RowsTell, RowTells
<1>5. RowTells(r)'
  BY <1>2, <1>4 DEF RowTells
<1>6. \A q \in Indexes(AsyncRuns) : q # r => RowTells(q)'
  BY <1>1, <1>2, <1>3 DEF RowsTell, RowTells
<1> QED BY <1>1, <1>5, <1>6 DEF RowsTell

\* No row is written.
LEMMA RowsLeft ==
    ASSUME RowsTell, runs' = runs, UNCHANGED llm
    PROVE  RowsTell'
<1>1. attempts' = attempts /\ bucket' = bucket
  BY DEF llm
<1> QED BY <1>1 DEF RowsTell, RowTells, AllFailed

\* The request writes the rows it has created itself.
LEMMA RequestRows ==
    ASSUME ServiceInv, RowsTell, NEW r \in Indexes(AsyncRuns), RequestMove(r), UNCHANGED llm
    PROVE  RowsTell'
<1>1. Lifecycle!StartFits(r)
  BY DEF ServiceInv, Lifecycle!CountedInv, Lifecycle!CurrentInv, Lifecycle!Current
<1>2. CASE Lifecycle!StartAsync(r)
  <2>1. /\ runs[r].status = "absent"
        /\ runs' = [runs EXCEPT ![r] = Lifecycle!Submitted]
    BY <1>1, <1>2 DEF Lifecycle!StartAsync, Lifecycle!StartFits, Lifecycle!Absent
  <2>2. Lifecycle!Submitted.status = "queued"
    BY DEF Lifecycle!Submitted
  <2> QED BY <2>1, <2>2, RowWritten
<1>3. CASE Lifecycle!MarkEnqueueFailed(r)
  <2> DEFINE row == Lifecycle!Failed(Lifecycle!Submitted, "enqueue")
  <2>1. /\ runs[r].status = "queued"
        /\ runs' = [runs EXCEPT ![r] = row]
    BY <1>1, <1>3 DEF Lifecycle!MarkEnqueueFailed, Lifecycle!CompleteRun, Lifecycle!StartFits,
                      Lifecycle!Submitted
  <2>2. row.status = "failed"
    BY DEF Lifecycle!Failed, Lifecycle!Submitted
  <2> HIDE DEF row
  <2> QED BY <2>1, <2>2, RowWritten
<1>4. CASE Lifecycle!Enqueue(r) \/ Lifecycle!EnqueueRefused(r)
  <2>1. runs' = runs
    BY <1>4 DEF Lifecycle!Enqueue, Lifecycle!EnqueueRefused, Lifecycle!repo
  <2> QED BY <2>1, RowsLeft
<1> QED BY <1>2, <1>3, <1>4 DEF RequestMove

\* The worker writes the row of a run that it has read as queued, or failed itself.
LEMMA WorkerRows ==
    ASSUME ServiceInv, RowsTell, WorkerMove, UNCHANGED llm
    PROVE  RowsTell'
<1> DEFINE w == worker[TheWorker]
           r == w.job.run
<1>1. CASE Lifecycle!Dequeue(TheWorker) \/ Lifecycle!Inspect(TheWorker) \/ Lifecycle!EnqueueAfter(TheWorker)
  <2>1. runs' = runs
    BY <1>1 DEF Lifecycle!Dequeue, Lifecycle!Inspect, Lifecycle!EnqueueAfter, Lifecycle!repo
  <2> QED BY <2>1, RowsLeft
<1>2. ASSUME w.pc \in {"claim", "decide"}
      PROVE  /\ w \in Lifecycle!Engaged /\ r \in Indexes(AsyncRuns)
             /\ w.row = runs[r] /\ runs[r] \in Lifecycle!Row
             /\ w.pc = "claim" => runs[r].status = "queued"
             /\ w.pc = "decide" => /\ w.row.mode = "async" /\ w.row.attempt <= MaxAttempts
                                   /\ w.row.status = "failed"
  <2>1. w # Lifecycle!Idle
    BY <1>2 DEF Lifecycle!Idle
  <2>2. w \in Lifecycle!Engaged /\ r \in Indexes(AsyncRuns) /\ Lifecycle!HeldFits(TheWorker)
    BY <2>1, WorkerFits
  <2>3. runs[r] \in Lifecycle!Row
    BY <2>2, WorkerFits
  <2>4. w.row = runs[r]
    BY <1>2, <2>2 DEF Lifecycle!HeldFits
  <2>5. w.pc = "claim" => runs[r].status = "queued"
    BY <2>2 DEF Lifecycle!HeldFits, Lifecycle!JobFits
  <2>6. w.pc = "decide" => w.row.mode = "async" /\ w.row.attempt <= MaxAttempts /\ w.row.status = "failed"
    BY <2>2 DEF Lifecycle!HeldFits
  <2> QED BY <2>2, <2>3, <2>4, <2>5, <2>6
<1>3. CASE Lifecycle!Claim(TheWorker)
  <2> DEFINE row == Lifecycle!Claimed(TheWorker)
  <2>1. w.pc = "claim" /\ runs' = [runs EXCEPT ![r] = row]
    BY <1>3 DEF Lifecycle!Claim, Lifecycle!UpdateRun
  <2>2. r \in Indexes(AsyncRuns) /\ w.row \in Lifecycle!Row /\ runs[r].status = "queued"
    BY <1>2, <2>1
  <2>3. row.status = "running"
    BY <2>2 DEF Lifecycle!Claimed, Lifecycle!Row
  <2> HIDE DEF row
  <2> QED BY <2>1, <2>2, <2>3, RowWritten
<1>4. CASE Lifecycle!MarkAsyncRetry(TheWorker)
  <2> DEFINE row == [w.row EXCEPT !.status = "queued"]
  <2>1. w.pc = "decide" /\ runs' = [runs EXCEPT ![r] = row]
    BY <1>4 DEF Lifecycle!MarkAsyncRetry, Lifecycle!UpdateRun
  <2>2. r \in Indexes(AsyncRuns) /\ w.row \in Lifecycle!Row /\ runs[r].status = "failed"
    BY <1>2, <2>1
  <2>3. row.status = "queued"
    BY <2>2 DEF Lifecycle!Row
  <2> HIDE DEF row
  <2> QED BY <2>1, <2>2, <2>3, RowWritten
<1>5. CASE Lifecycle!MarkDeadLetter(TheWorker)
  <2> DEFINE row == [w.row EXCEPT !.status = "dead_letter"]
  <2>1. /\ w.pc = "decide" /\ runs' = [runs EXCEPT ![r] = row]
        /\ w.row.attempt >= Lifecycle!Limit(w.row)
    BY <1>5 DEF Lifecycle!MarkDeadLetter, Lifecycle!UpdateRun
  <2>2. /\ r \in Indexes(AsyncRuns) /\ w.row \in Lifecycle!Row /\ runs[r].status = "failed"
        /\ w.row.mode = "async" /\ w.row.attempt <= MaxAttempts
    BY <1>2, <2>1
  <2>3. w.row.attempt = MaxAttempts
    <3>1. Lifecycle!Limit(w.row) = MaxAttempts
      BY <2>2 DEF Lifecycle!Limit
    <3>2. w.row.attempt \in Nat /\ MaxAttempts \in Nat
      BY <2>2, AttemptsAssumption DEF Lifecycle!Row
    <3> QED BY <2>1, <2>2, <3>1, <3>2
  <2>4. row.status = "dead_letter" /\ row.attempt = MaxAttempts
    BY <2>2, <2>3 DEF Lifecycle!Row
  <2> HIDE DEF row
  <2> QED BY <2>1, <2>2, <2>4, RowWritten
<1> QED BY <1>1, <1>3, <1>4, <1>5 DEF WorkerMove

\* Every workflow names a document of its tenant.
LEMMA TenantHasDocuments ==
    ASSUME \A t \in Indexes(Tenants) : documents[t] > 0, NEW i \in Nat
    PROVE  HasDocuments(i)
<1>1. Tenants \in Nat /\ Tenants > 0
  BY OptionsAssumption DEF ValidOptions
<1>2. i % Tenants \in Nat /\ i % Tenants < Tenants
  BY <1>1
<1>3. TenantOf(i) \in Indexes(Tenants)
  BY <1>1, <1>2 DEF TenantOf, Indexes
<1> QED BY <1>3 DEF HasDocuments

\* An execution that fails has met a failing LLM, one that completes a working one.
LEMMA ExecuteRows ==
    ASSUME ServiceInv, RowsTell, CallsCounted, Uploaded, NEW r \in Indexes(AsyncRuns), Execute(r)
    PROVE  RowsTell' /\ CallsCounted'
<1> DEFINE w == worker[TheWorker]
<1>1. /\ w.pc = "execute" /\ r = w.job.run
      /\ attempts' = [attempts EXCEPT ![r] = @ + 1] /\ bucket' = bucket
  BY DEF Execute
<1>2. w # Lifecycle!Idle
  BY <1>1 DEF Lifecycle!Idle
<1>3. /\ w \in Lifecycle!Engaged /\ Lifecycle!HeldFits(TheWorker) /\ api[r] # "new"
      /\ runs \in [Indexes(AsyncRuns) -> Lifecycle!Row]
  BY <1>1, <1>2, WorkerFits
<1>4. w.row = runs[r] /\ runs[r].status = "running" /\ runs[r] \in Lifecycle!Row
  BY <1>1, <1>3 DEF Lifecycle!HeldFits
<1>5. AllFailed(r)
  BY <1>4 DEF RowsTell, RowTells
<1>6. HasDocuments(r)
  <2>1. r \in Nat
    BY DEF Indexes
  <2> QED BY <1>3, <2>1, TenantHasDocuments DEF Uploaded
<1>7. /\ attempts \in [Indexes(AsyncRuns) -> Nat] /\ attempts' \in [Indexes(AsyncRuns) -> Nat]
      /\ attempts'[r] = attempts[r] + 1
      /\ \A q \in Indexes(AsyncRuns) : q # r => attempts'[q] = attempts[q]
  BY <1>1 DEF CallsCounted
<1>8. bucket[r] \in Buckets
  BY DEF RowsTell
<1>9. CASE GenerateFails(r)
  <2> DEFINE row == Lifecycle!Failed(w.row, "node")
  <2>1. Lifecycle!JobFails(TheWorker)
    BY <1>9, WorkerActions DEF Execute
  <2>2. runs' = [runs EXCEPT ![r] = row]
    BY <1>1, <2>1 DEF Lifecycle!JobFails, Lifecycle!ExecutionFails, Lifecycle!CompleteRun
  <2>3. row.status = "failed"
    BY <1>4 DEF Lifecycle!Failed, Lifecycle!Row
  <2> HIDE DEF row
  <2>4. runs'[r] = row /\ \A q \in Indexes(AsyncRuns) : q # r => runs'[q] = runs[q]
    BY <1>3, <2>2
  <2>5. AllFailed(r)'
    BY <1>1, <1>5, <1>7, <1>9 DEF AllFailed, GenerateFails
  <2>6. RowTells(r)'
    BY <2>3, <2>4, <2>5 DEF RowTells
  <2>7. \A q \in Indexes(AsyncRuns) : q # r => RowTells(q)'
    BY <1>1, <1>7, <2>4 DEF RowsTell, RowTells, AllFailed
  <2>8. RowsTell'
    BY <1>1, <2>6, <2>7 DEF RowsTell
  <2>9. worker'[TheWorker].pc = "decide" /\ executions' = executions
    BY <1>3, <2>1, WorkerFits DEF Lifecycle!JobFails, Lifecycle!history, Lifecycle!Engaged
  <2>10. CallsCounted'
    <3>1. \A q \in Indexes(AsyncRuns) :
              executions'[q] = attempts[q] + (IF q = r THEN 1 ELSE 0) /\ ~InExecution(q)'
      BY <1>1, <2>9 DEF CallsCounted, InExecution
    <3>2. \A q \in Indexes(AsyncRuns) : executions'[q] = attempts'[q] + 0
      BY <1>7, <3>1
    <3> QED BY <1>7, <3>1, <3>2 DEF CallsCounted
  <2> QED BY <2>8, <2>10
<1>10. CASE ~GenerateFails(r)
  <2> DEFINE row == [w.row EXCEPT !.status = "completed"]
  <2>1. Lifecycle!JobCompletes(TheWorker)
    BY <1>6, <1>10, WorkerActions DEF Execute
  <2>2. runs' = [runs EXCEPT ![r] = row]
    BY <1>1, <2>1 DEF Lifecycle!JobCompletes, Lifecycle!ExecutionCompletes, Lifecycle!CompleteRun
  <2>3. row.status = "completed"
    BY <1>4 DEF Lifecycle!Row
  <2> HIDE DEF row
  <2>4. runs'[r] = row /\ \A q \in Indexes(AsyncRuns) : q # r => runs'[q] = runs[q]
    BY <1>3, <2>2
  <2>5. bucket[r] # "terminal" /\ attempts'[r] = IF bucket[r] = "fine" THEN 1 ELSE 2
    BY <1>5, <1>7, <1>8, <1>10 DEF AllFailed, GenerateFails, Buckets
  <2>6. RowTells(r)'
    BY <1>1, <2>3, <2>4, <2>5 DEF RowTells
  <2>7. \A q \in Indexes(AsyncRuns) : q # r => RowTells(q)'
    BY <1>1, <1>7, <2>4 DEF RowsTell, RowTells, AllFailed
  <2>8. RowsTell'
    BY <1>1, <2>6, <2>7 DEF RowsTell
  <2>9. worker'[TheWorker] = Lifecycle!Idle /\ executions' = executions
    BY <2>1, WorkerFits DEF Lifecycle!JobCompletes, Lifecycle!history
  <2>10. CallsCounted'
    <3>1. \A q \in Indexes(AsyncRuns) :
              executions'[q] = attempts[q] + (IF q = r THEN 1 ELSE 0) /\ ~InExecution(q)'
      BY <1>1, <2>9 DEF CallsCounted, InExecution, Lifecycle!Idle
    <3>2. \A q \in Indexes(AsyncRuns) : executions'[q] = attempts'[q] + 0
      BY <1>7, <3>1
    <3> QED BY <1>7, <3>1, <3>2 DEF CallsCounted
  <2> QED BY <2>8, <2>10
<1> QED BY <1>9, <1>10

\* Other steps than an execution call no LLM; the claim of a run announces a call.
LEMMA CallsLeft ==
    ASSUME ServiceInv, CallsCounted, UNCHANGED llm,
           \/ UNCHANGED service
           \/ \E r : RequestMove(r) \/ Lifecycle!Promote(r)
           \/ WorkerMove
    PROVE  CallsCounted'
<1> USE DEF Lifecycle!repo, Lifecycle!queue, Lifecycle!history
<1>1. attempts' = attempts
  BY DEF llm
<1>2. /\ worker \in [{TheWorker} -> {Lifecycle!Idle} \union Lifecycle!Engaged]
      /\ executions \in [Indexes(AsyncRuns) -> Nat]
  BY WorkerFits
<1>3. ASSUME worker' = worker, executions' = executions
      PROVE  CallsCounted'
  BY <1>1, <1>3 DEF CallsCounted, InExecution
<1>4. CASE UNCHANGED service
  BY <1>3, <1>4 DEF service
<1>5. ASSUME NEW r, RequestMove(r) \/ Lifecycle!Promote(r)
      PROVE  CallsCounted'
  BY <1>3, <1>5 DEF RequestMove, Lifecycle!StartAsync, Lifecycle!Enqueue, Lifecycle!EnqueueRefused,
                    Lifecycle!MarkEnqueueFailed, Lifecycle!Promote
<1>6. ASSUME worker[TheWorker].pc # "execute", worker'[TheWorker].pc # "execute",
             executions' = executions
      PROVE  CallsCounted'
  BY <1>1, <1>6 DEF CallsCounted, InExecution
<1>7. CASE Lifecycle!Dequeue(TheWorker)
  <2>1. worker[TheWorker].pc = "poll" /\ executions' = executions
    BY <1>7 DEF Lifecycle!Dequeue, Lifecycle!Idle
  <2>2. worker'[TheWorker].pc = "inspect"
    BY <1>2, <1>7 DEF Lifecycle!Dequeue
  <2> QED BY <1>6, <2>1, <2>2
<1>8. CASE Lifecycle!Inspect(TheWorker)
  <2>1. worker[TheWorker].pc = "inspect" /\ executions' = executions
    BY <1>8 DEF Lifecycle!Inspect
  <2>2. worker[TheWorker] \in Lifecycle!Engaged
    BY <1>2, <2>1 DEF Lifecycle!Idle
  <2>3. \/ worker' = [worker EXCEPT ![TheWorker] = Lifecycle!Idle]
        \/ \E row : \E pc \in {"claim", "decide"} :
                worker' = [worker EXCEPT ![TheWorker] = [worker[TheWorker] EXCEPT !.pc = pc, !.row = row]]
    BY <1>8 DEF Lifecycle!Inspect
  <2>4. worker'[TheWorker].pc \in {"poll", "claim", "decide"}
    <3>1. CASE worker' = [worker EXCEPT ![TheWorker] = Lifecycle!Idle]
      BY <1>2, <3>1 DEF Lifecycle!Idle
    <3>2. ASSUME NEW row, NEW pc \in {"claim", "decide"},
                 worker' = [worker EXCEPT ![TheWorker] = [worker[TheWorker] EXCEPT !.pc = pc, !.row = row]]
          PROVE  worker'[TheWorker].pc = pc
      <4>1. worker'[TheWorker] = [worker[TheWorker] EXCEPT !.pc = pc, !.row = row]
        BY <1>2, <3>2
      <4>2. DOMAIN worker[TheWorker] = {"pc", "job", "row"}
        BY <2>2 DEF Lifecycle!Engaged
      <4> QED BY <4>1, <4>2
    <3> QED BY <2>3, <3>1, <3>2
  <2> QED BY <1>6, <2>1, <2>4
<1>9. CASE Lifecycle!EnqueueAfter(TheWorker) \/ Lifecycle!MarkDeadLetter(TheWorker)
  <2>1. /\ worker[TheWorker].pc \in {"requeue", "decide"} /\ executions' = executions
        /\ worker' = [worker EXCEPT ![TheWorker] = Lifecycle!Idle]
    BY <1>9 DEF Lifecycle!EnqueueAfter, Lifecycle!MarkDeadLetter
  <2>2. worker'[TheWorker].pc = "poll"
    BY <1>2, <2>1 DEF Lifecycle!Idle
  <2> QED BY <1>6, <2>1, <2>2
<1>10. CASE Lifecycle!MarkAsyncRetry(TheWorker)
  <2>1. worker[TheWorker].pc = "decide" /\ executions' = executions
    BY <1>10 DEF Lifecycle!MarkAsyncRetry
  <2>2. worker[TheWorker] \in Lifecycle!Engaged
    BY <1>2, <2>1 DEF Lifecycle!Idle
  <2>3. worker'[TheWorker].pc = "requeue"
    BY <1>2, <1>10, <2>2 DEF Lifecycle!MarkAsyncRetry, Lifecycle!Engaged
  <2> QED BY <1>6, <2>1, <2>3
<1>11. CASE Lifecycle!Claim(TheWorker)
  <2> DEFINE r == worker[TheWorker].job.run
  <2>1. worker[TheWorker].pc = "claim" /\ executions' = [executions EXCEPT ![r] = @ + 1]
    BY <1>11 DEF Lifecycle!Claim
  <2>2. worker[TheWorker] # Lifecycle!Idle
    BY <2>1 DEF Lifecycle!Idle
  <2>3. worker[TheWorker] \in Lifecycle!Engaged /\ r \in Indexes(AsyncRuns)
    BY <2>2, WorkerFits
  <2>4. worker'[TheWorker].pc = "execute" /\ worker'[TheWorker].job = worker[TheWorker].job
    BY <1>2, <1>11, <2>3 DEF Lifecycle!Claim, Lifecycle!Engaged
  <2>5. \A q \in Indexes(AsyncRuns) : InExecution(q)' <=> q = r
    BY <2>4 DEF InExecution
  <2>6. \A q \in Indexes(AsyncRuns) : executions[q] = attempts[q] /\ attempts[q] \in Nat
    BY <2>1 DEF CallsCounted, InExecution
  <2> HIDE DEF r
  <2>7. \A q \in Indexes(AsyncRuns) :
            executions'[q] = IF q = r THEN executions[q] + 1 ELSE executions[q]
    BY <1>2, <2>1
  <2>8. \A q \in Indexes(AsyncRuns) :
            executions'[q] = attempts'[q] + (IF InExecution(q)' THEN 1 ELSE 0)
    BY <1>1, <2>5, <2>6, <2>7
  <2> QED BY <1>1, <2>8 DEF CallsCounted
<1> QED BY <1>4, <1>5, <1>7, <1>8, <1>9, <1>10, <1>11 DEF WorkerMove

\* The number of indexes.
LEMMA IndexesCounted ==
    ASSUME NEW n \in Nat
    PROVE  IsFiniteSet(Indexes(n)) /\ Cardinality(Indexes(n)) = n
<1>1. Indexes(n) = 0..(n - 1)
  BY DEF Indexes
<1>2. 0 \in Int /\ n - 1 \in Int
  OBVIOUS
<1>3. /\ IsFiniteSet(0..(n - 1))
      /\ Cardinality(0..(n - 1)) = IF 0 > n - 1 THEN 0 ELSE (n - 1) - 0 + 1
  BY <1>2, FS_Interval
<1> QED BY <1>1, <1>3

\* Every tenant has a document when all uploads are done.
LEMMA EveryTenantUploads ==
    ASSUME PoolInv, UploadsEnd, NEW t \in Indexes(Tenants)
    PROVE  documents'[t] > 0
<1> DEFINE n    == Tenants * DocsPerTenant
           mine == {i \in DOMAIN slot : slot[i] > 0 /\ TenantOf(i) = t}
<1>1. /\ Tenants \in Nat /\ Tenants > 0 /\ DocsPerTenant \in Nat /\ DocsPerTenant > 0
      /\ t \in Nat /\ t < Tenants
  BY OptionsAssumption DEF ValidOptions, Indexes
<1>2. n \in Nat /\ Tenants <= n
  BY <1>1
<1>3. Pool(n) /\ Waited /\ ~firstErr
  BY DEF UploadsEnd, PoolInv, PoolPhases, Total
<1>4. DOMAIN slot = Indexes(n)
  BY <1>3 DEF Pool, PoolTyped
<1>5. \A i \in DOMAIN slot : slot[i] = 1
  <2> HIDE DEF n
  <2>1. IndexesRunOnce
    BY <1>3, PoolRunsOnce
  <2> QED BY <1>3, <2>1 DEF IndexesRunOnce
<1>6. t \in DOMAIN slot
  <2> HIDE DEF n
  <2>1. t <= n /\ t < n
    BY <1>1, <1>2
  <2> QED BY <1>1, <1>2, <1>4, <2>1 DEF Indexes
<1>7. t % Tenants = t
  BY <1>1
<1>8. t \in mine
  BY <1>5, <1>6, <1>7 DEF TenantOf
<1>9. IsFiniteSet(mine)
  <2>1. IsFiniteSet(Indexes(n))
    BY <1>2, IndexesCounted
  <2>2. mine \in SUBSET Indexes(n)
    BY <1>4
  <2> QED BY <2>1, <2>2, FS_Subset
<1>10. Cardinality(mine) > 0
  <2> HIDE DEF mine
  <2>1. Cardinality(mine) \in Nat
    BY <1>9, FS_CardinalityType
  <2>2. Cardinality(mine) # 0
    BY <1>8, <1>9, FS_EmptySet
  <2> QED BY <2>1, <2>2
<1> QED BY <1>10 DEF UploadsEnd

\* Documents stay, and a run is submitted after the uploads only.
LEMMA UploadedStep ==
    ASSUME PoolInv, Handling, Uploaded, [Next]_vars
    PROVE  Uploaded'
<1>1. ASSUME documents' = documents,
             phase' \in {"create", "sync", "async", "poll", "done"} =>
                phase \in {"create", "sync", "async", "poll", "done"},
             phase = "async" \/ \A r \in Indexes(AsyncRuns) : api'[r] # "new" => api[r] # "new"
      PROVE  Uploaded'
  BY <1>1 DEF Uploaded
<1>2. CASE UploadsEnd
  BY <1>2, EveryTenantUploads DEF Uploaded
<1>3. CASE CreateWorkflows \/ SyncEnds \/ SubmissionsEnd \/ Report \/ Fails
  <2>1. documents' = documents /\ api' = api
    BY <1>3 DEF CreateWorkflows, SyncEnds, SubmissionsEnd, Report, Fails, results, service
  <2>2. \/ phase \in {"create", "sync", "async", "poll"}
        \/ phase' = "failed"
    BY <1>3 DEF CreateWorkflows, SyncEnds, SubmissionsEnd, Report, Fails
  <2> QED BY <1>1, <2>1, <2>2
<1>4. ASSUME ~MainStep, ~Fails
      PROVE  documents' = documents /\ phase' = phase
  BY <1>4 DEF Next, vars, ClientStep, CheckErr, TakeIndex, Call, Submit, Enqueue, EnqueueRefused,
              MarkEnqueueFailed, RecordErr, CallFails, PollRun, Promote, WorkerStep, Execute,
              Interrupt, results
<1>5. \/ phase = "async"
      \/ \A r \in Indexes(AsyncRuns) : api'[r] # "new" => api[r] # "new"
  <2>1. ASSUME NEW r, Lifecycle!Promote(r)
        PROVE  api' = api
    BY <2>1 DEF Lifecycle!Promote
  <2>2. ASSUME WorkerMove
        PROVE  api' = api
    BY <2>2 DEF WorkerMove, Lifecycle!Dequeue, Lifecycle!Inspect, Lifecycle!Claim,
                Lifecycle!MarkAsyncRetry, Lifecycle!EnqueueAfter, Lifecycle!MarkDeadLetter
  <2>3. ASSUME NEW r, Execute(r)
        PROVE  api' = api
    BY <2>3, WorkerActions DEF Execute, Lifecycle!JobFails, Lifecycle!JobCompletes
  <2>4. ASSUME UNCHANGED <<service, llm>>
        PROVE  api' = api
    BY <2>4 DEF service
  <2> QED BY <2>1, <2>2, <2>3, <2>4, ServiceMoves
<1> QED BY <1>1, <1>2, <1>3, <1>4, <1>5 DEF MainStep

-----------------------------------------------------------------------------
(* Samples and report. *)

Outcome(r) == [completed  |-> bucket[r] # "terminal",
               deadLetter |-> bucket[r] = "terminal",
               retried    |-> bucket[r] # "fine"]

\* A run that is no longer polled has the sample that its bucket asks for.
Polled ==
    phase \in {"poll", "done"} =>
        /\ DOMAIN samples = Indexes(AsyncRuns)
        /\ \A r \in Indexes(AsyncRuns) \ outstanding : samples[r] = Outcome(r)

\* The status that ends the polling tells the bucket, and the attempts with it.
LEMMA EndTellsBucket ==
    ASSUME MaxAttempts > 1, ServiceInv, RowsTell, CallsCounted,
           NEW r \in Indexes(AsyncRuns), Ends(runs[r].status)
    PROVE  Outcome(r) = [completed  |-> runs[r].status = "completed",
                         deadLetter |-> runs[r].status = "dead_letter",
                         retried    |-> runs[r].attempt > 1]
<1>1. ~InExecution(r)
  <2> SUFFICES ASSUME InExecution(r) PROVE FALSE
    OBVIOUS
  <2>1. worker[TheWorker].pc = "execute" /\ worker[TheWorker].job.run = r
    BY DEF InExecution
  <2>2. worker[TheWorker] # Lifecycle!Idle
    BY <2>1 DEF Lifecycle!Idle
  <2>3. Lifecycle!HeldFits(TheWorker)
    BY <2>2, WorkerFits
  <2>4. runs[r].status = "running"
    BY <2>1, <2>3 DEF Lifecycle!HeldFits
  <2> QED BY <2>4 DEF Ends
<1>2. runs[r].attempt = attempts[r] /\ attempts[r] \in Nat
  <2>1. runs[r].attempt = executions[r]
    BY DEF ServiceInv, Lifecycle!CountedInv, Lifecycle!AttemptsAreExecutions
  <2>2. executions[r] = attempts[r] + 0 /\ attempts[r] \in Nat
    BY <1>1 DEF CallsCounted
  <2> QED BY <2>1, <2>2
<1>3. RowTells(r) /\ bucket[r] \in Buckets /\ MaxAttempts \in Nat
  BY AttemptsAssumption DEF RowsTell
<1>4. CASE runs[r].status = "completed"
  <2>1. bucket[r] # "terminal" /\ attempts[r] = IF bucket[r] = "fine" THEN 1 ELSE 2
    BY <1>3, <1>4 DEF RowTells
  <2>2. runs[r].attempt > 1 <=> bucket[r] # "fine"
    BY <1>2, <2>1
  <2> QED BY <1>4, <2>1, <2>2 DEF Outcome
<1>5. CASE runs[r].status = "dead_letter"
  <2>1. attempts[r] = MaxAttempts /\ AllFailed(r)
    BY <1>2, <1>3, <1>5 DEF RowTells
  <2>2. bucket[r] = "terminal"
    BY <1>2, <1>3, <2>1 DEF AllFailed
  <2>3. runs[r].attempt > 1
    BY <1>2, <2>1
  <2> QED BY <1>5, <2>2, <2>3 DEF Outcome
<1> QED BY <1>4, <1>5 DEF Ends

\* A sample is taken when the status has ended.
LEMMA PolledStep ==
    ASSUME MaxAttempts > 1, ServiceInv, RowsTell, CallsCounted, Polled, [Next]_vars
    PROVE  Polled'
<1>1. ASSUME UNCHANGED <<outstanding, samples, bucket>>,
             phase' \in {"poll", "done"} => phase \in {"poll", "done"}
      PROVE  Polled'
  BY <1>1 DEF Polled, Outcome
<1>2. ASSUME NEW r \in Indexes(AsyncRuns), PollRun(r)
      PROVE  Polled'
  <2> DEFINE sample == [completed  |-> runs[r].status = "completed",
                        deadLetter |-> runs[r].status = "dead_letter",
                        retried    |-> runs[r].attempt > 1]
  <2>1. /\ phase = "poll" /\ phase' = phase /\ bucket' = bucket
        /\ Ends(runs[r].status) /\ outstanding' = outstanding \ {r}
        /\ samples' = [samples EXCEPT ![r] = sample]
    BY <1>2 DEF PollRun, llm
  <2>2. sample = Outcome(r)
    BY <2>1, EndTellsBucket
  <2> HIDE DEF sample
  <2>3. /\ DOMAIN samples' = Indexes(AsyncRuns) /\ samples'[r] = Outcome(r)
        /\ \A q \in Indexes(AsyncRuns) : q # r => samples'[q] = samples[q]
    BY <2>1, <2>2 DEF Polled
  <2>4. \A q \in Indexes(AsyncRuns) \ outstanding' : samples'[q] = Outcome(q)
    BY <2>1, <2>3 DEF Polled
  <2> QED BY <2>1, <2>3, <2>4 DEF Polled, Outcome
<1>3. CASE SubmissionsEnd
  BY <1>3 DEF SubmissionsEnd, Polled
<1>4. CASE UploadsEnd \/ CreateWorkflows \/ SyncEnds \/ Report \/ Fails
  <2>1. UNCHANGED <<outstanding, samples, bucket>>
    BY <1>4 DEF UploadsEnd, CreateWorkflows, SyncEnds, Report, Fails, results, llm
  <2>2. phase' \in {"poll", "done"} => phase \in {"poll", "done"}
    BY <1>4 DEF UploadsEnd, CreateWorkflows, SyncEnds, Report, Fails, StartPool
  <2> QED BY <1>1, <2>1, <2>2
<1>5. ASSUME ~MainStep, ~Fails, \A r \in Indexes(AsyncRuns) : ~PollRun(r)
      PROVE  UNCHANGED <<outstanding, samples, bucket>> /\ phase' = phase
  BY <1>5 DEF Next, vars, ClientStep, CheckErr, TakeIndex, Call, Submit, Enqueue, EnqueueRefused,
              MarkEnqueueFailed, RecordErr, CallFails, Promote, WorkerStep, Execute,
              Interrupt, results, llm
<1> QED BY <1>1, <1>2, <1>3, <1>4, <1>5 DEF MainStep

\* The runs of a phase fall into those that complete and those that do not.
LEMMA BucketsPartition ==
    ASSUME RowsTell
    PROVE  /\ Having({"fine", "transient"}) \in Nat /\ Having({"terminal"}) \in Nat
           /\ Having({"fine", "transient"}) + Having({"terminal"}) = AsyncRuns
<1> DEFINE all  == Indexes(AsyncRuns)
           good == {r \in all : bucket[r] \in {"fine", "transient"}}
           bad  == {r \in all : bucket[r] \in {"terminal"}}
<1>1. AsyncRuns \in Nat
  BY OptionsAssumption DEF ValidOptions
<1>2. IsFiniteSet(all) /\ Cardinality(all) = AsyncRuns
  BY <1>1, IndexesCounted
<1>3. good \in SUBSET all /\ bad \in SUBSET all /\ good \union bad = all /\ good \intersect bad = {}
  BY DEF RowsTell, Buckets
<1>4. Having({"fine", "transient"}) = Cardinality(good) /\ Having({"terminal"}) = Cardinality(bad)
  BY DEF Having
<1> HIDE DEF all, good, bad
<1>5. IsFiniteSet(good) /\ IsFiniteSet(bad)
  BY <1>2, <1>3, FS_Subset
<1>6. Cardinality(good) \in Nat /\ Cardinality(bad) \in Nat
  BY <1>5, FS_CardinalityType
<1>7. Cardinality(good \union bad) = Cardinality(good) + Cardinality(bad) - Cardinality(good \intersect bad)
  BY <1>5, FS_Union
<1>8. Cardinality(good \intersect bad) = 0
  BY <1>3, FS_EmptySet
<1>9. AsyncRuns = Cardinality(good) + Cardinality(bad)
  <2>1. AsyncRuns = Cardinality(good) + Cardinality(bad) - 0
    BY <1>2, <1>3, <1>7, <1>8
  <2> QED BY <1>6, <2>1
<1> QED BY <1>4, <1>6, <1>9

\* The report counts the samples, and every sample is right.
LEMMA ReportIsRight ==
    ASSUME RowsTell, Uploaded, Polled, Report
    PROVE  ReportTellsOutcome'
<1>1. /\ phase = "poll" /\ outstanding = {} /\ samples' = samples /\ bucket' = bucket
      /\ report' = [sync    |-> Summarize(SyncSamples), async |-> Summarize(samples),
                    overall |-> Overall(Summarize(SyncSamples), Summarize(samples))]
  BY DEF Report, llm
<1>2. SyncRuns \in Nat /\ AsyncRuns \in Nat
  BY OptionsAssumption DEF ValidOptions
<1>3. /\ DOMAIN samples = Indexes(AsyncRuns)
      /\ \A r \in Indexes(AsyncRuns) : samples[r] = Outcome(r) /\ bucket[r] \in Buckets
  BY <1>1 DEF Polled, RowsTell
<1>4. \A r \in Indexes(AsyncRuns) :
        /\ samples[r].completed <=> bucket[r] \in {"fine", "transient"}
        /\ samples[r].completed <=> bucket[r] # "terminal"
        /\ samples[r].deadLetter <=> bucket[r] \in {"terminal"}
        /\ samples[r].retried <=> bucket[r] \in {"transient", "terminal"}
  <2> SUFFICES ASSUME NEW r \in Indexes(AsyncRuns)
               PROVE  /\ samples[r].completed <=> bucket[r] \in {"fine", "transient"}
                      /\ samples[r].completed <=> bucket[r] # "terminal"
                      /\ samples[r].deadLetter <=> bucket[r] \in {"terminal"}
                      /\ samples[r].retried <=> bucket[r] \in {"transient", "terminal"}
    OBVIOUS
  <2>1. samples[r] = Outcome(r)
    BY <1>3
  <2>2. bucket[r] = "fine" \/ bucket[r] = "transient" \/ bucket[r] = "terminal"
    BY <1>3 DEF Buckets
  <2>3. CASE bucket[r] = "fine"
    <3>1. samples[r] = [completed |-> TRUE, deadLetter |-> FALSE, retried |-> FALSE]
      BY <2>1, <2>3 DEF Outcome
    <3> QED BY <2>3, <3>1
  <2>4. CASE bucket[r] = "transient"
    <3>1. samples[r] = [completed |-> TRUE, deadLetter |-> FALSE, retried |-> TRUE]
      BY <2>1, <2>4 DEF Outcome
    <3> QED BY <2>4, <3>1
  <2>5. CASE bucket[r] = "terminal"
    <3>1. samples[r] = [completed |-> FALSE, deadLetter |-> TRUE, retried |-> TRUE]
      BY <2>1, <2>5 DEF Outcome
    <3> QED BY <2>5, <3>1
  <2> QED BY <2>2, <2>3, <2>4, <2>5
<1>5. Summarize(samples) = [runs        |-> AsyncRuns,
                            completed   |-> Having({"fine", "transient"}),
                            deadLetters |-> Having({"terminal"}),
                            retried     |-> Having({"transient", "terminal"})]
  <2>1. Cardinality(DOMAIN samples) = AsyncRuns
    BY <1>2, <1>3, IndexesCounted
  <2>2. /\ {r \in DOMAIN samples : samples[r].completed}
             = {r \in Indexes(AsyncRuns) : bucket[r] \in {"fine", "transient"}}
        /\ {r \in DOMAIN samples : samples[r].deadLetter}
             = {r \in Indexes(AsyncRuns) : bucket[r] \in {"terminal"}}
        /\ {r \in DOMAIN samples : samples[r].retried}
             = {r \in Indexes(AsyncRuns) : bucket[r] \in {"transient", "terminal"}}
    BY <1>3, <1>4
  <2> QED BY <2>1, <2>2 DEF Summarize, Having
<1>6. Summarize(SyncSamples).completed = SyncRuns /\ Summarize(SyncSamples).deadLetters = 0
  <2>1. \A i \in Indexes(SyncRuns) : HasDocuments(i)
    <3>1. \A t \in Indexes(Tenants) : documents[t] > 0
      BY <1>1 DEF Uploaded
    <3> QED BY <3>1, TenantHasDocuments DEF Indexes
  <2>2. /\ DOMAIN SyncSamples = Indexes(SyncRuns)
        /\ \A i \in Indexes(SyncRuns) : SyncSamples[i].completed /\ ~SyncSamples[i].deadLetter
    BY <2>1 DEF SyncSamples, NoSample
  <2>3. /\ {i \in DOMAIN SyncSamples : SyncSamples[i].completed} = Indexes(SyncRuns)
        /\ {i \in DOMAIN SyncSamples : SyncSamples[i].deadLetter} = {}
    BY <2>2
  <2>4. Cardinality(Indexes(SyncRuns)) = SyncRuns /\ Cardinality({}) = 0
    BY <1>2, IndexesCounted, FS_EmptySet
  <2> QED BY <2>3, <2>4 DEF Summarize
<1>7. /\ report'.overall.completed = SyncRuns + Having({"fine", "transient"})
      /\ report'.overall.deadLetters = 0 + Having({"terminal"})
  <2> DEFINE one == Summarize(SyncSamples)
             all == Summarize(samples)
  <2>1. DOMAIN one = {"runs", "completed", "deadLetters", "retried"}
    BY DEF Summarize
  <2>2. report'.overall = Overall(one, all)
    BY <1>1
  <2>3. all.completed = Having({"fine", "transient"}) /\ all.deadLetters = Having({"terminal"})
    BY <1>5
  <2>4. one.completed = SyncRuns /\ one.deadLetters = 0
    BY <1>6
  <2> HIDE DEF one, all
  <2>5. Overall(one, all) = [count \in DOMAIN one |-> one[count] + all[count]]
    BY DEF Overall
  <2> QED BY <2>1, <2>2, <2>3, <2>4, <2>5
<1>8. report'.overall.completed + report'.overall.deadLetters = SyncRuns + AsyncRuns
  BY <1>2, <1>7, BucketsPartition
<1>9. report'.sync.completed = SyncRuns /\ report'.async = Summarize(samples)
  BY <1>1, <1>6
<1>10. \A b : Having(b)' = Having(b)
  BY <1>1 DEF Having
<1> QED BY <1>1, <1>4, <1>5, <1>8, <1>9, <1>10 DEF ReportTellsOutcome, Having

\* What is printed stays.
LEMMA ReportStays ==
    ASSUME ReportTellsOutcome, [Next]_vars, ~Report
    PROVE  ReportTellsOutcome'
<1>1. CASE phase' = "done"
  <2>1. phase = "done" /\ UNCHANGED <<report, samples, bucket>>
    BY <1>1 DEF Next, vars, ClientStep, CheckErr, TakeIndex, Call, Submit, Enqueue, EnqueueRefused,
              MarkEnqueueFailed, RecordErr, CallFails, PollRun, Promote, WorkerStep, Execute,
              Interrupt, Fails, MainStep, UploadsEnd, CreateWorkflows, SyncEnds, SubmissionsEnd,
              StartPool, results, llm
  <2> QED BY <2>1 DEF ReportTellsOutcome, Having
<1>2. CASE phase' # "done"
  BY <1>2 DEF ReportTellsOutcome
<1> QED BY <1>1, <1>2

\* What makes the report right.
BenchmarkInv ==
    /\ PoolInv /\ Handling
    /\ ServiceInv /\ CallsCounted /\ RowsTell
    /\ Uploaded /\ Polled /\ ReportTellsOutcome

\* Nothing has been called, uploaded or polled.
LEMMA BenchmarkInit == Init => BenchmarkInv
<1> SUFFICES ASSUME Init PROVE BenchmarkInv
  OBVIOUS
<1>1. PoolInv
  BY PoolInit
<1>2. /\ phase = "upload" /\ client = Started("upload") /\ Service!Init
      /\ attempts = [r \in Indexes(AsyncRuns) |-> 0]
      /\ bucket \in [Indexes(AsyncRuns) -> Buckets]
  BY DEF Init, Buckets
<1>3. Handling
  BY <1>2 DEF Handling, Started
<1>4. Lifecycle!Init
  BY <1>2 DEF Service!Init, Lifecycle!Init, Service!Absent, Lifecycle!Absent, Service!Idle,
              Lifecycle!Idle, Service!Waiting, Lifecycle!Waiting
<1>5. Lifecycle!CountedInv
  BY <1>4, ServiceAssumed, Lifecycle!InitCounted
<1>6. /\ unacked = {} /\ executions = [r \in Indexes(AsyncRuns) |-> 0]
      /\ runs = [r \in Indexes(AsyncRuns) |-> Lifecycle!Absent]
      /\ api = [r \in Indexes(AsyncRuns) |-> "new"]
      /\ worker = [w \in {TheWorker} |-> Lifecycle!Idle]
  BY <1>4 DEF Lifecycle!Init
<1>7. ServiceInv
  BY <1>5, <1>6 DEF ServiceInv
<1>8. CallsCounted
  BY <1>2, <1>6 DEF CallsCounted, InExecution, Lifecycle!Idle
<1>9. RowsTell
  BY <1>2, <1>6 DEF RowsTell, RowTells, AllFailed, Lifecycle!Absent
<1>10. Uploaded /\ Polled /\ ReportTellsOutcome
  BY <1>2, <1>6 DEF Uploaded, Polled, ReportTellsOutcome
<1> QED BY <1>1, <1>3, <1>7, <1>8, <1>9, <1>10 DEF BenchmarkInv

\* Each step keeps the benchmark right.
LEMMA BenchmarkStep == MaxAttempts > 1 /\ BenchmarkInv /\ [Next]_vars => BenchmarkInv'
<1> SUFFICES ASSUME MaxAttempts > 1, BenchmarkInv, [Next]_vars PROVE BenchmarkInv'
  OBVIOUS
<1>0. /\ PoolInv /\ Handling /\ ServiceInv /\ CallsCounted /\ RowsTell
      /\ Uploaded /\ Polled /\ ReportTellsOutcome
  BY DEF BenchmarkInv
<1>1. PoolInv' /\ Handling' /\ ServiceInv'
  BY <1>0, PoolNext, HandlingStep, ServiceStep
<1>2. CallsCounted' /\ RowsTell'
  <2>1. CASE UNCHANGED <<service, llm>>
    <3>1. runs' = runs /\ UNCHANGED llm /\ UNCHANGED service
      BY <2>1 DEF service
    <3> QED BY <1>0, <3>1, CallsLeft, RowsLeft
  <2>2. ASSUME NEW r \in Indexes(AsyncRuns), RequestMove(r), UNCHANGED llm
        PROVE  CallsCounted' /\ RowsTell'
    BY <1>0, <2>2, CallsLeft, RequestRows
  <2>3. ASSUME NEW r \in Indexes(AsyncRuns), Lifecycle!Promote(r), UNCHANGED llm
        PROVE  CallsCounted' /\ RowsTell'
    <3>1. runs' = runs
      BY <2>3 DEF Lifecycle!Promote, Lifecycle!repo
    <3> QED BY <1>0, <2>3, <3>1, CallsLeft, RowsLeft
  <2>4. ASSUME WorkerMove, UNCHANGED llm
        PROVE  CallsCounted' /\ RowsTell'
    BY <1>0, <2>4, CallsLeft, WorkerRows
  <2>5. ASSUME NEW r \in Indexes(AsyncRuns), Execute(r)
        PROVE  CallsCounted' /\ RowsTell'
    BY <1>0, <2>5, ExecuteRows
  <2> QED BY <1>0, <2>1, <2>2, <2>3, <2>4, <2>5, ServiceMoves
<1>3. Uploaded' /\ Polled'
  BY <1>0, UploadedStep, PolledStep
<1>4. ReportTellsOutcome'
  BY <1>0, ReportIsRight, ReportStays
<1> QED BY <1>1, <1>2, <1>3, <1>4 DEF BenchmarkInv

\* What runBenchmark prints is what its options asked for, for any number of tenants, runs
\* and goroutines and any assignment of prompts to stableBucket's three outcomes, wherever
\* calls fail or the benchmark is interrupted - if a run has more than one attempt: with one
\* alone, a transient failure ends in the dead-letter bucket.
THEOREM ReportsAreRight ==
    ASSUME MaxAttempts > 1
    PROVE  Spec => []ReportTellsOutcome
<1>1. BenchmarkInv /\ [Next]_vars => BenchmarkInv'
  BY BenchmarkStep
<1>2. BenchmarkInv => ReportTellsOutcome
  BY DEF BenchmarkInv
<1> QED BY <1>1, <1>2, BenchmarkInit, PTL DEF Spec
================================================================================
