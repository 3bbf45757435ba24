--------------------------- MODULE RedisQueueProofs ---------------------------
(***************************************************************************)
(* Proofs about RedisQueue, for every set of runs and workers, every batch *)
(* and buffer, and any number of broken connections.  Whatever the workers *)
(* do between two commands, the job of a run is in one place: the list,    *)
(* the sorted set, or the hands of the one worker whose ZREM removed it or *)
(* whose BRPOP returned it.  Batches are lists of jobs that may be stale.  *)
(***************************************************************************)
EXTENDS RedisQueue, SequenceTheorems, WellFoundedInduction, TLAPS

-----------------------------------------------------------------------------
(* Sequences. *)

\* What removing one element leaves.
LEMMA RemoveAtProperties ==
    ASSUME NEW S, NEW s \in Seq(S), NEW i \in 1..Len(s)
    PROVE  /\ RemoveAt(s, i) \in Seq(S)
           /\ Len(RemoveAt(s, i)) = Len(s) - 1
           /\ \A k \in 1..(Len(s) - 1) :
                RemoveAt(s, i)[k] = IF k < i THEN s[k] ELSE s[k + 1]
<1> DEFINE a == SubSeq(s, 1, i - 1)
           b == SubSeq(s, i + 1, Len(s))
<1>0. Len(s) \in Nat /\ i - 1 \in Int /\ i + 1 \in Int
  BY LenProperties
<1>1. /\ a \in Seq(S)
      /\ Len(a) = IF 1 <= i - 1 THEN i - 1 - 1 + 1 ELSE 0
      /\ \A k \in 1..(i - 1 - 1 + 1) : a[k] = s[1 + k - 1]
  <2>1. \A k \in 1..(i - 1) : s[k] \in S
    BY <1>0, ElementOfSeq
  <2> QED BY <1>0, <2>1, SubSeqProperties
<1>2. /\ b \in Seq(S)
      /\ Len(b) = IF i + 1 <= Len(s) THEN Len(s) - (i + 1) + 1 ELSE 0
      /\ \A k \in 1..(Len(s) - (i + 1) + 1) : b[k] = s[i + 1 + k - 1]
  <2>1. \A k \in (i + 1)..Len(s) : s[k] \in S
    BY <1>0, ElementOfSeq
  <2> QED BY <1>0, <2>1, SubSeqProperties
<1>3. Len(a) = i - 1 /\ Len(b) = Len(s) - i
  BY <1>0, <1>1, <1>2
<1>4. /\ a \o b \in Seq(S)
      /\ Len(a \o b) = Len(a) + Len(b)
      /\ \A k \in 1..(Len(a) + Len(b)) :
            (a \o b)[k] = IF k <= Len(a) THEN a[k] ELSE b[k - Len(a)]
  BY <1>1, <1>2, ConcatProperties
<1>5. RemoveAt(s, i) = a \o b
  BY DEF RemoveAt
<1> HIDE DEF a, b
<1>6. ASSUME NEW k \in 1..(Len(s) - 1)
      PROVE  (a \o b)[k] = IF k < i THEN s[k] ELSE s[k + 1]
  <2>1. CASE k < i
    BY <1>0, <1>1, <1>3, <1>4, <2>1
  <2>2. CASE ~(k < i)
    <3>1. k - (i - 1) \in 1..(Len(s) - (i + 1) + 1) /\ ~(k <= Len(a))
      BY <1>0, <1>3, <2>2
    <3>2. b[k - (i - 1)] = s[i + 1 + (k - (i - 1)) - 1]
      BY <1>2, <3>1
    <3>3. i + 1 + (k - (i - 1)) - 1 = k + 1 /\ k \in 1..(Len(a) + Len(b))
      BY <1>0, <1>3
    <3> QED BY <1>3, <1>4, <2>2, <3>1, <3>2, <3>3
  <2> QED BY <2>1, <2>2
<1>7. Len(a \o b) = Len(s) - 1
  BY <1>0, <1>3, <1>4
<1> QED BY <1>4, <1>5, <1>6, <1>7

\* RemoveFirst takes one element out, at some place where it is.
LEMMA RemoveFirstPicks ==
    ASSUME NEW S, NEW s \in Seq(S), NEW e
    PROVE  /\ e \notin ToSet(s) => RemoveFirst(s, e) = s
           /\ e \in ToSet(s) => \E i \in 1..Len(s) : s[i] = e /\ RemoveFirst(s, e) = RemoveAt(s, i)
<1>1. DOMAIN s = 1..Len(s) /\ Len(s) \in Nat
  BY LenProperties
<1>2. e \in ToSet(s) <=> \E i \in 1..Len(s) : s[i] = e
  BY <1>1 DEF ToSet
<1>3. ASSUME e \notin ToSet(s)
      PROVE  RemoveFirst(s, e) = s
  BY <1>2, <1>3 DEF RemoveFirst
<1>4. ASSUME e \in ToSet(s)
      PROVE  \E i \in 1..Len(s) : s[i] = e /\ RemoveFirst(s, e) = RemoveAt(s, i)
  <2> DEFINE I == {i \in 1..Len(s) : s[i] = e}
  <2>1. I # {} /\ I \subseteq Nat
    BY <1>2, <1>4
  <2>2. \E x \in I : \A y \in I : x <= y
    <3> HIDE DEF I
    <3>1. PICK x \in I : \A y \in I : ~(<<y, x>> \in OpToRel(<, Nat))
      BY <2>1, NatLessThanWellFounded, WFMin
    <3>2. \A y \in I : ~(y < x)
      BY <2>1, <3>1 DEF OpToRel
    <3> QED BY <2>1, <3>2
  <2>3. Min(I) \in I
    <3> HIDE DEF I
    <3> QED BY <2>2 DEF Min
  <2>4. RemoveFirst(s, e) = RemoveAt(s, Min(I))
    BY <1>2, <1>4, <2>1 DEF RemoveFirst, SelectInSeq
  <2> QED BY <2>3, <2>4
<1> QED BY <1>3, <1>4

InSeq(s, r) == \E k \in 1..Len(s) : s[k].run = r
Unique(s)   == \A i, k \in 1..Len(s) : s[i].run = s[k].run => i = k

\* The runs of a queue, after a push, a pop and a removal.
LEMMA RunsOfAppend ==
    ASSUME NEW s \in Seq(Jobs), NEW j \in Jobs
    PROVE  /\ \A r : InSeq(Append(s, j), r) <=> InSeq(s, r) \/ j.run = r
           /\ Unique(s) /\ ~InSeq(s, j.run) => Unique(Append(s, j))
<1> DEFINE t == Append(s, j)
<1>1. /\ Len(s) \in Nat /\ Len(t) = Len(s) + 1
      /\ \A i \in 1..Len(s) : t[i] = s[i]
      /\ t[Len(s) + 1] = j
  BY LenProperties, AppendProperties
<1> HIDE DEF t
<1>2. \A k : k \in 1..(Len(s) + 1) <=> k \in 1..Len(s) \/ k = Len(s) + 1
  BY <1>1
<1>3. \A r : InSeq(t, r) <=> InSeq(s, r) \/ j.run = r
  BY <1>1, <1>2 DEF InSeq
<1>4. Unique(s) /\ ~InSeq(s, j.run) => Unique(t)
  BY <1>1, <1>2 DEF InSeq, Unique
<1> QED BY <1>3, <1>4 DEF t

LEMMA RunsOfTail ==
    ASSUME NEW s \in Seq(Jobs), s # <<>>, Unique(s)
    PROVE  /\ Head(s) \in Jobs
           /\ InSeq(s, Head(s).run)
           /\ \A r : InSeq(Tail(s), r) <=> InSeq(s, r) /\ r # Head(s).run
           /\ Unique(Tail(s))
<1> DEFINE t == Tail(s)
<1>0. Len(s) \in Nat \ {0}
  BY EmptySeq
<1>1. /\ Len(t) = Len(s) - 1
      /\ \A i \in 1..(Len(s) - 1) : t[i] = s[i + 1]
      /\ Head(s) \in Jobs
  BY HeadTailProperties
<1>2. Head(s) = s[1]
  BY <1>0
<1> HIDE DEF t
<1>3. InSeq(s, Head(s).run)
  BY <1>0, <1>2 DEF InSeq
<1>4. ASSUME NEW r
      PROVE  InSeq(t, r) <=> InSeq(s, r) /\ r # Head(s).run
  <2>1. ASSUME InSeq(t, r)
        PROVE  InSeq(s, r) /\ r # Head(s).run
    <3>1. PICK k \in 1..(Len(s) - 1) : t[k].run = r
      BY <1>1, <2>1 DEF InSeq
    <3>2. k + 1 \in 1..Len(s) /\ 1 \in 1..Len(s) /\ k + 1 # 1 /\ s[k + 1].run = r
      BY <1>0, <1>1, <3>1
    <3> QED BY <1>2, <3>2 DEF InSeq, Unique
  <2>2. ASSUME InSeq(s, r), r # Head(s).run
        PROVE  InSeq(t, r)
    <3>1. PICK k \in 1..Len(s) : s[k].run = r
      BY <2>2 DEF InSeq
    <3>2. k # 1
      BY <1>2, <2>2, <3>1
    <3>3. k - 1 \in 1..(Len(s) - 1) /\ k - 1 + 1 = k
      BY <1>0, <3>2
    <3> QED BY <1>1, <3>1, <3>3 DEF InSeq
  <2> QED BY <2>1, <2>2
<1>5. Unique(t)
  <2> SUFFICES ASSUME NEW i \in 1..(Len(s) - 1), NEW k \in 1..(Len(s) - 1), t[i].run = t[k].run
               PROVE  i = k
    BY <1>1 DEF Unique
  <2>1. i + 1 \in 1..Len(s) /\ k + 1 \in 1..Len(s)
    BY <1>0
  <2>2. i + 1 = k + 1
    BY <1>1, <2>1 DEF Unique
  <2> QED BY <1>0, <2>2
<1> QED BY <1>1, <1>3, <1>4, <1>5 DEF t

LEMMA RunsOfRemoval ==
    ASSUME NEW s \in Seq(Jobs), NEW m \in 1..Len(s), Unique(s)
    PROVE  /\ \A r : InSeq(RemoveAt(s, m), r) <=> InSeq(s, r) /\ r # s[m].run
           /\ Unique(RemoveAt(s, m))
<1> DEFINE t == RemoveAt(s, m)
<1>0. Len(s) \in Nat
  BY LenProperties
<1>1. /\ Len(t) = Len(s) - 1
      /\ \A k \in 1..(Len(s) - 1) : t[k] = IF k < m THEN s[k] ELSE s[k + 1]
  BY RemoveAtProperties
<1> HIDE DEF t
<1> DEFINE at(k) == IF k < m THEN k ELSE k + 1
<1>2. ASSUME NEW k \in 1..(Len(s) - 1)
      PROVE  at(k) \in 1..Len(s) /\ at(k) # m /\ t[k] = s[at(k)]
  BY <1>0, <1>1
<1>3. ASSUME NEW i \in 1..(Len(s) - 1), NEW k \in 1..(Len(s) - 1), at(i) = at(k)
      PROVE  i = k
  BY <1>0, <1>3
<1>4. ASSUME NEW k \in 1..Len(s), k # m
      PROVE  \E i \in 1..(Len(s) - 1) : at(i) = k
  <2>1. CASE k < m
    <3>1. k \in 1..(Len(s) - 1) /\ at(k) = k
      BY <1>0, <2>1
    <3> QED BY <3>1
  <2>2. CASE k > m
    <3>1. k - 1 \in 1..(Len(s) - 1) /\ ~(k - 1 < m) /\ k - 1 + 1 = k
      BY <1>0, <2>2
    <3> QED BY <3>1
  <2> QED BY <1>0, <1>4, <2>1, <2>2
<1> HIDE DEF at
<1>5. ASSUME NEW r
      PROVE  InSeq(t, r) <=> InSeq(s, r) /\ r # s[m].run
  <2>1. ASSUME InSeq(t, r)
        PROVE  InSeq(s, r) /\ r # s[m].run
    <3>1. PICK k \in 1..(Len(s) - 1) : t[k].run = r
      BY <1>1, <2>1 DEF InSeq
    <3>2. at(k) \in 1..Len(s) /\ at(k) # m /\ s[at(k)].run = r
      BY <1>2, <3>1
    <3> QED BY <3>2 DEF InSeq, Unique
  <2>2. ASSUME InSeq(s, r), r # s[m].run
        PROVE  InSeq(t, r)
    <3>1. PICK k \in 1..Len(s) : s[k].run = r
      BY <2>2 DEF InSeq
    <3>2. PICK i \in 1..(Len(s) - 1) : at(i) = k
      BY <1>4, <2>2, <3>1
    <3> QED BY <1>1, <1>2, <3>1, <3>2 DEF InSeq
  <2> QED BY <2>1, <2>2
<1>6. Unique(t)
  <2> SUFFICES ASSUME NEW i \in 1..(Len(s) - 1), NEW k \in 1..(Len(s) - 1), t[i].run = t[k].run
               PROVE  i = k
    BY <1>1 DEF Unique
  <2>1. at(i) \in 1..Len(s) /\ at(k) \in 1..Len(s) /\ s[at(i)].run = s[at(k)].run
    BY <1>2
  <2>2. at(i) = at(k)
    BY <2>1 DEF Unique
  <2> QED BY <1>3, <2>2
<1> QED BY <1>5, <1>6 DEF t

-----------------------------------------------------------------------------
(* The invariant. *)

\* The job a client has in its hands, between ZREM and LPUSH or since BRPOP.
HasJob(e) == e.pc \in {"push", "hold"}
JobOf(e)  == IF e.pc = "push" THEN Head(e.batch) ELSE e.job

InLater(r) == \E j \in later : j.run = r
InHand(r)  == \E w \in Workers : HasJob(client[w]) /\ JobOf(client[w]).run = r

LaterUnique == \A j, k \in later : j.run = k.run => j = k
HandsUnique ==
    \A v, w \in Workers :
        /\ HasJob(client[v]) /\ HasJob(client[w])
        /\ JobOf(client[v]).run = JobOf(client[w]).run
        => v = w

\* The job of a run is in one place.
Apart(r) ==
    /\ r \in fresh => ~InSeq(list, r) /\ ~InLater(r) /\ ~InSeq(due, r) /\ ~InHand(r)
    /\ InSeq(list, r) => ~InLater(r) /\ ~InSeq(due, r) /\ ~InHand(r)
    /\ InLater(r) => ~InSeq(due, r) /\ ~InHand(r)
    /\ InSeq(due, r) => ~InHand(r)

OnePlace ==
    /\ TypeOK
    /\ Unique(list) /\ Unique(due) /\ LaterUnique /\ HandsUnique
    /\ \A r \in Runs : Apart(r)

\* One client's step changes the hands of no other.
LEMMA ClientTyped ==
    ASSUME TypeOK, NEW w \in Workers, NEW e \in Clients, client' = [client EXCEPT ![w] = e]
    PROVE  /\ client' \in [Workers -> Clients]
           /\ client'[w] = e /\ \A v \in Workers : v # w => client'[v] = client[v]
<1>1. client \in [Workers -> Clients]
  BY DEF TypeOK
<1> QED BY <1>1

LEMMA EmptyHands ==
    ASSUME TypeOK, HandsUnique, NEW w \in Workers, NEW e \in Clients,
           client' = [client EXCEPT ![w] = e], ~HasJob(e)
    PROVE  /\ HandsUnique'
           /\ \A r : InHand(r)' <=> InHand(r) /\ ~(HasJob(client[w]) /\ JobOf(client[w]).run = r)
<1>1. client'[w] = e /\ \A v \in Workers : v # w => client'[v] = client[v]
  BY ClientTyped
<1>2. HandsUnique'
  BY <1>1 DEF HandsUnique
<1>3. \A r : InHand(r)' => InHand(r) /\ ~(HasJob(client[w]) /\ JobOf(client[w]).run = r)
  BY <1>1 DEF HandsUnique, InHand
<1>4. \A r : InHand(r) /\ ~(HasJob(client[w]) /\ JobOf(client[w]).run = r) => InHand(r)'
  BY <1>1 DEF InHand
<1> QED BY <1>2, <1>3, <1>4

LEMMA FullHands ==
    ASSUME TypeOK, HandsUnique, NEW w \in Workers, NEW e \in Clients,
           client' = [client EXCEPT ![w] = e], HasJob(e), ~HasJob(client[w]),
           ~InHand(JobOf(e).run)
    PROVE  /\ HandsUnique'
           /\ \A r : InHand(r)' <=> InHand(r) \/ r = JobOf(e).run
<1>1. client'[w] = e /\ \A v \in Workers : v # w => client'[v] = client[v]
  BY ClientTyped
<1>2. HandsUnique'
  BY <1>1 DEF HandsUnique, InHand
<1>3. \A r : InHand(r)' => InHand(r) \/ r = JobOf(e).run
  BY <1>1 DEF InHand
<1>4. \A r : InHand(r) \/ r = JobOf(e).run => InHand(r)'
  BY <1>1 DEF InHand
<1> QED BY <1>2, <1>3, <1>4

\* What a client has is a job, and what it moves on to is a state of a client.
LEMMA ClientStates ==
    ASSUME TypeOK, NEW w \in Workers
    PROVE  /\ client[w].pc \in {"remove", "push", "cut"} =>
                /\ client[w].batch \in Seq(Jobs) /\ client[w].batch # <<>>
                /\ Head(client[w].batch) \in Jobs
                /\ client[w] = [pc |-> client[w].pc, batch |-> client[w].batch]
                /\ AfterBatch(Tail(client[w].batch)) \in Clients
                /\ ~HasJob(AfterBatch(Tail(client[w].batch)))
           /\ client[w].pc = "hold" => client[w].job \in Jobs
           /\ HasJob(client[w]) => JobOf(client[w]) \in Jobs
           /\ Idle \in Clients /\ ~HasJob(Idle)
           /\ client[w].pc \in {"idle", "range", "pop", "remove", "push", "cut", "hold"}
<1>1. client[w] \in Clients
  BY DEF TypeOK
<1>2. Idle \in Clients /\ ~HasJob(Idle)
  BY DEF Clients, Idle, HasJob
<1>3. client[w].pc \in {"idle", "range", "pop", "remove", "push", "cut", "hold"}
  BY <1>1 DEF Clients, Idle
<1>4. ASSUME client[w].pc \in {"remove", "push", "cut"}
      PROVE  /\ client[w].batch \in Seq(Jobs) /\ client[w].batch # <<>>
             /\ Head(client[w].batch) \in Jobs
             /\ client[w] = [pc |-> client[w].pc, batch |-> client[w].batch]
             /\ AfterBatch(Tail(client[w].batch)) \in Clients
             /\ ~HasJob(AfterBatch(Tail(client[w].batch)))
  <2>1. client[w] \in [pc: {"remove", "push", "cut"}, batch: Seq(Jobs) \ {<<>>}]
    BY <1>1, <1>4 DEF Clients, Idle
  <2>2. /\ client[w].batch \in Seq(Jobs) /\ client[w].batch # <<>>
        /\ client[w] = [pc |-> client[w].pc, batch |-> client[w].batch]
    BY <2>1
  <2>3. Head(client[w].batch) \in Jobs /\ Tail(client[w].batch) \in Seq(Jobs)
    BY <2>2, HeadTailProperties
  <2>4. /\ AfterBatch(Tail(client[w].batch)) \in Clients
        /\ ~HasJob(AfterBatch(Tail(client[w].batch)))
    <3>1. PICK rest \in Seq(Jobs) : rest = Tail(client[w].batch)
      BY <2>3
    <3>2. CASE rest = <<>>
      <4>1. AfterBatch(rest) = [pc |-> "range"]
        BY <3>2 DEF AfterBatch
      <4> QED BY <3>1, <4>1 DEF Clients, HasJob
    <3>3. CASE rest # <<>>
      <4>1. AfterBatch(rest) = [pc |-> "remove", batch |-> rest]
        BY <3>3 DEF AfterBatch
      <4>2. [pc |-> "remove", batch |-> rest] \in [pc: {"remove", "push", "cut"}, batch: Seq(Jobs) \ {<<>>}]
        BY <3>3
      <4> QED BY <3>1, <4>1, <4>2 DEF Clients, HasJob
    <3> QED BY <3>2, <3>3
  <2> QED BY <2>2, <2>3, <2>4
<1>5. client[w].pc = "hold" => client[w].job \in Jobs
  BY <1>1 DEF Clients, Idle
<1>6. HasJob(client[w]) => JobOf(client[w]) \in Jobs
  BY <1>4, <1>5 DEF HasJob, JobOf
<1> QED BY <1>2, <1>3, <1>4, <1>5, <1>6

\* ZREM takes the job out of the sorted set, wherever it is, and leaves the rest.
LEMMA ZremRemoves ==
    ASSUME OnePlace, NEW j \in Jobs, Zrem(j)
    PROVE  /\ later' \subseteq Jobs /\ due' \in Seq(Jobs)
           /\ LaterUnique' /\ Unique(due')
           /\ later' \union ToSet(due') = (later \union ToSet(due)) \ {j}
           /\ \A r : InLater(r)' => InLater(r) /\ ~(r = j.run /\ InSortedSet(j))
           /\ \A r : InSeq(due', r) => InSeq(due, r) /\ ~(r = j.run /\ InSortedSet(j))
           /\ InSortedSet(j) => InLater(j.run) \/ InSeq(due, j.run)
           /\ ~InSortedSet(j) => later' = later /\ due' = due
<1>0. /\ later \subseteq Jobs /\ due \in Seq(Jobs) /\ Unique(due) /\ LaterUnique
      /\ j.run \in Runs /\ Apart(j.run)
  BY DEF OnePlace, TypeOK, Jobs
<1>1. later' = later \ {j} /\ due' = RemoveFirst(due, j)
  BY DEF Zrem
<1>2. /\ \A x : x \in ToSet(due) <=> \E i \in 1..Len(due) : due[i] = x
      /\ Len(due) \in Nat
  BY <1>0, LenProperties DEF ToSet
<1>3. later' \subseteq Jobs /\ LaterUnique'
  BY <1>0, <1>1 DEF LaterUnique
<1>4. CASE j \in ToSet(due)
  <2>1. PICK i \in 1..Len(due) : due[i] = j /\ due' = RemoveAt(due, i)
    BY <1>0, <1>1, <1>4, RemoveFirstPicks
  <2>2. due' \in Seq(Jobs)
    BY <1>0, <2>1, RemoveAtProperties
  <2>3. /\ \A r : InSeq(due', r) <=> InSeq(due, r) /\ r # j.run
        /\ Unique(due')
    BY <1>0, <2>1, RunsOfRemoval
  <2>4. InSeq(due, j.run)
    BY <2>1 DEF InSeq
  <2>5. j \notin later /\ ~InLater(j.run)
    BY <1>0, <2>4 DEF Apart, InLater
  <2>6. \A r : InLater(r)' <=> InLater(r)
    BY <1>1, <2>5 DEF InLater
  <2>7. ToSet(due') = ToSet(due) \ {j}
    <3>1. /\ Len(due') = Len(due) - 1
          /\ \A k \in 1..(Len(due) - 1) : due'[k] = IF k < i THEN due[k] ELSE due[k + 1]
      BY <1>0, <2>1, RemoveAtProperties
    <3>2. \A x : x \in ToSet(due') <=> \E k \in 1..Len(due') : due'[k] = x
      BY <2>2, LenProperties DEF ToSet
    <3>3. ASSUME NEW x \in ToSet(due')
          PROVE  x \in ToSet(due) \ {j}
      <4>1. PICK k \in 1..(Len(due) - 1) : due'[k] = x
        BY <3>1, <3>2
      <4>2. PICK m \in 1..Len(due) : m # i /\ due'[k] = due[m]
        <5>1. k \in 1..Len(due) /\ k + 1 \in 1..Len(due)
          BY <1>2
        <5>2. CASE k < i
          BY <3>1, <5>1, <5>2
        <5>3. CASE ~(k < i)
          BY <3>1, <5>1, <5>3
        <5> QED BY <5>2, <5>3
      <4>3. x # j
        BY <1>0, <2>1, <4>1, <4>2 DEF Unique
      <4> QED BY <1>2, <4>1, <4>2, <4>3
    <3>4. ASSUME NEW x \in ToSet(due) \ {j}
          PROVE  x \in ToSet(due')
      <4>1. PICK m \in 1..Len(due) : due[m] = x
        BY <1>2
      <4>2. m # i
        BY <2>1, <4>1
      <4>3. CASE m < i
        <5>1. m \in 1..(Len(due) - 1)
          BY <1>2, <4>3
        <5> QED BY <3>1, <3>2, <4>1, <4>3, <5>1
      <4>4. CASE m > i
        <5>1. m - 1 \in 1..(Len(due) - 1) /\ ~(m - 1 < i) /\ m - 1 + 1 = m
          BY <1>2, <4>4
        <5>2. due'[m - 1] = x
          BY <3>1, <4>1, <5>1
        <5> QED BY <3>1, <3>2, <5>1, <5>2
      <4> QED BY <4>2, <4>3, <4>4
    <3> QED BY <3>3, <3>4
  <2>8. later' = later
    BY <1>1, <2>5
  <2> QED BY <1>3, <1>4, <2>2, <2>3, <2>4, <2>5, <2>6, <2>7, <2>8 DEF InSortedSet
<1>5. CASE j \notin ToSet(due)
  <2>1. due' = due
    BY <1>0, <1>1, <1>5, RemoveFirstPicks
  <2>2. \A r : InLater(r)' => InLater(r) /\ ~(r = j.run /\ j \in later)
    BY <1>0, <1>1 DEF InLater, LaterUnique
  <2>3. j \in later => InLater(j.run) /\ ~InSeq(due, j.run)
    BY <1>0 DEF Apart, InLater
  <2>4. later' \union ToSet(due') = (later \union ToSet(due)) \ {j}
    BY <1>1, <1>5, <2>1
  <2> QED BY <1>0, <1>1, <1>3, <1>5, <2>1, <2>2, <2>3, <2>4 DEF InSortedSet
<1> QED BY <1>4, <1>5

-----------------------------------------------------------------------------
(* Every step keeps the job of a run in one place. *)

\* Nothing is anywhere at first.
LEMMA OnePlaceInit == Init => OnePlace
<1> SUFFICES ASSUME Init PROVE OnePlace
  OBVIOUS
<1>1. TypeOK
  BY SwitchAssumption DEF Init, TypeOK, Clients
<1>2. Len(list) = 0 /\ Len(due) = 0 /\ later = {}
  BY DEF Init
<1>3. \A r : ~InSeq(list, r) /\ ~InSeq(due, r) /\ ~InLater(r)
  BY <1>2 DEF InSeq, InLater
<1>4. \A w \in Workers : ~HasJob(client[w])
  BY DEF Init, Idle, HasJob
<1>5. HandsUnique /\ \A r : ~InHand(r)
  BY <1>4 DEF HandsUnique, InHand
<1>6. Unique(list) /\ Unique(due) /\ LaterUnique
  BY <1>2 DEF Unique, LaterUnique
<1> QED BY <1>1, <1>3, <1>5, <1>6 DEF OnePlace, Apart

\* A first job is that of a run that is nowhere.
LEMMA OnePlaceEnqueue ==
    ASSUME OnePlace, NEW r \in Runs, Enqueue(r)
    PROVE  OnePlace'
<1>0. PICK j \in Jobs : j = [run |-> r, attempt |-> 0] /\ j.run = r
  <2>1. 0 \in 0..(MaxAttempts - 1)
    BY MaxAttemptsAssumption
  <2>2. [run |-> r, attempt |-> 0] \in Jobs
    BY <2>1 DEF Jobs
  <2> QED BY <2>2
<1>1. /\ r \in fresh /\ fresh' = fresh \ {r} /\ list' = Append(list, j)
      /\ later' = later /\ due' = due /\ client' = client /\ breaks' = breaks
  BY <1>0 DEF Enqueue
<1>2. TypeOK /\ Unique(list) /\ Unique(due) /\ LaterUnique /\ HandsUnique /\ \A q \in Runs : Apart(q)
  BY DEF OnePlace
<1>3. ~InSeq(list, r) /\ ~InLater(r) /\ ~InSeq(due, r) /\ ~InHand(r)
  BY <1>1, <1>2 DEF Apart
<1>4. list \in Seq(Jobs)
  BY <1>2 DEF TypeOK
<1>5. list' \in Seq(Jobs) /\ Unique(list') /\ \A q : InSeq(list', q) <=> InSeq(list, q) \/ q = r
  BY <1>0, <1>1, <1>2, <1>3, <1>4, RunsOfAppend, AppendProperties
<1>6. TypeOK'
  BY <1>1, <1>2, <1>5 DEF TypeOK
<1>7. \A q : (InLater(q)' <=> InLater(q)) /\ (InHand(q)' <=> InHand(q))
  BY <1>1 DEF InLater, InHand
<1>8. LaterUnique' /\ HandsUnique' /\ Unique(due')
  BY <1>1, <1>2 DEF LaterUnique, HandsUnique
<1>9. ASSUME NEW q \in Runs PROVE Apart(q)'
  BY <1>1, <1>2, <1>3, <1>5, <1>7 DEF Apart
<1> QED BY <1>5, <1>6, <1>8, <1>9 DEF OnePlace

\* A delay passes.
LEMMA OnePlaceBecomeDue ==
    ASSUME OnePlace, NEW j \in Jobs, BecomeDue(j)
    PROVE  OnePlace'
<1>1. /\ j \in later /\ later' = later \ {j} /\ due' = Append(due, j)
      /\ fresh' = fresh /\ list' = list /\ client' = client /\ breaks' = breaks
  BY DEF BecomeDue
<1>2. TypeOK /\ Unique(list) /\ Unique(due) /\ LaterUnique /\ HandsUnique /\ \A q \in Runs : Apart(q)
  BY DEF OnePlace
<1>3. InLater(j.run) /\ j.run \in Runs
  BY <1>1 DEF InLater, Jobs
<1>4. ~InSeq(list, j.run) /\ ~InSeq(due, j.run) /\ ~InHand(j.run) /\ j.run \notin fresh
  BY <1>2, <1>3 DEF Apart
<1>5. due \in Seq(Jobs)
  BY <1>2 DEF TypeOK
<1>6. due' \in Seq(Jobs) /\ Unique(due') /\ \A q : InSeq(due', q) <=> InSeq(due, q) \/ q = j.run
  BY <1>1, <1>2, <1>4, <1>5, RunsOfAppend, AppendProperties
<1>7. TypeOK'
  BY <1>1, <1>2, <1>6 DEF TypeOK
<1>8. \A q : (InLater(q)' <=> InLater(q) /\ q # j.run) /\ (InHand(q)' <=> InHand(q))
  <2>1. \A q : InHand(q)' <=> InHand(q)
    BY <1>1 DEF InHand
  <2>2. \A q : InLater(q)' <=> InLater(q) /\ q # j.run
    BY <1>1, <1>2 DEF InLater, LaterUnique
  <2> QED BY <2>1, <2>2
<1>9. LaterUnique' /\ HandsUnique' /\ Unique(list')
  BY <1>1, <1>2 DEF LaterUnique, HandsUnique
<1>10. ASSUME NEW q \in Runs PROVE Apart(q)'
  BY <1>1, <1>2, <1>4, <1>6, <1>8 DEF Apart
<1> QED BY <1>6, <1>7, <1>9, <1>10 DEF OnePlace

\* A client moves on with empty hands and leaves Redis alone.
LEMMA OnePlaceReads ==
    ASSUME OnePlace, NEW w \in Workers, NEW e \in Clients, client' = [client EXCEPT ![w] = e],
           ~HasJob(e), UNCHANGED <<fresh, list, later, due>>, breaks' \in 0..MaxBreaks
    PROVE  OnePlace'
<1>1. TypeOK /\ Unique(list) /\ Unique(due) /\ LaterUnique /\ HandsUnique /\ \A q \in Runs : Apart(q)
  BY DEF OnePlace
<1>2. HandsUnique' /\ \A q : InHand(q)' => InHand(q)
  BY <1>1, EmptyHands
<1>3. TypeOK'
  BY <1>1, ClientTyped DEF TypeOK
<1>4. LaterUnique' /\ Unique(list') /\ Unique(due') /\ \A q : InLater(q)' <=> InLater(q)
  BY <1>1 DEF LaterUnique, InLater
<1>5. ASSUME NEW q \in Runs PROVE Apart(q)'
  BY <1>1, <1>2, <1>4 DEF Apart
<1> QED BY <1>2, <1>3, <1>4, <1>5 DEF OnePlace

\* ZREM: the job is in the hands of the client whose command removed it, if it has any.
LEMMA OnePlaceZrem ==
    ASSUME OnePlace, NEW w \in Workers, NEW j \in Jobs, Zrem(j), NEW e \in Clients,
           client' = [client EXCEPT ![w] = e], ~HasJob(client[w]),
           ~HasJob(e) \/ (InSortedSet(j) /\ JobOf(e) = j),
           UNCHANGED <<fresh, list>>, breaks' \in 0..MaxBreaks
    PROVE  OnePlace'
<1>1. TypeOK /\ Unique(list) /\ Unique(due) /\ LaterUnique /\ HandsUnique /\ \A q \in Runs : Apart(q)
  BY DEF OnePlace
<1>2. /\ later' \subseteq Jobs /\ due' \in Seq(Jobs)
      /\ LaterUnique' /\ Unique(due')
      /\ \A r : InLater(r)' => InLater(r) /\ ~(r = j.run /\ InSortedSet(j))
      /\ \A r : InSeq(due', r) => InSeq(due, r) /\ ~(r = j.run /\ InSortedSet(j))
      /\ InSortedSet(j) => InLater(j.run) \/ InSeq(due, j.run)
  BY ZremRemoves
<1>3. j.run \in Runs /\ Apart(j.run)
  BY <1>1 DEF Jobs
<1>4. InSortedSet(j) => ~InHand(j.run) /\ ~InSeq(list, j.run) /\ j.run \notin fresh
  BY <1>2, <1>3 DEF Apart
<1>5. HandsUnique' /\ \A q : InHand(q)' => InHand(q) \/ (q = j.run /\ InSortedSet(j))
  <2>1. CASE ~HasJob(e)
    <3>1. HandsUnique' /\ \A q : InHand(q)' => InHand(q)
      BY <1>1, <2>1, EmptyHands
    <3> QED BY <3>1
  <2>2. CASE HasJob(e)
    BY <1>1, <1>4, <2>2, FullHands
  <2> QED BY <2>1, <2>2
<1>6. TypeOK'
  BY <1>1, <1>2, ClientTyped DEF TypeOK
<1>7. ASSUME NEW q \in Runs PROVE Apart(q)'
  BY <1>1, <1>2, <1>4, <1>5 DEF Apart
<1> QED BY <1>1, <1>2, <1>5, <1>6, <1>7 DEF OnePlace

\* LPUSH: the client's hands are empty again.
LEMMA OnePlacePush ==
    ASSUME OnePlace, NEW w \in Workers, client[w].pc = "push",
           list' = Append(list, Head(client[w].batch)), NEW e \in Clients,
           client' = [client EXCEPT ![w] = e], ~HasJob(e),
           UNCHANGED <<fresh, later, due>>, breaks' \in 0..MaxBreaks
    PROVE  OnePlace'
<1>1. TypeOK /\ Unique(list) /\ Unique(due) /\ LaterUnique /\ HandsUnique /\ \A q \in Runs : Apart(q)
  BY DEF OnePlace
<1>2. PICK j \in Jobs : j = Head(client[w].batch)
  BY <1>1, ClientStates
<1>3. HasJob(client[w]) /\ JobOf(client[w]) = j /\ InHand(j.run) /\ j.run \in Runs
  BY <1>2 DEF HasJob, JobOf, InHand, Jobs
<1>4. ~InSeq(list, j.run) /\ ~InLater(j.run) /\ ~InSeq(due, j.run) /\ j.run \notin fresh
  BY <1>1, <1>3 DEF Apart
<1>5. HandsUnique' /\ \A q : InHand(q)' <=> InHand(q) /\ q # j.run
  BY <1>1, <1>3, EmptyHands
<1>6. list \in Seq(Jobs)
  BY <1>1 DEF TypeOK
<1>7. list' \in Seq(Jobs) /\ Unique(list') /\ \A q : InSeq(list', q) <=> InSeq(list, q) \/ q = j.run
  BY <1>1, <1>2, <1>4, <1>6, RunsOfAppend, AppendProperties
<1>8. TypeOK'
  BY <1>1, <1>7, ClientTyped DEF TypeOK
<1>9. LaterUnique' /\ Unique(due') /\ \A q : InLater(q)' <=> InLater(q)
  BY <1>1 DEF LaterUnique, InLater
<1>10. ASSUME NEW q \in Runs PROVE Apart(q)'
  BY <1>1, <1>4, <1>5, <1>7, <1>9 DEF Apart
<1> QED BY <1>5, <1>7, <1>8, <1>9, <1>10 DEF OnePlace

\* BRPOP: the client has the job, or nobody has.
LEMMA OnePlacePop ==
    ASSUME OnePlace, NEW w \in Workers, ~HasJob(client[w]), list # <<>>, list' = Tail(list),
           NEW e \in Clients, client' = [client EXCEPT ![w] = e],
           ~HasJob(e) \/ JobOf(e) = Head(list),
           UNCHANGED <<fresh, later, due>>, breaks' \in 0..MaxBreaks
    PROVE  OnePlace'
<1>1. TypeOK /\ Unique(list) /\ Unique(due) /\ LaterUnique /\ HandsUnique /\ \A q \in Runs : Apart(q)
  BY DEF OnePlace
<1>2. list \in Seq(Jobs)
  BY <1>1 DEF TypeOK
<1>3. PICK j \in Jobs : j = Head(list)
  BY <1>2, HeadTailProperties
<1>4. /\ InSeq(list, j.run) /\ \A r : InSeq(list', r) <=> InSeq(list, r) /\ r # j.run
      /\ Unique(list')
  BY <1>1, <1>2, <1>3, RunsOfTail
<1>5. j.run \in Runs
  BY DEF Jobs
<1>6. ~InHand(j.run) /\ ~InLater(j.run) /\ ~InSeq(due, j.run) /\ j.run \notin fresh
  BY <1>1, <1>4, <1>5 DEF Apart
<1>7. HandsUnique' /\ \A q : InHand(q)' => InHand(q) \/ q = j.run
  <2>1. CASE ~HasJob(e)
    BY <1>1, <2>1, EmptyHands
  <2>2. CASE HasJob(e)
    BY <1>1, <1>3, <1>6, <2>2, FullHands
  <2> QED BY <2>1, <2>2
<1>8. list' \in Seq(Jobs)
  BY <1>2, HeadTailProperties
<1>9. TypeOK'
  BY <1>1, <1>8, ClientTyped DEF TypeOK
<1>10. LaterUnique' /\ Unique(due') /\ \A q : InLater(q)' <=> InLater(q)
  BY <1>1 DEF LaterUnique, InLater
<1>11. ASSUME NEW q \in Runs PROVE Apart(q)'
  BY <1>1, <1>4, <1>6, <1>7, <1>10 DEF Apart
<1> QED BY <1>4, <1>7, <1>9, <1>10, <1>11 DEF OnePlace

\* ZADD: the job of the worker waits for its delay; no older one of the run did.
LEMMA OnePlaceEnqueueAfter ==
    ASSUME OnePlace, NEW w \in Workers, EnqueueAfter(w)
    PROVE  /\ OnePlace'
           /\ client[w].job \in Jobs
           /\ \E j \in Retried(client[w].job) :
                /\ j \in Jobs /\ j.run = client[w].job.run
                /\ later' = later \union {j} /\ due' = due
<1>1. TypeOK /\ Unique(list) /\ Unique(due) /\ LaterUnique /\ HandsUnique /\ \A q \in Runs : Apart(q)
  BY DEF OnePlace
<1>2. PICK j \in Retried(client[w].job) : later' = later \union {j} /\ due' = RemoveFirst(due, j)
  BY DEF EnqueueAfter
<1>3. /\ client[w].pc = "hold" /\ client' = [client EXCEPT ![w] = Idle]
      /\ fresh' = fresh /\ list' = list /\ breaks' = breaks
  BY DEF EnqueueAfter
<1>4. j \in Jobs /\ j.run = client[w].job.run /\ j.run \in Runs /\ client[w].job \in Jobs
  BY <1>1, <1>2, <1>3, ClientStates DEF Retried, Jobs
<1>5. HasJob(client[w]) /\ JobOf(client[w]) = client[w].job /\ InHand(j.run)
  BY <1>3, <1>4 DEF HasJob, JobOf, InHand
<1>6. ~InSeq(list, j.run) /\ ~InLater(j.run) /\ ~InSeq(due, j.run) /\ j.run \notin fresh
  BY <1>1, <1>4, <1>5 DEF Apart
<1>7. due \in Seq(Jobs)
  BY <1>1 DEF TypeOK
<1>8. due' = due
  <2>1. j \notin ToSet(due)
    BY <1>6, <1>7, LenProperties DEF ToSet, InSeq
  <2> QED BY <1>2, <1>7, <2>1, RemoveFirstPicks
<1>9. Idle \in Clients /\ ~HasJob(Idle)
  BY <1>1, ClientStates
<1>10. HandsUnique' /\ \A q : InHand(q)' <=> InHand(q) /\ q # j.run
  BY <1>1, <1>3, <1>4, <1>5, <1>9, EmptyHands
<1>11. LaterUnique' /\ \A q : InLater(q)' <=> InLater(q) \/ q = j.run
  BY <1>1, <1>2, <1>6 DEF LaterUnique, InLater
<1>12. TypeOK'
  <2>1. client' \in [Workers -> Clients]
    BY <1>1, <1>3, <1>9, ClientTyped
  <2> QED BY <1>1, <1>2, <1>3, <1>4, <1>8, <2>1 DEF TypeOK
<1>13. ASSUME NEW q \in Runs PROVE Apart(q)'
  BY <1>1, <1>3, <1>6, <1>8, <1>10, <1>11 DEF Apart
<1>14. OnePlace'
  BY <1>1, <1>3, <1>8, <1>10, <1>11, <1>12, <1>13 DEF OnePlace
<1> QED BY <1>2, <1>4, <1>8, <1>14

\* ZRANGEBYSCORE: a batch is some of the jobs that are due, and it is not empty.  It is
\* cut short only if replies may overflow, as it has one job of a run.
LEMMA RangeReads ==
    ASSUME OnePlace, NEW w \in Workers, RangeDue(w)
    PROVE  /\ client[w].pc = "range" /\ UNCHANGED <<fresh, list, later, due, breaks>>
           /\ \E e \in Clients :
                /\ client' = [client EXCEPT ![w] = e]
                /\ e.pc \in {"idle", "pop", "remove", "cut"}
                /\ e.pc \in {"remove", "cut"} => ToSet(e.batch) \subseteq ToSet(due)
                /\ e.pc = "cut" => CanOverflow
<1>1. due \in Seq(Jobs) /\ Len(due) \in Nat /\ DOMAIN due = 1..Len(due) /\ Unique(due)
  BY LenProperties DEF OnePlace, TypeOK
<1>2. PICK n \in Nat : n = Min({Batch, Len(due)}) /\ n <= Len(due) /\ n <= Batch
  <2>1. \E x \in {Batch, Len(due)} : \A y \in {Batch, Len(due)} : x <= y
    BY <1>1, BatchAssumption
  <2>2. PICK n : n = Min({Batch, Len(due)})
    OBVIOUS
  <2>3. n \in {Batch, Len(due)} /\ \A y \in {Batch, Len(due)} : n <= y
    BY <2>1, <2>2 DEF Min
  <2> QED BY <1>1, <2>2, <2>3, BatchAssumption
<1>3. PICK batch : batch = SubSeq(due, 1, n)
  OBVIOUS
<1>4. /\ batch \in Seq(Jobs) /\ ToSet(batch) \subseteq ToSet(due)
      /\ Len(batch) = n /\ \A k \in 1..n : k \in 1..Len(due) /\ batch[k] = due[k]
  <2>1. \A k \in 1..n : due[k] \in Jobs
    BY <1>1, <1>2, ElementOfSeq
  <2>1a. 1 \in Int /\ n \in Int
    BY <1>2
  <2>2. /\ SubSeq(due, 1, n) \in Seq(Jobs)
        /\ Len(SubSeq(due, 1, n)) = IF 1 <= n THEN n - 1 + 1 ELSE 0
        /\ \A k \in 1..(n - 1 + 1) : SubSeq(due, 1, n)[k] = due[1 + k - 1]
    BY <2>1, <2>1a, SubSeqProperties
  <2>3. batch \in Seq(Jobs) /\ Len(batch) = n /\ \A k \in 1..n : batch[k] = due[k]
    <3>1. (IF 1 <= n THEN n - 1 + 1 ELSE 0) = n /\ n - 1 + 1 = n
      BY <1>2
    <3>2. \A k \in 1..n : 1 + k - 1 = k
      BY <1>2
    <3> QED BY <1>3, <2>2, <3>1, <3>2
  <2>4. DOMAIN batch = 1..n
    BY <2>3, LenProperties
  <2>5. \A k \in 1..n : k \in 1..Len(due)
    BY <1>1, <1>2
  <2> QED BY <1>1, <2>3, <2>4, <2>5 DEF ToSet
<1>5. /\ client[w].pc = "range" /\ UNCHANGED <<fresh, list, later, due, breaks>>
      /\ IF batch = <<>> THEN client' = [client EXCEPT ![w] = [pc |-> "pop"]]
         ELSE \E next \in Received(batch) : client' = [client EXCEPT ![w] = next]
  BY <1>2, <1>3 DEF RangeDue, RangeFinds
<1>6. CASE batch = <<>>
  <2>1. [pc |-> "pop"] \in Clients
    BY DEF Clients
  <2> QED BY <1>5, <1>6, <2>1
<1>7. CASE batch # <<>>
  <2>1. PICK e : e \in Received(batch) /\ client' = [client EXCEPT ![w] = e]
    BY <1>5, <1>7
  <2>2. e = Idle \/ \E how \in {"remove", "cut"} :
            e = [pc |-> how, batch |-> batch] /\ (how = "cut" => ~Fits(batch))
    BY <2>1 DEF Received
  <2>3. CASE e = Idle
    <3>1. e \in Clients /\ e.pc = "idle"
      BY <2>3 DEF Clients, Idle
    <3> QED BY <1>5, <2>1, <3>1
  <2>4. ASSUME NEW how \in {"remove", "cut"}, e = [pc |-> how, batch |-> batch],
               how = "cut" => ~Fits(batch)
        PROVE  /\ e \in Clients /\ e.pc \in {"remove", "cut"} /\ e.batch = batch
               /\ e.pc = "cut" => CanOverflow
    <3>1. e \in [pc: {"remove", "push", "cut"}, batch: Seq(Jobs) \ {<<>>}]
      BY <1>4, <1>7, <2>4
    <3>2. e \in Clients /\ e.pc = how /\ e.batch = batch
      BY <2>4, <3>1 DEF Clients
    <3>3. ASSUME how = "cut"
          PROVE  CanOverflow
      <4>1. n \in 1..Batch
        <5>1. n # 0
          BY <1>4, <1>7, EmptySeq
        <5> QED BY <1>2, <5>1, BatchAssumption
      <4>2. batch \in [1..n -> Jobs]
        BY <1>4, LenProperties
      <4>3. \A i, k \in 1..n : batch[i].run = batch[k].run => i = k
        BY <1>1, <1>4 DEF Unique
      <4> QED BY <2>4, <3>3, <4>1, <4>2, <4>3 DEF CanOverflow
    <3> QED BY <2>4, <3>2, <3>3
  <2> QED BY <1>4, <1>5, <2>1, <2>2, <2>3, <2>4
<1> QED BY <1>6, <1>7

\* ZREM, with what the client does next: it goes on to push only a job that was there.
LEMMA RemoveDueMoves ==
    ASSUME TypeOK, NEW w \in Workers, RemoveDue(w)
    PROVE  /\ client[w].pc = "remove" /\ UNCHANGED <<fresh, list, breaks>>
           /\ \E j \in Jobs, e \in Clients :
                /\ j = Head(client[w].batch) /\ Zrem(j)
                /\ client' = [client EXCEPT ![w] = e]
                /\ \/ /\ InSortedSet(j)
                      /\ e = [pc |-> "push", batch |-> client[w].batch]
                      /\ HasJob(e) /\ JobOf(e) = j
                   \/ ~InSortedSet(j) /\ e = AfterBatch(Tail(client[w].batch)) /\ ~HasJob(e)
<1>1. client[w].pc = "remove" /\ UNCHANGED <<fresh, list, breaks>> /\ Zrem(Head(client[w].batch))
  BY DEF RemoveDue
<1>2. PICK j \in Jobs : j = Head(client[w].batch)
  BY <1>1, ClientStates
<1>3. CASE InSortedSet(j)
  <2>1. client' = [client EXCEPT ![w] = [@ EXCEPT !.pc = "push"]]
    BY <1>2, <1>3 DEF RemoveDue
  <2>2. PICK e : e = [pc |-> "push", batch |-> client[w].batch]
    OBVIOUS
  <2>3. /\ client[w].batch \in Seq(Jobs) /\ client[w].batch # <<>>
        /\ client[w] = [pc |-> client[w].pc, batch |-> client[w].batch]
    BY <1>1, ClientStates
  <2>4. [client[w] EXCEPT !.pc = "push"] = e
    BY <2>2, <2>3
  <2>5. e \in [pc: {"remove", "push", "cut"}, batch: Seq(Jobs) \ {<<>>}]
    BY <2>2, <2>3
  <2>6. e \in Clients /\ HasJob(e) /\ JobOf(e) = j
    BY <1>2, <2>2, <2>5 DEF Clients, HasJob, JobOf
  <2> QED BY <1>1, <1>2, <1>3, <2>1, <2>2, <2>4, <2>6
<1>4. CASE ~InSortedSet(j)
  <2>1. client' = [client EXCEPT ![w] = AfterBatch(Tail(client[w].batch))]
    BY <1>2, <1>4 DEF RemoveDue
  <2>2. AfterBatch(Tail(client[w].batch)) \in Clients /\ ~HasJob(AfterBatch(Tail(client[w].batch)))
    BY <1>1, ClientStates
  <2> QED BY <1>1, <1>2, <1>4, <2>1, <2>2
<1> QED BY <1>3, <1>4

\* ZREM behind a reply cut short: the job may be gone, and no client has it.
LEMMA RemoveCutMoves ==
    ASSUME TypeOK, NEW w \in Workers, RemoveCut(w)
    PROVE  /\ client[w].pc = "cut" /\ UNCHANGED <<fresh, list, breaks>>
           /\ client' = [client EXCEPT ![w] = Idle] /\ Idle \in Clients /\ ~HasJob(Idle)
           /\ \/ \E j \in Jobs : j = Head(client[w].batch) /\ Zrem(j)
              \/ later' = later /\ due' = due
<1>1. Idle \in Clients /\ ~HasJob(Idle)
  BY ClientStates
<1>2. client[w].pc = "cut" => Head(client[w].batch) \in Jobs
  BY ClientStates
<1> QED BY <1>1, <1>2 DEF RemoveCut

\* BRPOP, with what the client does next.
LEMMA PopMoves ==
    ASSUME TypeOK, NEW w \in Workers, Pop(w)
    PROVE  /\ client[w].pc = "pop" /\ list # <<>> /\ list' = Tail(list) /\ Head(list) \in Jobs
           /\ UNCHANGED <<fresh, later, due, breaks>>
           /\ \E e \in Clients :
                /\ client' = [client EXCEPT ![w] = e]
                /\ \/ e = [pc |-> "hold", job |-> Head(list)] /\ HasJob(e) /\ JobOf(e) = Head(list)
                   \/ e = Idle /\ ~HasJob(e) /\ ~Fits(<<Head(list)>>)
<1>1. /\ client[w].pc = "pop" /\ list # <<>> /\ list' = Tail(list)
      /\ UNCHANGED <<fresh, later, due, breaks>>
  BY DEF Pop
<1>2. PICK j \in Jobs : j = Head(list)
  BY <1>1, HeadTailProperties DEF TypeOK
<1>3. PICK parsed \in Parsed(<<j>>) :
        client' = [client EXCEPT ![w] = IF parsed THEN [pc |-> "hold", job |-> j] ELSE Idle]
  BY <1>2 DEF Pop
<1>3a. parsed \in BOOLEAN /\ (~parsed => ~Fits(<<j>>))
  BY <1>3, Zenon DEF Parsed
<1>4. CASE parsed
  <2>1. PICK e : e = [pc |-> "hold", job |-> j]
    OBVIOUS
  <2>2. e \in Clients /\ HasJob(e) /\ JobOf(e) = j
    BY <2>1 DEF Clients, HasJob, JobOf
  <2> QED BY <1>1, <1>2, <1>3, <1>4, <2>1, <2>2
<1>5. CASE ~parsed
  <2>1. ~Fits(<<j>>)
    BY <1>3a, <1>5
  <2> QED BY <1>1, <1>2, <1>3, <1>5, <2>1, ClientStates
<1> QED BY <1>4, <1>5

\* A connection that breaks leaves the client with empty hands; the command before it may
\* have taken effect.
LEMMA ReplyLostMoves ==
    ASSUME TypeOK, NEW w \in Workers, ReplyLost(w)
    PROVE  /\ breaks' \in 0..MaxBreaks /\ MaxBreaks > 0 /\ fresh' = fresh
           /\ client' = [client EXCEPT ![w] = Idle] /\ Idle \in Clients /\ ~HasJob(Idle)
           /\ \/ /\ client[w].pc = "remove" /\ list' = list
                 /\ \E j \in Jobs : j = Head(client[w].batch) /\ Zrem(j)
              \/ /\ client[w].pc = "push" /\ list' = Append(list, Head(client[w].batch))
                 /\ later' = later /\ due' = due
              \/ /\ client[w].pc = "pop" /\ list # <<>> /\ list' = Tail(list)
                 /\ later' = later /\ due' = due
<1>1. breaks' \in 0..MaxBreaks /\ MaxBreaks > 0 /\ client' = [client EXCEPT ![w] = Idle]
  BY SwitchAssumption DEF TypeOK, ReplyLost, GivesUp
<1>2. Idle \in Clients /\ ~HasJob(Idle)
  BY ClientStates
<1>3. client[w].pc = "remove" => Head(client[w].batch) \in Jobs
  BY ClientStates
<1> QED BY <1>1, <1>2, <1>3 DEF ReplyLost

\* Every step keeps each run in one place.
LEMMA OnePlaceStep == OnePlace /\ [Next]_vars => OnePlace'
<1> SUFFICES ASSUME OnePlace, [Next]_vars PROVE OnePlace'
  OBVIOUS
<1>0. TypeOK /\ breaks \in 0..MaxBreaks
  BY DEF OnePlace, TypeOK
<1>1. CASE UNCHANGED vars
  BY <1>1 DEF vars, OnePlace, TypeOK, LaterUnique, HandsUnique, Apart, InLater, InHand
<1>2. ASSUME NEW w \in Workers, Connect(w) \/ PopTimesOut(w) \/ Finish(w)
      PROVE  OnePlace'
  <2>1. PICK e : e \in {[pc |-> "range"], Idle} /\ client' = [client EXCEPT ![w] = e]
    BY <1>2 DEF Connect, PopTimesOut, Finish
  <2>2. UNCHANGED <<fresh, list, later, due, breaks>>
    BY <1>2 DEF Connect, PopTimesOut, Finish
  <2>3. e \in Clients /\ ~HasJob(e)
    BY <2>1 DEF Clients, Idle, HasJob
  <2> QED BY <1>0, <2>1, <2>2, <2>3, OnePlaceReads
<1>3. ASSUME NEW w \in Workers, RangeDue(w)
      PROVE  OnePlace'
  <2>1. PICK e \in Clients : client' = [client EXCEPT ![w] = e] /\ e.pc \in {"idle", "pop", "remove", "cut"}
    BY <1>0, <1>3, RangeReads
  <2>2. UNCHANGED <<fresh, list, later, due, breaks>>
    BY <1>0, <1>3, RangeReads
  <2>3. ~HasJob(e)
    BY <2>1 DEF HasJob
  <2> QED BY <1>0, <2>1, <2>2, <2>3, OnePlaceReads
<1>4. ASSUME NEW w \in Workers, RemoveDue(w)
      PROVE  OnePlace'
  <2>1. client[w].pc = "remove" /\ UNCHANGED <<fresh, list, breaks>>
    BY <1>0, <1>4, RemoveDueMoves
  <2>2. PICK j \in Jobs, e \in Clients :
            /\ Zrem(j) /\ client' = [client EXCEPT ![w] = e]
            /\ ~HasJob(e) \/ (InSortedSet(j) /\ JobOf(e) = j)
    <3>1. PICK j \in Jobs, e \in Clients :
            /\ Zrem(j) /\ client' = [client EXCEPT ![w] = e]
            /\ \/ InSortedSet(j) /\ HasJob(e) /\ JobOf(e) = j
               \/ ~HasJob(e)
      BY <1>0, <1>4, RemoveDueMoves
    <3> QED BY <3>1
  <2>3. ~HasJob(client[w])
    BY <2>1 DEF HasJob
  <2> QED BY <1>0, <2>1, <2>2, <2>3, OnePlaceZrem
<1>4c. ASSUME NEW w \in Workers, RemoveCut(w)
       PROVE  OnePlace'
  <2>1. /\ ~HasJob(client[w]) /\ UNCHANGED <<fresh, list, breaks>>
        /\ client' = [client EXCEPT ![w] = Idle] /\ Idle \in Clients /\ ~HasJob(Idle)
    BY <1>0, <1>4c, RemoveCutMoves DEF HasJob
  <2>2. ASSUME NEW j \in Jobs, Zrem(j)
        PROVE  OnePlace'
    BY <1>0, <2>1, <2>2, OnePlaceZrem
  <2>3. CASE later' = later /\ due' = due
    BY <1>0, <2>1, <2>3, OnePlaceReads
  <2> QED BY <1>0, <1>4c, <2>2, <2>3, RemoveCutMoves
<1>5. ASSUME NEW w \in Workers, PushDue(w)
      PROVE  OnePlace'
  <2>1. /\ client[w].pc = "push" /\ list' = Append(list, Head(client[w].batch))
        /\ UNCHANGED <<fresh, later, due, breaks>>
    BY <1>5 DEF PushDue
  <2>2. PICK e : e = AfterBatch(Tail(client[w].batch)) /\ client' = [client EXCEPT ![w] = e]
    BY <1>5 DEF PushDue
  <2>3. e \in Clients /\ ~HasJob(e)
    BY <1>0, <2>1, <2>2, ClientStates
  <2> QED BY <1>0, <2>1, <2>2, <2>3, OnePlacePush
<1>6. ASSUME NEW w \in Workers, Pop(w)
      PROVE  OnePlace'
  <2>1. /\ client[w].pc = "pop" /\ list # <<>> /\ list' = Tail(list)
        /\ UNCHANGED <<fresh, later, due, breaks>>
    BY <1>0, <1>6, PopMoves
  <2>2. PICK e \in Clients : client' = [client EXCEPT ![w] = e] /\ (~HasJob(e) \/ JobOf(e) = Head(list))
    BY <1>0, <1>6, PopMoves
  <2>3. ~HasJob(client[w])
    BY <2>1 DEF HasJob
  <2> QED BY <1>0, <2>1, <2>2, <2>3, OnePlacePop
<1>7. ASSUME NEW w \in Workers, CommandNotSent(w)
      PROVE  OnePlace'
  <2>1. /\ client' = [client EXCEPT ![w] = Idle] /\ UNCHANGED <<fresh, list, later, due>>
        /\ breaks' \in 0..MaxBreaks
    BY <1>0, <1>7, SwitchAssumption DEF CommandNotSent, GivesUp
  <2> QED BY <1>0, <2>1, ClientStates, OnePlaceReads
<1>8. ASSUME NEW w \in Workers, ReplyLost(w)
      PROVE  OnePlace'
  <2>1. /\ breaks' \in 0..MaxBreaks /\ fresh' = fresh
        /\ client' = [client EXCEPT ![w] = Idle] /\ Idle \in Clients /\ ~HasJob(Idle)
    BY <1>0, <1>8, ReplyLostMoves
  <2>2. ASSUME client[w].pc = "remove", list' = list, NEW j \in Jobs, Zrem(j)
        PROVE  OnePlace'
    <3>1. ~HasJob(client[w])
      BY <2>2 DEF HasJob
    <3> QED BY <2>1, <2>2, <3>1, OnePlaceZrem
  <2>3. ASSUME client[w].pc = "push", list' = Append(list, Head(client[w].batch)),
               later' = later, due' = due
        PROVE  OnePlace'
    BY <2>1, <2>3, OnePlacePush
  <2>4. ASSUME client[w].pc = "pop", list # <<>>, list' = Tail(list), later' = later, due' = due
        PROVE  OnePlace'
    <3>1. ~HasJob(client[w])
      BY <2>4 DEF HasJob
    <3> QED BY <2>1, <2>4, <3>1, OnePlacePop
  <2> QED BY <1>0, <1>8, <2>2, <2>3, <2>4, ReplyLostMoves
<1>9. ASSUME NEW w \in Workers, EnqueueAfter(w)
      PROVE  OnePlace'
  BY <1>9, OnePlaceEnqueueAfter
<1>10. CASE Next
  BY <1>2, <1>3, <1>4, <1>4c, <1>5, <1>6, <1>7, <1>8, <1>9, <1>10, OnePlaceEnqueue, OnePlaceBecomeDue
     DEF Next, WorkerStep
<1> QED BY <1>1, <1>10

\* A run's job is in one place at a time: the list, the sorted set, or the hands of one
\* worker, however the commands of several promoteDueJobs interleave, whatever their
\* batches have become meanwhile, and wherever connections break.
THEOREM JobsInOnePlace == Spec => []OnePlace
<1> QED BY OnePlaceInit, OnePlaceStep, PTL DEF Spec

\* The variables keep their types; a client that removes or pushes has a batch left.
THEOREM TypeCorrect == Spec => []TypeOK
<1>1. OnePlace => TypeOK
  BY DEF OnePlace
<1> QED BY <1>1, JobsInOnePlace, PTL
-----------------------------------------------------------------------------
(* Delays.  What a client has read of the sorted set may be old: its job   *)
(* may have been moved and even executed since.  But then the run's job of *)
(* today is a later attempt, unless a retry carries an unchanged attempt.  *)

Hands     == {JobOf(client[w]) : w \in {v \in Workers : HasJob(client[v])}}
Placed    == later \union ToSet(due) \union ToSet(list) \union Hands
ReadOf(e) == IF e.pc \in {"remove", "push", "cut"} THEN ToSet(e.batch) ELSE {}

\* No job of b's run that is delayed is b, or an earlier attempt.
Old(b) ==
    /\ b \in Jobs /\ b.run \notin fresh
    /\ \A x \in Placed : x.run = b.run =>
            b.attempt <= x.attempt /\ (x \in later => b.attempt < x.attempt)

BatchesAreOld == \A w \in Workers : \A b \in ReadOf(client[w]) : Old(b)

\* The elements of a sequence, after a push and a pop.
LEMMA ElementsOfAppend ==
    ASSUME NEW S, NEW s \in Seq(S), NEW e \in S
    PROVE  ToSet(Append(s, e)) = ToSet(s) \union {e}
<1>1. /\ Append(s, e) \in Seq(S) /\ Len(Append(s, e)) = Len(s) + 1 /\ Len(s) \in Nat
      /\ \A i \in 1..Len(s) : Append(s, e)[i] = s[i]
      /\ Append(s, e)[Len(s) + 1] = e
  BY AppendProperties, LenProperties
<1>2. DOMAIN s = 1..Len(s) /\ DOMAIN Append(s, e) = 1..(Len(s) + 1)
  BY <1>1, LenProperties
<1>3. \A k : k \in 1..(Len(s) + 1) <=> k \in 1..Len(s) \/ k = Len(s) + 1
  BY <1>1
<1> QED BY <1>1, <1>2, <1>3 DEF ToSet

LEMMA ElementsOfTail ==
    ASSUME NEW S, NEW s \in Seq(S), s # <<>>
    PROVE  ToSet(Tail(s)) \subseteq ToSet(s) /\ Head(s) \in ToSet(s) /\ ToSet(s) \subseteq S
<1>1. /\ Tail(s) \in Seq(S) /\ Len(Tail(s)) = Len(s) - 1 /\ Len(s) \in Nat \ {0}
      /\ \A i \in 1..(Len(s) - 1) : Tail(s)[i] = s[i + 1]
  BY HeadTailProperties, EmptySeq, LenProperties
<1>2. DOMAIN s = 1..Len(s) /\ DOMAIN Tail(s) = 1..(Len(s) - 1)
  BY <1>1, LenProperties
<1>3. Head(s) = s[1] /\ 1 \in 1..Len(s)
  BY <1>1
<1>4. \A i \in 1..Len(s) : s[i] \in S
  BY ElementOfSeq
<1>5. \A i \in 1..(Len(s) - 1) : i + 1 \in 1..Len(s)
  BY <1>1
<1> QED BY <1>1, <1>2, <1>3, <1>4, <1>5 DEF ToSet

\* Jobs are jobs wherever they are placed.
LEMMA PlacedTyped == TypeOK => Placed \subseteq Jobs
<1> SUFFICES ASSUME TypeOK, NEW x \in Placed PROVE x \in Jobs
  OBVIOUS
<1>1. \A s \in Seq(Jobs) : ToSet(s) \subseteq Jobs
  BY ElementOfSeq, LenProperties DEF ToSet
<1>2. CASE x \in later \union ToSet(due) \union ToSet(list)
  BY <1>1, <1>2 DEF TypeOK
<1>3. CASE x \in Hands
  BY <1>3, ClientStates DEF Hands
<1> QED BY <1>2, <1>3 DEF Placed

\* A job that is due is the only one of its run, so it is old for itself.
LEMMA DueIsOld ==
    ASSUME OnePlace, NEW b \in ToSet(due)
    PROVE  Old(b)
<1>1. TypeOK /\ Unique(due) /\ due \in Seq(Jobs) /\ list \in Seq(Jobs)
  BY DEF OnePlace, TypeOK
<1>2. /\ DOMAIN due = 1..Len(due) /\ DOMAIN list = 1..Len(list)
      /\ \A i \in 1..Len(due) : due[i] \in Jobs
  BY <1>1, LenProperties, ElementOfSeq
<1>3. PICK i \in 1..Len(due) : due[i] = b
  BY <1>2 DEF ToSet
<1>4. b \in Jobs /\ b.run \in Runs /\ b.attempt \in Nat /\ InSeq(due, b.run)
  BY <1>2, <1>3, MaxAttemptsAssumption DEF Jobs, InSeq
<1>5. ~InLater(b.run) /\ ~InHand(b.run) /\ ~InSeq(list, b.run) /\ b.run \notin fresh
  BY <1>4 DEF OnePlace, Apart
<1>6. ASSUME NEW x \in Placed, x.run = b.run
      PROVE  x = b /\ x \notin later
  <2>1. x \notin later
    BY <1>5, <1>6 DEF InLater
  <2>2. x \notin Hands
    BY <1>5, <1>6 DEF InHand, Hands
  <2>3. x \notin ToSet(list)
    BY <1>2, <1>5, <1>6 DEF ToSet, InSeq
  <2>4. x \in ToSet(due)
    BY <1>6, <2>1, <2>2, <2>3 DEF Placed
  <2>5. PICK k \in 1..Len(due) : due[k] = x
    BY <1>2, <2>4 DEF ToSet
  <2> QED BY <1>1, <1>3, <1>6, <2>1, <2>5 DEF Unique
<1> QED BY <1>4, <1>5, <1>6 DEF Old

\* A job that is placed was placed before, is the first of its run, or is a later attempt
\* of one that was.
JobsMoveOn ==
    \A x \in Placed' :
        \/ x \in Placed /\ (x \in later' => x \in later)
        \/ x.run \in fresh
        \/ \E y \in Placed : y.run = x.run /\ y.attempt < x.attempt

\* Then what was old is so for ever.
LEMMA OldStaysOld ==
    ASSUME TypeOK, TypeOK', fresh' \subseteq fresh, JobsMoveOn, NEW b, Old(b)
    PROVE  Old(b)'
<1>1. Placed \subseteq Jobs /\ Placed' \subseteq Jobs
  <2>1. Placed \subseteq Jobs
    BY PlacedTyped
  <2>2. (Placed \subseteq Jobs)'
    BY PlacedTyped, PTL
  <2> QED BY <2>1, <2>2
<1>2. b \in Jobs /\ b.run \notin fresh
  BY DEF Old
<1>3. \A y \in Jobs : y.attempt \in Nat
  BY MaxAttemptsAssumption DEF Jobs
<1>4. ASSUME NEW x \in Placed', x.run = b.run
      PROVE  b.attempt <= x.attempt /\ (x \in later' => b.attempt < x.attempt)
  <2>1. CASE x \in Placed /\ (x \in later' => x \in later)
    BY <1>4, <2>1 DEF Old
  <2>2. ASSUME NEW y \in Placed, y.run = x.run, y.attempt < x.attempt
        PROVE  b.attempt < x.attempt
    <3>1. b.attempt <= y.attempt
      BY <1>4, <2>2 DEF Old
    <3>2. b.attempt \in Nat /\ y.attempt \in Nat /\ x.attempt \in Nat
      BY <1>1, <1>2, <1>3
    <3> QED BY <2>2, <3>1, <3>2
  <2>3. b.attempt \in Nat /\ x.attempt \in Nat
    BY <1>1, <1>2, <1>3
  <2> QED BY <1>2, <1>4, <2>1, <2>2, <2>3 DEF JobsMoveOn
<1> QED BY <1>2, <1>4 DEF Old

\* One client's step adds nothing to the hands but what it takes.
LEMMA HandsMove ==
    ASSUME TypeOK, NEW w \in Workers, NEW e \in Clients, client' = [client EXCEPT ![w] = e]
    PROVE  \A x \in Hands' : x \in Hands \/ (HasJob(e) /\ x = JobOf(e))
<1>1. client'[w] = e /\ \A v \in Workers : v # w => client'[v] = client[v]
  BY ClientTyped
<1> SUFFICES ASSUME NEW x \in Hands' PROVE x \in Hands \/ (HasJob(e) /\ x = JobOf(e))
  OBVIOUS
<1>2. PICK v \in Workers : HasJob(client'[v]) /\ x = JobOf(client'[v])
  BY DEF Hands
<1>3. CASE v = w
  BY <1>1, <1>2, <1>3
<1>4. CASE v # w
  BY <1>1, <1>2, <1>4 DEF Hands
<1> QED BY <1>3, <1>4

\* The client's hands when it has a job.
LEMMA HandIsPlaced ==
    ASSUME NEW w \in Workers, HasJob(client[w])
    PROVE  JobOf(client[w]) \in Placed
BY DEF Hands, Placed

\* Every step moves jobs on; an attempt grows with each retry.
LEMMA JobsMove ==
    ASSUME OnePlace, Next, ~SamePayload
    PROVE  JobsMoveOn /\ fresh' \subseteq fresh
<1>0. TypeOK /\ list \in Seq(Jobs) /\ due \in Seq(Jobs)
  BY DEF OnePlace, TypeOK
<1>1. ASSUME NEW r \in Runs, Enqueue(r)
      PROVE  JobsMoveOn /\ fresh' \subseteq fresh
  <2>1. PICK j \in Jobs : j = [run |-> r, attempt |-> 0] /\ j.run = r
    <3>1. 0 \in 0..(MaxAttempts - 1)
      BY MaxAttemptsAssumption
    <3>2. [run |-> r, attempt |-> 0] \in Jobs
      BY <3>1 DEF Jobs
    <3> QED BY <3>2
  <2>2. /\ r \in fresh /\ fresh' = fresh \ {r} /\ list' = Append(list, j)
        /\ later' = later /\ due' = due /\ client' = client
    BY <1>1, <2>1 DEF Enqueue
  <2>3. ToSet(list') = ToSet(list) \union {j}
    BY <1>0, <2>2, ElementsOfAppend
  <2>4. Placed' = Placed \union {j}
    BY <2>2, <2>3 DEF Placed, Hands
  <2> QED BY <2>1, <2>2, <2>4 DEF JobsMoveOn
<1>2. ASSUME NEW j \in Jobs, BecomeDue(j)
      PROVE  JobsMoveOn /\ fresh' \subseteq fresh
  <2>1. /\ j \in later /\ later' = later \ {j} /\ due' = Append(due, j)
        /\ fresh' = fresh /\ list' = list /\ client' = client
    BY <1>2 DEF BecomeDue
  <2>2. ToSet(due') = ToSet(due) \union {j}
    BY <1>0, <2>1, ElementsOfAppend
  <2>3. Placed' \subseteq Placed /\ later' \subseteq later
    BY <2>1, <2>2 DEF Placed, Hands
  <2> QED BY <2>1, <2>3 DEF JobsMoveOn
<1>3. ASSUME NEW w \in Workers, NEW e \in Clients, client' = [client EXCEPT ![w] = e],
             HasJob(e) => JobOf(e) \in Placed,
             ToSet(list') \subseteq Placed, later' \subseteq later,
             ToSet(due') \subseteq later \union ToSet(due), fresh' = fresh
      PROVE  JobsMoveOn /\ fresh' \subseteq fresh
  <2>1. \A x \in Hands' : x \in Placed
    BY <1>0, <1>3, HandsMove DEF Placed
  <2>2. Placed' \subseteq Placed
    BY <1>3, <2>1 DEF Placed
  <2> QED BY <1>3, <2>2 DEF JobsMoveOn
<1>4. ToSet(list) \subseteq Placed
  BY DEF Placed
<1>5. ASSUME NEW w \in Workers, Connect(w) \/ PopTimesOut(w) \/ Finish(w)
      PROVE  JobsMoveOn /\ fresh' \subseteq fresh
  <2>1. PICK e : e \in {[pc |-> "range"], Idle} /\ client' = [client EXCEPT ![w] = e]
    BY <1>5 DEF Connect, PopTimesOut, Finish
  <2>2. UNCHANGED <<fresh, list, later, due, breaks>>
    BY <1>5 DEF Connect, PopTimesOut, Finish
  <2>3. e \in Clients /\ ~HasJob(e)
    BY <2>1 DEF Clients, Idle, HasJob
  <2> QED BY <1>3, <1>4, <2>1, <2>2, <2>3
<1>6. ASSUME NEW w \in Workers, RangeDue(w)
      PROVE  JobsMoveOn /\ fresh' \subseteq fresh
  <2>1. PICK e \in Clients : client' = [client EXCEPT ![w] = e] /\ e.pc \in {"idle", "pop", "remove", "cut"}
    BY <1>0, <1>6, RangeReads
  <2>2. UNCHANGED <<fresh, list, later, due, breaks>>
    BY <1>0, <1>6, RangeReads
  <2>3. ~HasJob(e)
    BY <2>1 DEF HasJob
  <2> QED BY <1>3, <1>4, <2>1, <2>2, <2>3
<1>7. ASSUME NEW w \in Workers, NEW j \in Jobs, Zrem(j)
      PROVE  later' \subseteq later /\ ToSet(due') \subseteq later \union ToSet(due)
  <2>1. later' \union ToSet(due') = (later \union ToSet(due)) \ {j}
    BY <1>7, ZremRemoves
  <2>2. later' \subseteq later
    BY <1>7 DEF Zrem
  <2> QED BY <2>1, <2>2
<1>8. ASSUME NEW w \in Workers, RemoveDue(w)
      PROVE  JobsMoveOn /\ fresh' \subseteq fresh
  <2>1. client[w].pc = "remove" /\ UNCHANGED <<fresh, list, breaks>>
    BY <1>0, <1>8, RemoveDueMoves
  <2>2. PICK j \in Jobs, e \in Clients :
            /\ Zrem(j) /\ client' = [client EXCEPT ![w] = e]
            /\ \/ InSortedSet(j) /\ HasJob(e) /\ JobOf(e) = j
               \/ ~HasJob(e)
    BY <1>0, <1>8, RemoveDueMoves
  <2>3. HasJob(e) => JobOf(e) \in Placed
    BY <2>2 DEF InSortedSet, Placed
  <2> QED BY <1>3, <1>4, <1>7, <2>1, <2>2, <2>3
<1>8c. ASSUME NEW w \in Workers, RemoveCut(w)
       PROVE  JobsMoveOn /\ fresh' \subseteq fresh
  <2>1. /\ client' = [client EXCEPT ![w] = Idle] /\ Idle \in Clients /\ ~HasJob(Idle)
        /\ fresh' = fresh /\ list' = list
    BY <1>0, <1>8c, RemoveCutMoves
  <2>2. later' \subseteq later /\ ToSet(due') \subseteq later \union ToSet(due)
    BY <1>0, <1>7, <1>8c, RemoveCutMoves
  <2> QED BY <1>3, <1>4, <2>1, <2>2
<1>9. ASSUME NEW w \in Workers, client[w].pc = "push", list' = Append(list, Head(client[w].batch))
      PROVE  ToSet(list') \subseteq Placed
  <2>1. PICK j \in Jobs : j = Head(client[w].batch)
    BY <1>0, <1>9, ClientStates
  <2>2. j \in Placed
    BY <1>9, <2>1, HandIsPlaced DEF HasJob, JobOf
  <2>3. ToSet(list') = ToSet(list) \union {j}
    BY <1>0, <1>9, <2>1, ElementsOfAppend
  <2> QED BY <1>4, <2>2, <2>3
<1>10. ASSUME NEW w \in Workers, PushDue(w)
       PROVE  JobsMoveOn /\ fresh' \subseteq fresh
  <2>1. /\ client[w].pc = "push" /\ list' = Append(list, Head(client[w].batch))
        /\ UNCHANGED <<fresh, later, due, breaks>>
    BY <1>10 DEF PushDue
  <2>2. PICK e : e = AfterBatch(Tail(client[w].batch)) /\ client' = [client EXCEPT ![w] = e]
    BY <1>10 DEF PushDue
  <2>3. e \in Clients /\ ~HasJob(e)
    BY <1>0, <2>1, <2>2, ClientStates
  <2> QED BY <1>3, <1>9, <2>1, <2>2, <2>3
<1>11. ASSUME list # <<>>, list' = Tail(list)
       PROVE  ToSet(list') \subseteq Placed /\ Head(list) \in Placed
  BY <1>0, <1>4, <1>11, ElementsOfTail
<1>12. ASSUME NEW w \in Workers, Pop(w)
       PROVE  JobsMoveOn /\ fresh' \subseteq fresh
  <2>1. /\ client[w].pc = "pop" /\ list # <<>> /\ list' = Tail(list)
        /\ UNCHANGED <<fresh, later, due, breaks>>
    BY <1>0, <1>12, PopMoves
  <2>2. PICK e \in Clients : client' = [client EXCEPT ![w] = e] /\ (~HasJob(e) \/ JobOf(e) = Head(list))
    BY <1>0, <1>12, PopMoves
  <2> QED BY <1>3, <1>11, <2>1, <2>2
<1>13. ASSUME NEW w \in Workers, CommandNotSent(w)
       PROVE  JobsMoveOn /\ fresh' \subseteq fresh
  <2>1. client' = [client EXCEPT ![w] = Idle] /\ UNCHANGED <<fresh, list, later, due>>
    BY <1>13 DEF CommandNotSent, GivesUp
  <2>2. Idle \in Clients /\ ~HasJob(Idle)
    BY <1>0, ClientStates
  <2> QED BY <1>3, <1>4, <2>1, <2>2
<1>14. ASSUME NEW w \in Workers, ReplyLost(w)
       PROVE  JobsMoveOn /\ fresh' \subseteq fresh
  <2>1. /\ fresh' = fresh
        /\ client' = [client EXCEPT ![w] = Idle] /\ Idle \in Clients /\ ~HasJob(Idle)
    BY <1>0, <1>14, ReplyLostMoves
  <2>2. ASSUME client[w].pc = "remove", list' = list, NEW j \in Jobs, Zrem(j)
        PROVE  JobsMoveOn /\ fresh' \subseteq fresh
    BY <1>3, <1>4, <1>7, <2>1, <2>2
  <2>3. ASSUME client[w].pc = "push", list' = Append(list, Head(client[w].batch)),
               later' = later, due' = due
        PROVE  JobsMoveOn /\ fresh' \subseteq fresh
    BY <1>3, <1>9, <2>1, <2>3
  <2>4. ASSUME client[w].pc = "pop", list # <<>>, list' = Tail(list), later' = later, due' = due
        PROVE  JobsMoveOn /\ fresh' \subseteq fresh
    BY <1>3, <1>11, <2>1, <2>4
  <2> QED BY <1>0, <1>14, <2>2, <2>3, <2>4, ReplyLostMoves
<1>15. ASSUME NEW w \in Workers, EnqueueAfter(w)
       PROVE  JobsMoveOn /\ fresh' \subseteq fresh
  <2>1. /\ client[w].pc = "hold" /\ client' = [client EXCEPT ![w] = Idle]
        /\ fresh' = fresh /\ list' = list
    BY <1>15 DEF EnqueueAfter
  <2>2. PICK j \in Retried(client[w].job) : later' = later \union {j} /\ due' = due
    BY <1>15, OnePlaceEnqueueAfter
  <2>3. PICK y \in Placed : y = client[w].job /\ y \in Jobs
    BY <1>0, <2>1, HandIsPlaced, ClientStates DEF HasJob, JobOf
  <2>4. j.run = y.run /\ y.attempt < j.attempt
    <3>1. j.run = y.run /\ j.attempt = y.attempt + 1
      BY <2>2, <2>3 DEF Retried
    <3>2. y.attempt \in Nat
      BY <2>3, MaxAttemptsAssumption DEF Jobs
    <3> QED BY <3>1, <3>2
  <2>5. \A x \in Hands' : x \in Hands
    BY <1>0, <2>1, HandsMove, ClientStates
  <2>6. \A x \in Placed' : (x \in Placed /\ (x \in later' => x \in later)) \/ x = j
    BY <2>1, <2>2, <2>5 DEF Placed
  <2> QED BY <2>1, <2>3, <2>4, <2>6 DEF JobsMoveOn
<1> QED BY <1>1, <1>2, <1>5, <1>6, <1>8, <1>8c, <1>10, <1>12, <1>13, <1>14, <1>15 DEF Next, WorkerStep

\* A client reads nothing but jobs that are due, and keeps what it read.
LEMMA ReadsMove ==
    ASSUME OnePlace, Next, NEW w \in Workers, NEW b \in ReadOf(client'[w])
    PROVE  b \in ReadOf(client[w]) \/ b \in ToSet(due)
<1>0. TypeOK
  BY DEF OnePlace
<1>1. CASE client' = client
  BY <1>1
<1>2. ASSUME NEW v \in Workers, NEW e \in Clients, client' = [client EXCEPT ![v] = e],
             ReadOf(e) \subseteq ReadOf(client[v]) \union ToSet(due)
      PROVE  b \in ReadOf(client[w]) \/ b \in ToSet(due)
  <2>1. client'[v] = e /\ \A u \in Workers : u # v => client'[u] = client[u]
    BY <1>0, <1>2, ClientTyped
  <2>2. CASE w = v
    BY <1>2, <2>1, <2>2
  <2>3. CASE w # v
    BY <2>1, <2>3
  <2> QED BY <2>2, <2>3
<1>3. ASSUME NEW e, e.pc \notin {"remove", "push", "cut"}
      PROVE  ReadOf(e) = {}
  BY <1>3 DEF ReadOf
<1>4. ASSUME NEW v \in Workers, client[v].pc \in {"remove", "push", "cut"}
      PROVE  /\ ReadOf(client[v]) = ToSet(client[v].batch)
             /\ ReadOf(AfterBatch(Tail(client[v].batch))) \subseteq ReadOf(client[v])
  <2>1. client[v].batch \in Seq(Jobs) /\ client[v].batch # <<>>
    BY <1>0, <1>4, ClientStates
  <2>2. PICK rest : rest = Tail(client[v].batch)
    OBVIOUS
  <2>3. ToSet(rest) \subseteq ToSet(client[v].batch)
    BY <2>1, <2>2, ElementsOfTail
  <2>4. ReadOf(client[v]) = ToSet(client[v].batch)
    BY <1>4 DEF ReadOf
  <2>5. ReadOf(AfterBatch(rest)) \subseteq ToSet(rest)
    BY DEF AfterBatch, ReadOf
  <2> QED BY <2>2, <2>3, <2>4, <2>5
<1>5. ASSUME NEW v \in Workers, Connect(v) \/ PopTimesOut(v) \/ Finish(v) \/ EnqueueAfter(v)
                                \/ CommandNotSent(v) \/ ReplyLost(v) \/ Pop(v) \/ RemoveCut(v)
      PROVE  b \in ReadOf(client[w]) \/ b \in ToSet(due)
  <2>1. ASSUME NEW e \in Clients, client' = [client EXCEPT ![v] = e],
               e.pc \in {"idle", "range", "hold"}
        PROVE  b \in ReadOf(client[w]) \/ b \in ToSet(due)
    BY <1>2, <1>3, <2>1
  <2>2. Idle \in Clients /\ Idle.pc = "idle" /\ [pc |-> "range"] \in Clients
    BY DEF Idle, Clients
  <2>3. CASE Pop(v)
    <3>1. PICK e \in Clients : client' = [client EXCEPT ![v] = e] /\
                               (e = [pc |-> "hold", job |-> Head(list)] \/ e = Idle)
      BY <1>0, <2>3, PopMoves
    <3>2. e.pc \in {"idle", "hold"}
      BY <2>2, <3>1
    <3> QED BY <2>1, <3>1, <3>2
  <2>4. CASE Connect(v)
    <3>1. client' = [client EXCEPT ![v] = [pc |-> "range"]]
      BY <2>4 DEF Connect
    <3> QED BY <2>1, <2>2, <3>1
  <2>5. CASE PopTimesOut(v) \/ Finish(v) \/ EnqueueAfter(v) \/ CommandNotSent(v) \/ ReplyLost(v)
             \/ RemoveCut(v)
    <3>1. client' = [client EXCEPT ![v] = Idle]
      BY <2>5 DEF PopTimesOut, Finish, EnqueueAfter, CommandNotSent, ReplyLost, GivesUp,
             RemoveCut
    <3> QED BY <2>1, <2>2, <3>1
  <2> QED BY <1>5, <2>3, <2>4, <2>5
<1>6. ASSUME NEW v \in Workers, RangeDue(v)
      PROVE  b \in ReadOf(client[w]) \/ b \in ToSet(due)
  <2>1. PICK e \in Clients :
                /\ client' = [client EXCEPT ![v] = e]
                /\ e.pc \in {"idle", "pop", "remove", "cut"}
                /\ e.pc \in {"remove", "cut"} => ToSet(e.batch) \subseteq ToSet(due)
    BY <1>0, <1>6, RangeReads
  <2>2. ReadOf(e) \subseteq ToSet(due)
    BY <2>1 DEF ReadOf
  <2> QED BY <1>2, <2>1, <2>2
<1>7. ASSUME NEW v \in Workers, RemoveDue(v)
      PROVE  b \in ReadOf(client[w]) \/ b \in ToSet(due)
  <2>1. client[v].pc = "remove"
    BY <1>7 DEF RemoveDue
  <2>2. PICK e \in Clients :
                /\ client' = [client EXCEPT ![v] = e]
                /\ \/ e = [pc |-> "push", batch |-> client[v].batch]
                   \/ e = AfterBatch(Tail(client[v].batch))
    BY <1>0, <1>7, RemoveDueMoves
  <2>3. ReadOf([pc |-> "push", batch |-> client[v].batch]) = ToSet(client[v].batch)
    BY DEF ReadOf
  <2>4. ReadOf(e) \subseteq ReadOf(client[v])
    BY <1>4, <2>1, <2>2, <2>3
  <2> QED BY <1>2, <2>2, <2>4
<1>8. ASSUME NEW v \in Workers, PushDue(v)
      PROVE  b \in ReadOf(client[w]) \/ b \in ToSet(due)
  <2>1. client[v].pc = "push" /\ client' = [client EXCEPT ![v] = AfterBatch(Tail(client[v].batch))]
    BY <1>8 DEF PushDue
  <2>2. AfterBatch(Tail(client[v].batch)) \in Clients
    BY <1>0, <2>1, ClientStates
  <2> QED BY <1>2, <1>4, <2>1, <2>2
<1>9. CASE \E r \in Runs : Enqueue(r)
  BY <1>1, <1>9 DEF Enqueue
<1>10. CASE \E j \in Jobs : BecomeDue(j)
  BY <1>1, <1>10 DEF BecomeDue
<1> QED BY <1>5, <1>6, <1>7, <1>8, <1>9, <1>10 DEF Next, WorkerStep

\* Every step keeps the batches old.
LEMMA BatchesStayOld ==
    ASSUME OnePlace, OnePlace', BatchesAreOld, [Next]_vars, ~SamePayload
    PROVE  BatchesAreOld'
<1>0. TypeOK /\ TypeOK'
  BY DEF OnePlace
<1>1. CASE UNCHANGED vars
  <2>1. /\ fresh' = fresh /\ list' = list /\ later' = later /\ due' = due /\ client' = client
    BY <1>1 DEF vars
  <2>2. Placed' = Placed
    BY <2>1 DEF Placed, Hands
  <2>3. \A b : Old(b) => Old(b)'
    BY <2>1, <2>2 DEF Old
  <2> QED BY <2>1, <2>3 DEF BatchesAreOld
<1>2. CASE Next
  <2> SUFFICES ASSUME NEW w \in Workers, NEW b \in ReadOf(client'[w])
               PROVE  Old(b)'
    BY DEF BatchesAreOld
  <2>1. Old(b)
    BY <1>2, ReadsMove, DueIsOld DEF BatchesAreOld
  <2>2. JobsMoveOn /\ fresh' \subseteq fresh
    BY <1>2, JobsMove
  <2> QED BY <1>0, <2>1, <2>2, OldStaysOld
<1> QED BY <1>1, <1>2

\* A job that a client read and removes is not one whose delay is not over.
LEMMA RetriesWaitStep ==
    ASSUME OnePlace, BatchesAreOld, [Next]_vars
    PROVE  \A j \in later : j \in later' \union ToSet(due')
<1>0. TypeOK /\ due \in Seq(Jobs)
  BY DEF OnePlace, TypeOK
<1>1. CASE later' = later
  BY <1>1
<1>2. ASSUME NEW w \in Workers, client[w].pc \in {"remove", "cut"}, NEW b \in Jobs,
             b = Head(client[w].batch), Zrem(b)
      PROVE  later' = later
  <2>1. client[w].batch \in Seq(Jobs) /\ client[w].batch # <<>>
    BY <1>0, <1>2, ClientStates
  <2>2. b \in ReadOf(client[w])
    BY <1>2, <2>1, ElementsOfTail DEF ReadOf
  <2>3. Old(b)
    BY <2>2 DEF BatchesAreOld
  <2>4. b.attempt \in Nat
    BY MaxAttemptsAssumption DEF Jobs
  <2>5. b \notin later
    BY <2>3, <2>4 DEF Old, Placed
  <2> QED BY <1>2, <2>5 DEF Zrem
<1>3. ASSUME NEW j \in Jobs, BecomeDue(j)
      PROVE  \A x \in later : x \in later' \union ToSet(due')
  <2>1. later' = later \ {j} /\ due' = Append(due, j)
    BY <1>3 DEF BecomeDue
  <2>2. ToSet(due') = ToSet(due) \union {j}
    BY <1>0, <2>1, ElementsOfAppend
  <2> QED BY <2>1, <2>2
<1>4. ASSUME NEW w \in Workers, RemoveDue(w)
      PROVE  later' = later
  <2>1. client[w].pc = "remove" /\ \E j \in Jobs : j = Head(client[w].batch) /\ Zrem(j)
    BY <1>0, <1>4, RemoveDueMoves
  <2> QED BY <1>2, <2>1
<1>4c. ASSUME NEW w \in Workers, RemoveCut(w)
       PROVE  later' = later
  BY <1>0, <1>2, <1>4c, RemoveCutMoves
<1>5. ASSUME NEW w \in Workers, ReplyLost(w)
      PROVE  later' = later
  BY <1>0, <1>2, <1>5, ReplyLostMoves
<1>6. ASSUME NEW w \in Workers, EnqueueAfter(w)
      PROVE  later \subseteq later'
  BY <1>6 DEF EnqueueAfter
<1>7. ASSUME NEW w \in Workers, RangeDue(w)
      PROVE  later' = later
  BY <1>0, <1>7, RangeReads
<1>8. CASE (\E r \in Runs : Enqueue(r)) \/ UNCHANGED vars
           \/ \E w \in Workers : Connect(w) \/ PushDue(w) \/ Pop(w) \/ PopTimesOut(w) \/ Finish(w)
                                 \/ CommandNotSent(w)
  BY <1>8 DEF Enqueue, vars, Connect, PushDue, Pop, PopTimesOut, Finish, CommandNotSent
<1> QED BY <1>3, <1>4, <1>4c, <1>5, <1>6, <1>7, <1>8 DEF Next, WorkerStep

\* When each retry carries a higher attempt, a batch read long ago names no job that waits
\* for its delay: whatever ZREM removes was due.
THEOREM BatchesOutdated == ASSUME ~SamePayload PROVE Spec => [](OnePlace /\ BatchesAreOld)
<1>1. Init => BatchesAreOld
  BY DEF Init, Idle, BatchesAreOld, ReadOf
<1>2. (OnePlace /\ BatchesAreOld) /\ [Next]_vars => (OnePlace /\ BatchesAreOld)'
  BY OnePlaceStep, BatchesStayOld
<1> QED BY <1>1, <1>2, OnePlaceInit, PTL DEF Spec

\* "failed async runs are retried with backoff": a delayed job leaves the sorted set only
\* when its delay is over, unless a retry may carry the payload of the job it repeats.
THEOREM RetriesAlwaysWait == ASSUME ~SamePayload PROVE Spec => RetriesWait
<1>1. (OnePlace /\ BatchesAreOld) /\ [Next]_vars
        => [\A j \in later : j \in later' \union ToSet(due')]_vars
  BY RetriesWaitStep
<1> QED BY <1>1, BatchesOutdated, PTL DEF Spec, RetriesWait
-----------------------------------------------------------------------------
(* The promise of executor.JobQueue. *)

NoJob     == [none |-> TRUE]
HeldOf(e) == IF e.pc = "hold" THEN e.job ELSE [none |-> TRUE]
Held      == [w \in Workers |-> HeldOf(client[w])]
Delayed   == later \union ToSet(due) \union Promoted
MayDrop   == MaxBreaks > 0 \/ CanOverflow

\* A reply was cut short only if replies may overflow.
CutsOverflow == \A w \in Workers : client[w].pc = "cut" => CanOverflow

LEMMA CutsStep == OnePlace /\ CutsOverflow /\ [Next]_vars => CutsOverflow'
<1> SUFFICES ASSUME OnePlace, CutsOverflow, [Next]_vars, ~CanOverflow,
                    NEW w \in Workers, client'[w].pc = "cut"
             PROVE  FALSE
  BY DEF CutsOverflow
<1>0. TypeOK
  BY DEF OnePlace
<1>1. client[w].pc # "cut"
  BY DEF CutsOverflow
<1>2. ASSUME client' = client PROVE FALSE
  BY <1>1, <1>2
<1>3. ASSUME NEW v \in Workers, NEW e \in Clients, client' = [client EXCEPT ![v] = e], e.pc # "cut"
      PROVE  FALSE
  <2>1. client'[v] = e /\ \A u \in Workers : u # v => client'[u] = client[u]
    BY <1>0, <1>3, ClientTyped
  <2> QED BY <1>1, <1>3, <2>1
<1>4. Idle \in Clients /\ Idle.pc = "idle" /\ [pc |-> "range"] \in Clients
  BY DEF Idle, Clients
<1>5. ASSUME NEW v \in Workers, RangeDue(v) PROVE FALSE
  <2>1. PICK e \in Clients : client' = [client EXCEPT ![v] = e] /\ e.pc # "cut"
    BY <1>5, RangeReads
  <2> QED BY <1>3, <2>1
<1>6. ASSUME NEW v \in Workers, RemoveDue(v) PROVE FALSE
  <2>1. PICK e \in Clients : /\ client' = [client EXCEPT ![v] = e]
                             /\ \/ e = [pc |-> "push", batch |-> client[v].batch]
                                \/ e = AfterBatch(Tail(client[v].batch))
    BY <1>0, <1>6, RemoveDueMoves
  <2>2. e.pc # "cut"
    BY <2>1 DEF AfterBatch
  <2> QED BY <1>3, <2>1, <2>2
<1>7. ASSUME NEW v \in Workers, PushDue(v) PROVE FALSE
  <2>1. client[v].pc = "push" /\ client' = [client EXCEPT ![v] = AfterBatch(Tail(client[v].batch))]
    BY <1>7 DEF PushDue
  <2>2. PICK e \in Clients : e = AfterBatch(Tail(client[v].batch))
    BY <1>0, <2>1, ClientStates
  <2>3. e.pc # "cut"
    BY <2>2 DEF AfterBatch
  <2> QED BY <1>3, <2>1, <2>2, <2>3
<1>8. ASSUME NEW v \in Workers, Pop(v) PROVE FALSE
  <2>1. PICK e \in Clients : client' = [client EXCEPT ![v] = e] /\
                             (e = [pc |-> "hold", job |-> Head(list)] \/ e = Idle)
    BY <1>0, <1>8, PopMoves
  <2>2. e.pc # "cut"
    BY <1>4, <2>1
  <2> QED BY <1>3, <2>1, <2>2
<1>9. ASSUME NEW v \in Workers, Connect(v) PROVE FALSE
  BY <1>3, <1>4, <1>9 DEF Connect
<1>10. ASSUME NEW v \in Workers, PopTimesOut(v) \/ Finish(v) \/ EnqueueAfter(v) \/ RemoveCut(v)
                                 \/ CommandNotSent(v) \/ ReplyLost(v)
       PROVE  FALSE
  <2>1. client' = [client EXCEPT ![v] = Idle]
    BY <1>10 DEF PopTimesOut, Finish, EnqueueAfter, RemoveCut, CommandNotSent, ReplyLost, GivesUp
  <2> QED BY <1>3, <1>4, <2>1
<1>11. CASE UNCHANGED vars \/ (\E r \in Runs : Enqueue(r)) \/ \E j \in Jobs : BecomeDue(j)
  BY <1>2, <1>11 DEF vars, Enqueue, BecomeDue
<1> QED BY <1>5, <1>6, <1>7, <1>8, <1>9, <1>10, <1>11 DEF Next, WorkerStep

\* The actions of the promise, under the mapping.
LEMMA PromisedActions ==
    /\ Queue!Jobs = Jobs
    /\ \A j : Queue!Enqueue(j) <=>
            /\ Queue!Places(j.run) = {}
            /\ list' = Append(list, j) /\ Delayed' = Delayed /\ Held' = Held
    /\ \A w : Queue!Take(w) <=>
            /\ Held[w] = NoJob /\ list # <<>>
            /\ Held' = [Held EXCEPT ![w] = Head(list)]
            /\ list' = Tail(list) /\ Delayed' = Delayed
    /\ \A w : Queue!Finish(w) <=>
            /\ Held[w] # NoJob
            /\ Held' = [Held EXCEPT ![w] = NoJob]
            /\ list' = list /\ Delayed' = Delayed
    /\ \A w, j : Queue!EnqueueAfter(w, j) <=>
            /\ Held[w] # NoJob /\ Held[w].run = j.run
            /\ Held' = [Held EXCEPT ![w] = NoJob]
            /\ Delayed' = Delayed \union {j} /\ list' = list
    /\ \A j : Queue!Promote(j) <=>
            /\ j \in Delayed /\ Delayed' = Delayed \ {j}
            /\ list' = Append(list, j) /\ Held' = Held
    /\ \A j : Queue!Drop(j) <=>
            /\ MayDrop
            /\ \/ (\E i \in DOMAIN list : list[i] = j /\ list' = RemoveAt(list, i)) /\ Delayed' = Delayed
               \/ j \in Delayed /\ Delayed' = Delayed \ {j} /\ list' = list
            /\ Held' = Held
<1>1. Queue!Jobs = Jobs
  BY DEF Queue!Jobs, Jobs
<1>2. \A j : Queue!Enqueue(j) <=>
            /\ Queue!Places(j.run) = {}
            /\ list' = Append(list, j) /\ Delayed' = Delayed /\ Held' = Held
  BY DEF Queue!Enqueue, Delayed, Held, HeldOf
<1>3. \A w : Queue!Take(w) <=>
            /\ Held[w] = NoJob /\ list # <<>>
            /\ Held' = [Held EXCEPT ![w] = Head(list)]
            /\ list' = Tail(list) /\ Delayed' = Delayed
  BY DEF Queue!Take, Queue!NoJob, NoJob, Delayed, Held, HeldOf
<1>4. \A w : Queue!Finish(w) <=>
            /\ Held[w] # NoJob
            /\ Held' = [Held EXCEPT ![w] = NoJob]
            /\ list' = list /\ Delayed' = Delayed
  BY DEF Queue!Finish, Queue!NoJob, NoJob, Delayed, Held, HeldOf
<1>5. \A w, j : Queue!EnqueueAfter(w, j) <=>
            /\ Held[w] # NoJob /\ Held[w].run = j.run
            /\ Held' = [Held EXCEPT ![w] = NoJob]
            /\ Delayed' = Delayed \union {j} /\ list' = list
  BY DEF Queue!EnqueueAfter, Queue!NoJob, NoJob, Delayed, Held, HeldOf
<1>6. \A j : Queue!Promote(j) <=>
            /\ j \in Delayed /\ Delayed' = Delayed \ {j}
            /\ list' = Append(list, j) /\ Held' = Held
  BY DEF Queue!Promote, Delayed, Held, HeldOf
<1>7. \A j : Queue!Drop(j) <=>
            /\ MayDrop
            /\ \/ (\E i \in DOMAIN list : list[i] = j /\ list' = RemoveAt(list, i)) /\ Delayed' = Delayed
               \/ j \in Delayed /\ Delayed' = Delayed \ {j} /\ list' = list
            /\ Held' = Held
  BY DEF Queue!Drop, Queue!RemoveAt, RemoveAt, MayDrop, Delayed, Held, HeldOf
<1> QED BY <1>1, <1>2, <1>3, <1>4, <1>5, <1>6, <1>7

\* One client's step changes what that client holds, and what it promotes.
LEMMA HeldMoves ==
    ASSUME TypeOK, NEW w \in Workers, NEW e \in Clients, client' = [client EXCEPT ![w] = e]
    PROVE  /\ Held' = [Held EXCEPT ![w] = HeldOf(e)]
           /\ Held[w] = HeldOf(client[w])
           /\ HeldOf(e) = HeldOf(client[w]) => Held' = Held
           /\ client[w].pc = "hold" <=> Held[w] # NoJob
<1>1. client'[w] = e /\ \A v \in Workers : v # w => client'[v] = client[v]
  BY ClientTyped
<1>2. Held' = [v \in Workers |-> HeldOf(client'[v])]
  BY DEF Held
<1>3. Held' = [Held EXCEPT ![w] = HeldOf(e)]
  <2>1. Held = [v \in Workers |-> HeldOf(client[v])]
    BY DEF Held
  <2>2. [Held EXCEPT ![w] = HeldOf(e)] = [v \in Workers |-> IF v = w THEN HeldOf(e) ELSE HeldOf(client[v])]
    BY <2>1
  <2>3. \A v \in Workers : HeldOf(client'[v]) = IF v = w THEN HeldOf(e) ELSE HeldOf(client[v])
    BY <1>1
  <2> QED BY <1>2, <2>2, <2>3
<1>4. Held[w] = HeldOf(client[w])
  BY DEF Held
<1>5. ASSUME HeldOf(e) = HeldOf(client[w])
      PROVE  Held' = Held
  <2>1. \A v \in Workers : HeldOf(client'[v]) = HeldOf(client[v])
    BY <1>1, <1>5
  <2> QED BY <1>2, <2>1 DEF Held
<1>6. client[w].pc = "hold" <=> Held[w] # NoJob
  <2>1. CASE client[w].pc = "hold"
    <3>1. PICK a, b : client[w].job = [run |-> a, attempt |-> b]
      BY <2>1, ClientStates DEF Jobs
    <3>2. DOMAIN [run |-> a, attempt |-> b] = {"run", "attempt"} /\ DOMAIN NoJob = {"none"}
      BY DEF NoJob
    <3>3. client[w].job # NoJob
      BY <3>1, <3>2
    <3> QED BY <1>4, <2>1, <3>3 DEF HeldOf
  <2>2. CASE client[w].pc # "hold"
    BY <1>4, <2>2 DEF HeldOf, NoJob
  <2> QED BY <2>1, <2>2
<1> QED BY <1>3, <1>4, <1>5, <1>6

LEMMA PromotedMoves ==
    ASSUME TypeOK, HandsUnique, NEW w \in Workers, NEW e \in Clients, client' = [client EXCEPT ![w] = e]
    PROVE  /\ client[w].pc # "push" /\ e.pc # "push" => Promoted' = Promoted
           /\ client[w].pc # "push" /\ e.pc = "push" => Promoted' = Promoted \union {JobOf(e)}
           /\ client[w].pc = "push" /\ e.pc # "push" =>
                /\ JobOf(client[w]) \in Promoted
                /\ Promoted' = Promoted \ {JobOf(client[w])}
<1>1. client'[w] = e /\ \A v \in Workers : v # w => client'[v] = client[v]
  BY ClientTyped
<1>2. \A x : x \in Promoted <=> \E v \in Workers : client[v].pc = "push" /\ x = JobOf(client[v])
  BY DEF Promoted, JobOf
<1>3. \A x : x \in Promoted' <=> \E v \in Workers : client'[v].pc = "push" /\ x = JobOf(client'[v])
  BY DEF Promoted, JobOf
<1>4. ASSUME client[w].pc # "push", e.pc # "push"
      PROVE  Promoted' = Promoted
  <2>1. \A v \in Workers : client'[v].pc = "push" \/ client[v].pc = "push" => client'[v] = client[v]
    BY <1>1, <1>4
  <2>2. \A x : x \in Promoted' <=> x \in Promoted
    BY <1>2, <1>3, <2>1
  <2> QED BY <2>2
<1>5. ASSUME client[w].pc # "push", e.pc = "push"
      PROVE  Promoted' = Promoted \union {JobOf(e)}
  <2>1. \A x : x \in Promoted' => x \in Promoted \/ x = JobOf(e)
    BY <1>1, <1>2, <1>3
  <2>2. \A x : x \in Promoted \/ x = JobOf(e) => x \in Promoted'
    BY <1>1, <1>2, <1>3, <1>5
  <2> QED BY <2>1, <2>2
<1>6. ASSUME client[w].pc = "push", e.pc # "push"
      PROVE  /\ JobOf(client[w]) \in Promoted
             /\ Promoted' = Promoted \ {JobOf(client[w])}
  <2>1. \A v \in Workers : v # w /\ client[v].pc = "push" => JobOf(client[v]) # JobOf(client[w])
    BY <1>6 DEF HandsUnique, HasJob
  <2> QED BY <1>1, <1>2, <1>3, <1>6, <2>1
<1> QED BY <1>4, <1>5, <1>6

\* A run that is nowhere has no place in the promise.
LEMMA NowhereHasNoPlace ==
    ASSUME OnePlace, NEW r, ~InSeq(list, r), ~InLater(r), ~InSeq(due, r), ~InHand(r)
    PROVE  Queue!Places(r) = {}
<1>0. /\ TypeOK /\ DOMAIN list = 1..Len(list) /\ DOMAIN due = 1..Len(due)
  BY LenProperties DEF OnePlace, TypeOK
<1>1. ASSUME NEW j \in Queue!ToSet(list), j.run = r
      PROVE  FALSE
  BY <1>0, <1>1 DEF Queue!ToSet, InSeq
<1>2. ASSUME NEW j \in later \union ToSet(due) \union Promoted, j.run = r
      PROVE  FALSE
  <2>1. j \notin later
    BY <1>2 DEF InLater
  <2>2. j \notin ToSet(due)
    BY <1>0, <1>2 DEF ToSet, InSeq
  <2>3. j \notin Promoted
    BY <1>2 DEF Promoted, InHand, HasJob, JobOf
  <2> QED BY <1>2, <2>1, <2>2, <2>3
<1>3. ASSUME NEW w \in Workers, client[w].pc = "hold", client[w].job.run = r
      PROVE  FALSE
  BY <1>3 DEF InHand, HasJob, JobOf
<1>4. ASSUME NEW j \in Queue!Places(r)
      PROVE  FALSE
  <2>1. /\ j \in Queue!ToSet(list) \/ j \in later \union ToSet(due) \union Promoted
             \/ \E w \in Workers : j = HeldOf(client[w])
        /\ j # NoJob /\ j.run = r
    BY <1>4 DEF Queue!Places, Queue!Range, Queue!NoJob, NoJob, HeldOf
  <2> QED BY <1>1, <1>2, <1>3, <2>1 DEF HeldOf, NoJob
<1> QED BY <1>4

\* The head of a queue is what is removed at its first place.
LEMMA HeadRemoved ==
    ASSUME NEW S, NEW s \in Seq(S), s # <<>>
    PROVE  /\ 1 \in DOMAIN s /\ s[1] = Head(s)
           /\ RemoveAt(s, 1) = Tail(s)
<1>1. Len(s) \in Nat \ {0} /\ DOMAIN s = 1..Len(s) /\ Head(s) = s[1]
  BY EmptySeq, LenProperties
<1>2. SubSeq(s, 1, 1 - 1) = <<>>
  <2>1. 1 \in Int /\ 1 - 1 \in Int /\ 1 - 1 < 1
    OBVIOUS
  <2> QED BY <2>1, SubSeqEmpty
<1>3. SubSeq(s, 1 + 1, Len(s)) = Tail(s)
  <2>1. Tail(s) = SubSeq(s, 2, Len(s)) /\ 1 + 1 = 2
    BY TailIsSubSeq
  <2> QED BY <2>1
<1>4. Tail(s) \in Seq(S)
  BY HeadTailProperties
<1>5. <<>> \o Tail(s) = Tail(s)
  BY <1>4, ConcatEmptySeq
<1>6. RemoveAt(s, 1) = Tail(s)
  BY <1>2, <1>3, <1>5 DEF RemoveAt
<1> QED BY <1>1, <1>6

\* A job on its way to the list is not in the sorted set.
LEMMA PromotedIsNotSorted ==
    ASSUME OnePlace, NEW w \in Workers, client[w].pc = "push"
    PROVE  /\ JobOf(client[w]) = Head(client[w].batch)
           /\ JobOf(client[w]) \in Jobs
           /\ JobOf(client[w]) \notin later \union ToSet(due)
<1>1. TypeOK /\ due \in Seq(Jobs) /\ DOMAIN due = 1..Len(due)
  BY LenProperties DEF OnePlace, TypeOK
<1>2. PICK j \in Jobs : j = JobOf(client[w]) /\ j = Head(client[w].batch)
  BY <1>1, ClientStates DEF JobOf
<1>3. InHand(j.run) /\ j.run \in Runs
  BY <1>2 DEF InHand, HasJob, Jobs
<1>4. ~InLater(j.run) /\ ~InSeq(due, j.run)
  BY <1>3 DEF OnePlace, Apart
<1>5. j \notin later /\ j \notin ToSet(due)
  BY <1>1, <1>4 DEF InLater, InSeq, ToSet
<1> QED BY <1>2, <1>5

\* Each step is a step of the promise, or none.
LEMMA PromiseStep == OnePlace /\ CutsOverflow /\ [Next]_vars => [Queue!Next]_(Queue!vars)
<1> SUFFICES ASSUME OnePlace, CutsOverflow, [Next]_vars PROVE Queue!Next \/ UNCHANGED Queue!vars
  OBVIOUS
<1>0. TypeOK /\ HandsUnique /\ list \in Seq(Jobs) /\ due \in Seq(Jobs) /\ \A q \in Runs : Apart(q)
  BY DEF OnePlace, TypeOK
<1>s. ASSUME list' = list, Delayed' = Delayed, Held' = Held
      PROVE  UNCHANGED Queue!vars
  BY <1>s DEF Queue!vars, Delayed, Held, HeldOf
<1>d. ASSUME NEW j \in Jobs
      PROVE  Queue!Enqueue(j) \/ Queue!Promote(j) \/ Queue!Drop(j) => Queue!Next
  BY PromisedActions DEF Queue!Next
<1>c. ASSUME client' = client
      PROVE  Held' = Held /\ Promoted' = Promoted
  BY <1>c DEF Held, Promoted
<1>1. CASE UNCHANGED vars
  <2>1. list' = list /\ later' = later /\ due' = due /\ client' = client
    BY <1>1 DEF vars
  <2>2. Delayed' = Delayed
    BY <1>c, <2>1 DEF Delayed
  <2> QED BY <1>c, <1>s, <2>1, <2>2
<1>2. ASSUME NEW r \in Runs, Enqueue(r)
      PROVE  Queue!Next
  <2>0. PICK j \in Jobs : j = [run |-> r, attempt |-> 0] /\ j.run = r
    <3>1. 0 \in 0..(MaxAttempts - 1)
      BY MaxAttemptsAssumption
    <3>2. [run |-> r, attempt |-> 0] \in Jobs
      BY <3>1 DEF Jobs
    <3> QED BY <3>2
  <2>1. /\ r \in fresh /\ list' = Append(list, j)
        /\ later' = later /\ due' = due /\ client' = client
    BY <1>2, <2>0 DEF Enqueue
  <2>2. ~InSeq(list, r) /\ ~InLater(r) /\ ~InSeq(due, r) /\ ~InHand(r)
    BY <1>0, <2>1 DEF Apart
  <2>3. Queue!Places(j.run) = {}
    BY <2>0, <2>2, NowhereHasNoPlace
  <2>4. Delayed' = Delayed /\ Held' = Held
    BY <1>c, <2>1 DEF Delayed
  <2>5. Queue!Enqueue(j)
    BY <2>1, <2>3, <2>4, PromisedActions
  <2> QED BY <1>d, <2>5
<1>3. ASSUME NEW j \in Jobs, BecomeDue(j)
      PROVE  UNCHANGED Queue!vars
  <2>1. /\ j \in later /\ later' = later \ {j} /\ due' = Append(due, j)
        /\ list' = list /\ client' = client
    BY <1>3 DEF BecomeDue
  <2>2. ToSet(due') = ToSet(due) \union {j}
    BY <1>0, <2>1, ElementsOfAppend
  <2>3. Delayed' = Delayed
    BY <1>c, <2>1, <2>2 DEF Delayed
  <2> QED BY <1>c, <1>s, <2>1, <2>3
\* A client moves on, and Redis stays as it is.
<1>4. ASSUME NEW w \in Workers, NEW e \in Clients, client' = [client EXCEPT ![w] = e],
             ~HasJob(e), list' = list, later' = later, due' = due,
             client[w].pc = "push" => MaxBreaks > 0
      PROVE  Queue!Next \/ UNCHANGED Queue!vars
  <2>0. HeldOf(e) = NoJob /\ e.pc # "push"
    BY <1>4 DEF HasJob, HeldOf, NoJob
  <2>1. CASE client[w].pc = "hold"
    <3>1. Held[w] # NoJob /\ Held' = [Held EXCEPT ![w] = NoJob]
      BY <1>0, <1>4, <2>0, <2>1, HeldMoves
    <3>2. Delayed' = Delayed
      BY <1>0, <1>4, <2>0, <2>1, PromotedMoves DEF Delayed
    <3>3. Queue!Finish(w)
      BY <1>4, <3>1, <3>2, PromisedActions
    <3> QED BY <3>3 DEF Queue!Next
  <2>2. CASE client[w].pc = "push"
    <3>1. PICK j \in Jobs : j = JobOf(client[w]) /\ j \notin later \union ToSet(due)
      BY <2>2, PromotedIsNotSorted
    <3>2. j \in Promoted /\ Promoted' = Promoted \ {j}
      BY <1>0, <1>4, <2>0, <2>2, <3>1, PromotedMoves
    <3>3. j \in Delayed /\ Delayed' = Delayed \ {j}
      BY <1>4, <3>1, <3>2 DEF Delayed
    <3>4. HeldOf(client[w]) = NoJob
      BY <2>2 DEF HeldOf, NoJob
    <3>5. Held' = Held
      BY <1>0, <1>4, <2>0, <3>4, HeldMoves
    <3>6. MayDrop
      BY <1>4, <2>2 DEF MayDrop
    <3>7. Queue!Drop(j)
      BY <1>4, <3>3, <3>5, <3>6, PromisedActions
    <3> QED BY <1>d, <3>7
  <2>3. CASE client[w].pc \notin {"hold", "push"}
    <3>1. HeldOf(client[w]) = NoJob
      BY <2>3 DEF HeldOf, NoJob
    <3>2. Held' = Held
      BY <1>0, <1>4, <2>0, <3>1, HeldMoves
    <3>3. Delayed' = Delayed
      BY <1>0, <1>4, <2>0, <2>3, PromotedMoves DEF Delayed
    <3> QED BY <1>4, <1>s, <3>2, <3>3
  <2> QED BY <2>1, <2>2, <2>3
<1>5. ASSUME NEW w \in Workers, Connect(w) \/ PopTimesOut(w) \/ Finish(w)
      PROVE  Queue!Next \/ UNCHANGED Queue!vars
  <2>1. PICK e : e \in {[pc |-> "range"], Idle} /\ client' = [client EXCEPT ![w] = e]
    BY <1>5 DEF Connect, PopTimesOut, Finish
  <2>2. list' = list /\ later' = later /\ due' = due /\ client[w].pc # "push"
    BY <1>5 DEF Connect, PopTimesOut, Finish, Idle
  <2>3. e \in Clients /\ ~HasJob(e)
    BY <2>1 DEF Clients, Idle, HasJob
  <2> QED BY <1>4, <2>1, <2>2, <2>3
<1>6. ASSUME NEW w \in Workers, RangeDue(w)
      PROVE  Queue!Next \/ UNCHANGED Queue!vars
  <2>1. PICK e \in Clients : client' = [client EXCEPT ![w] = e] /\ e.pc \in {"idle", "pop", "remove", "cut"}
    BY <1>0, <1>6, RangeReads
  <2>2. list' = list /\ later' = later /\ due' = due /\ client[w].pc # "push"
    BY <1>0, <1>6, RangeReads
  <2>3. ~HasJob(e)
    BY <2>1 DEF HasJob
  <2> QED BY <1>4, <2>1, <2>2, <2>3
<1>7. ASSUME NEW w \in Workers, CommandNotSent(w)
      PROVE  Queue!Next \/ UNCHANGED Queue!vars
  <2>1. client' = [client EXCEPT ![w] = Idle] /\ list' = list /\ later' = later /\ due' = due
    BY <1>7 DEF CommandNotSent, GivesUp
  <2>2. MaxBreaks > 0
    BY <1>0, <1>7, SwitchAssumption DEF CommandNotSent, GivesUp, TypeOK
  <2>3. Idle \in Clients /\ ~HasJob(Idle)
    BY <1>0, ClientStates
  <2> QED BY <1>4, <2>1, <2>2, <2>3
\* ZREM: the job stays delayed while it is in somebody's hands, and is lost in nobody's.
<1>8. ASSUME NEW w \in Workers, client[w].pc \in {"remove", "cut"}, NEW j \in Jobs, Zrem(j), list' = list,
             NEW e \in Clients, client' = [client EXCEPT ![w] = e], e.pc # "hold",
             \/ InSortedSet(j) /\ e.pc = "push" /\ JobOf(e) = j
             \/ e.pc # "push" /\ (InSortedSet(j) => MayDrop)
      PROVE  Queue!Next \/ UNCHANGED Queue!vars
  <2>1. HeldOf(client[w]) = NoJob /\ HeldOf(e) = NoJob
    BY <1>8 DEF HeldOf, NoJob
  <2>2. Held' = Held
    BY <1>0, <1>8, <2>1, HeldMoves
  <2>3. later' \union ToSet(due') = (later \union ToSet(due)) \ {j}
    BY <1>8, ZremRemoves
  <2>4. CASE InSortedSet(j) /\ e.pc = "push" /\ JobOf(e) = j
    <3>1. Promoted' = Promoted \union {j}
      BY <1>0, <1>8, <2>4, PromotedMoves
    <3>2. Delayed' = Delayed
      BY <2>3, <2>4, <3>1 DEF Delayed, InSortedSet
    <3> QED BY <1>8, <1>s, <2>2, <3>2
  <2>5. CASE e.pc # "push" /\ (InSortedSet(j) => MayDrop)
    <3>1. Promoted' = Promoted
      BY <1>0, <1>8, <2>5, PromotedMoves
    <3>2. CASE InSortedSet(j)
      <4>1. j \in Jobs /\ j.run \in Runs /\ (InLater(j.run) \/ InSeq(due, j.run))
        BY <1>8, <3>2, ZremRemoves DEF Jobs
      <4>2. ~InHand(j.run)
        BY <1>0, <4>1 DEF Apart
      <4>3. j \notin Promoted
        BY <4>2 DEF Promoted, InHand, HasJob, JobOf
      <4>4. j \in Delayed /\ Delayed' = Delayed \ {j}
        BY <2>3, <3>1, <3>2, <4>3 DEF Delayed, InSortedSet
      <4>5. MayDrop
        BY <2>5, <3>2
      <4>6. Queue!Drop(j)
        BY <1>8, <2>2, <4>4, <4>5, PromisedActions
      <4> QED BY <1>d, <4>6
    <3>3. CASE ~InSortedSet(j)
      <4>1. Delayed' = Delayed
        BY <2>3, <3>1, <3>3 DEF Delayed, InSortedSet
      <4> QED BY <1>8, <1>s, <2>2, <4>1
    <3> QED BY <3>2, <3>3
  <2> QED BY <1>8, <2>4, <2>5
<1>9. ASSUME NEW w \in Workers, RemoveDue(w)
      PROVE  Queue!Next \/ UNCHANGED Queue!vars
  <2>1. client[w].pc = "remove" /\ list' = list
    BY <1>0, <1>9, RemoveDueMoves
  <2>2. PICK j \in Jobs, e \in Clients :
            /\ Zrem(j) /\ client' = [client EXCEPT ![w] = e]
            /\ \/ /\ InSortedSet(j) /\ e = [pc |-> "push", batch |-> client[w].batch]
                  /\ JobOf(e) = j
               \/ ~InSortedSet(j) /\ ~HasJob(e)
    BY <1>0, <1>9, RemoveDueMoves
  <2>3. CASE InSortedSet(j) /\ e = [pc |-> "push", batch |-> client[w].batch] /\ JobOf(e) = j
    <3>1. e.pc = "push"
      BY <2>3
    <3> QED BY <1>8, <2>1, <2>2, <2>3, <3>1
  <2>4. CASE ~InSortedSet(j) /\ ~HasJob(e)
    <3>1. e.pc # "push" /\ e.pc # "hold"
      BY <2>4 DEF HasJob
    <3> QED BY <1>8, <2>1, <2>2, <2>4, <3>1
  <2> QED BY <2>2, <2>3, <2>4
\* Behind a reply cut short the job is lost, or stays where it is.
<1>9c. ASSUME NEW w \in Workers, RemoveCut(w)
       PROVE  Queue!Next \/ UNCHANGED Queue!vars
  <2>1. /\ client[w].pc = "cut" /\ list' = list
        /\ client' = [client EXCEPT ![w] = Idle] /\ Idle \in Clients /\ ~HasJob(Idle)
        /\ Idle.pc = "idle" /\ MayDrop
    BY <1>0, <1>9c, RemoveCutMoves DEF Idle, CutsOverflow, MayDrop
  <2>2. ASSUME NEW j \in Jobs, Zrem(j)
        PROVE  Queue!Next \/ UNCHANGED Queue!vars
    BY <1>8, <2>1, <2>2
  <2>3. CASE later' = later /\ due' = due
    BY <1>4, <2>1, <2>3
  <2> QED BY <1>0, <1>9c, <2>2, <2>3, RemoveCutMoves
\* LPUSH promotes the job, whether its reply arrives or not.
<1>10. ASSUME NEW w \in Workers, client[w].pc = "push",
              list' = Append(list, Head(client[w].batch)), later' = later, due' = due,
              NEW e \in Clients, client' = [client EXCEPT ![w] = e], ~HasJob(e)
       PROVE  Queue!Next
  <2>1. PICK j \in Jobs : /\ j = JobOf(client[w]) /\ j = Head(client[w].batch)
                          /\ j \notin later \union ToSet(due)
    BY <1>10, PromotedIsNotSorted
  <2>2. HeldOf(client[w]) = NoJob /\ HeldOf(e) = NoJob /\ e.pc # "push"
    BY <1>10 DEF HasJob, HeldOf, NoJob
  <2>3. Held' = Held
    BY <1>0, <1>10, <2>2, HeldMoves
  <2>4. j \in Promoted /\ Promoted' = Promoted \ {j}
    BY <1>0, <1>10, <2>1, <2>2, PromotedMoves
  <2>5. j \in Delayed /\ Delayed' = Delayed \ {j}
    BY <1>10, <2>1, <2>4 DEF Delayed
  <2>6. Queue!Promote(j)
    BY <1>10, <2>1, <2>3, <2>5, PromisedActions
  <2> QED BY <1>d, <2>6
<1>11. ASSUME NEW w \in Workers, PushDue(w)
       PROVE  Queue!Next
  <2>1. /\ client[w].pc = "push" /\ list' = Append(list, Head(client[w].batch))
        /\ later' = later /\ due' = due
    BY <1>11 DEF PushDue
  <2>2. PICK e : e = AfterBatch(Tail(client[w].batch)) /\ client' = [client EXCEPT ![w] = e]
    BY <1>11 DEF PushDue
  <2>3. e \in Clients /\ ~HasJob(e)
    BY <1>0, <2>1, <2>2, ClientStates
  <2> QED BY <1>10, <2>1, <2>2, <2>3
\* BRPOP hands the head of the list over, or loses it.
<1>12. ASSUME NEW w \in Workers, client[w].pc = "pop", list # <<>>, list' = Tail(list),
              later' = later, due' = due, NEW e \in Clients, client' = [client EXCEPT ![w] = e],
              \/ e = [pc |-> "hold", job |-> Head(list)]
              \/ e = Idle /\ MayDrop
       PROVE  Queue!Next
  <2>1. HeldOf(client[w]) = NoJob
    BY <1>12 DEF HeldOf, NoJob
  <2>2. e.pc # "push"
    BY <1>12 DEF Idle
  <2>3. Delayed' = Delayed
    BY <1>0, <1>12, <2>2, PromotedMoves DEF Delayed
  <2>4. CASE e = [pc |-> "hold", job |-> Head(list)]
    <3>1. HeldOf(e) = Head(list)
      BY <2>4 DEF HeldOf
    <3>0. Held' = [Held EXCEPT ![w] = HeldOf(e)] /\ Held[w] = HeldOf(client[w])
      BY <1>0, <1>12, HeldMoves
    <3>2. Held[w] = NoJob /\ Held' = [Held EXCEPT ![w] = Head(list)]
      BY <2>1, <3>0, <3>1
    <3>3. Queue!Take(w)
      BY <1>12, <2>3, <3>2, PromisedActions
    <3> QED BY <3>3 DEF Queue!Next
  <2>5. CASE e = Idle /\ MayDrop
    <3>1. HeldOf(e) = NoJob
      BY <2>5 DEF HeldOf, NoJob, Idle
    <3>2. Held' = Held
      BY <1>0, <1>12, <2>1, <3>1, HeldMoves
    <3>3. PICK j \in Jobs : j = Head(list)
      BY <1>0, <1>12, HeadTailProperties
    <3>4. 1 \in DOMAIN list /\ list[1] = j /\ list' = RemoveAt(list, 1)
      BY <1>0, <1>12, <3>3, HeadRemoved
    <3>5. Queue!Drop(j)
      BY <2>3, <2>5, <3>2, <3>4, PromisedActions
    <3> QED BY <1>d, <3>5
  <2> QED BY <1>12, <2>4, <2>5
<1>13. ASSUME NEW w \in Workers, Pop(w)
       PROVE  Queue!Next
  <2>1. /\ client[w].pc = "pop" /\ list # <<>> /\ list' = Tail(list) /\ Head(list) \in Jobs
        /\ later' = later /\ due' = due
    BY <1>0, <1>13, PopMoves
  <2>2. PICK e \in Clients :
            /\ client' = [client EXCEPT ![w] = e]
            /\ \/ e = [pc |-> "hold", job |-> Head(list)]
               \/ e = Idle /\ ~Fits(<<Head(list)>>)
    BY <1>0, <1>13, PopMoves
  <2>3. ASSUME ~Fits(<<Head(list)>>) PROVE MayDrop
    <3>1. <<Head(list)>> \in [1..1 -> Jobs] /\ 1 \in 1..Batch
      BY <2>1, BatchAssumption
    <3>2. \A i, k \in 1..1 : i = k
      OBVIOUS
    <3> QED BY <2>3, <3>1, <3>2 DEF MayDrop, CanOverflow
  <2> QED BY <1>12, <2>1, <2>2, <2>3
<1>14. ASSUME NEW w \in Workers, ReplyLost(w)
       PROVE  Queue!Next \/ UNCHANGED Queue!vars
  <2>1. /\ MaxBreaks > 0
        /\ client' = [client EXCEPT ![w] = Idle] /\ Idle \in Clients /\ ~HasJob(Idle)
        /\ Idle.pc = "idle"
    BY <1>0, <1>14, ReplyLostMoves DEF Idle
  <2>2. ASSUME client[w].pc = "remove", list' = list, NEW j \in Jobs, Zrem(j)
        PROVE  Queue!Next \/ UNCHANGED Queue!vars
    BY <1>8, <2>1, <2>2 DEF MayDrop
  <2>3. ASSUME client[w].pc = "push", list' = Append(list, Head(client[w].batch)),
               later' = later, due' = due
        PROVE  Queue!Next
    BY <1>10, <2>1, <2>3
  <2>4. ASSUME client[w].pc = "pop", list # <<>>, list' = Tail(list), later' = later, due' = due
        PROVE  Queue!Next
    BY <1>12, <2>1, <2>4 DEF MayDrop
  <2> QED BY <1>0, <1>14, <2>2, <2>3, <2>4, ReplyLostMoves
<1>15. ASSUME NEW w \in Workers, EnqueueAfter(w)
       PROVE  Queue!Next
  <2>1. /\ client[w].pc = "hold" /\ client' = [client EXCEPT ![w] = Idle] /\ list' = list
    BY <1>15 DEF EnqueueAfter
  <2>2. PICK j \in Jobs : j.run = client[w].job.run /\ later' = later \union {j} /\ due' = due
    BY <1>15, OnePlaceEnqueueAfter
  <2>3. Idle \in Clients /\ HeldOf(Idle) = NoJob /\ Idle.pc # "push"
    BY <1>0, ClientStates DEF HeldOf, NoJob, Idle
  <2>4. Held[w] # NoJob /\ Held[w] = HeldOf(client[w]) /\ Held' = [Held EXCEPT ![w] = NoJob]
    BY <1>0, <2>1, <2>3, HeldMoves
  <2>5. Held[w].run = j.run
    BY <2>1, <2>2, <2>4 DEF HeldOf
  <2>6. Promoted' = Promoted
    BY <1>0, <2>1, <2>3, PromotedMoves
  <2>7. Delayed' = Delayed \union {j}
    BY <2>2, <2>6 DEF Delayed
  <2>8. Queue!EnqueueAfter(w, j)
    BY <2>1, <2>4, <2>5, <2>7, PromisedActions
  <2>9. j \in Queue!Jobs
    BY PromisedActions
  <2> QED BY <2>8, <2>9 DEF Queue!Next
<1>16. CASE Next
  BY <1>2, <1>3, <1>5, <1>6, <1>7, <1>9, <1>9c, <1>11, <1>13, <1>14, <1>15, <1>16 DEF Next, WorkerStep
<1> QED BY <1>1, <1>16

\* The promise's queue starts empty.
LEMMA PromiseInit == Init => Queue!Init
<1> SUFFICES ASSUME Init PROVE Queue!Init
  OBVIOUS
<1>1. list = <<>> /\ later = {} /\ due = <<>> /\ \A w \in Workers : client[w].pc = "idle"
  BY DEF Init, Idle
<1>2. ToSet(due) = {} /\ Promoted = {}
  BY <1>1 DEF ToSet, Promoted
<1> QED BY <1>1, <1>2 DEF Queue!Init, Queue!NoJob

\* The list, the sorted set and the workers between their commands together are a queue as
\* executor.JobQueue promises it: first in, first out once the delay is over, nothing in
\* two places, and nothing lost unless a connection breaks or a batch of due jobs, one
\* of a run at most, goes beyond what a single read of its reply brings.
THEOREM QueuePromiseKept == Spec => KeepsQueuePromise
<1>1. Init => CutsOverflow
  BY DEF Init, Idle, CutsOverflow
<1> QED BY <1>1, JobsInOnePlace, CutsStep, PromiseInit, PromiseStep, PTL
        DEF Spec, KeepsQueuePromise, Queue!Spec
=============================================================================
