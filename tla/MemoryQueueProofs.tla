--------------------------- MODULE MemoryQueueProofs ---------------------------
(***************************************************************************)
(* Proofs about MemoryQueue, for every set of runs and workers and every   *)
(* size of the channel.  The channel and the sends that wait for it are    *)
(* one line; every step either leaves it, appends to it, takes its head or *)
(* withdraws one of its jobs, and a run is never in two places.            *)
(***************************************************************************)
EXTENDS MemoryQueue, SequenceTheorems, TLAPS

-----------------------------------------------------------------------------
(* Sequences. *)

\* What removing one element leaves.
LEMMA RemoveAtProperties ==
    ASSUME NEW S, NEW s \in Seq(S), NEW i \in 1..Len(s)
    PROVE  /\ RemoveAt(s, i) \in Seq(S)
           /\ Len(RemoveAt(s, i)) = Len(s) - 1
           /\ \A k \in 1..(Len(s) - 1) :
                RemoveAt(s, i)[k] = IF k < i THEN s[k] ELSE s[k + 1]
<1> DEFINE a == SubSeq(s, 1, i - 1)
           b == SubSeq(s, i + 1, Len(s))
<1>0. Len(s) \in Nat /\ i - 1 \in Int /\ i + 1 \in Int
  BY LenProperties
<1>1. /\ a \in Seq(S)
      /\ Len(a) = IF 1 <= i - 1 THEN i - 1 - 1 + 1 ELSE 0
      /\ \A k \in 1..(i - 1 - 1 + 1) : a[k] = s[1 + k - 1]
  <2>1. \A k \in 1..(i - 1) : s[k] \in S
    BY <1>0, ElementOfSeq
  <2> QED BY <1>0, <2>1, SubSeqProperties
<1>2. /\ b \in Seq(S)
      /\ Len(b) = IF i + 1 <= Len(s) THEN Len(s) - (i + 1) + 1 ELSE 0
      /\ \A k \in 1..(Len(s) - (i + 1) + 1) : b[k] = s[i + 1 + k - 1]
  <2>1. \A k \in (i + 1)..Len(s) : s[k] \in S
    BY <1>0, ElementOfSeq
  <2> QED BY <1>0, <2>1, SubSeqProperties
<1>3. Len(a) = i - 1 /\ Len(b) = Len(s) - i
  BY <1>0, <1>1, <1>2
<1>4. /\ a \o b \in Seq(S)
      /\ Len(a \o b) = Len(a) + Len(b)
      /\ \A k \in 1..(Len(a) + Len(b)) :
            (a \o b)[k] = IF k <= Len(a) THEN a[k] ELSE b[k - Len(a)]
  BY <1>1, <1>2, ConcatProperties
<1>5. RemoveAt(s, i) = a \o b
  BY DEF RemoveAt
<1> HIDE DEF a, b
<1>6. ASSUME NEW k \in 1..(Len(s) - 1)
      PROVE  (a \o b)[k] = IF k < i THEN s[k] ELSE s[k + 1]
  <2>1. CASE k < i
    BY <1>0, <1>1, <1>3, <1>4, <2>1
  <2>2. CASE ~(k < i)
    <3>1. k - (i - 1) \in 1..(Len(s) - (i + 1) + 1) /\ ~(k <= Len(a))
      BY <1>0, <1>3, <2>2
    <3>2. b[k - (i - 1)] = s[i + 1 + (k - (i - 1)) - 1]
      BY <1>2, <3>1
    <3>3. i + 1 + (k - (i - 1)) - 1 = k + 1 /\ k \in 1..(Len(a) + Len(b))
      BY <1>0, <1>3
    <3> QED BY <1>3, <1>4, <2>2, <3>1, <3>2, <3>3
  <2> QED BY <2>1, <2>2
<1>7. Len(a \o b) = Len(s) - 1
  BY <1>0, <1>3, <1>4
<1> QED BY <1>4, <1>5, <1>6, <1>7

\* Appending to the second of two sequences appends to both.
LEMMA AppendToConcat ==
    ASSUME NEW S, NEW s \in Seq(S), NEW t \in Seq(S), NEW e \in S
    PROVE  s \o Append(t, e) = Append(s \o t, e)
<1>1. <<e>> \in Seq(S)
  OBVIOUS
<1>2. Append(t, e) = t \o <<e>>
  BY AppendIsConcat
<1>3. s \o t \in Seq(S)
  BY ConcatProperties
<1>4. Append(s \o t, e) = (s \o t) \o <<e>>
  BY <1>3, AppendIsConcat
<1>5. (s \o t) \o <<e>> = s \o (t \o <<e>>)
  BY <1>1, ConcatAssociative
<1> QED BY <1>2, <1>4, <1>5

\* Head and tail of a concatenation are the first sequence's.
LEMMA HeadTailOfConcat ==
    ASSUME NEW S, NEW s \in Seq(S), NEW t \in Seq(S), s # <<>>
    PROVE  /\ s \o t # <<>>
           /\ Head(s \o t) = Head(s)
           /\ Tail(s \o t) = Tail(s) \o t
<1>1. /\ Len(s) \in Nat \ {0} /\ Len(t) \in Nat
      /\ s \o t \in Seq(S) /\ Len(s \o t) = Len(s) + Len(t)
      /\ \A i \in 1..(Len(s) + Len(t)) :
            (s \o t)[i] = IF i <= Len(s) THEN s[i] ELSE t[i - Len(s)]
  BY ConcatProperties, EmptySeq, LenProperties
<1>2. s \o t # <<>>
  BY <1>1, EmptySeq
<1>3. /\ Tail(s) \in Seq(S) /\ Len(Tail(s)) = Len(s) - 1
      /\ \A i \in 1..(Len(s) - 1) : Tail(s)[i] = s[i + 1]
  BY HeadTailProperties
<1>4. /\ Tail(s \o t) \in Seq(S) /\ Len(Tail(s \o t)) = Len(s) + Len(t) - 1
      /\ \A i \in 1..(Len(s) + Len(t) - 1) : Tail(s \o t)[i] = (s \o t)[i + 1]
  BY <1>1, <1>2, HeadTailProperties
<1>5. /\ Tail(s) \o t \in Seq(S) /\ Len(Tail(s) \o t) = Len(s) - 1 + Len(t)
      /\ \A i \in 1..(Len(s) - 1 + Len(t)) :
            (Tail(s) \o t)[i] = IF i <= Len(s) - 1 THEN Tail(s)[i] ELSE t[i - (Len(s) - 1)]
  BY <1>3, ConcatProperties
<1>6. ASSUME NEW i \in 1..(Len(s) + Len(t) - 1)
      PROVE  Tail(s \o t)[i] = (Tail(s) \o t)[i]
  <2>1. CASE i <= Len(s) - 1
    BY <1>1, <1>3, <1>4, <1>5, <2>1
  <2>2. CASE ~(i <= Len(s) - 1)
    <3>1. /\ (s \o t)[i + 1] = t[i + 1 - Len(s)]
          /\ i + 1 - Len(s) = i - (Len(s) - 1)
      BY <1>1, <2>2
    <3> QED BY <1>1, <1>4, <1>5, <2>2, <3>1
  <2> QED BY <2>1, <2>2
<1>7. Tail(s \o t) = Tail(s) \o t
  <2>1. Len(Tail(s \o t)) = Len(Tail(s) \o t)
    BY <1>1, <1>4, <1>5
  <2>2. \A i \in 1..Len(Tail(s \o t)) : Tail(s \o t)[i] = (Tail(s) \o t)[i]
    BY <1>4, <1>6
  <2> QED BY <1>4, <1>5, <2>1, <2>2, SeqEqual
<1>8. Head(s \o t) = Head(s)
  <2>1. Head(s \o t) = (s \o t)[1] /\ Head(s) = s[1]
    BY <1>1, <1>2
  <2> QED BY <1>1, <2>1
<1> QED BY <1>2, <1>7, <1>8

\* Moving the head of the second to the end of the first leaves the two the same line.
LEMMA MoveAcross ==
    ASSUME NEW S, NEW s \in Seq(S), NEW t \in Seq(S), t # <<>>
    PROVE  Append(s, Head(t)) \o Tail(t) = s \o t
<1>1. Head(t) \in S /\ Tail(t) \in Seq(S)
  BY HeadTailProperties
<1>2. <<Head(t)>> \in Seq(S)
  BY <1>1
<1>3. Append(s, Head(t)) = s \o <<Head(t)>>
  BY <1>1, AppendIsConcat
<1>4. (s \o <<Head(t)>>) \o Tail(t) = s \o (<<Head(t)>> \o Tail(t))
  BY <1>1, <1>2, ConcatAssociative
<1>5. <<Head(t)>> \o Tail(t) = t
  <2>1. Len(t) \in Nat \ {0}
    BY EmptySeq
  <2>2. SubSeq(t, 1, Len(t)) = <<t[1]>> \o SubSeq(t, 1 + 1, Len(t))
    BY <2>1, SubSeqRecursiveFirst
  <2>3. SubSeq(t, 1, Len(t)) = t
    BY SubSeqFull
  <2>4. Tail(t) = SubSeq(t, 2, Len(t))
    BY TailIsSubSeq
  <2>5. Head(t) = t[1] /\ 1 + 1 = 2
    BY <2>1
  <2> QED BY <2>2, <2>3, <2>4, <2>5
<1> QED BY <1>3, <1>4, <1>5

\* Removing from the second of two sequences removes from both.
LEMMA RemoveFromConcat ==
    ASSUME NEW S, NEW s \in Seq(S), NEW t \in Seq(S), NEW i \in 1..Len(t)
    PROVE  s \o RemoveAt(t, i) = RemoveAt(s \o t, Len(s) + i)
<1>0. /\ Len(s) \in Nat /\ Len(t) \in Nat
      /\ s \o t \in Seq(S) /\ Len(s \o t) = Len(s) + Len(t)
      /\ \A k \in 1..(Len(s) + Len(t)) :
            (s \o t)[k] = IF k <= Len(s) THEN s[k] ELSE t[k - Len(s)]
  BY ConcatProperties, LenProperties
<1> DEFINE n == Len(s)
           u == RemoveAt(t, i)
           p == s \o u
           q == RemoveAt(s \o t, n + i)
<1>1. /\ u \in Seq(S) /\ Len(u) = Len(t) - 1
      /\ \A k \in 1..(Len(t) - 1) : u[k] = IF k < i THEN t[k] ELSE t[k + 1]
  BY RemoveAtProperties
<1>2. /\ p \in Seq(S) /\ Len(p) = n + (Len(t) - 1)
      /\ \A k \in 1..(n + (Len(t) - 1)) : p[k] = IF k <= n THEN s[k] ELSE u[k - n]
  <2>1. /\ p \in Seq(S) /\ Len(p) = n + Len(u)
        /\ \A k \in 1..(n + Len(u)) : p[k] = IF k <= n THEN s[k] ELSE u[k - n]
    BY <1>1, ConcatProperties
  <2> HIDE DEF p, u, n
  <2> QED BY <1>1, <2>1
<1>3. /\ q \in Seq(S) /\ Len(q) = n + Len(t) - 1
      /\ \A k \in 1..(n + Len(t) - 1) :
            q[k] = IF k < n + i THEN (s \o t)[k] ELSE (s \o t)[k + 1]
  <2>1. n + i \in 1..Len(s \o t)
    BY <1>0
  <2>2. /\ q \in Seq(S) /\ Len(q) = Len(s \o t) - 1
        /\ \A k \in 1..(Len(s \o t) - 1) :
              q[k] = IF k < n + i THEN (s \o t)[k] ELSE (s \o t)[k + 1]
    BY <1>0, <2>1, RemoveAtProperties
  <2> HIDE DEF q
  <2> QED BY <1>0, <2>2
<1> HIDE DEF u, p, q
<1>4. ASSUME NEW k \in 1..(n + Len(t) - 1)
      PROVE  p[k] = q[k]
  <2>1. CASE k <= n
    BY <1>0, <1>2, <1>3, <2>1
  <2>2. CASE ~(k <= n) /\ k < n + i
    <3>1. /\ k - n \in 1..(Len(t) - 1) /\ k - n < i
          /\ k \in 1..(n + (Len(t) - 1)) /\ k \in 1..(n + Len(t))
      BY <1>0, <2>2
    <3>2. p[k] = t[k - n]
      BY <1>1, <1>2, <2>2, <3>1
    <3>3. q[k] = t[k - n]
      BY <1>0, <1>3, <2>2, <3>1
    <3> QED BY <3>2, <3>3
  <2>3. CASE ~(k < n + i)
    <3>1. /\ k - n \in 1..(Len(t) - 1) /\ ~(k - n < i) /\ ~(k <= n) /\ ~(k + 1 <= n)
          /\ k \in 1..(n + (Len(t) - 1)) /\ k + 1 \in 1..(n + Len(t))
          /\ k + 1 - n = k - n + 1
      BY <1>0, <2>3
    <3>2. p[k] = t[k - n + 1]
      BY <1>1, <1>2, <3>1
    <3>3. q[k] = t[k + 1 - n]
      BY <1>0, <1>3, <2>3, <3>1
    <3> QED BY <3>1, <3>2, <3>3
  <2> QED BY <1>0, <2>1, <2>2, <2>3
<1>5. Len(p) = Len(q)
  BY <1>0, <1>2, <1>3
<1>6. \A k \in 1..Len(p) : p[k] = q[k]
  BY <1>3, <1>4, <1>5
<1>7. p = q
  BY <1>2, <1>3, <1>5, <1>6, SeqEqual
<1> QED BY <1>7 DEF p, q, u
-----------------------------------------------------------------------------
(* The line: the buffer of the channel and the sends that wait for it. *)

Sends     == [job: Jobs, by: {"request", "timer"}]
JobsOf(s) == [i \in DOMAIN s |-> s[i].job]
Line      == channel \o Waiting

\* The jobs of a sequence of sends are as many, in the same order.
LEMMA JobsOfProperties ==
    ASSUME NEW s \in Seq(Sends)
    PROVE  /\ JobsOf(s) \in Seq(Jobs)
           /\ Len(JobsOf(s)) = Len(s)
           /\ \A i \in 1..Len(s) : JobsOf(s)[i] = s[i].job
<1>1. Len(s) \in Nat /\ DOMAIN s = 1..Len(s)
  BY LenProperties
<1>2. \A i \in 1..Len(s) : s[i].job \in Jobs
  <2>1. \A i \in 1..Len(s) : s[i] \in Sends
    BY ElementOfSeq
  <2>2. \A x \in Sends : x.job \in Jobs
    BY DEF Sends
  <2> QED BY <2>1, <2>2
<1>3. JobsOf(s) \in [1..Len(s) -> Jobs]
  BY <1>1, <1>2 DEF JobsOf
<1>4. JobsOf(s) \in Seq(Jobs) /\ Len(JobsOf(s)) = Len(s)
  BY <1>1, <1>3
<1> QED BY <1>1, <1>4 DEF JobsOf

\* Their jobs follow what is done to the sends.
LEMMA JobsOfSteps ==
    ASSUME NEW s \in Seq(Sends)
    PROVE  /\ \A x \in Sends : JobsOf(Append(s, x)) = Append(JobsOf(s), x.job)
           /\ s # <<>> => /\ JobsOf(s) # <<>>
                          /\ JobsOf(Tail(s)) = Tail(JobsOf(s))
                          /\ Head(JobsOf(s)) = Head(s).job
           /\ \A i \in 1..Len(s) : JobsOf(RemoveAt(s, i)) = RemoveAt(JobsOf(s), i)
<1>0. /\ Len(s) \in Nat /\ JobsOf(s) \in Seq(Jobs) /\ Len(JobsOf(s)) = Len(s)
      /\ \A i \in 1..Len(s) : JobsOf(s)[i] = s[i].job
  BY JobsOfProperties, LenProperties
<1>1. ASSUME NEW x \in Sends
      PROVE  JobsOf(Append(s, x)) = Append(JobsOf(s), x.job)
  <2> DEFINE p == JobsOf(Append(s, x))
             q == Append(JobsOf(s), x.job)
  <2>0. x.job \in Jobs
    BY DEF Sends
  <2>1. /\ Append(s, x) \in Seq(Sends) /\ Len(Append(s, x)) = Len(s) + 1
        /\ \A i \in 1..Len(s) : Append(s, x)[i] = s[i]
        /\ Append(s, x)[Len(s) + 1] = x
    BY AppendProperties
  <2>2. /\ p \in Seq(Jobs) /\ Len(p) = Len(s) + 1
        /\ \A i \in 1..(Len(s) + 1) : p[i] = Append(s, x)[i].job
    BY <2>1, JobsOfProperties
  <2>3. /\ q \in Seq(Jobs) /\ Len(q) = Len(s) + 1
        /\ \A i \in 1..Len(s) : q[i] = s[i].job
        /\ q[Len(s) + 1] = x.job
    BY <1>0, <2>0, AppendProperties
  <2> HIDE DEF p, q
  <2>4. \A i \in 1..(Len(s) + 1) : p[i] = q[i]
    BY <1>0, <2>1, <2>2, <2>3
  <2>5. p = q
    BY <2>2, <2>3, <2>4, SeqEqual
  <2> QED BY <2>5 DEF p, q
<1>2. ASSUME s # <<>>
      PROVE  /\ JobsOf(s) # <<>>
             /\ JobsOf(Tail(s)) = Tail(JobsOf(s))
             /\ Head(JobsOf(s)) = Head(s).job
  <2> DEFINE p == JobsOf(Tail(s))
             q == Tail(JobsOf(s))
  <2>0. Len(s) \in Nat \ {0} /\ JobsOf(s) # <<>>
    BY <1>0, <1>2, EmptySeq
  <2>1. /\ Tail(s) \in Seq(Sends) /\ Len(Tail(s)) = Len(s) - 1
        /\ \A i \in 1..(Len(s) - 1) : Tail(s)[i] = s[i + 1]
    BY <1>2, HeadTailProperties
  <2>2. /\ p \in Seq(Jobs) /\ Len(p) = Len(s) - 1
        /\ \A i \in 1..(Len(s) - 1) : p[i] = Tail(s)[i].job
    BY <2>1, JobsOfProperties
  <2>3. /\ q \in Seq(Jobs) /\ Len(q) = Len(s) - 1
        /\ \A i \in 1..(Len(s) - 1) : q[i] = JobsOf(s)[i + 1]
    BY <1>0, <2>0, HeadTailProperties
  <2>4. Head(JobsOf(s)) = JobsOf(s)[1] /\ Head(s) = s[1]
    BY <1>0, <1>2, <2>0
  <2> HIDE DEF p, q
  <2>5. \A i \in 1..(Len(s) - 1) : p[i] = q[i]
    BY <1>0, <2>1, <2>2, <2>3
  <2>6. p = q
    BY <2>2, <2>3, <2>5, SeqEqual
  <2> QED BY <1>0, <2>0, <2>4, <2>6 DEF p, q
<1>3. ASSUME NEW i \in 1..Len(s)
      PROVE  JobsOf(RemoveAt(s, i)) = RemoveAt(JobsOf(s), i)
  <2> DEFINE p == JobsOf(RemoveAt(s, i))
             q == RemoveAt(JobsOf(s), i)
  <2>1. /\ RemoveAt(s, i) \in Seq(Sends) /\ Len(RemoveAt(s, i)) = Len(s) - 1
        /\ \A k \in 1..(Len(s) - 1) : RemoveAt(s, i)[k] = IF k < i THEN s[k] ELSE s[k + 1]
    BY RemoveAtProperties
  <2>2. /\ p \in Seq(Jobs) /\ Len(p) = Len(s) - 1
        /\ \A k \in 1..(Len(s) - 1) : p[k] = RemoveAt(s, i)[k].job
    BY <2>1, JobsOfProperties
  <2>3. /\ q \in Seq(Jobs) /\ Len(q) = Len(s) - 1
        /\ \A k \in 1..(Len(s) - 1) :
              q[k] = IF k < i THEN JobsOf(s)[k] ELSE JobsOf(s)[k + 1]
    <3>1. i \in 1..Len(JobsOf(s))
      BY <1>0
    <3>2. /\ q \in Seq(Jobs) /\ Len(q) = Len(JobsOf(s)) - 1
          /\ \A k \in 1..(Len(JobsOf(s)) - 1) :
                q[k] = IF k < i THEN JobsOf(s)[k] ELSE JobsOf(s)[k + 1]
      BY <1>0, <3>1, RemoveAtProperties
    <3> HIDE DEF q
    <3> QED BY <1>0, <3>2
  <2> HIDE DEF p, q
  <2>4. ASSUME NEW k \in 1..(Len(s) - 1)
        PROVE  p[k] = q[k]
    <3>1. k \in 1..Len(s) /\ k + 1 \in 1..Len(s)
      BY <1>0
    <3>2. /\ JobsOf(s)[k] = s[k].job /\ JobsOf(s)[k + 1] = s[k + 1].job
          /\ p[k] = RemoveAt(s, i)[k].job
      BY <1>0, <2>2, <3>1
    <3>3. CASE k < i
      <4>1. RemoveAt(s, i)[k] = s[k]
        BY <2>1, <3>3
      <4>2. q[k] = JobsOf(s)[k]
        BY <2>3, <3>3
      <4> QED BY <3>2, <4>1, <4>2
    <3>4. CASE ~(k < i)
      <4>1. RemoveAt(s, i)[k] = s[k + 1]
        BY <2>1, <3>4
      <4>2. q[k] = JobsOf(s)[k + 1]
        BY <2>3, <3>4
      <4> QED BY <3>2, <4>1, <4>2
    <3> QED BY <3>3, <3>4
  <2>5. p = q
    BY <2>2, <2>3, <2>4, SeqEqual
  <2> QED BY <2>5 DEF p, q
<1> QED BY <1>1, <1>2, <1>3

\* The line is a sequence of jobs.
LEMMA LineTyped ==
    ASSUME TypeOK
    PROVE  /\ channel \in Seq(Jobs) /\ senders \in Seq(Sends) /\ Waiting \in Seq(Jobs)
           /\ Waiting = JobsOf(senders)
           /\ Line \in Seq(Jobs) /\ Len(Line) \in Nat /\ DOMAIN Line = 1..Len(Line)
           /\ \A i \in 1..Len(Line) : Line[i] \in Jobs
<1>1. channel \in Seq(Jobs) /\ senders \in Seq(Sends) /\ Waiting = JobsOf(senders)
  BY DEF TypeOK, Sends, Waiting, JobsOf
<1>2. Waiting \in Seq(Jobs)
  BY <1>1, JobsOfProperties
<1>3. Line \in Seq(Jobs)
  BY <1>1, <1>2, ConcatProperties DEF Line
<1>4. /\ Len(Line) \in Nat /\ DOMAIN Line = 1..Len(Line)
      /\ \A i \in 1..Len(Line) : Line[i] \in Jobs
  BY <1>3, LenProperties, ElementOfSeq
<1> QED BY <1>1, <1>2, <1>3, <1>4

\* A send joins the end of the line, whether there is room in the channel or not.
LEMMA SendAppends ==
    ASSUME TypeOK, NEW j \in Jobs, NEW who \in {"request", "timer"}, Send(j, who)
    PROVE  /\ Line' = Append(Line, j)
           /\ channel' \in Seq(Jobs) /\ Len(channel') <= Capacity
           /\ senders' \in Seq(Sends)
           /\ senders' # <<>> => Len(channel') = Capacity
<1>0. channel \in Seq(Jobs) /\ senders \in Seq(Sends) /\ Waiting = JobsOf(senders)
  BY LineTyped
<1>1. Waiting \in Seq(Jobs) /\ Waiting' = JobsOf(senders')
  BY LineTyped DEF Waiting, JobsOf
<1>2. /\ Len(channel) \in Nat /\ Len(channel) <= Capacity /\ Capacity \in Nat
      /\ senders # <<>> => Len(channel) = Capacity
  BY <1>0, LenProperties, CapacityAssumption DEF TypeOK
<1>3. CASE Len(channel) < Capacity
  <2>1. channel' = Append(channel, j) /\ senders' = senders /\ senders = <<>>
    BY <1>2, <1>3 DEF Send
  <2>2. Waiting = <<>> /\ Waiting' = <<>>
    <3>1. Len(Waiting) = Len(senders) /\ Len(senders) = 0
      BY <1>0, <2>1, JobsOfProperties
    <3>2. Waiting = <<>>
      BY <1>1, <3>1, EmptySeq
    <3> QED BY <1>0, <1>1, <2>1, <3>2
  <2>3. /\ channel' \in Seq(Jobs) /\ Len(channel') = Len(channel) + 1
    BY <1>0, <2>1, AppendProperties
  <2>4. Line = channel /\ Line' = channel'
    BY <1>0, <2>2, <2>3, ConcatEmptySeq DEF Line
  <2> QED BY <1>0, <1>2, <1>3, <2>1, <2>3, <2>4
<1>4. CASE ~(Len(channel) < Capacity)
  <2> DEFINE x == [job |-> j, by |-> who]
  <2>1. channel' = channel /\ senders' = Append(senders, x)
    BY <1>4 DEF Send
  <2>2. x \in Sends /\ x.job = j
    BY DEF Sends
  <2>3. senders' \in Seq(Sends)
    BY <1>0, <2>1, <2>2, AppendProperties
  <2>4. Waiting' = Append(Waiting, j)
    BY <1>0, <1>1, <2>1, <2>2, JobsOfSteps
  <2>5. Line' = Append(Line, j)
    <3>1. channel \o Append(Waiting, j) = Append(channel \o Waiting, j)
      BY <1>0, <1>1, AppendToConcat
    <3> QED BY <2>1, <2>4, <3>1 DEF Line
  <2> QED BY <1>0, <1>2, <1>4, <2>1, <2>3, <2>5
<1> QED BY <1>3, <1>4

\* A receive takes the head of the line and lets the first waiting send in.
LEMMA DequeueTakesHead ==
    ASSUME TypeOK, NEW w \in Workers, Dequeue(w)
    PROVE  /\ Line # <<>> /\ Head(channel) = Head(Line) /\ Line' = Tail(Line)
           /\ channel' \in Seq(Jobs) /\ Len(channel') <= Capacity
           /\ senders' \in Seq(Sends)
           /\ senders' # <<>> => Len(channel') = Capacity
<1>0. channel \in Seq(Jobs) /\ senders \in Seq(Sends) /\ Waiting = JobsOf(senders)
  BY LineTyped
<1>1. Waiting \in Seq(Jobs) /\ Waiting' = JobsOf(senders')
  BY LineTyped DEF Waiting, JobsOf
<1>2. /\ Len(channel) \in Nat /\ Len(channel) <= Capacity /\ Capacity \in Nat
      /\ senders # <<>> => Len(channel) = Capacity
  BY <1>0, LenProperties, CapacityAssumption DEF TypeOK
<1>3. channel # <<>>
  BY DEF Dequeue
<1>4. Line # <<>> /\ Head(Line) = Head(channel) /\ Tail(Line) = Tail(channel) \o Waiting
  BY <1>0, <1>1, <1>3, HeadTailOfConcat DEF Line
<1>5. Tail(channel) \in Seq(Jobs) /\ Len(Tail(channel)) = Len(channel) - 1
  BY <1>0, <1>3, HeadTailProperties
<1>6. CASE senders = <<>>
  <2>1. channel' = Tail(channel) /\ senders' = senders
    BY <1>6 DEF Dequeue
  <2>2. Waiting' = Waiting
    BY <1>0, <1>1, <2>1
  <2> QED BY <1>0, <1>2, <1>4, <1>5, <1>6, <2>1, <2>2 DEF Line
<1>7. CASE senders # <<>>
  <2>1. channel' = Append(Tail(channel), Head(senders).job) /\ senders' = Tail(senders)
    BY <1>7 DEF Dequeue
  <2>2. Waiting # <<>> /\ Waiting' = Tail(Waiting) /\ Head(Waiting) = Head(senders).job
    BY <1>0, <1>1, <1>7, <2>1, JobsOfSteps
  <2>3. Head(Waiting) \in Jobs
    BY <1>1, <2>2, HeadTailProperties
  <2>4. channel' \in Seq(Jobs) /\ Len(channel') = Len(channel) - 1 + 1
    BY <1>5, <2>1, <2>2, <2>3, AppendProperties
  <2>5. senders' \in Seq(Sends)
    BY <1>0, <1>7, <2>1, HeadTailProperties
  <2>6. Line' = Tail(channel) \o Waiting
    <3>1. Append(Tail(channel), Head(Waiting)) \o Tail(Waiting) = Tail(channel) \o Waiting
      BY <1>1, <1>5, <2>2, MoveAcross
    <3> QED BY <2>1, <2>2, <3>1 DEF Line
  <2>7. Len(channel') = Capacity /\ Len(channel') <= Capacity
    BY <1>2, <1>7, <2>4
  <2>8. Line' = Tail(Line)
    BY <1>4, <2>6
  <2> QED BY <1>4, <2>4, <2>5, <2>7, <2>8
<1> QED BY <1>6, <1>7

\* A request that gives up withdraws one job from the line.
LEMMA GivingUpRemoves ==
    ASSUME TypeOK, NEW i \in 1..Len(senders), senders' = RemoveAt(senders, i),
           channel' = channel
    PROVE  /\ Len(channel) + i \in 1..Len(Line)
           /\ Line[Len(channel) + i] = senders[i].job
           /\ Line' = RemoveAt(Line, Len(channel) + i)
           /\ senders' \in Seq(Sends)
           /\ senders' # <<>> => senders # <<>>
<1>0. channel \in Seq(Jobs) /\ senders \in Seq(Sends) /\ Waiting = JobsOf(senders)
  BY LineTyped
<1>1. Waiting \in Seq(Jobs) /\ Waiting' = JobsOf(senders')
  BY LineTyped DEF Waiting, JobsOf
<1>2. Len(channel) \in Nat /\ Len(senders) \in Nat /\ Len(Waiting) = Len(senders)
  BY <1>0, LenProperties, JobsOfProperties
<1>3. Waiting' = RemoveAt(Waiting, i)
  BY <1>0, <1>1, JobsOfSteps
<1>4. Line' = RemoveAt(Line, Len(channel) + i)
  BY <1>0, <1>1, <1>2, <1>3, RemoveFromConcat DEF Line
<1>5. /\ Len(Line) = Len(channel) + Len(senders)
      /\ \A k \in 1..(Len(channel) + Len(senders)) :
            Line[k] = IF k <= Len(channel) THEN channel[k] ELSE Waiting[k - Len(channel)]
  <2>1. /\ Len(Line) = Len(channel) + Len(Waiting)
        /\ \A k \in 1..(Len(channel) + Len(Waiting)) :
              Line[k] = IF k <= Len(channel) THEN channel[k] ELSE Waiting[k - Len(channel)]
    BY <1>0, <1>1, ConcatProperties DEF Line
  <2> QED BY <1>2, <2>1
<1>6. Waiting[i] = senders[i].job
  BY <1>0, JobsOfProperties
<1>7. /\ Len(channel) + i \in 1..(Len(channel) + Len(senders))
      /\ ~(Len(channel) + i <= Len(channel)) /\ Len(channel) + i - Len(channel) = i
  BY <1>2
<1>8. Line[Len(channel) + i] = senders[i].job
  <2> DEFINE k == Len(channel) + i
  <2>1. Line[k] = IF k <= Len(channel) THEN channel[k] ELSE Waiting[k - Len(channel)]
    BY <1>5, <1>7
  <2> QED BY <1>6, <1>7, <2>1
<1>9. senders' \in Seq(Sends) /\ senders # <<>>
  BY <1>0, <1>2, RemoveAtProperties, EmptySeq
<1> QED BY <1>4, <1>5, <1>7, <1>8, <1>9
-----------------------------------------------------------------------------
(* Which runs are where. *)

\* How the execution of a job ends concerns the same run.
LEMMA EndingsTyped ==
    ASSUME NEW j \in Jobs, NEW e \in Endings(j)
    PROVE  /\ e \in [pc: {"finish", "retry"}, job: Jobs]
           /\ e # Idle
           /\ e.job.run = j.run
           /\ e.pc = "finish" => e.job = j
           /\ e.pc = "retry" => e.job.attempt - 1 = j.attempt
<1>0. /\ j = [run |-> j.run, attempt |-> j.attempt]
      /\ j.run \in Runs /\ j.attempt \in 0..(MaxAttempts - 1) /\ MaxAttempts \in Nat
  BY MaxAttemptsAssumption DEF Jobs
<1>1. Idle.pc = "idle"
  BY DEF Idle
<1>2. CASE e = [pc |-> "finish", job |-> j]
  BY <1>0, <1>1, <1>2
<1>3. CASE e = [pc |-> "retry", job |-> Retried(j)] /\ e.job.attempt < MaxAttempts
  <2>1. Retried(j) = [run |-> j.run, attempt |-> j.attempt + 1]
    BY <1>0 DEF Retried
  <2>2. Retried(j) \in Jobs /\ Retried(j).run = j.run /\ Retried(j).attempt - 1 = j.attempt
    BY <1>0, <1>3, <2>1 DEF Jobs
  <2> QED BY <1>1, <1>3, <2>2
<1> QED BY <1>2, <1>3 DEF Endings

InSeq(s, r) == \E k \in 1..Len(s) : s[k].run = r
Unique(s)   == \A i, k \in 1..Len(s) : s[i].run = s[k].run => i = k

\* The runs of a line, after a send, a receive and a withdrawal.
LEMMA RunsOfAppend ==
    ASSUME NEW s \in Seq(Jobs), NEW j \in Jobs
    PROVE  /\ \A r : InSeq(Append(s, j), r) <=> InSeq(s, r) \/ j.run = r
           /\ Unique(s) /\ ~InSeq(s, j.run) => Unique(Append(s, j))
<1> DEFINE t == Append(s, j)
<1>1. /\ Len(s) \in Nat /\ Len(t) = Len(s) + 1
      /\ \A i \in 1..Len(s) : t[i] = s[i]
      /\ t[Len(s) + 1] = j
  BY LenProperties, AppendProperties
<1> HIDE DEF t
<1>2. \A k : k \in 1..(Len(s) + 1) <=> k \in 1..Len(s) \/ k = Len(s) + 1
  BY <1>1
<1>3. \A r : InSeq(t, r) <=> InSeq(s, r) \/ j.run = r
  BY <1>1, <1>2 DEF InSeq
<1>4. Unique(s) /\ ~InSeq(s, j.run) => Unique(t)
  BY <1>1, <1>2 DEF InSeq, Unique
<1> QED BY <1>3, <1>4 DEF t

LEMMA RunsOfTail ==
    ASSUME NEW s \in Seq(Jobs), s # <<>>, Unique(s)
    PROVE  /\ Head(s) \in Jobs
           /\ InSeq(s, Head(s).run)
           /\ \A r : InSeq(Tail(s), r) <=> InSeq(s, r) /\ r # Head(s).run
           /\ Unique(Tail(s))
<1> DEFINE t == Tail(s)
<1>0. Len(s) \in Nat \ {0}
  BY EmptySeq
<1>1. /\ Len(t) = Len(s) - 1
      /\ \A i \in 1..(Len(s) - 1) : t[i] = s[i + 1]
      /\ Head(s) \in Jobs
  BY HeadTailProperties
<1>2. Head(s) = s[1]
  BY <1>0
<1> HIDE DEF t
<1>3. InSeq(s, Head(s).run)
  BY <1>0, <1>2 DEF InSeq
<1>4. ASSUME NEW r
      PROVE  InSeq(t, r) <=> InSeq(s, r) /\ r # Head(s).run
  <2>1. ASSUME InSeq(t, r)
        PROVE  InSeq(s, r) /\ r # Head(s).run
    <3>1. PICK k \in 1..(Len(s) - 1) : t[k].run = r
      BY <1>1, <2>1 DEF InSeq
    <3>2. k + 1 \in 1..Len(s) /\ 1 \in 1..Len(s) /\ k + 1 # 1 /\ s[k + 1].run = r
      BY <1>0, <1>1, <3>1
    <3> QED BY <1>2, <3>2 DEF InSeq, Unique
  <2>2. ASSUME InSeq(s, r), r # Head(s).run
        PROVE  InSeq(t, r)
    <3>1. PICK k \in 1..Len(s) : s[k].run = r
      BY <2>2 DEF InSeq
    <3>2. k # 1
      BY <1>2, <2>2, <3>1
    <3>3. k - 1 \in 1..(Len(s) - 1) /\ k - 1 + 1 = k
      BY <1>0, <3>2
    <3> QED BY <1>1, <3>1, <3>3 DEF InSeq
  <2> QED BY <2>1, <2>2
<1>5. Unique(t)
  <2> SUFFICES ASSUME NEW i \in 1..(Len(s) - 1), NEW k \in 1..(Len(s) - 1), t[i].run = t[k].run
               PROVE  i = k
    BY <1>1 DEF Unique
  <2>1. i + 1 \in 1..Len(s) /\ k + 1 \in 1..Len(s)
    BY <1>0
  <2>2. i + 1 = k + 1
    BY <1>1, <2>1 DEF Unique
  <2> QED BY <1>0, <2>2
<1> QED BY <1>1, <1>3, <1>4, <1>5 DEF t

LEMMA RunsOfRemoval ==
    ASSUME NEW s \in Seq(Jobs), NEW m \in 1..Len(s), Unique(s)
    PROVE  /\ \A r : InSeq(RemoveAt(s, m), r) <=> InSeq(s, r) /\ r # s[m].run
           /\ Unique(RemoveAt(s, m))
<1> DEFINE t == RemoveAt(s, m)
<1>0. Len(s) \in Nat
  BY LenProperties
<1>1. /\ Len(t) = Len(s) - 1
      /\ \A k \in 1..(Len(s) - 1) : t[k] = IF k < m THEN s[k] ELSE s[k + 1]
  BY RemoveAtProperties
<1> HIDE DEF t
<1> DEFINE at(k) == IF k < m THEN k ELSE k + 1
<1>2. ASSUME NEW k \in 1..(Len(s) - 1)
      PROVE  at(k) \in 1..Len(s) /\ at(k) # m /\ t[k] = s[at(k)]
  BY <1>0, <1>1
<1>3. ASSUME NEW i \in 1..(Len(s) - 1), NEW k \in 1..(Len(s) - 1), at(i) = at(k)
      PROVE  i = k
  BY <1>0, <1>3
<1>4. ASSUME NEW k \in 1..Len(s), k # m
      PROVE  \E i \in 1..(Len(s) - 1) : at(i) = k
  <2>1. CASE k < m
    <3>1. k \in 1..(Len(s) - 1) /\ at(k) = k
      BY <1>0, <2>1
    <3> QED BY <3>1
  <2>2. CASE k > m
    <3>1. k - 1 \in 1..(Len(s) - 1) /\ ~(k - 1 < m) /\ k - 1 + 1 = k
      BY <1>0, <2>2
    <3> QED BY <3>1
  <2> QED BY <1>0, <1>4, <2>1, <2>2
<1> HIDE DEF at
<1>5. ASSUME NEW r
      PROVE  InSeq(t, r) <=> InSeq(s, r) /\ r # s[m].run
  <2>1. ASSUME InSeq(t, r)
        PROVE  InSeq(s, r) /\ r # s[m].run
    <3>1. PICK k \in 1..(Len(s) - 1) : t[k].run = r
      BY <1>1, <2>1 DEF InSeq
    <3>2. at(k) \in 1..Len(s) /\ at(k) # m /\ s[at(k)].run = r
      BY <1>2, <3>1
    <3> QED BY <3>2 DEF InSeq, Unique
  <2>2. ASSUME InSeq(s, r), r # s[m].run
        PROVE  InSeq(t, r)
    <3>1. PICK k \in 1..Len(s) : s[k].run = r
      BY <2>2 DEF InSeq
    <3>2. PICK i \in 1..(Len(s) - 1) : at(i) = k
      BY <1>4, <2>2, <3>1
    <3> QED BY <1>1, <1>2, <3>1, <3>2 DEF InSeq
  <2> QED BY <2>1, <2>2
<1>6. Unique(t)
  <2> SUFFICES ASSUME NEW i \in 1..(Len(s) - 1), NEW k \in 1..(Len(s) - 1), t[i].run = t[k].run
               PROVE  i = k
    BY <1>1 DEF Unique
  <2>1. at(i) \in 1..Len(s) /\ at(k) \in 1..Len(s) /\ s[at(i)].run = s[at(k)].run
    BY <1>2
  <2>2. at(i) = at(k)
    BY <2>1 DEF Unique
  <2> QED BY <1>3, <2>2
<1> QED BY <1>5, <1>6 DEF t

-----------------------------------------------------------------------------
(* The invariant. *)

OnLine(r)  == InSeq(Line, r)
OnTimer(r) == \E j \in timers : j.run = r

TimersUnique  == \A j, k \in timers : j.run = k.run => j = k
WorkersUnique ==
    \A v, w \in Workers :
        worker[v] # Idle /\ worker[w] # Idle /\ worker[v].job.run = worker[w].job.run => v = w

\* A run has one job, which is in one place; a refused one has none.
Apart(r) ==
    /\ r \in fresh => ~OnLine(r) /\ ~OnTimer(r) /\ ~IsTaken(r) /\ r \notin refused
    /\ OnLine(r) => ~OnTimer(r) /\ ~IsTaken(r) /\ r \notin refused
    /\ OnTimer(r) => ~IsTaken(r) /\ r \notin refused
    /\ IsTaken(r) => r \notin refused

OnePlace ==
    /\ TypeOK
    /\ Unique(Line)
    /\ TimersUnique
    /\ WorkersUnique
    /\ \A r \in Runs : Apart(r)
\* The queue starts empty.
LEMMA OnePlaceInit == Init => OnePlace
<1> SUFFICES ASSUME Init PROVE OnePlace
  OBVIOUS
<1>1. TypeOK
  BY CapacityAssumption DEF Init, TypeOK
<1>2. Len(Line) = 0
  <2>1. /\ channel = <<>> /\ senders = <<>> /\ channel \in Seq(Jobs) /\ senders \in Seq(Sends)
        /\ Waiting = JobsOf(senders) /\ Waiting \in Seq(Jobs)
    BY <1>1, LineTyped DEF Init
  <2>2. Len(Waiting) = 0 /\ Len(channel) = 0
    BY <2>1, JobsOfProperties
  <2>3. Len(Line) = Len(channel) + Len(Waiting)
    BY <2>1, ConcatProperties DEF Line
  <2> QED BY <2>2, <2>3
<1>3. Unique(Line) /\ \A r : ~OnLine(r)
  BY <1>2 DEF Unique, OnLine, InSeq
<1>4. TimersUnique /\ WorkersUnique
  BY DEF Init, TimersUnique, WorkersUnique
<1>5. \A r : ~OnTimer(r) /\ ~IsTaken(r) /\ r \notin refused
  BY DEF Init, OnTimer, IsTaken
<1> QED BY <1>1, <1>3, <1>4, <1>5 DEF OnePlace, Apart

\* A step of the line that appends job j, of a run that was in one other place.
LEMMA AppendStep ==
    ASSUME OnePlace, NEW j \in Jobs, NEW who \in {"request", "timer"}, Send(j, who),
           ~OnLine(j.run)
    PROVE  /\ channel' \in Seq(Jobs) /\ Len(channel') <= Capacity
           /\ senders' \in Seq(Sends)
           /\ senders' # <<>> => Len(channel') = Capacity
           /\ Line' = Append(Line, j)
           /\ Unique(Line')
           /\ \A r : OnLine(r)' <=> OnLine(r) \/ r = j.run
<1>1. TypeOK /\ Unique(Line)
  BY DEF OnePlace
<1>2. /\ Line' = Append(Line, j)
      /\ channel' \in Seq(Jobs) /\ Len(channel') <= Capacity
      /\ senders' \in Seq(Sends)
      /\ senders' # <<>> => Len(channel') = Capacity
  BY <1>1, SendAppends
<1>3. Line \in Seq(Jobs)
  BY <1>1, LineTyped
<1>4. /\ \A r : InSeq(Line', r) <=> InSeq(Line, r) \/ j.run = r
      /\ Unique(Line')
  BY <1>1, <1>2, <1>3, RunsOfAppend DEF OnLine
<1> QED BY <1>2, <1>4 DEF OnLine

LEMMA OnePlaceEnqueue ==
    ASSUME OnePlace, NEW r \in Runs, Enqueue(r)
    PROVE  OnePlace'
<1> DEFINE j == [run |-> r, attempt |-> 0]
<1>0. j \in Jobs /\ j.run = r
  BY MaxAttemptsAssumption DEF Jobs
<1>1. /\ r \in fresh /\ fresh' = fresh \ {r} /\ Send(j, "request")
      /\ timers' = timers /\ worker' = worker /\ refused' = refused
  BY DEF Enqueue
<1> HIDE DEF j
<1>2. TypeOK /\ TimersUnique /\ WorkersUnique /\ \A q \in Runs : Apart(q)
  BY DEF OnePlace
<1>3. ~OnLine(r) /\ ~OnTimer(r) /\ ~IsTaken(r) /\ r \notin refused
  BY <1>1, <1>2 DEF Apart
<1>4. /\ channel' \in Seq(Jobs) /\ Len(channel') <= Capacity
      /\ senders' \in Seq(Sends)
      /\ senders' # <<>> => Len(channel') = Capacity
      /\ Unique(Line')
      /\ \A q : OnLine(q)' <=> OnLine(q) \/ q = r
  BY <1>0, <1>1, <1>3, AppendStep
<1>5. TypeOK'
  BY <1>1, <1>2, <1>4 DEF TypeOK, Sends
<1>6. TimersUnique' /\ WorkersUnique'
  BY <1>1, <1>2 DEF TimersUnique, WorkersUnique
<1>7. \A q : (OnTimer(q)' <=> OnTimer(q)) /\ (IsTaken(q)' <=> IsTaken(q))
  BY <1>1 DEF OnTimer, IsTaken
<1>8. ASSUME NEW q \in Runs PROVE Apart(q)'
  BY <1>1, <1>2, <1>3, <1>4, <1>7 DEF Apart
<1> QED BY <1>4, <1>5, <1>6, <1>8 DEF OnePlace

LEMMA OnePlaceTimer ==
    ASSUME OnePlace, NEW j \in Jobs, TimerFires(j)
    PROVE  OnePlace'
<1>0. j.run \in Runs
  BY DEF Jobs
<1>1. /\ j \in timers /\ timers' = timers \ {j} /\ Send(j, "timer")
      /\ fresh' = fresh /\ worker' = worker /\ refused' = refused
  BY DEF TimerFires
<1>2. TypeOK /\ TimersUnique /\ WorkersUnique /\ \A q \in Runs : Apart(q)
  BY DEF OnePlace
<1>3. OnTimer(j.run)
  BY <1>1 DEF OnTimer
<1>3a. /\ ~OnLine(j.run) /\ ~IsTaken(j.run)
       /\ j.run \notin refused /\ j.run \notin fresh
  BY <1>0, <1>2, <1>3 DEF Apart
<1>4. /\ channel' \in Seq(Jobs) /\ Len(channel') <= Capacity
      /\ senders' \in Seq(Sends)
      /\ senders' # <<>> => Len(channel') = Capacity
      /\ Unique(Line')
      /\ \A q : OnLine(q)' <=> OnLine(q) \/ q = j.run
  BY <1>1, <1>3a, AppendStep
<1>5. TypeOK'
  BY <1>1, <1>2, <1>4 DEF TypeOK, Sends
<1>6. TimersUnique' /\ WorkersUnique'
  BY <1>1, <1>2 DEF TimersUnique, WorkersUnique
<1>7. \A q : (OnTimer(q)' <=> OnTimer(q) /\ q # j.run) /\ (IsTaken(q)' <=> IsTaken(q))
  BY <1>1, <1>2 DEF OnTimer, IsTaken, TimersUnique
<1>8. ASSUME NEW q \in Runs PROVE Apart(q)'
  BY <1>1, <1>2, <1>3a, <1>4, <1>7 DEF Apart
<1> QED BY <1>4, <1>5, <1>6, <1>8 DEF OnePlace

LEMMA OnePlaceGivesUp ==
    ASSUME OnePlace, NEW r \in Runs, EnqueueGivesUp(r)
    PROVE  OnePlace'
<1>1. /\ refused' = refused \union {r}
      /\ channel' = channel /\ timers' = timers /\ worker' = worker
  BY DEF EnqueueGivesUp
<1>2. TypeOK /\ Unique(Line) /\ TimersUnique /\ WorkersUnique /\ \A q \in Runs : Apart(q)
  BY DEF OnePlace
<1>3. \A q : (OnTimer(q)' <=> OnTimer(q)) /\ (IsTaken(q)' <=> IsTaken(q))
  BY <1>1 DEF OnTimer, IsTaken
<1>4. TimersUnique' /\ WorkersUnique'
  BY <1>1, <1>2 DEF TimersUnique, WorkersUnique
<1>5. CASE r \in fresh /\ fresh' = fresh \ {r} /\ senders' = senders
  <2>1. Line' = Line
    BY <1>1, <1>5 DEF Line, Waiting
  <2>2. Unique(Line') /\ \A q : OnLine(q)' <=> OnLine(q)
    BY <1>2, <2>1 DEF OnLine
  <2>3. TypeOK'
    BY <1>1, <1>2, <1>5 DEF TypeOK
  <2>4. ASSUME NEW q \in Runs PROVE Apart(q)'
    BY <1>1, <1>2, <1>3, <1>5, <2>2 DEF Apart
  <2> QED BY <1>4, <2>2, <2>3, <2>4 DEF OnePlace
<1>6. ASSUME NEW i \in DOMAIN senders, senders[i].job.run = r,
             senders' = RemoveAt(senders, i), fresh' = fresh
      PROVE  OnePlace'
  <2>0. i \in 1..Len(senders)
    BY <1>2, LineTyped, LenProperties
  <2> DEFINE m == Len(channel) + i
  <2>1. /\ m \in 1..Len(Line) /\ Line[m] = senders[i].job /\ Line' = RemoveAt(Line, m)
        /\ senders' \in Seq(Sends) /\ (senders' # <<>> => senders # <<>>)
    BY <1>1, <1>2, <1>6, <2>0, GivingUpRemoves
  <2> HIDE DEF m
  <2>2. Line \in Seq(Jobs)
    BY <1>2, LineTyped
  <2>3. Unique(Line') /\ \A q : OnLine(q)' <=> OnLine(q) /\ q # r
    <3>1. /\ \A q : InSeq(RemoveAt(Line, m), q) <=> InSeq(Line, q) /\ q # Line[m].run
          /\ Unique(RemoveAt(Line, m))
      BY <1>2, <2>1, <2>2, RunsOfRemoval
    <3> QED BY <1>6, <2>1, <3>1 DEF OnLine
  <2>4. OnLine(r)
    BY <1>6, <2>1 DEF OnLine, InSeq
  <2>5. TypeOK'
    BY <1>1, <1>2, <1>6, <2>1 DEF TypeOK, Sends
  <2>6. ASSUME NEW q \in Runs PROVE Apart(q)'
    BY <1>1, <1>2, <1>3, <1>6, <2>3, <2>4 DEF Apart
  <2> QED BY <1>4, <2>3, <2>5, <2>6 DEF OnePlace
<1> QED BY <1>5, <1>6 DEF EnqueueGivesUp

LEMMA OnePlaceDequeue ==
    ASSUME OnePlace, NEW w \in Workers, Dequeue(w)
    PROVE  OnePlace'
<1>1. /\ worker[w] = Idle
      /\ fresh' = fresh /\ timers' = timers /\ refused' = refused
  BY DEF Dequeue
<1>2. TypeOK /\ Unique(Line) /\ TimersUnique /\ WorkersUnique /\ \A q \in Runs : Apart(q)
  BY DEF OnePlace
<1>3. /\ Line # <<>> /\ Head(channel) = Head(Line) /\ Line' = Tail(Line)
      /\ channel' \in Seq(Jobs) /\ Len(channel') <= Capacity
      /\ senders' \in Seq(Sends)
      /\ senders' # <<>> => Len(channel') = Capacity
  BY <1>2, DequeueTakesHead
<1>4. PICK e \in Endings(Head(channel)) : worker' = [worker EXCEPT ![w] = e]
  BY DEF Dequeue
<1> DEFINE j == Head(Line)
<1>5. /\ j \in Jobs /\ OnLine(j.run)
      /\ \A q : OnLine(q)' <=> OnLine(q) /\ q # j.run
      /\ Unique(Line')
  <2>1. Line \in Seq(Jobs)
    BY <1>2, LineTyped
  <2> QED BY <1>2, <1>3, <2>1, RunsOfTail DEF OnLine
<1>6. /\ e \in [pc: {"finish", "retry"}, job: Jobs] /\ e # Idle /\ e.job.run = j.run
  BY <1>3, <1>4, <1>5, EndingsTyped
<1> HIDE DEF j
<1>7. j.run \in Runs
  BY <1>5 DEF Jobs
<1>8. ~OnTimer(j.run) /\ ~IsTaken(j.run) /\ j.run \notin refused /\ j.run \notin fresh
  BY <1>2, <1>5, <1>7 DEF Apart
<1>9. /\ worker \in [Workers -> {Idle} \union [pc: {"finish", "retry"}, job: Jobs]]
      /\ worker'[w] = e /\ \A v \in Workers : v # w => worker'[v] = worker[v]
  BY <1>2, <1>4 DEF TypeOK
<1>10. TypeOK'
  <2>1. worker' \in [Workers -> {Idle} \union [pc: {"finish", "retry"}, job: Jobs]]
    BY <1>4, <1>6, <1>9
  <2> QED BY <1>1, <1>2, <1>3, <2>1 DEF TypeOK, Sends
<1>11. TimersUnique'
  BY <1>1, <1>2 DEF TimersUnique
<1>12. WorkersUnique'
  BY <1>1, <1>2, <1>6, <1>8, <1>9 DEF WorkersUnique, IsTaken
<1>13. \A q : (OnTimer(q)' <=> OnTimer(q)) /\ (IsTaken(q)' <=> IsTaken(q) \/ q = j.run)
  <2>1. \A q : OnTimer(q)' <=> OnTimer(q)
    BY <1>1 DEF OnTimer
  <2>2. \A q : IsTaken(q)' <=> IsTaken(q) \/ q = j.run
    BY <1>1, <1>6, <1>9 DEF IsTaken
  <2> QED BY <2>1, <2>2
<1>14. ASSUME NEW q \in Runs PROVE Apart(q)'
  BY <1>1, <1>2, <1>5, <1>8, <1>13 DEF Apart
<1> QED BY <1>5, <1>10, <1>11, <1>12, <1>14 DEF OnePlace

\* A worker that is done with its job holds none.
LEMMA WorkerIdle ==
    ASSUME OnePlace, NEW w \in Workers, worker[w].pc \in {"finish", "retry"},
           worker' = [worker EXCEPT ![w] = Idle]
    PROVE  /\ worker[w] # Idle /\ worker[w].job \in Jobs /\ worker[w].job.run \in Runs
           /\ worker' \in [Workers -> {Idle} \union [pc: {"finish", "retry"}, job: Jobs]]
           /\ WorkersUnique'
           /\ IsTaken(worker[w].job.run)
           /\ \A q : IsTaken(q)' <=> IsTaken(q) /\ q # worker[w].job.run
<1>0. Idle.pc = "idle"
  BY DEF Idle
<1>1. /\ worker \in [Workers -> {Idle} \union [pc: {"finish", "retry"}, job: Jobs]]
      /\ WorkersUnique
  BY DEF OnePlace, TypeOK
<1>2. worker[w] # Idle
  BY <1>0
<1>3. worker[w].job \in Jobs /\ worker[w].job.run \in Runs
  BY <1>1, <1>2 DEF Jobs
<1>4. /\ worker' \in [Workers -> {Idle} \union [pc: {"finish", "retry"}, job: Jobs]]
      /\ worker'[w] = Idle /\ \A v \in Workers : v # w => worker'[v] = worker[v]
  BY <1>1
<1>5. WorkersUnique'
  BY <1>1, <1>4 DEF WorkersUnique
<1>6. IsTaken(worker[w].job.run)
  BY <1>2 DEF IsTaken
<1>7. \A q : IsTaken(q)' <=> IsTaken(q) /\ q # worker[w].job.run
  BY <1>1, <1>2, <1>4 DEF IsTaken, WorkersUnique
<1> QED BY <1>2, <1>3, <1>4, <1>5, <1>6, <1>7

LEMMA OnePlaceFinish ==
    ASSUME OnePlace, NEW w \in Workers, Finish(w)
    PROVE  OnePlace'
<1>1. /\ worker[w].pc \in {"finish", "retry"} /\ worker' = [worker EXCEPT ![w] = Idle]
      /\ fresh' = fresh /\ channel' = channel /\ senders' = senders
      /\ timers' = timers /\ refused' = refused
  BY DEF Finish
<1>2. TypeOK /\ Unique(Line) /\ TimersUnique /\ \A q \in Runs : Apart(q)
  BY DEF OnePlace
<1>3. /\ worker' \in [Workers -> {Idle} \union [pc: {"finish", "retry"}, job: Jobs]]
      /\ WorkersUnique'
      /\ \A q : IsTaken(q)' => IsTaken(q)
  BY <1>1, WorkerIdle
<1>4. TypeOK'
  BY <1>1, <1>2, <1>3 DEF TypeOK
<1>5. Line' = Line
  BY <1>1 DEF Line, Waiting
<1>6. Unique(Line') /\ TimersUnique' /\ \A q : OnLine(q)' <=> OnLine(q)
  BY <1>1, <1>2, <1>5 DEF TimersUnique, OnLine
<1>7. \A q : OnTimer(q)' <=> OnTimer(q)
  BY <1>1 DEF OnTimer
<1>8. ASSUME NEW q \in Runs PROVE Apart(q)'
  BY <1>1, <1>2, <1>3, <1>6, <1>7 DEF Apart
<1> QED BY <1>3, <1>4, <1>6, <1>8 DEF OnePlace

LEMMA OnePlaceEnqueueAfter ==
    ASSUME OnePlace, NEW w \in Workers, EnqueueAfter(w)
    PROVE  OnePlace'
<1> DEFINE j == worker[w].job
<1>1. /\ worker[w].pc \in {"finish", "retry"} /\ worker' = [worker EXCEPT ![w] = Idle]
      /\ fresh' = fresh /\ channel' = channel /\ senders' = senders
      /\ timers' = timers \union {j} /\ refused' = refused
  BY DEF EnqueueAfter
<1>2. TypeOK /\ Unique(Line) /\ TimersUnique /\ \A q \in Runs : Apart(q)
  BY DEF OnePlace
<1>3. /\ worker' \in [Workers -> {Idle} \union [pc: {"finish", "retry"}, job: Jobs]]
      /\ WorkersUnique'
      /\ j \in Jobs /\ j.run \in Runs /\ IsTaken(j.run)
      /\ \A q : IsTaken(q)' <=> IsTaken(q) /\ q # j.run
  BY <1>1, WorkerIdle
<1> HIDE DEF j
<1>4. TypeOK'
  BY <1>1, <1>2, <1>3 DEF TypeOK
<1>5. Line' = Line
  BY <1>1 DEF Line, Waiting
<1>6. Unique(Line') /\ \A q : OnLine(q)' <=> OnLine(q)
  BY <1>2, <1>5 DEF OnLine
<1>7. \A q : OnTimer(q)' <=> OnTimer(q) \/ q = j.run
  BY <1>1 DEF OnTimer
<1>8. ~OnLine(j.run) /\ ~OnTimer(j.run) /\ j.run \notin fresh /\ j.run \notin refused
  BY <1>2, <1>3 DEF Apart
<1>9. TimersUnique'
  BY <1>1, <1>2, <1>8 DEF TimersUnique, OnTimer
<1>10. ASSUME NEW q \in Runs PROVE Apart(q)'
  BY <1>1, <1>2, <1>3, <1>6, <1>7, <1>8 DEF Apart
<1> QED BY <1>3, <1>4, <1>6, <1>9, <1>10 DEF OnePlace

\* Every step keeps each run in one place.
LEMMA OnePlaceStep == OnePlace /\ [Next]_vars => OnePlace'
<1> SUFFICES ASSUME OnePlace, [Next]_vars PROVE OnePlace'
  OBVIOUS
<1>1. CASE UNCHANGED vars
  <2>1. Line' = Line
    BY <1>1 DEF vars, Line, Waiting
  <2>2. \A r : OnLine(r)' <=> OnLine(r)
    BY <2>1 DEF OnLine
  <2>3. \A r \in Runs : Apart(r)'
    BY <1>1, <2>2 DEF OnePlace, Apart, OnTimer, IsTaken, vars
  <2>4. TypeOK' /\ TimersUnique' /\ WorkersUnique'
    BY <1>1 DEF OnePlace, TypeOK, TimersUnique, WorkersUnique, vars
  <2> QED BY <2>1, <2>3, <2>4 DEF OnePlace
<1>2. CASE Next
  BY <1>2, OnePlaceEnqueue, OnePlaceGivesUp, OnePlaceTimer, OnePlaceDequeue, OnePlaceFinish,
     OnePlaceEnqueueAfter DEF Next, WorkerStep
<1> QED BY <1>1, <1>2

\* A run's job is in one place at a time: the line, a timer or a worker's hands.
THEOREM JobsInOnePlace == Spec => []OnePlace
<1> QED BY OnePlaceInit, OnePlaceStep, PTL DEF Spec

\* The buffer never exceeds the channel's size, and a send waits only while the channel
\* is full: the variables keep their types.
THEOREM ChannelWithinCapacity == Spec => []TypeOK
<1>1. OnePlace => TypeOK
  BY DEF OnePlace
<1> QED BY <1>1, JobsInOnePlace, PTL

\* A run whose Enqueue returned an error is in no queue, timer or worker afterwards,
\* so failing it, as ExecuteAsync does, cannot race its execution.
THEOREM RefusedGone == Spec => []RefusedJobsAreGone
<1>1. OnePlace => RefusedJobsAreGone
  <2> SUFFICES ASSUME OnePlace, NEW r \in refused
               PROVE  ~IsQueued(r) /\ ~IsTaken(r)
    BY DEF RefusedJobsAreGone
  <2>1. r \in Runs /\ TypeOK /\ Apart(r)
    BY DEF OnePlace, TypeOK
  <2>2. ~OnLine(r) /\ ~OnTimer(r) /\ ~IsTaken(r)
    BY <2>1 DEF Apart
  <2>3. ASSUME NEW j \in ToSet(channel \o Waiting) PROVE j.run # r
    <3>1. PICK i \in 1..Len(Line) : j = Line[i]
      BY <2>1, LineTyped DEF ToSet, Line
    <3> QED BY <2>2, <3>1 DEF OnLine, InSeq
  <2> QED BY <2>2, <2>3 DEF IsQueued, OnTimer
<1> QED BY <1>1, JobsInOnePlace, PTL
-----------------------------------------------------------------------------
(* The promise of executor.JobQueue. *)

HeldBy(w) ==
    IF worker[w] = Idle THEN [none |-> TRUE]
    ELSE [run |-> worker[w].job.run,
          attempt |-> IF worker[w].pc = "retry" THEN worker[w].job.attempt - 1
                      ELSE worker[w].job.attempt]
Held == [w \in Workers |-> HeldBy(w)]

\* The actions of the promise, under the mapping.
LEMMA PromisedActions ==
    /\ Queue!Jobs = Jobs
    /\ \A j : Queue!Enqueue(j) <=>
            /\ Queue!Places(j.run) = {}
            /\ Line' = Append(Line, j) /\ timers' = timers /\ Held' = Held
    /\ \A w : Queue!Take(w) <=>
            /\ Held[w] = [none |-> TRUE] /\ Line # <<>>
            /\ Held' = [Held EXCEPT ![w] = Head(Line)]
            /\ Line' = Tail(Line) /\ timers' = timers
    /\ \A w : Queue!Finish(w) <=>
            /\ Held[w] # [none |-> TRUE]
            /\ Held' = [Held EXCEPT ![w] = [none |-> TRUE]]
            /\ Line' = Line /\ timers' = timers
    /\ \A w, j : Queue!EnqueueAfter(w, j) <=>
            /\ Held[w] # [none |-> TRUE] /\ Held[w].run = j.run
            /\ Held' = [Held EXCEPT ![w] = [none |-> TRUE]]
            /\ timers' = timers \union {j} /\ Line' = Line
    /\ \A j : Queue!Promote(j) <=>
            /\ j \in timers /\ timers' = timers \ {j}
            /\ Line' = Append(Line, j) /\ Held' = Held
    /\ \A j : Queue!Drop(j) <=>
            /\ Deadlines
            /\ \/ (\E i \in DOMAIN Line : Line[i] = j /\ Line' = RemoveAt(Line, i)) /\ timers' = timers
               \/ j \in timers /\ timers' = timers \ {j} /\ Line' = Line
            /\ Held' = Held
<1>1. Queue!Jobs = Jobs
  BY DEF Queue!Jobs, Jobs
<1>2. \A j : Queue!Enqueue(j) <=>
            /\ Queue!Places(j.run) = {}
            /\ Line' = Append(Line, j) /\ timers' = timers /\ Held' = Held
  BY DEF Queue!Enqueue, Line, Held, HeldBy
<1>3. \A w : Queue!Take(w) <=>
            /\ Held[w] = [none |-> TRUE] /\ Line # <<>>
            /\ Held' = [Held EXCEPT ![w] = Head(Line)]
            /\ Line' = Tail(Line) /\ timers' = timers
  BY DEF Queue!Take, Queue!NoJob, Line, Held, HeldBy
<1>4. \A w : Queue!Finish(w) <=>
            /\ Held[w] # [none |-> TRUE]
            /\ Held' = [Held EXCEPT ![w] = [none |-> TRUE]]
            /\ Line' = Line /\ timers' = timers
  BY DEF Queue!Finish, Queue!NoJob, Line, Held, HeldBy
<1>5. \A w, j : Queue!EnqueueAfter(w, j) <=>
            /\ Held[w] # [none |-> TRUE] /\ Held[w].run = j.run
            /\ Held' = [Held EXCEPT ![w] = [none |-> TRUE]]
            /\ timers' = timers \union {j} /\ Line' = Line
  BY DEF Queue!EnqueueAfter, Queue!NoJob, Line, Held, HeldBy
<1>6. \A j : Queue!Promote(j) <=>
            /\ j \in timers /\ timers' = timers \ {j}
            /\ Line' = Append(Line, j) /\ Held' = Held
  BY DEF Queue!Promote, Line, Held, HeldBy
<1>7. \A j : Queue!Drop(j) <=>
            /\ Deadlines
            /\ \/ (\E i \in DOMAIN Line : Line[i] = j /\ Line' = RemoveAt(Line, i)) /\ timers' = timers
               \/ j \in timers /\ timers' = timers \ {j} /\ Line' = Line
            /\ Held' = Held
  BY DEF Queue!Drop, Queue!RemoveAt, Line, Held, HeldBy, RemoveAt
<1> QED BY <1>1, <1>2, <1>3, <1>4, <1>5, <1>6, <1>7
\* A worker holds a job in the promise exactly when it is not idle.
LEMMA HeldProperties ==
    ASSUME NEW w \in Workers
    PROVE  /\ worker[w] = Idle <=> HeldBy(w) = [none |-> TRUE]
           /\ worker[w] # Idle => HeldBy(w).run = worker[w].job.run
           /\ Held[w] = HeldBy(w)
<1>1. CASE worker[w] = Idle
  BY <1>1 DEF HeldBy, Held
<1>2. CASE worker[w] # Idle
  <2>1. PICK a, b : HeldBy(w) = [run |-> a, attempt |-> b] /\ a = worker[w].job.run
    BY <1>2 DEF HeldBy
  <2>2. DOMAIN [run |-> a, attempt |-> b] = {"run", "attempt"}
    OBVIOUS
  <2>3. DOMAIN [none |-> TRUE] = {"none"}
    OBVIOUS
  <2>4. HeldBy(w) # [none |-> TRUE]
    BY <2>1, <2>2, <2>3
  <2> QED BY <1>2, <2>1, <2>4 DEF Held
<1> QED BY <1>1, <1>2

\* A run that is nowhere has no place in the promise.
LEMMA NowhereHasNoPlace ==
    ASSUME TypeOK, NEW r, ~OnLine(r), ~OnTimer(r), ~IsTaken(r)
    PROVE  Queue!Places(r) = {}
<1>1. ASSUME NEW j \in Queue!ToSet(channel \o Waiting), j.run = r
      PROVE  FALSE
  <2>1. PICK i \in 1..Len(Line) : j = Line[i]
    BY <1>1, LineTyped DEF Queue!ToSet, Line
  <2> QED BY <1>1, <2>1 DEF OnLine, InSeq
<1>2. ASSUME NEW j \in timers, j.run = r
      PROVE  FALSE
  BY <1>2 DEF OnTimer
<1>3. ASSUME NEW w \in Workers, HeldBy(w) # [none |-> TRUE], HeldBy(w).run = r
      PROVE  FALSE
  BY <1>3, HeldProperties DEF IsTaken
<1>4. ASSUME NEW j \in Queue!Places(r)
      PROVE  FALSE
  <2>1. /\ j \in Queue!ToSet(channel \o Waiting) \/ j \in timers \/ \E w \in Workers : j = HeldBy(w)
        /\ j # [none |-> TRUE] /\ j.run = r
    BY <1>4 DEF Queue!Places, Queue!Range, Queue!NoJob, HeldBy
  <2> QED BY <1>1, <1>2, <1>3, <2>1
<1> QED BY <1>4

\* What a worker that stays the same holds stays the same.
LEMMA HeldUnchanged == worker' = worker => Held' = Held
  BY DEF Held, HeldBy

\* One worker's new job is the one change of what is held.
LEMMA HeldChange ==
    ASSUME NEW w \in Workers, NEW e, worker \in [Workers -> {Idle} \union [pc: {"finish", "retry"}, job: Jobs]],
           worker' = [worker EXCEPT ![w] = e]
    PROVE  Held' = [Held EXCEPT ![w] = HeldBy(w)']
<1>1. worker'[w] = e /\ \A v \in Workers : v # w => worker'[v] = worker[v]
  OBVIOUS
<1>2. \A v \in Workers : v # w => HeldBy(v)' = HeldBy(v)
  BY <1>1 DEF HeldBy
<1>3. Held' = [v \in Workers |-> HeldBy(v)']
  BY DEF Held
<1> QED BY <1>2, <1>3 DEF Held

\* Each step is a step of the promise, or none.
LEMMA PromiseStep == OnePlace /\ [Next]_vars => [Queue!Next]_(Queue!vars)
<1> SUFFICES ASSUME OnePlace, [Next]_vars PROVE Queue!Next \/ UNCHANGED Queue!vars
  BY DEF OnePlace
<1>0. TypeOK /\ Unique(Line) /\ TimersUnique /\ WorkersUnique /\ \A q \in Runs : Apart(q)
  BY DEF OnePlace
<1>s. ASSUME Line' = Line, timers' = timers, Held' = Held
      PROVE  UNCHANGED Queue!vars
  BY <1>s DEF Queue!vars, Line, Held, HeldBy
<1>1. CASE UNCHANGED vars
  <2>1. Line' = Line /\ timers' = timers /\ worker' = worker
    BY <1>1 DEF vars, Line, Waiting
  <2> QED BY <1>s, <2>1, HeldUnchanged
<1>2. ASSUME NEW r \in Runs, Enqueue(r)
      PROVE  Queue!Next
  <2> DEFINE j == [run |-> r, attempt |-> 0]
  <2>0. j \in Jobs /\ j.run = r
    BY MaxAttemptsAssumption DEF Jobs
  <2>1. r \in fresh /\ Send(j, "request") /\ timers' = timers /\ worker' = worker
    BY <1>2 DEF Enqueue
  <2> HIDE DEF j
  <2>2. ~OnLine(r) /\ ~OnTimer(r) /\ ~IsTaken(r)
    BY <1>0, <2>1 DEF Apart
  <2>3. Queue!Places(j.run) = {}
    BY <1>0, <2>0, <2>2, NowhereHasNoPlace
  <2>4. Line' = Append(Line, j)
    BY <1>0, <2>0, <2>1, SendAppends
  <2>5. Queue!Enqueue(j)
    BY <2>1, <2>3, <2>4, HeldUnchanged, PromisedActions
  <2> QED BY <2>0, <2>5, PromisedActions DEF Queue!Next
<1>3. ASSUME NEW r \in Runs, EnqueueGivesUp(r)
      PROVE  Queue!Next \/ UNCHANGED Queue!vars
  <2>1. Deadlines /\ channel' = channel /\ timers' = timers /\ worker' = worker
    BY <1>3 DEF EnqueueGivesUp
  <2>2. Held' = Held
    BY <2>1, HeldUnchanged
  <2>3. CASE senders' = senders
    <3>1. Line' = Line
      BY <2>1, <2>3 DEF Line, Waiting
    <3> QED BY <1>s, <2>1, <2>2, <3>1
  <2>4. ASSUME NEW i \in DOMAIN senders, senders' = RemoveAt(senders, i)
        PROVE  Queue!Next
    <3>0. i \in 1..Len(senders)
      BY <1>0, LineTyped, LenProperties
    <3> DEFINE m == Len(channel) + i
    <3>1. m \in 1..Len(Line) /\ Line' = RemoveAt(Line, m)
      BY <1>0, <2>1, <2>4, <3>0, GivingUpRemoves
    <3>2. m \in DOMAIN Line /\ Line[m] \in Jobs
      BY <1>0, <3>1, LineTyped
    <3> HIDE DEF m
    <3>3. Queue!Drop(Line[m])
      BY <2>1, <2>2, <3>1, <3>2, PromisedActions
    <3> QED BY <3>2, <3>3, PromisedActions DEF Queue!Next
  <2> QED BY <1>3, <2>3, <2>4 DEF EnqueueGivesUp
<1>4. ASSUME NEW j \in Jobs, TimerFires(j)
      PROVE  Queue!Next
  <2>1. j \in timers /\ timers' = timers \ {j} /\ Send(j, "timer") /\ worker' = worker
    BY <1>4 DEF TimerFires
  <2>2. Line' = Append(Line, j)
    BY <1>0, <2>1, SendAppends
  <2>3. Queue!Promote(j)
    BY <2>1, <2>2, HeldUnchanged, PromisedActions
  <2> QED BY <2>3, PromisedActions DEF Queue!Next
<1>5. ASSUME NEW w \in Workers, Dequeue(w)
      PROVE  Queue!Next
  <2>1. worker[w] = Idle /\ timers' = timers
    BY <1>5 DEF Dequeue
  <2>2. Line # <<>> /\ Head(channel) = Head(Line) /\ Line' = Tail(Line)
    BY <1>0, <1>5, DequeueTakesHead
  <2>3. PICK e \in Endings(Head(channel)) : worker' = [worker EXCEPT ![w] = e]
    BY <1>5 DEF Dequeue
  <2> DEFINE j == Head(Line)
  <2>4. j \in Jobs
    BY <1>0, <2>2, LineTyped, RunsOfTail
  <2>5. /\ e \in [pc: {"finish", "retry"}, job: Jobs] /\ e # Idle /\ e.job.run = j.run
        /\ (e.pc = "finish" => e.job = j)
        /\ (e.pc = "retry" => e.job.attempt - 1 = j.attempt)
    BY <2>2, <2>3, <2>4, EndingsTyped
  <2> HIDE DEF j
  <2>6. worker \in [Workers -> {Idle} \union [pc: {"finish", "retry"}, job: Jobs]]
    BY <1>0 DEF TypeOK
  <2>7. worker'[w] = e
    BY <2>3, <2>6
  <2>8. HeldBy(w)' = j
    <3>1. j = [run |-> j.run, attempt |-> j.attempt]
      BY <2>4 DEF Jobs
    <3>2. HeldBy(w)' = [run |-> e.job.run,
                        attempt |-> IF e.pc = "retry" THEN e.job.attempt - 1 ELSE e.job.attempt]
      BY <2>5, <2>7 DEF HeldBy
    <3>3. CASE e.pc = "finish"
      BY <2>5, <3>1, <3>2, <3>3
    <3>4. CASE e.pc = "retry"
      BY <2>5, <3>1, <3>2, <3>4
    <3> QED BY <2>5, <3>3, <3>4
  <2>9. Held' = [Held EXCEPT ![w] = Head(Line)]
    BY <2>3, <2>6, <2>8, HeldChange DEF j
  <2>10. Held[w] = [none |-> TRUE]
    BY <2>1, HeldProperties
  <2>11. Queue!Take(w)
    BY <2>1, <2>2, <2>9, <2>10, PromisedActions
  <2> QED BY <2>11 DEF Queue!Next
<1>6. ASSUME NEW w \in Workers, worker[w].pc \in {"finish", "retry"},
             worker' = [worker EXCEPT ![w] = Idle]
      PROVE  /\ Held[w] # [none |-> TRUE] /\ Held[w].run = worker[w].job.run
             /\ Held' = [Held EXCEPT ![w] = [none |-> TRUE]]
             /\ worker[w].job \in Jobs
  <2>1. worker[w] # Idle /\ worker[w].job \in Jobs
    BY <1>6, WorkerIdle
  <2>2. worker \in [Workers -> {Idle} \union [pc: {"finish", "retry"}, job: Jobs]]
    BY <1>0 DEF TypeOK
  <2>3. HeldBy(w)' = [none |-> TRUE]
    <3>1. worker'[w] = Idle
      BY <1>6, <2>2
    <3> QED BY <3>1 DEF HeldBy
  <2>4. Held' = [Held EXCEPT ![w] = [none |-> TRUE]]
    BY <1>6, <2>2, <2>3, HeldChange
  <2> QED BY <2>1, <2>4, HeldProperties
<1>7. ASSUME NEW w \in Workers, Finish(w)
      PROVE  Queue!Next
  <2>1. /\ worker[w].pc \in {"finish", "retry"} /\ worker' = [worker EXCEPT ![w] = Idle]
        /\ channel' = channel /\ senders' = senders /\ timers' = timers
    BY <1>7 DEF Finish
  <2>2. Line' = Line
    BY <2>1 DEF Line, Waiting
  <2>3. Queue!Finish(w)
    BY <1>6, <2>1, <2>2, PromisedActions
  <2> QED BY <2>3 DEF Queue!Next
<1>8. ASSUME NEW w \in Workers, EnqueueAfter(w)
      PROVE  Queue!Next
  <2>0. PICK j : j = worker[w].job
    OBVIOUS
  <2>1. /\ worker[w].pc \in {"finish", "retry"} /\ worker' = [worker EXCEPT ![w] = Idle]
        /\ channel' = channel /\ senders' = senders /\ timers' = timers \union {j}
    BY <1>8, <2>0 DEF EnqueueAfter
  <2>2. Line' = Line
    BY <2>1 DEF Line, Waiting
  <2>3. /\ Held[w] # [none |-> TRUE] /\ Held[w].run = j.run
        /\ Held' = [Held EXCEPT ![w] = [none |-> TRUE]] /\ j \in Jobs
    BY <1>6, <2>0, <2>1
  <2>4. Queue!EnqueueAfter(w, j)
    BY <2>1, <2>2, <2>3, PromisedActions
  <2>5. j \in Queue!Jobs
    BY <2>3, PromisedActions
  <2> QED BY <2>4, <2>5 DEF Queue!Next
<1>9. CASE Next
  BY <1>2, <1>3, <1>4, <1>5, <1>7, <1>8, <1>9 DEF Next, WorkerStep
<1> QED BY <1>1, <1>9

\* The promise's queue starts empty.
LEMMA PromiseInit == Init => Queue!Init
<1> SUFFICES ASSUME Init PROVE Queue!Init
  OBVIOUS
<1>1. channel = <<>> /\ senders = <<>> /\ timers = {} /\ worker = [w \in Workers |-> Idle]
  BY DEF Init
<1>2. channel \o Waiting = <<>>
  <2>1. channel \in Seq(Jobs) /\ senders \in Seq(Sends)
    BY <1>1
  <2>2. Waiting = JobsOf(senders)
    BY DEF Waiting, JobsOf
  <2>3. Waiting \in Seq(Jobs) /\ Len(Waiting) = 0
    BY <1>1, <2>1, <2>2, JobsOfProperties
  <2>4. Waiting = <<>>
    BY <2>3, EmptySeq
  <2> QED BY <1>1, <2>1, <2>4, ConcatEmptySeq
<1>3. \A w \in Workers : worker[w] = Idle
  BY <1>1
<1> QED BY <1>1, <1>2, <1>3 DEF Queue!Init, Queue!NoJob

\* The channel, its waiting sends, the retry timers and the workers together are a queue
\* as executor.JobQueue promises it: first in, first out, nothing lost unless its request
\* gave up, nothing in two places, whatever the channel's size.
THEOREM QueuePromiseKept == Spec => KeepsQueuePromise
<1> QED BY JobsInOnePlace, PromiseInit, PromiseStep, PTL DEF Spec, KeepsQueuePromise, Queue!Spec
=============================================================================
