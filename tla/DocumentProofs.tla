----------------------------- MODULE DocumentProofs -----------------------------
(***************************************************************************)
(* Proofs about the documents.  TenantData: chunkText, for every text,     *)
(* cuts late and loses nothing; the two repositories list the same chunks; *)
(* tenants do not notice each other.  DocumentUpload, for any number of    *)
(* processes and uploads and any placement of the uploads: at most one     *)
(* upload of a process is inside ensureBucket, and no document is listed   *)
(* without its object.                                                     *)
(***************************************************************************)
EXTENDS TenantData, DocumentUpload, SequenceTheorems, FiniteSetTheorems, WellFoundedInduction, TLAPS

-----------------------------------------------------------------------------
(* Induction and recursion along an interval. *)

\* A set of naturals that is not empty has a smallest member.
LEMMA SmallestMember ==
    ASSUME NEW S \in SUBSET Nat, S # {}
    PROVE  \E n \in S : \A m \in S : n <= m
<1>1. PICK n \in S : \A m \in S : ~(<<m, n>> \in OpToRel(<, Nat))
  BY WFMin, NatLessThanWellFounded
<1>2. \A m \in S : ~(m < n)
  BY <1>1 DEF OpToRel
<1> QED BY <1>2

\* Induction along an interval.
LEMMA IntervalInduction ==
    ASSUME NEW n \in Nat, NEW S, 0 \in S, \A k \in 1..n : k - 1 \in S => k \in S
    PROVE  \A k \in 0..n : k \in S
<1> DEFINE B == {k \in 0..n : k \notin S}
<1>1. B \in SUBSET Nat
  OBVIOUS
<1>2. ASSUME B # {}
      PROVE  FALSE
  <2>1. \E k \in B : \A m \in B : k <= m
    <3> HIDE DEF B
    <3> QED BY <1>1, <1>2, SmallestMember
  <2>2. PICK k \in B : \A m \in B : k <= m
    BY <2>1
  <2>3. k \in 0..n /\ k \notin S
    OBVIOUS
  <2>4. k # 0
    BY <2>3
  <2>5. k \in 1..n /\ k - 1 \in 0..n /\ ~(k <= k - 1)
    BY <2>3, <2>4
  <2>6. k - 1 \in S
    BY <2>2, <2>5
  <2> QED BY <2>3, <2>5, <2>6
<1> QED BY <1>2

IsRecursion(f, n, V, b, F) ==
    /\ f \in [0..n -> V]
    /\ f[0] = b
    /\ \A k \in 1..n : f[k] = F[k][f[k - 1]]

AreSteps(F, n, V) == F \in [1..n -> [V -> V]]

\* A recursion along an interval defines a function.
LEMMA RecursionDefines ==
    ASSUME NEW n \in Nat, NEW V, NEW b \in V, NEW F, AreSteps(F, n, V)
    PROVE  \E f : IsRecursion(f, n, V, b, F)
<1> DEFINE S == {m \in 0..n : \E f \in [0..m -> V] :
                    f[0] = b /\ \A k \in 1..m : f[k] = F[k][f[k - 1]]}
<1>1. 0 \in S
  <2> DEFINE f == [k \in 0..0 |-> b]
  <2>1. f \in [0..0 -> V] /\ f[0] = b /\ \A k \in 1..0 : FALSE
    OBVIOUS
  <2>2. 0 \in 0..n
    OBVIOUS
  <2> HIDE DEF f
  <2> QED BY <2>1, <2>2
<1>2. ASSUME NEW m \in 1..n, m - 1 \in S
      PROVE  m \in S
  <2>1. PICK f \in [0..(m - 1) -> V] :
            f[0] = b /\ \A k \in 1..(m - 1) : f[k] = F[k][f[k - 1]]
    BY <1>2
  <2> DEFINE g == [k \in 0..m |-> IF k = m THEN F[m][f[m - 1]] ELSE f[k]]
  <2>2. m - 1 \in 0..(m - 1) /\ m \in 0..n /\ m # 0 /\ 0 \in 0..(m - 1)
    OBVIOUS
  <2>3. F[m] \in [V -> V] /\ f[m - 1] \in V
    BY <2>1, <2>2 DEF AreSteps
  <2>4. F[m][f[m - 1]] \in V
    BY <2>3
  <2>5. \A k \in 0..m : k # m => k \in 0..(m - 1)
    OBVIOUS
  <2>6. g \in [0..m -> V]
    BY <2>1, <2>4, <2>5
  <2>7. /\ g[m] = F[m][f[m - 1]]
        /\ \A k \in 0..(m - 1) : k \in 0..m /\ k # m /\ g[k] = f[k]
    OBVIOUS
  <2> HIDE DEF g
  <2>8. ASSUME NEW k \in 1..m
        PROVE  g[k] = F[k][g[k - 1]]
    <3>1. CASE k = m
      BY <2>2, <2>7, <3>1
    <3>2. CASE k # m
      <4>1. k \in 1..(m - 1) /\ k \in 0..(m - 1) /\ k - 1 \in 0..(m - 1)
        BY <3>2
      <4> QED BY <2>1, <2>7, <4>1
    <3> QED BY <3>1, <3>2
  <2>9. g[0] = b
    BY <2>1, <2>2, <2>7
  <2> QED BY <2>2, <2>6, <2>8, <2>9
<1>3. n \in S
  <2> HIDE DEF S
  <2>1. \A k \in 0..n : k \in S
    BY <1>1, <1>2, IntervalInduction
  <2> QED BY <2>1
<1> QED BY <1>3 DEF IsRecursion

\* A recursion that goes one step further.
LEMMA RecursionGoesOn ==
    ASSUME NEW n \in Nat, NEW V, NEW b, NEW F, NEW G, NEW f, NEW g,
           IsRecursion(f, n, V, b, F), IsRecursion(g, n + 1, V, b, G),
           \A k \in 1..n : F[k] = G[k]
    PROVE  g[n + 1] = G[n + 1][f[n]] /\ f[n] \in V
<1> DEFINE S == {k \in 0..n : f[k] = g[k]}
<1>1. 0 \in S
  BY DEF IsRecursion
<1>2. ASSUME NEW k \in 1..n, k - 1 \in S
      PROVE  k \in S
  <2>1. f[k - 1] = g[k - 1] /\ k \in 1..(n + 1) /\ k \in 0..n
    BY <1>2
  <2>2. f[k] = F[k][f[k - 1]] /\ g[k] = G[k][g[k - 1]] /\ F[k] = G[k]
    BY <2>1 DEF IsRecursion
  <2> QED BY <2>1, <2>2
<1>3. n \in S
  <2> HIDE DEF S
  <2>1. \A k \in 0..n : k \in S
    BY <1>1, <1>2, IntervalInduction
  <2> QED BY <2>1
<1>4. n + 1 \in 1..(n + 1) /\ (n + 1) - 1 = n /\ n \in 0..n
  OBVIOUS
<1>5. g[n + 1] = G[n + 1][g[n]]
  BY <1>4 DEF IsRecursion
<1>6. f[n] \in V
  BY <1>4 DEF IsRecursion
<1> QED BY <1>3, <1>5, <1>6

-----------------------------------------------------------------------------
(* The sums behind SizeOf and Joined. *)

\* What SizeOf adds for a word, and Joined for a part.
Adders(words) ==
    [k \in 1..Len(words) |->
        [v \in Nat |-> v + Length[words[k]] + (IF k = 1 THEN 0 ELSE 1)]]

Joiners(parts) == [k \in 1..Len(parts) |-> [v \in Seq(Words) |-> v \o parts[k]]]

LEMMA SizeRecursion ==
    ASSUME NEW words \in Seq(Words)
    PROVE  \E sum : /\ SizeOf(words) = sum[Len(words)]
                    /\ IsRecursion(sum, Len(words), Nat, 0, Adders(words))
<1> DEFINE n == Len(words)
           F == Adders(words)
           Defines(f) == f = [k \in 0..n |-> IF k = 0 THEN 0
                               ELSE f[k - 1] + Length[words[k]] + (IF k = 1 THEN 0 ELSE 1)]
<1>1. n \in Nat /\ \A k \in 1..n : Length[words[k]] \in Nat
  BY LenProperties, ElementOfSeq, LengthAssumption
<1>2. AreSteps(F, n, Nat)
  BY <1>1 DEF Adders, AreSteps
<1>3. PICK f : IsRecursion(f, n, Nat, 0, F)
  <2>1. 0 \in Nat
    OBVIOUS
  <2> HIDE DEF F, n
  <2> QED BY <1>1, <1>2, <2>1, RecursionDefines
<1>4. f \in [0..n -> Nat] /\ f[0] = 0 /\ \A k \in 1..n : f[k] = F[k][f[k - 1]]
  BY <1>3 DEF IsRecursion
<1>5. \A k \in 1..n : k \in 0..n /\ k # 0 /\ k - 1 \in 0..n
  BY <1>1
<1>6. \A k \in 1..n : f[k] = f[k - 1] + Length[words[k]] + (IF k = 1 THEN 0 ELSE 1)
  BY <1>4, <1>5 DEF Adders
<1>7. Defines(f)
  <2>1. \A k \in 0..n : k # 0 => k \in 1..n
    BY <1>1
  <2>2. \A k \in 0..n : f[k] = IF k = 0 THEN 0
                  ELSE f[k - 1] + Length[words[k]] + (IF k = 1 THEN 0 ELSE 1)
    <3> HIDE DEF F, n
    <3> QED BY <1>4, <1>6, <2>1
  <2> QED BY <1>4, <2>2
<1>8. PICK sum : sum = CHOOSE g : Defines(g)
  OBVIOUS
<1>9. Defines(sum)
  <2> HIDE DEF Defines
  <2> QED BY <1>7, <1>8
<1>10. SizeOf(words) = sum[n]
  BY <1>8 DEF SizeOf
<1>11. /\ sum = [k \in 0..n |-> sum[k]]
       /\ sum[0] = 0
       /\ \A k \in 1..n : sum[k] = sum[k - 1] + Length[words[k]] + (IF k = 1 THEN 0 ELSE 1)
  BY <1>1, <1>5, <1>9
<1>12. \A k \in 0..n : sum[k] = f[k]
  <2> DEFINE S == {k \in 0..n : sum[k] = f[k]}
  <2>1. 0 \in S
    BY <1>1, <1>4, <1>11
  <2>2. ASSUME NEW k \in 1..n, k - 1 \in S
        PROVE  k \in S
    <3>1. k \in 0..n /\ sum[k - 1] = f[k - 1]
      BY <1>5, <2>2
    <3>2. sum[k] = sum[k - 1] + Length[words[k]] + (IF k = 1 THEN 0 ELSE 1)
      BY <1>11
    <3>3. f[k] = sum[k - 1] + Length[words[k]] + (IF k = 1 THEN 0 ELSE 1)
      BY <1>6, <3>1
    <3> QED BY <3>1, <3>2, <3>3
  <2>3. \A k \in 0..n : k \in S
    <3> HIDE DEF S, n
    <3> QED BY <1>1, <2>1, <2>2, IntervalInduction
  <2> QED BY <2>3
<1>13. sum = f
  BY <1>4, <1>11, <1>12
<1> QED BY <1>3, <1>10, <1>13

LEMMA JoinedRecursion ==
    ASSUME NEW parts \in Seq(Seq(Words))
    PROVE  \E all : /\ Joined(parts) = all[Len(parts)]
                    /\ IsRecursion(all, Len(parts), Seq(Words), <<>>, Joiners(parts))
<1> DEFINE n == Len(parts)
           F == Joiners(parts)
           Defines(f) == f = [k \in 0..n |-> IF k = 0 THEN <<>> ELSE f[k - 1] \o parts[k]]
<1>1. n \in Nat /\ \A k \in 1..n : parts[k] \in Seq(Words)
  BY LenProperties, ElementOfSeq
<1>2. AreSteps(F, n, Seq(Words))
  BY <1>1, ConcatProperties DEF Joiners, AreSteps
<1>3. PICK f : IsRecursion(f, n, Seq(Words), <<>>, F)
  <2>1. <<>> \in Seq(Words)
    OBVIOUS
  <2> HIDE DEF F, n
  <2> QED BY <1>1, <1>2, <2>1, RecursionDefines
<1>4. f \in [0..n -> Seq(Words)] /\ f[0] = <<>> /\ \A k \in 1..n : f[k] = F[k][f[k - 1]]
  BY <1>3 DEF IsRecursion
<1>5. \A k \in 1..n : k \in 0..n /\ k # 0 /\ k - 1 \in 0..n
  BY <1>1
<1>6. \A k \in 1..n : f[k] = f[k - 1] \o parts[k]
  BY <1>4, <1>5 DEF Joiners
<1>7. Defines(f)
  <2>1. \A k \in 0..n : k # 0 => k \in 1..n
    BY <1>1
  <2>2. \A k \in 0..n : f[k] = IF k = 0 THEN <<>> ELSE f[k - 1] \o parts[k]
    <3> HIDE DEF F, n
    <3> QED BY <1>4, <1>6, <2>1
  <2> QED BY <1>4, <2>2
<1>8. PICK all : all = CHOOSE g : Defines(g)
  OBVIOUS
<1>9. Defines(all)
  <2> HIDE DEF Defines
  <2> QED BY <1>7, <1>8
<1>10. Joined(parts) = all[n]
  BY <1>8 DEF Joined
<1>11. /\ all = [k \in 0..n |-> all[k]]
       /\ all[0] = <<>>
       /\ \A k \in 1..n : all[k] = all[k - 1] \o parts[k]
  <2>1. all = [k \in 0..n |-> IF k = 0 THEN <<>> ELSE all[k - 1] \o parts[k]]
    BY <1>9
  <2>2. 0 \in 0..n
    BY <1>1
  <2> HIDE DEF n
  <2>3. \A k \in 0..n : all[k] = IF k = 0 THEN <<>> ELSE all[k - 1] \o parts[k]
    BY <2>1
  <2>4. all = [k \in 0..n |-> all[k]]
    BY <2>1
  <2> QED BY <1>5, <2>2, <2>3, <2>4
<1>12. \A k \in 0..n : all[k] = f[k]
  <2> DEFINE S == {k \in 0..n : all[k] = f[k]}
  <2>1. 0 \in S
    BY <1>1, <1>4, <1>11
  <2>2. ASSUME NEW k \in 1..n, k - 1 \in S
        PROVE  k \in S
    <3>1. k \in 0..n /\ all[k - 1] = f[k - 1]
      BY <1>5, <2>2
    <3> HIDE DEF n
    <3> QED BY <1>6, <1>11, <3>1
  <2>3. \A k \in 0..n : k \in S
    <3> HIDE DEF S, n
    <3> QED BY <1>1, <2>1, <2>2, IntervalInduction
  <2> QED BY <2>3
<1>13. all = f
  BY <1>4, <1>11, <1>12
<1> QED BY <1>3, <1>10, <1>13

\* The size of one word, and of some words and one more.
LEMMA SizeOfAppend ==
    ASSUME NEW words \in Seq(Words), NEW word \in Words
    PROVE  /\ SizeOf(words) \in Nat
           /\ SizeOf(Append(words, word)) =
                SizeOf(words) + Length[word] + (IF words = <<>> THEN 0 ELSE 1)
<1> DEFINE n == Len(words)
           more == Append(words, word)
<1>1. n \in Nat /\ more \in Seq(Words) /\ Len(more) = n + 1
      /\ more[n + 1] = word /\ \A k \in 1..n : more[k] = words[k]
  BY AppendProperties
<1>2. PICK f : SizeOf(words) = f[n] /\ IsRecursion(f, n, Nat, 0, Adders(words))
  BY SizeRecursion
<1>3. PICK g : SizeOf(more) = g[n + 1] /\ IsRecursion(g, n + 1, Nat, 0, Adders(more))
  <2> HIDE DEF n, more
  <2> QED BY <1>1, SizeRecursion
<1>4. \A k \in 1..n : Adders(words)[k] = Adders(more)[k]
  BY <1>1 DEF Adders
<1>5. g[n + 1] = Adders(more)[n + 1][f[n]] /\ f[n] \in Nat
  <2> HIDE DEF n, more
  <2> QED BY <1>1, <1>2, <1>3, <1>4, RecursionGoesOn
<1>6. \A v \in Nat : Adders(more)[n + 1][v] = v + Length[word] + (IF n + 1 = 1 THEN 0 ELSE 1)
  BY <1>1 DEF Adders
<1>7. n + 1 = 1 <=> words = <<>>
  BY <1>1, EmptySeq
<1> HIDE DEF n, more
<1>8. SizeOf(more) = f[n] + Length[word] + (IF words = <<>> THEN 0 ELSE 1)
  BY <1>3, <1>5, <1>6, <1>7
<1> USE DEF n, more
<1> QED BY <1>2, <1>5, <1>8

LEMMA SizeOfEmpty == SizeOf(<<>>) = 0
<1>1. <<>> \in Seq(Words) /\ Len(<<>>) = 0
  OBVIOUS
<1>2. PICK f : SizeOf(<<>>) = f[0] /\ IsRecursion(f, 0, Nat, 0, Adders(<<>>))
  BY <1>1, SizeRecursion
<1> QED BY <1>2 DEF IsRecursion

\* Joining some parts and one more.
LEMMA JoinedAppend ==
    ASSUME NEW parts \in Seq(Seq(Words)), NEW part \in Seq(Words)
    PROVE  /\ Joined(parts) \in Seq(Words)
           /\ Joined(Append(parts, part)) = Joined(parts) \o part
<1> DEFINE n == Len(parts)
           more == Append(parts, part)
<1>1. n \in Nat /\ more \in Seq(Seq(Words)) /\ Len(more) = n + 1
      /\ more[n + 1] = part /\ \A k \in 1..n : more[k] = parts[k]
  BY AppendProperties
<1>2. PICK f : Joined(parts) = f[n] /\ IsRecursion(f, n, Seq(Words), <<>>, Joiners(parts))
  BY JoinedRecursion
<1>3. PICK g : Joined(more) = g[n + 1] /\ IsRecursion(g, n + 1, Seq(Words), <<>>, Joiners(more))
  <2> HIDE DEF n, more
  <2> QED BY <1>1, JoinedRecursion
<1>4. \A k \in 1..n : Joiners(parts)[k] = Joiners(more)[k]
  BY <1>1 DEF Joiners
<1>5. g[n + 1] = Joiners(more)[n + 1][f[n]] /\ f[n] \in Seq(Words)
  <2> HIDE DEF n, more
  <2> QED BY <1>1, <1>2, <1>3, <1>4, RecursionGoesOn
<1>6. \A v \in Seq(Words) : Joiners(more)[n + 1][v] = v \o part
  <2> HIDE DEF n, more
  <2>1. n + 1 \in 1..Len(more)
    BY <1>1
  <2>2. Joiners(more)[n + 1] = [v \in Seq(Words) |-> v \o more[n + 1]]
    BY <2>1 DEF Joiners
  <2> QED BY <1>1, <2>2
<1> QED BY <1>2, <1>3, <1>5, <1>6

LEMMA JoinedEmpty == Joined(<<>>) = <<>>
<1>1. <<>> \in Seq(Seq(Words)) /\ Len(<<>>) = 0
  OBVIOUS
<1>2. PICK f : Joined(<<>>) = f[0] /\ IsRecursion(f, 0, Seq(Words), <<>>, Joiners(<<>>))
  BY <1>1, JoinedRecursion
<1> QED BY <1>2 DEF IsRecursion

-----------------------------------------------------------------------------
(* How a text is cut. *)

\* What follows the chunk i, and that it was right to cut before it.
NextOf(cs, b, i) == IF i < Len(cs) THEN cs[i + 1] ELSE b

IsFull(cs, b, i) ==
    /\ SizeOf(cs[i]) <= MaxChunkSize \/ Len(cs[i]) = 1
    /\ NextOf(cs, b, i) # <<>> => SizeOf(Append(cs[i], NextOf(cs, b, i)[1])) > MaxChunkSize

\* The chunk that is being built will be a good one, and there is none before
\* the first word and after the last.
BuilderInv ==
    /\ size > 0 <=> builder # <<>>
    /\ size <= MaxChunkSize \/ Len(builder) = 1
    /\ ended => builder = <<>>
    /\ builder = <<>> /\ ~ended => chunks = <<>>

ChunkInv == TypeOK /\ WordsAreKept /\ ChunksAreFull /\ BuilderInv

LEMMA ChunksAreFullForm == ChunksAreFull <=> \A i \in DOMAIN chunks : IsFull(chunks, builder, i)
  BY DEF ChunksAreFull, IsFull, NextOf

LEMMA ChunkTypes ==
    ASSUME TypeOK
    PROVE  /\ size \in Nat /\ text \in Seq(Words) /\ builder \in Seq(Words)
           /\ chunks \in Seq(Seq(Words)) /\ \A i \in DOMAIN chunks : chunks[i] # <<>>
           /\ Len(text) \in Nat /\ Len(builder) \in Nat /\ Len(chunks) \in Nat
           /\ Joined(chunks) \in Seq(Words)
           /\ DOMAIN chunks = 1..Len(chunks)
<1>1. text \in Seq(Words) /\ builder \in Seq(Words) /\ chunks \in Seq(Seq(Words) \ {<<>>})
  BY DEF TypeOK
<1>2. chunks \in Seq(Seq(Words)) /\ \A i \in DOMAIN chunks : chunks[i] # <<>>
  <2>1. \A i \in 1..Len(chunks) : chunks[i] \in Seq(Words) \ {<<>>}
    BY <1>1, ElementOfSeq
  <2>2. Len(chunks) \in Nat /\ DOMAIN chunks = 1..Len(chunks) /\ chunks = [i \in 1..Len(chunks) |-> chunks[i]]
    BY <1>1, LenProperties
  <2> QED BY <2>1, <2>2, IsASeq
<1>3. Joined(chunks) \in Seq(Words)
  <2>1. <<>> \in Seq(Words)
    OBVIOUS
  <2> QED BY <1>2, <2>1, JoinedAppend
<1>4. size \in Nat
  <2>1. PICK f : SizeOf(builder) = f[Len(builder)]
                 /\ IsRecursion(f, Len(builder), Nat, 0, Adders(builder))
    BY <1>1, SizeRecursion
  <2>2. Len(builder) \in 0..Len(builder)
    BY <1>1, LenProperties
  <2> QED BY <2>1, <2>2 DEF TypeOK, IsRecursion
<1> QED BY <1>1, <1>2, <1>3, <1>4, LenProperties

\* A chunk is finished: what was full stays full, whatever comes next.
LEMMA FullChunksGrow ==
    ASSUME NEW cs \in Seq(Seq(Words)), NEW b \in Seq(Words), NEW next,
           \A i \in 1..Len(cs) : IsFull(cs, b, i),
           SizeOf(b) <= MaxChunkSize \/ Len(b) = 1,
           next # <<>> => SizeOf(Append(b, next[1])) > MaxChunkSize
    PROVE  \A i \in 1..Len(Append(cs, b)) : IsFull(Append(cs, b), next, i)
<1> DEFINE more == Append(cs, b)
           n == Len(cs)
<1>1. n \in Nat /\ Len(more) = n + 1 /\ more[n + 1] = b /\ \A i \in 1..n : more[i] = cs[i]
  BY AppendProperties
<1> HIDE DEF more, n
<1>2. ASSUME NEW i \in 1..n
      PROVE  NextOf(more, next, i) = NextOf(cs, b, i) /\ more[i] = cs[i]
  <2>1. CASE i < n
    <3>1. i + 1 \in 1..n
      BY <1>1, <2>1
    <3> QED BY <1>1, <2>1, <3>1 DEF NextOf, n
  <2>2. CASE i = n
    BY <1>1, <2>2 DEF NextOf, n
  <2> QED BY <1>1, <2>1, <2>2
<1>3. \A i \in 1..n : IsFull(more, next, i)
  BY <1>2 DEF IsFull, n
<1>4. IsFull(more, next, n + 1)
  <2>1. NextOf(more, next, n + 1) = next
    BY <1>1 DEF NextOf
  <2> QED BY <1>1, <2>1 DEF IsFull
<1>5. \A i \in 1..Len(more) : i \in 1..n \/ i = n + 1
  BY <1>1
<1> QED BY <1>3, <1>4, <1>5 DEF more

\* The next chunk grows at its end.
LEMMA FullChunksStay ==
    ASSUME NEW cs \in Seq(Seq(Words)), NEW b, NEW next, b # <<>>, next[1] = b[1],
           \A i \in 1..Len(cs) : IsFull(cs, b, i)
    PROVE  \A i \in 1..Len(cs) : IsFull(cs, next, i)
<1>1. ASSUME NEW i \in 1..Len(cs)
      PROVE  IsFull(cs, next, i)
  <2>1. IsFull(cs, b, i)
    OBVIOUS
  <2>2. CASE i < Len(cs)
    BY <2>1, <2>2 DEF IsFull, NextOf
  <2>3. CASE ~(i < Len(cs))
    BY <2>1, <2>3 DEF IsFull, NextOf
  <2> QED BY <2>2, <2>3
<1> QED BY <1>1

LEMMA SizeOfWord ==
    ASSUME NEW word \in Words
    PROVE  SizeOf(<<word>>) = Length[word] /\ Length[word] \in Nat \ {0}
<1>1. PICK e : e = <<>>
  OBVIOUS
<1>2. e \in Seq(Words) /\ Append(e, word) = <<word>>
  BY <1>1
<1>3. Length[word] \in Nat \ {0}
  BY LengthAssumption
<1>4. SizeOf(Append(e, word)) = SizeOf(e) + Length[word] + (IF e = <<>> THEN 0 ELSE 1)
  BY <1>2, SizeOfAppend
<1>5. SizeOf(e) = 0
  BY <1>1, SizeOfEmpty
<1>6. SizeOf(Append(e, word)) = Length[word]
  BY <1>1, <1>3, <1>4, <1>5
<1> QED BY <1>2, <1>3, <1>6

LEMMA InitCuts == Init => ChunkInv
<1> SUFFICES ASSUME Init PROVE ChunkInv
  OBVIOUS
<1>1. TypeOK
  <2>1. size = SizeOf(builder)
    BY SizeOfEmpty DEF Init
  <2>2. text \in Seq(Words) /\ chunks \in Seq(Seq(Words) \ {<<>>}) /\ builder \in Seq(Words)
    BY DEF Init
  <2>3. Len(text) <= MaxWords /\ ended \in BOOLEAN
    <3>1. text = <<>> /\ Len(text) = 0 /\ ended = FALSE
      BY DEF Init
    <3>2. 0 <= MaxWords
      BY SizeAssumption
    <3> QED BY <3>1, <3>2
  <2> QED BY <2>1, <2>2, <2>3 DEF TypeOK
<1>2. WordsAreKept
  BY JoinedEmpty DEF Init, WordsAreKept
<1>3. ChunksAreFull
  BY DEF Init, ChunksAreFull
<1>4. BuilderInv
  BY SizeAssumption DEF Init, BuilderInv
<1> QED BY <1>1, <1>2, <1>3, <1>4 DEF ChunkInv

\* A word goes to the first chunk, to the one that is built or to a new one.
LEMMA AddWordCuts ==
    ASSUME ChunkInv, NEW word \in Words, AddWord(word)
    PROVE  ChunkInv'
<1>1. /\ size \in Nat /\ text \in Seq(Words) /\ builder \in Seq(Words)
      /\ chunks \in Seq(Seq(Words)) /\ chunks \in Seq(Seq(Words) \ {<<>>})
      /\ Len(text) \in Nat /\ Len(chunks) \in Nat
      /\ Joined(chunks) \in Seq(Words) /\ DOMAIN chunks = 1..Len(chunks)
  BY ChunkTypes DEF ChunkInv, TypeOK
<1>2. text' \in Seq(Words) /\ Len(text') <= MaxWords /\ text' = Append(text, word)
  BY <1>1, AppendProperties, SizeAssumption DEF AddWord
<1>3. size = SizeOf(builder) /\ text = Joined(chunks) \o builder /\ ~ended /\ ended' = FALSE
  BY DEF ChunkInv, TypeOK, WordsAreKept, AddWord
<1>4. \A i \in 1..Len(chunks) : IsFull(chunks, builder, i)
  BY <1>1, ChunksAreFullForm DEF ChunkInv
<1>5. /\ <<word>> \in Seq(Words) /\ SizeOf(<<word>>) = Length[word] /\ Length[word] \in Nat \ {0}
      /\ Len(<<word>>) = 1 /\ <<word>> # <<>>
  BY SizeOfWord
<1>6. CASE size = 0 /\ builder' = <<word>> /\ size' = Length[word] /\ UNCHANGED chunks
  <2>1. builder = <<>> /\ chunks = <<>>
    BY <1>3, <1>6 DEF ChunkInv, BuilderInv
  <2>2. TypeOK'
    BY <1>1, <1>2, <1>3, <1>5, <1>6 DEF TypeOK
  <2>3. WordsAreKept'
    <3>1. Joined(chunks') = <<>> /\ text = <<>>
      BY <1>3, <1>6, <2>1, JoinedEmpty
    <3>2. <<>> \o <<word>> = Append(<<>>, word)
      OBVIOUS
    <3> QED BY <1>2, <1>6, <3>1, <3>2 DEF WordsAreKept
  <2>4. ChunksAreFull'
    BY <1>6, <2>1 DEF ChunksAreFull
  <2>5. BuilderInv'
    BY <1>3, <1>5, <1>6 DEF BuilderInv
  <2> QED BY <2>2, <2>3, <2>4, <2>5 DEF ChunkInv
<1>7. CASE size > 0 /\ Fits(word) /\ builder' = Append(builder, word)
           /\ size' = size + 1 + Length[word] /\ UNCHANGED chunks
  <2>1. builder # <<>> /\ Append(builder, word) \in Seq(Words)
        /\ Append(builder, word)[1] = builder[1] /\ Append(builder, word) # <<>>
    <3>1. builder # <<>>
      BY <1>7 DEF ChunkInv, BuilderInv
    <3>2. Len(builder) \in Nat /\ Len(builder) # 0
      BY <1>1, <3>1, EmptySeq, LenProperties
    <3> QED BY <1>1, <3>1, <3>2, AppendProperties
  <2>2. SizeOf(Append(builder, word)) = size + 1 + Length[word]
    <3>1. SizeOf(Append(builder, word)) = SizeOf(builder) + Length[word] + 1
      BY <1>1, <2>1, SizeOfAppend
    <3>2. size \in Nat /\ Length[word] \in Nat
      BY <1>1, <1>5
    <3>3. size + Length[word] + 1 = size + 1 + Length[word]
      BY <3>2
    <3> QED BY <1>3, <3>1, <3>3
  <2>3. TypeOK'
    BY <1>1, <1>2, <1>3, <1>7, <2>1, <2>2 DEF TypeOK
  <2>4. WordsAreKept'
    <3>1. Joined(chunks) \o Append(builder, word) = Append(Joined(chunks) \o builder, word)
      BY <1>1, AppendProperties, ConcatProperties
    <3> QED BY <1>2, <1>3, <1>7, <3>1 DEF WordsAreKept
  <2>5. ChunksAreFull'
    <3>1. \A i \in 1..Len(chunks) : IsFull(chunks, Append(builder, word), i)
      BY <1>1, <1>4, <2>1, FullChunksStay
    <3>2. (\A i \in DOMAIN chunks : IsFull(chunks, builder, i))'
      BY <1>1, <1>7, <3>1
    <3> QED BY <3>2, ChunksAreFullForm, PTL
  <2>6. BuilderInv'
    BY <1>1, <1>3, <1>5, <1>7, <2>1 DEF BuilderInv, Fits
  <2> QED BY <2>3, <2>4, <2>5, <2>6 DEF ChunkInv
<1>8. CASE size > 0 /\ ~Fits(word) /\ chunks' = Append(chunks, builder)
           /\ builder' = <<word>> /\ size' = Length[word]
  <2>1. builder # <<>> /\ (SizeOf(builder) <= MaxChunkSize \/ Len(builder) = 1)
    BY <1>3, <1>8 DEF ChunkInv, BuilderInv
  <2>2. SizeOf(Append(builder, word)) > MaxChunkSize
    <3>1. SizeOf(Append(builder, word)) = SizeOf(builder) + Length[word] + 1
      BY <1>1, <2>1, SizeOfAppend
    <3> QED BY <1>1, <1>3, <1>5, <1>8, <3>1, SizeAssumption DEF Fits
  <2>3. TypeOK'
    <3>1. chunks' \in Seq(Seq(Words) \ {<<>>})
      BY <1>1, <1>8, <2>1, AppendProperties
    <3> QED BY <1>2, <1>3, <1>5, <1>8, <3>1 DEF TypeOK
  <2>4. WordsAreKept'
    <3>1. Joined(chunks') = Joined(chunks) \o builder
      BY <1>1, <1>8, JoinedAppend
    <3>2. text \o <<word>> = Append(text, word)
      BY <1>1
    <3> QED BY <1>2, <1>3, <1>8, <3>1, <3>2 DEF WordsAreKept
  <2>5. ChunksAreFull'
    <3>1. <<word>>[1] = word
      OBVIOUS
    <3>2. \A i \in 1..Len(Append(chunks, builder)) : IsFull(Append(chunks, builder), <<word>>, i)
      BY <1>1, <1>4, <2>1, <2>2, <3>1, FullChunksGrow
    <3>3. DOMAIN Append(chunks, builder) = 1..Len(Append(chunks, builder))
      BY <1>1, AppendProperties, LenProperties
    <3>4. (\A i \in DOMAIN chunks : IsFull(chunks, builder, i))'
      BY <1>8, <3>2, <3>3
    <3> QED BY <3>4, ChunksAreFullForm, PTL
  <2>6. BuilderInv'
    BY <1>3, <1>5, <1>8 DEF BuilderInv
  <2> QED BY <2>3, <2>4, <2>5, <2>6 DEF ChunkInv
<1> QED BY <1>6, <1>7, <1>8 DEF AddWord

LEMMA EndCuts == ASSUME ChunkInv, End PROVE ChunkInv'
<1>1. /\ size \in Nat /\ text \in Seq(Words) /\ builder \in Seq(Words)
      /\ chunks \in Seq(Seq(Words)) /\ chunks \in Seq(Seq(Words) \ {<<>>})
      /\ Len(text) \in Nat /\ Len(chunks) \in Nat
      /\ Joined(chunks) \in Seq(Words) /\ DOMAIN chunks = 1..Len(chunks)
  BY ChunkTypes DEF ChunkInv, TypeOK
<1>2. /\ text' = text /\ text = Joined(chunks) \o builder /\ Len(text) <= MaxWords
      /\ builder' = <<>> /\ size' = 0 /\ ended' = TRUE /\ size = SizeOf(builder)
  BY DEF ChunkInv, TypeOK, WordsAreKept, End
<1>3. \A i \in 1..Len(chunks) : IsFull(chunks, builder, i)
  BY <1>1, ChunksAreFullForm DEF ChunkInv
<1>4. BuilderInv'
  BY <1>2, SizeAssumption DEF BuilderInv
<1>5. CASE size > 0 /\ chunks' = Append(chunks, builder)
  <2>1. builder # <<>> /\ (SizeOf(builder) <= MaxChunkSize \/ Len(builder) = 1)
    BY <1>2, <1>5 DEF ChunkInv, BuilderInv
  <2>2. TypeOK'
    <3>1. chunks' \in Seq(Seq(Words) \ {<<>>})
      BY <1>1, <1>5, <2>1, AppendProperties
    <3> QED BY <1>1, <1>2, <3>1, SizeOfEmpty DEF TypeOK
  <2>3. WordsAreKept'
    <3>1. Joined(chunks') = Joined(chunks) \o builder
      BY <1>1, <1>5, JoinedAppend
    <3>2. text \o <<>> = text
      BY <1>1
    <3> QED BY <1>2, <3>1, <3>2 DEF WordsAreKept
  <2>4. ChunksAreFull'
    <3>1. \A i \in 1..Len(Append(chunks, builder)) : IsFull(Append(chunks, builder), <<>>, i)
      BY <1>1, <1>3, <2>1, FullChunksGrow
    <3>2. DOMAIN Append(chunks, builder) = 1..Len(Append(chunks, builder))
      BY <1>1, AppendProperties, LenProperties
    <3>3. (\A i \in DOMAIN chunks : IsFull(chunks, builder, i))'
      BY <1>2, <1>5, <3>1, <3>2
    <3> QED BY <3>3, ChunksAreFullForm, PTL
  <2> QED BY <1>4, <2>2, <2>3, <2>4 DEF ChunkInv
<1>6. CASE size = 0 /\ chunks' = chunks
  <2>1. builder = <<>>
    BY <1>6 DEF ChunkInv, BuilderInv
  <2>2. TypeOK'
    BY <1>1, <1>2, <1>6, <2>1 DEF TypeOK
  <2>3. WordsAreKept'
    BY <1>2, <1>6, <2>1 DEF WordsAreKept
  <2>4. ChunksAreFull'
    BY <1>2, <1>6, <2>1 DEF ChunkInv, ChunksAreFull
  <2> QED BY <1>4, <2>2, <2>3, <2>4 DEF ChunkInv
<1>7. size > 0 \/ size = 0
  BY <1>1
<1>8. chunks' = IF size > 0 THEN Append(chunks, builder) ELSE chunks
  BY DEF End
<1>9. ~(size > 0) => chunks' = chunks
  BY <1>8
<1>10. size > 0 => chunks' = Append(chunks, builder)
  BY <1>8
<1>11. size = 0 => ~(size > 0)
  OBVIOUS
<1> HIDE DEF ChunkInv
<1> QED BY <1>5, <1>6, <1>7, <1>9, <1>10, <1>11

\* CreateDocument starts again.
LEMMA CreateDocumentCuts ==
    ASSUME NEW tenant, NEW d, NEW type, CreateDocument(tenant, d, type)
    PROVE  ChunkInv'
<1>1. Init'
  BY DEF CreateDocument, Init
<1>2. (Init => ChunkInv)'
  BY InitCuts, PTL
<1> QED BY <1>1, <1>2

LEMMA SameTextCuts == ASSUME ChunkInv, UNCHANGED vars PROVE ChunkInv'
<1>1. TypeOK'
  BY DEF ChunkInv, TypeOK, vars
<1>2. WordsAreKept'
  BY DEF ChunkInv, WordsAreKept, vars
<1>3. ChunksAreFull'
  BY DEF ChunkInv, ChunksAreFull, vars
<1>4. BuilderInv'
  BY DEF ChunkInv, BuilderInv, vars
<1> QED BY <1>1, <1>2, <1>3, <1>4 DEF ChunkInv

-----------------------------------------------------------------------------
(* The tables. *)

IsTable(table, ids) == table = [id \in ids |-> table[id]]

\* The chunks of a document are numbered in the order in which they are read,
\* belong to its tenant and are as many as its row says.
ChunksOf(d) ==
    LET list == chunkRows[d] IN
    /\ Len(list) \in Nat
    /\ list = [i \in 1..Len(list) |-> list[i]]
    /\ \A i \in 1..Len(list) : list[i].document = d /\ list[i].index = i - 1
    /\ documents[d] # NotFound =>
            /\ documents[d].chunk_count = Len(list)
            /\ \A i \in 1..Len(list) : list[i].tenant = documents[d].tenant

IsRun(run) ==
    run = [tenant |-> run.tenant, workflow |-> run.workflow, query |-> run.query,
           status |-> run.status, attempt |-> run.attempt]

RowsInv ==
    /\ IsTable(documents, DocumentIds) /\ IsTable(chunkRows, DocumentIds)
    /\ IsTable(workflows, WorkflowIds)
    /\ \A d \in DocumentIds : ChunksOf(d)

RunsInv ==
    /\ IsTable(runs, RunIds) /\ IsTable(steps, RunIds)
    /\ \A r \in RunIds : runs[r] = NotFound \/ IsRun(runs[r])

LEMMA TableUpdate ==
    ASSUME NEW table, NEW ids, IsTable(table, ids), NEW id \in ids, NEW row
    PROVE  LET new == [table EXCEPT ![id] = row] IN
           /\ IsTable(new, ids)
           /\ new[id] = row
           /\ \A other \in ids : other # id => new[other] = table[other]
           /\ DOMAIN new = ids /\ DOMAIN table = ids
  BY DEF IsTable

\* What CreateDocument writes.
NewList(tenant, d) == [i \in DOMAIN chunks |-> Chunk(tenant, d, i)]

LEMMA NewChunks ==
    ASSUME TypeOK, NEW tenant, NEW d, NEW list, list = NewList(tenant, d)
    PROVE  /\ Len(list) \in Nat
           /\ list = [i \in 1..Len(list) |-> list[i]]
           /\ Len(list) = Len(chunks)
           /\ \A i \in 1..Len(list) :
                list[i].document = d /\ list[i].index = i - 1 /\ list[i].tenant = tenant
<1>1. DOMAIN chunks = 1..Len(chunks) /\ Len(chunks) \in Nat
  BY ChunkTypes
<1>2. list = [i \in 1..Len(chunks) |-> Chunk(tenant, d, i)]
  BY <1>1 DEF NewList
<1>3. Len(list) = Len(chunks) /\ DOMAIN list = 1..Len(chunks)
  BY <1>1, <1>2
<1>4. \A i \in 1..Len(chunks) : list[i] = Chunk(tenant, d, i)
  BY <1>2
<1> QED BY <1>1, <1>2, <1>3, <1>4 DEF Chunk

LEMMA InitRows == ASSUME TenantInit PROVE RowsInv /\ RunsInv
<1>1. /\ documents = [d \in DocumentIds |-> NotFound]
      /\ chunkRows = [d \in DocumentIds |-> <<>>]
      /\ workflows = [w \in WorkflowIds |-> NotFound]
      /\ runs = [r \in RunIds |-> NotFound]
      /\ steps = [r \in RunIds |-> <<>>]
  BY DEF TenantInit
<1>2. /\ IsTable(documents, DocumentIds) /\ IsTable(chunkRows, DocumentIds)
      /\ IsTable(workflows, WorkflowIds) /\ IsTable(runs, RunIds) /\ IsTable(steps, RunIds)
  BY <1>1 DEF IsTable
<1>3. ASSUME NEW d \in DocumentIds
      PROVE  ChunksOf(d)
  <2>1. chunkRows[d] = <<>> /\ documents[d] = NotFound
    BY <1>1
  <2>2. PICK list : list = chunkRows[d]
    OBVIOUS
  <2>3. Len(list) = 0 /\ list = [i \in 1..0 |-> list[i]] /\ \A i \in 1..0 : FALSE
    BY <2>1, <2>2
  <2> QED BY <2>1, <2>2, <2>3 DEF ChunksOf
<1> QED BY <1>1, <1>2, <1>3 DEF RowsInv, RunsInv

LEMMA CreateDocumentRows ==
    ASSUME TypeOK, RowsInv, NEW tenant, NEW d \in DocumentIds, NEW type,
           CreateDocument(tenant, d, type)
    PROVE  RowsInv'
<1> DEFINE list == NewList(tenant, d)
           row == [tenant |-> tenant, type |-> type, text |-> text, chunk_count |-> Len(chunks),
                   status |-> IF chunks = <<>> THEN "uploaded" ELSE "ingested"]
<1>1. chunkRows' = [chunkRows EXCEPT ![d] = list] /\ documents' = [documents EXCEPT ![d] = row]
      /\ workflows' = workflows
  BY DEF CreateDocument, NewList
<1>2. /\ Len(list) \in Nat
      /\ list = [i \in 1..Len(list) |-> list[i]]
      /\ Len(list) = Len(chunks)
      /\ \A i \in 1..Len(list) :
                list[i].document = d /\ list[i].index = i - 1 /\ list[i].tenant = tenant
  BY NewChunks
<1>3. row.tenant = tenant /\ row.chunk_count = Len(chunks)
  OBVIOUS
<1> HIDE DEF list, row
<1>4. /\ IsTable(documents', DocumentIds) /\ IsTable(chunkRows', DocumentIds)
      /\ documents'[d] = row /\ chunkRows'[d] = list
      /\ \A other \in DocumentIds : other # d =>
            documents'[other] = documents[other] /\ chunkRows'[other] = chunkRows[other]
  BY <1>1, TableUpdate DEF RowsInv
<1>5. ASSUME NEW other \in DocumentIds
      PROVE  ChunksOf(other)'
  <2>1. CASE other = d
    <3>1. chunkRows'[other] = list /\ documents'[other] = row
      BY <1>4, <2>1
    <3> QED BY <1>2, <1>3, <2>1, <3>1 DEF ChunksOf
  <2>2. CASE other # d
    <3>1. chunkRows'[other] = chunkRows[other] /\ documents'[other] = documents[other]
      BY <1>4, <2>2
    <3> QED BY <3>1 DEF ChunksOf, RowsInv
  <2> QED BY <2>1, <2>2
<1>6. IsTable(workflows', WorkflowIds)
  BY <1>1 DEF RowsInv
<1> QED BY <1>4, <1>5, <1>6 DEF RowsInv

LEMMA CreateWorkflowRows ==
    ASSUME RowsInv, NEW tenant, NEW w \in WorkflowIds, NEW config, CreateWorkflow(tenant, w, config)
    PROVE  RowsInv'
<1>1. IsTable(workflows', WorkflowIds)
  BY TableUpdate DEF CreateWorkflow, RowsInv
<1>2. documents' = documents /\ chunkRows' = chunkRows
  BY DEF CreateWorkflow
<1> QED BY <1>1, <1>2 DEF RowsInv, ChunksOf

LEMMA SameTablesRows == ASSUME RowsInv, UNCHANGED tables PROVE RowsInv'
  BY DEF RowsInv, ChunksOf, tables

-----------------------------------------------------------------------------
(* The two repositories. *)

\* A set with a numbering has as many members as there are numbers.
LEMMA NumberedSet ==
    ASSUME NEW n \in Nat, NEW S, NEW f, S = {f[i] : i \in 1..n},
           \A i, k \in 1..n : f[i] = f[k] => i = k
    PROVE  IsFiniteSet(S) /\ Cardinality(S) = n
<1> DEFINE g == [i \in 1..n |-> f[i]]
<1>1. g \in Bijection(1..n, S)
  BY DEF Bijection, Injection, Surjection, IsInjective
<1>2. IsFiniteSet(1..n) /\ Cardinality(1..n) = n
  <2>1. 1 \in Int /\ n \in Int
    OBVIOUS
  <2>2. IsFiniteSet(1..n) /\ Cardinality(1..n) = IF 1 > n THEN 0 ELSE n - 1 + 1
    BY <2>1, FS_Interval
  <2> QED BY <2>2
<1>3. ExistsBijection(1..n, S)
  BY <1>1 DEF ExistsBijection
<1> QED BY <1>2, <1>3, FS_Bijection

\* The join finds the chunks of a document of the tenant, in their order.
LEMMA JoinedChunksOfOwner ==
    ASSUME RowsInv, NEW tenant, NEW d \in DocumentIds, GetDocument(tenant, d) # NotFound
    PROVE  JoinedChunks(tenant, d) = chunkRows[d]
<1>1. PICK list : list = chunkRows[d]
  OBVIOUS
<1> DEFINE n == Len(list)
           rows == {c \in DocumentChunks :
                        c.document = d /\ c.tenant = tenant /\ GetDocument(tenant, d) # NotFound}
           before(c) == {b \in rows : b.index < c.index}
           chosen(i) == CHOOSE c \in rows : Cardinality(before(c)) = i - 1
<1>2. documents[d] # NotFound /\ documents[d].tenant = tenant
  BY DEF GetDocument, OwnRow
<1>3. /\ n \in Nat /\ list = [i \in 1..n |-> list[i]]
      /\ \A i \in 1..n : list[i].document = d /\ list[i].index = i - 1 /\ list[i].tenant = tenant
  BY <1>1, <1>2 DEF RowsInv, ChunksOf
<1>4. DOMAIN list = 1..n
  BY <1>3
<1>5. \A e \in DocumentIds : \A i \in DOMAIN chunkRows[e] : chunkRows[e][i].document = e
  BY DEF RowsInv, ChunksOf
<1>6. rows = {list[i] : i \in 1..n}
  <2>1. ASSUME NEW c \in rows
        PROVE  \E i \in 1..n : c = list[i]
    <3>1. PICK e \in DocumentIds : \E i \in DOMAIN chunkRows[e] : c = chunkRows[e][i]
      BY DEF DocumentChunks
    <3>2. PICK i \in DOMAIN chunkRows[e] : c = chunkRows[e][i]
      BY <3>1
    <3>3. e = d
      BY <1>5, <3>2
    <3> QED BY <1>1, <1>4, <3>2, <3>3
  <2>2. ASSUME NEW i \in 1..n
        PROVE  list[i] \in rows
    <3>1. list[i] \in DocumentChunks
      BY <1>1, <1>4 DEF DocumentChunks
    <3> QED BY <1>3, <3>1
  <2> HIDE DEF rows
  <2> QED BY <2>1, <2>2
<1>7. JoinedChunks(tenant, d) = [i \in 1..Cardinality(rows) |-> chosen(i)]
  BY DEF JoinedChunks
<1> HIDE DEF rows
<1>8. \A i, k \in 1..n : list[i] = list[k] => i = k
  <2>1. ASSUME NEW i \in 1..n, NEW k \in 1..n, list[i] = list[k]
        PROVE  i = k
    <3>1. i - 1 = k - 1
      BY <1>3, <2>1
    <3> QED BY <1>3, <3>1
  <2> QED BY <2>1
<1>9. Cardinality(rows) = n
  <2> HIDE DEF n
  <2> QED BY <1>3, <1>6, <1>8, NumberedSet
<1>10. ASSUME NEW i \in 1..n
       PROVE  Cardinality(before(list[i])) = i - 1
  <2>1. i - 1 \in Nat /\ \A k \in 1..(i - 1) : k \in 1..n
    BY <1>3
  <2>2. before(list[i]) = {list[k] : k \in 1..(i - 1)}
    <3>1. \A k \in 1..n : list[k].index < list[i].index <=> k \in 1..(i - 1)
      BY <1>3
    <3> HIDE DEF n
    <3> QED BY <1>6, <2>1, <3>1
  <2>3. \A k, m \in 1..(i - 1) : list[k] = list[m] => k = m
    BY <1>8, <2>1
  <2> HIDE DEF before, n
  <2> QED BY <2>1, <2>2, <2>3, NumberedSet
<1>11. ASSUME NEW i \in 1..n
       PROVE  chosen(i) = list[i]
  <2>1. list[i] \in rows /\ Cardinality(before(list[i])) = i - 1
    BY <1>6, <1>10
  <2>2. ASSUME NEW c \in rows, Cardinality(before(c)) = i - 1
        PROVE  c = list[i]
    <3>1. PICK k \in 1..n : c = list[k]
      BY <1>6
    <3>2. k - 1 = i - 1
      BY <1>10, <2>2, <3>1
    <3> QED BY <1>3, <3>1, <3>2
  <2> HIDE DEF before, n
  <2> QED BY <2>1, <2>2
<1> HIDE DEF chosen, n
<1>12. [i \in 1..n |-> chosen(i)] = list
  BY <1>3, <1>11
<1> QED BY <1>1, <1>7, <1>9, <1>12

LEMMA AgreeFromRows == ASSUME RowsInv PROVE RepositoriesAgree
<1> SUFFICES ASSUME NEW tenant \in Tenants, NEW d \in DocumentIds
             PROVE  /\ ListChunks(tenant, d) = PostgresListChunks(tenant, d)
                    /\ GetDocument(tenant, d) # NotFound =>
                            documents[d].chunk_count = Len(PostgresListChunks(tenant, d))
  BY DEF RepositoriesAgree
<1>1. CASE GetDocument(tenant, d) # NotFound
  <2>1. PostgresListChunks(tenant, d) = chunkRows[d] /\ ListChunks(tenant, d) = chunkRows[d]
    BY <1>1, JoinedChunksOfOwner DEF PostgresListChunks, ListChunks
  <2>2. documents[d] # NotFound
    BY <1>1 DEF GetDocument, OwnRow
  <2>3. documents[d].chunk_count = Len(chunkRows[d])
    BY <2>2 DEF RowsInv, ChunksOf
  <2> QED BY <2>1, <2>3
<1>2. CASE GetDocument(tenant, d) = NotFound
  <2> DEFINE rows == {c \in DocumentChunks :
                c.document = d /\ c.tenant = tenant /\ GetDocument(tenant, d) # NotFound}
             chosen(i) == CHOOSE c \in rows : Cardinality({b \in rows : b.index < c.index}) = i - 1
  <2>1. rows = {}
    BY <1>2
  <2>2. JoinedChunks(tenant, d) = [i \in 1..Cardinality(rows) |-> chosen(i)]
    BY DEF JoinedChunks
  <2> HIDE DEF rows, chosen
  <2>3. Cardinality(rows) = 0
    BY <2>1, FS_EmptySet
  <2>4. [i \in 1..0 |-> chosen(i)] = <<>>
    OBVIOUS
  <2>5. JoinedChunks(tenant, d) = <<>>
    BY <2>2, <2>3, <2>4
  <2> QED BY <1>2, <2>5 DEF PostgresListChunks, ListChunks
<1> QED BY <1>1, <1>2

-----------------------------------------------------------------------------
(* What one tenant's step leaves to another. *)

\* A step in the name of owner: of the runs only r is written, if it is new or
\* the owner's, and only the owner's events.
WritesRun(r, owner) ==
    /\ r \in RunIds
    /\ runs[r] = NotFound \/ runs[r].tenant = owner
    /\ IsTable(runs', RunIds) /\ IsTable(steps', RunIds)
    /\ IsRun(runs'[r]) /\ runs'[r].tenant = owner
    /\ \A i \in RunIds : i # r => runs'[i] = runs[i] /\ steps'[i] = steps[i]
    /\ \A i : i # r => (i \in pending' <=> i \in pending)
    /\ \A e : e.tenant # owner => (e \in events' <=> e \in events)

LEMMA RecordWrites ==
    ASSUME NEW r, NEW owner, NEW types, Record(r, owner, types)
    PROVE  \A e : e.tenant # owner => (e \in events' <=> e \in events)
  BY DEF Record

LEMMA RunUpdate ==
    ASSUME NEW run, IsRun(run), NEW status
    PROVE  /\ IsRun([run EXCEPT !.status = status])
           /\ [run EXCEPT !.status = status].tenant = run.tenant
  BY DEF IsRun

LEMMA FinishWrites ==
    ASSUME RunsInv, NEW r \in RunIds, NEW run, IsRun(run), NEW owner, run.tenant = owner,
           runs[r] = NotFound \/ runs[r].tenant = owner,
           NEW taken, NEW told, NEW failed, Finish(r, run, owner, taken, told, failed)
    PROVE  WritesRun(r, owner)
<1>1. PICK output : output = Retrieve(owner, workflows[run.workflow].config, run.query)
  OBVIOUS
<1>2. PICK status : runs' = [runs EXCEPT ![r] = [run EXCEPT !.status = status]]
  BY DEF Finish
<1>3. PICK list : steps' = [steps EXCEPT ![r] = list]
  BY DEF Finish
<1>4. \E types : Record(r, owner, types)
  BY DEF Finish
<1>5. \A e : e.tenant # owner => (e \in events' <=> e \in events)
  BY <1>4, RecordWrites
<1>6. pending' = pending \ {r}
  BY DEF Finish
<1>7. PICK row : row = [run EXCEPT !.status = status]
  OBVIOUS
<1>8. IsRun(row) /\ row.tenant = owner
  BY <1>7, RunUpdate
<1>9. /\ IsTable(runs', RunIds) /\ runs'[r] = row
      /\ \A i \in RunIds : i # r => runs'[i] = runs[i]
  BY <1>2, <1>7, TableUpdate DEF RunsInv
<1>10. IsTable(steps', RunIds) /\ \A i \in RunIds : i # r => steps'[i] = steps[i]
  BY <1>3, TableUpdate DEF RunsInv
<1> QED BY <1>5, <1>6, <1>8, <1>9, <1>10 DEF WritesRun

LEMMA PauseWrites ==
    ASSUME RunsInv, NEW r \in RunIds, NEW run, IsRun(run), NEW owner, run.tenant = owner,
           runs[r] = NotFound \/ runs[r].tenant = owner, Pause(r, run, owner)
    PROVE  WritesRun(r, owner)
<1>1. PICK row : row = [run EXCEPT !.status = "waiting_approval"]
  OBVIOUS
<1>2. IsRun(row) /\ row.tenant = owner
  BY <1>1, RunUpdate
<1>3. /\ IsTable(runs', RunIds) /\ runs'[r] = row
      /\ \A i \in RunIds : i # r => runs'[i] = runs[i]
  BY <1>1, TableUpdate DEF RunsInv, Pause
<1>4. IsTable(steps', RunIds) /\ \A i \in RunIds : i # r => steps'[i] = steps[i]
  BY TableUpdate DEF RunsInv, Pause
<1>5. \A e : e.tenant # owner => (e \in events' <=> e \in events)
  BY RecordWrites DEF Pause
<1>6. pending' = pending \union {r}
  BY DEF Pause
<1> QED BY <1>2, <1>3, <1>4, <1>5, <1>6 DEF WritesRun

LEMMA NewRunIsRun ==
    ASSUME NEW tenant, NEW w, NEW query, NEW status
    PROVE  IsRun(NewRun(tenant, w, query, status))
           /\ NewRun(tenant, w, query, status).tenant = tenant
  BY DEF IsRun, NewRun

LEMMA ExecuteSyncWrites ==
    ASSUME RunsInv, NEW tenant, NEW w, NEW r \in RunIds, NEW query,
           ExecuteSync(tenant, w, r, query)
    PROVE  WritesRun(r, tenant) /\ UNCHANGED <<vars, tables>>
<1>1. PICK run : run = NewRun(tenant, w, query, "running")
  OBVIOUS
<1>2. IsRun(run) /\ run.tenant = tenant /\ runs[r] = NotFound
  BY <1>1, NewRunIsRun DEF ExecuteSync
<1>3. Pause(r, run, tenant) \/ Finish(r, run, tenant, <<>>, {}, StaysFailed)
  BY <1>1 DEF ExecuteSync
<1>4. WritesRun(r, tenant)
  BY <1>2, <1>3, PauseWrites, FinishWrites
<1> QED BY <1>4 DEF ExecuteSync

LEMMA ExecuteAsyncWrites ==
    ASSUME RunsInv, NEW tenant, NEW w, NEW r \in RunIds, NEW query,
           ExecuteAsync(tenant, w, r, query)
    PROVE  WritesRun(r, tenant) /\ UNCHANGED <<vars, tables>>
<1>1. PICK run : run = NewRun(tenant, w, query, "queued")
  OBVIOUS
<1>2. IsRun(run) /\ run.tenant = tenant /\ runs[r] = NotFound
  BY <1>1, NewRunIsRun DEF ExecuteAsync
<1>3. runs' = [runs EXCEPT ![r] = run] /\ steps' = steps /\ pending' = pending
  BY <1>1 DEF ExecuteAsync
<1>4. /\ IsTable(runs', RunIds) /\ runs'[r] = run
      /\ \A i \in RunIds : i # r => runs'[i] = runs[i]
  BY <1>3, TableUpdate DEF RunsInv
<1>5. \A e : e.tenant # tenant => (e \in events' <=> e \in events)
  BY RecordWrites DEF ExecuteAsync
<1>6. WritesRun(r, tenant)
  BY <1>2, <1>3, <1>4, <1>5 DEF WritesRun, RunsInv
<1> QED BY <1>6 DEF ExecuteAsync

\* A run that a tenant finds is the tenant's.
LEMMA FoundRun ==
    ASSUME RunsInv, NEW tenant, NEW r, GetRun(tenant, r) # NotFound
    PROVE  /\ r \in RunIds /\ GetRun(tenant, r) = runs[r]
           /\ runs[r] # NotFound /\ IsRun(runs[r]) /\ runs[r].tenant = tenant
<1>1. DOMAIN runs = RunIds
  BY DEF RunsInv, IsTable
<1>2. r \in DOMAIN runs /\ runs[r] # NotFound /\ runs[r].tenant = tenant /\ GetRun(tenant, r) = runs[r]
  BY DEF GetRun, OwnRow
<1> QED BY <1>1, <1>2 DEF RunsInv

LEMMA ProcessNextWrites ==
    ASSUME RunsInv, NEW job, ProcessNext(job)
    PROVE  WritesRun(job.run, job.tenant) /\ UNCHANGED <<vars, tables>>
<1>1. PICK run : run = GetRun(job.tenant, job.run)
  OBVIOUS
<1>2. PICK claim : claim = [run EXCEPT !.attempt = job.attempt + 1]
  OBVIOUS
<1>3. PICK failed : failed = IF job.attempt + 1 < MaxAttempts
                       THEN [status |-> "queued", types |-> {"retry_scheduled"}]
                       ELSE [status |-> "dead_letter", types |-> {"run_dead_lettered"}]
  OBVIOUS
<1>4. run # NotFound
  BY <1>1 DEF ProcessNext
<1>5. job.run \in RunIds /\ run = runs[job.run] /\ IsRun(run) /\ run.tenant = job.tenant
  BY <1>1, <1>4, FoundRun
<1>6. IsRun(claim) /\ claim.tenant = job.tenant
  BY <1>2, <1>5 DEF IsRun
<1>7. \/ Pause(job.run, claim, job.tenant)
      \/ Finish(job.run, claim, job.tenant, <<>>, {}, failed)
  BY <1>1, <1>2, <1>3 DEF ProcessNext
<1>8. WritesRun(job.run, job.tenant)
  BY <1>5, <1>6, <1>7, PauseWrites, FinishWrites
<1> QED BY <1>8 DEF ProcessNext

LEMMA ResumeApprovalWrites ==
    ASSUME RunsInv, NEW tenant, NEW r, NEW approved, ResumeApproval(tenant, r, approved)
    PROVE  WritesRun(r, tenant) /\ UNCHANGED <<vars, tables>>
<1>1. GetRun(tenant, r) # NotFound
  BY DEF ResumeApproval, LoadPending
<1>2. r \in RunIds /\ IsRun(runs[r]) /\ runs[r].tenant = tenant
  BY <1>1, FoundRun
<1>3. PICK taken : taken = <<Step("approval", "completed", approved)>>
  OBVIOUS
<1>4. CASE Finish(r, runs[r], tenant, taken, {"approval_resolved"}, StaysFailed)
  <2>1. PICK run : run = runs[r]
    OBVIOUS
  <2>2. WritesRun(r, tenant)
    BY <1>2, <1>4, <2>1, FinishWrites
  <2> QED BY <2>2 DEF ResumeApproval
<1>5. CASE /\ runs' = [runs EXCEPT ![r].status = "failed"]
           /\ steps' = [steps EXCEPT ![r] = taken]
           /\ pending' = pending \ {r}
           /\ Record(r, tenant, {"approval_resolved", "run_failed"})
  <2>1. PICK row : row = [runs[r] EXCEPT !.status = "failed"]
    OBVIOUS
  <2>2. IsRun(row) /\ row.tenant = tenant
    BY <1>2, <2>1, RunUpdate
  <2>3. runs' = [runs EXCEPT ![r] = row]
    BY <1>5, <2>1
  <2>4. /\ IsTable(runs', RunIds) /\ runs'[r] = row
        /\ \A i \in RunIds : i # r => runs'[i] = runs[i]
    BY <1>2, <2>3, TableUpdate DEF RunsInv
  <2>5. IsTable(steps', RunIds) /\ \A i \in RunIds : i # r => steps'[i] = steps[i]
    BY <1>2, <1>5, TableUpdate DEF RunsInv
  <2>6. \A e : e.tenant # tenant => (e \in events' <=> e \in events)
    BY <1>5, RecordWrites
  <2>7. WritesRun(r, tenant)
    BY <1>2, <1>5, <2>2, <2>4, <2>5, <2>6 DEF WritesRun
  <2> QED BY <2>7 DEF ResumeApproval
<1> QED BY <1>3, <1>4, <1>5 DEF ResumeApproval

\* The runs stay runs.
LEMMA WritesRunKeeps ==
    ASSUME RunsInv, NEW r, NEW owner, WritesRun(r, owner)
    PROVE  RunsInv'
<1>1. IsTable(runs', RunIds) /\ IsTable(steps', RunIds)
  BY DEF WritesRun
<1>2. ASSUME NEW i \in RunIds
      PROVE  runs'[i] = NotFound \/ IsRun(runs'[i])
  <2>1. CASE i = r
    BY <2>1 DEF WritesRun
  <2>2. CASE i # r
    <3>1. runs'[i] = runs[i]
      BY <2>2 DEF WritesRun
    <3> QED BY <3>1 DEF RunsInv
  <2> QED BY <2>1, <2>2
<1> QED BY <1>1, <1>2 DEF RunsInv

\* What another tenant reads of the runs.
LEMMA OtherRunsStay ==
    ASSUME RunsInv, NEW r, NEW owner, NEW tenant, tenant # owner, WritesRun(r, owner),
           NEW i \in RunIds
    PROVE  /\ GetRun(tenant, i)' = GetRun(tenant, i)
           /\ ListSteps(tenant, i)' = ListSteps(tenant, i)
           /\ ListRunEvents(tenant, i)' = ListRunEvents(tenant, i)
           /\ LoadPending(tenant, i)' = LoadPending(tenant, i)
           /\ GetRun(tenant, i) # NotFound => runs'[i] = runs[i]
<1>1. DOMAIN runs = RunIds /\ DOMAIN runs' = RunIds
  BY DEF RunsInv, WritesRun, IsTable
<1>2. PICK before : before = GetRun(tenant, i)
  OBVIOUS
<1>3. PICK after : after = GetRun(tenant, i)'
  OBVIOUS
<1>4. CASE i = r
  <2>1. before = NotFound
    BY <1>2, <1>4 DEF WritesRun, GetRun, OwnRow
  <2>2. after = NotFound
    BY <1>1, <1>3, <1>4 DEF WritesRun, GetRun, OwnRow
  <2>3. ListSteps(tenant, i)' = NotFound /\ ListSteps(tenant, i) = NotFound
    BY <1>2, <1>3, <2>1, <2>2 DEF ListSteps
  <2>4. ListRunEvents(tenant, i)' = NotFound /\ ListRunEvents(tenant, i) = NotFound
    BY <1>2, <1>3, <2>1, <2>2 DEF ListRunEvents
  <2>5. LoadPending(tenant, i)' = FALSE /\ LoadPending(tenant, i) = FALSE
    BY <1>2, <1>3, <2>1, <2>2 DEF LoadPending
  <2> QED BY <1>2, <1>3, <2>1, <2>2, <2>3, <2>4, <2>5
<1>5. CASE i # r
  <2>1. runs'[i] = runs[i] /\ steps'[i] = steps[i] /\ (i \in pending' <=> i \in pending)
    BY <1>5 DEF WritesRun
  <2>2. after = before
    BY <1>1, <1>2, <1>3, <2>1 DEF GetRun, OwnRow
  <2>3. ListSteps(tenant, i)' = ListSteps(tenant, i)
    BY <1>2, <1>3, <2>1, <2>2 DEF ListSteps
  <2>4. {e \in events' : e.run = i /\ e.tenant = tenant}
            = {e \in events : e.run = i /\ e.tenant = tenant}
    BY DEF WritesRun
  <2>5. ListRunEvents(tenant, i)' = ListRunEvents(tenant, i)
    BY <1>2, <1>3, <2>2, <2>4 DEF ListRunEvents
  <2>6. LoadPending(tenant, i)' = LoadPending(tenant, i)
    BY <1>2, <1>3, <2>1, <2>2 DEF LoadPending
  <2> QED BY <1>2, <1>3, <2>1, <2>2, <2>3, <2>5, <2>6
<1> QED BY <1>4, <1>5

\* A table that gets a row of another tenant looks the same.
LEMMA OtherRow ==
    ASSUME NEW table, NEW ids, IsTable(table, ids), NEW id \in ids, table[id] = NotFound,
           NEW row, NEW tenant, row.tenant # tenant,
           NEW new, IsTable(new, ids), new[id] = row,
           \A other \in ids : other # id => new[other] = table[other]
    PROVE  \A i : OwnRow(new, tenant, i) = OwnRow(table, tenant, i)
<1>1. DOMAIN new = ids /\ DOMAIN table = ids
  BY DEF IsTable
<1>2. ASSUME NEW i
      PROVE  OwnRow(new, tenant, i) = OwnRow(table, tenant, i)
  <2>1. CASE i = id
    BY <1>1, <2>1 DEF OwnRow
  <2>2. CASE i # id
    BY <1>1, <2>2 DEF OwnRow
  <2> QED BY <2>1, <2>2
<1> QED BY <1>2

\* What another tenant reads of the documents.
LEMMA OtherDocumentsStay ==
    ASSUME RowsInv, NEW owner, NEW tenant, tenant # owner, NEW d \in DocumentIds, NEW type,
           CreateDocument(owner, d, type)
    PROVE  \A i : /\ GetDocument(tenant, i)' = GetDocument(tenant, i)
                  /\ ListChunks(tenant, i)' = ListChunks(tenant, i)
<1>1. PICK row : /\ row = [tenant |-> owner, type |-> type, text |-> text,
                           chunk_count |-> Len(chunks),
                           status |-> IF chunks = <<>> THEN "uploaded" ELSE "ingested"]
                 /\ documents' = [documents EXCEPT ![d] = row]
  BY DEF CreateDocument
<1>2. row.tenant # tenant /\ documents[d] = NotFound /\ IsTable(documents, DocumentIds)
  BY <1>1 DEF CreateDocument, RowsInv
<1>3. PICK new : new = documents'
  OBVIOUS
<1>4. \A i : OwnRow(new, tenant, i) = OwnRow(documents, tenant, i)
  <2>1. /\ IsTable(new, DocumentIds) /\ new[d] = row
        /\ \A other \in DocumentIds : other # d => new[other] = documents[other]
    <3>1. new = [documents EXCEPT ![d] = row] /\ IsTable(documents, DocumentIds)
      BY <1>1, <1>2, <1>3
    <3> QED BY <3>1, TableUpdate
  <2> QED BY <1>2, <2>1, OtherRow
<1>5. ASSUME NEW i
      PROVE  /\ GetDocument(tenant, i)' = GetDocument(tenant, i)
             /\ ListChunks(tenant, i)' = ListChunks(tenant, i)
  <2>1. GetDocument(tenant, i)' = GetDocument(tenant, i)
    BY <1>3, <1>4 DEF GetDocument
  <2>2. PICK before : before = GetDocument(tenant, i)
    OBVIOUS
  <2>3. GetDocument(tenant, i)' = before
    BY <2>1, <2>2
  <2>4. CASE before = NotFound
    BY <2>2, <2>3, <2>4 DEF ListChunks
  <2>5. CASE before # NotFound
    <3>1. i \in DocumentIds /\ documents[i] # NotFound
      BY <1>2, <2>2, <2>5 DEF GetDocument, OwnRow, IsTable
    <3>2. i # d
      BY <1>2, <3>1
    <3>3. chunkRows'[i] = chunkRows[i]
      BY <3>1, <3>2, TableUpdate DEF CreateDocument, RowsInv
    <3> QED BY <2>2, <2>3, <3>3 DEF ListChunks
  <2> QED BY <2>1, <2>4, <2>5
<1> QED BY <1>5

\* What another tenant reads of the workflows.
LEMMA OtherWorkflowsStay ==
    ASSUME RowsInv, NEW owner, NEW tenant, tenant # owner, NEW w \in WorkflowIds, NEW config,
           CreateWorkflow(owner, w, config)
    PROVE  \A i : GetWorkflow(tenant, i)' = GetWorkflow(tenant, i)
<1>1. PICK row : /\ row = [tenant |-> owner, config |-> config]
                 /\ workflows' = [workflows EXCEPT ![w] = row]
  BY DEF CreateWorkflow
<1>2. row.tenant # tenant /\ workflows[w] = NotFound /\ IsTable(workflows, WorkflowIds)
  BY <1>1 DEF CreateWorkflow, RowsInv
<1>3. PICK new : new = workflows'
  OBVIOUS
<1>4. \A i : OwnRow(new, tenant, i) = OwnRow(workflows, tenant, i)
  <2>1. /\ IsTable(new, WorkflowIds) /\ new[w] = row
        /\ \A other \in WorkflowIds : other # w => new[other] = workflows[other]
    BY <1>1, <1>2, <1>3, TableUpdate
  <2> QED BY <1>2, <2>1, OtherRow
<1> QED BY <1>3, <1>4 DEF GetWorkflow

\* ReadDocuments decides what a retrieval finds.
LEMMA SameListsSameAnswer ==
    ASSUME NEW t, NEW config, NEW query,
           \A d : ListChunks(t, d)' = ListChunks(t, d)
    PROVE  Retrieve(t, config, query)' = Retrieve(t, config, query)
<1>1. PICK lists : lists = ReadDocuments(t, config.document_ids)
  OBVIOUS
<1>2. ReadDocuments(t, config.document_ids)' = lists
  BY <1>1 DEF ReadDocuments
<1>3. Retrieve(t, config, query) = IF RetrievalFails(lists) THEN NotFound
        ELSE BestOf(Results(lists, query), query, config.limit)
  BY <1>1 DEF Retrieve
<1>4. Retrieve(t, config, query)' = IF RetrievalFails(lists) THEN NotFound
        ELSE BestOf(Results(lists, query), query, config.limit)
  BY <1>2 DEF Retrieve
<1> QED BY <1>3, <1>4

\* Whoever reads the same rows gets the same answers.
LEMMA SameReadsSameAnswers ==
    ASSUME NEW tenant,
           \A d : GetDocument(tenant, d)' = GetDocument(tenant, d),
           \A d : ListChunks(tenant, d)' = ListChunks(tenant, d),
           \A w : GetWorkflow(tenant, w)' = GetWorkflow(tenant, w),
           \A r \in RunIds :
                /\ GetRun(tenant, r)' = GetRun(tenant, r)
                /\ ListSteps(tenant, r)' = ListSteps(tenant, r)
                /\ ListRunEvents(tenant, r)' = ListRunEvents(tenant, r)
                /\ LoadPending(tenant, r)' = LoadPending(tenant, r)
                /\ GetRun(tenant, r) # NotFound => runs'[r] = runs[r]
    PROVE  Answers(tenant)' = Answers(tenant)
<1>1. \A config, query : Retrieve(tenant, config, query)' = Retrieve(tenant, config, query)
  BY SameListsSameAnswer
<1>2. \A status : ListRuns(tenant, status)' = ListRuns(tenant, status)
  BY DEF ListRuns
<1>3. [d \in DocumentIds |-> <<GetDocument(tenant, d)', ListChunks(tenant, d)'>>]
        = [d \in DocumentIds |-> <<GetDocument(tenant, d), ListChunks(tenant, d)>>]
  OBVIOUS
<1>4. [w \in WorkflowIds |-> GetWorkflow(tenant, w)'] = [w \in WorkflowIds |-> GetWorkflow(tenant, w)]
  OBVIOUS
<1>5. [r \in RunIds |-> <<GetRun(tenant, r)', ListSteps(tenant, r)',
                          ListRunEvents(tenant, r)', LoadPending(tenant, r)'>>]
        = [r \in RunIds |-> <<GetRun(tenant, r), ListSteps(tenant, r),
                              ListRunEvents(tenant, r), LoadPending(tenant, r)>>]
  OBVIOUS
<1>6. [status \in {"", "queued", "completed"} |-> ListRuns(tenant, status)']
        = [status \in {"", "queued", "completed"} |-> ListRuns(tenant, status)]
  BY <1>2
<1>7. [config \in Configs |-> [query \in Queries |-> Retrieve(tenant, config, query)']]
        = [config \in Configs |-> [query \in Queries |-> Retrieve(tenant, config, query)]]
  BY <1>1
<1> QED BY <1>3, <1>4, <1>5, <1>6, <1>7 DEF Answers

-----------------------------------------------------------------------------
(* The theorems. *)

DataInv == ChunkInv /\ RowsInv /\ RunsInv

\* A step in the name of a tenant writes documents, a workflow or a run.
LEMMA StepWrites ==
    ASSUME RunsInv, NEW tenant, TenantStep(tenant)
    PROVE  \/ \E d \in DocumentIds, type \in {"text", "pdf"} : CreateDocument(tenant, d, type)
           \/ \E w \in WorkflowIds, config \in Configs : CreateWorkflow(tenant, w, config)
           \/ \E r \in RunIds : WritesRun(r, tenant) /\ UNCHANGED <<vars, tables>>
<1>1. CASE \E w \in WorkflowIds, r \in RunIds, query \in Queries :
                ExecuteSync(tenant, w, r, query) \/ ExecuteAsync(tenant, w, r, query)
  BY <1>1, ExecuteSyncWrites, ExecuteAsyncWrites
<1>2. CASE \E job \in jobs : job.tenant = tenant /\ ProcessNext(job)
  <2>1. PICK job \in jobs : job.tenant = tenant /\ ProcessNext(job)
    BY <1>2
  <2>2. WritesRun(job.run, tenant) /\ UNCHANGED <<vars, tables>>
    BY <2>1, ProcessNextWrites
  <2>3. job.run \in RunIds
    BY <2>2 DEF WritesRun
  <2> QED BY <2>2, <2>3
<1>3. CASE \E r \in RunIds, approved \in BOOLEAN : ResumeApproval(tenant, r, approved)
  BY <1>3, ResumeApprovalWrites
<1> QED BY <1>1, <1>2, <1>3 DEF TenantStep

LEMMA StepKeepsData ==
    ASSUME DataInv, [TenantNext]_allVars
    PROVE  DataInv'
<1>1. CASE ReadText
  <2>1. ChunkInv'
    <3>1. End \/ \E word \in Words : AddWord(word)
      BY <1>1 DEF ReadText
    <3> QED BY <3>1, EndCuts, AddWordCuts DEF DataInv
  <2>2. RowsInv'
    BY <1>1, SameTablesRows DEF ReadText, DataInv
  <2>3. RunsInv'
    BY <1>1 DEF ReadText, executor, DataInv, RunsInv
  <2> QED BY <2>1, <2>2, <2>3 DEF DataInv
<1>2. ASSUME NEW tenant \in Tenants, TenantStep(tenant)
      PROVE  DataInv'
  <2>1. ASSUME NEW d \in DocumentIds, NEW type, CreateDocument(tenant, d, type)
        PROVE  DataInv'
    <3>1. ChunkInv'
      BY <2>1, CreateDocumentCuts
    <3>2. RowsInv'
      BY <2>1, CreateDocumentRows DEF DataInv, ChunkInv
    <3>3. RunsInv'
      BY <2>1 DEF CreateDocument, executor, DataInv, RunsInv
    <3> QED BY <3>1, <3>2, <3>3 DEF DataInv
  <2>2. ASSUME NEW w \in WorkflowIds, NEW config, CreateWorkflow(tenant, w, config)
        PROVE  DataInv'
    <3>1. ChunkInv'
      BY <2>2, SameTextCuts DEF CreateWorkflow, DataInv
    <3>2. RowsInv'
      BY <2>2, CreateWorkflowRows DEF DataInv
    <3>3. RunsInv'
      BY <2>2 DEF CreateWorkflow, executor, DataInv, RunsInv
    <3> QED BY <3>1, <3>2, <3>3 DEF DataInv
  <2>3. ASSUME NEW r \in RunIds, WritesRun(r, tenant), UNCHANGED <<vars, tables>>
        PROVE  DataInv'
    <3>1. ChunkInv'
      BY <2>3, SameTextCuts DEF DataInv
    <3>2. RowsInv'
      BY <2>3, SameTablesRows DEF DataInv
    <3>3. RunsInv'
      BY <2>3, WritesRunKeeps DEF DataInv
    <3> QED BY <3>1, <3>2, <3>3 DEF DataInv
  <2>4. RunsInv
    BY DEF DataInv
  <2> HIDE DEF DataInv
  <2> QED BY <1>2, <2>1, <2>2, <2>3, <2>4, StepWrites
<1>3. CASE UNCHANGED allVars
  <2>1. ChunkInv'
    BY <1>3, SameTextCuts DEF allVars, DataInv
  <2>2. RowsInv'
    BY <1>3, SameTablesRows DEF allVars, DataInv
  <2>3. RunsInv'
    BY <1>3 DEF allVars, executor, DataInv, RunsInv
  <2> QED BY <2>1, <2>2, <2>3 DEF DataInv
<1> QED BY <1>1, <1>2, <1>3 DEF TenantNext

LEMMA InitData == TenantInit => DataInv
<1> SUFFICES ASSUME TenantInit PROVE DataInv
  OBVIOUS
<1>1. Init
  BY DEF TenantInit
<1> QED BY <1>1, InitCuts, InitRows DEF DataInv

LEMMA DataInvHolds == TenantSpec => []DataInv
<1>1. DataInv /\ [TenantNext]_allVars => DataInv'
  BY StepKeepsData
<1> QED BY <1>1, InitData, PTL DEF TenantSpec

\* builder.Len() is the size of what was written to the builder, and chunkText
\* writes no empty chunk.
THEOREM TextTypes == TenantSpec => []TypeOK
<1>1. DataInv => TypeOK
  BY DEF DataInv, ChunkInv
<1> QED BY <1>1, DataInvHolds, PTL

\* chunkText loses, repeats and moves no word of an upload.
THEOREM NoWordIsLost == TenantSpec => []WordsAreKept
<1>1. DataInv => WordsAreKept
  BY DEF DataInv, ChunkInv
<1> QED BY <1>1, DataInvHolds, PTL

\* chunkText cuts where the next word does not fit, and only there.
THEOREM CutsAreLate == TenantSpec => []ChunksAreFull
<1>1. DataInv => ChunksAreFull
  BY DEF DataInv, ChunkInv
<1> QED BY <1>1, DataInvHolds, PTL

\* ListChunks of Postgres, with its join and the second look, answers like
\* ListChunks of the memory repository, and the row of a document counts its
\* chunks.
THEOREM ChunksAreListedAlike == TenantSpec => []RepositoriesAgree
<1>1. DataInv => RepositoriesAgree
  BY AgreeFromRows DEF DataInv
<1> QED BY <1>1, DataInvHolds, PTL

\* Nothing that is done in the name of one tenant changes an answer to another.
THEOREM TenantsDoNotMeet == TenantSpec => TenantsAreIsolated
<1>1. ASSUME DataInv, NEW tenant \in Tenants, NEW other \in Tenants \ {tenant}, TenantStep(other)
      PROVE  Answers(tenant)' = Answers(tenant)
  <2>1. CASE \E d \in DocumentIds, type \in {"text", "pdf"} : CreateDocument(other, d, type)
    <3>1. PICK d \in DocumentIds, type \in {"text", "pdf"} : CreateDocument(other, d, type)
      BY <2>1
    <3>2. \A i : /\ GetDocument(tenant, i)' = GetDocument(tenant, i)
                 /\ ListChunks(tenant, i)' = ListChunks(tenant, i)
      BY <1>1, <3>1, OtherDocumentsStay DEF DataInv
    <3>3. \A w : GetWorkflow(tenant, w)' = GetWorkflow(tenant, w)
      BY <3>1 DEF CreateDocument, GetWorkflow
    <3>4. \A r \in RunIds :
                /\ GetRun(tenant, r)' = GetRun(tenant, r)
                /\ ListSteps(tenant, r)' = ListSteps(tenant, r)
                /\ ListRunEvents(tenant, r)' = ListRunEvents(tenant, r)
                /\ LoadPending(tenant, r)' = LoadPending(tenant, r)
                /\ GetRun(tenant, r) # NotFound => runs'[r] = runs[r]
      BY <3>1 DEF CreateDocument, executor, GetRun, ListSteps, ListRunEvents, LoadPending
    <3> QED BY <3>2, <3>3, <3>4, SameReadsSameAnswers
  <2>2. CASE \E w \in WorkflowIds, config \in Configs : CreateWorkflow(other, w, config)
    <3>1. PICK w \in WorkflowIds, config \in Configs : CreateWorkflow(other, w, config)
      BY <2>2
    <3>2. \A i : /\ GetDocument(tenant, i)' = GetDocument(tenant, i)
                 /\ ListChunks(tenant, i)' = ListChunks(tenant, i)
      BY <3>1 DEF CreateWorkflow, GetDocument, ListChunks
    <3>3. \A i : GetWorkflow(tenant, i)' = GetWorkflow(tenant, i)
      BY <1>1, <3>1, OtherWorkflowsStay DEF DataInv
    <3>4. \A r \in RunIds :
                /\ GetRun(tenant, r)' = GetRun(tenant, r)
                /\ ListSteps(tenant, r)' = ListSteps(tenant, r)
                /\ ListRunEvents(tenant, r)' = ListRunEvents(tenant, r)
                /\ LoadPending(tenant, r)' = LoadPending(tenant, r)
                /\ GetRun(tenant, r) # NotFound => runs'[r] = runs[r]
      BY <3>1 DEF CreateWorkflow, executor, GetRun, ListSteps, ListRunEvents, LoadPending
    <3> QED BY <3>2, <3>3, <3>4, SameReadsSameAnswers
  <2>3. CASE \E r \in RunIds : WritesRun(r, other) /\ UNCHANGED <<vars, tables>>
    <3>1. PICK r \in RunIds : WritesRun(r, other) /\ UNCHANGED <<vars, tables>>
      BY <2>3
    <3>2. \A i : /\ GetDocument(tenant, i)' = GetDocument(tenant, i)
                 /\ ListChunks(tenant, i)' = ListChunks(tenant, i)
      BY <3>1 DEF tables, GetDocument, ListChunks
    <3>3. \A w : GetWorkflow(tenant, w)' = GetWorkflow(tenant, w)
      BY <3>1 DEF tables, GetWorkflow
    <3>4. \A i \in RunIds :
                /\ GetRun(tenant, i)' = GetRun(tenant, i)
                /\ ListSteps(tenant, i)' = ListSteps(tenant, i)
                /\ ListRunEvents(tenant, i)' = ListRunEvents(tenant, i)
                /\ LoadPending(tenant, i)' = LoadPending(tenant, i)
                /\ GetRun(tenant, i) # NotFound => runs'[i] = runs[i]
      BY <1>1, <3>1, OtherRunsStay DEF DataInv
    <3> QED BY <3>2, <3>3, <3>4, SameReadsSameAnswers
  <2>4. RunsInv
    BY <1>1 DEF DataInv
  <2> QED BY <1>1, <2>1, <2>2, <2>3, <2>4, StepWrites
<1>2. DataInv /\ [TenantNext]_allVars =>
        [\A tenant \in Tenants :
            (\E other \in Tenants \ {tenant} : TenantStep(other))
                => Answers(tenant)' = Answers(tenant)]_allVars
  BY <1>1
<1> QED BY <1>2, DataInvHolds, PTL DEF TenantSpec, TenantsAreIsolated

-----------------------------------------------------------------------------
(* Uploads: the bucket, its mutex, and documents that have objects. *)

Inside == {"exists", "make", "recheck", "mark", "unlock"}

Places == Inside \union {"lock", "put", "persist", "done", "failed"}

\* UploadTypeOK in the form in which the proofs use it.
Typed ==
    /\ bucket \in BOOLEAN
    /\ objects \subseteq Uploads /\ listed \subseteq Uploads /\ hit \subseteq Uploads
    /\ ready \in [Processes -> BOOLEAN]
    /\ mutex \in [Processes -> Uploads \union {Nobody}]
    /\ upload \in [Uploads -> Places]

Held == \A u \in Uploads : mutex[Process[u]] = u <=> upload[u] \in Inside

LEMMA TypedForm == UploadTypeOK <=> Typed /\ Held
    <1>1. Places = {"lock", "exists", "make", "recheck", "mark", "unlock",
                    "put", "persist", "done", "failed"}
        BY DEF Places, Inside
    <1> QED
        BY <1>1 DEF UploadTypeOK, Typed, Held, Inside

\* An upload moves on, and the mutex of its process with it.
LEMMA Moved ==
    ASSUME Typed, Held, NEW u \in Uploads, NEW pc \in Places, Goto(u, pc),
           NEW m \in Uploads \union {Nobody}, mutex' = [mutex EXCEPT ![Process[u]] = m],
           m = u <=> pc \in Inside,
           m = u \/ m = mutex[Process[u]] \/ (m = Nobody /\ mutex[Process[u]] = u),
           m = u => mutex[Process[u]] \in {u, Nobody}
    PROVE  /\ upload' \in [Uploads -> Places]
           /\ mutex' \in [Processes -> Uploads \union {Nobody}]
           /\ Held'
    <1>1. Process[u] \in Processes /\ \A v \in Uploads : Process[v] \in Processes
        BY ProcessAssumption
    <1>2. /\ upload'[u] = pc /\ \A v \in Uploads : v # u => upload'[v] = upload[v]
          /\ upload' \in [Uploads -> Places]
        BY DEF Typed, Goto
    <1>3. /\ mutex'[Process[u]] = m
          /\ \A p \in Processes : p # Process[u] => mutex'[p] = mutex[p]
          /\ mutex' \in [Processes -> Uploads \union {Nobody}]
        BY <1>1 DEF Typed
    <1>4. ASSUME NEW v \in Uploads
          PROVE  mutex'[Process[v]] = v <=> upload'[v] \in Inside
        <2>1. CASE v = u
            BY <1>2, <1>3, <2>1
        <2>2. CASE v # u /\ Process[v] # Process[u]
            BY <1>1, <1>2, <1>3, <2>2 DEF Held
        <2>3. CASE v # u /\ Process[v] = Process[u]
            BY <1>2, <1>3, <2>3, NobodyAssumption DEF Held
        <2> QED
            BY <2>1, <2>2, <2>3
    <1> QED
        BY <1>2, <1>3, <1>4 DEF Held

\* An upload moves on and leaves the mutex alone.
LEMMA MovedAside ==
    ASSUME Typed, Held, NEW u \in Uploads, NEW pc \in Places, Goto(u, pc),
           UNCHANGED mutex, pc \in Inside <=> upload[u] \in Inside
    PROVE  upload' \in [Uploads -> Places] /\ Held'
    <1>1. /\ upload'[u] = pc /\ \A v \in Uploads : v # u => upload'[v] = upload[v]
          /\ upload' \in [Uploads -> Places]
        BY DEF Typed, Goto
    <1> QED
        BY <1>1 DEF Held

\* An upload that fails lets go of the mutex.
LEMMA Failing ==
    ASSUME Typed, Held, NEW u \in Uploads, Fail(u)
    PROVE  /\ upload' \in [Uploads -> Places]
           /\ mutex' \in [Processes -> Uploads \union {Nobody}]
           /\ Held'
    <1>1. "failed" \in Places /\ "failed" \notin Inside
        BY DEF Places, Inside
    <1>2. Goto(u, "failed")
        BY DEF Fail
    <1>3. CASE mutex[Process[u]] = u
        <2>1. mutex' = [mutex EXCEPT ![Process[u]] = Nobody]
            BY <1>3 DEF Fail, Unlock
        <2> QED
            BY <1>1, <1>2, <1>3, <2>1, Moved, NobodyAssumption
    <1>4. CASE mutex[Process[u]] # u
        <2>1. UNCHANGED mutex
            BY <1>4 DEF Fail
        <2>2. upload[u] \notin Inside
            BY <1>4 DEF Held
        <2> QED
            BY <1>1, <1>2, <2>1, <2>2, MovedAside DEF Typed
    <1> QED
        BY <1>3, <1>4

\* The steps of an upload.
LEMMA UploadTyped ==
    ASSUME Typed, Held, NEW u \in Uploads, UploadStep(u)
    PROVE  Typed' /\ Held'
    <1>0. /\ \A pc \in {"exists", "make", "recheck", "mark", "unlock"} : pc \in Places /\ pc \in Inside
          /\ \A pc \in {"lock", "put", "persist", "done", "failed"} : pc \in Places /\ pc \notin Inside
        BY DEF Places, Inside
    <1>1. Process[u] \in Processes
        BY ProcessAssumption
    <1>2. CASE Lock(u)
        <2>1. PICK pc \in {"unlock", "exists"} : Goto(u, pc)
            BY <1>2 DEF Lock
        <2>2. /\ mutex[Process[u]] = Nobody /\ mutex' = [mutex EXCEPT ![Process[u]] = u]
              /\ UNCHANGED <<bucket, objects, listed, ready, hit>>
            BY <1>2 DEF Lock
        <2>3. pc \in Places /\ pc \in Inside
            BY <1>0, <2>1
        <2> QED
            BY <2>1, <2>2, <2>3, Moved DEF Typed
    <1>3. CASE BucketExists(u) \/ MakeBucket(u)
        <2>1. PICK pc \in {"make", "mark", "recheck"} : Goto(u, pc)
            BY <1>3 DEF BucketExists, MakeBucket
        <2>2. /\ upload[u] \in {"exists", "make"} /\ bucket' \in BOOLEAN
              /\ UNCHANGED <<mutex, objects, listed, ready, hit>>
            BY <1>3 DEF BucketExists, MakeBucket, Typed
        <2>3. pc \in Places /\ pc \in Inside /\ upload[u] \in Inside
            BY <1>0, <2>1, <2>2
        <2> QED
            BY <2>1, <2>2, <2>3, MovedAside DEF Typed
    <1>4. CASE RecheckBucket(u)
        <2>1. upload[u] = "recheck" /\ UNCHANGED <<bucket, objects, listed, ready, hit>>
            BY <1>4 DEF RecheckBucket
        <2>2. CASE bucket
            <3>1. Goto(u, "mark") /\ UNCHANGED mutex
                BY <1>4, <2>2 DEF RecheckBucket
            <3> QED
                BY <1>0, <2>1, <3>1, MovedAside DEF Typed
        <2>3. CASE ~bucket
            BY <1>4, <2>1, <2>3, Failing DEF RecheckBucket, Typed
        <2> QED
            BY <2>2, <2>3
    <1>5. CASE MarkReady(u)
        <2>1. /\ upload[u] = "mark" /\ Goto(u, "unlock")
              /\ UNCHANGED <<mutex, bucket, objects, listed, hit>>
            BY <1>5 DEF MarkReady
        <2>2. ready' \in [Processes -> BOOLEAN]
            BY <1>5 DEF MarkReady, Typed
        <2> QED
            BY <1>0, <2>1, <2>2, MovedAside DEF Typed
    <1>6. CASE ReleaseMutex(u)
        <2>1. /\ upload[u] = "unlock" /\ Goto(u, "put")
              /\ mutex' = [mutex EXCEPT ![Process[u]] = Nobody]
              /\ UNCHANGED <<bucket, objects, listed, ready, hit>>
            BY <1>6 DEF ReleaseMutex, Unlock
        <2>2. mutex[Process[u]] = u
            BY <1>0, <2>1 DEF Held
        <2> QED
            BY <1>0, <2>1, <2>2, Moved, NobodyAssumption DEF Typed
    <1>7. CASE PutObject(u) \/ Persist(u)
        <2>1. PICK pc \in {"persist", "done"} : Goto(u, pc)
            BY <1>7 DEF PutObject, Persist
        <2>2. /\ upload[u] \in {"put", "persist"}
              /\ UNCHANGED <<mutex, bucket, ready, hit>>
              /\ objects' \subseteq Uploads /\ listed' \subseteq Uploads
            BY <1>7 DEF PutObject, Persist, Typed
        <2>3. pc \in Places /\ pc \notin Inside /\ upload[u] \notin Inside
            BY <1>0, <2>1, <2>2
        <2> QED
            BY <2>1, <2>2, <2>3, MovedAside DEF Typed
    <1> QED
        BY <1>2, <1>3, <1>4, <1>5, <1>6, <1>7 DEF UploadStep

\* A call that fails.
LEMMA CallFailsTyped ==
    ASSUME Typed, Held, NEW u \in Uploads, CallFails(u)
    PROVE  Typed' /\ Held'
    <1>1. UNCHANGED ready /\ hit' \subseteq Uploads
        BY DEF CallFails, Typed
    <1>2. bucket' \in BOOLEAN /\ objects' \subseteq Uploads /\ listed' \subseteq Uploads
        BY DEF CallFails, Typed
    <1>3. CASE Fail(u)
        BY <1>1, <1>2, <1>3, Failing DEF Typed
    <1>4. CASE upload[u] = "make" /\ Goto(u, "recheck") /\ UNCHANGED mutex
        <2>1. "recheck" \in Places /\ "recheck" \in Inside /\ "make" \in Inside
            BY DEF Places, Inside
        <2> QED
            BY <1>1, <1>2, <1>4, <2>1, MovedAside DEF Typed
    <1> QED
        BY <1>3, <1>4 DEF CallFails

\* A restart frees the mutex, and cuts off the upload that held it.
LEMMA RestartTyped ==
    ASSUME Typed, Held, NEW p \in Processes, Restart(p)
    PROVE  Typed' /\ Held'
    <1> DEFINE cut == {u \in Uploads : Process[u] = p /\ upload[u] \notin {"lock", "done"}}
    <1>1. /\ mutex' = [mutex EXCEPT ![p] = Nobody] /\ ready' = [ready EXCEPT ![p] = FALSE]
          /\ upload' = [u \in Uploads |-> IF u \in cut THEN "failed" ELSE upload[u]]
          /\ hit' = hit \union cut
          /\ UNCHANGED <<bucket, objects, listed>>
        BY DEF Restart
    <1>2. "failed" \in Places /\ "failed" \notin Inside /\ "lock" \notin Inside /\ "done" \notin Inside
        BY DEF Places, Inside
    <1>3. Typed'
        <2>1. cut \subseteq Uploads
            OBVIOUS
        <2>2. mutex' \in [Processes -> Uploads \union {Nobody}] /\ ready' \in [Processes -> BOOLEAN]
            BY <1>1 DEF Typed
        <2> HIDE DEF cut
        <2>3. upload' \in [Uploads -> Places]
            BY <1>1, <1>2 DEF Typed
        <2> QED
            BY <1>1, <2>1, <2>2, <2>3 DEF Typed
    <1>4. ASSUME NEW u \in Uploads
          PROVE  mutex'[Process[u]] = u <=> upload'[u] \in Inside
        <2>0. Process[u] \in Processes
            BY ProcessAssumption
        <2>1. CASE Process[u] = p
            <3>1. mutex'[Process[u]] = Nobody
                BY <1>1, <2>1 DEF Typed
            <3>2. upload'[u] \notin Inside
                BY <1>1, <1>2, <2>1
            <3> QED
                BY <3>1, <3>2, NobodyAssumption
        <2>2. CASE Process[u] # p
            <3>1. mutex'[Process[u]] = mutex[Process[u]] /\ upload'[u] = upload[u]
                BY <1>1, <2>0, <2>2 DEF Typed
            <3> QED
                BY <3>1 DEF Held
        <2> QED
            BY <2>1, <2>2
    <1> QED
        BY <1>3, <1>4 DEF Held

LEMMA TypedStep ==
    ASSUME UploadTypeOK, [UploadNext]_uploadVars
    PROVE  UploadTypeOK'
    <1>1. Typed /\ Held
        BY TypedForm
    <1>2. Typed' /\ Held'
        <2>1. CASE UploadNext
            BY <1>1, <2>1, UploadTyped, CallFailsTyped, RestartTyped DEF UploadNext
        <2>2. CASE UNCHANGED uploadVars
            BY <1>1, <2>2 DEF uploadVars, Typed, Held
        <2> QED
            BY <2>1, <2>2
    <1>3. Places = {"lock", "exists", "make", "recheck", "mark", "unlock",
                    "put", "persist", "done", "failed"}
        BY DEF Places, Inside
    <1> QED
        BY <1>2, <1>3 DEF UploadTypeOK, Typed, Held, Inside

\* At first nobody is inside ensureBucket.
LEMMA InitTyped == UploadInit => UploadTypeOK
    <1> SUFFICES ASSUME UploadInit
                 PROVE  UploadTypeOK
        OBVIOUS
    <1>1. \A u \in Uploads : Process[u] \in Processes
        BY ProcessAssumption
    <1>2. \A u \in Uploads : mutex[Process[u]] = Nobody /\ upload[u] = "lock" /\ u # Nobody
        BY <1>1, NobodyAssumption DEF UploadInit
    <1> QED
        BY <1>2 DEF UploadInit, UploadTypeOK

\* bucketMu does its work: whatever calls fail and whichever processes restart,
\* the mutex of a process is held exactly by the one upload inside ensureBucket.
THEOREM MutexHeld == UploadSpec => []UploadTypeOK
    <1>1. UploadInit => UploadTypeOK
        BY InitTyped
    <1>2. UploadTypeOK /\ [UploadNext]_uploadVars => UploadTypeOK'
        BY TypedStep
    <1> QED
        BY <1>1, <1>2, PTL DEF UploadSpec

-----------------------------------------------------------------------------
(* Documents have objects. *)

\* An upload that is about to list its document has stored its object.
StoredFirst ==
    /\ listed \subseteq objects
    /\ \A u \in Uploads : upload[u] = "persist" => u \in objects

StoredInv == UploadTypeOK /\ StoredFirst

LEMMA StoredStep ==
    ASSUME StoredInv, [UploadNext]_uploadVars
    PROVE  StoredInv'
    <1>1. UploadTypeOK'
        BY TypedStep DEF StoredInv
    <1>2. upload \in [Uploads -> Places]
        BY TypedForm DEF StoredInv, Typed
    <1>3. ASSUME NEW u \in Uploads, NEW pc, Goto(u, pc), objects \subseteq objects',
                 listed' \subseteq listed \union {u},
                 listed' = listed \/ u \in objects,
                 pc = "persist" => u \in objects'
          PROVE  StoredFirst'
        <2>1. upload'[u] = pc /\ \A v \in Uploads : v # u => upload'[v] = upload[v]
            BY <1>2, <1>3 DEF Goto
        <2> QED
            BY <1>3, <2>1 DEF StoredInv, StoredFirst
    <1>4. ASSUME NEW u \in Uploads, UploadStep(u)
          PROVE  StoredFirst'
        <2>1. CASE PutObject(u)
            BY <1>3, <2>1 DEF PutObject
        <2>2. CASE Persist(u)
            BY <1>3, <2>2 DEF Persist, StoredInv, StoredFirst
        <2>3. CASE RecheckBucket(u)
            <3>1. PICK pc \in {"mark", "failed"} : Goto(u, pc)
                BY <2>3 DEF RecheckBucket, Fail
            <3> QED
                BY <1>3, <2>3, <3>1 DEF RecheckBucket
        <2>4. CASE Lock(u) \/ BucketExists(u) \/ MakeBucket(u) \/ MarkReady(u) \/ ReleaseMutex(u)
            <3>1. PICK pc \in Inside \union {"put"} : Goto(u, pc)
                BY <2>4 DEF Lock, BucketExists, MakeBucket, MarkReady, ReleaseMutex, Inside
            <3>2. pc # "persist"
                BY <3>1 DEF Inside
            <3>3. UNCHANGED <<objects, listed>>
                BY <2>4 DEF Lock, BucketExists, MakeBucket, MarkReady, ReleaseMutex
            <3> QED
                BY <1>3, <3>1, <3>2, <3>3
        <2> QED
            BY <1>4, <2>1, <2>2, <2>3, <2>4 DEF UploadStep
    <1>5. ASSUME NEW u \in Uploads, CallFails(u)
          PROVE  StoredFirst'
        <2>1. PICK pc \in {"recheck", "failed"} : Goto(u, pc)
            BY <1>5 DEF CallFails, Fail
        <2>2. /\ objects \subseteq objects' /\ listed' \subseteq listed \union {u}
              /\ listed' = listed \/ upload[u] = "persist"
            BY <1>5 DEF CallFails
        <2> QED
            BY <1>3, <2>1, <2>2 DEF StoredInv, StoredFirst
    <1>6. ASSUME NEW p \in Processes, Restart(p)
          PROVE  StoredFirst'
        <2>1. UNCHANGED <<objects, listed>>
            BY <1>6 DEF Restart
        <2>2. \A u \in Uploads : upload'[u] = "persist" => upload[u] = "persist"
            BY <1>6 DEF Restart
        <2> QED
            BY <2>1, <2>2 DEF StoredInv, StoredFirst
    <1>7. CASE UNCHANGED uploadVars
        BY <1>1, <1>7 DEF uploadVars, StoredInv, StoredFirst
    <1> QED
        BY <1>1, <1>4, <1>5, <1>6, <1>7 DEF UploadNext, StoredInv

\* No interleaving of uploads, failing call or restart ever leaves a document in
\* the list whose object was not stored before it.
THEOREM ListedIsStored == UploadSpec => []DocumentsHaveObjects
    <1>1. UploadInit => StoredInv
        BY InitTyped DEF StoredInv, StoredFirst, UploadInit
    <1>2. StoredInv => DocumentsHaveObjects
        BY DEF StoredInv, StoredFirst, DocumentsHaveObjects
    <1>3. StoredInv /\ [UploadNext]_uploadVars => StoredInv'
        BY StoredStep
    <1> QED
        BY <1>1, <1>2, <1>3, PTL DEF UploadSpec
================================================================================
