--------------------------- MODULE SystemVProofs ----------------------------
(***************************************************************************)
(* What the operations on System V message queues and semaphores do, for   *)
(* queues of any length, messages of any kind and any set of processes:    *)
(* the lemmas that the programs which use them are proved with.            *)
(***************************************************************************)
EXTENDS MsgQueue, Semaphores, SequenceTheorems, FiniteSetTheorems,
        WellFoundedInduction, TLAPS

-----------------------------------------------------------------------------
(* Message queues. *)

\* Every nonempty set of naturals has the least element that Min chooses.
LEMMA MinProperties ==
    ASSUME NEW S \in SUBSET Nat, S # {}
    PROVE  Min(S) \in S /\ \A y \in S : Min(S) <= y
<1> DEFINE R == {p \in Nat \X Nat : p[1] < p[2]}
<1>1. IsWellFoundedOn(R, Nat)
  BY NatLessThanWellFounded, Zenon DEF OpToRel
<1>2. PICK x \in S : \A y \in S : ~(<<y, x>> \in R)
  BY <1>1, WFMin, Zenon
<1>3. ASSUME NEW y \in S PROVE x <= y
  <2>1. /\ x \in Nat /\ y \in Nat
        /\ <<y, x>> \in Nat \X Nat
        /\ <<y, x>>[1] = y /\ <<y, x>>[2] = x
    OBVIOUS
  <2>2. ~(y < x)
    BY <1>2, <2>1, Zenon
  <2>3. QED
    BY <2>1, <2>2
<1>4. QED
  BY <1>2, <1>3 DEF Min

\* msgrcv takes the oldest message that matches and closes the gap it leaves.
LEMMA RemainingPositions ==
    ASSUME NEW M, NEW q \in Seq(M), NEW t, HasMessage(q, t)
    PROVE  /\ FirstMatch(q, t) \in 1..Len(q)
           /\ Received(q, t) = q[FirstMatch(q, t)] /\ Matches(Received(q, t), t)
           /\ \A i \in 1..FirstMatch(q, t) - 1 : ~Matches(q[i], t)
           /\ Remaining(q, t) \in Seq(M) /\ Len(Remaining(q, t)) = Len(q) - 1
           /\ \A i \in 1..Len(Remaining(q, t)) :
                Remaining(q, t)[i] = IF i < FirstMatch(q, t) THEN q[i] ELSE q[i + 1]
<1> DEFINE k == FirstMatch(q, t)
           front == SubSeq(q, 1, k - 1)
           back == SubSeq(q, k + 1, Len(q))
           I == {i \in 1..Len(q) : Matches(q[i], t)}
<1>0. k = IF I # {} THEN Min(I) ELSE 0
  BY Zenon DEF FirstMatch, SelectInSeq
<1>1. I \in SUBSET Nat /\ I # {}
  BY DEF HasMessage
<1>2. k \in I /\ \A i \in I : k <= i
  BY <1>0, <1>1, MinProperties
<1>3. k \in 1..Len(q) /\ Matches(q[k], t) /\ Len(q) \in Nat
  BY <1>2
<1>4. \A i \in 1..k - 1 : ~Matches(q[i], t)
  BY <1>2, <1>3
<1>5. Received(q, t) = q[k]
  BY DEF Received
<1> HIDE DEF k
<1>6. front \in Seq(M) /\ Len(front) = k - 1 /\ \A i \in 1..Len(front) : front[i] = q[i]
  BY <1>3
<1>7. back \in Seq(M) /\ Len(back) = Len(q) - k
      /\ \A i \in 1..Len(back) : back[i] = q[k + i]
  BY <1>3
<1> HIDE DEF front, back
<1>8. Remaining(q, t) = front \o back
  BY Zenon DEF Remaining, RemoveAt, k, front, back
<1>9. /\ front \o back \in Seq(M)
      /\ Len(front \o back) = Len(front) + Len(back)
      /\ \A i \in 1..(Len(front) + Len(back)) :
            (front \o back)[i] = IF i <= Len(front) THEN front[i] ELSE back[i - Len(front)]
  BY <1>6, <1>7, ConcatProperties, Zenon
<1>10. Len(front) + Len(back) = Len(q) - 1
  BY <1>3, <1>6, <1>7
<1>11. ASSUME NEW i \in 1..Len(q) - 1
       PROVE  (front \o back)[i] = IF i < k THEN q[i] ELSE q[i + 1]
  <2>1. (front \o back)[i] = IF i <= k - 1 THEN front[i] ELSE back[i - (k - 1)]
    BY <1>6, <1>9, <1>10
  <2>2. CASE i < k
    BY <1>3, <1>6, <2>1, <2>2
  <2>3. CASE ~(i < k)
    <3>1. i - (k - 1) \in 1..Len(back) /\ k + (i - (k - 1)) = i + 1
      BY <1>3, <1>7, <2>3
    <3>2. QED
      BY <1>3, <1>7, <2>1, <2>3, <3>1
  <2>4. QED
    BY <2>2, <2>3
<1>12. QED
  BY <1>3, <1>4, <1>5, <1>8, <1>9, <1>10, <1>11 DEF k

\* What msgrcv returns comes from the queue and has the type asked for; what it
\* leaves is still a queue, and holds nothing new.
LEMMA ReceiveProperties ==
    ASSUME NEW M, NEW q \in Seq(M), NEW t, HasMessage(q, t)
    PROVE  /\ Received(q, t) \in M
           /\ Matches(Received(q, t), t)
           /\ Remaining(q, t) \in Seq(M)
           /\ \A i \in 1..Len(Remaining(q, t)) :
                \E j \in 1..Len(q) : Remaining(q, t)[i] = q[j]
<1>1. /\ FirstMatch(q, t) \in 1..Len(q) /\ Received(q, t) = q[FirstMatch(q, t)]
      /\ Matches(Received(q, t), t)
      /\ Remaining(q, t) \in Seq(M) /\ Len(Remaining(q, t)) = Len(q) - 1
      /\ \A i \in 1..Len(Remaining(q, t)) :
            Remaining(q, t)[i] = IF i < FirstMatch(q, t) THEN q[i] ELSE q[i + 1]
  BY RemainingPositions, ZenonT(40)
<1>2. ASSUME NEW i \in 1..Len(Remaining(q, t))
      PROVE  \E j \in 1..Len(q) : Remaining(q, t)[i] = q[j]
  <2>1. i \in 1..Len(q) /\ i + 1 \in 1..Len(q)
    BY <1>1
  <2>2. QED
    BY <1>1, <2>1
<1>3. QED
  BY <1>1, <1>2

-----------------------------------------------------------------------------
(* The messages a reader picks out of a queue. *)

\* f counts through the n members of P from the least on.
Counts(f, n, P) ==
    /\ f \in [1..n -> P]
    /\ \A j, k \in 1..n : j < k => f[j] < f[k]
    /\ \A i \in P : \E k \in 1..n : f[k] = i

\* A finite set of naturals is counted through from its least element to its
\* greatest.
LEMMA Counted ==
    ASSUME NEW m \in Nat, NEW P \in SUBSET (1..m)
    PROVE  /\ Cardinality(P) \in Nat
           /\ \A k \in 1..Cardinality(P) : Nth(P, k) \in P
           /\ \A j, k \in 1..Cardinality(P) : j < k => Nth(P, j) < Nth(P, k)
           /\ \A i \in P : \E k \in 1..Cardinality(P) : Nth(P, k) = i
<1> DEFINE n == Cardinality(P)
           rank == [i \in P |-> Cardinality(Below(P, i))]
<1>0. \A i \in P : i \in Nat
  OBVIOUS
<1>1. IsFiniteSet(1..m)
  BY FS_Interval
<1>2. IsFiniteSet(P) /\ n \in Nat
  BY <1>1, FS_Subset, FS_CardinalityType
<1>3. ASSUME NEW i \in P
      PROVE  /\ IsFiniteSet(Below(P, i)) /\ Cardinality(Below(P, i)) \in Nat
             /\ Cardinality(Below(P, i)) < n
  <2>1. Below(P, i) \in SUBSET P /\ Below(P, i) # P
    <3>1. i \notin Below(P, i)
      BY DEF Below
    <3>2. QED
      BY <3>1 DEF Below
  <2>2. /\ IsFiniteSet(Below(P, i)) /\ Cardinality(Below(P, i)) <= n
        /\ n = Cardinality(Below(P, i)) => P = Below(P, i)
    BY <1>2, <2>1, FS_Subset, Zenon
  <2>3. Cardinality(Below(P, i)) \in Nat
    BY <2>2, FS_CardinalityType
  <2>4. QED
    BY <1>2, <2>1, <2>2, <2>3
<1>4. ASSUME NEW i \in P, NEW j \in P, i < j
      PROVE  Cardinality(Below(P, i)) < Cardinality(Below(P, j))
  <2>1. Below(P, i) \in SUBSET Below(P, j) /\ i \in Below(P, j) /\ i \notin Below(P, i)
    <3>1. \A l \in P : l < i => l < j
      BY <1>0, <1>4
    <3>2. ~(i < i)
      BY <1>0
    <3>3. QED
      BY <1>4, <3>1, <3>2 DEF Below
  <2>2. /\ Cardinality(Below(P, i)) <= Cardinality(Below(P, j))
        /\ Cardinality(Below(P, j)) = Cardinality(Below(P, i)) => Below(P, j) = Below(P, i)
    BY <1>3, <2>1, FS_Subset, Zenon
  <2>3. QED
    BY <1>3, <2>1, <2>2
<1>5. \A i, j \in P : rank[i] = rank[j] => i = j
  <2>1. ASSUME NEW i \in P, NEW j \in P, rank[i] = rank[j], i # j PROVE FALSE
    <3>1. i < j \/ j < i
      BY <2>1
    <3>2. QED
      BY <1>3, <1>4, <2>1, <3>1
  <2>2. QED
    BY <2>1
<1>6. \A i \in P : rank[i] \in 0..n - 1
  BY <1>2, <1>3
<1>7. IsFiniteSet(0..n - 1) /\ Cardinality(0..n - 1) = n
  BY <1>2, FS_Interval, SMTT(30)
<1>8. \A k \in 0..n - 1 : \E i \in P : rank[i] = k
  <2>1. rank \in Injection(P, 0..n - 1)
    BY <1>5, <1>6 DEF Injection, IsInjective
  <2> HIDE DEF rank
  <2>2. rank \in Surjection(P, 0..n - 1)
    BY <1>2, <1>7, <2>1, FS_Injection
  <2>3. QED
    BY <2>2 DEF Surjection
<1>9. ASSUME NEW k \in 1..n
      PROVE  Nth(P, k) \in P /\ Cardinality(Below(P, Nth(P, k))) = k - 1
  <2>1. k - 1 \in 0..n - 1
    BY <1>2
  <2>2. \E i \in P : Cardinality(Below(P, i)) = k - 1
    BY <1>8, <2>1
  <2>3. QED
    BY <2>2 DEF Nth
<1>10. ASSUME NEW j \in 1..n, NEW k \in 1..n, j < k
       PROVE  Nth(P, j) < Nth(P, k)
  <2>1. Nth(P, j) \in P /\ Nth(P, k) \in P
    BY <1>9
  <2>2. CASE Nth(P, k) < Nth(P, j)
    <3>1. Cardinality(Below(P, Nth(P, k))) < Cardinality(Below(P, Nth(P, j)))
      BY <1>4, <2>1, <2>2
    <3>2. QED
      BY <1>2, <1>9, <1>10, <3>1
  <2>3. CASE Nth(P, k) = Nth(P, j)
    BY <1>2, <1>9, <1>10, <2>3
  <2>4. QED
    <3>1. Nth(P, j) \in Nat /\ Nth(P, k) \in Nat
      BY <1>0, <2>1
    <3>2. QED
      BY <2>2, <2>3, <3>1
<1>11. ASSUME NEW i \in P
       PROVE  \E k \in 1..n : Nth(P, k) = i
  <2>1. PICK k \in 1..n : k = Cardinality(Below(P, i)) + 1
    BY <1>2, <1>3
  <2>2. rank[Nth(P, k)] = rank[i] /\ Nth(P, k) \in P
    BY <1>3, <1>9, <2>1
  <2>3. QED
    BY <1>5, <2>2
<1>12. QED
  BY <1>2, <1>9, <1>10, <1>11

\* There is only one way to count through it.
LEMMA CountedOnce ==
    ASSUME NEW m \in Nat, NEW P \in SUBSET (1..m), NEW n \in Nat, NEW f, Counts(f, n, P)
    PROVE  Cardinality(P) = n /\ \A k \in 1..n : Nth(P, k) = f[k]
<1>0. \A i \in P : i \in Nat
  OBVIOUS
<1> USE DEF Counts
<1>1. \A j, k \in 1..n : f[j] = f[k] => j = k
  <2>1. ASSUME NEW j \in 1..n, NEW k \in 1..n, f[j] = f[k], j # k PROVE FALSE
    <3>1. j < k \/ k < j
      BY <2>1
    <3>2. f[j] \in Nat /\ f[k] \in Nat
      BY <1>0
    <3>3. QED
      BY <2>1, <3>1, <3>2
  <2>2. QED
    BY <2>1
<1>2. IsFiniteSet(1..n) /\ Cardinality(1..n) = n
  BY FS_Interval
<1>3. Cardinality(P) = n
  <2>1. f \in Bijection(1..n, P)
    BY <1>1 DEF Bijection, Injection, Surjection, IsInjective
  <2>2. QED
    BY <1>2, <2>1, FS_Bijection DEF ExistsBijection
<1>4. ASSUME NEW k \in 1..n
      PROVE  Cardinality(Below(P, f[k])) = k - 1
  <2> DEFINE g == [j \in 1..k - 1 |-> f[j]]
  <2>1. g \in [1..k - 1 -> Below(P, f[k])]
    BY DEF Below
  <2>2. \A i \in Below(P, f[k]) : \E j \in 1..k - 1 : g[j] = i
    <3>1. ASSUME NEW i \in Below(P, f[k]) PROVE \E j \in 1..k - 1 : g[j] = i
      <4>1. PICK j \in 1..n : f[j] = i
        BY DEF Below
      <4>2. j < k
        <5>1. f[j] < f[k] /\ f[j] \in Nat /\ f[k] \in Nat
          BY <1>0, <4>1 DEF Below
        <5>2. ~(k < j) /\ k # j
          BY <5>1
        <5>3. QED
          BY <5>2
      <4>3. QED
        BY <4>1, <4>2
    <3>2. QED
      BY <3>1
  <2>3. g \in Bijection(1..k - 1, Below(P, f[k]))
    BY <1>1, <2>1, <2>2 DEF Bijection, Injection, Surjection, IsInjective
  <2>4. IsFiniteSet(1..k - 1) /\ Cardinality(1..k - 1) = k - 1
    BY FS_Interval
  <2>5. QED
    BY <2>3, <2>4, FS_Bijection DEF ExistsBijection
<1>5. ASSUME NEW k \in 1..n
      PROVE  Nth(P, k) = f[k]
  <2>1. /\ Nth(P, k) \in P /\ Cardinality(Below(P, Nth(P, k))) = k - 1
    BY <1>4 DEF Nth
  <2>2. PICK l \in 1..n : f[l] = Nth(P, k)
    BY <2>1
  <2>3. l - 1 = k - 1
    BY <1>4, <2>1, <2>2
  <2>4. QED
    BY <2>2, <2>3
<1>6. QED
  BY <1>3, <1>5

LEMMA PickedAt ==
    ASSUME NEW M, NEW q \in Seq(M), NEW P \in SUBSET (1..Len(q))
    PROVE  \E n \in Nat : \E f : Counts(f, n, P) /\ Picked(q, P) = [k \in 1..n |-> q[f[k]]]
<1> DEFINE n == Cardinality(P)
           f == [k \in 1..n |-> Nth(P, k)]
<1>1. Len(q) \in Nat
  OBVIOUS
<1>2. /\ n \in Nat
      /\ \A k \in 1..n : Nth(P, k) \in P
      /\ \A j, k \in 1..n : j < k => Nth(P, j) < Nth(P, k)
      /\ \A i \in P : \E k \in 1..n : Nth(P, k) = i
  BY <1>1, Counted, Zenon
<1>3. Picked(q, P) = [k \in 1..n |-> q[Nth(P, k)]]
  BY Zenon DEF Picked
<1> HIDE DEF n
<1>4. Counts(f, n, P)
  BY <1>2 DEF Counts
<1>5. Picked(q, P) = [k \in 1..n |-> q[f[k]]]
  BY <1>3
<1>6. QED
  BY <1>2, <1>4, <1>5

LEMMA PickedBy ==
    ASSUME NEW M, NEW q \in Seq(M), NEW P \in SUBSET (1..Len(q)),
           NEW n \in Nat, NEW f, Counts(f, n, P)
    PROVE  Picked(q, P) = [k \in 1..n |-> q[f[k]]]
<1>1. Len(q) \in Nat
  OBVIOUS
<1>2. Cardinality(P) = n /\ \A k \in 1..n : Nth(P, k) = f[k]
  BY <1>1, CountedOnce, Zenon
<1>3. QED
  BY <1>2 DEF Picked

LEMMA PickedType ==
    ASSUME NEW M, NEW q \in Seq(M), NEW P \in SUBSET (1..Len(q))
    PROVE  Picked(q, P) \in Seq(M)
<1>0. PICK n \in Nat : \E f : Counts(f, n, P) /\ Picked(q, P) = [k \in 1..n |-> q[f[k]]]
  BY PickedAt
<1>1. PICK f : Counts(f, n, P) /\ Picked(q, P) = [k \in 1..n |-> q[f[k]]]
  BY <1>0
<1>2. \A k \in 1..n : f[k] \in 1..Len(q)
  BY <1>1 DEF Counts
<1>3. \A k \in 1..n : q[f[k]] \in M
  BY <1>2
<1>4. QED
  BY <1>1, <1>3

\* A message sent comes after those picked before it, if it is picked.
LEMMA PickedSent ==
    ASSUME NEW M, NEW q \in Seq(M), NEW m \in M, NEW P \in SUBSET (1..Len(q))
    PROVE  /\ Picked(Append(q, m), P) = Picked(q, P)
           /\ Picked(Append(q, m), P \union {Len(q) + 1}) = Append(Picked(q, P), m)
<1>0. PICK n \in Nat : \E f : Counts(f, n, P) /\ Picked(q, P) = [k \in 1..n |-> q[f[k]]]
  BY PickedAt
<1>1. PICK f : Counts(f, n, P) /\ Picked(q, P) = [k \in 1..n |-> q[f[k]]]
  BY <1>0
<1>2. PICK new : new = Append(q, m)
  OBVIOUS
<1>3. /\ new \in Seq(M) /\ Len(new) = Len(q) + 1 /\ Len(q) \in Nat /\ new[Len(q) + 1] = m
      /\ \A i \in 1..Len(q) : new[i] = q[i] /\ i \in 1..Len(new)
      /\ Len(q) + 1 \in 1..Len(new)
  BY <1>2
<1>4. \A k \in 1..n : f[k] \in 1..Len(q) /\ f[k] \in P /\ new[f[k]] = q[f[k]]
  BY <1>1, <1>3 DEF Counts
<1>5. Picked(new, P) = Picked(q, P)
  <2>1. P \in SUBSET (1..Len(new))
    BY <1>3
  <2>2. Picked(new, P) = [k \in 1..n |-> new[f[k]]]
    BY <1>1, <1>3, <2>1, PickedBy
  <2>3. QED
    BY <1>1, <1>4, <2>2
<1>6. Picked(new, P \union {Len(q) + 1}) = Append(Picked(q, P), m)
  <2> DEFINE g == [k \in 1..n + 1 |-> IF k = n + 1 THEN Len(q) + 1 ELSE f[k]]
             R == P \union {Len(q) + 1}
  <2>1. /\ g \in [1..n + 1 -> R] /\ g[n + 1] = Len(q) + 1
        /\ \A k \in 1..n : g[k] = f[k]
    BY <1>3, <1>4
  <2>2. \A k \in 1..n + 1 : k \in 1..n \/ k = n + 1
    OBVIOUS
  <2> HIDE DEF g
  <2>3. ASSUME NEW j \in 1..n + 1, NEW k \in 1..n + 1, j < k PROVE g[j] < g[k]
    <3>1. j \in 1..n
      BY <2>3
    <3>2. CASE k \in 1..n
      BY <1>1, <2>1, <2>3, <3>1, <3>2 DEF Counts
    <3>3. CASE k = n + 1
      BY <1>3, <1>4, <2>1, <3>1, <3>3
    <3>4. QED
      BY <2>2, <3>2, <3>3
  <2>4. ASSUME NEW i \in R PROVE \E k \in 1..n + 1 : g[k] = i
    <3>1. CASE i = Len(q) + 1
      BY <2>1, <3>1
    <3>2. CASE i \in P
      <4>1. PICK k \in 1..n : f[k] = i
        BY <1>1, <3>2 DEF Counts
      <4>2. QED
        BY <2>1, <4>1
    <3>3. QED
      BY <3>1, <3>2
  <2>5. Counts(g, n + 1, R) /\ R \in SUBSET (1..Len(new))
    BY <1>3, <2>1, <2>3, <2>4 DEF Counts
  <2> HIDE DEF R
  <2>6. Picked(new, R) = [k \in 1..n + 1 |-> new[g[k]]]
    BY <1>3, <2>5, PickedBy
  <2>7. PICK old : old = Picked(q, P)
    OBVIOUS
  <2>8. old \in Seq(M) /\ Len(old) = n /\ \A k \in 1..n : old[k] = q[f[k]]
    <3>1. \A k \in 1..n : q[f[k]] \in M
      BY <1>4
    <3>2. QED
      BY <1>1, <2>7, <3>1
  <2>9. Append(old, m) = [k \in 1..n + 1 |-> IF k = n + 1 THEN m ELSE old[k]]
    <3> DEFINE u == [k \in 1..n + 1 |-> IF k = n + 1 THEN m ELSE old[k]]
    <3>1. u \in Seq(M) /\ Len(u) = n + 1
      BY <2>8
    <3>2. Append(old, m) \in Seq(M) /\ Len(Append(old, m)) = n + 1
      BY <2>8
    <3>3. \A k \in 1..n + 1 : Append(old, m)[k] = u[k]
      BY <2>8
    <3> HIDE DEF u
    <3>4. Append(old, m) = u
      BY <3>1, <3>2, <3>3, SeqEqual, Zenon
    <3>5. QED
      BY <3>4, Zenon DEF u
  <2>10. \A k \in 1..n + 1 : new[g[k]] = IF k = n + 1 THEN m ELSE old[k]
    BY <1>3, <1>4, <2>1, <2>2, <2>8
  <2>11. QED
    BY <2>6, <2>7, <2>9, <2>10 DEF R
<1>7. QED
  BY <1>2, <1>5, <1>6

\* rest is q without its k-th message, and R has the new places of P's messages.
Closes(rest, q, k) ==
    /\ Len(rest) = Len(q) - 1
    /\ \A i \in 1..Len(rest) : rest[i] = IF i < k THEN q[i] ELSE q[i + 1]
Moves(R, P, k, n) == R = {i \in 1..n : (IF i < k THEN i ELSE i + 1) \in P}

\* A message received was the first of those picked, or was not picked.
LEMMA PickedReceived ==
    ASSUME NEW M, NEW q \in Seq(M), NEW k \in 1..Len(q), NEW P \in SUBSET (1..Len(q)),
           NEW rest \in Seq(M), Closes(rest, q, k), NEW R, Moves(R, P, k, Len(rest))
    PROVE  /\ k \notin P => Picked(rest, R) = Picked(q, P)
           /\ k \in P /\ (\A i \in P : k <= i) =>
                /\ Picked(q, P) # <<>> /\ Head(Picked(q, P)) = q[k]
                /\ Picked(rest, R) = Tail(Picked(q, P))
<1>a. /\ Len(rest) = Len(q) - 1
      /\ \A i \in 1..Len(rest) : rest[i] = IF i < k THEN q[i] ELSE q[i + 1]
  BY DEF Closes
<1>b. /\ R \in SUBSET (1..Len(rest))
      /\ \A i \in 1..Len(rest) : i \in R <=> (IF i < k THEN i ELSE i + 1) \in P
  BY DEF Moves
<1>0. ASSUME NEW p \in Nat, NEW g, Counts(g, p, R)
      PROVE  Picked(rest, R) = [l \in 1..p |-> rest[g[l]]]
  BY <1>b, <1>0, PickedBy
<1>p. PICK n \in Nat : \E f : Counts(f, n, P) /\ Picked(q, P) = [l \in 1..n |-> q[f[l]]]
  BY PickedAt
<1>1. PICK f : Counts(f, n, P) /\ Picked(q, P) = [l \in 1..n |-> q[f[l]]]
  BY <1>p
<1>2. \A l \in 1..n : f[l] \in 1..Len(q) /\ f[l] \in P
  BY <1>1 DEF Counts
<1>3. Len(q) \in Nat /\ k \in Nat
  OBVIOUS
\* Where a message that stays stood and where it stands.
<1>4. ASSUME NEW i \in 1..Len(q), i # k
      PROVE  /\ (IF i < k THEN i ELSE i - 1) \in 1..Len(rest)
             /\ rest[IF i < k THEN i ELSE i - 1] = q[i]
             /\ (IF i < k THEN i ELSE i - 1) \in R <=> i \in P
  <2>1. CASE i < k
    BY <1>a, <1>b, <1>3, <2>1
  <2>2. CASE k < i
    <3>1. i - 1 \in 1..Len(rest) /\ ~(i - 1 < k) /\ ~(i < k) /\ (i - 1) + 1 = i
      BY <1>a, <1>b, <1>3, <2>2
    <3>2. QED
      BY <1>a, <1>b, <3>1
  <2>3. QED
    BY <1>a, <1>b, <1>3, <1>4, <2>1, <2>2
<1>5. CASE k \notin P
  <2> DEFINE g == [l \in 1..n |-> IF f[l] < k THEN f[l] ELSE f[l] - 1]
  <2>1. \A l \in 1..n : f[l] # k
    BY <1>2, <1>5
  <2>2. g \in [1..n -> R] /\ \A l \in 1..n : rest[g[l]] = q[f[l]]
    BY <1>a, <1>b, <1>2, <1>4, <2>1
  <2>3. ASSUME NEW j \in 1..n, NEW l \in 1..n, j < l PROVE g[j] < g[l]
    <3>1. f[j] < f[l] /\ f[j] \in Nat /\ f[l] \in Nat /\ f[j] # k /\ f[l] # k
      BY <1>1, <1>2, <2>1, <2>3 DEF Counts
    <3>2. QED
      BY <1>a, <1>b, <1>3, <3>1
  <2>4. ASSUME NEW i \in R PROVE \E l \in 1..n : g[l] = i
    <3>1. PICK j \in P : j = IF i < k THEN i ELSE i + 1
      BY <1>a, <1>b, <1>3
    <3>2. PICK l \in 1..n : f[l] = j
      BY <1>1, <3>1 DEF Counts
    <3>3. g[l] = i
      <4>1. i \in Nat /\ g[l] = IF j < k THEN j ELSE j - 1
        BY <1>b, <3>2
      <4>2. QED
        BY <1>a, <1>b, <1>3, <3>1, <4>1
    <3>4. QED
      BY <3>3
  <2> HIDE DEF g
  <2>5. Counts(g, n, R)
    BY <2>2, <2>3, <2>4 DEF Counts
  <2>6. Picked(rest, R) = [l \in 1..n |-> rest[g[l]]]
    BY <1>0, <2>5
  <2>7. QED
    BY <1>1, <1>5, <2>2, <2>6
<1>6. CASE k \in P /\ \A i \in P : k <= i
  <2>1. n > 0 /\ f[1] = k
    <3>1. PICK l \in 1..n : f[l] = k
      BY <1>1, <1>6 DEF Counts
    <3>2. l = 1
      <4>1. SUFFICES ASSUME 1 < l PROVE FALSE
        BY <3>1
      <4>2. f[1] < k /\ f[1] \in P /\ f[1] \in Nat
        BY <1>1, <1>2, <3>1, <4>1 DEF Counts
      <4>3. QED
        BY <1>a, <1>b, <1>3, <1>6, <4>2
    <3>3. QED
      BY <3>1, <3>2
  <2> DEFINE g == [l \in 1..n - 1 |-> f[l + 1] - 1]
  <2>2. ASSUME NEW l \in 1..n - 1
        PROVE  /\ l + 1 \in 1..n /\ f[l + 1] \in 1..Len(q) /\ k < f[l + 1]
               /\ f[l + 1] - 1 \in R /\ rest[f[l + 1] - 1] = q[f[l + 1]]
    <3>1. l + 1 \in 1..n /\ 1 \in 1..n /\ 1 < l + 1
      OBVIOUS
    <3>2. f[l + 1] \in 1..Len(q) /\ k < f[l + 1] /\ f[l + 1] \in P
      BY <1>1, <1>2, <2>1, <3>1 DEF Counts
    <3>3. f[l + 1] # k /\ ~(f[l + 1] < k)
      BY <1>a, <1>b, <1>3, <3>2
    <3>4. QED
      BY <1>a, <1>b, <1>4, <3>1, <3>2, <3>3
  <2>3. g \in [1..n - 1 -> R] /\ \A l \in 1..n - 1 : rest[g[l]] = q[f[l + 1]]
    BY <2>2
  <2>4. ASSUME NEW j \in 1..n - 1, NEW l \in 1..n - 1, j < l PROVE g[j] < g[l]
    <3>1. f[j + 1] \in Nat /\ f[l + 1] \in Nat /\ j + 1 \in 1..n /\ l + 1 \in 1..n /\ j + 1 < l + 1
      BY <2>2, <2>4
    <3>2. f[j + 1] < f[l + 1]
      BY <1>1, <3>1 DEF Counts
    <3>3. QED
      BY <3>1, <3>2
  <2>5. ASSUME NEW i \in R PROVE \E l \in 1..n - 1 : g[l] = i
    <3>1. ~(i < k)
      <4>1. i < k => i \in P
        BY <1>a, <1>b, <1>3
      <4>2. QED
        BY <1>a, <1>b, <1>3, <1>6, <4>1
    <3>2. i + 1 \in P /\ i + 1 # k
      BY <1>a, <1>b, <1>3, <3>1
    <3>3. PICK l \in 1..n : f[l] = i + 1
      BY <1>1, <3>2 DEF Counts
    <3>4. l # 1
      BY <2>1, <3>2, <3>3
    <3>5. l - 1 \in 1..n - 1 /\ (l - 1) + 1 = l
      BY <3>4
    <3>6. g[l - 1] = i
      BY <1>b, <3>3, <3>5
    <3>7. QED
      BY <3>5, <3>6
  <2> HIDE DEF g
  <2>6. Counts(g, n - 1, R) /\ n - 1 \in Nat
    BY <2>1, <2>3, <2>4, <2>5 DEF Counts
  <2>7. Picked(rest, R) = [l \in 1..n - 1 |-> rest[g[l]]]
    BY <1>0, <2>6, Zenon
  <2>8. PICK old : old = Picked(q, P)
    OBVIOUS
  <2>9. old \in Seq(M) /\ Len(old) = n /\ \A l \in 1..n : old[l] = q[f[l]]
    <3>1. \A l \in 1..n : q[f[l]] \in M
      BY <1>2
    <3>2. old = [l \in 1..n |-> q[f[l]]]
      BY <1>1, <2>8
    <3>3. QED
      BY <3>1, <3>2
  <2>10. old # <<>> /\ Head(old) = q[k] /\ Tail(old) = [l \in 1..n - 1 |-> old[l + 1]]
    <3> DEFINE u == [l \in 1..n - 1 |-> old[l + 1]]
    <3>1. u \in Seq(M) /\ Len(u) = n - 1
      <4>1. n - 1 \in Nat /\ \A l \in 1..n - 1 : old[l + 1] \in M
        BY <2>1, <2>9
      <4>2. QED
        BY <4>1
    <3>2. /\ old # <<>> /\ Head(old) = q[k]
          /\ Tail(old) \in Seq(M) /\ Len(Tail(old)) = n - 1
          /\ \A l \in 1..n - 1 : Tail(old)[l] = old[l + 1]
      BY <2>1, <2>9
    <3>3. \A l \in 1..n - 1 : Tail(old)[l] = u[l]
      BY <3>2
    <3> HIDE DEF u
    <3>4. Tail(old) = u
      BY <3>1, <3>2, <3>3, SeqEqual, Zenon
    <3>5. QED
      BY <3>2, <3>4, Zenon DEF u
  <2>11. \A l \in 1..n - 1 : rest[g[l]] = old[l + 1]
    BY <2>2, <2>3, <2>9
  <2>12. QED
    BY <1>6, <2>7, <2>8, <2>10, <2>11
<1>7. QED
  BY <1>5, <1>6

-----------------------------------------------------------------------------
(* Semaphore sets of one semaphore. *)

SemSets(P) == [live : BOOLEAN, id : Nat, val : Nat, adj : [P -> Int],
               takers : Seq(P), zeros : SUBSET P]

Distinct(q) == \A j, k \in 1..Len(q) : q[j] = q[k] => j = k

\* Decrements wait only at the value 0, and nobody waits there for zero.
Settled(s) == (Range(s.takers) # {} => s.val = 0) /\ (s.val = 0 => s.zeros = {})

Good(s, P) == s \in SemSets(P) /\ Distinct(s.takers) /\ Settled(s)

\* What the kernel makes of s when an operation leaves the value v, adjustments a,
\* and T and Z waiting: r, where those of T that wait no more have decremented.
Outcome(s, r, P, v, a, T, Z) ==
    /\ Good(r, P) /\ r.live = s.live /\ r.id = s.id
    /\ r.val <= v /\ Range(r.takers) \subseteq T
    /\ r.val = v <=> Range(r.takers) = T
    /\ v <= 1 => \A p, q \in T \ Range(r.takers) : p = q
    /\ \A p \in P : r.adj[p] = IF p \in T \ Range(r.takers) THEN a[p] + 1 ELSE a[p]
    /\ r.zeros = IF r.val = 0 THEN {} ELSE Z

LEMMA MinMaxOfTwo ==
    ASSUME NEW a \in Int, NEW b \in Int
    PROVE  /\ Min({a, b}) = IF a <= b THEN a ELSE b
           /\ Max({a, b}) = IF a >= b THEN a ELSE b
<1>1. Min({a, b}) = IF a <= b THEN a ELSE b
  <2> DEFINE P(x) == x \in {a, b} /\ \A y \in {a, b} : x <= y
  <2>1. \E x : P(x)
    <3>1. CASE a <= b
      BY <3>1
    <3>2. CASE b <= a
      BY <3>2
    <3>3. QED
      BY <3>1, <3>2
  <2>2. Min({a, b}) = CHOOSE x : P(x)
    BY DEF Min
  <2>3. P(CHOOSE x : P(x))
    BY <2>1, Zenon
  <2>4. QED
    BY <2>2, <2>3
<1>2. Max({a, b}) = IF a >= b THEN a ELSE b
  <2> DEFINE P(x) == x \in {a, b} /\ \A y \in {a, b} : x >= y
  <2>1. \E x : P(x)
    <3>1. CASE a >= b
      BY <3>1
    <3>2. CASE b >= a
      BY <3>2
    <3>3. QED
      BY <3>1, <3>2
  <2>2. Max({a, b}) = CHOOSE x : P(x)
    BY DEF Max
  <2>3. P(CHOOSE x : P(x))
    BY <2>1, Zenon
  <2>4. QED
    BY <2>2, <2>3
<1>3. QED
  BY <1>1, <1>2

LEMMA MembersOfSeq ==
    ASSUME NEW P, NEW q \in Seq(P)
    PROVE  /\ Range(q) = {q[k] : k \in 1..Len(q)} /\ Range(q) \subseteq P
           /\ Len(q) \in Nat
           /\ Range(q) = {} <=> Len(q) = 0
<1>1. Len(q) \in Nat /\ DOMAIN q = 1..Len(q) /\ \A k \in 1..Len(q) : q[k] \in P
  OBVIOUS
<1>2. Range(q) = {q[k] : k \in 1..Len(q)}
  BY <1>1, Zenon DEF Range
<1>3. ASSUME Len(q) = 0 PROVE Range(q) = {}
  BY <1>1, <1>2, <1>3
<1>4. ASSUME Len(q) # 0 PROVE Range(q) # {}
  <2>1. 1 \in 1..Len(q)
    BY <1>1, <1>4
  <2>2. q[1] \in Range(q)
    BY <1>2, <2>1, Zenon
  <2>3. QED
    BY <2>2
<1>5. Range(q) \subseteq P
  BY <1>1, <1>2
<1>6. Range(q) = {} <=> Len(q) = 0
  BY <1>3, <1>4
<1>7. QED
  BY <1>1, <1>2, <1>5, <1>6

\* What follows the first n members of a sequence.
LEMMA SuffixOfSeq ==
    ASSUME NEW P, NEW q \in Seq(P), Distinct(q), NEW n \in Nat, n <= Len(q)
    PROVE  /\ SubSeq(q, n + 1, Len(q)) \in Seq(P) /\ Len(SubSeq(q, n + 1, Len(q))) = Len(q) - n
           /\ Distinct(SubSeq(q, n + 1, Len(q)))
           /\ Range(q) \ Range(SubSeq(q, n + 1, Len(q))) = {q[k] : k \in 1..n}
           /\ Range(SubSeq(q, n + 1, Len(q))) \subseteq Range(q)
<1> DEFINE rest == SubSeq(q, n + 1, Len(q))
<1>1. rest \in Seq(P) /\ Len(rest) = Len(q) - n /\ \A k \in 1..Len(rest) : rest[k] = q[n + k]
  OBVIOUS
<1> HIDE DEF rest
<1>2. Len(q) \in Nat /\ \A k \in 1..Len(rest) : n + k \in 1..Len(q)
  BY <1>1
<1>3. Distinct(rest)
  <2>1. ASSUME NEW j \in 1..Len(rest), NEW k \in 1..Len(rest), rest[j] = rest[k] PROVE j = k
    <3>1. q[n + j] = q[n + k] /\ n + j \in 1..Len(q) /\ n + k \in 1..Len(q)
      BY <1>1, <1>2, <2>1
    <3>2. n + j = n + k
      BY <3>1 DEF Distinct
    <3>3. QED
      BY <1>1, <2>1, <3>2
  <2>2. QED
    BY <2>1 DEF Distinct
<1>4. Range(q) = {q[k] : k \in 1..Len(q)} /\ Range(rest) = {rest[k] : k \in 1..Len(rest)}
  BY <1>1, MembersOfSeq, Zenon
<1>5. Range(rest) \subseteq Range(q)
  BY <1>1, <1>2, <1>4
<1>6. ASSUME NEW k \in 1..n PROVE q[k] \in Range(q) /\ q[k] \notin Range(rest)
  <2>1. k \in 1..Len(q)
    BY <1>2
  <2>2. ASSUME NEW j \in 1..Len(rest), rest[j] = q[k] PROVE FALSE
    <3>1. q[n + j] = q[k] /\ n + j \in 1..Len(q)
      BY <1>1, <1>2, <2>2
    <3>2. n + j = k
      BY <2>1, <3>1 DEF Distinct
    <3>3. QED
      BY <1>1, <3>2
  <2>3. QED
    BY <1>4, <2>1, <2>2
<1>7. ASSUME NEW k \in 1..Len(q), k \notin 1..n PROVE q[k] \in Range(rest)
  <2>1. k - n \in 1..Len(rest) /\ n + (k - n) = k
    BY <1>1, <1>2, <1>7
  <2>2. rest[k - n] = q[k]
    BY <1>1, <2>1
  <2>3. QED
    BY <1>4, <2>1, <2>2
<1>8. Range(q) \ Range(rest) = {q[k] : k \in 1..n}
  BY <1>2, <1>4, <1>6, <1>7
<1>9. QED
  BY <1>1, <1>3, <1>5, <1>8 DEF rest

\* A settled set is the result of serving the first n waiting decrements, where
\* n is as many as the value allows.
LEMMA SettleOutcome ==
    ASSUME NEW P, NEW s \in SemSets(P), Distinct(s.takers)
    PROVE  Outcome(s, Settle(s), P, s.val, s.adj, Range(s.takers), s.zeros)
<1> DEFINE n == Min({s.val, Len(s.takers)})
           q == s.takers
           rest == SubSeq(q, n + 1, Len(q))
           served == {q[k] : k \in 1..n}
           r == Settle(s)
<1>1. q \in Seq(P) /\ s.val \in Nat /\ s.adj \in [P -> Int] /\ s.zeros \subseteq P
      /\ s.live \in BOOLEAN /\ s.id \in Nat /\ Len(q) \in Nat
  BY DEF SemSets
<1>2. n = IF s.val <= Len(q) THEN s.val ELSE Len(q)
  <2>1. s.val \in Int /\ Len(q) \in Int
    BY <1>1
  <2>2. QED
    BY <2>1, MinMaxOfTwo, Zenon
<1>3. n \in Nat /\ n <= s.val /\ n <= Len(q) /\ (n = s.val \/ n = Len(q))
  BY <1>1, <1>2
<1>4. r = [s EXCEPT !.val = s.val - n, !.takers = rest,
                    !.adj = [p \in DOMAIN s.adj |-> IF p \in served THEN s.adj[p] + 1 ELSE s.adj[p]],
                    !.zeros = IF s.val = n THEN {} ELSE s.zeros]
  BY DEF Settle, SemSets
<1> HIDE DEF n, r
<1>5. /\ rest \in Seq(P) /\ Len(rest) = Len(q) - n
      /\ Distinct(rest) /\ Range(q) \ Range(rest) = served /\ Range(rest) \subseteq Range(q)
  <2>1. q \in Seq(P) /\ Distinct(q) /\ n \in Nat /\ n <= Len(q)
    BY <1>1, <1>3
  <2>2. /\ SubSeq(q, n + 1, Len(q)) \in Seq(P) /\ Len(SubSeq(q, n + 1, Len(q))) = Len(q) - n
        /\ Distinct(SubSeq(q, n + 1, Len(q)))
        /\ Range(q) \ Range(SubSeq(q, n + 1, Len(q))) = {q[k] : k \in 1..n}
        /\ Range(SubSeq(q, n + 1, Len(q))) \subseteq Range(q)
    BY <2>1, SuffixOfSeq
  <2>3. QED
    BY <2>2, Zenon
<1> HIDE DEF rest, served
<1>6. /\ r.live = s.live /\ r.id = s.id /\ r.val = s.val - n /\ r.takers = rest
      /\ r.adj = [p \in P |-> IF p \in served THEN s.adj[p] + 1 ELSE s.adj[p]]
      /\ r.zeros = IF s.val = n THEN {} ELSE s.zeros
  BY <1>1, <1>4 DEF SemSets
<1>7. r \in SemSets(P)
  <2>1. s.val - n \in Nat
    BY <1>1, <1>3
  <2>2. [p \in DOMAIN s.adj |-> IF p \in served THEN s.adj[p] + 1 ELSE s.adj[p]] \in [P -> Int]
    BY <1>1
  <2>3. (IF s.val = n THEN {} ELSE s.zeros) \in SUBSET P
    BY <1>1
  <2>4. QED
    BY <1>1, <1>4, <1>5, <2>1, <2>2, <2>3 DEF SemSets
<1>8. Range(rest) = {} <=> Len(rest) = 0
  BY <1>5, MembersOfSeq
<1>9. Range(q) = {} <=> Len(q) = 0
  BY <1>1, MembersOfSeq
<1>10. Settled(r)
  <2>1. Range(rest) # {} => s.val = n
    BY <1>1, <1>3, <1>5, <1>8
  <2>2. QED
    BY <1>1, <1>3, <1>6, <2>1 DEF Settled
<1>11. s.val <= 1 => \A x, y \in served : x = y
  BY <1>1, <1>3 DEF served
<1>12. r.val = s.val <=> Range(r.takers) = Range(q)
  <2>1. CASE n = 0
    <3>1. served = {}
      BY <2>1 DEF served
    <3>2. QED
      BY <1>1, <1>5, <1>6, <2>1, <3>1
  <2>2. CASE n # 0
    <3>1. 1 \in 1..n
      BY <1>3, <2>2
    <3>2. q[1] \in Range(q) \ Range(rest)
      BY <1>5, <3>1 DEF served
    <3>3. QED
      BY <1>1, <1>3, <1>6, <2>2, <3>2
  <2>3. QED
    BY <2>1, <2>2
<1>13. Range(r.takers) \subseteq Range(q) /\ Range(q) \ Range(r.takers) = served
  BY <1>5, <1>6
<1>14. r.val <= s.val /\ (s.val = n <=> r.val = 0)
  BY <1>1, <1>3, <1>6
<1>15. \A x \in P : r.adj[x] = IF x \in served THEN s.adj[x] + 1 ELSE s.adj[x]
  BY <1>6
<1>16. Good(r, P)
  BY <1>5, <1>6, <1>7, <1>10 DEF Good
<1>17. Outcome(s, r, P, s.val, s.adj, Range(q), s.zeros)
  BY <1>6, <1>11, <1>12, <1>13, <1>14, <1>15, <1>16 DEF Outcome
<1>18. QED
  BY <1>17 DEF r

\* Who joins the waiting, and who leaves.
LEMMA JoinTakers ==
    ASSUME NEW P, NEW q \in Seq(P), Distinct(q), NEW p \in P, p \notin Range(q)
    PROVE  /\ Append(q, p) \in Seq(P) /\ Distinct(Append(q, p))
           /\ Range(Append(q, p)) = Range(q) \union {p}
<1>1. /\ Append(q, p) \in Seq(P) /\ Len(Append(q, p)) = Len(q) + 1 /\ Len(q) \in Nat
      /\ \A k \in 1..Len(q) : Append(q, p)[k] = q[k]
      /\ Append(q, p)[Len(q) + 1] = p
  OBVIOUS
<1>2. /\ Range(q) = {q[k] : k \in 1..Len(q)}
      /\ Range(Append(q, p)) = {Append(q, p)[k] : k \in 1..Len(Append(q, p))}
  BY <1>1, MembersOfSeq
<1>3. Range(Append(q, p)) = Range(q) \union {p}
  BY <1>1, <1>2
<1>4. \A k \in 1..Len(q) : q[k] # p
  BY <1>2
<1>5. Distinct(Append(q, p))
  BY <1>1, <1>4 DEF Distinct
<1>6. QED
  BY <1>1, <1>3, <1>5

LEMMA LeaveTakers ==
    ASSUME NEW P, NEW q \in Seq(P), Distinct(q), NEW p
    PROVE  /\ RemoveFirst(q, p) \in Seq(P) /\ Distinct(RemoveFirst(q, p))
           /\ Range(RemoveFirst(q, p)) = Range(q) \ {p}
<1>1. Len(q) \in Nat /\ Range(q) = {q[k] : k \in 1..Len(q)}
  BY MembersOfSeq
<1>2. CASE ~\E k \in 1..Len(q) : q[k] = p
  BY <1>1, <1>2 DEF RemoveFirst
<1>3. CASE \E k \in 1..Len(q) : q[k] = p
  <2>1. PICK at \in 1..Len(q) : q[at] = p
    BY <1>3
  <2>2. {k \in 1..Len(q) : q[k] = p} = {at}
    BY <2>1 DEF Distinct
  <2>3. SelectInSeq(q, LAMBDA v : v = p) = Min({at})
    BY <2>2 DEF SelectInSeq
  <2>4. Min({at}) = at
    BY <2>1 DEF Min
  <2> DEFINE front == SubSeq(q, 1, at - 1)
             back == SubSeq(q, at + 1, Len(q))
             r == front \o back
  <2>5. RemoveFirst(q, p) = r
    BY <1>3, <2>3, <2>4 DEF RemoveFirst, RemoveAt
  <2>6. front \in Seq(P) /\ Len(front) = at - 1 /\ \A k \in 1..Len(front) : front[k] = q[k]
    BY <1>1, <2>1
  <2>7. back \in Seq(P) /\ Len(back) = Len(q) - at /\ \A k \in 1..Len(back) : back[k] = q[at + k]
    BY <1>1, <2>1
  <2> HIDE DEF front, back
  <2>8. /\ r \in Seq(P) /\ Len(r) = Len(front) + Len(back)
        /\ \A k \in 1..(Len(front) + Len(back)) :
              r[k] = IF k <= Len(front) THEN front[k] ELSE back[k - Len(front)]
    BY <2>6, <2>7, ConcatProperties, Zenon
  <2> HIDE DEF r
  <2>9. /\ Len(r) = Len(q) - 1
        /\ \A k \in 1..Len(r) : r[k] = IF k < at THEN q[k] ELSE q[k + 1]
    <3>1. ASSUME NEW k \in 1..Len(r) PROVE r[k] = IF k < at THEN q[k] ELSE q[k + 1]
      <4>1. CASE k < at
        BY <1>1, <2>1, <2>6, <2>7, <2>8, <4>1
      <4>2. CASE ~(k < at)
        <5>1. PICK j : j = k - Len(front)
          OBVIOUS
        <5>2. j \in 1..Len(back) /\ at + j = k + 1
          <6>1. PICK f \in Nat : f = Len(front) /\ f = at - 1
            BY <2>1, <2>6
          <6>2. PICK b \in Nat : b = Len(back)
            BY <2>7, LenProperties, Zenon
          <6>3. k \in 1..(f + b)
            BY <2>8, <6>1, <6>2
          <6>4. QED
            BY <2>1, <4>2, <5>1, <6>1, <6>2, <6>3
        <5>3. r[k] = back[j]
          BY <1>1, <2>1, <2>6, <2>7, <2>8, <4>2, <5>1
        <5>4. QED
          BY <2>7, <4>2, <5>2, <5>3
      <4>3. QED
        BY <4>1, <4>2
    <3>2. QED
      BY <1>1, <2>1, <2>6, <2>7, <2>8, <3>1
  <2>10. Distinct(r)
    <3>1. ASSUME NEW j \in 1..Len(r), NEW k \in 1..Len(r), r[j] = r[k] PROVE j = k
      <4>1. PICK x : x = IF j < at THEN j ELSE j + 1
        OBVIOUS
      <4>2. PICK y : y = IF k < at THEN k ELSE k + 1
        OBVIOUS
      <4>3. x \in 1..Len(q) /\ y \in 1..Len(q) /\ q[x] = r[j] /\ q[y] = r[k]
        BY <1>1, <2>1, <2>9, <4>1, <4>2
      <4>4. x = y
        BY <3>1, <4>3 DEF Distinct
      <4>5. QED
        BY <1>1, <2>1, <2>9, <4>1, <4>2, <4>4
    <3>2. QED
      BY <3>1 DEF Distinct
  <2>11. Range(r) = {r[k] : k \in 1..Len(r)}
    BY <2>8, MembersOfSeq
  <2>12. ASSUME NEW x \in Range(r) PROVE x \in Range(q) \ {p}
    <3>1. PICK k \in 1..Len(r) : x = r[k]
      BY <2>11
    <3>2. PICK j \in 1..Len(q) : x = q[j] /\ j # at
      BY <1>1, <2>1, <2>9, <3>1
    <3>3. QED
      BY <1>1, <2>1, <3>2 DEF Distinct
  <2>13. ASSUME NEW x \in Range(q), x # p PROVE x \in Range(r)
    <3>1. PICK k \in 1..Len(q) : x = q[k] /\ k # at
      BY <1>1, <2>1, <2>13
    <3>2. CASE k < at
      <4>1. k \in 1..Len(r) /\ r[k] = x
        BY <1>1, <2>1, <2>9, <3>1, <3>2
      <4>2. QED
        BY <2>11, <4>1
    <3>3. CASE at < k
      <4>1. k - 1 \in 1..Len(r) /\ r[k - 1] = x
        BY <1>1, <2>1, <2>9, <3>1, <3>3
      <4>2. QED
        BY <2>11, <4>1
    <3>4. QED
      BY <1>1, <2>1, <3>1, <3>2, <3>3
  <2>14. QED
    BY <2>5, <2>8, <2>10, <2>12, <2>13
<1>4. QED
  BY <1>2, <1>3

\* The operations, one by one.
LEMMA AddOutcome ==
    ASSUME NEW P, NEW s, Good(s, P), NEW p \in P
    PROVE  Outcome(s, Add(s, p), P, s.val + 1, [s.adj EXCEPT ![p] = @ - 1],
                   Range(s.takers), s.zeros)
<1>1. PICK t : t = [s EXCEPT !.val = @ + 1, !.adj[p] = @ - 1]
  OBVIOUS
<1>2. /\ t \in SemSets(P) /\ t.live = s.live /\ t.id = s.id /\ t.val = s.val + 1
      /\ t.adj = [s.adj EXCEPT ![p] = @ - 1] /\ t.takers = s.takers /\ t.zeros = s.zeros
  <2>1. [s.adj EXCEPT ![p] = @ - 1] \in [P -> Int] /\ s.val + 1 \in Nat
    BY DEF Good, SemSets
  <2>2. QED
    BY <1>1, <2>1 DEF Good, SemSets
<1>3. Outcome(t, Settle(t), P, t.val, t.adj, Range(t.takers), t.zeros)
  BY <1>2, SettleOutcome DEF Good
<1>4. QED
  BY <1>1, <1>2, <1>3 DEF Add, Outcome

LEMMA TakeOutcome ==
    ASSUME NEW P, NEW s, Good(s, P), NEW p \in P, p \notin Range(s.takers)
    PROVE  Outcome(s, Take(s, p), P, s.val, s.adj, Range(s.takers) \union {p}, s.zeros)
<1>1. PICK t : t = [s EXCEPT !.takers = Append(@, p)]
  OBVIOUS
<1>2. s.takers \in Seq(P) /\ Distinct(s.takers)
  BY DEF Good, SemSets
<1>3. /\ Append(s.takers, p) \in Seq(P) /\ Distinct(Append(s.takers, p))
      /\ Range(Append(s.takers, p)) = Range(s.takers) \union {p}
  BY <1>2, JoinTakers
<1>4. /\ t \in SemSets(P) /\ t.live = s.live /\ t.id = s.id /\ t.val = s.val
      /\ t.adj = s.adj /\ t.takers = Append(s.takers, p) /\ t.zeros = s.zeros
  BY <1>1, <1>3 DEF Good, SemSets
<1>5. Outcome(t, Settle(t), P, t.val, t.adj, Range(t.takers), t.zeros)
  BY <1>3, <1>4, SettleOutcome
<1>6. QED
  BY <1>1, <1>3, <1>4, <1>5 DEF Take, Outcome

LEMMA SetValOutcome ==
    ASSUME NEW P, NEW s, Good(s, P), NEW v \in Nat
    PROVE  Outcome(s, SetVal(s, v), P, v, [p \in P |-> 0], Range(s.takers), s.zeros)
<1>1. PICK t : t = [s EXCEPT !.val = v, !.adj = [p \in DOMAIN @ |-> 0]]
  OBVIOUS
<1>2. /\ t \in SemSets(P) /\ t.live = s.live /\ t.id = s.id /\ t.val = v
      /\ t.adj = [p \in P |-> 0] /\ t.takers = s.takers /\ t.zeros = s.zeros
  <2>1. [p \in P |-> 0] \in [P -> Int] /\ DOMAIN s.adj = P
    BY DEF Good, SemSets
  <2>2. t = [s EXCEPT !.val = v, !.adj = [p \in P |-> 0]]
    BY <1>1, <2>1 DEF Good, SemSets
  <2>3. QED
    BY <2>1, <2>2 DEF Good, SemSets
<1>3. Outcome(t, Settle(t), P, t.val, t.adj, Range(t.takers), t.zeros)
  BY <1>2, SettleOutcome DEF Good
<1>4. QED
  BY <1>1, <1>2, <1>3 DEF SetVal, Outcome

LEMMA UndoOutcome ==
    ASSUME NEW P, NEW s, Good(s, P), NEW p \in P
    PROVE  Outcome(s, Undo(s, p), P,
                   IF s.val + s.adj[p] >= 0 THEN s.val + s.adj[p] ELSE 0,
                   [s.adj EXCEPT ![p] = 0], Range(s.takers) \ {p}, s.zeros \ {p})
<1>1. PICK v : v = IF s.val + s.adj[p] >= 0 THEN s.val + s.adj[p] ELSE 0
  OBVIOUS
<1>2. PICK q : q = RemoveFirst(s.takers, p)
  OBVIOUS
<1>3. PICK t : t = [s EXCEPT !.val = v, !.adj[p] = 0, !.takers = q, !.zeros = @ \ {p}]
  OBVIOUS
<1>4. s.takers \in Seq(P) /\ Distinct(s.takers) /\ s.val \in Nat /\ s.adj[p] \in Int
  BY DEF Good, SemSets
<1>5. q \in Seq(P) /\ Distinct(q) /\ Range(q) = Range(s.takers) \ {p}
  BY <1>2, <1>4, LeaveTakers
<1>6. Max({0, s.val + s.adj[p]}) = v
  <2>1. PICK x \in Int : x = s.val + s.adj[p]
    BY <1>4
  <2>2. Max({0, x}) = IF 0 >= x THEN 0 ELSE x
    <3>1. 0 \in Int
      OBVIOUS
    <3>2. QED
      BY <2>1, <3>1, MinMaxOfTwo, Zenon
  <2>3. QED
    BY <1>1, <1>4, <2>1, <2>2
<1>7. v \in Nat
  BY <1>1, <1>4
<1>8. /\ t \in SemSets(P) /\ t.live = s.live /\ t.id = s.id /\ t.val = v
      /\ t.adj = [s.adj EXCEPT ![p] = 0] /\ t.takers = q /\ t.zeros = s.zeros \ {p}
  <2>1. [s.adj EXCEPT ![p] = 0] \in [P -> Int] /\ s.zeros \ {p} \in SUBSET P
    BY DEF Good, SemSets
  <2>2. QED
    BY <1>3, <1>5, <1>7, <2>1 DEF Good, SemSets
<1>9. Outcome(t, Settle(t), P, t.val, t.adj, Range(t.takers), t.zeros)
  BY <1>5, <1>8, SettleOutcome
<1>10. Undo(s, p) = Settle(t)
  BY <1>2, <1>3, <1>6 DEF Undo
<1>11. QED
  BY <1>1, <1>5, <1>8, <1>9, <1>10 DEF Outcome

LEMMA NewSet ==
    ASSUME NEW P
    PROVE  /\ [p \in P |-> 0] \in [P -> Int] /\ <<>> \in Seq(P) /\ Len(<<>>) = 0
           /\ Range(<<>>) = {} /\ Distinct(<<>>)
BY DEF Range, Distinct

LEMMA GetOutcome ==
    ASSUME NEW P, NEW s, Good(s, P), ~s.live
    PROVE  /\ Good(SemGet(s), P) /\ SemGet(s).live /\ SemGet(s).id = s.id + 1
           /\ SemGet(s).val = 0 /\ Range(SemGet(s).takers) = {} /\ SemGet(s).zeros = {}
           /\ SemGet(s).adj = [p \in P |-> 0]
<1>1. DOMAIN s.adj = P /\ s.id \in Nat
  BY DEF Good, SemSets
<1>2. SemGet(s) = [live |-> TRUE, id |-> s.id + 1, val |-> 0, adj |-> [p \in P |-> 0],
                   takers |-> <<>>, zeros |-> {}]
  BY <1>1 DEF SemGet, NoSemaphores
<1>3. QED
  BY <1>1, <1>2, NewSet DEF Good, SemSets, Settled

LEMMA RemoveOutcome ==
    ASSUME NEW P, NEW s, Good(s, P)
    PROVE  /\ Good(RmId(s), P) /\ ~RmId(s).live /\ RmId(s).id = s.id
           /\ RmId(s).val = 0 /\ Range(RmId(s).takers) = {} /\ RmId(s).zeros = {}
           /\ RmId(s).adj = [p \in P |-> 0]
<1>1. DOMAIN s.adj = P /\ s.id \in Nat
  BY DEF Good, SemSets
<1>2. RmId(s) = [live |-> FALSE, id |-> s.id, val |-> 0, adj |-> [p \in P |-> 0],
                 takers |-> <<>>, zeros |-> {}]
  <2>1. PICK e : e = NoSemaphores(P)
    OBVIOUS
  <2>2. e = [live |-> FALSE, id |-> 0, val |-> 0, adj |-> [p \in P |-> 0],
             takers |-> <<>>, zeros |-> {}]
    BY <2>1 DEF NoSemaphores
  <2>3. RmId(s) = [e EXCEPT !.id = s.id]
    BY <1>1, <2>1 DEF RmId
  <2>4. QED
    BY <2>2, <2>3
<1>3. QED
  BY <1>1, <1>2, NewSet DEF Good, SemSets, Settled

\* Waiting for zero is entered with a positive value only.
LEMMA ZeroOutcome ==
    ASSUME NEW P, NEW s, Good(s, P), NEW p \in P
    PROVE  /\ Good(WaitForZero(s, p), P)
           /\ WaitForZero(s, p).live = s.live /\ WaitForZero(s, p).id = s.id
           /\ WaitForZero(s, p).val = s.val /\ WaitForZero(s, p).adj = s.adj
           /\ WaitForZero(s, p).takers = s.takers
           /\ WaitForZero(s, p).zeros = IF s.val = 0 THEN s.zeros ELSE s.zeros \union {p}
<1>1. CASE s.val = 0
  BY <1>1 DEF WaitForZero
<1>2. CASE s.val # 0
  <2>1. WaitForZero(s, p) = [s EXCEPT !.zeros = s.zeros \union {p}]
    BY <1>2 DEF WaitForZero
  <2>2. QED
    BY <1>2, <2>1 DEF Good, SemSets, Settled
<1>3. QED
  BY <1>1, <1>2
=============================================================================
