------------------------ MODULE SharedMemoryProofs --------------------------
(***************************************************************************)
(* The programs that share memory.  The message for any number of writers, *)
(* readers, sets and kills: nobody passes the semaphore unread, the zero a *)
(* writer waits for is still to come, and what ends in the ordinary way    *)
(* leaves nothing.  The chat of calm users, the file and the private       *)
(* segment for any number of instances, lines, faults, runs and sizes.     *)
(***************************************************************************)
EXTENDS MCSharedMemory, SystemVProofs, FiniteSetTheorems

-----------------------------------------------------------------------------
\* SharedMessage.

\* Nobody is both a writer and a reader.
DisjointRoles == Writers \intersect Readers = {}

Contents == {"empty", "message"}

\* A reader that got past shmget has a segment.
HasSegment(r) == pc[r] \in {"semget", "shmat", "print"} => shm_id[r] \in 1..Len(shm)

TypeOK ==
    /\ Good(sem, Procs) /\ sem_id \in [Procs -> Nat]
    /\ shm \in Seq(Contents) /\ shm_id \in [Procs -> Nat]
    /\ pc = [q \in Procs |-> pc[q]] /\ seen \in [Readers -> Contents \union {"nothing"}]
    /\ \A r \in Readers : HasSegment(r)

\* The set p knows is the one that exists.
IsHere(p) == sem.live /\ sem.id = sem_id[p]

\* Only writers decrement, and only on a set that exists.
WhoTakes == Range(sem.takers) \subseteq Writers /\ (~sem.live => Range(sem.takers) = {})

\* Who waits is a writer that waits for this set.
Waits(p) == p \in Waiting(sem) => p \in Writers /\ IsHere(p) /\ pc[p] \in {"zero", "clear_sem"}

\* Until a reader has printed nobody has touched the semaphore: every writer past
\* the decrement is still waiting.
NothingSeen == \A r \in Readers : seen[r] = "nothing"
Untouched ==
    NothingSeen =>
        /\ sem.val = 0 /\ sem.zeros = {} /\ \A p \in Procs : sem.adj[p] = 0
        /\ \A w \in Writers : pc[w] = "zero" => w \in Range(sem.takers)
        /\ \A r \in Readers : pc[r] \notin {"add", "exit"}

\* An increment that is still to be undone is one of a reader about to exit.
Increment(r) == sem.adj[r] = -1
ToBeUndone(r) ==
    sem.adj[r] \in {-1, 0} /\ (Increment(r) => pc[r] = "exit" /\ IsHere(r))

\* The value is never more than the increments to be undone, while no decrement
\* has been undone.
Increments == {r \in Readers : Increment(r)}
NobodyKilled == \A w \in Writers : pc[w] # "killed"
ZeroIsDue == NobodyKilled => sem.val <= Cardinality(Increments)

\* Whoever is still to remove the set and the segment that exist.
OwnerPlaces == {"setall", "shmat", "strcpy", "take", "zero", "clear_sem", "failed", "killed"}
Owner(w) == sem_id[w] = sem.id /\ pc[w] \in OwnerPlaces
SetHasOwner == sem.live => \E w \in Writers : Owner(w)

SegmentOwner(w) == shm_id[w] = Len(shm) /\ pc[w] \notin {"start", "ended"}
SegmentHasOwner == SegmentIsThere => \E w \in Writers : SegmentOwner(w)

MessageInv == /\ TypeOK /\ WhoTakes /\ Untouched /\ (\A p \in Procs : Waits(p))
              /\ (\A r \in Readers : ToBeUndone(r)) /\ ZeroIsDue /\ SetHasOwner /\ SegmentHasOwner

\* A removed set, and a new one.
LEMMA Removed ==
    ASSUME TypeOK
    PROVE  /\ Good(RmId(sem), Procs) /\ ~RmId(sem).live /\ RmId(sem).id = sem.id
           /\ RmId(sem).val = 0 /\ Range(RmId(sem).takers) = {} /\ RmId(sem).zeros = {}
           /\ \A p \in Procs : RmId(sem).adj[p] = 0
<1>1. Good(sem, Procs)
  BY DEF TypeOK
<1>2. /\ Good(RmId(sem), Procs) /\ ~RmId(sem).live /\ RmId(sem).id = sem.id
      /\ RmId(sem).val = 0 /\ Range(RmId(sem).takers) = {} /\ RmId(sem).zeros = {}
      /\ RmId(sem).adj = [p \in Procs |-> 0]
  BY <1>1, RemoveOutcome, Zenon
<1>3. QED
  BY <1>2

LEMMA Created ==
    ASSUME TypeOK, ~sem.live
    PROVE  /\ Good(SemGet(sem), Procs) /\ SemGet(sem).live /\ SemGet(sem).id = sem.id + 1
           /\ SemGet(sem).val = 0 /\ Range(SemGet(sem).takers) = {} /\ SemGet(sem).zeros = {}
           /\ \A p \in Procs : SemGet(sem).adj[p] = 0
<1>1. Good(sem, Procs)
  BY DEF TypeOK
<1>2. /\ Good(SemGet(sem), Procs) /\ SemGet(sem).live /\ SemGet(sem).id = sem.id + 1
      /\ SemGet(sem).val = 0 /\ Range(SemGet(sem).takers) = {} /\ SemGet(sem).zeros = {}
      /\ SemGet(sem).adj = [p \in Procs |-> 0]
  BY <1>1, GetOutcome, Zenon
<1>3. QED
  BY <1>2

\* What the calls on the semaphore do: on the set that exists, or not at all.
LEMMA Calls ==
    ASSUME TypeOK, NEW p \in Procs
    PROVE  /\ SetAll(p) =>
                \/ /\ IsHere(p) /\ pc' = [pc EXCEPT ![p] = "shmat"]
                   /\ Outcome(sem, sem', Procs, 0, [q \in Procs |-> 0],
                              Range(sem.takers), sem.zeros)
                \/ ~IsHere(p) /\ sem' = sem /\ pc' = [pc EXCEPT ![p] = "failed"]
           /\ TakeOne(p) =>
                \/ /\ IsHere(p) /\ pc' = [pc EXCEPT ![p] = "zero"] /\ p \notin Range(sem.takers)
                   /\ Outcome(sem, sem', Procs, sem.val, sem.adj,
                              Range(sem.takers) \union {p}, sem.zeros)
                \/ ~IsHere(p) /\ sem' = sem /\ pc' = [pc EXCEPT ![p] = "clear_sem"]
           /\ AwaitZero(p) =>
                /\ pc' = [pc EXCEPT ![p] = "clear_sem"] /\ p \notin Range(sem.takers)
                /\ sem' = IF IsHere(p) THEN WaitForZero(sem, p) ELSE sem
           /\ ClearSemaphore(p) =>
                /\ sem' = IF IsHere(p) THEN RmId(sem) ELSE sem
                /\ pc' = [q \in Procs |->
                            IF q = p THEN "shmdt"
                            ELSE IF IsHere(p) /\ q \in Waiting(sem) THEN "clear_sem" ELSE pc[q]]
           /\ AddOne(p) =>
                /\ pc' = [pc EXCEPT ![p] = "exit"]
                /\ \/ /\ IsHere(p)
                      /\ Outcome(sem, sem', Procs, sem.val + 1, [sem.adj EXCEPT ![p] = @ - 1],
                                 Range(sem.takers), sem.zeros)
                   \/ ~IsHere(p) /\ sem' = sem
           /\ ExitReader(p) =>
                /\ pc' = [pc EXCEPT ![p] = "ended"]
                /\ \/ /\ IsHere(p)
                      /\ Outcome(sem, sem', Procs,
                                 IF sem.val + sem.adj[p] >= 0 THEN sem.val + sem.adj[p] ELSE 0,
                                 [sem.adj EXCEPT ![p] = 0], Range(sem.takers) \ {p},
                                 sem.zeros \ {p})
                   \/ ~IsHere(p) /\ sem' = sem
           /\ Kill(p) =>
                \/ /\ IsHere(p)
                   /\ Outcome(sem, sem', Procs,
                              IF sem.val + sem.adj[p] >= 0 THEN sem.val + sem.adj[p] ELSE 0,
                              [sem.adj EXCEPT ![p] = 0], Range(sem.takers) \ {p},
                              sem.zeros \ {p})
                \/ ~IsHere(p) /\ sem' = sem
<1>1. Good(sem, Procs) /\ pc = [q \in Procs |-> pc[q]]
  BY DEF TypeOK
<1>2. ASSUME SetAll(p)
      PROVE  \/ /\ IsHere(p) /\ pc' = [pc EXCEPT ![p] = "shmat"]
                /\ Outcome(sem, sem', Procs, 0, [q \in Procs |-> 0],
                           Range(sem.takers), sem.zeros)
             \/ ~IsHere(p) /\ sem' = sem /\ pc' = [pc EXCEPT ![p] = "failed"]
  <2>1. CASE IsHere(p)
    <3>1. sem' = SetVal(sem, 0)
      BY <1>2, <2>1 DEF SetAll, SemCall, IsHere
    <3>2. Outcome(sem, sem', Procs, 0, [q \in Procs |-> 0], Range(sem.takers), sem.zeros)
      BY <1>1, <3>1, SetValOutcome
    <3>3. sem'.live
      BY <2>1, <3>2 DEF Outcome, IsHere
    <3>4. pc' = [pc EXCEPT ![p] = "shmat"]
      BY <1>1, <1>2, <2>1, <3>3 DEF SetAll, SemCall, IsHere
    <3>5. QED
      BY <2>1, <3>2, <3>4
  <2>2. CASE ~IsHere(p)
    <3>1. sem' = sem
      BY <1>2, <2>2 DEF SetAll, SemCall, IsHere
    <3>2. pc' = [pc EXCEPT ![p] = "failed"]
      BY <1>1, <1>2, <2>2, <3>1 DEF SetAll, SemCall, IsHere
    <3>3. QED
      BY <2>2, <3>1, <3>2
  <2>3. QED
    BY <2>1, <2>2
<1>3. ASSUME TakeOne(p)
      PROVE  \/ /\ IsHere(p) /\ pc' = [pc EXCEPT ![p] = "zero"] /\ p \notin Range(sem.takers)
                /\ Outcome(sem, sem', Procs, sem.val, sem.adj,
                           Range(sem.takers) \union {p}, sem.zeros)
             \/ ~IsHere(p) /\ sem' = sem /\ pc' = [pc EXCEPT ![p] = "clear_sem"]
  <2>1. CASE IsHere(p)
    <3>1. sem' = Take(sem, p) /\ p \notin Range(sem.takers)
      BY <1>3, <2>1 DEF TakeOne, SemCall, IsHere, Waiting
    <3>2. Outcome(sem, sem', Procs, sem.val, sem.adj, Range(sem.takers) \union {p}, sem.zeros)
      BY <1>1, <3>1, TakeOutcome
    <3>3. sem'.live
      BY <2>1, <3>2 DEF Outcome, IsHere
    <3>4. pc' = [pc EXCEPT ![p] = "zero"]
      BY <1>1, <1>3, <2>1, <3>3 DEF TakeOne, SemCall, IsHere
    <3>5. QED
      BY <2>1, <3>1, <3>2, <3>4
  <2>2. CASE ~IsHere(p)
    <3>1. sem' = sem
      BY <1>3, <2>2 DEF TakeOne, SemCall, IsHere
    <3>2. pc' = [pc EXCEPT ![p] = "clear_sem"]
      BY <1>1, <1>3, <2>2, <3>1 DEF TakeOne, SemCall, IsHere
    <3>3. QED
      BY <2>2, <3>1, <3>2
  <2>3. QED
    BY <2>1, <2>2
<1>4. ASSUME AwaitZero(p)
      PROVE  /\ pc' = [pc EXCEPT ![p] = "clear_sem"] /\ p \notin Range(sem.takers)
             /\ sem' = IF IsHere(p) THEN WaitForZero(sem, p) ELSE sem
  <2>1. sem' = IF IsHere(p) THEN WaitForZero(sem, p) ELSE sem
    BY <1>4 DEF AwaitZero, SemCall, IsHere
  <2>2. sem'.live = sem.live
    <3>1. sem.val # 0 => WaitForZero(sem, p) = [sem EXCEPT !.zeros = sem.zeros \union {p}]
      BY DEF WaitForZero
    <3>2. WaitForZero(sem, p).live = sem.live
      BY <1>1, <3>1 DEF WaitForZero, Good, SemSets
    <3>3. QED
      BY <2>1, <3>2
  <2>3. QED
    BY <1>1, <1>4, <2>1, <2>2 DEF AwaitZero, SemCall, Waiting
<1>5. ASSUME ClearSemaphore(p)
      PROVE  /\ sem' = IF IsHere(p) THEN RmId(sem) ELSE sem
             /\ pc' = [q \in Procs |->
                         IF q = p THEN "shmdt"
                         ELSE IF IsHere(p) /\ q \in Waiting(sem) THEN "clear_sem" ELSE pc[q]]
  <2>1. sem' = IF IsHere(p) THEN RmId(sem) ELSE sem
    BY <1>5 DEF ClearSemaphore, SemCall, IsHere
  <2>2. (sem.live /\ ~sem'.live) <=> IsHere(p)
    BY <1>1, <2>1, Removed DEF IsHere
  <2>3. pc' = [q \in Procs |->
                 IF q = p THEN "shmdt"
                 ELSE IF sem.live /\ ~sem'.live /\ q \in Waiting(sem) THEN "clear_sem" ELSE pc[q]]
    BY <1>5 DEF ClearSemaphore, SemCall
  <2>4. QED
    BY <2>1, <2>2, <2>3
<1>6. ASSUME AddOne(p)
      PROVE  /\ pc' = [pc EXCEPT ![p] = "exit"]
             /\ \/ /\ IsHere(p)
                   /\ Outcome(sem, sem', Procs, sem.val + 1, [sem.adj EXCEPT ![p] = @ - 1],
                              Range(sem.takers), sem.zeros)
                \/ ~IsHere(p) /\ sem' = sem
  <2>1. \/ IsHere(p) /\ sem' = Add(sem, p)
        \/ ~IsHere(p) /\ sem' = sem
    BY <1>6 DEF AddOne, SemCall, IsHere
  <2>2. ASSUME IsHere(p)
        PROVE  Outcome(sem, sem', Procs, sem.val + 1, [sem.adj EXCEPT ![p] = @ - 1],
                       Range(sem.takers), sem.zeros)
    BY <1>1, <2>1, <2>2, AddOutcome
  <2>3. sem'.live = sem.live
    BY <2>1, <2>2 DEF Outcome
  <2>4. pc' = [pc EXCEPT ![p] = "exit"]
    BY <1>1, <1>6, <2>3 DEF AddOne, SemCall
  <2>5. QED
    BY <2>1, <2>2, <2>4
<1>7. PICK v : v = IF sem.val + sem.adj[p] >= 0 THEN sem.val + sem.adj[p] ELSE 0
  OBVIOUS
<1>8. Outcome(sem, Undo(sem, p), Procs, v, [sem.adj EXCEPT ![p] = 0],
              Range(sem.takers) \ {p}, sem.zeros \ {p})
  BY <1>1, <1>7, UndoOutcome
<1>9. ASSUME ExitReader(p)
      PROVE  /\ pc' = [pc EXCEPT ![p] = "ended"]
             /\ \/ /\ IsHere(p)
                   /\ Outcome(sem, sem', Procs, v, [sem.adj EXCEPT ![p] = 0],
                              Range(sem.takers) \ {p}, sem.zeros \ {p})
                \/ ~IsHere(p) /\ sem' = sem
  <2>1. \/ IsHere(p) /\ sem' = Undo(sem, p)
        \/ ~IsHere(p) /\ sem' = sem
    BY <1>9 DEF ExitReader, SemCall, IsHere
  <2>2. sem'.live = sem.live
    BY <1>8, <2>1 DEF Outcome
  <2>3. pc' = [pc EXCEPT ![p] = "ended"]
    BY <1>1, <1>9, <2>2 DEF ExitReader, SemCall
  <2>4. QED
    BY <1>8, <2>1, <2>3
<1>10. ASSUME Kill(p)
       PROVE  \/ /\ IsHere(p)
                 /\ Outcome(sem, sem', Procs, v, [sem.adj EXCEPT ![p] = 0],
                            Range(sem.takers) \ {p}, sem.zeros \ {p})
              \/ ~IsHere(p) /\ sem' = sem
  BY <1>8, <1>10 DEF Kill, IsHere
<1>11. QED
  BY <1>2, <1>3, <1>4, <1>5, <1>6, <1>7, <1>9, <1>10

\* The actions and what they leave alone.
LEMMA TypeStep ==
    ASSUME DisjointRoles, TypeOK, Next
    PROVE  TypeOK'
<1>1. Good(sem, Procs)
  BY DEF TypeOK
<1>2. /\ sem_id \in [Procs -> Nat] /\ shm_id \in [Procs -> Nat] /\ pc = [q \in Procs |-> pc[q]]
      /\ Writers \subseteq Procs /\ Readers \subseteq Procs
  BY DEF TypeOK, Procs
<1>3. shm \in Seq(Contents) /\ Len(shm) \in Nat /\ seen \in [Readers -> Contents \union {"nothing"}]
  BY DEF TypeOK
<1>4. \A r \in Readers : HasSegment(r)
  BY DEF TypeOK
<1>5. ASSUME NEW w \in Writers, ShmGetCreate(w) PROVE TypeOK'
  <2>1. "empty" \in Contents
    BY DEF Contents
  <2>2. shm' = shm \/ shm' = Append(shm, "empty")
    BY <1>5 DEF ShmGetCreate
  <2>3. shm' \in Seq(Contents) /\ Len(shm') \in Nat /\ Len(shm') >= Len(shm)
    BY <1>3, <2>1, <2>2
  <2>4. shm_id' = [shm_id EXCEPT ![w] = Len(shm')] /\ pc' = [pc EXCEPT ![w] = "semget"]
    BY <1>5 DEF ShmGetCreate, Goto
  <2>5. ASSUME NEW r \in Readers PROVE HasSegment(r)'
    <3>1. r # w
      BY DEF DisjointRoles
    <3>2. pc'[r] = pc[r] /\ shm_id'[r] = shm_id[r]
      BY <1>2, <2>4, <3>1
    <3>3. HasSegment(r)
      BY <1>4
    <3>4. QED
      BY <1>2, <1>3, <2>3, <3>2, <3>3 DEF HasSegment
  <2>6. QED
    BY <1>1, <1>2, <1>3, <1>5, <2>3, <2>4, <2>5 DEF ShmGetCreate, TypeOK
\* The set changes, and the segments do not.
<1>6. ASSUME NEW p \in Procs, Good(sem', Procs), sem_id' \in [Procs -> Nat],
             UNCHANGED <<memory, seen>>, pc' = [q \in Procs |-> pc'[q]],
             \A r \in Readers : pc'[r] \in {"semget", "shmat", "print"} =>
                                   pc[r] \in {"semget", "shmat", "print"}
      PROVE  TypeOK'
  BY <1>2, <1>3, <1>4, <1>6 DEF TypeOK, memory, HasSegment
<1>7. ASSUME NEW w \in Writers, SemGetCreate(w) PROVE TypeOK'
  <2>1. Good(sem', Procs)
    BY <1>1, <1>7, Created DEF SemGetCreate, SemGet
  <2>2. sem'.id \in Nat
    BY <2>1 DEF Good, SemSets
  <2>3. sem_id' = [sem_id EXCEPT ![w] = sem'.id] /\ pc' = [pc EXCEPT ![w] = "setall"]
    BY <1>7 DEF SemGetCreate, Goto
  <2>4. UNCHANGED <<memory, seen>>
    BY <1>7 DEF SemGetCreate
  <2>5. QED
    BY <1>2, <1>6, <2>1, <2>2, <2>3, <2>4
<1>8. ASSUME NEW w \in Writers, SetAll(w) PROVE TypeOK'
  <2>1. /\ Good(sem', Procs)
        /\ pc' = [pc EXCEPT ![w] = "shmat"] \/ pc' = [pc EXCEPT ![w] = "failed"]
    BY <1>1, <1>2, <1>8, Calls DEF Outcome
  <2>2. UNCHANGED <<sem_id, memory, seen>> /\ w \notin Readers
    BY <1>8 DEF SetAll, SemCall, DisjointRoles
  <2>3. QED
    BY <1>2, <1>6, <2>1, <2>2
<1>9. ASSUME NEW p \in Procs, NEW next \in {"strcpy", "print"}, Attach(p, next) PROVE TypeOK'
  <2>1. pc[p] = "shmat" /\ pc' = [pc EXCEPT ![p] = IF CanAttach(shm_id[p]) THEN next ELSE "failed"]
    BY <1>9 DEF Attach, Goto
  <2>2. pc' = [q \in Procs |-> pc'[q]] /\ \A q \in Procs : q # p => pc'[q] = pc[q]
    BY <1>2, <2>1
  <2>3. UNCHANGED <<sem, sem_id, memory, seen>>
    BY <1>9 DEF Attach
  <2>4. QED
    BY <1>1, <1>2, <1>6, <2>1, <2>2, <2>3
<1>10. ASSUME NEW w \in Writers, CopyMessage(w) PROVE TypeOK'
  <2>1. PICK i \in Nat : i = shm_id[w]
    BY <1>2
  <2>2. "message" \in Contents /\ shm' = [shm EXCEPT ![i] = "message"]
    BY <1>10, <2>1 DEF CopyMessage, Contents
  <2>3. shm' \in Seq(Contents) /\ Len(shm') = Len(shm)
    <3>1. CASE i \in 1..Len(shm)
      BY <1>3, <2>2, <3>1
    <3>2. CASE i \notin 1..Len(shm)
      <4>1. shm = [k \in 1..Len(shm) |-> shm[k]]
        BY <1>3
      <4>2. shm' = shm
        BY <2>2, <3>2, <4>1
      <4>3. QED
        BY <1>3, <4>2
    <3>3. QED
      BY <3>1, <3>2
  <2>4. /\ UNCHANGED <<sem, sem_id, shm_id, seen>> /\ pc' = [pc EXCEPT ![w] = "take"]
        /\ w \notin Readers
    BY <1>10 DEF CopyMessage, Goto, DisjointRoles
  <2>5. QED
    BY <1>1, <1>2, <1>3, <1>4, <2>3, <2>4 DEF TypeOK, HasSegment
<1>11. ASSUME NEW w \in Writers, TakeOne(w) PROVE TypeOK'
  <2>1. Good(sem', Procs)
    BY <1>1, <1>2, <1>11, Calls DEF Outcome
  <2>2. pc' = [pc EXCEPT ![w] = "zero"] \/ pc' = [pc EXCEPT ![w] = "clear_sem"]
    BY <1>2, <1>11, Calls
  <2>3. UNCHANGED <<sem_id, memory, seen>> /\ w \notin Readers
    BY <1>11 DEF TakeOne, SemCall, DisjointRoles
  <2>4. QED
    BY <1>2, <1>6, <2>1, <2>2, <2>3
<1>12. ASSUME NEW w \in Writers, AwaitZero(w) PROVE TypeOK'
  <2>1. pc' = [pc EXCEPT ![w] = "clear_sem"] /\ (sem' = WaitForZero(sem, w) \/ sem' = sem)
    BY <1>2, <1>12, Calls
  <2>2. Good(WaitForZero(sem, w), Procs)
    BY <1>1, <1>2, ZeroOutcome
  <2>3. UNCHANGED <<sem_id, memory, seen>> /\ w \notin Readers
    BY <1>12 DEF AwaitZero, SemCall, DisjointRoles
  <2>4. Good(sem', Procs)
    BY <1>1, <2>1, <2>2
  <2>5. QED
    BY <1>2, <1>6, <2>1, <2>3, <2>4
<1>13. ASSUME NEW w \in Writers, ClearSemaphore(w) PROVE TypeOK'
  <2>1. pc' = [q \in Procs |->
                 IF q = w THEN "shmdt"
                 ELSE IF IsHere(w) /\ q \in Waiting(sem) THEN "clear_sem" ELSE pc[q]]
    BY <1>2, <1>13, Calls
  <2>2. sem' = RmId(sem) \/ sem' = sem
    BY <1>2, <1>13, Calls
  <2>3. Good(sem', Procs)
    BY <1>1, <2>2, Removed
  <2>4. UNCHANGED <<sem_id, memory, seen>>
    BY <1>13 DEF ClearSemaphore, SemCall
  <2>5. pc' = [q \in Procs |-> pc'[q]]
    BY <1>2, <2>1
  <2>6. ASSUME NEW r \in Readers, pc'[r] \in {"semget", "shmat", "print"}
        PROVE  pc[r] \in {"semget", "shmat", "print"}
    BY <1>2, <2>1, <2>6
  <2>7. QED
    BY <1>2, <1>6, <2>3, <2>4, <2>5, <2>6
<1>14. ASSUME NEW w \in Writers, ClearSegment(w) PROVE TypeOK'
  <2>1. /\ UNCHANGED <<sem, sem_id, shm, shm_id, seen>> /\ pc' = [pc EXCEPT ![w] = "ended"]
        /\ w \notin Readers
    BY <1>14 DEF ClearSegment, Goto, DisjointRoles
  <2>2. QED
    BY <1>1, <1>2, <1>3, <1>4, <2>1 DEF TypeOK, HasSegment
<1>15. ASSUME NEW r \in Readers, ShmGetExisting(r) PROVE TypeOK'
  <2>1. /\ shm_id' = [shm_id EXCEPT ![r] = IF SegmentIsThere THEN Len(shm) ELSE 0]
        /\ pc' = [pc EXCEPT ![r] = IF SegmentIsThere THEN "semget" ELSE "failed"]
        /\ UNCHANGED <<sem, sem_id, shm, seen>>
    BY <1>15 DEF ShmGetExisting, Goto
  <2>2. shm_id' \in [Procs -> Nat] /\ pc' = [q \in Procs |-> pc'[q]]
    BY <1>2, <1>3, <2>1
  <2>3. ASSUME NEW q \in Readers PROVE HasSegment(q)'
    <3>1. CASE q # r
      BY <1>2, <1>4, <2>1, <3>1 DEF HasSegment
    <3>2. CASE q = r
      BY <1>2, <1>3, <2>1, <3>2 DEF HasSegment, SegmentIsThere
    <3>3. QED
      BY <3>1, <3>2
  <2>4. QED
    BY <1>1, <1>2, <1>3, <2>1, <2>2, <2>3 DEF TypeOK
<1>16. ASSUME NEW r \in Readers, SemGetExisting(r) PROVE TypeOK'
  <2>1. sem.id \in Nat
    BY <1>1 DEF Good, SemSets
  <2>2. /\ sem_id' = [sem_id EXCEPT ![r] = IF sem.live THEN sem.id ELSE 0]
        /\ pc[r] = "semget" /\ pc' = [pc EXCEPT ![r] = IF sem.live THEN "shmat" ELSE "failed"]
        /\ UNCHANGED <<sem, memory, seen>>
    BY <1>16 DEF SemGetExisting, Goto, AfterSemGet
  <2>3. sem_id' \in [Procs -> Nat] /\ pc' = [q \in Procs |-> pc'[q]]
        /\ \A q \in Procs : q # r => pc'[q] = pc[q]
    BY <1>2, <2>1, <2>2
  <2>4. QED
    BY <1>1, <1>2, <1>6, <2>2, <2>3
<1>17. ASSUME NEW r \in Readers, PrintMessage(r) PROVE TypeOK'
  <2>1. pc[r] = "print" /\ pc' = [pc EXCEPT ![r] = "add"]
        /\ seen' = [seen EXCEPT ![r] = shm[shm_id[r]]]
        /\ UNCHANGED <<sem, sem_id, memory>>
    BY <1>17 DEF PrintMessage, Goto
  <2>2. shm_id[r] \in 1..Len(shm)
    BY <1>4, <2>1 DEF HasSegment
  <2>3. shm[shm_id[r]] \in Contents
    BY <1>3, <2>2
  <2>4. seen' \in [Readers -> Contents \union {"nothing"}]
    BY <1>3, <2>1, <2>3
  <2>5. QED
    BY <1>1, <1>2, <1>3, <1>4, <2>1, <2>4 DEF TypeOK, HasSegment, memory
<1>18. ASSUME NEW r \in Readers, AddOne(r) PROVE TypeOK'
  <2>1. pc' = [pc EXCEPT ![r] = "exit"]
    BY <1>2, <1>18, Calls
  <2>2. Good(sem', Procs)
    BY <1>1, <1>2, <1>18, Calls DEF Outcome
  <2>3. UNCHANGED <<sem_id, memory, seen>>
    BY <1>18 DEF AddOne, SemCall
  <2>4. QED
    BY <1>2, <1>6, <2>1, <2>2, <2>3
<1>19. ASSUME NEW r \in Readers, ExitReader(r) PROVE TypeOK'
  <2>1. pc' = [pc EXCEPT ![r] = "ended"]
    BY <1>2, <1>19, Calls
  <2>2. Good(sem', Procs)
    BY <1>1, <1>2, <1>19, Calls DEF Outcome
  <2>3. UNCHANGED <<sem_id, memory, seen>>
    BY <1>19 DEF ExitReader, SemCall
  <2>4. QED
    BY <1>2, <1>6, <2>1, <2>2, <2>3
<1>20. ASSUME NEW p \in Procs, Kill(p) PROVE TypeOK'
  <2>1. Good(sem', Procs)
    BY <1>1, <1>20, Calls DEF Outcome
  <2>2. UNCHANGED <<sem_id, memory, seen>> /\ pc' = [pc EXCEPT ![p] = "killed"]
    BY <1>20 DEF Kill
  <2>3. QED
    BY <1>2, <1>6, <2>1, <2>2
<1>21. QED
  BY <1>2, <1>5, <1>7, <1>8, <1>9, <1>10, <1>11, <1>12, <1>13, <1>14, <1>15, <1>16, <1>17,
     <1>18, <1>19, <1>20 DEF Next, WriterStep, ReaderStep

\* Steps that leave the set alone.
Elsewhere ==
    \/ \E w \in Writers : ShmGetCreate(w) \/ Attach(w, "strcpy") \/ CopyMessage(w) \/ ClearSegment(w)
    \/ \E r \in Readers : \/ ShmGetExisting(r) \/ SemGetExisting(r) \/ Attach(r, "print")
                          \/ PrintMessage(r)

LEMMA ElsewhereSteps ==
    ASSUME Elsewhere
    PROVE  sem' = sem
BY DEF Elsewhere, ShmGetCreate, Attach, CopyMessage, ClearSegment, ShmGetExisting,
       SemGetExisting, PrintMessage

LEMMA NextSteps ==
    ASSUME Next
    PROVE  \/ Elsewhere
           \/ \E w \in Writers : \/ SemGetCreate(w) \/ SetAll(w) \/ TakeOne(w) \/ AwaitZero(w)
                                 \/ ClearSemaphore(w) \/ Kill(w)
           \/ \E r \in Readers : AddOne(r) \/ ExitReader(r) \/ Kill(r)
BY DEF Next, WriterStep, ReaderStep, Elsewhere

LEMMA WhoTakesStep ==
    ASSUME TypeOK, WhoTakes, Next
    PROVE  WhoTakes'
<1>1. Good(sem, Procs) /\ Writers \subseteq Procs /\ Readers \subseteq Procs
  BY DEF TypeOK, Procs
<1>2. CASE Elsewhere
  BY <1>2, ElsewhereSteps DEF WhoTakes
<1>3. ASSUME NEW w \in Writers, SemGetCreate(w) PROVE WhoTakes'
  BY <1>1, <1>3, Created DEF SemGetCreate, SemGet, WhoTakes
<1>4. ASSUME NEW w \in Writers, SetAll(w) PROVE WhoTakes'
  BY <1>1, <1>4, Calls DEF Outcome, WhoTakes
<1>5. ASSUME NEW w \in Writers, TakeOne(w) PROVE WhoTakes'
  BY <1>1, <1>5, Calls DEF Outcome, WhoTakes, IsHere
<1>6. ASSUME NEW w \in Writers, AwaitZero(w) PROVE WhoTakes'
  <2>1. WaitForZero(sem, w).live = sem.live /\ WaitForZero(sem, w).takers = sem.takers
    <3>1. WaitForZero(sem, w) \in {sem, [sem EXCEPT !.zeros = @ \union {w}]}
      BY DEF WaitForZero
    <3>2. QED
      BY <1>1, <3>1 DEF Good, SemSets
  <2>2. sem' = WaitForZero(sem, w) \/ sem' = sem
    BY <1>1, <1>6, Calls
  <2>3. QED
    BY <2>1, <2>2 DEF WhoTakes
<1>7. ASSUME NEW w \in Writers, ClearSemaphore(w) PROVE WhoTakes'
  <2>1. sem' = RmId(sem) \/ sem' = sem
    BY <1>1, <1>7, Calls
  <2>2. Range(RmId(sem).takers) = {}
    BY <1>1, Removed
  <2>3. QED
    BY <2>1, <2>2 DEF WhoTakes
<1>8. ASSUME NEW r \in Readers, AddOne(r) PROVE WhoTakes'
  BY <1>1, <1>8, Calls DEF Outcome, WhoTakes
<1>9. ASSUME NEW r \in Readers, ExitReader(r) PROVE WhoTakes'
  BY <1>1, <1>9, Calls DEF Outcome, WhoTakes
<1>10. ASSUME NEW p \in Procs, Kill(p) PROVE WhoTakes'
  BY <1>1, <1>10, Calls DEF Outcome, WhoTakes
<1>11. QED
  BY <1>1, <1>2, <1>3, <1>4, <1>5, <1>6, <1>7, <1>8, <1>9, <1>10, NextSteps

LEMMA SeenSteps ==
    ASSUME Next
    PROVE  UNCHANGED seen \/ \E r \in Readers : PrintMessage(r)
<1>1. CASE Elsewhere
  BY <1>1 DEF Elsewhere, ShmGetCreate, Attach, CopyMessage, ClearSegment, ShmGetExisting,
     SemGetExisting
<1>2. CASE ~Elsewhere
  BY <1>2, NextSteps DEF SemGetCreate, SetAll, TakeOne, AwaitZero, ClearSemaphore, Kill, AddOne,
     ExitReader, SemCall
<1>3. QED
  BY <1>1, <1>2

\* Only a step that was preceded by a reader's print touches the semaphore.
LEMMA UntouchedStep ==
    ASSUME DisjointRoles, TypeOK, WhoTakes, Untouched, Next
    PROVE  Untouched'
<1>1. /\ Good(sem, Procs) /\ Writers \subseteq Procs /\ Readers \subseteq Procs
      /\ pc = [q \in Procs |-> pc[q]]
  BY DEF TypeOK, Procs
<1>2. sem.val \in Nat /\ sem.adj \in [Procs -> Int]
  BY <1>1 DEF Good, SemSets
<1>3. SUFFICES ASSUME NothingSeen'
               PROVE  /\ sem'.val = 0 /\ sem'.zeros = {} /\ \A p \in Procs : sem'.adj[p] = 0
                      /\ \A w \in Writers : pc'[w] = "zero" => w \in Range(sem'.takers)
                      /\ \A r \in Readers : pc'[r] \notin {"add", "exit"}
  BY DEF Untouched
<1>4. ASSUME NEW r \in Readers, PrintMessage(r) PROVE FALSE
  <2>1. pc[r] = "print" /\ seen' = [seen EXCEPT ![r] = shm[shm_id[r]]]
    BY <1>4 DEF PrintMessage, Goto
  <2>2. shm \in Seq(Contents) /\ shm_id[r] \in 1..Len(shm)
    BY <2>1 DEF TypeOK, HasSegment
  <2>3. shm[shm_id[r]] \in Contents /\ "nothing" \notin Contents
    BY <2>2 DEF Contents
  <2>4. seen'[r] = shm[shm_id[r]]
    BY <2>1 DEF TypeOK
  <2>5. QED
    BY <1>3, <2>3, <2>4 DEF NothingSeen
<1>5. /\ NothingSeen
      /\ sem.val = 0 /\ sem.zeros = {} /\ \A p \in Procs : sem.adj[p] = 0
      /\ \A w \in Writers : pc[w] = "zero" => w \in Range(sem.takers)
      /\ \A r \in Readers : pc[r] \notin {"add", "exit"}
  <2>1. UNCHANGED seen
    BY <1>4, SeenSteps
  <2>2. NothingSeen
    BY <1>3, <2>1 DEF NothingSeen
  <2>3. QED
    BY <2>2 DEF Untouched
\* What becomes of the places when only p moves.
<1>6. ASSUME NEW p \in Procs, NEW to, pc' = [pc EXCEPT ![p] = to], to \notin {"zero", "add", "exit"},
             Range(sem.takers) \ {p} \subseteq Range(sem'.takers)
      PROVE  /\ \A w \in Writers : pc'[w] = "zero" => w \in Range(sem'.takers)
             /\ \A r \in Readers : pc'[r] \notin {"add", "exit"}
  BY <1>1, <1>5, <1>6
<1>7. CASE Elsewhere
  <2>1. sem' = sem
    BY <1>7, ElsewhereSteps
  <2>2. \E p \in Procs : \E to : pc' = [pc EXCEPT ![p] = to] /\ to \notin {"zero", "add", "exit"}
    BY <1>1, <1>4, <1>7 DEF Elsewhere, ShmGetCreate, Attach, CopyMessage, ClearSegment,
       ShmGetExisting, SemGetExisting, AfterSemGet, Goto
  <2>3. QED
    BY <1>5, <1>6, <2>1, <2>2
<1>8. ASSUME NEW w \in Writers, SemGetCreate(w) PROVE Untouched'
  <2>1. sem' = SemGet(sem) /\ pc' = [pc EXCEPT ![w] = "setall"]
    BY <1>8 DEF SemGetCreate, Goto
  <2>2. /\ sem'.val = 0 /\ sem'.zeros = {} /\ \A p \in Procs : sem'.adj[p] = 0
        /\ Range(sem.takers) \subseteq Range(sem'.takers)
    BY <1>1, <1>5, <2>1, Created DEF WhoTakes, SemGet
  <2>3. QED
    BY <1>1, <1>6, <2>1, <2>2 DEF Untouched
\* Decrements wait at the value 0, so none of them succeeds.
<1>9. ASSUME NEW a, NEW T, Outcome(sem, sem', Procs, 0, a, T, sem.zeros), \A p \in Procs : a[p] = 0
      PROVE  /\ sem'.val = 0 /\ sem'.zeros = {} /\ \A p \in Procs : sem'.adj[p] = 0
             /\ Range(sem'.takers) = T
  <2>1. sem'.val \in Nat
    BY <1>9 DEF Outcome, Good, SemSets
  <2>2. sem'.val = 0
    BY <1>9, <2>1 DEF Outcome
  <2>3. QED
    BY <1>9, <2>2 DEF Outcome
<1>10. ASSUME NEW w \in Writers, SetAll(w) PROVE Untouched'
  <2>1. CASE IsHere(w)
    <3>1. pc' = [pc EXCEPT ![w] = "shmat"]
          /\ Outcome(sem, sem', Procs, 0, [q \in Procs |-> 0], Range(sem.takers), sem.zeros)
      BY <1>1, <1>10, <2>1, Calls
    <3>2. /\ sem'.val = 0 /\ sem'.zeros = {} /\ \A p \in Procs : sem'.adj[p] = 0
          /\ Range(sem'.takers) = Range(sem.takers)
      BY <1>9, <3>1
    <3>3. QED
      BY <1>1, <1>6, <3>1, <3>2 DEF Untouched
  <2>2. CASE ~IsHere(w)
    <3>1. sem' = sem /\ pc' = [pc EXCEPT ![w] = "failed"]
      BY <1>1, <1>10, <2>2, Calls
    <3>2. QED
      BY <1>1, <1>5, <1>6, <3>1 DEF Untouched
  <2>3. QED
    BY <2>1, <2>2
<1>11. ASSUME NEW w \in Writers, TakeOne(w) PROVE Untouched'
  <2>1. CASE IsHere(w)
    <3>1. pc' = [pc EXCEPT ![w] = "zero"]
          /\ Outcome(sem, sem', Procs, 0, sem.adj, Range(sem.takers) \union {w}, sem.zeros)
      BY <1>1, <1>5, <1>11, <2>1, Calls
    <3>2. /\ sem'.val = 0 /\ sem'.zeros = {} /\ \A p \in Procs : sem'.adj[p] = 0
          /\ Range(sem'.takers) = Range(sem.takers) \union {w}
      BY <1>5, <1>9, <3>1
    <3>3. /\ \A v \in Writers : pc'[v] = "zero" => v \in Range(sem'.takers)
          /\ \A r \in Readers : pc'[r] \notin {"add", "exit"}
      BY <1>1, <1>5, <3>1, <3>2
    <3>4. QED
      BY <3>2, <3>3 DEF Untouched
  <2>2. CASE ~IsHere(w)
    <3>1. sem' = sem /\ pc' = [pc EXCEPT ![w] = "clear_sem"]
      BY <1>1, <1>11, <2>2, Calls
    <3>2. QED
      BY <1>1, <1>5, <1>6, <3>1 DEF Untouched
  <2>3. QED
    BY <2>1, <2>2
<1>12. ASSUME NEW w \in Writers, AwaitZero(w) PROVE FALSE
  <2>1. pc[w] = "zero" /\ w \notin Range(sem.takers)
    BY <1>12 DEF AwaitZero, SemCall, Waiting
  <2>2. QED
    BY <1>5, <2>1
<1>13. ASSUME NEW w \in Writers, ClearSemaphore(w) PROVE Untouched'
  <2>1. pc' = [q \in Procs |->
                 IF q = w THEN "shmdt"
                 ELSE IF IsHere(w) /\ q \in Waiting(sem) THEN "clear_sem" ELSE pc[q]]
    BY <1>1, <1>13, Calls
  <2>2. \A r \in Readers : pc'[r] \notin {"add", "exit"}
    BY <1>1, <1>5, <2>1
  <2>3. sem' = IF IsHere(w) THEN RmId(sem) ELSE sem
    BY <1>1, <1>13, Calls
  <2>4. CASE IsHere(w)
    <3>1. sem'.val = 0 /\ sem'.zeros = {} /\ \A p \in Procs : sem'.adj[p] = 0
      <4>1. RmId(sem).val = 0 /\ RmId(sem).zeros = {} /\ \A p \in Procs : RmId(sem).adj[p] = 0
        BY <1>1, Removed
      <4>2. QED
        BY <2>3, <2>4, <4>1
    <3>2. ASSUME NEW v \in Writers PROVE pc'[v] # "zero"
      BY <1>1, <1>5, <2>1, <2>4 DEF Waiting
    <3>3. QED
      BY <2>2, <3>1, <3>2 DEF Untouched
  <2>5. CASE ~IsHere(w)
    BY <1>1, <1>5, <2>1, <2>2, <2>3, <2>5 DEF Untouched
  <2>6. QED
    BY <2>4, <2>5
<1>14. ASSUME NEW r \in Readers, AddOne(r) \/ ExitReader(r) PROVE FALSE
  <2>1. pc[r] \in {"add", "exit"}
    BY <1>14 DEF AddOne, ExitReader, SemCall
  <2>2. QED
    BY <1>5, <2>1
<1>15. ASSUME NEW p \in Procs, Kill(p) PROVE Untouched'
  <2>1. pc' = [pc EXCEPT ![p] = "killed"]
    BY <1>15 DEF Kill
  <2>2. CASE IsHere(p)
    <3>1. sem.adj[p] = 0 /\ (IF sem.val + sem.adj[p] >= 0 THEN sem.val + sem.adj[p] ELSE 0) = 0
      BY <1>5
    <3>2. sem.zeros \ {p} = sem.zeros
      BY <1>5
    <3>3. Outcome(sem, sem', Procs, 0, [sem.adj EXCEPT ![p] = 0], Range(sem.takers) \ {p}, sem.zeros)
      BY <1>15, <2>2, <3>1, <3>2, Calls
    <3>4. \A q \in Procs : [sem.adj EXCEPT ![p] = 0][q] = 0
      BY <1>2, <1>5
    <3>5. /\ sem'.val = 0 /\ sem'.zeros = {} /\ \A q \in Procs : sem'.adj[q] = 0
          /\ Range(sem'.takers) = Range(sem.takers) \ {p}
      BY <1>9, <3>3, <3>4
    <3>6. QED
      BY <1>6, <2>1, <3>5 DEF Untouched
  <2>3. CASE ~IsHere(p)
    <3>1. sem' = sem
      BY <1>15, <2>3, Calls
    <3>2. QED
      BY <1>5, <1>6, <2>1, <3>1 DEF Untouched
  <2>4. QED
    BY <2>2, <2>3
<1>16. QED
  BY <1>1, <1>3, <1>7, <1>8, <1>10, <1>11, <1>12, <1>13, <1>14, <1>15, NextSteps DEF Untouched

LEMMA ToBeUndoneStep ==
    ASSUME DisjointRoles, TypeOK, WhoTakes, \A r \in Readers : ToBeUndone(r), Next
    PROVE  \A r \in Readers : ToBeUndone(r)'
<1>1. /\ Good(sem, Procs) /\ Writers \subseteq Procs /\ Readers \subseteq Procs
      /\ pc = [q \in Procs |-> pc[q]] /\ sem_id \in [Procs -> Nat]
  BY DEF TypeOK, Procs
<1>2. sem.val \in Nat /\ sem.adj \in [Procs -> Int] /\ sem.id \in Nat
  BY <1>1 DEF Good, SemSets
<1>3. SUFFICES ASSUME NEW r \in Readers PROVE ToBeUndone(r)'
  OBVIOUS
<1>4. ToBeUndone(r) /\ r \in Procs /\ r \notin Writers
  BY <1>1 DEF DisjointRoles
\* No adjustment, or the same and nothing else changes.
<1>5. ASSUME sem'.adj[r] = 0 PROVE ToBeUndone(r)'
  BY <1>5 DEF ToBeUndone, Increment
<1>6. ASSUME sem'.adj[r] = sem.adj[r], sem'.id = sem.id, sem'.live = sem.live, sem_id'[r] = sem_id[r],
             pc'[r] = pc[r]
      PROVE  ToBeUndone(r)'
  BY <1>4, <1>6 DEF ToBeUndone, Increment, IsHere
<1>7. ASSUME pc[r] # "exit" PROVE sem.adj[r] = 0
  BY <1>4, <1>7 DEF ToBeUndone, Increment
\* No reader's waiting decrement can succeed, as there is none.
<1>8. ASSUME NEW v, NEW a, NEW T, NEW Z, Outcome(sem, sem', Procs, v, a, T, Z), T \subseteq Writers
      PROVE  sem'.adj[r] = a[r] /\ sem'.id = sem.id /\ sem'.live = sem.live
  BY <1>4, <1>8 DEF Outcome
<1>9. CASE Elsewhere
  <2>1. sem' = sem
    BY <1>9, ElsewhereSteps
  <2>2. CASE pc[r] = "exit"
    <3>1. pc'[r] = pc[r] /\ sem_id'[r] = sem_id[r]
      BY <1>1, <1>4, <1>9, <2>2 DEF Elsewhere, ShmGetCreate, Attach, CopyMessage, ClearSegment,
         ShmGetExisting, SemGetExisting, PrintMessage, Goto
    <3>2. QED
      BY <1>6, <2>1, <3>1
  <2>3. CASE pc[r] # "exit"
    BY <1>5, <1>7, <2>1, <2>3
  <2>4. QED
    BY <2>2, <2>3
<1>10. ASSUME NEW w \in Writers, SemGetCreate(w) PROVE ToBeUndone(r)'
  <2>1. sem' = SemGet(sem) /\ pc'[r] = pc[r] /\ sem_id'[r] = sem_id[r]
    BY <1>1, <1>4, <1>10 DEF SemGetCreate, Goto
  <2>2. CASE sem.live
    BY <1>1, <1>6, <2>1, <2>2 DEF SemGet
  <2>3. CASE ~sem.live
    BY <1>1, <1>4, <1>5, <2>1, <2>3, Created
  <2>4. QED
    BY <2>2, <2>3
<1>11. ASSUME NEW w \in Writers, SetAll(w) PROVE ToBeUndone(r)'
  <2>1. pc'[r] = pc[r] /\ sem_id'[r] = sem_id[r]
    BY <1>1, <1>4, <1>11, Calls DEF SetAll, SemCall
  <2>2. CASE IsHere(w)
    <3>1. Outcome(sem, sem', Procs, 0, [q \in Procs |-> 0], Range(sem.takers), sem.zeros)
      BY <1>1, <1>11, <2>2, Calls
    <3>2. sem'.adj[r] = 0
      BY <1>4, <1>8, <3>1 DEF WhoTakes
    <3>3. QED
      BY <1>5, <3>2
  <2>3. CASE ~IsHere(w)
    BY <1>1, <1>6, <1>11, <2>1, <2>3, Calls
  <2>4. QED
    BY <2>2, <2>3
<1>12. ASSUME NEW w \in Writers, TakeOne(w) PROVE ToBeUndone(r)'
  <2>1. pc'[r] = pc[r] /\ sem_id'[r] = sem_id[r]
    BY <1>1, <1>4, <1>12, Calls DEF TakeOne, SemCall
  <2>2. CASE IsHere(w)
    <3>1. Outcome(sem, sem', Procs, sem.val, sem.adj, Range(sem.takers) \union {w}, sem.zeros)
      BY <1>1, <1>12, <2>2, Calls
    <3>2. QED
      BY <1>6, <1>8, <2>1, <3>1 DEF WhoTakes
  <2>3. CASE ~IsHere(w)
    BY <1>1, <1>6, <1>12, <2>1, <2>3, Calls
  <2>4. QED
    BY <2>2, <2>3
<1>13. ASSUME NEW w \in Writers, AwaitZero(w) PROVE ToBeUndone(r)'
  <2>1. pc'[r] = pc[r] /\ sem_id'[r] = sem_id[r]
    BY <1>1, <1>4, <1>13, Calls DEF AwaitZero, SemCall
  <2>2. sem' = WaitForZero(sem, w) \/ sem' = sem
    BY <1>1, <1>13, Calls
  <2>3. /\ WaitForZero(sem, w).adj = sem.adj /\ WaitForZero(sem, w).id = sem.id
        /\ WaitForZero(sem, w).live = sem.live
    <3>1. WaitForZero(sem, w) \in {sem, [sem EXCEPT !.zeros = @ \union {w}]}
      BY DEF WaitForZero
    <3>2. QED
      BY <1>1, <3>1 DEF Good, SemSets
  <2>4. QED
    BY <1>6, <2>1, <2>2, <2>3
<1>14. ASSUME NEW w \in Writers, ClearSemaphore(w) PROVE ToBeUndone(r)'
  <2>1. sem' = IF IsHere(w) THEN RmId(sem) ELSE sem
    BY <1>1, <1>14, Calls
  <2>2. CASE IsHere(w)
    <3>1. RmId(sem).adj[r] = 0
      BY <1>1, <1>4, Removed
    <3>2. QED
      BY <1>5, <2>1, <2>2, <3>1
  <2>3. CASE ~IsHere(w)
    <3>1. pc'[r] = pc[r] /\ sem_id'[r] = sem_id[r]
      BY <1>1, <1>4, <1>14, <2>3, Calls DEF ClearSemaphore, SemCall
    <3>2. QED
      BY <1>6, <2>1, <2>3, <3>1
  <2>4. QED
    BY <2>2, <2>3
<1>15. ASSUME NEW q \in Readers, AddOne(q) PROVE ToBeUndone(r)'
  <2>1. pc[q] = "add" /\ pc' = [pc EXCEPT ![q] = "exit"] /\ sem_id' = sem_id /\ q \in Procs
    BY <1>1, <1>15, Calls DEF AddOne, SemCall
  <2>2. CASE IsHere(q)
    <3>1. Outcome(sem, sem', Procs, sem.val + 1, [sem.adj EXCEPT ![q] = @ - 1],
                  Range(sem.takers), sem.zeros)
      BY <1>1, <1>15, <2>2, Calls
    <3>2. sem'.adj[r] = [sem.adj EXCEPT ![q] = @ - 1][r] /\ sem'.id = sem.id /\ sem'.live = sem.live
      BY <1>8, <3>1 DEF WhoTakes
    <3>3. CASE q = r
      <4>1. sem.adj[r] = 0
        BY <1>7, <2>1, <3>3
      <4>2. sem'.adj[r] = -1
        BY <1>2, <1>4, <3>2, <3>3, <4>1
      <4>3. pc'[r] = "exit" /\ IsHere(r)'
        BY <1>1, <1>4, <2>1, <2>2, <3>2, <3>3 DEF IsHere
      <4>4. QED
        BY <4>2, <4>3 DEF ToBeUndone, Increment
    <3>4. CASE q # r
      <4>1. sem'.adj[r] = sem.adj[r] /\ pc'[r] = pc[r]
        BY <1>1, <1>2, <1>4, <2>1, <3>2, <3>4
      <4>2. QED
        BY <1>6, <2>1, <3>2, <4>1
    <3>5. QED
      BY <3>3, <3>4
  <2>3. CASE ~IsHere(q)
    <3>1. sem' = sem
      BY <1>1, <1>15, <2>3, Calls
    <3>2. CASE q = r
      BY <1>5, <1>7, <2>1, <3>1, <3>2
    <3>3. CASE q # r
      BY <1>1, <1>4, <1>6, <2>1, <3>1, <3>3
    <3>4. QED
      BY <3>2, <3>3
  <2>4. QED
    BY <2>2, <2>3
\* The end of a process undoes its own operations only.
<1>16. ASSUME NEW p \in Procs, ExitReader(p) \/ Kill(p) PROVE ToBeUndone(r)'
  <2>1. /\ sem_id' = sem_id
        /\ pc' = [pc EXCEPT ![p] = "ended"] \/ pc' = [pc EXCEPT ![p] = "killed"]
    BY <1>1, <1>16, Calls DEF ExitReader, SemCall, Kill
  <2>2. PICK v : v = IF sem.val + sem.adj[p] >= 0 THEN sem.val + sem.adj[p] ELSE 0
    OBVIOUS
  <2>3. CASE IsHere(p)
    <3>1. Outcome(sem, sem', Procs, v, [sem.adj EXCEPT ![p] = 0], Range(sem.takers) \ {p},
                  sem.zeros \ {p})
      BY <1>16, <2>2, <2>3, Calls
    <3>2. sem'.adj[r] = [sem.adj EXCEPT ![p] = 0][r] /\ sem'.id = sem.id /\ sem'.live = sem.live
      BY <1>8, <3>1 DEF WhoTakes
    <3>3. CASE p = r
      BY <1>2, <1>4, <1>5, <3>2, <3>3
    <3>4. CASE p # r
      BY <1>1, <1>2, <1>4, <1>6, <2>1, <3>2, <3>4
    <3>5. QED
      BY <3>3, <3>4
  <2>4. CASE ~IsHere(p)
    <3>1. sem' = sem
      BY <1>16, <2>4, Calls
    <3>2. CASE p = r
      <4>1. sem.adj[r] = 0
        BY <1>2, <1>4, <2>4, <3>2 DEF ToBeUndone, Increment, IsHere, WhoTakes
      <4>2. QED
        BY <1>5, <3>1, <4>1
    <3>3. CASE p # r
      BY <1>1, <1>4, <1>6, <2>1, <3>1, <3>3
    <3>4. QED
      BY <3>2, <3>3
  <2>5. QED
    BY <2>3, <2>4
<1>17. QED
  BY <1>1, <1>9, <1>10, <1>11, <1>12, <1>13, <1>14, <1>15, <1>16, NextSteps

LEMMA WaitsStep ==
    ASSUME DisjointRoles, TypeOK, \A p \in Procs : Waits(p), Next
    PROVE  \A p \in Procs : Waits(p)'
<1>1. /\ Good(sem, Procs) /\ Writers \subseteq Procs /\ Readers \subseteq Procs
      /\ pc = [q \in Procs |-> pc[q]] /\ sem_id \in [Procs -> Nat]
  BY DEF TypeOK, Procs
<1>2. SUFFICES ASSUME NEW p \in Procs, p \in Waiting(sem')
               PROVE  p \in Writers /\ IsHere(p)' /\ pc'[p] \in {"zero", "clear_sem"}
  BY DEF Waits, Waiting
<1>3. p \in Waiting(sem) => p \in Writers /\ IsHere(p) /\ pc[p] \in {"zero", "clear_sem"}
  BY DEF Waits
\* Who waited already, and neither moved nor was thrown off the set.
<1>4. ASSUME p \in Waiting(sem), sem'.live = sem.live, sem'.id = sem.id, sem_id'[p] = sem_id[p],
             pc'[p] = pc[p]
      PROVE  p \in Writers /\ IsHere(p)' /\ pc'[p] \in {"zero", "clear_sem"}
  BY <1>3, <1>4 DEF IsHere
<1>5. ASSUME NEW v, NEW a, NEW T, NEW Z, Outcome(sem, sem', Procs, v, a, T, Z)
      PROVE  Waiting(sem') \subseteq T \union Z /\ sem'.live = sem.live /\ sem'.id = sem.id
  BY <1>5 DEF Outcome, Waiting
<1>6. CASE Elsewhere
  <2>1. sem' = sem
    BY <1>6, ElsewhereSteps
  <2>2. pc[p] \in {"zero", "clear_sem"}
    BY <1>2, <1>3, <2>1
  <2>3. pc'[p] = pc[p] /\ sem_id'[p] = sem_id[p]
    BY <1>1, <1>6, <2>2 DEF Elsewhere, ShmGetCreate, Attach, CopyMessage, ClearSegment,
         ShmGetExisting, SemGetExisting, PrintMessage, Goto
  <2>4. QED
    BY <1>2, <1>4, <2>1, <2>3
<1>7. ASSUME NEW w \in Writers, SemGetCreate(w)
      PROVE  p \in Writers /\ IsHere(p)' /\ pc'[p] \in {"zero", "clear_sem"}
  <2>1. sem' = SemGet(sem) /\ pc[w] = "semget" /\ pc' = [pc EXCEPT ![w] = "setall"]
        /\ sem_id' = [sem_id EXCEPT ![w] = sem'.id]
    BY <1>7 DEF SemGetCreate, Goto
  <2>2. sem.live
    <3>1. SUFFICES ASSUME ~sem.live PROVE FALSE
      OBVIOUS
    <3>2. Waiting(sem') = {}
      BY <2>1, <3>1, Created DEF Waiting
    <3>3. QED
      BY <1>2, <3>2
  <2>3. sem' = sem
    BY <2>1, <2>2 DEF SemGet
  <2>4. p # w
    BY <1>2, <1>3, <2>1, <2>3
  <2>5. QED
    BY <1>1, <1>2, <1>4, <2>1, <2>3, <2>4
\* The caller does not wait when it calls; the others stay as they are.
<1>8. ASSUME NEW q \in Procs, q \notin Waiting(sem), UNCHANGED sem_id,
             Waiting(sem') \subseteq Waiting(sem), sem'.live = sem.live, sem'.id = sem.id,
             \A x \in Procs : x # q => pc'[x] = pc[x]
      PROVE  p \in Writers /\ IsHere(p)' /\ pc'[p] \in {"zero", "clear_sem"}
  BY <1>2, <1>4, <1>8
<1>9. ASSUME NEW w \in Writers, SetAll(w)
      PROVE  p \in Writers /\ IsHere(p)' /\ pc'[p] \in {"zero", "clear_sem"}
  <2>1. w \notin Waiting(sem) /\ UNCHANGED sem_id
    BY <1>9 DEF SetAll, SemCall
  <2>2. \A x \in Procs : x # w => pc'[x] = pc[x]
    BY <1>1, <1>9, Calls
  <2>3. Waiting(sem') \subseteq Waiting(sem) /\ sem'.live = sem.live /\ sem'.id = sem.id
    BY <1>1, <1>9, Calls DEF Outcome, Waiting
  <2>4. QED
    BY <1>1, <1>8, <2>1, <2>2, <2>3
<1>10. ASSUME NEW w \in Writers, TakeOne(w)
       PROVE  p \in Writers /\ IsHere(p)' /\ pc'[p] \in {"zero", "clear_sem"}
  <2>1. w \notin Waiting(sem) /\ UNCHANGED sem_id
    BY <1>10 DEF TakeOne, SemCall
  <2>2. \A x \in Procs : x # w => pc'[x] = pc[x]
    BY <1>1, <1>10, Calls
  <2>3. sem'.live = sem.live /\ sem'.id = sem.id
    BY <1>1, <1>10, Calls DEF Outcome
  <2>4. CASE p = w
    <3>1. IsHere(w)
      <4>1. ~IsHere(w) => sem' = sem
        BY <1>1, <1>10, Calls
      <4>2. QED
        BY <1>2, <2>1, <2>4, <4>1
    <3>2. pc' = [pc EXCEPT ![w] = "zero"]
      BY <1>1, <1>10, <3>1, Calls
    <3>3. QED
      BY <1>1, <2>1, <2>3, <2>4, <3>1, <3>2 DEF IsHere
  <2>5. CASE p # w
    <3>1. p \in Waiting(sem)
      BY <1>1, <1>2, <1>10, <2>5, Calls DEF Outcome, Waiting
    <3>2. QED
      BY <1>4, <2>1, <2>2, <2>3, <2>5, <3>1
  <2>6. QED
    BY <2>4, <2>5
<1>11. ASSUME NEW w \in Writers, AwaitZero(w)
       PROVE  p \in Writers /\ IsHere(p)' /\ pc'[p] \in {"zero", "clear_sem"}
  <2>1. w \notin Waiting(sem) /\ UNCHANGED sem_id
    BY <1>11 DEF AwaitZero, SemCall
  <2>2. pc' = [pc EXCEPT ![w] = "clear_sem"]
    BY <1>1, <1>11, Calls
  <2>3. sem' = IF IsHere(w) THEN WaitForZero(sem, w) ELSE sem
    BY <1>1, <1>11, Calls
  <2>4. /\ Waiting(WaitForZero(sem, w)) \subseteq Waiting(sem) \union {w}
        /\ WaitForZero(sem, w).live = sem.live /\ WaitForZero(sem, w).id = sem.id
    <3>1. WaitForZero(sem, w) \in {sem, [sem EXCEPT !.zeros = @ \union {w}]}
      BY DEF WaitForZero
    <3>2. QED
      BY <1>1, <3>1 DEF Good, SemSets, Waiting
  <2>5. CASE p = w
    <3>1. IsHere(w)
      BY <1>2, <2>1, <2>3, <2>5
    <3>2. QED
      BY <1>1, <2>1, <2>2, <2>3, <2>4, <2>5, <3>1 DEF IsHere
  <2>6. CASE p # w
    BY <1>1, <1>2, <1>4, <2>1, <2>2, <2>3, <2>4, <2>6
  <2>7. QED
    BY <2>5, <2>6
<1>12. ASSUME NEW w \in Writers, ClearSemaphore(w)
       PROVE  p \in Writers /\ IsHere(p)' /\ pc'[p] \in {"zero", "clear_sem"}
  <2>1. w \notin Waiting(sem) /\ UNCHANGED sem_id
    BY <1>12 DEF ClearSemaphore, SemCall
  <2>2. sem' = IF IsHere(w) THEN RmId(sem) ELSE sem
    BY <1>1, <1>12, Calls
  <2>3. Waiting(RmId(sem)) = {}
    BY Removed DEF Waiting
  <2>4. ~IsHere(w) /\ sem' = sem
    BY <1>2, <2>2, <2>3
  <2>5. pc' = [q \in Procs |->
                 IF q = w THEN "shmdt"
                 ELSE IF IsHere(w) /\ q \in Waiting(sem) THEN "clear_sem" ELSE pc[q]]
    BY <1>1, <1>12, Calls
  <2>6. \A x \in Procs : x # w => pc'[x] = pc[x]
    BY <2>4, <2>5
  <2>7. QED
    BY <1>1, <1>8, <2>1, <2>4, <2>6
<1>13. ASSUME NEW r \in Readers, AddOne(r) \/ ExitReader(r)
       PROVE  p \in Writers /\ IsHere(p)' /\ pc'[p] \in {"zero", "clear_sem"}
  <2>1. r \notin Waiting(sem) /\ UNCHANGED sem_id
    BY <1>13 DEF AddOne, ExitReader, SemCall
  <2>2. \A x \in Procs : x # r => pc'[x] = pc[x]
    BY <1>1, <1>13, Calls
  <2>3. Waiting(sem') \subseteq Waiting(sem) /\ sem'.live = sem.live /\ sem'.id = sem.id
    <3>1. PICK v : v = IF sem.val + sem.adj[r] >= 0 THEN sem.val + sem.adj[r] ELSE 0
      OBVIOUS
    <3>2. \/ sem' = sem
          \/ Outcome(sem, sem', Procs, sem.val + 1, [sem.adj EXCEPT ![r] = @ - 1],
                     Range(sem.takers), sem.zeros)
          \/ Outcome(sem, sem', Procs, v, [sem.adj EXCEPT ![r] = 0], Range(sem.takers) \ {r},
                     sem.zeros \ {r})
      BY <1>1, <1>13, <3>1, Calls
    <3>3. QED
      BY <3>2 DEF Outcome, Waiting
  <2>4. QED
    BY <1>1, <1>8, <2>1, <2>2, <2>3
<1>14. ASSUME NEW q \in Procs, Kill(q)
       PROVE  p \in Writers /\ IsHere(p)' /\ pc'[p] \in {"zero", "clear_sem"}
  <2>1. UNCHANGED sem_id /\ pc' = [pc EXCEPT ![q] = "killed"]
    BY <1>14 DEF Kill
  <2> PICK v : v = IF sem.val + sem.adj[q] >= 0 THEN sem.val + sem.adj[q] ELSE 0
    OBVIOUS
  <2>a. \/ ~IsHere(q) /\ sem' = sem
        \/ IsHere(q) /\ Outcome(sem, sem', Procs, v, [sem.adj EXCEPT ![q] = 0],
                                Range(sem.takers) \ {q}, sem.zeros \ {q})
    BY <1>14, Calls
  <2>2. Waiting(sem') \subseteq Waiting(sem) /\ sem'.live = sem.live /\ sem'.id = sem.id
    BY <2>a DEF Outcome, Waiting
  <2>3. q \notin Waiting(sem')
    <3>1. CASE IsHere(q)
      BY <2>a, <3>1 DEF Outcome, Waiting
    <3>2. CASE ~IsHere(q)
      <4>1. sem' = sem
        BY <1>14, <3>2, Calls
      <4>2. QED
        BY <3>2, <4>1 DEF Waits
    <3>3. QED
      BY <3>1, <3>2
  <2>4. QED
    BY <1>1, <1>2, <1>4, <2>1, <2>2, <2>3
<1>15. QED
  BY <1>1, <1>6, <1>7, <1>9, <1>10, <1>11, <1>12, <1>13, <1>14, NextSteps

LEMMA KilledStays ==
    ASSUME DisjointRoles, TypeOK, \A p \in Procs : Waits(p), Next, NobodyKilled'
    PROVE  NobodyKilled
<1>1. /\ Writers \subseteq Procs /\ Readers \subseteq Procs /\ pc = [q \in Procs |-> pc[q]]
  BY DEF TypeOK, Procs
<1>2. SUFFICES ASSUME NEW w \in Writers, pc[w] = "killed" PROVE pc'[w] = "killed"
  BY DEF NobodyKilled
<1>3. CASE Elsewhere
  BY <1>1, <1>2, <1>3 DEF Elsewhere, ShmGetCreate, Attach, CopyMessage, ClearSegment,
     ShmGetExisting, SemGetExisting, PrintMessage, Goto
<1>4. ASSUME NEW v \in Writers, SemGetCreate(v) \/ Kill(v) PROVE pc'[w] = "killed"
  BY <1>1, <1>2, <1>4 DEF SemGetCreate, Kill, Goto
<1>5. ASSUME NEW v \in Writers, SetAll(v) \/ TakeOne(v) \/ AwaitZero(v) PROVE pc'[w] = "killed"
  <2>1. v # w
    BY <1>2, <1>5 DEF SetAll, TakeOne, AwaitZero, SemCall
  <2>2. \E to : pc' = [pc EXCEPT ![v] = to]
    BY <1>1, <1>5, Calls
  <2>3. QED
    BY <1>1, <1>2, <2>1, <2>2
<1>6. ASSUME NEW v \in Writers, ClearSemaphore(v) PROVE pc'[w] = "killed"
  <2>1. v # w
    BY <1>2, <1>6 DEF ClearSemaphore, SemCall
  <2>2. pc' = [q \in Procs |->
                 IF q = v THEN "shmdt"
                 ELSE IF IsHere(v) /\ q \in Waiting(sem) THEN "clear_sem" ELSE pc[q]]
    BY <1>1, <1>6, Calls
  <2>3. w \notin Waiting(sem)
    BY <1>1, <1>2 DEF Waits
  <2>4. QED
    BY <1>1, <1>2, <2>1, <2>2, <2>3
<1>7. ASSUME NEW r \in Readers, AddOne(r) \/ ExitReader(r) \/ Kill(r) PROVE pc'[w] = "killed"
  <2>1. \E to : pc' = [pc EXCEPT ![r] = to]
    BY <1>1, <1>7, Calls DEF Kill
  <2>2. r # w
    BY DEF DisjointRoles
  <2>3. QED
    BY <1>1, <1>2, <2>1, <2>2
<1>8. QED
  BY <1>3, <1>4, <1>5, <1>6, <1>7, NextSteps

LEMMA ZeroIsDueStep ==
    ASSUME IsFiniteSet(Readers), DisjointRoles, TypeOK, WhoTakes, \A p \in Procs : Waits(p),
           \A r \in Readers : ToBeUndone(r), ZeroIsDue, Next
    PROVE  ZeroIsDue'
<1>1. /\ Good(sem, Procs) /\ Writers \subseteq Procs /\ Readers \subseteq Procs
      /\ Good(sem', Procs)
  BY TypeStep DEF TypeOK, Procs
<1>2. /\ sem.val \in Nat /\ sem.adj \in [Procs -> Int] /\ sem'.val \in Nat
  BY <1>1 DEF Good, SemSets
<1>3. SUFFICES ASSUME NobodyKilled' PROVE sem'.val <= Cardinality(Increments')
  BY DEF ZeroIsDue
<1>4. /\ IsFiniteSet(Increments) /\ Cardinality(Increments) \in Nat
      /\ Cardinality(Increments') \in Nat
  <2>1. Increments \subseteq Readers /\ Increments' \subseteq Readers
    BY DEF Increments
  <2>2. QED
    BY <2>1, FS_Subset, FS_CardinalityType
<1>5. sem.val <= Cardinality(Increments)
  BY <1>3, KilledStays DEF ZeroIsDue
\* The value does not grow, and no increment is undone.
<1>6. ASSUME sem'.val <= sem.val, \A r \in Readers : sem'.adj[r] = sem.adj[r]
      PROVE  sem'.val <= Cardinality(Increments')
  <2>1. Increments' = Increments
    BY <1>6 DEF Increments, Increment
  <2>2. QED
    BY <1>2, <1>4, <1>5, <1>6, <2>1
<1>7. ASSUME NEW v, NEW a, NEW T, NEW Z, Outcome(sem, sem', Procs, v, a, T, Z), T \subseteq Writers
      PROVE  sem'.val <= v /\ \A r \in Readers : sem'.adj[r] = a[r]
  BY <1>1, <1>7 DEF Outcome, DisjointRoles
<1>8. CASE Elsewhere
  BY <1>2, <1>6, <1>8, ElsewhereSteps
<1>9. ASSUME NEW w \in Writers, SemGetCreate(w) PROVE sem'.val <= Cardinality(Increments')
  <2>1. sem' = SemGet(sem)
    BY <1>9 DEF SemGetCreate
  <2>2. CASE sem.live
    BY <1>2, <1>6, <2>1, <2>2 DEF SemGet
  <2>3. CASE ~sem.live
    BY <1>4, <2>1, <2>3, Created
  <2>4. QED
    BY <2>2, <2>3
<1>10. ASSUME NEW w \in Writers, SetAll(w) PROVE sem'.val <= Cardinality(Increments')
  <2>1. CASE IsHere(w)
    <3>1. sem'.val <= 0
      BY <1>1, <1>10, <2>1, Calls DEF Outcome
    <3>2. QED
      BY <1>2, <1>4, <3>1
  <2>2. CASE ~IsHere(w)
    <3>1. sem' = sem
      BY <1>1, <1>10, <2>2, Calls
    <3>2. QED
      BY <1>2, <1>6, <3>1
  <2>3. QED
    BY <2>1, <2>2
<1>11. ASSUME NEW w \in Writers, TakeOne(w) PROVE sem'.val <= Cardinality(Increments')
  <2>1. CASE IsHere(w)
    <3>1. Outcome(sem, sem', Procs, sem.val, sem.adj, Range(sem.takers) \union {w}, sem.zeros)
      BY <1>1, <1>11, <2>1, Calls
    <3>2. QED
      BY <1>6, <1>7, <3>1 DEF WhoTakes
  <2>2. CASE ~IsHere(w)
    <3>1. sem' = sem
      BY <1>1, <1>11, <2>2, Calls
    <3>2. QED
      BY <1>2, <1>6, <3>1
  <2>3. QED
    BY <2>1, <2>2
<1>12. ASSUME NEW w \in Writers, AwaitZero(w) PROVE sem'.val <= Cardinality(Increments')
  <2>1. sem' = WaitForZero(sem, w) \/ sem' = sem
    BY <1>1, <1>12, Calls
  <2>2. WaitForZero(sem, w).adj = sem.adj /\ WaitForZero(sem, w).val = sem.val
    <3>1. WaitForZero(sem, w) \in {sem, [sem EXCEPT !.zeros = @ \union {w}]}
      BY DEF WaitForZero
    <3>2. QED
      BY <1>1, <3>1 DEF Good, SemSets
  <2>3. QED
    BY <1>2, <1>6, <2>1, <2>2
<1>13. ASSUME NEW w \in Writers, ClearSemaphore(w) PROVE sem'.val <= Cardinality(Increments')
  <2>1. sem' = RmId(sem) \/ sem' = sem
    BY <1>1, <1>13, Calls
  <2>2. CASE sem' = RmId(sem)
    BY <1>4, <2>2, Removed
  <2>3. CASE sem' = sem
    BY <1>2, <1>6, <2>3
  <2>4. QED
    BY <2>1, <2>2, <2>3
<1>14. ASSUME NEW r \in Readers, AddOne(r) PROVE sem'.val <= Cardinality(Increments')
  <2>1. CASE IsHere(r)
    <3>1. Outcome(sem, sem', Procs, sem.val + 1, [sem.adj EXCEPT ![r] = @ - 1],
                  Range(sem.takers), sem.zeros)
      BY <1>1, <1>14, <2>1, Calls
    <3>2. pc[r] = "add"
      BY <1>14 DEF AddOne, SemCall
    <3>3. sem.adj[r] = 0
      BY <3>2 DEF ToBeUndone, Increment
    <3>4. /\ sem'.val <= sem.val + 1
          /\ \A q \in Readers : sem'.adj[q] = IF q = r THEN -1 ELSE sem.adj[q]
      BY <1>1, <1>2, <1>7, <3>1, <3>3 DEF WhoTakes
    <3>5. Increments' = Increments \union {r} /\ r \notin Increments
      BY <3>3, <3>4 DEF Increments, Increment
    <3>6. Cardinality(Increments') = Cardinality(Increments) + 1
      BY <1>4, <3>5, FS_AddElement
    <3>7. QED
      BY <1>2, <1>4, <1>5, <3>4, <3>6
  <2>2. CASE ~IsHere(r)
    <3>1. sem' = sem
      BY <1>1, <1>14, <2>2, Calls
    <3>2. QED
      BY <1>2, <1>6, <3>1
  <2>3. QED
    BY <2>1, <2>2
<1>15. ASSUME NEW r \in Readers, ExitReader(r) \/ Kill(r)
       PROVE  sem'.val <= Cardinality(Increments')
  <2>1. PICK v : v = IF sem.val + sem.adj[r] >= 0 THEN sem.val + sem.adj[r] ELSE 0
    OBVIOUS
  <2>2. CASE IsHere(r)
    <3>1. Outcome(sem, sem', Procs, v, [sem.adj EXCEPT ![r] = 0], Range(sem.takers) \ {r},
                  sem.zeros \ {r})
      BY <1>1, <1>15, <2>1, <2>2, Calls
    <3>2. sem'.val <= v /\ \A q \in Readers : sem'.adj[q] = IF q = r THEN 0 ELSE sem.adj[q]
      BY <1>1, <1>2, <1>7, <3>1 DEF WhoTakes
    <3>3. CASE sem.adj[r] = -1
      <4>1. Increments' = Increments \ {r} /\ r \in Increments
        BY <3>2, <3>3 DEF Increments, Increment
      <4>2. Cardinality(Increments') = Cardinality(Increments) - 1
        BY <1>4, <4>1, FS_RemoveElement
      <4>3. QED
        BY <1>2, <1>4, <1>5, <2>1, <3>2, <3>3, <4>2
    <3>4. CASE sem.adj[r] = 0
      BY <1>2, <1>6, <2>1, <3>2, <3>4
    <3>5. QED
      BY <3>3, <3>4 DEF ToBeUndone
  <2>3. CASE ~IsHere(r)
    <3>1. sem' = sem
      BY <1>1, <1>15, <2>3, Calls
    <3>2. QED
      BY <1>2, <1>6, <3>1
  <2>4. QED
    BY <2>2, <2>3
<1>16. ASSUME NEW w \in Writers, Kill(w) PROVE FALSE
  BY <1>1, <1>3, <1>16 DEF Kill, NobodyKilled, TypeOK
<1>17. QED
  BY <1>1, <1>8, <1>9, <1>10, <1>11, <1>12, <1>13, <1>14, <1>15, <1>16, NextSteps

\* A writer that moves on stays the owner of its set until it removes it.
LEMMA SetHasOwnerStep ==
    ASSUME DisjointRoles, TypeOK, SetHasOwner, Next
    PROVE  SetHasOwner'
<1>1. /\ Good(sem, Procs) /\ Writers \subseteq Procs /\ Readers \subseteq Procs
      /\ pc = [q \in Procs |-> pc[q]] /\ sem_id \in [Procs -> Nat]
  BY DEF TypeOK, Procs
<1>2. ASSUME NEW w \in Writers, SemGetCreate(w) PROVE SetHasOwner'
  <2>1. sem_id'[w] = sem'.id /\ pc'[w] = "setall"
    BY <1>1, <1>2 DEF SemGetCreate, Goto
  <2>2. Owner(w)'
    BY <2>1 DEF Owner, OwnerPlaces
  <2>3. QED
    BY <2>2 DEF SetHasOwner
\* p goes to another of these places, and the others stay where they are.
<1>3. ASSUME NEW p \in Procs, sem'.live = sem.live, sem'.id = sem.id,
             \A w \in Writers : /\ w # p => pc'[w] = pc[w] /\ sem_id'[w] = sem_id[w]
                                /\ w = p => /\ pc[w] \in OwnerPlaces => pc'[w] \in OwnerPlaces
                                            /\ sem_id'[w] = sem_id[w]
      PROVE  SetHasOwner'
  <2>1. SUFFICES ASSUME sem.live PROVE \E w \in Writers : Owner(w)'
    BY <1>3 DEF SetHasOwner
  <2>2. PICK w \in Writers : Owner(w)
    BY <2>1 DEF SetHasOwner
  <2>3. Owner(w)'
    BY <1>3, <2>2 DEF Owner
  <2>4. QED
    BY <2>3
<1>4. CASE Elsewhere
  <2>1. sem' = sem
    BY <1>4, ElsewhereSteps
  <2>2. sem'.live = sem.live /\ sem'.id = sem.id
    BY <2>1
  <2>3. ASSUME NEW p \in Writers, \/ ShmGetCreate(p) \/ Attach(p, "strcpy") \/ CopyMessage(p)
                                  \/ ClearSegment(p)
        PROVE  SetHasOwner'
    <3>1. sem_id' = sem_id
      BY <2>3 DEF ShmGetCreate, Attach, CopyMessage, ClearSegment
    <3>2. PICK to : pc' = [pc EXCEPT ![p] = to] /\ (pc[p] \in OwnerPlaces => to \in OwnerPlaces)
      BY <2>3 DEF ShmGetCreate, Attach, CopyMessage, ClearSegment, Goto, OwnerPlaces
    <3>3. QED
      BY <1>1, <1>3, <2>2, <3>1, <3>2
  <2>4. ASSUME NEW r \in Readers, \/ ShmGetExisting(r) \/ SemGetExisting(r) \/ Attach(r, "print")
                                  \/ PrintMessage(r)
        PROVE  SetHasOwner'
    <3>1. \A w \in Writers : w # r
      BY DEF DisjointRoles
    <3>2. \A w \in Writers : pc'[w] = pc[w] /\ sem_id'[w] = sem_id[w]
      BY <1>1, <2>4, <3>1 DEF ShmGetExisting, SemGetExisting, Attach, PrintMessage, Goto
    <3>3. QED
      BY <1>1, <1>3, <2>2, <3>1, <3>2
  <2>5. QED
    BY <1>4, <2>3, <2>4 DEF Elsewhere
<1>5. ASSUME NEW w \in Writers, SetAll(w) \/ TakeOne(w) \/ AwaitZero(w) PROVE SetHasOwner'
  <2>1. \E to \in OwnerPlaces : pc' = [pc EXCEPT ![w] = to]
    BY <1>1, <1>5, Calls DEF OwnerPlaces
  <2>2. sem_id' = sem_id
    BY <1>5 DEF SetAll, TakeOne, AwaitZero, SemCall
  <2>3. sem'.live = sem.live /\ sem'.id = sem.id
    <3>1. CASE SetAll(w)
      BY <1>1, <3>1, Calls DEF Outcome
    <3>2. CASE TakeOne(w)
      BY <1>1, <3>2, Calls DEF Outcome
    <3>3. CASE AwaitZero(w)
      <4>1. sem' = WaitForZero(sem, w) \/ sem' = sem
        BY <1>1, <3>3, Calls
      <4>2. WaitForZero(sem, w) \in {sem, [sem EXCEPT !.zeros = @ \union {w}]}
        BY DEF WaitForZero
      <4>3. QED
        BY <1>1, <4>1, <4>2 DEF Good, SemSets
    <3>4. QED
      BY <1>5, <3>1, <3>2, <3>3
  <2>4. QED
    BY <1>1, <1>3, <2>1, <2>2, <2>3
<1>6. ASSUME NEW w \in Writers, ClearSemaphore(w) PROVE SetHasOwner'
  <2>1. sem' = IF IsHere(w) THEN RmId(sem) ELSE sem
    BY <1>1, <1>6, Calls
  <2>2. CASE IsHere(w)
    BY <2>1, <2>2, Removed DEF SetHasOwner
  <2>3. CASE ~IsHere(w)
    <3>1. SUFFICES ASSUME sem.live PROVE \E v \in Writers : Owner(v)'
      BY <2>1, <2>3 DEF SetHasOwner
    <3>2. PICK v \in Writers : Owner(v)
      BY <3>1 DEF SetHasOwner
    <3>3. v # w
      BY <2>3, <3>1, <3>2 DEF Owner, IsHere
    <3>4. pc' = [q \in Procs |->
                   IF q = w THEN "shmdt"
                   ELSE IF IsHere(w) /\ q \in Waiting(sem) THEN "clear_sem" ELSE pc[q]]
      BY <1>1, <1>6, Calls
    <3>5. pc'[v] = pc[v] /\ sem_id' = sem_id
      BY <1>1, <1>6, <2>3, <3>3, <3>4 DEF ClearSemaphore, SemCall
    <3>6. Owner(v)'
      BY <2>1, <2>3, <3>2, <3>5 DEF Owner
    <3>7. QED
      BY <3>6
  <2>4. QED
    BY <2>2, <2>3
<1>7. ASSUME NEW p \in Procs, Kill(p) PROVE SetHasOwner'
  <2>1. pc' = [pc EXCEPT ![p] = "killed"] /\ sem_id' = sem_id
    BY <1>7 DEF Kill
  <2>2. sem'.live = sem.live /\ sem'.id = sem.id
    BY <1>7, Calls DEF Outcome
  <2>3. QED
    BY <1>1, <1>3, <2>1, <2>2 DEF OwnerPlaces
<1>8. ASSUME NEW r \in Readers, AddOne(r) \/ ExitReader(r) PROVE SetHasOwner'
  <2>1. sem'.live = sem.live /\ sem'.id = sem.id
    BY <1>1, <1>8, Calls DEF Outcome
  <2>2. sem_id' = sem_id /\ \A w \in Writers : w # r
    BY <1>8 DEF AddOne, ExitReader, SemCall, DisjointRoles
  <2>3. \A w \in Writers : pc'[w] = pc[w]
    BY <1>1, <1>8, <2>2, Calls
  <2>4. QED
    BY <1>1, <1>3, <2>1, <2>2, <2>3
<1>9. QED
  BY <1>1, <1>2, <1>4, <1>5, <1>6, <1>7, <1>8, NextSteps

\* What a step does to the segments and to who has them.
LEMMA CopyKeepsLength ==
    ASSUME DisjointRoles, TypeOK, Next, NEW w \in Writers, CopyMessage(w)
    PROVE  Len(shm') = Len(shm)
<1>1. shm \in Seq(Contents) /\ DOMAIN shm = 1..Len(shm) /\ Len(shm) \in Nat
  BY DEF TypeOK
<1>2. shm' = [shm EXCEPT ![shm_id[w]] = "message"]
  BY DEF CopyMessage
<1>3. DOMAIN shm' = 1..Len(shm)
  BY <1>1, <1>2
<1>4. shm' \in Seq(Contents)
  BY TypeStep DEF TypeOK
<1>5. QED
  BY <1>1, <1>3, <1>4

LEMMA SegmentHasOwnerStep ==
    ASSUME DisjointRoles, TypeOK, SegmentHasOwner, Next
    PROVE  SegmentHasOwner'
<1>1. /\ Good(sem, Procs) /\ Writers \subseteq Procs /\ Readers \subseteq Procs
      /\ pc = [q \in Procs |-> pc[q]] /\ shm_id \in [Procs -> Nat]
  BY DEF TypeOK, Procs
<1>2. ASSUME NEW w \in Writers, ShmGetCreate(w) PROVE SegmentHasOwner'
  <2>1. shm_id'[w] = Len(shm') /\ pc'[w] = "semget"
    BY <1>1, <1>2 DEF ShmGetCreate, Goto
  <2>2. SegmentOwner(w)'
    BY <2>1 DEF SegmentOwner
  <2>3. QED
    BY <2>2 DEF SegmentHasOwner
\* No segment is made or removed, and no writer ends.
<1>3. ASSUME Len(shm') = Len(shm), shm_removed' = shm_removed,
             \A w \in Writers : /\ shm_id'[w] = shm_id[w]
                                /\ pc[w] \notin {"start", "ended"} => pc'[w] \notin {"start", "ended"}
      PROVE  SegmentHasOwner'
  <2>1. SUFFICES ASSUME SegmentIsThere PROVE \E w \in Writers : SegmentOwner(w)'
    BY <1>3 DEF SegmentHasOwner, SegmentIsThere
  <2>2. PICK w \in Writers : SegmentOwner(w)
    BY <2>1 DEF SegmentHasOwner
  <2>3. SegmentOwner(w)'
    BY <1>3, <2>2 DEF SegmentOwner
  <2>4. QED
    BY <2>3
<1>4. ASSUME NEW w \in Writers, ClearSegment(w) PROVE SegmentHasOwner'
  <2>1. /\ shm' = shm /\ shm_id' = shm_id /\ shm_removed' = shm_removed \union {shm_id[w]}
        /\ pc' = [pc EXCEPT ![w] = "ended"]
    BY <1>4 DEF ClearSegment, RemovedSegments, Goto
  <2>2. SUFFICES ASSUME SegmentIsThere' PROVE \E v \in Writers : SegmentOwner(v)'
    BY DEF SegmentHasOwner
  <2>3. SegmentIsThere /\ shm_id[w] # Len(shm)
    BY <2>1, <2>2 DEF SegmentIsThere
  <2>4. PICK v \in Writers : SegmentOwner(v)
    BY <2>3 DEF SegmentHasOwner
  <2>5. SegmentOwner(v)'
    BY <1>1, <2>1, <2>3, <2>4 DEF SegmentOwner
  <2>6. QED
    BY <2>5
<1>5. ASSUME NEW w \in Writers, CopyMessage(w) PROVE SegmentHasOwner'
  <2>1. pc' = [pc EXCEPT ![w] = "take"] /\ shm_id' = shm_id /\ shm_removed' = shm_removed
    BY <1>5 DEF CopyMessage, Goto
  <2>2. Len(shm') = Len(shm)
    BY <1>5, CopyKeepsLength
  <2>3. QED
    BY <1>1, <1>3, <2>1, <2>2
<1>6. ASSUME NEW p \in Procs, NEW next \in {"strcpy", "print"}, Attach(p, next)
      PROVE  SegmentHasOwner'
  <2>1. UNCHANGED memory /\ \E to : to \notin {"start", "ended"} /\ pc' = [pc EXCEPT ![p] = to]
    BY <1>6 DEF Attach, Goto
  <2>2. QED
    BY <1>1, <1>3, <2>1 DEF memory
<1>7. ASSUME NEW r \in Readers, ShmGetExisting(r) \/ SemGetExisting(r) \/ PrintMessage(r)
      PROVE  SegmentHasOwner'
  <2>1. \A w \in Writers : w # r
    BY DEF DisjointRoles
  <2>2. shm' = shm /\ shm_removed' = shm_removed
    BY <1>7 DEF ShmGetExisting, SemGetExisting, PrintMessage, memory
  <2>3. \A w \in Writers : shm_id'[w] = shm_id[w] /\ pc'[w] = pc[w]
    BY <1>1, <1>7, <2>1 DEF ShmGetExisting, SemGetExisting, PrintMessage, memory, Goto
  <2>4. QED
    BY <1>3, <2>2, <2>3
<1>8. ASSUME NEW w \in Writers,
             SemGetCreate(w) \/ SetAll(w) \/ TakeOne(w) \/ AwaitZero(w) \/ Kill(w)
      PROVE  SegmentHasOwner'
  <2>1. UNCHANGED memory
    BY <1>8 DEF SemGetCreate, SetAll, TakeOne, AwaitZero, Kill, SemCall
  <2>2. \E to : to \notin {"start", "ended"} /\ pc' = [pc EXCEPT ![w] = to]
    BY <1>1, <1>8, Calls DEF SemGetCreate, Kill, Goto
  <2>3. QED
    BY <1>1, <1>3, <2>1, <2>2 DEF memory
<1>9. ASSUME NEW w \in Writers, ClearSemaphore(w) PROVE SegmentHasOwner'
  <2>1. UNCHANGED memory
    BY <1>9 DEF ClearSemaphore, SemCall
  <2>2. pc' = [q \in Procs |->
                 IF q = w THEN "shmdt"
                 ELSE IF IsHere(w) /\ q \in Waiting(sem) THEN "clear_sem" ELSE pc[q]]
    BY <1>1, <1>9, Calls
  <2>3. \A v \in Writers : pc[v] \notin {"start", "ended"} => pc'[v] \notin {"start", "ended"}
    BY <1>1, <2>2
  <2>4. QED
    BY <1>3, <2>1, <2>3 DEF memory
<1>10. ASSUME NEW r \in Readers, AddOne(r) \/ ExitReader(r) \/ Kill(r) PROVE SegmentHasOwner'
  <2>1. UNCHANGED memory /\ \A w \in Writers : w # r
    BY <1>10 DEF AddOne, ExitReader, Kill, SemCall, DisjointRoles
  <2>2. \A w \in Writers : pc'[w] = pc[w]
    BY <1>1, <1>10, <2>1, Calls DEF Kill
  <2>3. QED
    BY <1>3, <2>1, <2>2 DEF memory
<1>11. QED
  BY <1>1, <1>2, <1>4, <1>5, <1>6, <1>7, <1>8, <1>9, <1>10, NextSteps DEF Elsewhere

\* The invariant of the writers and the readers, for any number of them, of sets
\* and of kills.
THEOREM MessageInvHolds ==
    ASSUME DisjointRoles, IsFiniteSet(Readers)
    PROVE  Spec => []MessageInv
<1>1. Init => MessageInv
  <2> SUFFICES ASSUME Init PROVE MessageInv
    OBVIOUS
  <2>1. /\ sem = [live |-> FALSE, id |-> 0, val |-> 0, adj |-> [p \in Procs |-> 0],
                  takers |-> <<>>, zeros |-> {}]
        /\ sem_id = [p \in Procs |-> 0] /\ shm = <<>> /\ shm_id = [p \in Procs |-> 0]
        /\ pc = [p \in Procs |-> "start"] /\ seen = [r \in Readers |-> "nothing"]
    BY DEF Init, NoSemaphores
  <2>2. Writers \subseteq Procs /\ Readers \subseteq Procs
    BY DEF Procs
  <2>3. Range(sem.takers) = {} /\ Waiting(sem) = {} /\ Good(sem, Procs)
    BY <2>1, NewSet DEF Good, SemSets, Settled, Waiting
  <2>4. TypeOK
    <3>1. shm \in Seq(Contents)
      BY <2>1
    <3>2. QED
      BY <2>1, <2>2, <2>3, <3>1 DEF TypeOK, HasSegment
  <2>5. WhoTakes /\ Untouched /\ (\A p \in Procs : Waits(p)) /\ (\A r \in Readers : ToBeUndone(r))
    <3>1. sem.val = 0 /\ sem.zeros = {} /\ \A p \in Procs : sem.adj[p] = 0 /\ pc[p] = "start"
      BY <2>1
    <3>2. Untouched /\ \A r \in Readers : ToBeUndone(r)
      BY <2>2, <3>1 DEF Untouched, ToBeUndone, Increment
    <3>3. QED
      BY <2>3, <3>2 DEF WhoTakes, Waits
  <2>6. ZeroIsDue
    <3>1. Increments \subseteq Readers
      BY DEF Increments
    <3>2. Cardinality(Increments) \in Nat
      BY <3>1, FS_Subset, FS_CardinalityType
    <3>3. QED
      BY <2>1, <3>2 DEF ZeroIsDue
  <2>7. SetHasOwner /\ SegmentHasOwner
    BY <2>1 DEF SetHasOwner, SegmentHasOwner, SegmentIsThere
  <2>8. QED
    BY <2>4, <2>5, <2>6, <2>7 DEF MessageInv
<1>2. MessageInv /\ [Next]_vars => MessageInv'
  <2> SUFFICES ASSUME MessageInv, [Next]_vars PROVE MessageInv'
    OBVIOUS
  <2>1. CASE Next
    BY <2>1, TypeStep, WhoTakesStep, UntouchedStep, WaitsStep, ToBeUndoneStep, ZeroIsDueStep,
       SetHasOwnerStep, SegmentHasOwnerStep DEF MessageInv
  <2>2. CASE UNCHANGED vars
    BY <2>2 DEF vars, memory, MessageInv, TypeOK, HasSegment, WhoTakes, Untouched, NothingSeen,
       Waits, ToBeUndone, Increment, IsHere, Procs, ZeroIsDue, NobodyKilled, Increments,
       SetHasOwner, Owner, SegmentHasOwner, SegmentOwner, SegmentIsThere
  <2>3. QED
    BY <2>1, <2>2
<1>3. QED
  BY <1>1, <1>2, PTL DEF Spec

\* A writer passes the semaphore only after a reader has printed, whoever is
\* killed and undone (task3.c:103-104, task4.c:46-48).
THEOREM PassesOnlyRead ==
    ASSUME DisjointRoles, IsFiniteSet(Readers)
    PROVE  Spec => []NobodyPassesUnread
<1>1. MessageInv => NobodyPassesUnread
  <2> SUFFICES ASSUME MessageInv, ~NobodyPassesUnread PROVE FALSE
    OBVIOUS
  <2>1. NothingSeen
    BY DEF NobodyPassesUnread, NothingSeen
  <2>2. sem.zeros = {} /\ \A w \in Writers : pc[w] = "zero" => w \in Range(sem.takers)
    BY <2>1 DEF MessageInv, Untouched
  <2>3. QED
    BY <2>2 DEF NobodyPassesUnread, Waiting
<1>2. QED
  BY <1>1, MessageInvHolds, PTL

\* The zero a writer waits for is due: a reader has an increment that its exit
\* undoes, unless a writer was killed (task3.c:100,111-112, task4.c:48).
THEOREM ZeroIsToCome ==
    ASSUME DisjointRoles, IsFiniteSet(Readers)
    PROVE  Spec => []ZeroWillCome
<1>1. MessageInv => ZeroWillCome
  <2> SUFFICES ASSUME MessageInv, sem.zeros # {}, NobodyKilled
               PROVE  \E r \in Readers : sem.adj[r] < 0
    BY DEF ZeroWillCome, NobodyKilled
  <2>1. sem.val \in Nat /\ sem.val # 0
    BY DEF MessageInv, TypeOK, Good, SemSets, Settled
  <2>2. sem.val <= Cardinality(Increments)
    BY DEF MessageInv, ZeroIsDue
  <2>3. Increments # {}
    BY <2>1, <2>2, FS_EmptySet
  <2>4. PICK r \in Readers : sem.adj[r] = -1
    BY <2>3 DEF Increments, Increment
  <2>5. QED
    BY <2>4
<1>2. QED
  BY <1>1, MessageInvHolds, PTL

\* When all have ended in the ordinary way, the set and the segment are gone
\* (task3.c:119-123).
THEOREM MessageLeavesNothing ==
    ASSUME DisjointRoles, IsFiniteSet(Readers)
    PROVE  Spec => []NothingIsLeft
<1>1. MessageInv => NothingIsLeft
  BY DEF MessageInv, NothingIsLeft, SetHasOwner, Owner, OwnerPlaces, SegmentHasOwner, SegmentOwner
<1>2. QED
  BY <1>1, MessageInvHolds, PTL

-----------------------------------------------------------------------------
\* Each of the other programs moves by itself.

LEMMA ProgramsApart ==
    ASSUME [MCNext]_allVars
    PROVE  [Chat!Next]_(Chat!vars) /\ [File!Next]_(File!vars) /\ [Private!Next]_(Private!vars)
<1> USE DEF chatVars, fileVars, privateVars, Chat!vars, File!vars, File!writerState, Private!vars
<1>1. CASE IsMessage /\ Next
  BY <1>1 DEF IsMessage
<1>2. CASE IsChat /\ Chat!Next
  BY <1>2 DEF IsChat
<1>3. CASE IsFile /\ File!Next
  BY <1>3 DEF IsFile
<1>4. CASE IsPrivate /\ Private!Next
  BY <1>4 DEF IsPrivate
<1>5. CASE UNCHANGED allVars
  BY <1>5 DEF allVars
<1>6. QED
  BY <1>1, <1>2, <1>3, <1>4, <1>5 DEF MCNext

-----------------------------------------------------------------------------
\* PrivateSegment.

\* Once a writer has copied its text the text stays, and an identifier that is
\* known is that of such a segment, which is there while it is read.
Copied == {"printf", "shmdt", "remove", "ended", "killed"}
Segments == [status : {"none", "there", "marked"}, text : {"empty", "message"}]

PrivateInv ==
    /\ owner = [w \in Owners |-> owner[w]] /\ guest = [r \in Guests |-> guest[r]]
    /\ own_segment \in [Owners -> Segments]
    /\ shared_memory_id \in [Guests -> Owners] /\ shown \in [Guests -> {"nothing", "message"}]
    /\ \A w \in Owners : owner[w] \in Copied => own_segment[w].text = "message"
    /\ \A r \in Guests : guest[r] = "printf" =>
          /\ owner[shared_memory_id[r]] \in Copied
          /\ own_segment[shared_memory_id[r]].status # "none"

\* What a step leaves of the segments: the last detachment destroys a marked one.
LEMMA SegmentsSettle ==
    ASSUME NEW s \in [Owners -> Segments], own_segment' = Private!Settled(s)
    PROVE  /\ own_segment' \in [Owners -> Segments]
           /\ \A w \in Owners : own_segment'[w].text = s[w].text
           /\ \A w \in Owners : own_segment'[w].status # s[w].status => ~Private!Attached(w)
<1>1. ASSUME NEW w \in Owners
      PROVE  /\ own_segment'[w] \in Segments /\ own_segment'[w].text = s[w].text
             /\ own_segment'[w].status # s[w].status => ~Private!Attached(w)
  BY DEF Private!Settled, Segments
<1>2. own_segment' = [w \in Owners |-> own_segment'[w]]
  BY DEF Private!Settled
<1>3. QED
  BY <1>1, <1>2

\* A step of a writer that leaves a copied text as it is.
LEMMA PrivateWrites ==
    ASSUME PrivateInv, NEW w \in Owners, NEW from, NEW to, NEW s \in Segments,
           Private!Writes(w, from, to, s),
           from \in Copied => to \in Copied /\ (own_segment[w].status # "none" => s.status # "none"),
           to \in Copied => s.text = "message"
    PROVE  PrivateInv'
<1>1. /\ owner[w] = from /\ owner' = [owner EXCEPT ![w] = to] /\ guest' = guest
      /\ own_segment' = Private!Settled([own_segment EXCEPT ![w] = s])
      /\ UNCHANGED <<shared_memory_id, shown>>
  BY DEF Private!Writes
<1>2. [own_segment EXCEPT ![w] = s] \in [Owners -> Segments]
  BY DEF PrivateInv
<1>3. /\ own_segment' \in [Owners -> Segments]
      /\ own_segment'[w].text = s.text
      /\ \A v \in Owners \ {w} : own_segment'[v].text = own_segment[v].text
      /\ own_segment'[w].status # s.status => ~Private!Attached(w)
      /\ \A v \in Owners \ {w} :
            own_segment'[v].status # own_segment[v].status => ~Private!Attached(v)
  BY <1>1, <1>2, SegmentsSettle DEF PrivateInv
<1>4. ASSUME NEW v \in Owners, owner'[v] \in Copied PROVE own_segment'[v].text = "message"
  BY <1>1, <1>3, <1>4 DEF PrivateInv
<1>5. ASSUME NEW r \in Guests, guest'[r] = "printf"
      PROVE  /\ owner'[shared_memory_id[r]] \in Copied
             /\ own_segment'[shared_memory_id[r]].status # "none"
  <2>1. Private!Attached(shared_memory_id[r])
    BY <1>5 DEF Private!Attached
  <2>2. /\ owner[shared_memory_id[r]] \in Copied /\ shared_memory_id[r] \in Owners
        /\ own_segment[shared_memory_id[r]].status # "none"
    BY <1>1, <1>5 DEF PrivateInv
  <2>3. CASE shared_memory_id[r] = w
    BY <1>1, <1>3, <2>1, <2>2, <2>3 DEF PrivateInv
  <2>4. CASE shared_memory_id[r] # w
    BY <1>1, <1>3, <2>1, <2>2, <2>4 DEF PrivateInv
  <2>5. QED
    BY <2>3, <2>4
<1>6. QED
  BY <1>1, <1>3, <1>4, <1>5 DEF PrivateInv

\* A step of a reader, which attaches only a segment that is there.
LEMMA PrivateReads ==
    ASSUME PrivateInv, NEW r \in Guests, NEW from, NEW to, NEW t \in {"nothing", "message"},
           Private!Reads(r, from, to, t),
           to = "printf" => /\ owner[shared_memory_id[r]] \in Copied
                            /\ own_segment[shared_memory_id[r]].status # "none"
    PROVE  PrivateInv'
<1>1. /\ guest[r] = from /\ guest' = [guest EXCEPT ![r] = to] /\ owner' = owner
      /\ own_segment' = Private!Settled(own_segment) /\ shown' = [shown EXCEPT ![r] = t]
      /\ UNCHANGED shared_memory_id
  BY DEF Private!Reads
<1>2. /\ own_segment' \in [Owners -> Segments]
      /\ \A w \in Owners : own_segment'[w].text = own_segment[w].text
      /\ \A w \in Owners : own_segment'[w].status # own_segment[w].status => ~Private!Attached(w)
  BY <1>1, SegmentsSettle DEF PrivateInv
<1>3. ASSUME NEW q \in Guests, guest'[q] = "printf"
      PROVE  /\ owner'[shared_memory_id[q]] \in Copied
             /\ own_segment'[shared_memory_id[q]].status # "none"
  <2>1. Private!Attached(shared_memory_id[q])
    BY <1>3 DEF Private!Attached
  <2>2. /\ owner[shared_memory_id[q]] \in Copied /\ shared_memory_id[q] \in Owners
        /\ own_segment[shared_memory_id[q]].status # "none"
    BY <1>1, <1>3 DEF PrivateInv
  <2>3. QED
    BY <1>1, <1>2, <2>1, <2>2
<1>4. QED
  BY <1>1, <1>2, <1>3 DEF PrivateInv

LEMMA PrivateInductive == PrivateInv /\ [Private!Next]_(Private!vars) => PrivateInv'
<1> SUFFICES ASSUME PrivateInv, [Private!Next]_(Private!vars) PROVE PrivateInv'
  OBVIOUS
<1>1. ASSUME NEW w \in Owners,
             \/ Private!ShmGet(w) \/ Private!ShmAt(w) \/ Private!StrCpy(w) \/ Private!PrintId(w)
             \/ Private!ShmDt(w) \/ Private!Remove(w) \/ Private!Kill(w)
      PROVE  PrivateInv'
  <2>1. own_segment[w] \in Segments /\ (owner[w] \in Copied => own_segment[w].text = "message")
    BY DEF PrivateInv
  <2>2. /\ [status |-> "there", text |-> "empty"] \in Segments
        /\ [own_segment[w] EXCEPT !.text = "message"] \in Segments
        /\ [own_segment[w] EXCEPT !.text = "message"].text = "message"
        /\ [own_segment[w] EXCEPT !.status = "marked"] \in Segments
        /\ [own_segment[w] EXCEPT !.status = "marked"].text = own_segment[w].text
        /\ [own_segment[w] EXCEPT !.status = "marked"].status = "marked"
    BY <2>1 DEF Segments
  <2>3. CASE Private!ShmGet(w)
    BY <2>2, <2>3, PrivateWrites DEF Private!ShmGet, Copied
  <2>4. CASE Private!ShmAt(w)
    BY <2>1, <2>4, PrivateWrites DEF Private!ShmAt, Copied
  <2>5. CASE Private!StrCpy(w)
    BY <2>2, <2>5, PrivateWrites DEF Private!StrCpy, Copied
  <2>6. CASE Private!PrintId(w) \/ Private!ShmDt(w) \/ Private!Kill(w)
    <3>1. owner[w] \in Copied
      BY <2>6 DEF Private!PrintId, Private!ShmDt, Private!Kill, Private!Writes, Copied
    <3>2. QED
      BY <2>1, <2>6, <3>1, PrivateWrites DEF Private!PrintId, Private!ShmDt, Private!Kill, Copied
  <2>7. CASE Private!Remove(w)
    <3>1. owner[w] \in Copied
      BY <2>7 DEF Private!Remove, Private!Writes, Copied
    <3>2. QED
      BY <2>1, <2>2, <2>7, <3>1, PrivateWrites DEF Private!Remove, Copied
  <2>8. QED
    BY <1>1, <2>3, <2>4, <2>5, <2>6, <2>7
<1>2. ASSUME NEW r \in Guests, Private!Attach(r) PROVE PrivateInv'
  <2> DEFINE w == shared_memory_id[r]
             to == IF own_segment[w].status = "none" THEN "failed" ELSE "printf"
  <2>1. owner[w] \in Copied /\ Private!Reads(r, "start", to, "nothing")
    BY <1>2 DEF Private!Attach, Private!IdIsPrinted, Copied
  <2>2. QED
    BY <2>1, PrivateReads
<1>3. ASSUME NEW r \in Guests, Private!PrintText(r) PROVE PrivateInv'
  <2>1. Private!Reads(r, "printf", "shmdt", own_segment[shared_memory_id[r]].text)
    BY <1>3 DEF Private!PrintText
  <2>2. own_segment[shared_memory_id[r]].text = "message"
    BY <2>1 DEF Private!Reads, PrivateInv
  <2>3. QED
    BY <2>1, <2>2, PrivateReads
<1>4. ASSUME NEW r \in Guests, Private!Detach(r) PROVE PrivateInv'
  <2>1. Private!Reads(r, "shmdt", "ended", shown[r]) /\ shown[r] \in {"nothing", "message"}
    BY <1>4 DEF Private!Detach, PrivateInv
  <2>2. QED
    BY <2>1, PrivateReads
<1>5. CASE UNCHANGED Private!vars
  BY <1>5 DEF Private!vars, PrivateInv
<1>6. QED
  BY <1>1, <1>2, <1>3, <1>4, <1>5 DEF Private!Next

-----------------------------------------------------------------------------
\* ShmChat.

Parents == {"none", "fork", "attach", "fgets", "name", "rest", "exited"}
Children == {"none", "attach", "clear", "poll", "compare", "printf", "shown", "exited"}

\* Whoever may have typed the page, or nobody.
Authors == Instances \union {NoName}

ChatTypeOK ==
    /\ repeats \in Nat /\ quits \in Nat /\ text \in Authors \X Nat
    /\ parent \in [Instances -> Parents] /\ child \in [Instances -> Children]
    /\ typed \in [Instances -> Nat] /\ screen \in [Instances -> Seq(Authors \X Nat)]
    /\ \A i \in Instances : parent[i] \in {"none", "fork"} => child[i] = "none"
    /\ \A i \in Instances : parent[i] = "exited" => child[i] \in {"none", "exited"}
    /\ \A i \in Instances : child[i] \in {"none", "attach", "clear"} => screen[i] = <<>>

\* Those who came and have not left, attached already or not.
Party == {i \in Instances : parent[i] \notin {"none", "exited"}}
AtMostTwoCome == IsFiniteSet(Party) /\ Cardinality(Party) <= 2

\* The page holds the last line of its author, and a terminal shows none later.
LastOf(author) == IF author = NoName THEN 0 ELSE typed[author]
LastLine ==
    /\ text[2] = LastOf(text[1])
    /\ \A i \in Instances : \A k \in DOMAIN screen[i] : screen[i][k][2] <= LastOf(screen[i][k][1])

InOrder(i) ==
    \A j, k \in DOMAIN screen[i] :
        j < k /\ screen[i][j][1] = screen[i][k][1] =>
            screen[i][j][2] < screen[i][k][2] + (IF repeats = 0 THEN 0 ELSE 1)

\* Unless a parent repeats itself, a line is announced once, by its author, and
\* who has shown it finds no name again.
Announcing == {i \in Instances : parent[i] = "name"}
Showing == {"compare", "printf", "shown"}
ShownAt(i) == \E k \in DOMAIN screen[i] : screen[i][k] = text
AnnouncedOnce ==
    repeats = 0 =>
        /\ \A i \in Announcing : text[1] = i /\ name = NoName
        /\ Announcing # {} => \A j \in Instances : child[j] \notin Showing /\ ~ShownAt(j)
        /\ \A j \in Instances : ShownAt(j) =>
              child[j] \in {"shown", "exited"} \/ (child[j] = "poll" /\ name = NoName)

\* A terminal shows its own line only after another: a child that finds the name
\* of its own line cleared finds it cleared by a child that has shown the line,
\* because no newcomer clears the page while a line is announced.
Coming == {i \in Instances : parent[i] \in {"fork", "attach"} \/ child[i] \in {"attach", "clear"}}
ShownElsewhere(i) == \E j \in Instances \ {i} : ShownAt(j)
OwnIsShown(i, k) ==
    screen[i][k][1] = i =>
        \E j \in Instances \ {i} : \E l \in DOMAIN screen[j] : screen[j][l] = screen[i][k]
OwnAfterOthers ==
    ~torn /\ repeats = 0 =>
        /\ name # NoName => name = text[1]
        /\ Coming # {} => /\ name = NoName /\ Announcing = {}
                          /\ \A i \in Instances : child[i] \notin Showing
        /\ \A i \in Instances : child[i] = "shown" => ShownAt(i)
        /\ \A i \in Instances : child[i] = "printf" /\ text[1] = i => ShownElsewhere(i)
        /\ \A i \in Instances :
              child[i] = "compare" /\ name = NoName /\ text[1] = i => ShownElsewhere(i)
        /\ \A i \in Instances : \A k \in DOMAIN screen[i] : OwnIsShown(i, k)
        /\ \A i \in Instances : parent[i] # "rest"

ChatInv == /\ ChatTypeOK /\ AtMostTwoCome /\ LastLine /\ (\A i \in Instances : InOrder(i))
           /\ AnnouncedOnce /\ OwnAfterOthers

\* The cardinality of the chat's module is the one the lemmas are about.
LEMMA SameCardinality == \A S : Chat!Cardinality(S) = Cardinality(S)
BY DEF Chat!Cardinality, Cardinality

LEMMA ChatTypeStep ==
    ASSUME ChatTypeOK, NEW i \in Instances,
           \/ Chat!Start(i) \/ Chat!Going(i) \/ Chat!TypeLine(i) \/ Chat!EndOfInput(i)
           \/ Chat!Polling(i) \/ Chat!Quit(i)
    PROVE  ChatTypeOK'
<1> USE DEF ChatTypeOK, Parents, Children, Chat!Step
<1>1. CASE Chat!Start(i)
  BY <1>1 DEF Chat!Start
<1>2. CASE Chat!Going(i)
  BY <1>2 DEF Chat!Going, Chat!Fork, Chat!AttachParent, Chat!WriteName
<1>3. CASE Chat!TypeLine(i)
  BY <1>3 DEF Chat!TypeLine, Authors
<1>4. CASE Chat!EndOfInput(i)
  BY <1>4 DEF Chat!EndOfInput
<1>5. CASE Chat!AttachChild(i) \/ Chat!ClearPage(i) \/ Chat!Poll(i) \/ Chat!Compare(i)
         \/ Chat!Shown(i)
  BY <1>5 DEF Chat!AttachChild, Chat!ClearPage, Chat!Poll, Chat!Compare, Chat!Shown
<1>6. CASE Chat!Show(i)
  <2>1. /\ child[i] = "printf" /\ child' = [child EXCEPT ![i] = "shown"]
        /\ screen' = [screen EXCEPT ![i] = Append(screen[i], text)]
        /\ UNCHANGED <<text, parent, typed, quits, repeats>>
    BY <1>6 DEF Chat!Show
  <2>2. Append(screen[i], text) \in Seq(Authors \X Nat)
    OBVIOUS
  <2>3. QED
    BY <2>1, <2>2
<1>7. CASE Chat!Quit(i)
  BY <1>7 DEF Chat!Quit, Chat!InChat, Chat!MoreFaults
<1>8. QED
  BY <1>1, <1>2, <1>3, <1>4, <1>5, <1>6, <1>7 DEF Chat!Polling

\* Calm instances come when those who are there are attached, and find the third.
LEMMA PartyStep ==
    ASSUME ChatTypeOK, AtMostTwoCome, NEW i \in Instances,
           \/ Chat!Start(i) \/ Chat!Going(i) \/ Chat!TypeLine(i) \/ Chat!EndOfInput(i)
           \/ Chat!Polling(i) \/ Chat!Quit(i)
    PROVE  AtMostTwoCome'
<1>1. ASSUME Party' \subseteq Party PROVE AtMostTwoCome'
  <2>1. IsFiniteSet(Party') /\ Cardinality(Party') <= Cardinality(Party)
    BY <1>1, FS_Subset DEF AtMostTwoCome
  <2>2. Cardinality(Party') \in Nat /\ Cardinality(Party) \in Nat /\ Cardinality(Party) <= 2
    BY <2>1, FS_CardinalityType DEF AtMostTwoCome
  <2>3. QED
    BY <2>1, <2>2 DEF AtMostTwoCome
<1>2. CASE Chat!Start(i)
  <2>1. parent[i] = "none" /\ Chat!Quiet /\ parent \in [Instances -> Parents]
        /\ parent' = [parent EXCEPT ![i] = IF Chat!TooMany THEN "exited" ELSE "fork"]
    BY <1>2 DEF Chat!Start, Chat!Allowed, ChatTypeOK
  <2>2. CASE Chat!TooMany
    <3>1. Party' \subseteq Party
      BY <2>1, <2>2 DEF Party
    <3>2. QED
      BY <1>1, <3>1
  <2>3. CASE ~Chat!TooMany
    <3>1. Chat!InChat(parent) = Party
      BY <2>1 DEF Chat!Quiet, Chat!Ready, Chat!InChat, Party, Parents
    <3>2. Chat!InChat(child) = Party
      BY <2>1 DEF Chat!Quiet, Chat!Ready, Chat!InChat, Party, ChatTypeOK
    <3>3. Cardinality(Party) \in Nat /\ Cardinality(Party) <= 2
      BY FS_CardinalityType DEF AtMostTwoCome
    <3>4. Cardinality(Party) <= 1
      <4>1. Chat!shm_nattch = Cardinality(Party) + Cardinality(Party)
        BY <3>1, <3>2, SameCardinality DEF Chat!shm_nattch
      <4>2. QED
        BY <2>3, <3>3, <4>1 DEF Chat!TooMany
    <3>5. Party' = Party \union {i} /\ i \notin Party
      BY <2>1, <2>3 DEF Party
    <3>6. IsFiniteSet(Party') /\ Cardinality(Party') = Cardinality(Party) + 1
      BY <3>5, FS_AddElement DEF AtMostTwoCome
    <3>7. QED
      BY <3>3, <3>4, <3>6 DEF AtMostTwoCome
  <2>4. QED
    BY <2>2, <2>3
<1>3. CASE \/ Chat!Going(i) \/ Chat!TypeLine(i) \/ Chat!EndOfInput(i) \/ Chat!Polling(i)
           \/ Chat!Quit(i)
  <2>1. Party' \subseteq Party
    BY <1>3 DEF Chat!Going, Chat!Fork, Chat!AttachParent, Chat!WriteName, Chat!TypeLine,
       Chat!EndOfInput, Chat!Polling, Chat!AttachChild, Chat!ClearPage, Chat!Poll, Chat!Compare, Chat!Show,
       Chat!Shown, Chat!Quit, Chat!InChat, Chat!Step, Party, ChatTypeOK
  <2>2. QED
    BY <1>1, <2>1
<1>4. QED
  BY <1>2, <1>3

\* A line typed is later than those shown, and the page is shown as it is.
LEMMA LinesStep ==
    ASSUME ChatTypeOK, LastLine, \A v \in Instances : InOrder(v), AnnouncedOnce,
           NEW i \in Instances,
           \/ Chat!Start(i) \/ Chat!Going(i) \/ Chat!TypeLine(i) \/ Chat!EndOfInput(i)
           \/ Chat!Polling(i) \/ Chat!Quit(i)
    PROVE  LastLine' /\ \A v \in Instances : InOrder(v)'
<1>1. /\ repeats \in Nat /\ text \in Authors \X Nat /\ typed \in [Instances -> Nat]
      /\ \A v \in Instances : screen[v] \in Seq(Authors \X Nat)
      /\ screen = [v \in Instances |-> screen[v]]
  BY DEF ChatTypeOK
<1>2. CASE UNCHANGED <<text, typed, screen, repeats>>
  BY <1>2 DEF LastLine, LastOf, InOrder
<1>3. CASE Chat!TypeLine(i)
  <2>1. /\ typed' = [typed EXCEPT ![i] = typed[i] + 1] /\ text' = <<i, typed[i] + 1>>
        /\ UNCHANGED <<screen, repeats>>
    BY <1>3 DEF Chat!TypeLine
  <2>2. \A a \in Authors : LastOf(a) \in Nat /\ LastOf(a)' >= LastOf(a)
    BY <1>1, <2>1 DEF LastOf, Authors
  <2>3. text'[2] = LastOf(text[1])'
    BY <1>1, <2>1, SharedMemoryAssumption DEF LastOf
  <2>4. ASSUME NEW v \in Instances, NEW k \in DOMAIN screen[v]
        PROVE  screen[v][k][2] <= LastOf(screen[v][k][1])'
    <3>1. screen[v][k] \in Authors \X Nat
      BY <1>1
    <3>2. screen[v][k][1] \in Authors /\ screen[v][k][2] \in Nat
      BY <3>1
    <3>3. screen[v][k][2] <= LastOf(screen[v][k][1])
      BY DEF LastLine
    <3>4. LastOf(screen[v][k][1]) \in Nat
      BY <2>2, <3>2
    <3>5. LastOf(screen[v][k][1])' \in Nat /\ LastOf(screen[v][k][1])' >= LastOf(screen[v][k][1])
      BY <1>1, <2>1, <3>2 DEF LastOf, Authors
    <3>6. QED
      BY <3>2, <3>3, <3>4, <3>5
  <2>5. LastLine'
    BY <2>1, <2>3, <2>4 DEF LastLine, LastOf
  <2>6. QED
    BY <2>1, <2>5 DEF InOrder
<1>4. CASE Chat!EndOfInput(i)
  <2>1. repeats' = repeats + 1 /\ UNCHANGED <<text, typed, screen>>
    BY <1>4 DEF Chat!EndOfInput
  <2>2. ASSUME NEW v \in Instances PROVE InOrder(v)'
    <3> SUFFICES ASSUME NEW j \in DOMAIN screen[v], NEW k \in DOMAIN screen[v], j < k,
                        screen[v][j][1] = screen[v][k][1]
                 PROVE  screen[v][j][2] < screen[v][k][2] + 1
      BY <1>1, <2>1 DEF InOrder
    <3>1. screen[v][j] \in Authors \X Nat /\ screen[v][k] \in Authors \X Nat
      BY <1>1
    <3>2. screen[v][j][2] \in Nat /\ screen[v][k][2] \in Nat
      BY <3>1
    <3>3. screen[v][j][2] < screen[v][k][2] + (IF repeats = 0 THEN 0 ELSE 1)
      BY DEF InOrder
    <3>4. QED
      BY <3>2, <3>3
  <2>3. QED
    BY <2>1, <2>2 DEF LastLine, LastOf
<1>5. CASE Chat!Show(i)
  <2> DEFINE old == screen[i]
  <2>1. /\ child[i] = "printf" /\ screen' = [screen EXCEPT ![i] = Append(old, text)]
        /\ UNCHANGED <<text, typed, repeats>>
    BY <1>5 DEF Chat!Show, Chat!Step
  <2>2. /\ old \in Seq(Authors \X Nat) /\ Len(old) \in Nat /\ DOMAIN old = 1..Len(old)
        /\ screen'[i] = Append(old, text) /\ DOMAIN screen'[i] = 1..(Len(old) + 1)
        /\ \A k \in DOMAIN old : screen'[i][k] = old[k]
        /\ screen'[i][Len(old) + 1] = text
    BY <1>1, <2>1
  <2>3. \A v \in Instances \ {i} : screen'[v] = screen[v]
    BY <1>1, <2>1
  <2>4. ASSUME NEW v \in Instances, NEW k \in DOMAIN screen'[v]
        PROVE  screen'[v][k][2] <= LastOf(screen'[v][k][1])
    <3>1. screen'[v][k] = text \/ (k \in DOMAIN screen[v] /\ screen'[v][k] = screen[v][k])
      BY <2>2, <2>3
    <3>2. text[2] <= LastOf(text[1])
      <4>1. text[2] \in Nat
        BY <1>1
      <4>2. text[2] = LastOf(text[1])
        BY DEF LastLine
      <4>3. QED
        BY <4>1, <4>2
    <3>3. QED
      BY <3>1, <3>2 DEF LastLine
  <2>5. LastLine'
    <3>1. \A a : LastOf(a)' = LastOf(a)
      BY <2>1 DEF LastOf
    <3>2. QED
      BY <2>1, <2>4, <3>1 DEF LastLine
  <2>6. ASSUME NEW j \in DOMAIN old, old[j][1] = text[1]
        PROVE  old[j][2] < text[2] + (IF repeats = 0 THEN 0 ELSE 1)
    <3>1. old[j] \in Authors \X Nat
      BY <2>2
    <3>2. old[j][2] \in Nat /\ text[2] \in Nat /\ old[j][2] <= text[2]
      BY <1>1, <2>6, <3>1 DEF LastLine
    <3>3. ASSUME repeats = 0 PROVE old[j][2] # text[2]
      <4>1. SUFFICES ASSUME old[j][2] = text[2] PROVE FALSE
        OBVIOUS
      <4>2. old[j] = text
        BY <1>1, <2>6, <3>1, <4>1
      <4>3. ShownAt(i)
        BY <4>2 DEF ShownAt
      <4>4. QED
        BY <2>1, <3>3, <4>3 DEF AnnouncedOnce
    <3>4. QED
      BY <1>1, <3>2, <3>3
  <2>7. InOrder(i)'
    <3> SUFFICES ASSUME NEW j \in DOMAIN screen'[i], NEW k \in DOMAIN screen'[i], j < k,
                        screen'[i][j][1] = screen'[i][k][1]
                 PROVE  screen'[i][j][2] < screen'[i][k][2] + (IF repeats = 0 THEN 0 ELSE 1)
      BY <2>1 DEF InOrder
    <3>1. j \in DOMAIN old
      BY <2>2
    <3>2. CASE k = Len(old) + 1
      BY <2>2, <2>6, <3>1, <3>2
    <3>3. CASE k \in DOMAIN old
      BY <2>2, <3>1, <3>3 DEF InOrder
    <3>4. QED
      BY <2>2, <3>2, <3>3
  <2>8. ASSUME NEW v \in Instances \ {i} PROVE InOrder(v)'
    BY <2>1, <2>3 DEF InOrder
  <2>9. QED
    BY <2>5, <2>7, <2>8
<1>6. CASE \/ Chat!Start(i) \/ Chat!Going(i) \/ Chat!Quit(i) \/ Chat!AttachChild(i)
           \/ Chat!ClearPage(i) \/ Chat!Poll(i) \/ Chat!Compare(i) \/ Chat!Shown(i)
  <2>1. UNCHANGED <<text, typed, screen, repeats>>
    BY <1>6 DEF Chat!Start, Chat!Going, Chat!Fork, Chat!AttachParent, Chat!WriteName, Chat!Quit,
       Chat!AttachChild, Chat!ClearPage, Chat!Poll, Chat!Compare, Chat!Shown
  <2>2. QED
    BY <1>2, <2>1
<1>7. QED
  BY <1>3, <1>4, <1>5, <1>6 DEF Chat!Polling

\* A line is announced when nobody is about to show the one before, by its
\* author, and the name is cleared by whoever showed it.
LEMMA AnnouncedStep ==
    ASSUME ChatTypeOK, LastLine, AnnouncedOnce, NEW i \in Instances,
           \/ Chat!Start(i) \/ Chat!Going(i) \/ Chat!TypeLine(i) \/ Chat!EndOfInput(i)
           \/ Chat!Polling(i) \/ Chat!Quit(i)
    PROVE  AnnouncedOnce'
<1>1. /\ parent \in [Instances -> Parents] /\ child \in [Instances -> Children]
      /\ text \in Authors \X Nat /\ typed \in [Instances -> Nat] /\ repeats \in Nat
      /\ screen \in [Instances -> Seq(Authors \X Nat)]
      /\ \A v \in Instances : child[v] \in {"none", "attach", "clear"} => screen[v] = <<>>
  BY DEF ChatTypeOK
<1>2. CASE Chat!EndOfInput(i)
  <2>1. repeats' # 0
    BY <1>1, <1>2 DEF Chat!EndOfInput
  <2>2. QED
    BY <2>1 DEF AnnouncedOnce
<1>3. SUFFICES ASSUME ~Chat!EndOfInput(i), repeats = 0, repeats' = 0 PROVE AnnouncedOnce'
  <2>1. repeats' = repeats \/ Chat!EndOfInput(i)
    BY DEF Chat!Start, Chat!Going, Chat!Fork, Chat!AttachParent, Chat!WriteName, Chat!TypeLine,
       Chat!Polling, Chat!AttachChild, Chat!ClearPage, Chat!Poll, Chat!Compare, Chat!Show, Chat!Shown, Chat!Quit
  <2>2. QED
    BY <1>2, <2>1 DEF AnnouncedOnce
<1>4. /\ \A v \in Announcing : text[1] = v /\ name = NoName
      /\ Announcing # {} => \A v \in Instances : child[v] \notin Showing /\ ~ShownAt(v)
      /\ \A v \in Instances : ShownAt(v) =>
            child[v] \in {"shown", "exited"} \/ (child[v] = "poll" /\ name = NoName)
  BY <1>3 DEF AnnouncedOnce
\* Nobody announces, and nothing is shown, that was not before.
<1>5. ASSUME Announcing' \subseteq Announcing, UNCHANGED <<text, screen>>,
             Announcing' # {} => name' = name /\ \A v \in Instances :
                child'[v] \in Showing => child[v] \in Showing,
             \A v \in Instances : ShownAt(v) =>
                child'[v] \in {"shown", "exited"} \/ (child'[v] = "poll" /\ name' = NoName)
      PROVE  AnnouncedOnce'
  <2>1. \A v \in Instances : ShownAt(v)' <=> ShownAt(v)
    BY <1>5 DEF ShownAt
  <2>2. QED
    BY <1>4, <1>5, <2>1 DEF AnnouncedOnce
<1>6. CASE Chat!Start(i) \/ Chat!Quit(i) \/ Chat!AttachParent(i)
  <2>1. /\ Announcing' \subseteq Announcing /\ UNCHANGED <<name, text, screen>>
        /\ \A v \in Instances : child'[v] \in {child[v], "exited"}
    BY <1>1, <1>6 DEF Announcing, Chat!Start, Chat!Quit, Chat!AttachParent, Chat!Step
  <2>2. QED
    BY <1>4, <1>5, <2>1 DEF Showing
<1>7. CASE Chat!Fork(i)
  <2>1. /\ Announcing' \subseteq Announcing /\ UNCHANGED <<name, text, screen>>
        /\ \A v \in Instances : child'[v] \in {child[v], "attach"} /\ (v # i => child'[v] = child[v])
        /\ screen[i] = <<>>
    BY <1>1, <1>7 DEF Announcing, Chat!Fork, ChatTypeOK
  <2>2. ~ShownAt(i)
    BY <2>1 DEF ShownAt
  <2>3. QED
    BY <1>4, <1>5, <2>1, <2>2 DEF Showing
<1>8. CASE Chat!WriteName(i)
  <2>1. /\ UNCHANGED <<text, child, screen>> /\ Announcing' \subseteq Announcing
        /\ \/ parent[i] = "name" /\ Announcing' = Announcing \ {i}
           \/ parent[i] = "rest" /\ Announcing' = Announcing /\ (name = NoName => name' = NoName)
    BY <1>1, <1>8 DEF Announcing, Chat!WriteName, Chat!Step
  <2>2. CASE parent[i] = "name"
    <3>1. i \in Announcing /\ \A v \in Announcing : v = i
      BY <1>4, <2>2 DEF Announcing
    <3>2. Announcing' = {}
      BY <2>1, <2>2, <3>1
    <3>3. \A v \in Instances : ~ShownAt(v)
      BY <1>4, <3>1
    <3>4. QED
      BY <1>5, <2>1, <3>2, <3>3
  <2>3. CASE parent[i] = "rest"
    <3>1. Announcing' = Announcing /\ (name = NoName => name' = NoName)
      BY <2>1, <2>3
    <3>2. Announcing # {} => name = NoName
      BY <1>4
    <3>3. QED
      BY <1>4, <1>5, <2>1, <3>1, <3>2
  <2>4. QED
    BY <2>1, <2>2, <2>3
<1>9. CASE Chat!TypeLine(i)
  <2>1. /\ Chat!Quiet /\ parent' = [parent EXCEPT ![i] = "name"] /\ text' = <<i, typed[i] + 1>>
        /\ UNCHANGED <<name, child, screen>>
    BY <1>9 DEF Chat!TypeLine, Chat!Allowed, Chat!Step
  <2>2. Announcing' = {i}
    BY <1>1, <2>1 DEF Announcing, Chat!Quiet, Chat!Ready
  <2>3. name' = NoName /\ \A v \in Instances : child'[v] \notin Showing
    BY <2>1 DEF Chat!Quiet, Chat!Ready, ChatTypeOK, Showing
  <2>4. ASSUME NEW v \in Instances PROVE ~ShownAt(v)'
    <3>1. SUFFICES ASSUME NEW k \in DOMAIN screen[v], screen[v][k] = <<i, typed[i] + 1>>
                   PROVE  FALSE
      BY <2>1 DEF ShownAt
    <3>2. screen[v][k][2] <= LastOf(screen[v][k][1])
      BY DEF LastLine
    <3>3. typed[i] \in Nat /\ typed[i] + 1 <= typed[i]
      BY <1>1, <3>1, <3>2, SharedMemoryAssumption DEF LastOf
    <3>4. QED
      BY <3>3
  <2>5. text'[1] = i
    BY <2>1
  <2>6. QED
    BY <2>2, <2>3, <2>4, <2>5 DEF AnnouncedOnce
<1>10. CASE Chat!AttachChild(i) \/ Chat!ClearPage(i)
  <2>1. /\ UNCHANGED <<text, parent, screen>> /\ name' \in {name, NoName} /\ screen[i] = <<>>
        /\ \A v \in Instances : v # i => child'[v] = child[v]
        /\ child'[i] \in {"clear", "poll"}
    BY <1>1, <1>10 DEF Chat!AttachChild, Chat!ClearPage, Chat!Step
  <2>2. ~ShownAt(i) /\ Announcing' = Announcing
    BY <2>1 DEF ShownAt, Announcing
  <2>3. Announcing # {} => name' = name
    BY <1>4, <2>1
  <2>4. \A v \in Instances : child'[v] \in Showing => child[v] \in Showing
    BY <2>1 DEF Showing
  <2>5. \A v \in Instances : ShownAt(v) =>
           child'[v] \in {"shown", "exited"} \/ (child'[v] = "poll" /\ name' = NoName)
    BY <1>4, <2>1, <2>2
  <2>6. QED
    BY <1>5, <2>1, <2>2, <2>3, <2>4, <2>5
<1>11. CASE Chat!Poll(i) \/ Chat!Compare(i)
  <2>1. /\ UNCHANGED <<name, text, parent, screen>>
        /\ (child[i] = "poll" /\ name # NoName) \/ child[i] = "compare"
        /\ \A v \in Instances : v # i => child'[v] = child[v]
    BY <1>1, <1>11 DEF Chat!Poll, Chat!Compare, Chat!Step
  <2>2. ~ShownAt(i) /\ Announcing = {} /\ Announcing' = Announcing
    BY <1>4, <2>1 DEF Announcing, Showing
  <2>3. QED
    BY <1>4, <1>5, <2>1, <2>2
<1>12. CASE Chat!Show(i)
  <2>1. /\ UNCHANGED <<name, text, parent>> /\ child[i] = "printf"
        /\ child' = [child EXCEPT ![i] = "shown"]
        /\ \A v \in Instances : v # i => screen'[v] = screen[v]
    BY <1>1, <1>12 DEF Chat!Show, Chat!Step
  <2>2. Announcing' = {}
    BY <1>4, <2>1 DEF Announcing, Showing
  <2>3. \A v \in Instances \ {i} : child'[v] = child[v] /\ (ShownAt(v)' <=> ShownAt(v))
    BY <1>1, <2>1 DEF ShownAt
  <2>4. child'[i] = "shown"
    BY <1>1, <2>1
  <2>5. ASSUME NEW v \in Instances, ShownAt(v)'
        PROVE  child'[v] \in {"shown", "exited"} \/ (child'[v] = "poll" /\ name' = NoName)
    BY <1>4, <2>1, <2>3, <2>4, <2>5
  <2>6. QED
    BY <2>2, <2>5 DEF AnnouncedOnce
<1>13. CASE Chat!Shown(i)
  <2>1. /\ UNCHANGED <<text, parent, screen>> /\ name' = NoName /\ child[i] = "shown"
        /\ child' = [child EXCEPT ![i] = "poll"]
    BY <1>1, <1>13 DEF Chat!Shown, Chat!AfterShown, Chat!Step
  <2>2. Announcing = {} /\ Announcing' = Announcing
    BY <1>4, <2>1 DEF Announcing, Showing
  <2>3. \A v \in Instances : v # i => child'[v] = child[v]
    BY <1>1, <2>1
  <2>4. child'[i] = "poll"
    BY <1>1, <2>1
  <2>5. QED
    BY <1>4, <1>5, <2>1, <2>2, <2>3, <2>4
<1>14. QED
  BY <1>3, <1>6, <1>7, <1>8, <1>9, <1>10, <1>11, <1>12, <1>13 DEF Chat!Going, Chat!Polling

LEMMA OwnAfterOthersStep ==
    ASSUME ChatTypeOK, AnnouncedOnce, OwnAfterOthers, NEW i \in Instances,
           \/ Chat!Start(i) \/ Chat!Going(i) \/ Chat!TypeLine(i) \/ Chat!EndOfInput(i)
           \/ Chat!Polling(i) \/ Chat!Quit(i)
    PROVE  OwnAfterOthers'
<1>1. /\ parent \in [Instances -> Parents] /\ child \in [Instances -> Children]
      /\ repeats \in Nat /\ screen \in [Instances -> Seq(Authors \X Nat)]
      /\ text \in Authors \X Nat
  BY DEF ChatTypeOK
<1>2. torn' = torn /\ (repeats' = 0 => repeats = 0 /\ ~Chat!EndOfInput(i))
  BY <1>1 DEF Chat!Start, Chat!Going, Chat!Fork, Chat!AttachParent, Chat!WriteName, Chat!TypeLine,
     Chat!EndOfInput, Chat!Polling, Chat!AttachChild, Chat!ClearPage, Chat!Poll, Chat!Compare,
     Chat!Show, Chat!Shown, Chat!Quit
<1>3. SUFFICES ASSUME ~torn, repeats = 0, ~Chat!EndOfInput(i) PROVE OwnAfterOthers'
  BY <1>2 DEF OwnAfterOthers
<1>4. /\ name # NoName => name = text[1]
      /\ Coming # {} => /\ name = NoName /\ Announcing = {}
                        /\ \A v \in Instances : child[v] \notin Showing
      /\ \A v \in Instances : child[v] = "shown" => ShownAt(v)
      /\ \A v \in Instances : child[v] = "printf" /\ text[1] = v => ShownElsewhere(v)
      /\ \A v \in Instances :
            child[v] = "compare" /\ name = NoName /\ text[1] = v => ShownElsewhere(v)
      /\ \A v \in Instances : \A k \in DOMAIN screen[v] : OwnIsShown(v, k)
      /\ \A v \in Instances : parent[v] # "rest"
  BY <1>3 DEF OwnAfterOthers
\* Nobody comes, announces or shows that did not before, and the name stays.
<1>5. ASSUME UNCHANGED <<text, screen>>, name' = name, Coming' \subseteq Coming,
             Announcing' \subseteq Announcing,
             \A v \in Instances : child'[v] \in Showing => child'[v] = child[v],
             \A v \in Instances : parent'[v] = "rest" => parent[v] = "rest"
      PROVE  OwnAfterOthers'
  <2>1. \A v \in Instances : (ShownAt(v)' <=> ShownAt(v)) /\ (ShownElsewhere(v)' <=> ShownElsewhere(v))
    BY <1>5 DEF ShownAt, ShownElsewhere
  <2>2. \A v \in Instances : \A k \in DOMAIN screen'[v] : OwnIsShown(v, k)'
    BY <1>4, <1>5 DEF OwnIsShown
  <2>3. Coming' # {} => /\ name' = NoName /\ Announcing' = {}
                        /\ \A v \in Instances : child'[v] \notin Showing
    BY <1>4, <1>5
  <2>4. /\ \A v \in Instances : child'[v] = "shown" => child[v] = "shown"
        /\ \A v \in Instances : child'[v] = "printf" => child[v] = "printf"
        /\ \A v \in Instances : child'[v] = "compare" => child[v] = "compare"
    BY <1>5 DEF Showing
  <2>5. QED
    BY <1>4, <1>5, <2>1, <2>2, <2>3, <2>4 DEF OwnAfterOthers
<1>6. CASE Chat!Fork(i) \/ Chat!AttachParent(i) \/ Chat!AttachChild(i) \/ Chat!ClearPage(i)
           \/ Chat!Quit(i)
  <2>1. /\ UNCHANGED <<text, screen>>
        /\ Chat!ClearPage(i) \/ name' = name
        /\ Chat!ClearPage(i) => i \in Coming /\ name' = NoName
        /\ \A v \in Instances : child'[v] \in Showing => child'[v] = child[v]
        /\ \A v \in Instances : parent'[v] \in {"rest", "name"} => parent'[v] = parent[v]
    BY <1>1, <1>6 DEF Chat!Fork, Chat!AttachParent, Chat!AttachChild, Chat!ClearPage, Chat!Quit,
       Chat!Step, Coming, Showing
  <2>2. Coming' \subseteq Coming
    BY <1>1, <1>6 DEF Chat!Fork, Chat!AttachParent, Chat!AttachChild, Chat!ClearPage, Chat!Quit,
       Chat!Step, Coming
  <2>3. Announcing' \subseteq Announcing
    BY <2>1 DEF Announcing
  <2>4. name' = name
    BY <1>4, <2>1
  <2>5. QED
    BY <1>5, <2>1, <2>2, <2>3, <2>4
\* Nobody is on the way when somebody starts or types.
<1>7. CASE Chat!Start(i) \/ Chat!TypeLine(i)
  <2>1. Chat!Quiet /\ UNCHANGED <<name, child, screen>>
    BY <1>7 DEF Chat!Start, Chat!TypeLine, Chat!Allowed
  <2>2. /\ name = NoName
        /\ \A v \in Instances : child[v] \notin Showing /\ child[v] \notin {"attach", "clear"}
        /\ \A v \in Instances : parent[v] \notin {"fork", "attach", "name"}
    BY <2>1 DEF Chat!Quiet, Chat!Ready, ChatTypeOK, Showing
  <2>3. /\ Chat!TypeLine(i) => parent' = [parent EXCEPT ![i] = "name"]
        /\ Chat!Start(i) => parent' = [parent EXCEPT ![i] = IF Chat!TooMany THEN "exited" ELSE "fork"]
    BY DEF Chat!Start, Chat!TypeLine, Chat!Step
  <2>4. /\ \A v \in Instances : parent'[v] # "rest"
        /\ Chat!TypeLine(i) => Coming' = {}
        /\ Chat!Start(i) => Announcing' = {}
    BY <1>1, <1>4, <1>7, <2>1, <2>2, <2>3 DEF Coming, Announcing
  <2>5. \A v \in Instances : \A k \in DOMAIN screen'[v] : OwnIsShown(v, k)'
    BY <1>4, <2>1 DEF OwnIsShown
  <2>6. QED
    BY <1>7, <2>1, <2>2, <2>4, <2>5 DEF OwnAfterOthers, Showing
<1>8. CASE Chat!WriteName(i)
  <2>1. /\ parent[i] = "name" /\ name' = i /\ parent' = [parent EXCEPT ![i] = "fgets"]
        /\ UNCHANGED <<text, child, screen>>
    BY <1>3, <1>4, <1>8 DEF Chat!WriteName, Chat!Step
  <2>2. text[1] = i /\ i \in Announcing
    BY <1>3, <2>1 DEF AnnouncedOnce, Announcing
  <2>3. Coming = {} /\ name' # NoName
    BY <1>4, <2>1, <2>2, SharedMemoryAssumption
  <2>4. Coming' = {} /\ \A v \in Instances : parent'[v] # "rest"
    BY <1>1, <1>4, <2>1, <2>3 DEF Coming
  <2>5. \A v \in Instances : (ShownAt(v)' <=> ShownAt(v)) /\ (ShownElsewhere(v)' <=> ShownElsewhere(v))
    BY <2>1 DEF ShownAt, ShownElsewhere
  <2>6. \A v \in Instances : \A k \in DOMAIN screen'[v] : OwnIsShown(v, k)'
    BY <1>4, <2>1 DEF OwnIsShown
  <2>7. QED
    BY <1>4, <2>1, <2>2, <2>3, <2>4, <2>5, <2>6 DEF OwnAfterOthers
\* A child is on its way to show its own line only if it found the name cleared.
<1>9. CASE Chat!Poll(i) \/ Chat!Compare(i)
  <2>1. /\ UNCHANGED <<name, text, parent, screen>>
        /\ \A v \in Instances : v # i => child'[v] = child[v]
        /\ \/ Chat!Poll(i) /\ name # NoName /\ child'[i] = "compare"
           \/ Chat!Compare(i) /\ child[i] = "compare" /\ name # i /\ child'[i] = "printf"
           \/ Chat!Compare(i) /\ child[i] = "compare" /\ child'[i] = "poll"
    BY <1>1, <1>9 DEF Chat!Poll, Chat!Compare, Chat!IsForMe, Chat!Step
  <2>2. Coming = {} /\ Coming' = {}
    <3>1. Coming = {}
      BY <1>4, <2>1 DEF Showing
    <3>2. \A v \in Instances : child'[v] \in {"attach", "clear"} => child[v] \in {"attach", "clear"}
      BY <2>1
    <3>3. QED
      BY <2>1, <3>1, <3>2 DEF Coming
  <2>3. \A v \in Instances : (ShownAt(v)' <=> ShownAt(v)) /\ (ShownElsewhere(v)' <=> ShownElsewhere(v))
    BY <2>1 DEF ShownAt, ShownElsewhere
  <2>4. \A v \in Instances : \A k \in DOMAIN screen'[v] : OwnIsShown(v, k)'
    BY <1>4, <2>1 DEF OwnIsShown
  <2>5. child'[i] = "printf" /\ text[1] = i => ShownElsewhere(i)
    BY <1>4, <2>1
  <2>6. child'[i] # "shown" /\ (child'[i] = "compare" => name # NoName)
    BY <2>1
  <2>7. QED
    BY <1>4, <2>1, <2>2, <2>3, <2>4, <2>5, <2>6 DEF OwnAfterOthers
<1>10. CASE Chat!Show(i)
  <2>1. /\ child[i] = "printf" /\ child' = [child EXCEPT ![i] = "shown"]
        /\ screen' = [screen EXCEPT ![i] = Append(screen[i], text)]
        /\ UNCHANGED <<name, text, parent>>
    BY <1>10 DEF Chat!Show, Chat!Step
  <2>2. /\ \A v \in Instances : v # i => child'[v] = child[v] /\ screen'[v] = screen[v]
        /\ child'[i] = "shown"
        /\ Len(screen[i]) + 1 \in DOMAIN screen'[i] /\ screen'[i][Len(screen[i]) + 1] = text
        /\ \A k \in DOMAIN screen[i] : k \in DOMAIN screen'[i] /\ screen'[i][k] = screen[i][k]
        /\ \A k \in DOMAIN screen'[i] : k \in DOMAIN screen[i] \/ screen'[i][k] = text
    BY <1>1, <2>1
  <2>3. Coming = {} /\ Coming' = {}
    <3>1. Coming = {}
      BY <1>4, <2>1 DEF Showing
    <3>2. \A v \in Instances : child'[v] \in {"attach", "clear"} => child[v] \in {"attach", "clear"}
      BY <2>2
    <3>3. QED
      BY <2>1, <3>1, <3>2 DEF Coming
  <2>4. /\ ShownAt(i)' /\ \A v \in Instances : ShownAt(v) => ShownAt(v)'
        /\ \A v \in Instances : ShownElsewhere(v) => ShownElsewhere(v)'
    <3>1. ShownAt(i)' /\ \A v \in Instances : ShownAt(v) => ShownAt(v)'
      BY <2>1, <2>2 DEF ShownAt
    <3>2. QED
      BY <3>1 DEF ShownElsewhere
  <2>5. ASSUME NEW v \in Instances, NEW k \in DOMAIN screen'[v] PROVE OwnIsShown(v, k)'
    <3>1. CASE k \in DOMAIN screen[v] /\ screen'[v][k] = screen[v][k]
      <4>1. \A j \in Instances : \A l \in DOMAIN screen[j] :
               l \in DOMAIN screen'[j] /\ screen'[j][l] = screen[j][l]
        BY <2>2
      <4>2. OwnIsShown(v, k)
        BY <1>4, <3>1
      <4>3. QED
        BY <3>1, <4>1, <4>2 DEF OwnIsShown
    <3>2. CASE v = i /\ screen'[v][k] = text
      <4>1. text[1] = i => \E j \in Instances \ {i} : \E l \in DOMAIN screen'[j] : screen'[j][l] = text
        BY <1>4, <2>1, <2>2 DEF ShownElsewhere, ShownAt
      <4>2. QED
        BY <3>2, <4>1 DEF OwnIsShown
    <3>3. QED
      BY <2>2, <3>1, <3>2
  <2>6. QED
    BY <1>4, <2>1, <2>2, <2>3, <2>4, <2>5 DEF OwnAfterOthers
<1>11. CASE Chat!Shown(i)
  <2>1. /\ child[i] = "shown" /\ name' = NoName /\ child' = [child EXCEPT ![i] = "poll"]
        /\ UNCHANGED <<text, parent, screen>>
    BY <1>11 DEF Chat!Shown, Chat!AfterShown, Chat!Step
  <2>2. child'[i] = "poll" /\ \A v \in Instances : v # i => child'[v] = child[v]
    BY <1>1, <2>1
  <2>3. Coming = {} /\ Coming' = {}
    <3>1. Coming = {}
      BY <1>4, <2>1 DEF Showing
    <3>2. \A v \in Instances : child'[v] \in {"attach", "clear"} => child[v] \in {"attach", "clear"}
      BY <2>2
    <3>3. QED
      BY <2>1, <3>1, <3>2 DEF Coming
  <2>4. \A v \in Instances : (ShownAt(v)' <=> ShownAt(v)) /\ (ShownElsewhere(v)' <=> ShownElsewhere(v))
    BY <2>1 DEF ShownAt, ShownElsewhere
  <2>5. \A v \in Instances \ {i} : ShownElsewhere(v)
    BY <1>4, <2>1 DEF ShownElsewhere
  <2>6. \A v \in Instances : \A k \in DOMAIN screen'[v] : OwnIsShown(v, k)'
    BY <1>4, <2>1 DEF OwnIsShown
  <2>7. QED
    BY <1>4, <2>1, <2>2, <2>3, <2>4, <2>5, <2>6 DEF OwnAfterOthers
<1>12. QED
  BY <1>3, <1>6, <1>7, <1>8, <1>9, <1>10, <1>11 DEF Chat!Going, Chat!Polling

LEMMA ChatInductive == ChatInv /\ [Chat!Next]_(Chat!vars) => ChatInv'
<1> SUFFICES ASSUME ChatInv, [Chat!Next]_(Chat!vars) PROVE ChatInv'
  OBVIOUS
<1>1. CASE Chat!Next
  <2>1. PICK i \in Instances : \/ Chat!Start(i) \/ Chat!Going(i) \/ Chat!TypeLine(i)
                               \/ Chat!EndOfInput(i) \/ Chat!Polling(i) \/ Chat!Quit(i)
    BY <1>1 DEF Chat!Next
  <2>2. ChatTypeOK /\ AtMostTwoCome /\ LastLine /\ (\A v \in Instances : InOrder(v))
        /\ AnnouncedOnce /\ OwnAfterOthers
    BY DEF ChatInv
  <2>3. ChatTypeOK' /\ AtMostTwoCome'
    BY <2>1, <2>2, ChatTypeStep, PartyStep
  <2>4. LastLine' /\ \A v \in Instances : InOrder(v)'
    BY <2>1, <2>2, LinesStep
  <2>5. AnnouncedOnce' /\ OwnAfterOthers'
    BY <2>1, <2>2, AnnouncedStep, OwnAfterOthersStep
  <2>6. QED
    BY <2>3, <2>4, <2>5 DEF ChatInv
<1>2. CASE UNCHANGED Chat!vars
  BY <1>2 DEF Chat!vars, ChatInv, ChatTypeOK, AtMostTwoCome, Party, LastLine, LastOf, InOrder,
     AnnouncedOnce, Announcing, ShownAt, OwnAfterOthers, Coming, ShownElsewhere, OwnIsShown
<1>3. QED
  BY <1>1, <1>2

\* Of instances that come one after the other two at most are in the chat, and
\* each shows the lines of the other once, in the order they were typed, and its
\* own, if at all, after the other
\* (task5.c:61-64,79-83,93-95).
THEOREM ChatStaysOneOnOne == MCSpec => []ChatIsOneOnOne
<1>1. MCInit => ChatInv
  <2> SUFFICES ASSUME Chat!Init PROVE ChatInv
    BY DEF MCInit
  <2>1. /\ name = NoName /\ text = <<NoName, 0>> /\ repeats = 0 /\ quits = 0
        /\ parent = [i \in Instances |-> "none"] /\ child = [i \in Instances |-> "none"]
        /\ typed = [i \in Instances |-> 0] /\ screen = [i \in Instances |-> <<>>]
    BY DEF Chat!Init
  <2>2. ChatTypeOK
    <3>1. screen \in [Instances -> Seq(Authors \X Nat)]
      BY <2>1
    <3>2. QED
      BY <2>1, <3>1 DEF ChatTypeOK, Authors, Parents, Children
  <2>3. Party = {}
    BY <2>1 DEF Party
  <2>4. AtMostTwoCome
    BY <2>3, FS_EmptySet DEF AtMostTwoCome
  <2>5. LastLine /\ (\A i \in Instances : InOrder(i)) /\ AnnouncedOnce /\ OwnAfterOthers
    BY <2>1 DEF LastLine, LastOf, InOrder, AnnouncedOnce, Announcing, ShownAt,
       OwnAfterOthers, Coming, OwnIsShown, Showing
  <2>6. QED
    BY <2>2, <2>4, <2>5 DEF ChatInv
<1>2. ChatInv /\ [MCNext]_allVars => ChatInv'
  BY ProgramsApart, ChatInductive
<1>3. ChatInv => ChatIsOneOnOne
  <2> SUFFICES ASSUME ChatInv PROVE ChatIsOneOnOne
    OBVIOUS
  <2>1. Chat!InChat(parent) \subseteq Party
    BY DEF Chat!InChat, Party
  <2>2. IsFiniteSet(Party) /\ Cardinality(Party) <= 2
    BY DEF ChatInv, AtMostTwoCome
  <2>3. /\ IsFiniteSet(Chat!InChat(parent))
        /\ Cardinality(Chat!InChat(parent)) <= Cardinality(Party)
    BY <2>1, <2>2, FS_Subset
  <2>4. Cardinality(Chat!InChat(parent)) \in Nat /\ Cardinality(Party) \in Nat
    BY <2>2, <2>3, FS_CardinalityType
  <2>5. Chat!AtMostTwo
    BY <2>2, <2>3, <2>4, SameCardinality DEF Chat!AtMostTwo
  <2>6. Chat!ShownOnceInOrder
    BY DEF ChatInv, OwnAfterOthers, OwnIsShown, InOrder, Chat!ShownOnceInOrder
  <2>7. QED
    BY <2>5, <2>6 DEF ChatIsOneOnOne
<1>4. QED
  BY <1>1, <1>2, <1>3, PTL DEF MCSpec

-----------------------------------------------------------------------------
\* FileInMemory.

Places == 0..(kMaxSize - 1)
Memory == [Places -> {Zero} \union (Nat \X Nat)]

\* A reader that runs has the segment the key stands for, and none that ended.
FileTypeOK ==
    /\ segments \in Seq(Memory) /\ segment \in {0, Len(segments)}
    /\ writer \in [pc : {"read", "zero", "failed", "getchar", "ended"},
                   run : Nat, seg : 0..Len(segments)]
    /\ reader \in [pc : {"print", "remove", "ended"}, run : Nat, seg : 0..Len(segments)]
    /\ file_size \in Nat /\ data_readed \in Nat /\ move_ptr \in Nat
    /\ writer.run <= MaxRuns
    /\ writer.pc # "ended" => writer.seg # 0
    /\ reader.pc # "ended" => reader.seg # 0 /\ segment = reader.seg
    /\ reader.pc = "ended" => segment # reader.seg \/ segment = 0

\* Of a file of one chunk, what was read stands at the beginning.
Begins == \A k \in 0..(file_size - 1) : segments[writer.seg][k] = <<writer.run, k>>
OneChunk ==
    file_size <= kChunkSize =>
        /\ writer.pc = "read" => (data_readed = 0 /\ move_ptr = 0) \/ data_readed = file_size
        /\ writer.pc \in {"read", "zero", "getchar"} /\ data_readed = file_size =>
              move_ptr = file_size /\ file_size <= kMaxSize /\ Begins
        /\ writer.pc \in {"zero", "getchar"} => data_readed = file_size
        /\ writer.pc = "getchar" => file_size < kMaxSize /\ segments[writer.seg][file_size] = Zero

\* A later segment is written by later runs.
Written(n, k) == n \in DOMAIN segments /\ k \in Places /\ segments[n][k] # Zero
RunOf(n, k) == segments[n][k][1]
LaterRuns ==
    /\ \A m, n \in DOMAIN segments : \A j, k \in Places :
          m < n /\ Written(m, j) /\ Written(n, k) => RunOf(m, j) < RunOf(n, k)
    /\ \A n \in DOMAIN segments : \A k \in Places : Written(n, k) =>
          /\ n <= writer.seg /\ RunOf(n, k) <= writer.run
          /\ n < writer.seg => RunOf(n, k) < writer.run

\* The segments from here on are not printed yet, and are written by runs after
\* the one that was printed last.
Unprinted == reader.seg + (IF reader.pc = "print" THEN 0 ELSE 1)
PrintedBefore ==
    printed # <<>> =>
        /\ printed[1][1] \in Nat /\ printed[1][1] <= writer.run
        /\ writer.seg >= Unprinted => printed[1][1] < writer.run
        /\ \A n \in DOMAIN segments : \A k \in Places :
              n >= Unprinted /\ Written(n, k) => printed[1][1] < RunOf(n, k)

FileInv == FileTypeOK /\ OneChunk /\ LaterRuns /\ PrintedBefore

\* What printf shows: the bytes up to the first that is zero.
LEMMA TextIs ==
    ASSUME NEW mem \in Memory
    PROVE  \E end \in 0..kMaxSize : /\ end < kMaxSize => mem[end] = Zero
                                    /\ \A j \in 0..(end - 1) : mem[j] # Zero
                                    /\ File!Text(mem) = [k \in 1..end |-> mem[k - 1]]
<1> DEFINE Ends(k) == /\ k < kMaxSize => mem[k] = Zero
                      /\ \A j \in 0..(k - 1) : mem[j] # Zero
           Zeros == {k \in 0..kMaxSize : k < kMaxSize => mem[k] = Zero}
<1>1. kMaxSize \in Nat
  BY SharedMemoryAssumption
<1>2. Zeros \in SUBSET Nat /\ kMaxSize \in Zeros
  BY <1>1
<1>3. Min(Zeros) \in Zeros /\ \A k \in Zeros : Min(Zeros) <= k
  BY <1>2, MinProperties
<1>4. \E k \in 0..kMaxSize : Ends(k)
  <2>1. \A j \in 0..(Min(Zeros) - 1) : j \notin Zeros /\ j \in 0..kMaxSize
    BY <1>1, <1>2, <1>3
  <2>2. Ends(Min(Zeros))
    BY <1>3, <2>1
  <2>3. QED
    BY <1>3, <2>2
<1>5. PICK end : end = CHOOSE k \in 0..kMaxSize : Ends(k)
  OBVIOUS
<1>6. end \in 0..kMaxSize /\ Ends(end)
  BY <1>4, <1>5
<1>7. File!Text(mem) = [k \in 1..end |-> mem[k - 1]]
  BY <1>5 DEF File!Text
<1>8. QED
  BY <1>6, <1>7

LEMMA TextUpToZero ==
    ASSUME NEW mem \in Memory, NEW n \in Nat, n < kMaxSize, mem[n] = Zero,
           \A j \in 0..(n - 1) : mem[j] # Zero
    PROVE  File!Text(mem) = [k \in 1..n |-> mem[k - 1]]
<1>1. PICK end \in 0..kMaxSize : /\ end < kMaxSize => mem[end] = Zero
                                 /\ \A j \in 0..(end - 1) : mem[j] # Zero
                                 /\ File!Text(mem) = [k \in 1..end |-> mem[k - 1]]
  BY TextIs
<1>2. kMaxSize \in Nat
  BY SharedMemoryAssumption
<1>3. end = n
  BY <1>1, <1>2
<1>4. QED
  BY <1>1, <1>3

LEMMA TextBegins ==
    ASSUME NEW mem \in Memory, File!Text(mem) # <<>>
    PROVE  0 \in Places /\ mem[0] # Zero /\ File!Text(mem)[1] = mem[0]
<1>1. PICK end \in 0..kMaxSize : /\ \A j \in 0..(end - 1) : mem[j] # Zero
                                 /\ File!Text(mem) = [k \in 1..end |-> mem[k - 1]]
  BY TextIs
<1>2. kMaxSize \in Nat
  BY SharedMemoryAssumption
<1>3. end # 0
  BY <1>1
<1>4. QED
  BY <1>1, <1>2, <1>3 DEF Places

\* Whoever opens the segment gets the one there is or a new empty one, which is
\* the last.
LEMMA Opens ==
    ASSUME FileTypeOK, NEW proc, File!OpenSegment(proc)
    PROVE  /\ segments' \in Seq(Memory) /\ segment' = Len(segments') /\ segment' # 0
           /\ segment # 0 => segment' = segment /\ segments' = segments
           /\ Len(segments') \in Nat /\ Len(segments) \in Nat /\ Len(segments) <= Len(segments')
           /\ segment = 0 => Len(segments) < Len(segments')
           /\ \A n \in DOMAIN segments : n \in DOMAIN segments' /\ segments'[n] = segments[n]
           /\ \A n \in DOMAIN segments' \ DOMAIN segments :
                 \A k \in Places : segments'[n][k] = Zero
<1>1. segments \in Seq(Memory) /\ segment \in {0, Len(segments)}
  BY DEF FileTypeOK
<1>2. CASE segment # 0
  BY <1>1, <1>2 DEF File!OpenSegment
<1>3. CASE segment = 0
  <2>1. segments' = Append(segments, File!Empty) /\ segment' = Len(segments')
    BY <1>3 DEF File!OpenSegment
  <2>2. File!Empty = [k \in Places |-> Zero] /\ File!Empty \in Memory
    BY DEF File!Empty, Places, Memory
  <2>3. QED
    BY <1>1, <1>3, <2>1, <2>2
<1>4. QED
  BY <1>2, <1>3


\* The bytes of a chunk go where the last one ended, in the writer's segment.
ChunkWritten(n) ==
    /\ n \in 1..kChunkSize /\ n <= file_size - data_readed /\ move_ptr + n <= kMaxSize
    /\ n # kChunkSize => n = file_size - data_readed
    /\ segments' = [segments EXCEPT ![writer.seg] =
          [k \in Places |-> IF k \in move_ptr..(move_ptr + n - 1)
                            THEN <<writer.run, data_readed + k - move_ptr>>
                            ELSE segments[writer.seg][k]]]
    /\ data_readed' = data_readed + n /\ move_ptr' = move_ptr + data_readed + n
    /\ UNCHANGED <<segment, writer, file_size, reader, printed>>

WriterGoes(to) ==
    /\ writer' = [writer EXCEPT !.pc = to]
    /\ UNCHANGED <<segment, segments, file_size, data_readed, move_ptr, reader, printed>>

LEMMA Reads ==
    ASSUME FileTypeOK, File!ReadChunk
    PROVE  /\ writer.pc = "read"
           /\ \/ (data_readed = file_size /\ WriterGoes("zero"))
              \/ WriterGoes("failed")
              \/ \E n \in Nat : ChunkWritten(n)
<1> DEFINE left == file_size - data_readed
           n == IF left < kChunkSize THEN left ELSE kChunkSize
<1>1. /\ file_size \in Nat /\ data_readed \in Nat /\ move_ptr \in Nat
      /\ kChunkSize \in Nat \ {0} /\ kMaxSize \in Nat
  BY SharedMemoryAssumption DEF FileTypeOK
<1>2. writer.pc = "read" /\ segments[writer.seg] \in Memory
  BY DEF File!ReadChunk, FileTypeOK
<1>3. CASE n = 0
  <2>1. data_readed = file_size
    BY <1>1, <1>3
  <2>2. WriterGoes("zero")
    BY <1>3 DEF File!ReadChunk, File!NothingMore, File!Goto, WriterGoes
  <2>3. QED
    BY <1>2, <2>1, <2>2
<1>4. CASE n > 0 /\ move_ptr + n > kMaxSize /\ File!NothingMore("failed")
  BY <1>2, <1>4 DEF File!NothingMore, File!Goto, WriterGoes
<1>5. CASE n > 0 /\ move_ptr + n <= kMaxSize
  <2>1. /\ segments' = [segments EXCEPT ![writer.seg] =
                [k \in DOMAIN segments[writer.seg] |->
                    IF k \in move_ptr..(move_ptr + n - 1)
                    THEN <<writer.run, data_readed + k - move_ptr>>
                    ELSE segments[writer.seg][k]]]
        /\ data_readed' = data_readed + n /\ move_ptr' = move_ptr + data_readed + n
        /\ UNCHANGED <<segment, writer, file_size, reader, printed>>
    BY <1>1, <1>5 DEF File!ReadChunk, File!NextPtr, FileTypeOK
  <2>2. DOMAIN segments[writer.seg] = Places
    BY <1>2 DEF Memory
  <2>3. n \in 1..kChunkSize /\ n <= left /\ (n # kChunkSize => n = left) /\ n \in Nat
    BY <1>1, <1>5
  <2>4. ChunkWritten(n)
    BY <1>5, <2>1, <2>2, <2>3 DEF ChunkWritten
  <2>5. QED
    BY <1>2, <2>3, <2>4
<1>6. QED
  BY <1>3, <1>4, <1>5 DEF File!ReadChunk

LEMMA FileTypeStep ==
    ASSUME FileTypeOK, File!Next
    PROVE  FileTypeOK'
<1>1. /\ segments \in Seq(Memory) /\ segment \in {0, Len(segments)} /\ Len(segments) \in Nat
      /\ writer \in [pc : {"read", "zero", "failed", "getchar", "ended"},
                     run : Nat, seg : 0..Len(segments)]
      /\ reader \in [pc : {"print", "remove", "ended"}, run : Nat, seg : 0..Len(segments)]
      /\ file_size \in Nat /\ data_readed \in Nat /\ move_ptr \in Nat /\ writer.run <= MaxRuns
  BY DEF FileTypeOK
<1>2. kMaxSize \in Nat /\ kChunkSize \in Nat \ {0} /\ FileSizes \subseteq Nat /\ MaxRuns \in Nat
  BY SharedMemoryAssumption
\* The processes move, and the segments have the same length.
<1>3. ASSUME NEW to \in {"zero", "failed", "getchar", "ended"}, WriterGoes(to),
             writer.pc # "ended"
      PROVE  FileTypeOK'
  BY <1>1, <1>3 DEF FileTypeOK, WriterGoes
<1>4. CASE File!StartWriter
  <2>1. /\ File!OpenSegment(writer) /\ file_size' \in FileSizes /\ data_readed' = 0
        /\ move_ptr' = 0 /\ reader' = reader
        /\ writer' = [pc |-> "read", run |-> writer.run + 1, seg |-> segment']
    BY <1>4 DEF File!StartWriter, File!Opened
  <2>2. writer.run < MaxRuns
    BY <2>1 DEF File!OpenSegment
  <2>3. /\ segments' \in Seq(Memory) /\ segment' = Len(segments') /\ segment' # 0
        /\ segment # 0 => segment' = segment /\ segments' = segments
        /\ Len(segments') \in Nat /\ Len(segments) <= Len(segments')
        /\ segment = 0 => Len(segments) < Len(segments')
    BY <2>1, Opens
  <2>4. reader.seg \in 0..Len(segments')
    BY <1>1, <2>3
  <2>5. reader' \in [pc : {"print", "remove", "ended"}, run : Nat, seg : 0..Len(segments')]
    BY <1>1, <2>1, <2>4
  <2>6. /\ writer' \in [pc : {"read", "zero", "failed", "getchar", "ended"},
                        run : Nat, seg : 0..Len(segments')]
        /\ writer'.run <= MaxRuns /\ writer'.seg # 0
    BY <1>1, <1>2, <2>1, <2>2, <2>3
  <2>7. /\ reader'.pc # "ended" => reader'.seg # 0 /\ segment' = reader'.seg
        /\ reader'.pc = "ended" => segment' # reader'.seg \/ segment' = 0
    BY <1>1, <2>1, <2>3 DEF FileTypeOK
  <2>8. QED
    BY <1>2, <2>1, <2>3, <2>5, <2>6, <2>7 DEF FileTypeOK
<1>5. CASE File!ReadChunk
  <2>1. CASE WriterGoes("zero") \/ WriterGoes("failed")
    BY <1>3, <1>5, <2>1, Reads
  <2>2. ASSUME NEW n \in Nat, ChunkWritten(n) PROVE FileTypeOK'
    <3> DEFINE mem == [k \in Places |-> IF k \in move_ptr..(move_ptr + n - 1)
                                        THEN <<writer.run, data_readed + k - move_ptr>>
                                        ELSE segments[writer.seg][k]]
    <3>1. writer.seg \in 1..Len(segments) /\ segments[writer.seg] \in Memory /\ writer.run \in Nat
      BY <1>1, <1>5, Reads DEF FileTypeOK
    <3>2. \A k \in Places : k \in move_ptr..(move_ptr + n - 1) => data_readed + k - move_ptr \in Nat
      BY <1>1
    <3>3. mem \in Memory
      BY <3>1, <3>2 DEF Memory
    <3>4. segments' = [segments EXCEPT ![writer.seg] = mem]
      BY <2>2 DEF ChunkWritten
    <3>5. segments' \in Seq(Memory) /\ Len(segments') = Len(segments)
      BY <1>1, <3>1, <3>3, <3>4
    <3>6. data_readed' \in Nat /\ move_ptr' \in Nat
      BY <1>1, <2>2 DEF ChunkWritten
    <3>7. QED
      BY <1>1, <2>2, <3>5, <3>6 DEF ChunkWritten, FileTypeOK
  <2>3. QED
    BY <1>5, <2>1, <2>2, Reads
<1>6. CASE File!WriteZero
  <2>1. CASE move_ptr >= kMaxSize
    <3>1. WriterGoes("failed") /\ writer.pc # "ended"
      BY <1>6, <2>1 DEF File!WriteZero, File!NothingMore, File!Goto, WriterGoes
    <3>2. QED
      BY <1>3, <3>1
  <2>2. CASE ~(move_ptr >= kMaxSize)
    <3>1. /\ writer.pc = "zero"
          /\ segments' = [segments EXCEPT ![writer.seg] =
                             [segments[writer.seg] EXCEPT ![move_ptr] = Zero]]
          /\ writer' = [writer EXCEPT !.pc = "getchar"]
          /\ UNCHANGED <<segment, file_size, data_readed, move_ptr, reader, printed>>
      BY <1>6, <2>2 DEF File!WriteZero, File!Terminated, File!Goto
    <3>2. writer.seg \in 1..Len(segments) /\ segments[writer.seg] \in Memory
      BY <1>1, <3>1 DEF FileTypeOK
    <3>3. [segments[writer.seg] EXCEPT ![move_ptr] = Zero] \in Memory
      BY <3>2 DEF Memory
    <3>4. segments' \in Seq(Memory) /\ Len(segments') = Len(segments)
      BY <1>1, <3>1, <3>2, <3>3
    <3>5. QED
      BY <1>1, <3>1, <3>4 DEF FileTypeOK
  <2>3. QED
    BY <2>1, <2>2
<1>7. CASE File!EndWriter
  <2>1. WriterGoes("ended") /\ writer.pc # "ended"
    BY <1>7 DEF File!EndWriter, File!NothingMore, File!Goto, WriterGoes
  <2>2. QED
    BY <1>3, <2>1
<1>8. CASE File!StartReader
  <2>1. /\ File!OpenSegment(reader) /\ UNCHANGED <<writer, file_size, data_readed, move_ptr>>
        /\ reader' = [pc |-> "print", run |-> reader.run + 1, seg |-> segment']
    BY <1>8 DEF File!StartReader, File!Opened, File!writerState
  <2>2. /\ segments' \in Seq(Memory) /\ segment' = Len(segments') /\ segment' # 0
        /\ Len(segments') \in Nat /\ Len(segments) <= Len(segments')
    BY <2>1, Opens
  <2>3. writer.seg \in 0..Len(segments')
    BY <1>1, <2>2
  <2>4. writer' \in [pc : {"read", "zero", "failed", "getchar", "ended"},
                     run : Nat, seg : 0..Len(segments')]
    BY <1>1, <2>1, <2>3
  <2>5. /\ reader' \in [pc : {"print", "remove", "ended"}, run : Nat, seg : 0..Len(segments')]
        /\ reader'.pc = "print" /\ reader'.seg = segment'
    BY <1>1, <2>1, <2>2
  <2>6. /\ writer'.run <= MaxRuns /\ (writer'.pc # "ended" => writer'.seg # 0)
        /\ file_size' \in Nat /\ data_readed' \in Nat /\ move_ptr' \in Nat
    BY <2>1 DEF FileTypeOK
  <2>7. QED
    BY <2>2, <2>4, <2>5, <2>6 DEF FileTypeOK
<1>9. CASE File!PrintText
  <2>1. /\ reader.pc = "print" /\ reader' = [reader EXCEPT !.pc = "remove"]
        /\ UNCHANGED <<segment, segments, writer, file_size, data_readed, move_ptr>>
    BY <1>9 DEF File!PrintText, File!Goto, File!writerState
  <2>2. QED
    BY <1>1, <2>1 DEF FileTypeOK
<1>10. CASE File!Remove
  <2>1. /\ reader.pc = "remove" /\ reader' = [reader EXCEPT !.pc = "ended"]
        /\ segment' = IF segment = reader.seg THEN 0 ELSE segment
        /\ UNCHANGED <<segments, writer, file_size, data_readed, move_ptr>>
    BY <1>10 DEF File!Remove, File!AfterRemoval, File!Goto, File!writerState
  <2>2. QED
    BY <1>1, <2>1 DEF FileTypeOK
<1>11. QED
  BY <1>4, <1>5, <1>6, <1>7, <1>8, <1>9, <1>10 DEF File!Next

\* A byte that is there was there, or is of the chunk the writer has read.
LEMMA WrittenNow ==
    ASSUME FileTypeOK, File!Next, NEW n \in DOMAIN segments', NEW k \in Places, Written(n, k)'
    PROVE  \/ n \in DOMAIN segments /\ Written(n, k) /\ RunOf(n, k)' = RunOf(n, k)
           \/ n \in DOMAIN segments /\ n = writer.seg /\ RunOf(n, k)' = writer.run /\ writer' = writer
<1> USE DEF Written, RunOf
<1>1. segments \in Seq(Memory) /\ Len(segments) \in Nat /\ writer.seg \in 0..Len(segments)
  BY DEF FileTypeOK
<1>2. CASE segments' = segments
  BY <1>2
<1>3. ASSUME NEW proc, File!OpenSegment(proc)
      PROVE  n \in DOMAIN segments /\ Written(n, k) /\ RunOf(n, k)' = RunOf(n, k)
  BY <1>3, Opens
<1>4. CASE File!StartWriter
  BY <1>3, <1>4 DEF File!StartWriter
<1>5. CASE File!ReadChunk
  <2>1. CASE WriterGoes("zero") \/ WriterGoes("failed")
    BY <1>2, <2>1 DEF WriterGoes
  <2>2. ASSUME NEW c \in Nat, ChunkWritten(c)
        PROVE  \/ n \in DOMAIN segments /\ Written(n, k) /\ RunOf(n, k)' = RunOf(n, k)
               \/ n \in DOMAIN segments /\ n = writer.seg /\ RunOf(n, k)' = writer.run /\ writer' = writer
    <3>1. /\ DOMAIN segments' = DOMAIN segments /\ writer' = writer
          /\ \A m \in DOMAIN segments : m # writer.seg => segments'[m] = segments[m]
          /\ n = writer.seg => segments'[n][k] = IF k \in move_ptr..(move_ptr + c - 1)
                                                 THEN <<writer.run, data_readed + k - move_ptr>>
                                                 ELSE segments[n][k]
      BY <1>1, <2>2 DEF ChunkWritten
    <3>2. QED
      BY <3>1
  <2>3. QED
    BY <1>5, <2>1, <2>2, Reads
<1>6. CASE File!WriteZero
  <2>1. CASE move_ptr >= kMaxSize
    BY <1>2, <1>6, <2>1 DEF File!WriteZero, File!NothingMore
  <2>2. CASE ~(move_ptr >= kMaxSize)
    <3>1. /\ writer.pc = "zero"
          /\ segments' = [segments EXCEPT ![writer.seg] =
                             [segments[writer.seg] EXCEPT ![move_ptr] = Zero]]
      BY <1>6, <2>2 DEF File!WriteZero, File!Terminated
    <3>2. segments[writer.seg] \in Memory /\ DOMAIN segments' = DOMAIN segments
      BY <1>1, <3>1 DEF FileTypeOK
    <3>3. /\ \A m \in DOMAIN segments : m # writer.seg => segments'[m] = segments[m]
          /\ n = writer.seg => segments'[n][k] = IF k = move_ptr THEN Zero ELSE segments[n][k]
      BY <1>1, <3>1, <3>2 DEF Memory
    <3>4. QED
      BY <3>2, <3>3
  <2>3. QED
    BY <2>1, <2>2
<1>7. CASE File!StartReader
  BY <1>3, <1>7 DEF File!StartReader
<1>8. CASE File!EndWriter \/ File!PrintText \/ File!Remove
  BY <1>2, <1>8 DEF File!EndWriter, File!NothingMore, File!PrintText, File!Remove
<1>9. QED
  BY <1>4, <1>5, <1>6, <1>7, <1>8 DEF File!Next

\* A writer keeps its run and its segment, or a later one starts.
LEMMA WriterNow ==
    ASSUME FileTypeOK, File!Next
    PROVE  /\ writer.run \in Nat /\ writer.seg \in Nat /\ writer'.run \in Nat /\ writer'.seg \in Nat
           /\ \/ writer'.run = writer.run /\ writer'.seg = writer.seg
              \/ writer'.run = writer.run + 1 /\ writer'.seg >= writer.seg
<1>1. /\ writer \in [pc : {"read", "zero", "failed", "getchar", "ended"},
                     run : Nat, seg : 0..Len(segments)]
      /\ Len(segments) \in Nat /\ segment \in {0, Len(segments)}
  BY DEF FileTypeOK
<1>2. /\ writer' \in [pc : {"read", "zero", "failed", "getchar", "ended"},
                      run : Nat, seg : 0..Len(segments')]
      /\ Len(segments') \in Nat
  BY FileTypeStep DEF FileTypeOK
<1>3. CASE File!StartWriter
  <2>1. File!OpenSegment(writer) /\ writer'.run = writer.run + 1 /\ writer'.seg = segment'
    BY <1>3 DEF File!StartWriter, File!Opened
  <2>2. segment' = Len(segments') /\ Len(segments) <= Len(segments')
    BY <2>1, Opens
  <2>3. QED
    BY <1>1, <1>2, <2>1, <2>2
<1>4. CASE \/ File!ReadChunk \/ File!WriteZero \/ File!EndWriter
           \/ File!StartReader \/ File!PrintText \/ File!Remove
  <2>1. writer'.run = writer.run /\ writer'.seg = writer.seg
    BY <1>1, <1>4 DEF File!ReadChunk, File!WriteZero, File!EndWriter, File!NothingMore, File!Goto,
       File!StartReader, File!PrintText, File!Remove, File!writerState
  <2>2. QED
    BY <1>1, <1>2, <2>1
<1>5. QED
  BY <1>3, <1>4 DEF File!Next

LEMMA RunOfWritten ==
    ASSUME FileTypeOK, NEW n \in DOMAIN segments, NEW k \in Places, Written(n, k)
    PROVE  RunOf(n, k) \in Nat
<1>1. segments[n] \in Memory
  BY DEF FileTypeOK
<1>2. segments[n][k] \in Nat \X Nat
  BY <1>1 DEF Written, Memory
<1>3. QED
  BY <1>2 DEF RunOf

LEMMA LaterRunsStep ==
    ASSUME FileTypeOK, LaterRuns, File!Next
    PROVE  LaterRuns'
<1>1. DOMAIN segments \subseteq Nat
  BY DEF FileTypeOK
<1>2. ASSUME NEW n \in DOMAIN segments', NEW k \in Places, Written(n, k)'
      PROVE  /\ n <= writer'.seg /\ RunOf(n, k)' <= writer'.run
             /\ n < writer'.seg => RunOf(n, k)' < writer'.run
  <2>1. CASE n \in DOMAIN segments /\ Written(n, k) /\ RunOf(n, k)' = RunOf(n, k)
    <3>1. /\ n <= writer.seg /\ RunOf(n, k) <= writer.run
          /\ n < writer.seg => RunOf(n, k) < writer.run
      BY <2>1 DEF LaterRuns
    <3>2. RunOf(n, k) \in Nat /\ n \in Nat
      BY <1>1, <2>1, RunOfWritten
    <3>3. QED
      BY <2>1, <3>1, <3>2, WriterNow
  <2>2. CASE n = writer.seg /\ RunOf(n, k)' = writer.run /\ writer' = writer
    BY <2>2, WriterNow
  <2>3. QED
    BY <1>2, <2>1, <2>2, WrittenNow
<1>3. ASSUME NEW m \in DOMAIN segments', NEW n \in DOMAIN segments', NEW j \in Places,
             NEW k \in Places, m < n, Written(m, j)', Written(n, k)'
      PROVE  RunOf(m, j)' < RunOf(n, k)'
  <2>1. /\ \/ m \in DOMAIN segments /\ Written(m, j) /\ RunOf(m, j)' = RunOf(m, j)
           \/ m = writer.seg
        /\ \/ n \in DOMAIN segments /\ Written(n, k) /\ RunOf(n, k)' = RunOf(n, k)
           \/ n = writer.seg /\ RunOf(n, k)' = writer.run
        /\ m \in DOMAIN segments /\ n \in DOMAIN segments
    BY <1>3, WrittenNow
  <2>2. m \in Nat /\ n \in Nat /\ writer.seg \in Nat
    BY <1>1, <2>1, WriterNow
  <2>3. Written(n, k) => n <= writer.seg
    BY <2>1 DEF LaterRuns
  <2>4. m # writer.seg
    BY <1>3, <2>1, <2>2, <2>3
  <2>5. Written(m, j) /\ RunOf(m, j)' = RunOf(m, j)
    BY <2>1, <2>4
  <2>6. CASE Written(n, k) /\ RunOf(n, k)' = RunOf(n, k)
    BY <1>3, <2>1, <2>5, <2>6 DEF LaterRuns
  <2>7. CASE n = writer.seg /\ RunOf(n, k)' = writer.run
    BY <1>3, <2>1, <2>5, <2>7 DEF LaterRuns
  <2>8. QED
    BY <2>1, <2>6, <2>7
<1>4. QED
  BY <1>2, <1>3 DEF LaterRuns

\* A text that is printed is of a later run than the last one.
LEMMA PrintsLater ==
    ASSUME FileTypeOK, LaterRuns, PrintedBefore, File!PrintText, printed' # <<>>
    PROVE  /\ reader.seg \in DOMAIN segments /\ Written(reader.seg, 0) /\ 0 \in Places
           /\ printed'[1][1] = RunOf(reader.seg, 0)
           /\ printed # <<>> => printed'[1][1] > printed[1][1]
<1>1. reader.pc = "print" /\ printed' = File!Text(segments[reader.seg])
  BY DEF File!PrintText
<1>2. reader.seg \in 1..Len(segments) /\ segments \in Seq(Memory)
  BY <1>1 DEF FileTypeOK
<1>3. /\ reader.seg \in DOMAIN segments /\ segments[reader.seg] \in Memory
  BY <1>2
<1>4. 0 \in Places /\ segments[reader.seg][0] # Zero /\ printed'[1] = segments[reader.seg][0]
  BY <1>1, <1>3, TextBegins
<1>5. Written(reader.seg, 0) /\ printed'[1][1] = RunOf(reader.seg, 0)
  BY <1>3, <1>4 DEF Written, RunOf
<1>6. ASSUME printed # <<>> PROVE printed'[1][1] > printed[1][1]
  <2>1. reader.seg >= Unprinted
    BY <1>1, <1>2 DEF Unprinted
  <2>2. printed[1][1] \in Nat /\ printed[1][1] < RunOf(reader.seg, 0)
    BY <1>3, <1>4, <1>5, <1>6, <2>1 DEF PrintedBefore
  <2>3. RunOf(reader.seg, 0) \in Nat
    BY <1>3, <1>4, <1>5, RunOfWritten
  <2>4. QED
    BY <1>5, <2>2, <2>3
<1>7. QED
  BY <1>3, <1>4, <1>5, <1>6

LEMMA PrintedBeforeStep ==
    ASSUME FileTypeOK, LaterRuns, PrintedBefore, File!Next
    PROVE  PrintedBefore'
<1>1. /\ DOMAIN segments \subseteq Nat /\ segment \in {0, Len(segments)} /\ Len(segments) \in Nat
      /\ reader \in [pc : {"print", "remove", "ended"}, run : Nat, seg : 0..Len(segments)]
  BY DEF FileTypeOK
<1>2. CASE File!PrintText
  <2> SUFFICES ASSUME printed' # <<>>
               PROVE  /\ printed'[1][1] \in Nat /\ printed'[1][1] <= writer'.run
                      /\ writer'.seg >= Unprinted' => printed'[1][1] < writer'.run
                      /\ \A n \in DOMAIN segments' : \A k \in Places :
                            n >= Unprinted' /\ Written(n, k)' => printed'[1][1] < RunOf(n, k)'
    BY DEF PrintedBefore
  <2>1. /\ reader.seg \in DOMAIN segments /\ Written(reader.seg, 0) /\ 0 \in Places
        /\ printed'[1][1] = RunOf(reader.seg, 0)
    BY <1>2, PrintsLater
  <2>2. UNCHANGED <<segment, segments, writer>> /\ reader' = [reader EXCEPT !.pc = "remove"]
    BY <1>2 DEF File!PrintText, File!Goto, File!writerState
  <2>3. Unprinted' = reader.seg + 1 /\ reader.seg \in Nat
    BY <1>1, <2>2 DEF Unprinted
  <2>4. printed'[1][1] \in Nat
    BY <2>1, RunOfWritten
  <2>5. /\ RunOf(reader.seg, 0) <= writer.run
        /\ reader.seg < writer.seg => RunOf(reader.seg, 0) < writer.run
    BY <2>1 DEF LaterRuns
  <2>6. writer'.seg >= Unprinted' => printed'[1][1] < writer'.run
    BY <2>1, <2>2, <2>3, <2>5, WriterNow
  <2>7. ASSUME NEW n \in DOMAIN segments', NEW k \in Places, n >= Unprinted', Written(n, k)'
        PROVE  printed'[1][1] < RunOf(n, k)'
    <3>1. n \in DOMAIN segments /\ Written(n, k) /\ RunOf(n, k)' = RunOf(n, k)
      BY <2>2, <2>7 DEF Written, RunOf
    <3>2. reader.seg < n
      BY <1>1, <2>3, <2>7, <3>1
    <3>3. RunOf(reader.seg, 0) < RunOf(n, k)
      BY <2>1, <3>1, <3>2 DEF LaterRuns
    <3>4. QED
      BY <2>1, <3>1, <3>3
  <2>8. QED
    BY <2>1, <2>2, <2>4, <2>5, <2>6, <2>7
<1>3. ASSUME ~File!PrintText
      PROVE  printed' = printed /\ Unprinted \in Nat /\ Unprinted' \in Nat /\ Unprinted' >= Unprinted
  <2>1. CASE File!StartReader
    <3>1. /\ File!OpenSegment(reader) /\ printed' = printed
          /\ reader' = [pc |-> "print", run |-> reader.run + 1, seg |-> segment']
      BY <2>1 DEF File!StartReader, File!Opened
    <3>2. reader.pc = "ended"
      BY <3>1 DEF File!OpenSegment
    <3>3. segment # reader.seg \/ segment = 0
      BY <3>2 DEF FileTypeOK
    <3>4. /\ segment' = Len(segments') /\ Len(segments') \in Nat
          /\ segment # 0 => segment' = segment
          /\ segment = 0 => Len(segments) < Len(segments')
      BY <3>1, Opens
    <3>5. segment' > reader.seg
      BY <1>1, <3>3, <3>4
    <3>6. QED
      BY <1>1, <3>1, <3>2, <3>4, <3>5 DEF Unprinted
  <2>2. CASE File!Remove
    BY <1>1, <2>2 DEF File!Remove, File!Goto, Unprinted
  <2>3. CASE File!StartWriter \/ File!ReadChunk \/ File!WriteZero \/ File!EndWriter
    <3>1. reader' = reader /\ printed' = printed
      BY <2>3 DEF File!StartWriter, File!ReadChunk, File!WriteZero, File!EndWriter, File!NothingMore
    <3>2. QED
      BY <1>1, <3>1 DEF Unprinted
  <2>4. QED
    BY <1>3, <2>1, <2>2, <2>3 DEF File!Next
<1>4. CASE ~File!PrintText
  <2> SUFFICES ASSUME printed # <<>>
               PROVE  /\ printed[1][1] \in Nat /\ printed[1][1] <= writer'.run
                      /\ writer'.seg >= Unprinted' => printed[1][1] < writer'.run
                      /\ \A n \in DOMAIN segments' : \A k \in Places :
                            n >= Unprinted' /\ Written(n, k)' => printed[1][1] < RunOf(n, k)'
    BY <1>3, <1>4 DEF PrintedBefore
  <2>1. /\ printed[1][1] \in Nat /\ printed[1][1] <= writer.run
        /\ writer.seg >= Unprinted => printed[1][1] < writer.run
        /\ \A n \in DOMAIN segments : \A k \in Places :
              n >= Unprinted /\ Written(n, k) => printed[1][1] < RunOf(n, k)
    BY DEF PrintedBefore
  <2>2. Unprinted \in Nat /\ Unprinted' \in Nat /\ Unprinted' >= Unprinted
    BY <1>3, <1>4
  <2>3. /\ printed[1][1] <= writer'.run
        /\ writer'.seg >= Unprinted' => printed[1][1] < writer'.run
    BY <2>1, <2>2, WriterNow
  <2>4. ASSUME NEW n \in DOMAIN segments', NEW k \in Places, n >= Unprinted', Written(n, k)'
        PROVE  printed[1][1] < RunOf(n, k)'
    <3>1. n \in DOMAIN segments /\ n \in Nat
      BY <1>1, <2>4, WrittenNow
    <3>2. n >= Unprinted
      BY <2>2, <2>4, <3>1
    <3>3. CASE Written(n, k) /\ RunOf(n, k)' = RunOf(n, k)
      BY <2>1, <3>1, <3>2, <3>3
    <3>4. CASE n = writer.seg /\ RunOf(n, k)' = writer.run
      BY <2>1, <3>2, <3>4
    <3>5. QED
      BY <2>4, <3>3, <3>4, WrittenNow
  <2>5. QED
    BY <2>1, <2>3, <2>4
<1>5. QED
  BY <1>2, <1>4

\* The first chunk of a file that has no second is the file.
LEMMA OneChunkStep ==
    ASSUME FileTypeOK, OneChunk, File!Next
    PROVE  OneChunk'
<1>1. /\ segments \in Seq(Memory) /\ Len(segments) \in Nat /\ file_size \in Nat
      /\ data_readed \in Nat /\ move_ptr \in Nat
      /\ writer \in [pc : {"read", "zero", "failed", "getchar", "ended"},
                     run : Nat, seg : 0..Len(segments)]
  BY DEF FileTypeOK
<1>2. kMaxSize \in Nat /\ kChunkSize \in Nat \ {0} /\ FileSizes \subseteq Nat
  BY SharedMemoryAssumption
<1>3. CASE File!StartWriter
  <2>1. /\ writer'.pc = "read" /\ data_readed' = 0 /\ move_ptr' = 0 /\ file_size' \in Nat
    BY <1>2, <1>3 DEF File!StartWriter, File!Opened
  <2>2. file_size' = 0 => Begins'
    BY DEF Begins
  <2>3. QED
    BY <1>2, <2>1, <2>2 DEF OneChunk
<1>4. CASE File!ReadChunk
  <2>1. writer.pc = "read"
    BY <1>4, Reads
  <2>2. CASE data_readed = file_size /\ WriterGoes("zero")
    <3>1. writer'.pc = "zero" /\ writer'.seg = writer.seg /\ writer'.run = writer.run
          /\ UNCHANGED <<segments, file_size, data_readed, move_ptr>>
      BY <1>1, <2>2 DEF WriterGoes
    <3>2. QED
      BY <2>1, <2>2, <3>1 DEF OneChunk, Begins
  <2>3. CASE WriterGoes("failed")
    <3>1. writer'.pc = "failed"
      BY <1>1, <2>3 DEF WriterGoes
    <3>2. QED
      BY <3>1 DEF OneChunk
  <2>4. ASSUME NEW n \in Nat, ChunkWritten(n), file_size <= kChunkSize
        PROVE  /\ data_readed' = file_size /\ move_ptr' = file_size /\ file_size <= kMaxSize /\ Begins'
    <3>1. data_readed = 0 /\ move_ptr = 0
      BY <1>1, <1>2, <2>1, <2>4 DEF OneChunk, ChunkWritten
    <3>2. n = file_size
      BY <1>1, <1>2, <2>4, <3>1 DEF ChunkWritten
    <3>3. data_readed' = file_size /\ move_ptr' = file_size /\ file_size <= kMaxSize
      BY <1>1, <2>4, <3>1, <3>2 DEF ChunkWritten
    <3>4. writer.seg \in DOMAIN segments
      BY <1>1, <2>1 DEF FileTypeOK
    <3>5. ASSUME NEW k \in 0..(file_size - 1) PROVE segments'[writer.seg][k] = <<writer.run, k>>
      <4>1. k \in Places /\ k \in move_ptr..(move_ptr + n - 1) /\ data_readed + k - move_ptr = k
        BY <1>1, <1>2, <3>1, <3>2, <3>3 DEF Places
      <4>2. segments'[writer.seg] =
               [b \in Places |-> IF b \in move_ptr..(move_ptr + n - 1)
                                 THEN <<writer.run, data_readed + b - move_ptr>>
                                 ELSE segments[writer.seg][b]]
        BY <2>4, <3>4 DEF ChunkWritten
      <4>3. QED
        BY <4>1, <4>2
    <3>6. Begins'
      BY <2>4, <3>5 DEF Begins, ChunkWritten
    <3>7. QED
      BY <3>3, <3>6
  <2>5. ASSUME NEW n \in Nat, ChunkWritten(n) PROVE OneChunk'
    <3>1. file_size' = file_size /\ writer' = writer
      BY <2>5 DEF ChunkWritten
    <3>2. QED
      BY <2>1, <2>4, <2>5, <3>1 DEF OneChunk
  <2>6. QED
    BY <1>4, <2>2, <2>3, <2>5, Reads
<1>5. CASE File!WriteZero
  <2>1. CASE move_ptr >= kMaxSize
    <3>1. writer'.pc = "failed"
      BY <1>1, <1>5, <2>1 DEF File!WriteZero, File!NothingMore, File!Goto
    <3>2. QED
      BY <3>1 DEF OneChunk
  <2>2. CASE ~(move_ptr >= kMaxSize)
    <3>1. /\ writer.pc = "zero" /\ writer' = [writer EXCEPT !.pc = "getchar"]
          /\ segments' = [segments EXCEPT ![writer.seg] =
                             [segments[writer.seg] EXCEPT ![move_ptr] = Zero]]
          /\ UNCHANGED <<file_size, data_readed, move_ptr>>
      BY <1>5, <2>2 DEF File!WriteZero, File!Terminated, File!Goto
    <3>2. writer'.pc = "getchar" /\ writer'.seg = writer.seg /\ writer'.run = writer.run
      BY <1>1, <3>1
    <3>3. writer.seg \in DOMAIN segments /\ segments[writer.seg] \in Memory
      BY <1>1, <3>1 DEF FileTypeOK
    <3>4. move_ptr \in Places
      BY <1>1, <1>2, <2>2 DEF Places
    <3>5. /\ segments'[writer.seg][move_ptr] = Zero
          /\ \A k \in Places : k # move_ptr => segments'[writer.seg][k] = segments[writer.seg][k]
      BY <3>1, <3>3, <3>4 DEF Memory
    <3>6. SUFFICES ASSUME file_size <= kChunkSize
                   PROVE  /\ data_readed = file_size /\ move_ptr = file_size /\ file_size < kMaxSize
                          /\ Begins' /\ segments'[writer.seg][file_size] = Zero
      BY <1>1, <1>2, <3>1, <3>2 DEF OneChunk
    <3>7. data_readed = file_size /\ move_ptr = file_size /\ Begins
      BY <3>1, <3>6 DEF OneChunk
    <3>8. ASSUME NEW k \in 0..(file_size - 1) PROVE segments'[writer.seg][k] = <<writer.run, k>>
      BY <1>1, <1>2, <2>2, <3>5, <3>7 DEF Begins, Places
    <3>9. QED
      BY <1>1, <1>2, <2>2, <3>1, <3>2, <3>5, <3>7, <3>8 DEF Begins
  <2>3. QED
    BY <2>1, <2>2
<1>6. CASE File!EndWriter
  <2>1. writer'.pc = "ended"
    BY <1>1, <1>6 DEF File!EndWriter, File!NothingMore, File!Goto
  <2>2. QED
    BY <2>1 DEF OneChunk
<1>7. CASE File!StartReader
  <2>1. UNCHANGED <<writer, file_size, data_readed, move_ptr>> /\ File!OpenSegment(reader)
    BY <1>7 DEF File!StartReader, File!writerState
  <2>2. \A n \in DOMAIN segments : segments'[n] = segments[n]
    BY <2>1, Opens
  <2>3. writer.pc # "ended" => writer.seg \in DOMAIN segments
    BY <1>1 DEF FileTypeOK
  <2>4. writer.pc # "ended" => segments'[writer.seg] = segments[writer.seg]
    BY <2>2, <2>3
  <2>5. QED
    BY <2>1, <2>4 DEF OneChunk, Begins
<1>8. CASE File!PrintText \/ File!Remove
  BY <1>8 DEF File!PrintText, File!Remove, File!writerState, OneChunk, Begins
<1>9. QED
  BY <1>3, <1>4, <1>5, <1>6, <1>7, <1>8 DEF File!Next

LEMMA FileInductive == FileInv /\ [File!Next]_(File!vars) => FileInv'
<1> SUFFICES ASSUME FileInv, [File!Next]_(File!vars) PROVE FileInv'
  OBVIOUS
<1>1. CASE File!Next
  BY <1>1, FileTypeStep, OneChunkStep, LaterRunsStep, PrintedBeforeStep DEF FileInv
<1>2. CASE UNCHANGED File!vars
  BY <1>2 DEF File!vars, File!writerState, FileInv, FileTypeOK, OneChunk, Begins, LaterRuns, Written,
     RunOf, PrintedBefore, Unprinted
<1>3. QED
  BY <1>1, <1>2

LEMMA FileInvHolds == MCSpec => []FileInv
<1>1. MCInit => FileInv
  <2> SUFFICES ASSUME File!Init PROVE FileInv
    BY DEF MCInit
  <2>1. /\ segment = 0 /\ segments = <<>> /\ writer = [pc |-> "ended", run |-> 0, seg |-> 0]
        /\ reader = writer /\ file_size = 0 /\ data_readed = 0 /\ move_ptr = 0 /\ printed = <<>>
    BY DEF File!Init
  <2>2. MaxRuns \in Nat
    BY SharedMemoryAssumption
  <2>3. segments \in Seq(Memory) /\ Len(segments) = 0 /\ DOMAIN segments = {}
    BY <2>1
  <2>4. FileTypeOK
    BY <2>1, <2>2, <2>3 DEF FileTypeOK
  <2>5. OneChunk /\ LaterRuns /\ PrintedBefore
    BY <2>1, <2>3 DEF OneChunk, LaterRuns, PrintedBefore
  <2>6. QED
    BY <2>4, <2>5 DEF FileInv
<1>2. FileInv /\ [MCNext]_allVars => FileInv'
  BY ProgramsApart, FileInductive
<1>3. QED
  BY <1>1, <1>2, PTL DEF MCSpec

\* While the writer waits, a file of one chunk prints as it is, whatever the
\* segment held and whoever removed its key, and a reader of a private segment
\* prints the whole message (dz2/task1.c:66-87, task2.c:48, task3.c:53-63,
\* task4.c:15-24).
THEOREM WholeTexts == MCSpec => []TextsAreWhole
<1>1. MCInit => PrivateInv
  <2> SUFFICES ASSUME Private!Init PROVE PrivateInv
    BY DEF MCInit
  <2>1. QED
    BY DEF Private!Init, PrivateInv, Copied, Segments
<1>2. PrivateInv /\ [MCNext]_allVars => PrivateInv'
  BY ProgramsApart, PrivateInductive
<1>3. FileInv => File!ChunkIsPrinted
  <2> SUFFICES ASSUME FileInv, writer.pc = "getchar", file_size <= kChunkSize
               PROVE  File!Text(segments[writer.seg]) = [k \in 1..file_size |-> <<writer.run, k - 1>>]
    BY DEF File!ChunkIsPrinted
  <2> DEFINE mem == segments[writer.seg]
  <2>1. FileTypeOK /\ OneChunk
    BY DEF FileInv
  <2>2. mem \in Memory /\ file_size \in Nat
    BY <2>1 DEF FileTypeOK
  <2>3. file_size < kMaxSize /\ mem[file_size] = Zero /\ Begins
    BY <2>1 DEF OneChunk
  <2>4. \A j \in 0..(file_size - 1) : mem[j] = <<writer.run, j>> /\ mem[j] # Zero
    <3>1. writer.run \in 0..MaxRuns /\ kMaxSize \in Nat
      BY <2>1, SharedMemoryAssumption DEF FileTypeOK
    <3>2. \A j \in 0..(file_size - 1) : j \in 0..kMaxSize /\ mem[j] = <<writer.run, j>>
      BY <2>2, <2>3, <3>1 DEF Begins
    <3>3. QED
      BY <3>1, <3>2, SharedMemoryAssumption
  <2>5. File!Text(mem) = [k \in 1..file_size |-> mem[k - 1]]
    BY <2>2, <2>3, <2>4, TextUpToZero
  <2>6. \A k \in 1..file_size : mem[k - 1] = <<writer.run, k - 1>>
    BY <2>2, <2>4
  <2>7. QED
    BY <2>5, <2>6
<1>4. PrivateInv => Private!MessageIsWhole
  BY DEF PrivateInv, Private!MessageIsWhole
<1>5. FileInv /\ PrivateInv => TextsAreWhole
  BY <1>3, <1>4 DEF TextsAreWhole
<1>6. QED
  BY <1>1, <1>2, <1>5, FileInvHolds, PTL DEF MCSpec

\* No text is printed by two runs of the reader: it removes the segment it has
\* printed, and whoever writes the next one is of a later run
\* (dz2/task2.c:48-60).
THEOREM PrintsOnce == MCSpec => PrintedOnce
<1> DEFINE Later == reader.pc = "print" /\ printed # <<>> /\ printed' # <<>> /\ reader' # reader
                       => printed'[1][1] > printed[1][1]
<1>1. FileInv /\ [MCNext]_allVars => [Later]_(File!vars)
  <2> SUFFICES ASSUME FileInv, [File!Next]_(File!vars), ~UNCHANGED File!vars PROVE Later
    BY ProgramsApart
  <2>1. File!Next /\ FileTypeOK /\ LaterRuns /\ PrintedBefore
    BY DEF FileInv
  <2>2. CASE File!PrintText
    BY <2>1, <2>2, PrintsLater
  <2>3. CASE ~File!PrintText
    <3>1. reader.pc = "print" => reader' = reader
      BY <2>1, <2>3 DEF File!Next, File!StartWriter, File!ReadChunk, File!WriteZero, File!EndWriter,
         File!NothingMore, File!StartReader, File!OpenSegment, File!Remove
    <3>2. QED
      BY <3>1
  <2>4. QED
    BY <2>2, <2>3
<1>2. QED
  BY <1>1, FileInvHolds, PTL DEF MCSpec, PrintedOnce, File!PrintedOnce
=============================================================================
