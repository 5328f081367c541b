--------------------------- MODULE SharedMessage ----------------------------
(***************************************************************************)
(* dz6/task3.c and task4.c: a writer leaves a message in shared memory and *)
(* waits on a semaphore until a reader has printed it, then for the value  *)
(* zero, and removes both from the system.  Readers attach to what they    *)
(* find, print, increment and exit, which undoes the increment.            *)
(***************************************************************************)
EXTENDS Semaphores, FiniteSets

CONSTANTS Writers, Readers,
          MaxSets,   \* bound: semaphore sets and segments created
          MaxKills   \* bound: processes killed

VARIABLES sem, sem_id,    \* the key's semaphore set; the one each process uses
          shm, shm_id,    \* contents of the segments; the one each process uses
          shm_removed,    \* segments removed from the system
          pc,             \* a waiting process is already where it goes on
          seen,           \* what each reader printed
          kills

memory == <<shm, shm_id, shm_removed>>
vars == <<sem, sem_id, memory, pc, seen, kills>>

Procs == Writers \union Readers

Init ==
    /\ sem = NoSemaphores(Procs) /\ sem_id = [p \in Procs |-> 0]
    /\ shm = <<>> /\ shm_id = [p \in Procs |-> 0] /\ shm_removed = {}
    /\ pc = [p \in Procs |-> "start"]
    /\ seen = [r \in Readers |-> "nothing"]
    /\ kills = 0

Ended == {"ended", "failed", "killed"}
Goto(p, from, to) == pc[p] = from /\ pc' = [pc EXCEPT ![p] = to]

\* A removed segment can still be attached as long as somebody has it attached.
SegmentIsThere == Len(shm) > 0 /\ Len(shm) \notin shm_removed
HasAttached(p) == pc[p] \in {"strcpy", "take", "zero", "clear_sem", "shmdt", "print", "add"}
CanAttach(id) == id \notin shm_removed \/ \E q \in Procs : shm_id[q] = id /\ HasAttached(q)

\* A call on the semaphore set p knows: there leads to next, or, when the set is
\* gone, to gone.  Who waits when the set is removed goes on with an error.
SemCall(p, from, newSem, next, gone) ==
    /\ pc[p] = from /\ p \notin Waiting(sem)
    /\ LET isThere == sem.live /\ sem.id = sem_id[p]
       IN /\ sem' = IF isThere THEN newSem ELSE sem
          /\ pc' = [q \in Procs |->
                      IF q = p THEN IF isThere THEN next ELSE gone
                      ELSE IF sem.live /\ ~sem'.live /\ q \in Waiting(sem) THEN "clear_sem"
                      ELSE pc[q]]
    /\ UNCHANGED <<sem_id, memory, seen>>

-----------------------------------------------------------------------------
\* task3.c

ShmGetCreate(w) ==
    /\ Goto(w, "start", "semget")
    /\ \/ SegmentIsThere /\ UNCHANGED shm
       \/ ~SegmentIsThere /\ Len(shm) < MaxSets /\ shm' = Append(shm, "empty")
    /\ shm_id' = [shm_id EXCEPT ![w] = Len(shm')]
    /\ UNCHANGED <<sem, sem_id, shm_removed, seen, kills>>

SemGetCreate(w) ==
    /\ Goto(w, "semget", "setall")
    /\ sem.live \/ sem.id < MaxSets
    /\ sem' = SemGet(sem) /\ sem_id' = [sem_id EXCEPT ![w] = sem'.id]
    /\ UNCHANGED <<memory, seen, kills>>

\* Mutant: the semaphore starts at 1.
SetAll_One(w) ==
    SemCall(w, "setall", SetVal(sem, 1), "shmat", "failed") /\ UNCHANGED kills
SetAll(w) == SemCall(w, "setall", SetVal(sem, 0), "shmat", "failed") /\ UNCHANGED kills

Attach(p, next) ==
    /\ Goto(p, "shmat", IF CanAttach(shm_id[p]) THEN next ELSE "failed")
    /\ UNCHANGED <<sem, sem_id, memory, seen, kills>>

CopyMessage(w) ==
    /\ Goto(w, "strcpy", "take")
    /\ shm' = [shm EXCEPT ![shm_id[w]] = "message"]
    /\ UNCHANGED <<sem, sem_id, shm_id, shm_removed, seen, kills>>

TakeOne(w) == SemCall(w, "take", Take(sem, w), "zero", "clear_sem") /\ UNCHANGED kills

\* The result of this semop is lost: both outcomes lead to clear_resources.
AwaitZero(w) ==
    SemCall(w, "zero", WaitForZero(sem, w), "clear_sem", "clear_sem") /\ UNCHANGED kills

ClearSemaphore(w) == SemCall(w, "clear_sem", RmId(sem), "shmdt", "shmdt") /\ UNCHANGED kills

\* Mutant: the segment is detached and not removed.
RemovedSegments_Kept(w) == shm_removed
RemovedSegments(w) == shm_removed \union {shm_id[w]}
ClearSegment(w) ==
    /\ Goto(w, "shmdt", "ended")
    /\ shm_removed' = RemovedSegments(w)
    /\ UNCHANGED <<sem, sem_id, shm, shm_id, seen, kills>>

-----------------------------------------------------------------------------
\* task4.c

ShmGetExisting(r) ==
    /\ Goto(r, "start", IF SegmentIsThere THEN "semget" ELSE "failed")
    /\ shm_id' = [shm_id EXCEPT ![r] = IF SegmentIsThere THEN Len(shm) ELSE 0]
    /\ UNCHANGED <<sem, sem_id, shm, shm_removed, seen, kills>>

AfterSemGet == IF sem.live THEN "shmat" ELSE "failed"
SemGetExisting(r) ==
    /\ Goto(r, "semget", AfterSemGet)
    /\ sem_id' = [sem_id EXCEPT ![r] = IF sem.live THEN sem.id ELSE 0]
    /\ UNCHANGED <<sem, memory, seen, kills>>

PrintMessage(r) ==
    /\ Goto(r, "print", "add")
    /\ seen' = [seen EXCEPT ![r] = shm[shm_id[r]]]
    /\ UNCHANGED <<sem, sem_id, memory, kills>>

\* Mutants: the increment without SEM_UNDO; no increment.
AddOne_Kept(r) ==
    SemCall(r, "add", Settle([sem EXCEPT !.val = @ + 1]), "exit", "exit") /\ UNCHANGED kills
AddOne_Forgotten(r) == SemCall(r, "add", sem, "exit", "exit") /\ UNCHANGED kills
AddOne(r) == SemCall(r, "add", Add(sem, r), "exit", "exit") /\ UNCHANGED kills

\* The process ends; the kernel undoes the increment.
ExitReader(r) == SemCall(r, "exit", Undo(sem, r), "ended", "ended") /\ UNCHANGED kills

\* A kill also ends a wait.
Kill(p) ==
    /\ kills < MaxKills /\ pc[p] \notin {"start"} \union Ended
    /\ pc' = [pc EXCEPT ![p] = "killed"]
    /\ sem' = IF sem.live /\ sem.id = sem_id[p] THEN Undo(sem, p) ELSE sem
    /\ kills' = kills + 1 /\ UNCHANGED <<sem_id, memory, seen>>

WriterStep(w) == \/ SemGetCreate(w) \/ SetAll(w) \/ Attach(w, "strcpy") \/ CopyMessage(w)
                 \/ TakeOne(w) \/ AwaitZero(w) \/ ClearSemaphore(w) \/ ClearSegment(w)
ReaderStep(r) == \/ SemGetExisting(r) \/ Attach(r, "print") \/ PrintMessage(r)
                 \/ AddOne(r) \/ ExitReader(r)

Next ==
    \/ \E w \in Writers : ShmGetCreate(w) \/ WriterStep(w) \/ Kill(w)
    \/ \E r \in Readers : ShmGetExisting(r) \/ ReaderStep(r) \/ Kill(r)

Spec == Init /\ [][Next]_vars
=============================================================================
