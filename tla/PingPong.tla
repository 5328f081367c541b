------------------------------ MODULE PingPong ------------------------------
(***************************************************************************)
(* dz6/task5.c ("not finished"): players that take turns at a number in    *)
(* shared memory.  A turn decrements a semaphore, adds one to the number,  *)
(* increments the semaphore and waits until another player has taken that  *)
(* increment.  Each player sets the semaphore to 0 when it starts and      *)
(* nothing in the program makes the first increment: it comes from outside *)
(* (a reader of task4.c uses the same key).  A failed semop is noted in    *)
(* error_occured, which the loop never looks at.                           *)
(***************************************************************************)
EXTENDS Semaphores, FiniteSets

CONSTANTS Players, Kickers,
          NoOne,
          MaxNum,      \* bound: turns begun before the number has this value
          MaxFaults    \* bound: players killed, sets removed, kicks after the first

VARIABLES sem,           \* the key's semaphore set
          pc,            \* a waiting player is already where it goes on
          shmem_num,     \* the number in shared memory
          num,           \* what each player has read
          last,          \* who wrote last
          kicked,        \* kickers that have made their increment
          removed

numbers == <<shmem_num, num, last>>
outside == <<kicked, removed>>
vars == <<sem, pc, numbers, outside>>

Init ==
    /\ sem = NoSemaphores(Players \union Kickers)
    /\ pc = [p \in Players |-> "start"]
    /\ shmem_num = 0 /\ num = [p \in Players |-> 0] /\ last = NoOne
    /\ kicked = {} /\ removed = FALSE

Goto(p, from, to) == /\ pc[p] = from /\ p \notin Waiting(sem)
                     /\ pc' = [pc EXCEPT ![p] = to]

\* semop of a player, with its error ignored.
SemOp(p, from, to, newSem) ==
    /\ Goto(p, from, to) /\ sem' = IF sem.live THEN newSem ELSE sem
    /\ UNCHANGED <<numbers, outside>>

CtorGet(p) ==
    /\ Goto(p, "start", "setall")
    /\ ~removed /\ sem' = SemGet(sem) /\ UNCHANGED <<numbers, outside>>

\* Mutant: the constructor lets the first player in.
InitialValue_One == 1
InitialValue == 0

\* SETALL, and then shmget and shmat.
CtorSet(p) ==
    /\ Goto(p, "setall", IF sem.live THEN "enter" ELSE "failed")
    /\ sem' = IF sem.live THEN SetVal(sem, InitialValue) ELSE sem
    /\ UNCHANGED <<numbers, outside>>

Enter(p) == shmem_num < MaxNum /\ SemOp(p, "enter", "read", Take(sem, p))

Read(p) == /\ Goto(p, "read", "write") /\ num' = [num EXCEPT ![p] = shmem_num]
           /\ UNCHANGED <<sem, shmem_num, last, outside>>

Write(p) == /\ Goto(p, "write", "exit") /\ shmem_num' = num[p] + 1 /\ last' = p
            /\ num' = [num EXCEPT ![p] = 0]
            /\ UNCHANGED <<sem, outside>>

\* Mutant: sem_op is 0, as in CriticalSectionWait.
Exit_Forgotten(p) == SemOp(p, "exit", "wait", sem)
Exit(p) == SemOp(p, "exit", "wait", Add(sem, p))

\* Mutant: the wait is left out.
Wait_Not(p) == SemOp(p, "wait", "enter", sem)
Wait(p) == SemOp(p, "wait", "enter", WaitForZero(sem, p))

-----------------------------------------------------------------------------
\* A reader of task4.c finds set and segment, increments, and exits.

killed == {p \in Players : pc[p] = "killed"}
MoreFaults == Cardinality(killed) + Max({0, Cardinality(kicked) - 1})
                  + (IF removed THEN 1 ELSE 0) < MaxFaults

Attached(p) == pc[p] \notin {"start", "setall", "failed", "killed"}

Kick(k) ==
    /\ k \notin kicked /\ (kicked = {} \/ MoreFaults) /\ sem.live /\ \E p \in Players : Attached(p)
    /\ kicked' = kicked \union {k} /\ sem' = Add(sem, k)
    /\ UNCHANGED <<pc, numbers, removed>>

KickerExits(k) == /\ sem.adj[k] # 0 /\ sem' = Undo(sem, k)
                  /\ UNCHANGED <<pc, numbers, outside>>

Kill(p) ==
    /\ MoreFaults /\ pc[p] \notin {"start", "failed", "killed"}
    /\ pc' = [pc EXCEPT ![p] = "killed"] /\ num' = [num EXCEPT ![p] = 0]
    /\ sem' = IF sem.live THEN Undo(sem, p) ELSE sem
    /\ UNCHANGED <<shmem_num, last, outside>>

\* The set is removed: by a writer of task3.c, or with ipcrm.  Bound: then no other
\* player starts.
RemoveSet == /\ MoreFaults /\ sem.live /\ removed' = TRUE /\ sem' = RmId(sem)
             /\ UNCHANGED <<pc, numbers, kicked>>

Turn(p) == CtorSet(p) \/ Enter(p) \/ Read(p) \/ Write(p) \/ Exit(p) \/ Wait(p)

Next == \/ \E p \in Players : CtorGet(p) \/ Turn(p) \/ Kill(p)
        \/ \E k \in Kickers : Kick(k) \/ KickerExits(k)
        \/ RemoveSet

Spec == Init /\ [][Next]_vars

-----------------------------------------------------------------------------
Inside == {p \in Players : pc[p] \in {"read", "write", "exit"} /\ p \notin Waiting(sem)}
OneKick == Cardinality(kicked) <= 1 /\ ~removed

\* One increment from outside lets one player in at a time, whoever starts late,
\* is killed and undone: no update of the number is lost.  A second increment or
\* a removed set, whose error nobody looks at, lets two in (task5.c:70-79,98,
\* 115-118).
NoUpdateIsLost == OneKick => \A p \in Players : pc[p] = "write" => num[p] = shmem_num

\* Unless a player was killed nobody has two turns in a row (task5.c:79-82).
TurnsAlternate ==
    [][last' # last \/ shmem_num' = shmem_num \/ killed # {} \/ ~OneKick]_vars

\* While a player has its turn, every other that waits for one will get it: no
\* increment is lost, though each start sets the semaphore to 0
\* (task5.c:70,79,98).
WaiterGetsATurn ==
    \A p \in Players :
        (p \in Range(sem.takers) /\ Inside # {})
            ~> (p \notin Range(sem.takers) \/ killed # {} \/ removed)
=============================================================================
