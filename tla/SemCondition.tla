---------------------------- MODULE SemCondition ----------------------------
(***************************************************************************)
(* dz6/task1.c and task2.c: programs that meet at a semaphore.  A taker    *)
(* sets it to 1 and decrements it, a giver increments it, both without     *)
(* waiting; who succeeds prints and removes the semaphore, who fails just  *)
(* exits.                                                                  *)
(***************************************************************************)
EXTENDS Integers

CONSTANTS Takers, Givers,
          MaxSets   \* bound: semaphore sets created

VARIABLES key,     \* the set the key stands for, 0 if none
          sets,    \* sets created so far
          val,     \* the semaphore of the key's set
          semid, pc

vars == <<key, sets, val, semid, pc>>

Procs == Takers \union Givers

Init == /\ key = 0 /\ sets = 0 /\ val = 0
        /\ semid = [p \in Procs |-> 0] /\ pc = [p \in Procs |-> "semget"]

Goto(p, from, to) == pc[p] = from /\ pc' = [pc EXCEPT ![p] = to]
IsThere(p) == key = semid[p]

\* A new semaphore has the value 0.
SemGet(p) ==
    /\ Goto(p, "semget", IF p \in Takers THEN "setval" ELSE "semop")
    /\ \/ key # 0 /\ UNCHANGED <<key, sets, val>>
       \/ key = 0 /\ sets < MaxSets /\ sets' = sets + 1 /\ key' = sets' /\ val' = 0
    /\ semid' = [semid EXCEPT ![p] = key']

\* On a removed set this fails, which is not looked at.
SetVal(p) ==
    /\ Goto(p, "setval", "semop")
    /\ val' = IF IsThere(p) THEN 1 ELSE val
    /\ UNCHANGED <<key, sets, semid>>

\* semop with IPC_NOWAIT.
Change(p) == IF p \in Takers THEN -1 ELSE 1
Succeeds(p) == IsThere(p) /\ val + Change(p) >= 0

SemOp(p) ==
    /\ Goto(p, "semop", IF Succeeds(p) THEN "inside" ELSE "failed")
    /\ val' = IF Succeeds(p) THEN val + Change(p) ELSE val
    /\ UNCHANGED <<key, sets, semid>>

\* Mutant: only a taker removes the semaphore.
AfterRmId_Takers(p) == IF IsThere(p) /\ p \in Takers THEN 0 ELSE key

AfterRmId(p) == IF IsThere(p) THEN 0 ELSE key

PrintAndRemove(p) ==
    /\ Goto(p, "inside", "ended")
    /\ key' = AfterRmId(p)
    /\ UNCHANGED <<sets, val, semid>>

Next == \E p \in Procs : SemGet(p) \/ SetVal(p) \/ SemOp(p) \/ PrintAndRemove(p)

Spec == Init /\ [][Next]_vars

\* When all have come to their end the semaphore is gone: who fails does not
\* remove it, but then somebody who succeeded does (task1.c:42-51,
\* task2.c:36-45).
NothingIsLeft == (\A p \in Procs : pc[p] \in {"failed", "ended"}) => key = 0

\* "1 = a binary semaphore, only one process at a time has access" (task1.c:22).
OneAtATime == \A p, q \in Takers : pc[p] = "inside" /\ pc[q] = "inside" => p = q
=============================================================================
