----------------------------- MODULE Semaphores -----------------------------
(***************************************************************************)
(* System V semaphore sets of one semaphore, as the programs of dz6 use    *)
(* them.  sem is the set that the key stands for:                          *)
(*   live, id  whether it exists, and its identifier                       *)
(*   val       the semaphore's value                                       *)
(*   adj       what the kernel will add for each process when it exits     *)
(*   takers    processes waiting to decrement, in order of arrival         *)
(*   zeros     processes waiting for the value to be zero                  *)
(* External code: the operators are written from the calls in dz6 (one     *)
(* semaphore, steps of 1, waiting operations with SEM_UNDO).  The kernel   *)
(* completes waiting operations in the very call that makes them possible. *)
(***************************************************************************)
EXTENDS Integers, SequencesExt

NoSemaphores(Procs) == [live |-> FALSE, id |-> 0, val |-> 0,
                        adj |-> [p \in Procs |-> 0], takers |-> <<>>, zeros |-> {}]

Waiting(sem) == Range(sem.takers) \union sem.zeros

\* Waiting decrements are served first come, first served; then, at zero, all
\* who wait for zero.
Settle(sem) ==
    LET n == Min({sem.val, Len(sem.takers)})
        served == {sem.takers[k] : k \in 1..n}
    IN [sem EXCEPT !.val = @ - n,
                   !.takers = SubSeq(@, n + 1, Len(@)),
                   !.adj = [p \in DOMAIN @ |-> IF p \in served THEN @[p] + 1 ELSE @[p]],
                   !.zeros = IF sem.val = n THEN {} ELSE @]

\* semget with IPC_CREAT.
SemGet(sem) == IF sem.live THEN sem
               ELSE [NoSemaphores(DOMAIN sem.adj) EXCEPT !.live = TRUE, !.id = sem.id + 1]

\* semctl with SETVAL or SETALL also forgets every adjustment.
SetVal(sem, v) == Settle([sem EXCEPT !.val = v, !.adj = [p \in DOMAIN @ |-> 0]])

\* semctl with IPC_RMID wakes everybody who waits.
RmId(sem) == [NoSemaphores(DOMAIN sem.adj) EXCEPT !.id = sem.id]

\* semop with sem_op 1, -1 and 0 and SEM_UNDO.
Add(sem, p)  == Settle([sem EXCEPT !.val = @ + 1, !.adj[p] = @ - 1])
Take(sem, p) == Settle([sem EXCEPT !.takers = Append(@, p)])
WaitForZero(sem, p) == IF sem.val = 0 THEN sem ELSE [sem EXCEPT !.zeros = @ \union {p}]

\* The end of a process: it waits no more and its operations are undone, but the
\* value never falls below zero.
Undo(sem, p) ==
    Settle([sem EXCEPT !.val = Max({0, @ + sem.adj[p]}), !.adj[p] = 0,
                       !.takers = RemoveFirst(@, p), !.zeros = @ \ {p}])
=============================================================================
