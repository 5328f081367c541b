------------------------ MODULE SharedMessageProps --------------------------
(* The properties of SharedMessage. *)
EXTENDS SharedMessage

\* A writer's decrement succeeds only after a reader has printed: no increment
\* comes from anywhere else, whoever is killed and undone (task3.c:103-104,
\* task4.c:46-48).
NobodyPassesUnread ==
    \A w \in Writers : (pc[w] = "zero" /\ w \notin Waiting(sem)) \/ w \in sem.zeros
                         => \E r \in Readers : seen[r] # "nothing"

\* When all processes have ended in the ordinary way and the writers reached
\* clear_resources, the set and the segment are gone (task3.c:119-123).
NothingIsLeft ==
    (\A r \in Readers : pc[r] \in {"ended", "failed"}) /\ (\A w \in Writers : pc[w] = "ended")
        => ~sem.live /\ ~SegmentIsThere

\* A writer waits for zero only while a reader has an increment that its exit
\* will undo, so the zero comes; a killed writer is the exception, whose undone
\* decrement nobody takes back (task3.c:100,111-112, task4.c:48).
ZeroWillCome ==
    sem.zeros # {} => \/ \E r \in Readers : sem.adj[r] < 0
                      \/ \E w \in Writers : pc[w] = "killed"

\* A writer that waits for the decrement when a reader of its set comes to the
\* increment goes on and ends (task3.c:104-125, task4.c:48).
WaitingWriterEnds ==
    \A w \in Writers, r \in Readers :
        (w \in Range(sem.takers) /\ pc[r] = "add" /\ sem_id[r] = sem.id)
            ~> (pc[w] = "ended" \/ \E p \in Writers \union {r} : pc[p] = "killed")
=============================================================================
