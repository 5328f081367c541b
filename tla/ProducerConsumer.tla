-------------------------- MODULE ProducerConsumer --------------------------
(***************************************************************************)
(* dz8/task1_1.c and task1_2.c: senders put a few texts and then a LAST    *)
(* message into one queue; a receiver prints texts until it takes a LAST   *)
(* message, and then removes the queue from the system.  Any number of     *)
(* either may run, in any order; whoever finds no queue creates one, so    *)
(* queues of the same key follow one another under different identifiers. *)
(***************************************************************************)
EXTENDS MsgQueue, FiniteSets

CONSTANTS Senders, Receivers,
          NTexts,      \* texts of one sender; 5 in the code
          QueueBytes,  \* capacity of a queue, in texts
          NoMessage,   \* a receiver's buffer before its first message
          MaxQueues,   \* bound: queues created
          MaxKills     \* bound: processes killed

VARIABLES queues,   \* contents of each queue, by identifier
          removed,  \* identifiers of the queues removed from the system
          pc, msqid, \* each process: where it is, the queue it has attached
          i,        \* each sender's loop counter
          mybuf, printed,  \* each receiver: its buffer, its output
          kills

vars == <<queues, removed, pc, msqid, i, mybuf, printed, kills>>

LAST_MESSAGE == 255
Text(s, n) == [type |-> IF n > NTexts THEN LAST_MESSAGE ELSE 1, from |-> s, n |-> n]
SizeOf(m)  == IF m.type = LAST_MESSAGE THEN 0 ELSE 1

Init ==
    LET Processes == Senders \union Receivers IN
    /\ queues = <<>> /\ removed = {} /\ kills = 0
    /\ pc = [p \in Processes |-> "start"] /\ msqid = [p \in Processes |-> 0]
    /\ i = [s \in Senders |-> 1]
    /\ mybuf = [r \in Receivers |-> NoMessage] /\ printed = [r \in Receivers |-> <<>>]

Goto(p, from, to) == pc[p] = from /\ pc' = [pc EXCEPT ![p] = to]

\* msgget with IPC_CREAT: the key's queue, or a new one if it was removed.
Current == Len(queues)
Attach(p) ==
    /\ Goto(p, "start", IF p \in Senders THEN "send" ELSE "receive")
    /\ IF Current \in removed \union {0}
       THEN Current < MaxQueues /\ queues' = Append(queues, <<>>)
       ELSE UNCHANGED queues
    /\ msqid' = [msqid EXCEPT ![p] = Len(queues')]
    /\ UNCHANGED <<removed, i, mybuf, printed, kills>>

Gone(p) == msqid[p] \in removed

\* The loop counter after a text.  Mutants: the loop ends one text early; a
\* text is sent again.
NextTexts_Skips(n) == {n + 2}
NextTexts_Again(n) == {n, n + 1}
NextTexts(n) == {n + 1}

\* The NTexts texts and, after the loop, the LAST message.
Send(s) ==
    LET q == queues[msqid[s]] IN
    /\ Goto(s, "send", IF i[s] > NTexts THEN "done" ELSE "send") /\ ~Gone(s)
    /\ Fits([k \in DOMAIN q |-> SizeOf(q[k])], SizeOf(Text(s, i[s])), QueueBytes)
    /\ queues' = [queues EXCEPT ![msqid[s]] = Append(q, Text(s, i[s]))]
    /\ \E n \in NextTexts(i[s]) : i' = [i EXCEPT ![s] = n]
    /\ UNCHANGED <<removed, msqid, mybuf, printed, kills>>

\* msgsnd fails only on a removed queue, and the sender removes its identifier.
\* That finds nothing to remove, so the two calls are one step.
\* Mutant: it removes the queue the key stands for now.
RemovedOnFailure_Current(s) == {Current}
RemovedOnFailure(s) == {msqid[s]}
SendFails(s) ==
    /\ Goto(s, "send", "failed") /\ Gone(s)
    /\ removed' = removed \union RemovedOnFailure(s)
    /\ UNCHANGED <<queues, msqid, i, mybuf, printed, kills>>

\* msgrcv's type: the oldest message whatever it is.  Mutant: only texts.
ReceiveType_Texts == 1
ReceiveType == 0

Receive(r) ==
    LET q == queues[msqid[r]] IN
    /\ Goto(r, "receive", "received") /\ ~Gone(r) /\ HasMessage(q, ReceiveType)
    /\ queues' = [queues EXCEPT ![msqid[r]] = Remaining(q, ReceiveType)]
    /\ mybuf' = [mybuf EXCEPT ![r] = Received(q, ReceiveType)]
    /\ UNCHANGED <<removed, msqid, i, printed, kills>>

TookLast(r) == mybuf[r] # NoMessage /\ mybuf[r].type = LAST_MESSAGE

\* What was taken is dealt with in a step of its own: the others, and a kill, may
\* come in between.
RemoveQueue(r) ==
    /\ Goto(r, "received", "done") /\ TookLast(r)
    /\ removed' = removed \union {msqid[r]}
    /\ UNCHANGED <<queues, msqid, i, mybuf, printed, kills>>

PrintText(r) ==
    /\ Goto(r, "received", "receive") /\ ~TookLast(r)
    /\ printed' = [printed EXCEPT ![r] = Append(@, mybuf[r])]
    /\ UNCHANGED <<queues, removed, msqid, i, mybuf, kills>>

ReceiveFails(r) ==
    /\ Goto(r, "receive", "failed") /\ Gone(r)
    /\ UNCHANGED <<queues, removed, msqid, i, mybuf, printed, kills>>

Kill(p) ==
    /\ kills < MaxKills /\ kills' = kills + 1
    /\ pc[p] \in {"send", "receive", "received"} /\ pc' = [pc EXCEPT ![p] = "killed"]
    /\ UNCHANGED <<queues, removed, msqid, i, mybuf, printed>>

\* What a process that runs does by itself.
Sending(s) == Send(s) \/ SendFails(s)
Receiving(r) == Receive(r) \/ RemoveQueue(r) \/ PrintText(r) \/ ReceiveFails(r)

Next ==
    \/ \E p \in Senders \union Receivers : Attach(p) \/ Kill(p)
    \/ \E s \in Senders : Sending(s)
    \/ \E r \in Receivers : Receiving(r)

Spec == Init /\ [][Next]_vars

-----------------------------------------------------------------------------
\* Whoever has taken a sender's LAST message leaves none of its texts behind in a
\* queue: each of them has been printed, by it or by others, or is in the buffer
\* of a receiver that is about to print it or was killed with it
\* (task1_2.c:31-48, task1_1.c:30-47).
LastMeansAll ==
    \A r \in Receivers : TookLast(r) =>
        \A n \in 1..NTexts : \E other \in Receivers :
            \/ Text(mybuf[r].from, n) \in Range(printed[other])
            \/ mybuf[other] = Text(mybuf[r].from, n) /\ pc[other] \in {"received", "killed"}

\* Every text is printed at most once, and one receiver prints a sender's texts
\* in the order they were sent (task1_2.c:31-48).
PrintedOnceInOrder ==
    /\ \A r \in Receivers : \A k, l \in DOMAIN printed[r] :
          k < l /\ printed[r][k].from = printed[r][l].from => printed[r][k].n < printed[r][l].n
    /\ \A r, other \in Receivers :
          r # other => Range(printed[r]) \intersect Range(printed[other]) = {}

\* A queue is only ever removed by a receiver that took a LAST message from it;
\* what a failing sender removes is already gone (task1_1.c:36-41).
OnlyTheEndRemoves ==
    \A q \in removed : \E r \in Receivers : pc[r] = "done" /\ msqid[r] = q

\* When a LAST message stands in a queue that a receiver is reading, the queue is
\* removed in the end, unless that receiver is killed, or another one after it
\* has taken a LAST message and before it has removed the queue: nobody is left
\* to do it then (task1_2.c:29-46).
EndIsReached ==
    \A q \in 1..MaxQueues, r \in Receivers :
        (/\ pc[r] \in {"receive", "received"} /\ msqid[r] = q
         /\ \E m \in Range(queues[q]) : m.type = LAST_MESSAGE)
            ~> \/ q \in removed \/ pc[r] = "killed"
               \/ \E x \in Receivers : pc[x] = "killed" /\ msqid[x] = q /\ TookLast(x)
=============================================================================
