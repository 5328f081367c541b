------------------------------ MODULE MsgQueue ------------------------------
(***************************************************************************)
(* System V message queues as the programs of dz8 use them: msgsnd with    *)
(* flags 0 (it waits for room) and msgrcv with flags 0 and a type >= 0 (it *)
(* waits for a message).  A queue is the sequence of its messages, oldest  *)
(* first; a message is a record with a field "type".  External code: the   *)
(* operators are written from the calls the programs make.                 *)
(***************************************************************************)
EXTENDS Integers, SequencesExt

\* msgrcv's msgtyp: 0 accepts every message, a positive type only its own.
Matches(m, msgtyp) == msgtyp = 0 \/ m.type = msgtyp

HasMessage(q, msgtyp) == \E i \in 1..Len(q) : Matches(q[i], msgtyp)

FirstMatch(q, msgtyp) == SelectInSeq(q, LAMBDA m : Matches(m, msgtyp))

\* What msgrcv returns, and the queue it leaves behind.
Received(q, msgtyp) == q[FirstMatch(q, msgtyp)]
Remaining(q, msgtyp) == RemoveAt(q, FirstMatch(q, msgtyp))

\* The messages at the places of P, oldest first, and those of one type.
Below(P, i)  == {j \in P : j < i}
Nth(P, k)    == CHOOSE i \in P : Cardinality(Below(P, i)) = k - 1
Picked(q, P) == [k \in 1..Cardinality(P) |-> q[Nth(P, k)]]
OfType(q, msgtyp) == Picked(q, {i \in DOMAIN q : q[i].type = msgtyp})

\* msgsnd refuses a type below 1 (EINVAL) before it looks at the room.
ValidType(type) == type > 0

\* msgsnd waits until the bytes queued and its own fit in the queue; sizes are
\* those of the messages queued.
Bytes(sizes) == FoldSeq(LAMBDA size, sum : size + sum, 0, sizes)
Fits(sizes, size, capacity) == Bytes(sizes) + size <= capacity
=============================================================================
