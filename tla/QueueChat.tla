----------------------------- MODULE QueueChat ------------------------------
(***************************************************************************)
(* dz8/task2.c: a chat over one queue.  Every instance is given the number *)
(* it receives under and the number it sends to, and forks: the parent     *)
(* sends the lines of its user and, at the end of input, an empty last     *)
(* message; the child prints what arrives under its number until it        *)
(* receives an empty message.  Nobody ever removes the queue.              *)
(***************************************************************************)
EXTENDS MsgQueue, FiniteSets

CONSTANTS Instances,
          ReadType, WriteType,  \* argv[1] and argv[2] of each instance
          QueueBytes,           \* capacity of the queue, in texts
          MaxLines,             \* bound: lines typed at one instance
          MaxKills              \* bound: instances killed

VARIABLES queue,
          parent, child,  \* where the sending and the receiving process are
          typed,          \* lines typed at each instance
          printed,        \* what each child printed
          kills

vars == <<queue, parent, child, typed, printed, kills>>

Message(i, n) == [type |-> WriteType[i], from |-> i, n |-> n]
Empty(m)      == m.n = 0
SizeOf(m)     == IF Empty(m) THEN 0 ELSE 1

Init ==
    /\ queue = <<>> /\ kills = 0
    /\ parent = [i \in Instances |-> "off"] /\ child = [i \in Instances |-> "off"]
    /\ typed = [i \in Instances |-> 0] /\ printed = [i \in Instances |-> <<>>]

ParentGoto(i, from, to) == parent[i] = from /\ parent' = [parent EXCEPT ![i] = to]

\* A failed fork is taken for the parent's branch: there is no child.
Start(i) ==
    /\ ParentGoto(i, "off", "read")
    /\ child' \in {[child EXCEPT ![i] = "receive"], [child EXCEPT ![i] = "not_forked"]}
    /\ UNCHANGED <<queue, typed, printed, kills>>

ReadLine(i) ==
    /\ ParentGoto(i, "read", "send")
    /\ typed[i] < MaxLines /\ typed' = [typed EXCEPT ![i] = @ + 1]
    /\ UNCHANGED <<queue, child, printed, kills>>

EndOfInput(i) ==
    /\ ParentGoto(i, "read", "last")
    /\ UNCHANGED <<queue, child, typed, printed, kills>>

Send(m) ==
    /\ ValidType(m.type)
    /\ Fits([k \in DOMAIN queue |-> SizeOf(queue[k])], SizeOf(m), QueueBytes)
    /\ queue' = Append(queue, m)

SendLine(i) ==
    /\ ParentGoto(i, "send", "read")
    /\ Send(Message(i, typed[i]))
    /\ UNCHANGED <<child, typed, printed, kills>>

\* Mutant: the last message is forgotten.
SendLast_Forgotten(i) == ParentGoto(i, "last", "waitpid") /\ UNCHANGED <<queue, child, typed, printed, kills>>
SendLast(i) ==
    /\ ParentGoto(i, "last", "waitpid")
    /\ Send(Message(i, 0))
    /\ UNCHANGED <<child, typed, printed, kills>>

\* The kernel refuses the number 0: SendMsg returns without a last message.
SendFails(i) ==
    /\ parent[i] \in {"send", "last"} /\ ~ValidType(WriteType[i])
    /\ parent' = [parent EXCEPT ![i] = "waitpid"]
    /\ UNCHANGED <<queue, child, typed, printed, kills>>

\* waitpid; without a child it fails at once.
Exit(i) ==
    /\ ParentGoto(i, "waitpid", "ended") /\ child[i] \in {"ended", "not_forked"}
    /\ UNCHANGED <<queue, child, typed, printed, kills>>

\* Mutant: the child receives what is oldest.
ReceiveNumber_Any(i) == 0
ReceiveNumber(i) == ReadType[i]

ReceiveMsg(i) ==
    /\ child[i] = "receive" /\ HasMessage(queue, ReceiveNumber(i))
    /\ queue' = Remaining(queue, ReceiveNumber(i))
    /\ LET m == Received(queue, ReceiveNumber(i)) IN
        IF Empty(m)
        THEN child' = [child EXCEPT ![i] = "ended"] /\ UNCHANGED printed
        ELSE printed' = [printed EXCEPT ![i] = Append(@, m)] /\ UNCHANGED child
    /\ UNCHANGED <<parent, typed, kills>>

\* A key typed at the terminal kills both processes of the instance.
Kill(i) ==
    /\ kills < MaxKills /\ parent[i] \notin {"off", "ended", "killed"}
    /\ kills' = kills + 1
    /\ parent' = [parent EXCEPT ![i] = "killed"]
    /\ child' = [child EXCEPT ![i] = IF @ = "receive" THEN "killed" ELSE @]
    /\ UNCHANGED <<queue, typed, printed>>

\* What a started process does by itself; users owe nothing.
Sending(i) == SendLine(i) \/ SendLast(i) \/ SendFails(i) \/ Exit(i)

Next ==
    \E i \in Instances :
        Start(i) \/ ReadLine(i) \/ EndOfInput(i) \/ Sending(i) \/ ReceiveMsg(i) \/ Kill(i)

-----------------------------------------------------------------------------
\* One last message ends one child: under every number, the children ended and
\* the empty messages still queued are as many as the parents that sent one.  An
\* instance that shares its number with another can therefore wait for ever
\* (task2.c:88, 105-110).
OneEndForOneLast ==
    \A t \in Range(WriteType) \ {0} :
        LET Writers(places) == {i \in Instances : WriteType[i] = t /\ parent[i] \in places}
            Ended   == {i \in Instances : ReadType[i] = t /\ child[i] = "ended"}
            Queued  == {m \in Range(queue) : m.type = t /\ Empty(m)}
        IN Cardinality(Ended) + Cardinality(Queued) \in
              Cardinality(Writers({"waitpid", "ended"}))
                .. Cardinality(Writers({"waitpid", "ended", "killed"}))

\* Once the two users of a pair have ended their input both instances end, unless
\* somebody is killed, a fork failed or a third instance takes part
\* (task2.c:59-63, 88-97).
BothEnd(i, j) ==
    {parent[i], parent[j]} \subseteq {"last", "waitpid", "ended"}
        ~> \/ parent[i] = "ended" /\ parent[j] = "ended"
           \/ kills > 0 \/ "not_forked" \in {child[i], child[j]}
           \/ \E k \in Instances \ {i, j} : parent[k] # "off"
=============================================================================
