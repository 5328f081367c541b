------------------------------ MODULE MCQueues ------------------------------
(***************************************************************************)
(* Small instances of the programs of dz8 that share a queue, the sender   *)
(* and receiver and the chat.  They are two assignments, each a pair of    *)
(* programs of its own; both use the key of queue_meow, and what happens   *)
(* when they run at the same time is left out: a behaviour is one of one   *)
(* of them.                                                                *)
(***************************************************************************)
EXTENDS ProducerConsumer, TLC

CONSTANTS a, b, third,
          Instances, ReadType, WriteType, ChatBytes, MaxLines, MaxChatKills   \* QueueChat

VARIABLES program,
          queue, parent, child, typed, shown, chat_kills   \* QueueChat

\* a and b talk to each other; the third listens to a's number and has no valid number
\* to talk to.
MCReadType == (a :> 1) @@ (b :> 2) @@ (third :> 1)
MCWriteType == (a :> 2) @@ (b :> 1) @@ (third :> 0)

\* Nobody receives under the number 0, which stands for any, and a's number for b
\* is known to nobody else.
ASSUME QueueChatAssumption ==
    /\ IsFiniteSet(Instances) /\ a \in Instances /\ b \in Instances
    /\ WriteType \in [Instances -> Nat] /\ ReadType \in [Instances -> Nat \ {0}]
    /\ WriteType[a] = ReadType[b]
    /\ \A x \in Instances \ {a} : WriteType[x] # WriteType[a]
    /\ \A x \in Instances \ {b} : ReadType[x] # ReadType[b]

Chat == INSTANCE QueueChat WITH
    QueueBytes <- ChatBytes, MaxKills <- MaxChatKills, printed <- shown, kills <- chat_kills

chatVars == <<queue, parent, child, typed, shown, chat_kills>>
allVars == <<program, vars, chatVars>>

MCInit == program \in {"texts", "chat"} /\ Init /\ Chat!Init

IsTexts == program = "texts" /\ UNCHANGED <<program, chatVars>>
IsChat == program = "chat" /\ UNCHANGED <<program, vars>>

MCNext == (IsTexts /\ Next) \/ (IsChat /\ Chat!Next)

MCSpec == MCInit /\ [][MCNext]_allVars

\* A process that runs goes on; nobody has to start, to type or to kill.
FairSpec ==
    /\ MCSpec
    /\ \A s \in Senders : WF_allVars(IsTexts /\ Sending(s))
    /\ \A r \in Receivers : WF_allVars(IsTexts /\ Receiving(r))
    /\ \A x \in Instances : /\ WF_allVars(IsChat /\ Chat!Sending(x))
                            /\ WF_allVars(IsChat /\ Chat!ReceiveMsg(x))

-----------------------------------------------------------------------------
\* The line from a to b.
OnLine == Picked(queue, {k \in DOMAIN queue : queue[k].from = a /\ ~Chat!Empty(queue[k])})
Line == INSTANCE ChatLine WITH
    wire <- [k \in DOMAIN OnLine |-> OnLine[k].n],
    read <- IF shown[b] = <<>> THEN 0 ELSE shown[b][Len(shown[b])].n,
    closed <- Chat!Message(a, 0) \in Range(queue) \/ child[b] = "ended",
    left <- child[b] = "ended"

\* One last message ends one child, whoever shares a number
\* (task2.c:88,105-110).
OneEndForOneLast == Chat!OneEndForOneLast

\* A LAST message in a queue that somebody reads ends the queue, unless whoever
\* would have to do it is killed, and two users who end their input come to an end
\* together (task1_2.c:29-46, task2.c:59-63).
EndsAreReached == EndIsReached /\ Chat!BothEnd(a, b)

\* From a to b the chat implements a ChatLine, whatever the third instance does
\* and whoever is killed: b's child leaves only after it has printed everything
\* a typed (task2.c:73-121).
ChatIsALine == Line!Spec
=============================================================================
