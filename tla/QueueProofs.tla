---------------------------- MODULE QueueProofs ----------------------------
(***************************************************************************)
(* The programs of dz8 that share a queue.  The sender and receiver for    *)
(* any number of processes, of texts, of queues and of kills: only a       *)
(* receiver that took a LAST message ends a queue, no text is printed      *)
(* twice or out of order, and nothing of a sender is left in a queue       *)
(* behind its LAST message.  The chat for any number of instances, lines   *)
(* and kills: one last message ends one child, and between two users whose *)
(* numbers nobody else has it is a ChatLine, whoever is killed.            *)
(***************************************************************************)
EXTENDS MCQueues, SystemVProofs, FiniteSetTheorems

-----------------------------------------------------------------------------
\* ProducerConsumer.

\* A program is a sender or a receiver; a sender has a fixed number of texts; an
\* unused buffer is told apart from a message.
Roles ==
    /\ Senders \intersect Receivers = {} /\ NTexts \in Nat
    /\ NoMessage \notin {Text(s, n) : s \in Senders, n \in 1..NTexts + 1}

Processes == Senders \union Receivers
Texts     == {Text(s, n) : s \in Senders, n \in 1..NTexts}
Messages  == {Text(s, n) : s \in Senders, n \in 1..NTexts + 1}

\* What a receiver has taken out of a queue: what it has printed, and the text in
\* its buffer until that is printed too.
Holds(r) == mybuf[r] \in Texts \ Range(printed[r])
taken == [r \in Receivers |-> IF Holds(r) THEN Append(printed[r], mybuf[r]) ELSE printed[r]]

TypeOK ==
    /\ queues \in Seq(Seq(Messages))
    /\ removed \subseteq 1..Len(queues)
    /\ pc \in [Processes -> {"start", "send", "receive", "received", "done", "failed", "killed"}]
    /\ msqid \in [Processes -> Nat]
    /\ i \in [Senders -> 1..NTexts + 2]
    /\ mybuf \in [Receivers -> Messages \union {NoMessage}]
    /\ printed \in [Receivers -> Seq(Texts)] /\ taken \in [Receivers -> Seq(Texts)]

\* Who has started has a queue; a sender that has sent something has started,
\* and sends on until its LAST message is out.
Attached ==
    /\ \A p \in Processes : pc[p] # "start" => msqid[p] \in 1..Len(queues)
    /\ \A s \in Senders : /\ i[s] > 1 => pc[s] # "start"
                          /\ pc[s] \in {"start", "send"} => i[s] <= NTexts + 1
                          /\ pc[s] \notin {"receive", "received"}
    /\ \A r \in Receivers : pc[r] # "send"

\* A message stands in the queue its sender has attached.
Queued(s, n) ==
    \E k \in 1..Len(queues[msqid[s]]) : queues[msqid[s]][k] = Text(s, n)
HasTaken(s, n) ==
    \E r \in Receivers : \E k \in 1..Len(taken[r]) : taken[r][k] = Text(s, n)

\* What a sender has sent stands in its queue, in the order it was sent.
QueuesInOrder ==
    \A q \in 1..Len(queues) : \A k \in 1..Len(queues[q]) :
        /\ msqid[queues[q][k].from] = q
        /\ queues[q][k].n < i[queues[q][k].from]
        /\ \A l \in 1..Len(queues[q]) :
              k < l /\ queues[q][k].from = queues[q][l].from => queues[q][k].n < queues[q][l].n

\* What has been taken was sent before everything that still stands in a queue.
SentFirst(m) ==
    /\ m.n < i[m.from]
    /\ \A q \in 1..Len(queues) : \A l \in 1..Len(queues[q]) :
          m.from = queues[q][l].from => m.n < queues[q][l].n
TakenFirst == \A r \in Receivers : \A k \in 1..Len(taken[r]) : SentFirst(taken[r][k])

TakenInOrder ==
    \A r \in Receivers : \A k, l \in 1..Len(taken[r]) :
        k < l /\ taken[r][k].from = taken[r][l].from => taken[r][k].n < taken[r][l].n

TakenApart ==
    \A r, other \in Receivers :
        r # other => \A k \in 1..Len(taken[r]) : \A l \in 1..Len(taken[other]) :
            taken[r][k] # taken[other][l]

\* A text that has been sent stands in its queue or has been taken out of it.
NothingLost ==
    \A s \in Senders : \A n \in 1..NTexts : n < i[s] => Queued(s, n) \/ HasTaken(s, n)

\* Behind the LAST message a receiver took stands no text of its sender.
LastSeen ==
    \A r \in Receivers : TookLast(r) =>
        \A n \in 1..NTexts : mybuf[r] \in Messages /\ HasTaken(mybuf[r].from, n)

\* A text waits in a buffer from msgrcv to printf, or for ever if its receiver is
\* killed in between.
InHand ==
    \A r \in Receivers :
        /\ pc[r] = "received" => mybuf[r] \in Messages /\ (TookLast(r) \/ Holds(r))
        /\ Holds(r) => pc[r] \in {"received", "killed"}

Inv ==
    /\ TypeOK
    /\ Attached
    /\ QueuesInOrder
    /\ TakenFirst
    /\ TakenInOrder
    /\ TakenApart
    /\ NothingLost
    /\ LastSeen
    /\ InHand
    /\ OnlyTheEndRemoves

-----------------------------------------------------------------------------
\* Messages are told apart by their sender and their number.
LEMMA MessageFields ==
    ASSUME Roles
    PROVE  /\ Texts \subseteq Messages
           /\ \A s \in Senders : \A n \in 1..NTexts + 1 :
                /\ Text(s, n) \in Messages
                /\ Text(s, n).from = s /\ Text(s, n).n = n
           /\ \A m \in Messages :
                /\ m.from \in Senders /\ m.n \in 1..NTexts + 1 /\ m = Text(m.from, m.n)
                /\ m.type = LAST_MESSAGE <=> m.n = NTexts + 1
                /\ m.type # LAST_MESSAGE => m \in Texts
<1>1. Texts \subseteq Messages
  BY DEF Roles, Texts, Messages
<1>2. \A s \in Senders : \A n \in 1..NTexts + 1 : Text(s, n) \in Messages
  BY DEF Messages
<1>3. \A s, n : Text(s, n).from = s /\ Text(s, n).n = n
  BY DEF Text
<1>4. ASSUME NEW m \in Messages
      PROVE  /\ m.from \in Senders /\ m.n \in 1..NTexts + 1 /\ m = Text(m.from, m.n)
             /\ m.type = LAST_MESSAGE <=> m.n = NTexts + 1
             /\ m.type # LAST_MESSAGE => m \in Texts
  <2>1. PICK s \in Senders, n \in 1..NTexts + 1 : m = Text(s, n)
    BY DEF Messages
  <2>2. m.from = s /\ m.n = n
    BY <1>3, <2>1
  <2>3. m.type = IF n > NTexts THEN LAST_MESSAGE ELSE 1
    BY <2>1 DEF Text
  <2>4. m.type = LAST_MESSAGE <=> n = NTexts + 1
    BY <2>3 DEF LAST_MESSAGE, Roles
  <2>5. n # NTexts + 1 => m \in Texts
    BY <2>1 DEF Texts, Roles
  <2>6. QED
    BY <2>1, <2>2, <2>4, <2>5
<1>5. QED
  BY <1>1, <1>2, <1>3, <1>4

\* msgrcv with type 0 takes the oldest message.
LEMMA OldestReceived ==
    ASSUME NEW M, NEW q \in Seq(M), HasMessage(q, ReceiveType)
    PROVE  /\ Len(q) > 0 /\ Received(q, ReceiveType) = q[1]
           /\ Remaining(q, ReceiveType) \in Seq(M)
           /\ Len(Remaining(q, ReceiveType)) = Len(q) - 1
           /\ \A k \in 1..Len(q) - 1 : Remaining(q, ReceiveType)[k] = q[k + 1]
<1>1. /\ FirstMatch(q, ReceiveType) \in 1..Len(q)
      /\ Received(q, ReceiveType) = q[FirstMatch(q, ReceiveType)]
      /\ \A k \in 1..FirstMatch(q, ReceiveType) - 1 : ~Matches(q[k], ReceiveType)
      /\ Remaining(q, ReceiveType) \in Seq(M)
      /\ Len(Remaining(q, ReceiveType)) = Len(q) - 1
      /\ \A k \in 1..Len(Remaining(q, ReceiveType)) :
            Remaining(q, ReceiveType)[k] = IF k < FirstMatch(q, ReceiveType) THEN q[k] ELSE q[k + 1]
  BY RemainingPositions, ZenonT(40)
<1>2. \A m : Matches(m, ReceiveType)
  BY DEF Matches, ReceiveType
<1>3. FirstMatch(q, ReceiveType) = 1
  BY <1>1, <1>2
<1>4. QED
  BY <1>1, <1>3

\* What is printed has been taken, and what is taken is printed or in the buffer.
LEMMA TakenExtends ==
    ASSUME TypeOK, NEW r \in Receivers
    PROVE  /\ \A k \in 1..Len(printed[r]) :
                k \in 1..Len(taken[r]) /\ taken[r][k] = printed[r][k]
           /\ \A k \in 1..Len(taken[r]) :
                taken[r][k] \in Range(printed[r]) \/ (Holds(r) /\ taken[r][k] = mybuf[r])
<1>1. printed[r] \in Seq(Texts) /\ DOMAIN printed[r] = 1..Len(printed[r])
  BY DEF TypeOK
<1>2. taken[r] = IF Holds(r) THEN Append(printed[r], mybuf[r]) ELSE printed[r]
  BY DEF taken
<1>3. CASE Holds(r)
  <2>1. mybuf[r] \in Texts
    BY <1>3 DEF Holds
  <2>2. /\ Len(taken[r]) = Len(printed[r]) + 1 /\ Len(printed[r]) \in Nat
        /\ \A k \in 1..Len(printed[r]) : taken[r][k] = printed[r][k]
        /\ taken[r][Len(printed[r]) + 1] = mybuf[r]
    BY <1>1, <1>2, <1>3, <2>1
  <2>3. ASSUME NEW k \in 1..Len(taken[r]), k # Len(printed[r]) + 1
        PROVE  taken[r][k] \in Range(printed[r])
    <3>1. k \in DOMAIN printed[r] /\ taken[r][k] = printed[r][k]
      BY <1>1, <2>2, <2>3
    <3>2. QED
      BY <3>1 DEF Range
  <2>4. QED
    BY <1>3, <2>2, <2>3
<1>4. CASE ~Holds(r)
  BY <1>1, <1>2, <1>4 DEF Range
<1>5. QED
  BY <1>3, <1>4

\* Only msgrcv and printf change what has been taken.
LEMMA TakenStays ==
    ASSUME UNCHANGED <<mybuf, printed>>
    PROVE  /\ taken' = taken
           /\ \A c \in Receivers : (Holds(c)' <=> Holds(c)) /\ (TookLast(c)' <=> TookLast(c))
BY DEF taken, Holds, TookLast

LEMMA InitInv ==
    ASSUME Roles, Init PROVE Inv
<1>1. /\ queues = <<>> /\ removed = {}
      /\ pc = [p \in Processes |-> "start"] /\ msqid = [p \in Processes |-> 0]
      /\ i = [s \in Senders |-> 1]
      /\ mybuf = [r \in Receivers |-> NoMessage] /\ printed = [r \in Receivers |-> <<>>]
  BY DEF Init, Processes
<1>2. /\ taken = [r \in Receivers |-> <<>>]
      /\ \A r \in Receivers : ~Holds(r) /\ ~TookLast(r)
  BY <1>1 DEF taken, Holds, TookLast, Texts, Roles
<1>3. TypeOK
  BY <1>1, <1>2 DEF TypeOK, Roles
<1>4. Attached
  BY <1>1 DEF Attached, Processes, Roles
<1>5. QueuesInOrder /\ TakenFirst /\ TakenInOrder /\ TakenApart
  BY <1>1, <1>2 DEF QueuesInOrder, TakenFirst, TakenInOrder, TakenApart
<1>6. NothingLost
  BY <1>1, <1>2 DEF NothingLost, Roles
<1>7. LastSeen /\ InHand /\ OnlyTheEndRemoves
  BY <1>1, <1>2 DEF LastSeen, InHand, OnlyTheEndRemoves, Processes, Roles
<1>8. QED
  BY <1>3, <1>4, <1>5, <1>6, <1>7 DEF Inv

-----------------------------------------------------------------------------
\* A step that touches no message, counter or output: it may move processes to
\* other places, as long as nobody ends, and remove a queue again.
LEMMA ControlStep ==
    ASSUME Roles, Inv,
           UNCHANGED <<queues, msqid, i, mybuf, printed>>,
           removed' = removed,
           pc' \in [Processes -> {"start", "send", "receive", "received", "done", "failed", "killed"}],
           \A p \in Processes : pc'[p] # pc[p] => /\ pc[p] \in {"send", "receive", "received"}
                                                  /\ pc'[p] \in {"failed", "killed"},
           \A r \in Receivers : pc'[r] = "failed" /\ pc[r] # "failed" => pc[r] = "receive"
    PROVE  Inv'
<1>1. taken' = taken /\ \A c \in Receivers : (Holds(c)' <=> Holds(c)) /\ (TookLast(c)' <=> TookLast(c))
  BY TakenStays
<1>2. TypeOK'
  BY <1>1 DEF Inv, TypeOK
<1>3. Attached'
  BY DEF Inv, Attached, Processes
<1>4. (QueuesInOrder /\ TakenFirst /\ TakenInOrder /\ TakenApart)'
  BY <1>1 DEF Inv, QueuesInOrder, TakenFirst, SentFirst, TakenInOrder, TakenApart
<1>5. NothingLost'
  BY <1>1 DEF Inv, NothingLost, Queued, HasTaken
<1>6. LastSeen'
  BY <1>1 DEF Inv, LastSeen, HasTaken, Processes
<1>7. InHand'
  BY <1>1 DEF Inv, InHand, Processes
<1>8. OnlyTheEndRemoves'
  BY DEF Inv, OnlyTheEndRemoves, Processes
<1>9. QED
  BY <1>2, <1>3, <1>4, <1>5, <1>6, <1>7, <1>8 DEF Inv

LEMMA AttachStep ==
    ASSUME Roles, Inv, NEW p \in Processes, Attach(p) PROVE Inv'
<1>1. /\ pc[p] = "start"
      /\ pc' = [pc EXCEPT ![p] = IF p \in Senders THEN "send" ELSE "receive"]
      /\ queues' = queues \/ queues' = Append(queues, <<>>)
      /\ queues' = queues => Len(queues) # 0
      /\ msqid' = [msqid EXCEPT ![p] = Len(queues')]
      /\ UNCHANGED <<removed, i, mybuf, printed, taken>>
      /\ \A c \in Receivers : (Holds(c)' <=> Holds(c)) /\ (TookLast(c)' <=> TookLast(c))
  BY TakenStays DEF Attach, Goto, Current, Inv, TypeOK
<1>2. /\ queues' \in Seq(Seq(Messages))
      /\ Len(queues') \in Nat \ {0} /\ Len(queues) <= Len(queues') /\ Len(queues) \in Nat
      /\ \A q \in 1..Len(queues) : queues'[q] = queues[q]
      /\ \A q \in 1..Len(queues') : q \notin 1..Len(queues) => queues'[q] = <<>>
  <2>1. queues \in Seq(Seq(Messages)) /\ <<>> \in Seq(Messages)
    BY DEF Inv, TypeOK
  <2>2. CASE queues' = queues
    BY <1>1, <2>1, <2>2
  <2>3. CASE queues' = Append(queues, <<>>)
    BY <2>1, <2>3
  <2>4. QED
    BY <1>1, <2>2, <2>3
<1>3. TypeOK'
  BY <1>1, <1>2 DEF Inv, TypeOK
<1>4. Attached'
  BY <1>1, <1>2, <1>3 DEF Inv, Attached, TypeOK, Roles, Processes
<1>5. ASSUME p \in Senders PROVE i[p] = 1
  BY <1>1, <1>5 DEF Inv, Attached, TypeOK
<1>6. \A s \in Senders : i[s] > 1 => msqid'[s] = msqid[s] /\ msqid[s] \in 1..Len(queues)
  BY <1>1, <1>5 DEF Inv, Attached, TypeOK, Processes
<1>7. QueuesInOrder'
  <2>1. ASSUME NEW q \in 1..Len(queues'), NEW k \in 1..Len(queues'[q])
        PROVE  /\ msqid'[queues'[q][k].from] = q
               /\ queues'[q][k].n < i'[queues'[q][k].from]
               /\ \A l \in 1..Len(queues'[q]) :
                    k < l /\ queues'[q][k].from = queues'[q][l].from
                        => queues'[q][k].n < queues'[q][l].n
    <3>1. q \in 1..Len(queues) /\ queues'[q] = queues[q]
      BY <1>2, <2>1
    <3>2. PICK m : m = queues[q][k]
      OBVIOUS
    <3>3. m \in Messages /\ m.from \in Senders /\ m.n \in 1..NTexts + 1
      BY <3>1, <3>2, MessageFields DEF Inv, TypeOK
    <3>4. msqid[m.from] = q /\ m.n < i[m.from]
      BY <3>1, <3>2 DEF Inv, QueuesInOrder
    <3>5. i[m.from] > 1
      BY <3>3, <3>4 DEF Inv, TypeOK, Roles
    <3>6. msqid'[m.from] = q
      BY <1>6, <3>3, <3>4, <3>5
    <3>7. QED
      BY <1>1, <3>1, <3>2, <3>4, <3>6 DEF Inv, QueuesInOrder
  <2>2. QED
    BY <2>1 DEF QueuesInOrder
<1>8. TakenFirst'
  <2>1. ASSUME NEW o, SentFirst(o) PROVE SentFirst(o)'
    <3>1. ASSUME NEW q \in 1..Len(queues'), NEW l \in 1..Len(queues'[q]),
                 o.from = queues'[q][l].from
          PROVE  o.n < queues'[q][l].n
      <4>1. CASE q \in 1..Len(queues)
        BY <1>2, <2>1, <3>1, <4>1 DEF SentFirst
      <4>2. CASE q \notin 1..Len(queues)
        <5>1. Len(queues'[q]) = 0
          BY <1>2, <4>2
        <5>2. QED
          BY <3>1, <5>1
      <4>3. QED
        BY <4>1, <4>2
    <3>2. QED
      BY <1>1, <2>1, <3>1 DEF SentFirst
  <2>2. ASSUME NEW r \in Receivers, NEW k \in 1..Len(taken'[r]) PROVE SentFirst(taken[r][k])'
    <3>1. PICK o : o = taken[r][k]
      OBVIOUS
    <3>2. SentFirst(o)'
      BY <1>1, <2>1, <2>2, <3>1 DEF Inv, TakenFirst
    <3>3. QED
      BY <1>1, <3>1, <3>2 DEF SentFirst
  <2>3. QED
    BY <2>2 DEF TakenFirst
<1>9. (TakenInOrder /\ TakenApart)'
  BY <1>1 DEF Inv, TakenInOrder, TakenApart
<1>10. NothingLost'
  <2>1. ASSUME NEW s \in Senders, NEW n \in 1..NTexts, n < i'[s]
        PROVE  Queued(s, n)' \/ HasTaken(s, n)'
    <3>1. i[s] > 1
      BY <1>1, <2>1 DEF Inv, TypeOK, Roles
    <3>2. msqid'[s] = msqid[s] /\ queues'[msqid'[s]] = queues[msqid[s]]
      BY <1>2, <1>6, <3>1
    <3>3. Queued(s, n) \/ HasTaken(s, n)
      BY <1>1, <2>1 DEF Inv, NothingLost
    <3>4. QED
      BY <1>1, <3>2, <3>3 DEF Queued, HasTaken
  <2>2. QED
    BY <2>1 DEF NothingLost
<1>11. LastSeen'
  BY <1>1 DEF Inv, LastSeen, HasTaken, TypeOK, Processes
<1>12. InHand'
  BY <1>1 DEF Inv, InHand, TypeOK, Processes
<1>13. OnlyTheEndRemoves'
  BY <1>1 DEF Inv, OnlyTheEndRemoves, TypeOK, Processes
<1>14. QED
  BY <1>3, <1>4, <1>7, <1>8, <1>9, <1>10, <1>11, <1>12, <1>13 DEF Inv

\* A message goes to the end of its sender's queue.
LEMMA SendStep ==
    ASSUME Roles, Inv, NEW s \in Senders, Send(s) PROVE Inv'
<1> DEFINE h == msqid[s]
<1>1. /\ pc[s] = "send" /\ s \in Processes
      /\ pc' = [pc EXCEPT ![s] = IF i[s] > NTexts THEN "done" ELSE "send"]
      /\ queues' = [queues EXCEPT ![h] = Append(queues[h], Text(s, i[s]))]
      /\ i' = [i EXCEPT ![s] = i[s] + 1]
      /\ UNCHANGED <<removed, msqid, mybuf, printed>>
  BY Zenon DEF Send, Goto, NextTexts, Processes, Inv, TypeOK
<1>2. taken' = taken /\ \A c \in Receivers : (Holds(c)' <=> Holds(c)) /\ (TookLast(c)' <=> TookLast(c))
  BY <1>1, TakenStays
<1>3. h \in 1..Len(queues) /\ i[s] \in 1..NTexts + 1
  BY <1>1 DEF Inv, Attached, TypeOK, Roles
<1>4. PICK m : m = Text(s, i[s])
  OBVIOUS
<1>5. m \in Messages /\ m.from = s /\ m.n = i[s]
  BY <1>3, <1>4, MessageFields
<1>6. queues \in Seq(Seq(Messages)) /\ queues[h] \in Seq(Messages)
  BY <1>3 DEF Inv, TypeOK
<1>7. PICK new : new = Append(queues[h], m)
  OBVIOUS
<1>8. /\ new \in Seq(Messages) /\ Len(new) = Len(queues[h]) + 1
      /\ Len(queues[h]) \in Nat
      /\ \A k \in 1..Len(queues[h]) : new[k] = queues[h][k]
      /\ new[Len(queues[h]) + 1] = m
  BY <1>5, <1>6, <1>7
<1>9. /\ queues' = [queues EXCEPT ![h] = new] /\ queues' \in Seq(Seq(Messages))
      /\ Len(queues') = Len(queues) /\ queues'[h] = new
      /\ \A q \in 1..Len(queues) : q # h => queues'[q] = queues[q]
  BY <1>1, <1>3, <1>4, <1>6, <1>7, <1>8
<1>10. \A q \in 1..Len(queues) : \A k \in 1..Len(queues[q]) :
        /\ queues[q][k] \in Messages
        /\ queues[q][k].from \in Senders /\ queues[q][k].n \in 1..NTexts + 1
  BY MessageFields DEF Inv, TypeOK
<1>11. \A r \in Receivers : \A k \in 1..Len(taken[r]) :
        taken[r][k].from \in Senders /\ taken[r][k].n \in 1..NTexts + 1
  BY MessageFields DEF Inv, TypeOK
<1> HIDE DEF h
<1>12. TypeOK'
  <2>1. /\ taken' \in [Receivers -> Seq(Texts)] /\ removed' \subseteq 1..Len(queues')
        /\ msqid' \in [Processes -> Nat] /\ printed' \in [Receivers -> Seq(Texts)]
        /\ mybuf' \in [Receivers -> Messages \union {NoMessage}]
    BY <1>1, <1>2, <1>9 DEF Inv, TypeOK
  <2>2. i' \in [Senders -> 1..NTexts + 2]
    BY <1>1, <1>3 DEF Inv, TypeOK, Roles
  <2>3. pc' \in [Processes ->
              {"start", "send", "receive", "received", "done", "failed", "killed"}]
    BY <1>1 DEF Inv, TypeOK
  <2>4. QED
    BY <1>9, <2>1, <2>2, <2>3 DEF TypeOK
<1>13. Attached'
  BY <1>1, <1>3, <1>9, <1>12 DEF Inv, Attached, TypeOK, Roles, Processes
<1>14. QueuesInOrder'
  <2>1. ASSUME NEW q \in 1..Len(queues'), NEW k \in 1..Len(queues'[q])
        PROVE  /\ msqid'[queues'[q][k].from] = q
               /\ queues'[q][k].n < i'[queues'[q][k].from]
               /\ \A l \in 1..Len(queues'[q]) :
                    k < l /\ queues'[q][k].from = queues'[q][l].from
                        => queues'[q][k].n < queues'[q][l].n
    <3>1. \A c \in Senders : i'[c] \in Nat /\ i[c] \in Nat /\ i[c] <= i'[c] /\ i[s] < i'[s]
      <4>1. i[s] \in Int /\ i \in [Senders -> Int] /\ i' = [i EXCEPT ![s] = i[s] + 1]
        BY <1>1 DEF Inv, TypeOK, Roles
      <4>2. \A c \in Senders : i'[c] = IF c = s THEN i[s] + 1 ELSE i[c]
        BY <4>1
      <4>3. \A c \in Senders : i[c] \in Nat
        BY DEF Inv, TypeOK, Roles
      <4>4. QED
        BY <4>2, <4>3
    <3>2. CASE q # h
      <4>1. q \in 1..Len(queues) /\ queues'[q] = queues[q] /\ k \in 1..Len(queues[q])
        BY <1>9, <2>1, <3>2
      <4>2. PICK o : o = queues[q][k]
        OBVIOUS
      <4>3. /\ o.from \in Senders /\ o.n \in 1..NTexts + 1
            /\ msqid[o.from] = q /\ o.n < i[o.from]
            /\ \A l \in 1..Len(queues[q]) :
                  k < l /\ o.from = queues[q][l].from => o.n < queues[q][l].n
        BY <1>10, <4>1, <4>2 DEF Inv, QueuesInOrder
      <4>4. o.n < i'[o.from]
        BY <3>1, <4>3 DEF Roles
      <4>5. QED
        BY <1>1, <4>1, <4>2, <4>3, <4>4
    <3>3. CASE q = h /\ k <= Len(queues[h])
      <4>1. k \in 1..Len(queues[h]) /\ queues'[q] = new /\ new[k] = queues[h][k]
        BY <1>8, <1>9, <2>1, <3>3
      <4>2. PICK o : o = queues[h][k]
        OBVIOUS
      <4>3. /\ o.from \in Senders /\ o.n \in 1..NTexts + 1 /\ msqid[o.from] = h /\ o.n < i[o.from]
            /\ \A l \in 1..Len(queues[h]) :
                  k < l /\ o.from = queues[h][l].from => o.n < queues[h][l].n
        BY <1>3, <1>10, <4>1, <4>2 DEF Inv, QueuesInOrder
      <4>4. o.n < i'[o.from]
        BY <3>1, <4>3 DEF Roles
      <4>5. \A l \in 1..Len(new) : k < l /\ o.from = new[l].from => o.n < new[l].n
        <5>1. ASSUME NEW l \in 1..Len(new), k < l, o.from = new[l].from PROVE o.n < new[l].n
          <6>1. CASE l \in 1..Len(queues[h])
            BY <1>8, <4>3, <5>1, <6>1
          <6>2. CASE l = Len(queues[h]) + 1
            BY <1>5, <1>8, <4>3, <5>1, <6>2
          <6>3. QED
            BY <1>8, <6>1, <6>2
        <5>2. QED
          BY <5>1
      <4>6. QED
        BY <1>1, <3>3, <4>1, <4>2, <4>3, <4>4, <4>5
    <3>4. CASE q = h /\ ~(k <= Len(queues[h]))
      <4>1. k = Len(new) /\ queues'[q] = new /\ new[k] = m
        BY <1>8, <1>9, <2>1, <3>4
      <4>2. \A l \in 1..Len(new) : ~(k < l)
        BY <1>8, <4>1
      <4>3. QED
        BY <1>1, <1>5, <3>1, <3>4, <4>1, <4>2 DEF h
    <3>5. QED
      BY <3>2, <3>3, <3>4
  <2>2. QED
    BY <2>1 DEF QueuesInOrder
<1>15. TakenFirst'
  <2>1. ASSUME NEW r \in Receivers, NEW k \in 1..Len(taken[r]), NEW o, o = taken[r][k]
        PROVE  SentFirst(o)'
    <3>1. o.from \in Senders /\ o.n \in 1..NTexts + 1
      BY <1>11, <2>1
    <3>2. SentFirst(o)
      BY <2>1 DEF Inv, TakenFirst
    <3>3. o.n < i'[o.from]
      BY <1>1, <1>3, <3>1, <3>2, SMTT(30) DEF SentFirst, Inv, TypeOK, Roles
    <3>4. ASSUME NEW q \in 1..Len(queues), NEW l \in 1..Len(queues'[q]),
                 o.from = queues'[q][l].from
          PROVE  o.n < queues'[q][l].n
      <4>1. CASE q # h
        BY <1>9, <3>2, <3>4, <4>1 DEF SentFirst
      <4>2. CASE q = h /\ l \in 1..Len(queues[h])
        <5>1. queues'[q][l] = queues[h][l] /\ h \in 1..Len(queues)
          BY <1>3, <1>8, <1>9, <4>2 DEF h
        <5>2. QED
          BY <3>2, <3>4, <4>2, <5>1 DEF SentFirst
      <4>3. CASE q = h /\ l = Len(queues[h]) + 1
        BY <1>5, <1>8, <1>9, <3>2, <3>4, <4>3 DEF SentFirst
      <4>4. QED
        BY <1>8, <1>9, <3>4, <4>1, <4>2, <4>3
    <3>5. QED
      BY <1>9, <3>3, <3>4 DEF SentFirst
  <2>2. QED
    BY <1>2, <2>1 DEF TakenFirst
<1>16. (TakenInOrder /\ TakenApart)'
  BY <1>2 DEF Inv, TakenInOrder, TakenApart
<1>17. NothingLost'
  <2>1. ASSUME NEW c \in Senders, NEW n \in 1..NTexts, n < i'[c]
        PROVE  Queued(c, n)' \/ HasTaken(c, n)'
    <3>1. CASE n < i[c]
      <4>1. Queued(c, n) \/ HasTaken(c, n)
        BY <2>1, <3>1 DEF Inv, NothingLost
      <4>2. CASE HasTaken(c, n)
        BY <1>2, <4>2 DEF HasTaken
      <4>3. CASE Queued(c, n)
        <5>1. pc[c] # "start"
          BY <2>1, <3>1 DEF Inv, Attached, TypeOK, Roles
        <5>2. msqid[c] \in 1..Len(queues) /\ msqid'[c] = msqid[c]
          BY <1>1, <5>1 DEF Inv, Attached, Processes
        <5>3. PICK k \in 1..Len(queues[msqid[c]]) : queues[msqid[c]][k] = Text(c, n)
          BY <4>3 DEF Queued
        <5>4. k \in 1..Len(queues'[msqid[c]]) /\ queues'[msqid[c]][k] = Text(c, n)
          BY <1>8, <1>9, <5>2, <5>3
        <5>5. QED
          BY <5>2, <5>4 DEF Queued
      <4>4. QED
        BY <4>1, <4>2, <4>3
    <3>2. CASE ~(n < i[c])
      <4>1. c = s /\ n = i[s]
        BY <1>1, <1>3, <2>1, <3>2 DEF Inv, TypeOK, Roles
      <4>2. Len(new) \in 1..Len(queues'[h]) /\ queues'[h][Len(new)] = Text(c, n)
        BY <1>4, <1>8, <1>9, <4>1
      <4>3. msqid'[c] = h
        BY <1>1, <4>1 DEF h
      <4>4. QED
        BY <4>2, <4>3 DEF Queued
    <3>3. QED
      BY <3>1, <3>2
  <2>2. QED
    BY <2>1 DEF NothingLost
<1>18. LastSeen'
  BY <1>1, <1>2 DEF Inv, LastSeen, HasTaken, TypeOK, Roles, Processes
<1>19. InHand'
  BY <1>1, <1>2 DEF Inv, InHand, TypeOK, Roles, Processes
<1>20. OnlyTheEndRemoves'
  BY <1>1 DEF Inv, OnlyTheEndRemoves, TypeOK, Roles, Processes
<1>21. QED
  BY <1>12, <1>13, <1>14, <1>15, <1>16, <1>17, <1>18, <1>19, <1>20 DEF Inv

\* The oldest message leaves its queue: a text is taken, the LAST one ends the
\* receiver and the queue.
LEMMA ReceiveStep ==
    ASSUME Roles, Inv, NEW r \in Receivers, Receive(r) PROVE Inv'
<1> DEFINE h == msqid[r]
<1>1. h \in 1..Len(queues) /\ queues[h] \in Seq(Messages) /\ queues \in Seq(Seq(Messages))
  BY DEF Receive, Goto, Inv, Attached, TypeOK, Processes
<1>2. HasMessage(queues[h], ReceiveType)
  BY Zenon DEF Receive
<1>3. PICK m : m = Received(queues[h], ReceiveType)
  OBVIOUS
<1>4. PICK rest : rest = Remaining(queues[h], ReceiveType)
  OBVIOUS
<1>5. /\ Len(queues[h]) > 0 /\ m = queues[h][1] /\ rest \in Seq(Messages)
      /\ Len(rest) = Len(queues[h]) - 1 /\ Len(queues[h]) \in Nat
      /\ \A k \in 1..Len(queues[h]) - 1 : rest[k] = queues[h][k + 1]
  <2>1. /\ Len(queues[h]) > 0 /\ Received(queues[h], ReceiveType) = queues[h][1]
        /\ Remaining(queues[h], ReceiveType) \in Seq(Messages)
        /\ Len(Remaining(queues[h], ReceiveType)) = Len(queues[h]) - 1
        /\ \A k \in 1..Len(queues[h]) - 1 : Remaining(queues[h], ReceiveType)[k] = queues[h][k + 1]
    BY <1>1, <1>2, OldestReceived, Zenon
  <2>2. Len(queues[h]) \in Nat
    BY <1>1
  <2>3. QED
    BY <1>3, <1>4, <2>1, <2>2, Zenon
<1>6. /\ m \in Messages /\ m.from \in Senders /\ m.n \in 1..NTexts + 1
      /\ m = Text(m.from, m.n)
      /\ m.type = LAST_MESSAGE <=> m.n = NTexts + 1
      /\ m.type # LAST_MESSAGE => m \in Texts
  <2>1. m \in Messages
    BY <1>1, <1>5
  <2>2. QED
    BY <2>1, MessageFields
<1>7. PICK last \in BOOLEAN : last <=> m.n = NTexts + 1
  OBVIOUS
<1>8. /\ pc[r] = "receive" /\ r \in Processes
      /\ pc' = [pc EXCEPT ![r] = "received"]
      /\ queues' = [queues EXCEPT ![h] = rest]
      /\ mybuf' = [mybuf EXCEPT ![r] = m]
      /\ UNCHANGED <<removed, printed, msqid, i>>
  BY <1>3, <1>4, Zenon DEF Receive, Goto, Processes
<1>9. ~Holds(r) /\ taken[r] = printed[r]
  BY <1>8 DEF Inv, InHand, taken
<1>10. /\ queues' \in Seq(Seq(Messages)) /\ Len(queues') = Len(queues) /\ queues'[h] = rest
      /\ \A q \in 1..Len(queues) : q # h => queues'[q] = queues[q]
  BY <1>1, <1>5, <1>8
\* Every message left in a queue stood in it before, one place further back at most.
<1>11. ASSUME NEW q \in 1..Len(queues), NEW k \in 1..Len(queues'[q])
       PROVE  /\ k \in 1..Len(queues[q]) \/ q = h
              /\ q = h => k + 1 \in 1..Len(queues[q]) /\ queues'[q][k] = queues[q][k + 1]
              /\ q # h => k \in 1..Len(queues[q]) /\ queues'[q][k] = queues[q][k]
  <2>1. CASE q = h
    <3>1. k \in 1..Len(rest)
      BY <1>10, <1>11, <2>1, Zenon
    <3>2. k \in 1..Len(queues[h]) - 1 /\ k + 1 \in 1..Len(queues[h])
      BY <1>5, <3>1
    <3>3. QED
      BY <1>5, <1>10, <2>1, <3>2, Zenon
  <2>2. CASE q # h
    BY <1>10, <1>11, <2>2, Zenon
  <2>3. QED
    BY <2>1, <2>2
<1> HIDE DEF h
<1>12. \A q \in 1..Len(queues) : \A k \in 1..Len(queues[q]) :
        queues[q][k].from \in Senders /\ queues[q][k].n \in 1..NTexts + 1
  BY MessageFields DEF Inv, TypeOK
<1>13. \A c \in Receivers : \A k \in 1..Len(taken[c]) :
        taken[c][k].from \in Senders /\ taken[c][k].n \in 1..NTexts + 1
  BY MessageFields DEF Inv, TypeOK
<1>14. /\ msqid[m.from] = h /\ m.n < i[m.from]
       /\ \A l \in 1..Len(queues[h]) :
            1 < l /\ m.from = queues[h][l].from => m.n < queues[h][l].n
  BY <1>1, <1>5 DEF Inv, QueuesInOrder
\* Everything of the same sender taken so far was sent before m.
<1>15. \A c \in Receivers : \A k \in 1..Len(taken[c]) :
          taken[c][k].from = m.from => taken[c][k].n < m.n
  <2>1. 1 \in 1..Len(queues[h])
    BY <1>5
  <2>2. QED
    BY <1>1, <1>5, <2>1 DEF Inv, TakenFirst, SentFirst
<1>16. /\ ~last <=> Holds(r)'
       /\ last <=> TookLast(r)'
       /\ \A c \in Receivers \ {r} : (Holds(c)' <=> Holds(c)) /\ (TookLast(c)' <=> TookLast(c))
       /\ \A c \in Receivers \ {r} : mybuf'[c] = mybuf[c] /\ printed'[c] = printed[c]
       /\ mybuf'[r] = m /\ printed'[r] = printed[r]
  <2>1. /\ \A c \in Receivers \ {r} : mybuf'[c] = mybuf[c] /\ printed'[c] = printed[c]
        /\ mybuf'[r] = m /\ printed'[r] = printed[r]
    BY <1>8 DEF Inv, TypeOK
  <2>2. \A c \in Receivers \ {r} : (Holds(c)' <=> Holds(c)) /\ (TookLast(c)' <=> TookLast(c))
    BY <2>1 DEF Holds, TookLast
  <2>3. last <=> TookLast(r)'
    <3>1. m # NoMessage
      BY <1>6 DEF Roles, Messages
    <3>2. QED
      BY <1>6, <1>7, <2>1, <3>1 DEF TookLast
  <2>4. m \notin Range(printed[r])
    <3>1. printed[r] \in Seq(Texts) /\ m.n \in Int
      BY <1>6 DEF Inv, TypeOK, Roles
    <3>2. ASSUME NEW k \in 1..Len(printed[r]), printed[r][k] = m PROVE FALSE
      BY <1>9, <1>15, <3>1, <3>2
    <3>3. QED
      BY <3>1, <3>2 DEF Range
  <2>5. ~last <=> Holds(r)'
    <3>1. last => m \notin Texts
      BY <1>6, <1>7, MessageFields DEF Texts, Roles
    <3>2. QED
      BY <1>6, <1>7, <2>1, <2>4, <3>1 DEF Holds
  <2>6. QED
    BY <2>1, <2>2, <2>3, <2>5
<1>17. /\ taken' = [c \in Receivers |-> taken'[c]]
       /\ \A c \in Receivers \ {r} : taken'[c] = taken[c]
       /\ taken'[r] = IF last THEN taken[r] ELSE Append(taken[r], m)
       /\ \A c \in Receivers : taken[c] \in Seq(Texts)
  <2>1. taken' = [c \in Receivers |-> taken'[c]]
    BY DEF taken
  <2>2. \A c \in Receivers \ {r} : taken'[c] = taken[c]
    BY <1>16 DEF taken
  <2>3. taken'[r] = IF last THEN printed[r] ELSE Append(printed[r], m)
    BY <1>16 DEF taken
  <2>4. \A c \in Receivers : taken[c] \in Seq(Texts)
    BY DEF Inv, TypeOK
  <2>5. QED
    BY <1>9, <2>1, <2>2, <2>3, <2>4
<1>18. TypeOK'
  <2>1. taken' \in [Receivers -> Seq(Texts)]
    BY <1>6, <1>7, <1>17
  <2>2. mybuf' \in [Receivers -> Messages \union {NoMessage}]
    BY <1>6, <1>8 DEF Inv, TypeOK
  <2>3. removed' \subseteq 1..Len(queues')
    BY <1>1, <1>8, <1>10 DEF Inv, TypeOK
  <2>4. pc' \in [Processes -> {"start", "send", "receive", "received", "done", "failed", "killed"}]
    BY <1>8 DEF Inv, TypeOK
  <2>5. QED
    BY <1>8, <1>10, <2>1, <2>2, <2>3, <2>4 DEF Inv, TypeOK
<1>19. Attached'
  BY <1>8, <1>10 DEF Inv, Attached, TypeOK, Roles, Processes
<1>20. QueuesInOrder'
  <2>1. ASSUME NEW q \in 1..Len(queues'), NEW k \in 1..Len(queues'[q])
        PROVE  /\ msqid'[queues'[q][k].from] = q
               /\ queues'[q][k].n < i'[queues'[q][k].from]
               /\ \A l \in 1..Len(queues'[q]) :
                    k < l /\ queues'[q][k].from = queues'[q][l].from
                        => queues'[q][k].n < queues'[q][l].n
    <3>1. CASE q # h
      <4>1. queues'[q] = queues[q] /\ q \in 1..Len(queues) /\ k \in 1..Len(queues[q])
        BY <1>10, <2>1, <3>1
      <4>2. /\ msqid[queues[q][k].from] = q /\ queues[q][k].n < i[queues[q][k].from]
            /\ \A l \in 1..Len(queues[q]) :
                  k < l /\ queues[q][k].from = queues[q][l].from => queues[q][k].n < queues[q][l].n
        BY <4>1 DEF Inv, QueuesInOrder
      <4>3. QED
        BY <1>8, <4>1, <4>2
    <3>2. CASE q = h
      <4>1. /\ k + 1 \in 1..Len(queues[h]) /\ queues'[h][k] = queues[h][k + 1]
            /\ \A l \in 1..Len(queues'[h]) :
                 l + 1 \in 1..Len(queues[h]) /\ queues'[h][l] = queues[h][l + 1]
        BY <1>1, <1>11, <2>1, <3>2
      <4>2. /\ msqid[queues[h][k + 1].from] = h
            /\ queues[h][k + 1].n < i[queues[h][k + 1].from]
            /\ \A l \in 1..Len(queues[h]) :
                 k + 1 < l /\ queues[h][k + 1].from = queues[h][l].from
                    => queues[h][k + 1].n < queues[h][l].n
        BY <1>1, <4>1 DEF Inv, QueuesInOrder
      <4>3. QED
        <5>1. ASSUME NEW l \in 1..Len(queues'[h]), k < l,
                     queues'[h][k].from = queues'[h][l].from
              PROVE  queues'[h][k].n < queues'[h][l].n
          <6>1. l + 1 \in 1..Len(queues[h]) /\ queues'[h][l] = queues[h][l + 1] /\ k + 1 < l + 1
            BY <2>1, <3>2, <4>1, <5>1
          <6>2. QED
            BY <4>1, <4>2, <5>1, <6>1
        <5>2. QED
          BY <1>8, <3>2, <4>1, <4>2, <5>1
    <3>3. QED
      BY <3>1, <3>2
  <2>2. QED
    BY <2>1 DEF QueuesInOrder
<1>21. ASSUME NEW c \in Receivers, NEW k \in 1..Len(taken'[c])
       PROVE  \/ c \in Receivers /\ k \in 1..Len(taken[c]) /\ taken'[c][k] = taken[c][k]
              \/ c = r /\ ~last /\ k = Len(taken[r]) + 1 /\ taken'[c][k] = m
  BY <1>17, <1>21
<1>22. \A c \in Receivers : \A k \in 1..Len(taken[c]) :
          k \in 1..Len(taken'[c]) /\ taken'[c][k] = taken[c][k]
  BY <1>17
<1>23. TakenFirst'
  <2>1. ASSUME NEW c \in Receivers, NEW k \in 1..Len(taken[c]), NEW o, o = taken[c][k]
        PROVE  SentFirst(o)'
    <3>1. SentFirst(o)
      BY <2>1 DEF Inv, TakenFirst
    <3>2. ASSUME NEW q \in 1..Len(queues), NEW l \in 1..Len(queues'[q]),
                 o.from = queues'[q][l].from
          PROVE  o.n < queues'[q][l].n
      <4>1. CASE q # h
        BY <1>10, <3>1, <3>2, <4>1 DEF SentFirst
      <4>2. CASE q = h
        <5>1. l + 1 \in 1..Len(queues[h]) /\ queues'[h][l] = queues[h][l + 1]
          BY <1>11, <3>2, <4>2
        <5>2. QED
          BY <3>1, <3>2, <4>2, <5>1 DEF SentFirst
      <4>3. QED
        BY <4>1, <4>2
    <3>3. QED
      BY <1>8, <1>10, <3>1, <3>2 DEF SentFirst
  <2>2. SentFirst(m)'
    <3>1. ASSUME NEW q \in 1..Len(queues), NEW l \in 1..Len(queues'[q]),
                 m.from = queues'[q][l].from
          PROVE  m.n < queues'[q][l].n
      <4>1. CASE q # h
        <5>1. l \in 1..Len(queues[q]) /\ m.from = queues[q][l].from
          BY <1>11, <3>1, <4>1
        <5>2. msqid[m.from] = q
          BY <5>1 DEF Inv, QueuesInOrder
        <5>3. QED
          BY <1>14, <4>1, <5>2
      <4>2. CASE q = h
        <5>1. l + 1 \in 1..Len(queues[h]) /\ queues'[h][l] = queues[h][l + 1] /\ 1 < l + 1
          BY <1>5, <1>10, <1>11, <3>1, <4>2
        <5>2. QED
          BY <1>14, <3>1, <4>2, <5>1
      <4>3. QED
        BY <4>1, <4>2
    <3>2. QED
      BY <1>8, <1>10, <1>14, <3>1 DEF SentFirst
  <2>3. ASSUME NEW c \in Receivers, NEW k \in 1..Len(taken'[c]) PROVE SentFirst(taken[c][k])'
    <3>1. PICK o : o = taken'[c][k]
      OBVIOUS
    <3>2. SentFirst(o)'
      BY <1>21, <2>1, <2>2, <2>3, <3>1
    <3>3. QED
      BY <3>1, <3>2 DEF SentFirst
  <2>4. QED
    BY <2>3 DEF TakenFirst
<1>24. TakenInOrder'
  <2>1. ASSUME NEW c \in Receivers, NEW k \in 1..Len(taken'[c]), NEW l \in 1..Len(taken'[c]),
               k < l, taken'[c][k].from = taken'[c][l].from
        PROVE  taken'[c][k].n < taken'[c][l].n
    <3>1. Len(taken[c]) \in Nat
      BY DEF Inv, TypeOK
    <3>2. CASE l \in 1..Len(taken[c]) /\ taken'[c][l] = taken[c][l]
      <4>1. k \in 1..Len(taken[c]) /\ taken'[c][k] = taken[c][k]
        BY <1>22, <2>1, <3>1, <3>2
      <4>2. QED
        BY <2>1, <3>2, <4>1 DEF Inv, TakenInOrder
    <3>3. CASE c = r /\ l = Len(taken[r]) + 1 /\ taken'[c][l] = m
      <4>1. k \in 1..Len(taken[c]) /\ taken'[c][k] = taken[c][k]
        BY <1>22, <2>1, <3>1, <3>3
      <4>2. QED
        BY <1>15, <2>1, <3>3, <4>1
    <3>4. QED
      BY <1>21, <3>2, <3>3
  <2>2. QED
    BY <2>1 DEF TakenInOrder
<1>25. TakenApart'
  <2>1. ASSUME NEW c \in Receivers, NEW d \in Receivers, c # d,
               NEW k \in 1..Len(taken'[c]), NEW l \in 1..Len(taken'[d])
        PROVE  taken'[c][k] # taken'[d][l]
    <3>1. \A e \in Receivers : \A j \in 1..Len(taken[e]) : taken[e][j] # m
      BY <1>6, <1>15
    <3>2. QED
      BY <1>21, <2>1, <3>1, SMTT(30) DEF Inv, TakenApart
  <2>2. QED
    BY <2>1 DEF TakenApart
<1>26. \A c \in Senders : \A n \in 1..NTexts : HasTaken(c, n) => HasTaken(c, n)'
  BY <1>22 DEF HasTaken
<1>27. NothingLost'
  <2>1. ASSUME NEW c \in Senders, NEW n \in 1..NTexts, n < i[c]
        PROVE  Queued(c, n)' \/ HasTaken(c, n)'
    <3>1. Queued(c, n) \/ HasTaken(c, n)
      BY <2>1 DEF Inv, NothingLost
    <3>2. CASE HasTaken(c, n)
      BY <1>26, <2>1, <3>2
    <3>3. CASE Queued(c, n)
      <4>1. PICK k \in 1..Len(queues[msqid[c]]) : queues[msqid[c]][k] = Text(c, n)
        BY <3>3 DEF Queued
      <4>2. msqid[c] \in 1..Len(queues)
        BY <2>1 DEF Inv, Attached, TypeOK, Roles, Processes
      <4>3. CASE msqid[c] # h
        BY <1>8, <1>10, <4>1, <4>2, <4>3 DEF Queued
      <4>4. CASE msqid[c] = h /\ k # 1
        <5>1. k - 1 \in 1..Len(rest) /\ rest[k - 1] = Text(c, n)
          BY <1>5, <4>1, <4>4
        <5>2. QED
          BY <1>8, <1>10, <4>4, <5>1 DEF Queued
      <4>5. CASE msqid[c] = h /\ k = 1
        <5>1. m = Text(c, n)
          BY <1>5, <4>1, <4>5
        <5>2. m.n = n
          BY <5>1 DEF Text
        <5>3. ~last
          BY <1>6, <1>7, <2>1, <5>2 DEF Roles
        <5>4. Len(taken[r]) + 1 \in 1..Len(taken'[r]) /\ taken'[r][Len(taken[r]) + 1] = m
          BY <1>6, <1>7, <1>17, <5>3
        <5>5. QED
          BY <5>1, <5>4 DEF HasTaken
      <4>6. QED
        BY <4>3, <4>4, <4>5
    <3>4. QED
      BY <3>1, <3>2, <3>3
  <2>2. QED
    BY <1>8, <2>1 DEF NothingLost
<1>28. LastSeen'
  <2>1. ASSUME NEW c \in Receivers, TookLast(c)', NEW n \in 1..NTexts
        PROVE  (mybuf[c] \in Messages /\ HasTaken(mybuf[c].from, n))'
    <3>1. CASE c # r
      <4>1. TookLast(c) /\ mybuf'[c] = mybuf[c]
        BY <1>16, <2>1, <3>1
      <4>2. mybuf[c] \in Messages /\ HasTaken(mybuf[c].from, n)
        BY <2>1, <4>1 DEF Inv, LastSeen
      <4>3. PICK d : d = mybuf[c].from
        OBVIOUS
      <4>4. d \in Senders
        BY <4>2, <4>3, MessageFields
      <4>5. HasTaken(d, n)'
        BY <1>26, <2>1, <4>2, <4>3, <4>4
      <4>6. mybuf'[c].from = d
        BY <4>1, <4>3
      <4>7. QED
        BY <4>1, <4>2, <4>5, <4>6 DEF HasTaken
    <3>2. CASE c = r
      <4>1. last /\ mybuf'[c] = m
        BY <1>16, <2>1, <3>2
      <4>2. m.n = NTexts + 1 /\ n < i[m.from]
        BY <1>6, <1>7, <1>14, <2>1, <4>1 DEF Inv, TypeOK, Roles
      <4>3. ~Queued(m.from, n)
        <5>1. ASSUME NEW k \in 1..Len(queues[h]), queues[h][k] = Text(m.from, n) PROVE FALSE
          <6>1. queues[h][k].from = m.from /\ queues[h][k].n = n
            BY <5>1 DEF Text
          <6>2. k = 1 \/ m.n < n
            BY <1>14, <5>1, <6>1
          <6>3. QED
            BY <1>5, <2>1, <4>2, <6>1, <6>2 DEF Roles
        <5>2. QED
          BY <1>14, <5>1 DEF Queued
      <4>4. HasTaken(m.from, n)
        BY <1>6, <2>1, <4>2, <4>3 DEF Inv, NothingLost
      <4>5. PICK d : d = m.from
        OBVIOUS
      <4>6. HasTaken(d, n)'
        BY <1>6, <1>26, <2>1, <4>4, <4>5
      <4>7. mybuf'[c].from = d
        BY <4>1, <4>5
      <4>8. QED
        BY <1>6, <4>1, <4>6, <4>7 DEF HasTaken
    <3>3. QED
      BY <3>1, <3>2
  <2>2. QED
    BY <2>1 DEF LastSeen
<1>29. InHand'
  BY <1>6, <1>8, <1>16 DEF Inv, InHand, TypeOK, Processes
<1>30. OnlyTheEndRemoves'
  BY <1>8 DEF Inv, OnlyTheEndRemoves, TypeOK, Processes, h
<1>31. QED
  BY <1>18, <1>19, <1>20, <1>23, <1>24, <1>25, <1>27, <1>28, <1>29, <1>30 DEF Inv

\* The receiver of a LAST message ends, and its queue with it.
LEMMA RemoveStep ==
    ASSUME Roles, Inv, NEW r \in Receivers, RemoveQueue(r) PROVE Inv'
<1>1. /\ pc[r] = "received" /\ TookLast(r) /\ r \in Processes
      /\ pc' = [pc EXCEPT ![r] = "done"]
      /\ removed' = removed \union {msqid[r]}
      /\ UNCHANGED <<queues, msqid, i, mybuf, printed>>
  BY DEF RemoveQueue, Goto, Processes
<1>2. taken' = taken /\ \A c \in Receivers : (Holds(c)' <=> Holds(c)) /\ (TookLast(c)' <=> TookLast(c))
  BY <1>1, TakenStays
<1>3. ~Holds(r)
  BY <1>1, MessageFields DEF Holds, TookLast, Texts, Roles
<1>4. TypeOK'
  BY <1>1, <1>2 DEF Inv, TypeOK, Attached
<1>5. Attached'
  BY <1>1 DEF Inv, TypeOK, Attached, Processes, Roles
<1>6. (QueuesInOrder /\ TakenFirst /\ TakenInOrder /\ TakenApart)'
  BY <1>1, <1>2 DEF Inv, QueuesInOrder, TakenFirst, SentFirst, TakenInOrder, TakenApart
<1>7. NothingLost'
  BY <1>1, <1>2 DEF Inv, NothingLost, Queued, HasTaken
<1>8. LastSeen'
  BY <1>1, <1>2 DEF Inv, LastSeen, HasTaken
<1>9. InHand'
  BY <1>1, <1>2, <1>3 DEF Inv, TypeOK, InHand, Processes
<1>10. OnlyTheEndRemoves'
  BY <1>1 DEF Inv, TypeOK, OnlyTheEndRemoves, Processes
<1>11. QED
  BY <1>4, <1>5, <1>6, <1>7, <1>8, <1>9, <1>10 DEF Inv

\* A text in the buffer is printed: what has been taken stays as it is.
LEMMA PrintStep ==
    ASSUME Roles, Inv, NEW r \in Receivers, PrintText(r) PROVE Inv'
<1>1. /\ pc[r] = "received" /\ ~TookLast(r) /\ r \in Processes
      /\ pc' = [pc EXCEPT ![r] = "receive"]
      /\ printed' = [printed EXCEPT ![r] = Append(printed[r], mybuf[r])]
      /\ UNCHANGED <<queues, removed, msqid, i, mybuf>>
  BY DEF PrintText, Goto, Processes
<1>2. Holds(r) /\ mybuf[r] \in Texts /\ printed[r] \in Seq(Texts)
  BY <1>1 DEF Inv, InHand, TypeOK, Holds
<1>3. /\ \A c \in Receivers : TookLast(c)' <=> TookLast(c)
      /\ \A c \in Receivers \ {r} : (Holds(c)' <=> Holds(c)) /\ printed'[c] = printed[c]
      /\ printed'[r] = Append(printed[r], mybuf[r])
  BY <1>1 DEF TookLast, Holds, Inv, TypeOK
<1>4. ~Holds(r)'
  <2>1. /\ Len(printed[r]) + 1 \in DOMAIN printed'[r]
        /\ printed'[r][Len(printed[r]) + 1] = mybuf[r]
    BY <1>2, <1>3
  <2>2. mybuf'[r] \in Range(printed'[r])
    BY <1>1, <2>1 DEF Range
  <2>3. QED
    BY <2>2 DEF Holds
<1>5. taken' = taken
  BY <1>1, <1>2, <1>3, <1>4 DEF taken
<1>6. TypeOK'
  <2>1. printed' \in [Receivers -> Seq(Texts)]
    BY <1>1, <1>2 DEF Inv, TypeOK
  <2>2. QED
    BY <1>1, <1>5, <2>1 DEF Inv, TypeOK
<1>7. Attached'
  BY <1>1 DEF Inv, TypeOK, Attached, Processes, Roles
<1>8. (QueuesInOrder /\ TakenFirst /\ TakenInOrder /\ TakenApart)'
  BY <1>1, <1>5 DEF Inv, QueuesInOrder, TakenFirst, SentFirst, TakenInOrder, TakenApart
<1>9. NothingLost'
  BY <1>1, <1>5 DEF Inv, NothingLost, Queued, HasTaken
<1>10. LastSeen'
  BY <1>1, <1>3, <1>5 DEF Inv, LastSeen, HasTaken
<1>11. InHand'
  BY <1>1, <1>3, <1>4 DEF Inv, TypeOK, InHand, Processes
<1>12. OnlyTheEndRemoves'
  BY <1>1 DEF Inv, TypeOK, OnlyTheEndRemoves, Processes
<1>13. QED
  BY <1>6, <1>7, <1>8, <1>9, <1>10, <1>11, <1>12 DEF Inv

\* The invariant of the senders and the receivers, for any number of them, of
\* queues and of kills (task1_1.c, task1_2.c).
THEOREM InvHolds ==
    ASSUME Roles PROVE Spec => []Inv
<1>1. Init => Inv
  BY InitInv
<1>2. Inv /\ [Next]_vars => Inv'
  <2> SUFFICES ASSUME Inv, [Next]_vars PROVE Inv'
    OBVIOUS
  <2>1. CASE UNCHANGED vars
    BY <2>1, ControlStep DEF vars, Inv, TypeOK
  <2>2. ASSUME NEW p \in Processes, Attach(p) PROVE Inv'
    BY <2>2, AttachStep
  <2>3. ASSUME NEW p \in Processes, Kill(p) PROVE Inv'
    BY <2>3, ControlStep DEF Kill, Inv, TypeOK, Processes
  <2>4. ASSUME NEW s \in Senders, Send(s) PROVE Inv'
    BY <2>4, SendStep
  <2>5. ASSUME NEW s \in Senders, SendFails(s) PROVE Inv'
    BY <2>5, ControlStep DEF SendFails, RemovedOnFailure, Gone, Goto, Processes, Roles, Inv, TypeOK
  <2>6. ASSUME NEW r \in Receivers, Receive(r) PROVE Inv'
    BY <2>6, ReceiveStep
  <2>7. ASSUME NEW r \in Receivers, RemoveQueue(r) PROVE Inv'
    BY <2>7, RemoveStep
  <2>8. ASSUME NEW r \in Receivers, PrintText(r) PROVE Inv'
    BY <2>8, PrintStep
  <2>9. ASSUME NEW r \in Receivers, ReceiveFails(r) PROVE Inv'
    BY <2>9, ControlStep DEF ReceiveFails, Gone, Goto, Processes, Inv, TypeOK
  <2>10. QED
    BY <2>1, <2>2, <2>3, <2>4, <2>5, <2>6, <2>7, <2>8, <2>9 DEF Next, Sending, Receiving, Processes
<1>3. QED
  BY <1>1, <1>2, PTL DEF Spec

-----------------------------------------------------------------------------
\* Whatever fails or is killed, no queue disappears but through a receiver that
\* took a LAST message from it (task1_1.c:36-41, task1_2.c:42-46).
THEOREM OnlyLastRemoves ==
    ASSUME Roles PROVE Spec => []OnlyTheEndRemoves
<1>1. Inv => OnlyTheEndRemoves
  BY DEF Inv
<1>2. QED
  BY <1>1, InvHolds, PTL

\* No text is printed twice, by one receiver or by two, and one receiver prints
\* those of a sender in the order they were sent (task1_2.c:31-48).
THEOREM OncePrinted ==
    ASSUME Roles PROVE Spec => []PrintedOnceInOrder
<1>1. ASSUME Inv PROVE PrintedOnceInOrder
  <2>1. \A r \in Receivers : DOMAIN printed[r] = 1..Len(printed[r])
    BY <1>1 DEF Inv, TypeOK
  <2>2. \A r \in Receivers : \A k \in 1..Len(printed[r]) :
            k \in 1..Len(taken[r]) /\ taken[r][k] = printed[r][k]
    BY <1>1, TakenExtends DEF Inv
  <2>3. ASSUME NEW r \in Receivers, NEW k \in 1..Len(printed[r]), NEW l \in 1..Len(printed[r]),
               k < l, printed[r][k].from = printed[r][l].from
        PROVE  printed[r][k].n < printed[r][l].n
    BY <1>1, <2>2, <2>3 DEF Inv, TakenInOrder
  <2>4. ASSUME NEW r \in Receivers, NEW other \in Receivers, r # other,
               NEW k \in 1..Len(printed[r]), NEW l \in 1..Len(printed[other])
        PROVE  printed[r][k] # printed[other][l]
    BY <1>1, <2>2, <2>4 DEF Inv, TakenApart
  <2>5. QED
    BY <2>1, <2>3, <2>4 DEF PrintedOnceInOrder, Range
<1>2. QED
  BY <1>1, InvHolds, PTL

\* When somebody has taken a sender's LAST message, every text of that sender has
\* been printed or is in the buffer of a receiver between msgrcv and printf, or
\* killed there (task1_2.c:31-48, task1_1.c:30-47).
THEOREM LastComesLast ==
    ASSUME Roles PROVE Spec => []LastMeansAll
<1>1. ASSUME Inv PROVE LastMeansAll
  <2>1. ASSUME NEW r \in Receivers, TookLast(r), NEW n \in 1..NTexts
        PROVE  \E other \in Receivers :
                  \/ Text(mybuf[r].from, n) \in Range(printed[other])
                  \/ /\ mybuf[other] = Text(mybuf[r].from, n)
                     /\ pc[other] \in {"received", "killed"}
    <3>1. HasTaken(mybuf[r].from, n)
      BY <1>1, <2>1 DEF Inv, LastSeen
    <3>2. PICK other \in Receivers :
                \E k \in 1..Len(taken[other]) : taken[other][k] = Text(mybuf[r].from, n)
      BY <3>1 DEF HasTaken
    <3>3. PICK k \in 1..Len(taken[other]) : taken[other][k] = Text(mybuf[r].from, n)
      BY <3>2
    <3>4. \/ taken[other][k] \in Range(printed[other])
          \/ Holds(other) /\ taken[other][k] = mybuf[other]
      BY <1>1, <3>3, TakenExtends DEF Inv
    <3>5. Holds(other) => pc[other] \in {"received", "killed"}
      BY <1>1 DEF Inv, InHand
    <3>6. QED
      BY <3>3, <3>4, <3>5
  <2>2. QED
    BY <2>1 DEF LastMeansAll
<1>2. QED
  BY <1>1, InvHolds, PTL

-----------------------------------------------------------------------------
\* QueueChat.

ChatMessages == {m \in [type : Nat, from : Instances, n : Nat] : m.type = WriteType[m.from]}

ParentPlaces == {"off", "read", "send", "last", "waitpid", "ended", "killed"}
ChildPlaces == {"off", "receive", "not_forked", "ended", "killed"}

ChatTypeOK ==
    /\ queue \in Seq(ChatMessages)
    /\ parent \in [Instances -> ParentPlaces] /\ child \in [Instances -> ChildPlaces]
    /\ typed \in [Instances -> Nat] /\ shown \in [Instances -> Seq(ChatMessages)]
    /\ \A x \in Instances : parent[x] = "send" => typed[x] > 0
    /\ \A x \in Instances : parent[x] = "off" => child[x] = "off"

\* An instance that ends sends its last message once, after all others.
MayHaveSentLast(x) == parent[x] \in {"waitpid", "ended", "killed"}
LastIsOnce ==
    \A k \in 1..Len(queue) : queue[k].n = 0 =>
        /\ MayHaveSentLast(queue[k].from)
        /\ \A l \in 1..Len(queue) : k < l => queue[l].from # queue[k].from

\* The operators of the chat's module are those the lemmas are about.
LEMMA ChatOperators ==
    /\ \A q, t : Chat!HasMessage(q, t) <=> HasMessage(q, t)
    /\ \A q, t : Chat!Received(q, t) = Received(q, t)
    /\ \A q, t : Chat!Remaining(q, t) = Remaining(q, t)
    /\ \A q : Chat!Range(q) = Range(q)
    /\ \A S : Chat!Cardinality(S) = Cardinality(S)
<1>1. \A q, t : Chat!HasMessage(q, t) <=> HasMessage(q, t)
  BY DEF Chat!HasMessage, HasMessage, Chat!Matches, Matches
<1>2. \A q, t : Chat!FirstMatch(q, t) = FirstMatch(q, t)
  BY DEF Chat!FirstMatch, FirstMatch, Chat!Matches, Matches, Chat!SelectInSeq, SelectInSeq,
     Chat!Min, Min
<1>3. \A q, t : Chat!Received(q, t) = Received(q, t)
  BY <1>2 DEF Chat!Received, Received
<1>4. \A q, t : Chat!Remaining(q, t) = Remaining(q, t)
  BY <1>2 DEF Chat!Remaining, Remaining, Chat!RemoveAt, RemoveAt
<1>5. \A q : Chat!Range(q) = Range(q)
  BY DEF Chat!Range, Range
<1>6. \A S : Chat!Cardinality(S) = Cardinality(S)
  BY DEF Chat!Cardinality, Cardinality
<1>7. QED
  BY <1>1, <1>3, <1>4, <1>5, <1>6

\* A message that is sent.
LEMMA ChatSends ==
    ASSUME ChatTypeOK, NEW x \in Instances, Chat!SendLine(x) \/ Chat!SendLast(x)
    PROVE  \E m \in ChatMessages :
              /\ m.from = x /\ m.type = WriteType[x] /\ m.type # 0
              /\ queue' = Append(queue, m)
              /\ UNCHANGED <<child, typed, shown>>
              /\ \/ /\ m.n = typed[x] /\ m.n # 0 /\ parent[x] = "send"
                    /\ parent' = [parent EXCEPT ![x] = "read"]
                 \/ /\ m.n = 0 /\ m = Chat!Message(x, 0) /\ parent[x] = "last"
                    /\ parent' = [parent EXCEPT ![x] = "waitpid"]
<1>1. ASSUME NEW n \in Nat PROVE Chat!Message(x, n) \in ChatMessages
  BY QueueChatAssumption DEF Chat!Message, ChatMessages
<1>2. CASE Chat!SendLine(x)
  <2>1. typed[x] \in Nat /\ parent[x] = "send" /\ typed[x] > 0
    BY <1>2 DEF Chat!SendLine, Chat!ParentGoto, ChatTypeOK
  <2>2. /\ queue' = Append(queue, Chat!Message(x, typed[x])) /\ WriteType[x] > 0
        /\ parent' = [parent EXCEPT ![x] = "read"] /\ UNCHANGED <<child, typed, shown>>
    BY <1>2 DEF Chat!SendLine, Chat!ParentGoto, Chat!Send, Chat!ValidType, Chat!Message
  <2>3. QED
    BY <1>1, <2>1, <2>2 DEF Chat!Message
<1>3. CASE Chat!SendLast(x)
  <2>1. /\ queue' = Append(queue, Chat!Message(x, 0)) /\ WriteType[x] > 0 /\ parent[x] = "last"
        /\ parent' = [parent EXCEPT ![x] = "waitpid"] /\ UNCHANGED <<child, typed, shown>>
    BY <1>3 DEF Chat!SendLast, Chat!ParentGoto, Chat!Send, Chat!ValidType, Chat!Message
  <2>2. QED
    BY <1>1, <2>1 DEF Chat!Message
<1>4. QED
  BY <1>2, <1>3

\* A message that is received: the first under the child's number.
LEMMA ChatReceives ==
    ASSUME ChatTypeOK, NEW x \in Instances, Chat!ReceiveMsg(x)
    PROVE  \E k \in 1..Len(queue) :
              /\ queue[k].type = ReadType[x]
              /\ \A l \in 1..(k - 1) : queue[l].type # ReadType[x]
              /\ queue' \in Seq(ChatMessages) /\ Closes(queue', queue, k)
              /\ child[x] = "receive" /\ UNCHANGED <<parent, typed>>
              /\ \/ /\ queue[k].n = 0 /\ shown' = shown
                    /\ child' = [child EXCEPT ![x] = "ended"]
                 \/ /\ queue[k].n # 0 /\ child' = child
                    /\ shown' = [shown EXCEPT ![x] = Append(shown[x], queue[k])]
<1> DEFINE t == ReadType[x]
           k == FirstMatch(queue, t)
<1>1. t \in Nat \ {0} /\ queue \in Seq(ChatMessages)
  BY QueueChatAssumption DEF ChatTypeOK
<1>2. child[x] = "receive" /\ HasMessage(queue, t) /\ UNCHANGED <<parent, typed>>
  BY ChatOperators DEF Chat!ReceiveMsg, Chat!ReceiveNumber
<1>3. /\ k \in 1..Len(queue) /\ Received(queue, t) = queue[k] /\ Matches(queue[k], t)
      /\ \A l \in 1..(k - 1) : ~Matches(queue[l], t)
      /\ Remaining(queue, t) \in Seq(ChatMessages) /\ Closes(Remaining(queue, t), queue, k)
  BY <1>1, <1>2, RemainingPositions DEF Closes
<1>4. queue' = Remaining(queue, t)
  BY ChatOperators DEF Chat!ReceiveMsg, Chat!ReceiveNumber
<1>5. \/ /\ queue[k].n = 0 /\ shown' = shown
         /\ child' = [child EXCEPT ![x] = "ended"]
      \/ /\ queue[k].n # 0 /\ child' = child
         /\ shown' = [shown EXCEPT ![x] = Append(shown[x], queue[k])]
  <2>1. Chat!Received(queue, Chat!ReceiveNumber(x)) = queue[k]
    BY <1>3, ChatOperators DEF Chat!ReceiveNumber
  <2>2. QED
    BY <2>1 DEF Chat!ReceiveMsg, Chat!Empty
<1>6. queue[k].type = t /\ \A l \in 1..(k - 1) : queue[l].type # t
  BY <1>1, <1>3 DEF Matches
<1>7. QED
  BY <1>2, <1>3, <1>4, <1>5, <1>6

\* What the other actions do.
LEMMA ChatKeeps ==
    ASSUME ChatTypeOK, NEW x \in Instances,
           \/ Chat!Start(x) \/ Chat!ReadLine(x) \/ Chat!EndOfInput(x)
           \/ Chat!SendFails(x) \/ Chat!Exit(x) \/ Chat!Kill(x)
    PROVE  /\ UNCHANGED <<queue, shown>>
           /\ \E to \in ParentPlaces : parent' = [parent EXCEPT ![x] = to]
           /\ \E to \in ChildPlaces : /\ child' = [child EXCEPT ![x] = to]
                                      /\ to = "ended" <=> child[x] = "ended"
                                      /\ to = "off" => child[x] = "off"
           /\ parent'[x] # "off" /\ (parent'[x] = "send" => parent[x] = "read")
           /\ parent'[x] = "read" => parent[x] = "off"
           /\ MayHaveSentLast(x) => MayHaveSentLast(x)'
           /\ MayHaveSentLast(x)' => \/ MayHaveSentLast(x) \/ parent'[x] = "killed"
                                     \/ WriteType[x] = 0
           /\ parent'[x] = "waitpid" => WriteType[x] = 0
           /\ parent'[x] = "ended" => parent[x] = "waitpid"
           /\ IF parent'[x] = "send" THEN typed' = [typed EXCEPT ![x] = typed[x] + 1]
              ELSE typed' = typed
<1>0. WriteType[x] \in Nat
  BY QueueChatAssumption
<1>1. parent[x] \in ParentPlaces /\ child[x] \in ChildPlaces
      /\ parent \in [Instances -> ParentPlaces] /\ child \in [Instances -> ChildPlaces]
      /\ (parent[x] = "off" => child[x] = "off")
  BY DEF ChatTypeOK
<1> USE DEF Chat!ParentGoto, MayHaveSentLast, ParentPlaces, ChildPlaces
<1>2. CASE Chat!Start(x)
  BY <1>1, <1>2 DEF Chat!Start
<1>3. CASE Chat!ReadLine(x)
  BY <1>1, <1>3 DEF Chat!ReadLine
<1>4. CASE Chat!EndOfInput(x)
  BY <1>1, <1>4 DEF Chat!EndOfInput
<1>5. CASE Chat!SendFails(x)
  BY <1>0, <1>1, <1>5 DEF Chat!SendFails, Chat!ValidType
<1>6. CASE Chat!Exit(x)
  BY <1>1, <1>6 DEF Chat!Exit
<1>7. CASE Chat!Kill(x)
  BY <1>1, <1>7 DEF Chat!Kill
<1>8. QED
  BY <1>2, <1>3, <1>4, <1>5, <1>6, <1>7

\* The three kinds of steps.
LEMMA ChatSteps ==
    ASSUME Chat!Next
    PROVE  \E x \in Instances :
              \/ Chat!SendLine(x) \/ Chat!SendLast(x) \/ Chat!ReceiveMsg(x)
              \/ Chat!Start(x) \/ Chat!ReadLine(x) \/ Chat!EndOfInput(x)
              \/ Chat!SendFails(x) \/ Chat!Exit(x) \/ Chat!Kill(x)
BY DEF Chat!Next, Chat!Sending

LEMMA ChatTypeStep ==
    ASSUME ChatTypeOK, Chat!Next
    PROVE  ChatTypeOK'
<1>1. PICK x \in Instances :
              \/ Chat!SendLine(x) \/ Chat!SendLast(x) \/ Chat!ReceiveMsg(x)
              \/ Chat!Start(x) \/ Chat!ReadLine(x) \/ Chat!EndOfInput(x)
              \/ Chat!SendFails(x) \/ Chat!Exit(x) \/ Chat!Kill(x)
  BY ChatSteps
<1>2. CASE Chat!SendLine(x) \/ Chat!SendLast(x)
  <2>1. PICK m \in ChatMessages :
              /\ queue' = Append(queue, m)
              /\ UNCHANGED <<child, typed, shown>>
              /\ \/ parent[x] = "send" /\ parent' = [parent EXCEPT ![x] = "read"]
                 \/ parent[x] = "last" /\ parent' = [parent EXCEPT ![x] = "waitpid"]
    BY <1>2, ChatSends
  <2>2. Append(queue, m) \in Seq(ChatMessages)
    BY DEF ChatTypeOK
  <2>3. PICK to \in {"read", "waitpid"} : parent' = [parent EXCEPT ![x] = to]
    BY <2>1
  <2>4. parent' \in [Instances -> ParentPlaces] /\ parent[x] # "off"
    BY <2>1, <2>3 DEF ChatTypeOK, ParentPlaces
  <2>5. \A y \in Instances : /\ parent'[y] = "send" => parent[y] = "send"
                             /\ parent'[y] = "off" => parent[y] = "off"
    BY <2>3 DEF ChatTypeOK
  <2>6. QED
    BY <2>1, <2>2, <2>4, <2>5 DEF ChatTypeOK
<1>3. CASE Chat!ReceiveMsg(x)
  <2>1. PICK k \in 1..Len(queue) :
              /\ queue' \in Seq(ChatMessages)
              /\ child[x] = "receive" /\ UNCHANGED <<parent, typed>>
              /\ \/ /\ shown' = shown
                    /\ child' = [child EXCEPT ![x] = "ended"]
                 \/ /\ child' = child
                    /\ shown' = [shown EXCEPT ![x] = Append(shown[x], queue[k])]
    BY <1>3, ChatReceives
  <2>2. queue[k] \in ChatMessages
    BY DEF ChatTypeOK
  <2>3. shown' \in [Instances -> Seq(ChatMessages)]
    <3>1. shown \in [Instances -> Seq(ChatMessages)]
      BY DEF ChatTypeOK
    <3>2. Append(shown[x], queue[k]) \in Seq(ChatMessages)
      BY <2>2, <3>1
    <3>3. QED
      BY <2>1, <3>1, <3>2
  <2>4. QED
    BY <2>1, <2>3 DEF ChatTypeOK, ChildPlaces
<1>4. CASE \/ Chat!Start(x) \/ Chat!ReadLine(x) \/ Chat!EndOfInput(x)
           \/ Chat!SendFails(x) \/ Chat!Exit(x) \/ Chat!Kill(x)
  <2>1. PICK to \in ParentPlaces : parent' = [parent EXCEPT ![x] = to]
    BY <1>4, ChatKeeps
  <2>2. PICK next \in ChildPlaces : /\ child' = [child EXCEPT ![x] = next]
    BY <1>4, ChatKeeps
  <2>3. /\ UNCHANGED <<queue, shown>> /\ parent'[x] # "off"
        /\ IF parent'[x] = "send" THEN typed' = [typed EXCEPT ![x] = typed[x] + 1]
           ELSE typed' = typed
    BY <1>4, ChatKeeps
  <2>4. /\ parent'[x] = to /\ \A y \in Instances \ {x} : parent'[y] = parent[y]
        /\ child'[x] = next /\ \A y \in Instances \ {x} : child'[y] = child[y]
    BY <2>1, <2>2 DEF ChatTypeOK
  <2>5. /\ typed' \in [Instances -> Nat]
        /\ \A y \in Instances : parent'[y] = "send" => typed'[y] > 0
    <3>1. typed \in [Instances -> Nat] /\ \A y \in Instances : parent[y] = "send" => typed[y] > 0
      BY DEF ChatTypeOK
    <3>2. CASE to = "send"
      <4>1. typed' = [typed EXCEPT ![x] = typed[x] + 1]
        BY <2>3, <2>4, <3>2
      <4>2. typed[x] \in Nat /\ typed[x] + 1 \in Nat /\ typed[x] + 1 > 0
        BY <3>1
      <4>3. QED
        BY <2>4, <3>1, <4>1, <4>2
    <3>3. CASE to # "send"
      BY <2>3, <2>4, <3>1, <3>3
    <3>4. QED
      BY <3>2, <3>3
  <2>6. parent' \in [Instances -> ParentPlaces] /\ child' \in [Instances -> ChildPlaces]
    BY <2>1, <2>2 DEF ChatTypeOK
  <2>7. QED
    BY <2>3, <2>4, <2>5, <2>6 DEF ChatTypeOK
<1>5. QED
  BY <1>1, <1>2, <1>3, <1>4

LEMMA LastIsOnceStep ==
    ASSUME ChatTypeOK, LastIsOnce, Chat!Next
    PROVE  LastIsOnce'
<1>0. queue \in Seq(ChatMessages) /\ \A k \in 1..Len(queue) : queue[k].from \in Instances
  BY DEF ChatTypeOK, ChatMessages
<1>1. PICK x \in Instances :
              \/ Chat!SendLine(x) \/ Chat!SendLast(x) \/ Chat!ReceiveMsg(x)
              \/ Chat!Start(x) \/ Chat!ReadLine(x) \/ Chat!EndOfInput(x)
              \/ Chat!SendFails(x) \/ Chat!Exit(x) \/ Chat!Kill(x)
  BY ChatSteps
<1>2. CASE Chat!SendLine(x) \/ Chat!SendLast(x)
  <2>1. PICK m \in ChatMessages :
              /\ m.from = x /\ queue' = Append(queue, m)
              /\ \/ m.n # 0 /\ parent[x] = "send" /\ parent' = [parent EXCEPT ![x] = "read"]
                 \/ m.n = 0 /\ parent[x] = "last" /\ parent' = [parent EXCEPT ![x] = "waitpid"]
    BY <1>2, ChatSends
  <2>2. ~MayHaveSentLast(x)
    BY <2>1 DEF MayHaveSentLast
  <2>3. /\ \A y \in Instances : MayHaveSentLast(y) => MayHaveSentLast(y)'
        /\ m.n = 0 => MayHaveSentLast(x)'
    BY <2>1, <2>2 DEF MayHaveSentLast, ChatTypeOK
  <2>4. /\ Len(queue) \in Nat /\ Len(queue') = Len(queue) + 1
        /\ queue'[Len(queue) + 1] = m /\ \A k \in 1..Len(queue) : queue'[k] = queue[k]
    BY <1>0, <2>1
  <2>5. ASSUME NEW k \in 1..Len(queue'), queue'[k].n = 0
        PROVE  /\ parent'[queue'[k].from] \in {"waitpid", "ended", "killed"}
               /\ \A l \in 1..Len(queue') : k < l => queue'[l].from # queue'[k].from
    <3>1. CASE k = Len(queue) + 1
      BY <2>1, <2>3, <2>4, <2>5, <3>1 DEF MayHaveSentLast
    <3>2. CASE k \in 1..Len(queue)
      <4>1. /\ MayHaveSentLast(queue[k].from) /\ queue[k].from \in Instances
            /\ \A l \in 1..Len(queue) : k < l => queue[l].from # queue[k].from
        BY <1>0, <2>4, <2>5, <3>2 DEF LastIsOnce
      <4>2. queue'[k] = queue[k] /\ queue[k].from # x /\ MayHaveSentLast(queue[k].from)'
        BY <2>2, <2>3, <2>4, <3>2, <4>1
      <4>3. ASSUME NEW l \in 1..Len(queue'), k < l PROVE queue'[l].from # queue[k].from
        BY <2>1, <2>4, <4>1, <4>2, <4>3
      <4>4. QED
        BY <4>2, <4>3 DEF MayHaveSentLast
    <3>3. QED
      BY <2>4, <3>1, <3>2
  <2>6. QED
    BY <2>5 DEF LastIsOnce, MayHaveSentLast
<1>3. CASE Chat!ReceiveMsg(x)
  <2>1. PICK k \in 1..Len(queue) : Closes(queue', queue, k) /\ parent' = parent
    BY <1>3, ChatReceives
  <2>2. /\ Len(queue) \in Nat /\ Len(queue') = Len(queue) - 1
        /\ \A l \in 1..Len(queue') : queue'[l] = IF l < k THEN queue[l] ELSE queue[l + 1]
    BY <1>0, <2>1 DEF Closes
  <2>3. ASSUME NEW l \in 1..Len(queue'), queue'[l].n = 0
        PROVE  /\ parent'[queue'[l].from] \in {"waitpid", "ended", "killed"}
               /\ \A o \in 1..Len(queue') : l < o => queue'[o].from # queue'[l].from
    <3>1. PICK p \in 1..Len(queue) : queue'[l] = queue[p] /\ p = IF l < k THEN l ELSE l + 1
      BY <2>2
    <3>2. /\ MayHaveSentLast(queue[p].from)
          /\ \A o \in 1..Len(queue) : p < o => queue[o].from # queue[p].from
      BY <2>3, <3>1 DEF LastIsOnce
    <3>3. ASSUME NEW o \in 1..Len(queue'), l < o PROVE queue'[o].from # queue'[l].from
      <4>1. PICK r \in 1..Len(queue) : queue'[o] = queue[r] /\ r = IF o < k THEN o ELSE o + 1
        BY <2>2
      <4>2. p < r
        BY <3>1, <3>3, <4>1
      <4>3. QED
        BY <3>1, <3>2, <4>1, <4>2
    <3>4. QED
      BY <2>1, <3>1, <3>2, <3>3 DEF MayHaveSentLast
  <2>4. QED
    BY <2>3 DEF LastIsOnce, MayHaveSentLast
<1>4. CASE \/ Chat!Start(x) \/ Chat!ReadLine(x) \/ Chat!EndOfInput(x)
           \/ Chat!SendFails(x) \/ Chat!Exit(x) \/ Chat!Kill(x)
  <2>1. /\ queue' = queue /\ (MayHaveSentLast(x) => MayHaveSentLast(x)')
        /\ \E to \in ParentPlaces : parent' = [parent EXCEPT ![x] = to]
    BY <1>4, ChatKeeps
  <2>2. \A y \in Instances : MayHaveSentLast(y) => MayHaveSentLast(y)'
    BY <2>1 DEF MayHaveSentLast, ChatTypeOK
  <2>3. QED
    BY <1>0, <2>1, <2>2 DEF LastIsOnce, MayHaveSentLast
<1>5. QED
  BY <1>1, <1>2, <1>3, <1>4

\* OneEndForOneLast for one number.
EndedOf(t) == {x \in Instances : ReadType[x] = t /\ child[x] = "ended"}
LastsOf(t) == {m \in Range(queue) : m.type = t /\ m.n = 0}
WritersOf(t, places) == {x \in Instances : WriteType[x] = t /\ parent[x] \in places}
Balanced(t) ==
    Cardinality(EndedOf(t)) + Cardinality(LastsOf(t)) \in
        Cardinality(WritersOf(t, {"waitpid", "ended"}))
            .. Cardinality(WritersOf(t, {"waitpid", "ended", "killed"}))

LEMMA CountedSetsAreFinite ==
    ASSUME ChatTypeOK
    PROVE  \A t : /\ IsFiniteSet(EndedOf(t)) /\ IsFiniteSet(LastsOf(t))
                  /\ \A places : IsFiniteSet(WritersOf(t, places))
<1>1. ASSUME NEW S, S \subseteq Instances PROVE IsFiniteSet(S)
  BY <1>1, QueueChatAssumption, FS_Subset
<1>2. IsFiniteSet(Range(queue))
  <2>1. queue \in Seq(ChatMessages)
    BY DEF ChatTypeOK
  <2>2. Len(queue) \in Nat /\ queue \in [1..Len(queue) -> Range(queue)]
        /\ Range(queue) = {queue[k] : k \in 1..Len(queue)}
    BY <2>1, MembersOfSeq
  <2>3. queue \in Surjection(1..Len(queue), Range(queue))
    BY <2>2 DEF Surjection
  <2>4. IsFiniteSet(1..Len(queue))
    <3>1. 1 \in Int /\ Len(queue) \in Int
      BY <2>2
    <3>2. QED
      BY <3>1, FS_Interval
  <2>5. QED
    BY <2>3, <2>4, FS_Surjection
<1>3. ASSUME NEW t PROVE IsFiniteSet(LastsOf(t))
  <2>1. LastsOf(t) \subseteq Range(queue)
    BY DEF LastsOf
  <2>2. QED
    BY <1>2, <2>1, FS_Subset
<1>4. ASSUME NEW t PROVE EndedOf(t) \subseteq Instances
  BY DEF EndedOf
<1>5. ASSUME NEW t, NEW places PROVE WritersOf(t, places) \subseteq Instances
  BY DEF WritersOf
<1>6. QED
  BY <1>1, <1>3, <1>4, <1>5

\* A message taken out leaves the others.
LEMMA OthersStay ==
    ASSUME ChatTypeOK, NEW k \in 1..Len(queue), NEW rest \in Seq(ChatMessages),
           Closes(rest, queue, k)
    PROVE  \A m : m \in Range(rest) <=> \E l \in 1..Len(queue) : l # k /\ queue[l] = m
<1>1. /\ Len(queue) \in Nat /\ Len(rest) = Len(queue) - 1
      /\ \A l \in 1..Len(rest) : rest[l] = IF l < k THEN queue[l] ELSE queue[l + 1]
      /\ Range(rest) = {rest[l] : l \in 1..Len(rest)}
  BY MembersOfSeq DEF Closes, ChatTypeOK
<1>2. ASSUME NEW l \in 1..Len(rest)
      PROVE  \E p \in 1..Len(queue) : p # k /\ queue[p] = rest[l]
  <2>1. CASE l < k
    BY <1>1, <2>1
  <2>2. CASE ~(l < k)
    <3>1. l + 1 \in 1..Len(queue) /\ l + 1 # k /\ rest[l] = queue[l + 1]
      BY <1>1, <2>2
    <3>2. QED
      BY <3>1
  <2>3. QED
    BY <2>1, <2>2
<1>3. ASSUME NEW p \in 1..Len(queue), p # k
      PROVE  \E l \in 1..Len(rest) : rest[l] = queue[p]
  <2>1. CASE p < k
    BY <1>1, <2>1
  <2>2. CASE k < p
    <3>1. p - 1 \in 1..Len(rest) /\ ~(p - 1 < k) /\ (p - 1) + 1 = p
      BY <1>1, <2>2
    <3>2. QED
      BY <1>1, <3>1
  <2>3. QED
    BY <1>3, <2>1, <2>2
<1>4. ASSUME NEW m, m \in Range(rest) PROVE \E l \in 1..Len(queue) : l # k /\ queue[l] = m
  <2>1. PICK l \in 1..Len(rest) : rest[l] = m
    BY <1>1, <1>4
  <2>2. QED
    BY <1>2, <2>1
<1>5. ASSUME NEW m, NEW p \in 1..Len(queue), p # k, queue[p] = m PROVE m \in Range(rest)
  <2>1. PICK l \in 1..Len(rest) : rest[l] = m
    BY <1>3, <1>5
  <2>2. QED
    BY <1>1, <2>1
<1>6. QED
  BY <1>4, <1>5

\* What a step does to the sets that are compared under the number t.
NobodyEnds(t) ==
    /\ EndedOf(t)' = EndedOf(t) /\ LastsOf(t)' = LastsOf(t)
    /\ WritersOf(t, {"waitpid", "ended"})' \subseteq WritersOf(t, {"waitpid", "ended"})
    /\ WritersOf(t, {"waitpid", "ended", "killed"})
          \subseteq WritersOf(t, {"waitpid", "ended", "killed"})'
WriterEnds(t, x, m) ==
    /\ EndedOf(t)' = EndedOf(t) /\ m \notin LastsOf(t) /\ LastsOf(t)' = LastsOf(t) \union {m}
    /\ x \notin WritersOf(t, {"waitpid", "ended", "killed"})
    /\ x \notin WritersOf(t, {"waitpid", "ended"})
    /\ WritersOf(t, {"waitpid", "ended"})' = WritersOf(t, {"waitpid", "ended"}) \union {x}
    /\ WritersOf(t, {"waitpid", "ended", "killed"})' =
          WritersOf(t, {"waitpid", "ended", "killed"}) \union {x}
ReaderEnds(t, x, m) ==
    /\ x \notin EndedOf(t) /\ EndedOf(t)' = EndedOf(t) \union {x}
    /\ m \in LastsOf(t) /\ LastsOf(t)' = LastsOf(t) \ {m}
    /\ WritersOf(t, {"waitpid", "ended"})' = WritersOf(t, {"waitpid", "ended"})
    /\ WritersOf(t, {"waitpid", "ended", "killed"})' =
          WritersOf(t, {"waitpid", "ended", "killed"})

LEMMA BalanceIsKept ==
    ASSUME ChatTypeOK, NEW t, Balanced(t), NEW x, NEW m,
           NobodyEnds(t) \/ WriterEnds(t, x, m) \/ ReaderEnds(t, x, m)
    PROVE  Balanced(t)'
<1> DEFINE E == EndedOf(t)
           L == LastsOf(t)
           W == WritersOf(t, {"waitpid", "ended"})
           V == WritersOf(t, {"waitpid", "ended", "killed"})
<1>1. /\ IsFiniteSet(E) /\ IsFiniteSet(L) /\ IsFiniteSet(W) /\ IsFiniteSet(V)
      /\ IsFiniteSet(V')
  <2>1. V' \subseteq Instances
    BY DEF WritersOf
  <2>2. IsFiniteSet(V')
    BY <2>1, QueueChatAssumption, FS_Subset
  <2>3. QED
    BY <2>2, CountedSetsAreFinite
<1>2. /\ Cardinality(E) + Cardinality(L) >= Cardinality(W)
      /\ Cardinality(E) + Cardinality(L) <= Cardinality(V)
      /\ Cardinality(E) \in Nat /\ Cardinality(L) \in Nat
      /\ Cardinality(W) \in Nat /\ Cardinality(V) \in Nat
  BY <1>1, FS_CardinalityType DEF Balanced
<1>3. SUFFICES /\ Cardinality(E') + Cardinality(L') >= Cardinality(W')
               /\ Cardinality(E') + Cardinality(L') <= Cardinality(V')
               /\ Cardinality(E') \in Nat /\ Cardinality(L') \in Nat
               /\ Cardinality(W') \in Nat /\ Cardinality(V') \in Nat
  BY DEF Balanced
<1>4. \/ E' = E /\ L' = L /\ W' \subseteq W /\ V \subseteq V'
      \/ /\ E' = E /\ m \notin L /\ L' = L \union {m} /\ x \notin W /\ x \notin V
         /\ W' = W \union {x} /\ V' = V \union {x}
      \/ /\ x \notin E /\ E' = E \union {x} /\ m \in L /\ L' = L \ {m} /\ W' = W /\ V' = V
  BY DEF NobodyEnds, WriterEnds, ReaderEnds
<1> HIDE DEF E, L, W, V
<1>5. CASE E' = E /\ L' = L /\ W' \subseteq W /\ V \subseteq V'
  <2>1. IsFiniteSet(W') /\ Cardinality(W') <= Cardinality(W) /\ Cardinality(W') \in Nat
    BY <1>1, <1>5, FS_Subset, FS_CardinalityType
  <2>2. Cardinality(V) <= Cardinality(V') /\ Cardinality(V') \in Nat
    BY <1>1, <1>5, FS_Subset, FS_CardinalityType
  <2>3. QED
    BY <1>2, <1>5, <2>1, <2>2
<1>6. CASE /\ E' = E /\ m \notin L /\ L' = L \union {m} /\ x \notin W /\ x \notin V
           /\ W' = W \union {x} /\ V' = V \union {x}
  <2>1. /\ Cardinality(L') = Cardinality(L) + 1 /\ Cardinality(W') = Cardinality(W) + 1
        /\ Cardinality(V') = Cardinality(V) + 1
    BY <1>1, <1>6, FS_AddElement
  <2>2. QED
    BY <1>2, <1>6, <2>1
<1>7. CASE /\ x \notin E /\ E' = E \union {x} /\ m \in L /\ L' = L \ {m} /\ W' = W /\ V' = V
  <2>1. Cardinality(E') = Cardinality(E) + 1 /\ Cardinality(L') = Cardinality(L) - 1
        /\ Cardinality(L) # 0
    BY <1>1, <1>7, FS_AddElement, FS_RemoveElement, FS_EmptySet
  <2>2. QED
    BY <1>2, <1>7, <2>1
<1>8. QED
  BY <1>4, <1>5, <1>6, <1>7

LEMMA BalancedStep ==
    ASSUME ChatTypeOK, LastIsOnce, Chat!Next, NEW t \in Nat \ {0}, Balanced(t)
    PROVE  Balanced(t)'
<1>0. /\ parent \in [Instances -> ParentPlaces] /\ child \in [Instances -> ChildPlaces]
      /\ queue \in Seq(ChatMessages) /\ Range(queue) = {queue[k] : k \in 1..Len(queue)}
      /\ Len(queue) \in Nat
      /\ \A k \in 1..Len(queue) :
            queue[k].from \in Instances /\ queue[k].type = WriteType[queue[k].from]
  <2>1. /\ parent \in [Instances -> ParentPlaces] /\ child \in [Instances -> ChildPlaces]
        /\ queue \in Seq(ChatMessages) /\ Len(queue) \in Nat
    BY DEF ChatTypeOK
  <2>2. Range(queue) = {queue[k] : k \in 1..Len(queue)}
    BY <2>1, MembersOfSeq, Zenon
  <2>3. \A k \in 1..Len(queue) : queue[k] \in ChatMessages
    BY <2>1
  <2>4. QED
    BY <2>1, <2>2, <2>3 DEF ChatMessages
<1>1. PICK x \in Instances :
              \/ Chat!SendLine(x) \/ Chat!SendLast(x) \/ Chat!ReceiveMsg(x)
              \/ Chat!Start(x) \/ Chat!ReadLine(x) \/ Chat!EndOfInput(x)
              \/ Chat!SendFails(x) \/ Chat!Exit(x) \/ Chat!Kill(x)
  BY ChatSteps
<1>2. SUFFICES \E y, m : NobodyEnds(t) \/ WriterEnds(t, y, m) \/ ReaderEnds(t, y, m)
  BY BalanceIsKept
<1>3. CASE Chat!SendLine(x) \/ Chat!SendLast(x)
  <2>1. PICK m \in ChatMessages :
              /\ m.from = x /\ m.type = WriteType[x]
              /\ queue' = Append(queue, m) /\ child' = child
              /\ \/ m.n # 0 /\ parent[x] = "send" /\ parent' = [parent EXCEPT ![x] = "read"]
                 \/ m.n = 0 /\ parent[x] = "last" /\ parent' = [parent EXCEPT ![x] = "waitpid"]
    BY <1>3, ChatSends
  <2>2. Range(queue') = Range(queue) \union {m}
    <3>1. /\ Len(queue') = Len(queue) + 1 /\ queue' \in Seq(ChatMessages)
          /\ queue'[Len(queue) + 1] = m /\ \A k \in 1..Len(queue) : queue'[k] = queue[k]
      BY <1>0, <2>1
    <3>2. Range(queue') = {queue'[k] : k \in 1..Len(queue')}
      BY <3>1, MembersOfSeq
    <3>3. 1..Len(queue') = (1..Len(queue)) \union {Len(queue) + 1}
      BY <1>0, <3>1
    <3>4. Range(queue) = {queue[k] : k \in 1..Len(queue)}
      BY <1>0
    <3>5. Range(queue') = {queue'[k] : k \in 1..Len(queue)} \union {queue'[Len(queue) + 1]}
      BY <3>2, <3>3, Zenon
    <3>6. {queue'[k] : k \in 1..Len(queue)} = {queue[k] : k \in 1..Len(queue)}
      BY <3>1
    <3>7. QED
      BY <3>1, <3>4, <3>5, <3>6
  <2>3. EndedOf(t)' = EndedOf(t)
    BY <2>1 DEF EndedOf
  <2>4. CASE m.n # 0 \/ WriteType[x] # t
    <3>1. LastsOf(t)' = LastsOf(t)
      BY <2>1, <2>2, <2>4 DEF LastsOf
    <3>2. \A y \in Instances : WriteType[y] = t =>
            /\ parent'[y] \in {"waitpid", "ended"} <=> parent[y] \in {"waitpid", "ended"}
            /\ parent'[y] = "killed" <=> parent[y] = "killed"
      BY <1>0, <2>1, <2>4
    <3>3. NobodyEnds(t)
      BY <2>3, <3>1, <3>2 DEF NobodyEnds, WritersOf
    <3>4. QED
      BY <3>3
  <2>5. CASE m.n = 0 /\ WriteType[x] = t
    <3>1. LastsOf(t)' = LastsOf(t) \union {m}
      BY <2>1, <2>2, <2>5 DEF LastsOf
    <3>2. m \notin LastsOf(t)
      <4>1. ASSUME NEW k \in 1..Len(queue), queue[k] = m PROVE FALSE
        BY <2>1, <2>5, <4>1 DEF LastIsOnce, MayHaveSentLast
      <4>2. QED
        BY <1>0, <4>1 DEF LastsOf
    <3>3. /\ parent[x] = "last" /\ parent'[x] = "waitpid"
          /\ \A y \in Instances \ {x} : parent'[y] = parent[y]
      BY <1>0, <2>1, <2>5
    <3>4. WriterEnds(t, x, m)
      BY <2>3, <2>5, <3>1, <3>2, <3>3 DEF WriterEnds, WritersOf
    <3>5. QED
      BY <3>4
  <2>6. QED
    BY <2>4, <2>5
<1>4. CASE Chat!ReceiveMsg(x)
  <2>1. PICK k \in 1..Len(queue) :
              /\ queue[k].type = ReadType[x]
              /\ queue' \in Seq(ChatMessages) /\ Closes(queue', queue, k)
              /\ child[x] = "receive" /\ parent' = parent
              /\ \/ queue[k].n = 0 /\ child' = [child EXCEPT ![x] = "ended"]
                 \/ queue[k].n # 0 /\ child' = child
    BY <1>4, ChatReceives
  <2>2. \A m : m \in Range(queue') <=> \E l \in 1..Len(queue) : l # k /\ queue[l] = m
    BY <2>1, OthersStay
  <2>3. \A places : WritersOf(t, places)' = WritersOf(t, places)
    BY <2>1 DEF WritersOf
  <2>4. CASE queue[k].n # 0 \/ ReadType[x] # t
    <3>1. ASSUME NEW m, m.type = t, m.n = 0 PROVE m \in Range(queue') <=> m \in Range(queue)
      BY <1>0, <2>1, <2>2, <2>4, <3>1
    <3>2. LastsOf(t)' = LastsOf(t)
      BY <3>1 DEF LastsOf
    <3>3. EndedOf(t)' = EndedOf(t)
      BY <1>0, <2>1, <2>4 DEF EndedOf
    <3>4. NobodyEnds(t)
      BY <2>3, <3>2, <3>3 DEF NobodyEnds
    <3>5. QED
      BY <3>4
  <2>5. CASE queue[k].n = 0 /\ ReadType[x] = t
    <3>1. ASSUME NEW l \in 1..Len(queue), l # k PROVE queue[l] # queue[k]
      BY <2>5, <3>1, <1>0 DEF LastIsOnce
    <3>2. LastsOf(t)' = LastsOf(t) \ {queue[k]} /\ queue[k] \in LastsOf(t)
      BY <1>0, <2>1, <2>2, <2>5, <3>1 DEF LastsOf
    <3>3. x \notin EndedOf(t) /\ EndedOf(t)' = EndedOf(t) \union {x}
      BY <1>0, <2>1, <2>5 DEF EndedOf
    <3>4. ReaderEnds(t, x, queue[k])
      BY <2>3, <3>2, <3>3 DEF ReaderEnds
    <3>5. QED
      BY <3>4
  <2>6. QED
    BY <2>4, <2>5
<1>5. CASE \/ Chat!Start(x) \/ Chat!ReadLine(x) \/ Chat!EndOfInput(x)
           \/ Chat!SendFails(x) \/ Chat!Exit(x) \/ Chat!Kill(x)
  <2>1. /\ queue' = queue
        /\ \E to \in ParentPlaces : parent' = [parent EXCEPT ![x] = to]
        /\ \E to \in ChildPlaces : /\ child' = [child EXCEPT ![x] = to]
                                   /\ to = "ended" <=> child[x] = "ended"
        /\ MayHaveSentLast(x) => MayHaveSentLast(x)'
        /\ parent'[x] = "waitpid" => WriteType[x] = 0
        /\ parent'[x] = "ended" => parent[x] = "waitpid"
    BY <1>5, ChatKeeps
  <2>2. /\ \A y \in Instances \ {x} : parent'[y] = parent[y]
        /\ \A y \in Instances : child'[y] = "ended" <=> child[y] = "ended"
    BY <1>0, <2>1
  <2>3. EndedOf(t)' = EndedOf(t) /\ LastsOf(t)' = LastsOf(t)
    BY <2>1, <2>2 DEF EndedOf, LastsOf
  <2>4. /\ WritersOf(t, {"waitpid", "ended"})' \subseteq WritersOf(t, {"waitpid", "ended"})
        /\ WritersOf(t, {"waitpid", "ended", "killed"})
              \subseteq WritersOf(t, {"waitpid", "ended", "killed"})'
    BY <2>1, <2>2 DEF WritersOf, MayHaveSentLast
  <2>5. NobodyEnds(t)
    BY <2>3, <2>4 DEF NobodyEnds
  <2>6. QED
    BY <2>5
<1>6. QED
  BY <1>1, <1>3, <1>4, <1>5

ChatInv == ChatTypeOK /\ LastIsOnce /\ \A t \in Nat \ {0} : Balanced(t)

ChatSpec == Chat!Init /\ [][Chat!Next]_chatVars

\* The invariant of the chat, for any number of instances, lines and kills.
THEOREM ChatInvHolds == ChatSpec => []ChatInv
<1>1. ASSUME Chat!Init PROVE ChatInv
  <2>1. queue = <<>> /\ Len(queue) = 0 /\ Range(queue) = {}
    BY <1>1 DEF Chat!Init, Range
  <2>2. ChatTypeOK
    BY <1>1 DEF Chat!Init, ChatTypeOK, ParentPlaces, ChildPlaces
  <2>3. LastIsOnce
    BY <2>1 DEF LastIsOnce
  <2>4. ASSUME NEW t \in Nat \ {0} PROVE Balanced(t)
    <3>1. /\ EndedOf(t) = {} /\ LastsOf(t) = {}
          /\ WritersOf(t, {"waitpid", "ended"}) = {}
          /\ WritersOf(t, {"waitpid", "ended", "killed"}) = {}
      BY <1>1, <2>1 DEF Chat!Init, EndedOf, LastsOf, WritersOf
    <3>2. 0 + 0 \in 0..0 /\ Cardinality({}) = 0
      BY FS_EmptySet
    <3>3. QED
      BY <3>1, <3>2, Zenon DEF Balanced
  <2>5. QED
    BY <2>2, <2>3, <2>4 DEF ChatInv
<1>2. ASSUME ChatInv, [Chat!Next]_chatVars PROVE ChatInv'
  <2>1. CASE Chat!Next
    BY <1>2, <2>1, ChatTypeStep, LastIsOnceStep, BalancedStep DEF ChatInv
  <2>2. CASE UNCHANGED chatVars
    <3>1. UNCHANGED <<queue, parent, child, typed, shown>>
      BY <2>2 DEF chatVars
    <3>2. ChatTypeOK' /\ LastIsOnce'
      BY <1>2, <3>1 DEF ChatInv, ChatTypeOK, LastIsOnce, MayHaveSentLast
    <3>3. ASSUME NEW t \in Nat \ {0} PROVE Balanced(t)'
      <4>1. Balanced(t)
        BY <1>2 DEF ChatInv
      <4>2. NobodyEnds(t)
        BY <3>1 DEF NobodyEnds, EndedOf, LastsOf, WritersOf
      <4>3. QED
        BY <1>2, <4>1, <4>2, BalanceIsKept DEF ChatInv
    <3>4. QED
      BY <3>2, <3>3 DEF ChatInv
  <2>3. QED
    BY <1>2, <2>1, <2>2
<1>3. QED
  BY <1>1, <1>2, PTL DEF ChatSpec

-----------------------------------------------------------------------------
\* Under every number the children that ended and the last messages not yet taken
\* are as many as the parents that sent one, those killed apart: no last message
\* ends two children, and none is lost (task2.c:88,105-110).
THEOREM EveryLastEndsOne == ChatSpec => []OneEndForOneLast
<1>1. ASSUME ChatInv PROVE OneEndForOneLast
  <2>1. \A t \in Chat!Range(WriteType) \ {0} : t \in Nat \ {0}
    BY QueueChatAssumption, ChatOperators DEF Range
  <2>2. ASSUME NEW t \in Nat \ {0}
        PROVE  Chat!Cardinality({y \in Instances : ReadType[y] = t /\ child[y] = "ended"})
                + Chat!Cardinality({m \in Chat!Range(queue) : m.type = t /\ Chat!Empty(m)})
               \in Chat!Cardinality({y \in Instances :
                        WriteType[y] = t /\ parent[y] \in {"waitpid", "ended"}})
                   .. Chat!Cardinality({y \in Instances :
                        WriteType[y] = t /\ parent[y] \in {"waitpid", "ended", "killed"}})
    <3>1. Balanced(t)
      BY <1>1 DEF ChatInv
    <3>2. LastsOf(t) = {m \in Chat!Range(queue) : m.type = t /\ Chat!Empty(m)}
      BY ChatOperators DEF LastsOf, Chat!Empty
    <3>3. QED
      BY <3>1, <3>2, ChatOperators, Zenon DEF Balanced, EndedOf, WritersOf
  <2>3. QED
    BY <2>1, <2>2, Zenon DEF OneEndForOneLast, Chat!OneEndForOneLast
<1>2. QED
  BY <1>1, ChatInvHolds, PTL

-----------------------------------------------------------------------------
\* The line from a to b.

Numbers(s) == [k \in DOMAIN s |-> s[k].n]
LinePlaces(q) == {k \in DOMAIN q : q[k].from = a /\ ~Chat!Empty(q[k])}
LastRead == IF shown[b] = <<>> THEN 0 ELSE shown[b][Len(shown[b])].n
Closed == Chat!Message(a, 0) \in Range(queue) \/ child[b] = "ended"

\* What is on the line are the lines that a typed and b has not read, but the one
\* that a is about to send.
InOrder == \A k \in 1..Len(OnLine) : OnLine[k].n = LastRead + k
AllTyped ==
    /\ parent[a] \in {"off", "read"} => LastRead + Len(OnLine) = typed[a]
    /\ parent[a] = "send" => LastRead + Len(OnLine) + 1 = typed[a]
LeftEmpty ==
    child[b] = "ended" =>
        MayHaveSentLast(a) /\ \A k \in 1..Len(queue) : queue[k].from # a

LineInv == ChatInv /\ InOrder /\ AllTyped /\ LeftEmpty

LEMMA NumbersOfLines ==
    ASSUME NEW s \in Seq(ChatMessages)
    PROVE  /\ Numbers(s) \in Seq(Nat) /\ Len(Numbers(s)) = Len(s) /\ Len(s) \in Nat
           /\ \A k \in 1..Len(s) : Numbers(s)[k] = s[k].n /\ s[k].n \in Nat
           /\ Numbers(s) = <<>> <=> s = <<>>
           /\ \A m \in ChatMessages : Numbers(Append(s, m)) = Append(Numbers(s), m.n)
           /\ s # <<>> => Numbers(Tail(s)) = Tail(Numbers(s)) /\ Head(Numbers(s)) = Head(s).n
<1>1. /\ Len(s) \in Nat /\ DOMAIN s = 1..Len(s)
      /\ \A k \in 1..Len(s) : s[k].n \in Nat
  <2>1. Len(s) \in Nat /\ DOMAIN s = 1..Len(s) /\ \A k \in 1..Len(s) : s[k] \in ChatMessages
    OBVIOUS
  <2>2. QED
    BY <2>1 DEF ChatMessages
<1>2. /\ Numbers(s) \in Seq(Nat) /\ Len(Numbers(s)) = Len(s)
      /\ \A k \in 1..Len(s) : Numbers(s)[k] = s[k].n
  BY <1>1 DEF Numbers
<1>3. ASSUME NEW m \in ChatMessages PROVE Numbers(Append(s, m)) = Append(Numbers(s), m.n)
  <2>1. /\ Append(s, m) \in Seq(ChatMessages) /\ DOMAIN Append(s, m) = 1..(Len(s) + 1)
        /\ \A k \in 1..(Len(s) + 1) : Append(s, m)[k] = IF k = Len(s) + 1 THEN m ELSE s[k]
    BY <1>1
  <2>2. m.n \in Nat
    BY DEF ChatMessages
  <2>3. /\ Append(Numbers(s), m.n) \in Seq(Nat) /\ Len(Append(Numbers(s), m.n)) = Len(s) + 1
        /\ \A k \in 1..(Len(s) + 1) :
              Append(Numbers(s), m.n)[k] = IF k = Len(s) + 1 THEN m.n ELSE s[k].n
    BY <1>1, <1>2, <2>2
  <2>4. /\ Numbers(Append(s, m)) \in Seq(Nat) /\ Len(Numbers(Append(s, m))) = Len(s) + 1
        /\ \A k \in 1..(Len(s) + 1) :
              Numbers(Append(s, m))[k] = IF k = Len(s) + 1 THEN m.n ELSE s[k].n
    BY <1>1, <2>1, <2>2 DEF Numbers
  <2>5. \A k \in 1..(Len(s) + 1) : Numbers(Append(s, m))[k] = Append(Numbers(s), m.n)[k]
    BY <2>3, <2>4
  <2>6. QED
    BY <2>3, <2>4, <2>5, SeqEqual, Zenon
<1>4. ASSUME s # <<>>
      PROVE  Numbers(Tail(s)) = Tail(Numbers(s)) /\ Head(Numbers(s)) = Head(s).n
  <2>1. /\ Tail(s) \in Seq(ChatMessages) /\ Len(Tail(s)) = Len(s) - 1 /\ Len(s) > 0
        /\ DOMAIN Tail(s) = 1..(Len(s) - 1) /\ Len(s) - 1 \in Nat
        /\ \A k \in 1..(Len(s) - 1) : Tail(s)[k] = s[k + 1]
    BY <1>4
  <2>2. Numbers(s) # <<>> /\ Head(Numbers(s)) = Head(s).n
    BY <1>1, <1>2, <2>1
  <2>3. /\ Tail(Numbers(s)) \in Seq(Nat) /\ Len(Tail(Numbers(s))) = Len(s) - 1
        /\ \A k \in 1..(Len(s) - 1) : Tail(Numbers(s))[k] = s[k + 1].n
    BY <1>1, <1>2, <2>1, <2>2
  <2>4. \A k \in 1..(Len(s) - 1) : s[k + 1].n \in Nat
    BY <1>1, <2>1
  <2>5. /\ Numbers(Tail(s)) \in Seq(Nat) /\ Len(Numbers(Tail(s))) = Len(s) - 1
        /\ \A k \in 1..(Len(s) - 1) : Numbers(Tail(s))[k] = s[k + 1].n
    BY <2>1, <2>4 DEF Numbers
  <2>6. \A k \in 1..(Len(s) - 1) : Numbers(Tail(s))[k] = Tail(Numbers(s))[k]
    BY <2>3, <2>5
  <2>7. QED
    BY <2>2, <2>3, <2>5, <2>6, SeqEqual, Zenon
<1>5. Numbers(s) = <<>> <=> s = <<>>
  BY <1>1, <1>2
<1>6. QED
  BY <1>1, <1>2, <1>3, <1>4, <1>5

LEMMA OnLineType ==
    ASSUME ChatTypeOK
    PROVE  /\ LinePlaces(queue) \in SUBSET (1..Len(queue))
           /\ OnLine = Picked(queue, LinePlaces(queue))
           /\ OnLine \in Seq(ChatMessages)
<1>1. queue \in Seq(ChatMessages)
  BY DEF ChatTypeOK
<1>2. LinePlaces(queue) \in SUBSET (1..Len(queue))
  BY <1>1 DEF LinePlaces
<1>3. OnLine = Picked(queue, LinePlaces(queue))
  BY Zenon DEF OnLine, LinePlaces
<1>4. QED
  BY <1>1, <1>2, <1>3, PickedType

LEMMA OnLineSent ==
    ASSUME ChatTypeOK, NEW m \in ChatMessages, queue' = Append(queue, m)
    PROVE  OnLine' = IF m.from = a /\ m.n # 0 THEN Append(OnLine, m) ELSE OnLine
<1> DEFINE P == LinePlaces(queue)
<1>1. queue \in Seq(ChatMessages) /\ Len(queue) \in Nat /\ DOMAIN queue = 1..Len(queue)
  BY DEF ChatTypeOK
<1>2. P \in SUBSET (1..Len(queue)) /\ OnLine = Picked(queue, P)
  BY OnLineType
<1>3. OnLine' = Picked(queue', LinePlaces(queue'))
  BY Zenon DEF OnLine, LinePlaces
<1>4. /\ DOMAIN queue' = (1..Len(queue)) \union {Len(queue) + 1}
      /\ queue'[Len(queue) + 1] = m /\ \A k \in 1..Len(queue) : queue'[k] = queue[k]
  BY <1>1
<1>5. LinePlaces(queue') = IF m.from = a /\ m.n # 0 THEN P \union {Len(queue) + 1} ELSE P
  BY <1>1, <1>4 DEF LinePlaces, Chat!Empty
<1> HIDE DEF P
<1>6. /\ Picked(queue', P) = Picked(queue, P)
      /\ Picked(queue', P \union {Len(queue) + 1}) = Append(Picked(queue, P), m)
  <2>1. /\ Picked(Append(queue, m), P) = Picked(queue, P)
        /\ Picked(Append(queue, m), P \union {Len(queue) + 1}) = Append(Picked(queue, P), m)
    BY <1>1, <1>2, PickedSent
  <2>2. QED
    BY <2>1, Zenon
<1>7. QED
  BY <1>2, <1>3, <1>5, <1>6

LEMMA OnLineReceived ==
    ASSUME ChatTypeOK, NEW k \in 1..Len(queue), queue' \in Seq(ChatMessages),
           Closes(queue', queue, k),
           \A l \in 1..(k - 1) : queue[k].from = a => queue[l].from # a
    PROVE  IF queue[k].from = a /\ queue[k].n # 0
           THEN OnLine # <<>> /\ Head(OnLine) = queue[k] /\ OnLine' = Tail(OnLine)
           ELSE OnLine' = OnLine
<1> DEFINE P == LinePlaces(queue)
           R == LinePlaces(queue')
<1>1. queue \in Seq(ChatMessages) /\ Len(queue) \in Nat /\ DOMAIN queue = 1..Len(queue)
  BY DEF ChatTypeOK
<1>2. P \in SUBSET (1..Len(queue)) /\ OnLine = Picked(queue, P)
  BY OnLineType
<1>3. OnLine' = Picked(queue', R)
  BY Zenon DEF OnLine, LinePlaces
<1>4. /\ DOMAIN queue' = 1..Len(queue') /\ Len(queue') = Len(queue) - 1
      /\ \A l \in 1..Len(queue') : queue'[l] = IF l < k THEN queue[l] ELSE queue[l + 1]
  BY DEF Closes
<1>5. Moves(R, P, k, Len(queue'))
  <2>1. ASSUME NEW l \in 1..Len(queue')
        PROVE  l \in R <=> (IF l < k THEN l ELSE l + 1) \in P
    BY <1>1, <1>4 DEF LinePlaces, Chat!Empty
  <2>2. R \subseteq 1..Len(queue')
    BY <1>4 DEF LinePlaces
  <2> HIDE DEF P, R
  <2>3. QED
    BY <2>1, <2>2 DEF Moves
<1>6. k \in P <=> queue[k].from = a /\ queue[k].n # 0
  BY <1>1 DEF LinePlaces, Chat!Empty
<1>7. ASSUME k \in P PROVE \A l \in P : k <= l
  BY <1>1, <1>2, <1>6, <1>7 DEF LinePlaces
<1> HIDE DEF P, R
<1>8. /\ k \notin P => Picked(queue', R) = Picked(queue, P)
      /\ k \in P /\ (\A l \in P : k <= l) =>
           /\ Picked(queue, P) # <<>> /\ Head(Picked(queue, P)) = queue[k]
           /\ Picked(queue', R) = Tail(Picked(queue, P))
  BY <1>1, <1>2, <1>5, PickedReceived
<1>9. QED
  BY <1>2, <1>3, <1>6, <1>7, <1>8

\* The last message of a is what closes the line.
LEMMA ClosedByLast ==
    ASSUME ChatTypeOK
    PROVE  /\ Chat!Message(a, 0) \in ChatMessages
           /\ \A m \in ChatMessages : m.from = a /\ m.n = 0 <=> m = Chat!Message(a, 0)
           /\ \A m \in ChatMessages : m.from = a <=> m.type = ReadType[b]
           /\ \A y \in Instances \ {b} : \A m \in ChatMessages :
                m.type = ReadType[y] => m.from # a
<1>1. Chat!Message(a, 0) = [type |-> WriteType[a], from |-> a, n |-> 0]
  BY DEF Chat!Message
<1>2. Chat!Message(a, 0) \in ChatMessages
  BY <1>1, QueueChatAssumption DEF ChatMessages
<1>3. ASSUME NEW m \in ChatMessages, m.from = a, m.n = 0 PROVE m = Chat!Message(a, 0)
  <2>1. m = [type |-> m.type, from |-> m.from, n |-> m.n] /\ m.type = WriteType[m.from]
    BY DEF ChatMessages
  <2>2. QED
    BY <1>1, <1>3, <2>1
<1>4. \A m \in ChatMessages : m.from = a <=> m.type = ReadType[b]
  BY QueueChatAssumption DEF ChatMessages
<1>5. \A y \in Instances \ {b} : \A m \in ChatMessages : m.type = ReadType[y] => m.from # a
  BY <1>4, QueueChatAssumption
<1>6. QED
  BY <1>1, <1>2, <1>3, <1>4, <1>5

LEMMA LineFacts ==
    ASSUME LineInv
    PROVE  /\ LastRead \in Nat /\ Len(OnLine) \in Nat
           /\ Numbers(OnLine) \in Seq(Nat) /\ Len(Numbers(OnLine)) = Len(OnLine)
           /\ Closed => MayHaveSentLast(a)
<1>1. ChatTypeOK /\ LastIsOnce
  BY DEF LineInv, ChatInv
<1>2. /\ Len(OnLine) \in Nat
      /\ Numbers(OnLine) \in Seq(Nat) /\ Len(Numbers(OnLine)) = Len(OnLine)
  BY <1>1, OnLineType, NumbersOfLines
<1>3. LastRead \in Nat
  <2>1. shown[b] \in Seq(ChatMessages)
    BY <1>1, QueueChatAssumption DEF ChatTypeOK
  <2>2. CASE shown[b] # <<>>
    <3>1. Len(shown[b]) \in 1..Len(shown[b])
      BY <2>1, <2>2
    <3>2. shown[b][Len(shown[b])] \in ChatMessages
      BY <2>1, <3>1
    <3>3. QED
      BY <2>2, <3>2 DEF LastRead, ChatMessages
  <2>3. QED
    BY <2>2 DEF LastRead
<1>4. ASSUME Closed PROVE MayHaveSentLast(a)
  <2>1. CASE child[b] = "ended"
    BY <2>1 DEF LineInv, LeftEmpty
  <2>2. CASE Chat!Message(a, 0) \in Range(queue)
    <3>1. PICK k \in 1..Len(queue) : queue[k] = Chat!Message(a, 0)
      <4>1. queue \in Seq(ChatMessages)
        BY <1>1 DEF ChatTypeOK
      <4>2. Range(queue) = {queue[k] : k \in 1..Len(queue)}
        BY <4>1, MembersOfSeq, Zenon
      <4>3. QED
        BY <2>2, <4>2
    <3>2. queue[k].from = a /\ queue[k].n = 0
      BY <3>1 DEF Chat!Message
    <3>3. QED
      BY <1>1, <3>2 DEF LastIsOnce
  <2>3. QED
    BY <1>4, <2>1, <2>2 DEF Closed
<1>5. QED
  BY <1>2, <1>3, <1>4

\* What one step of the chat is to the line.
Writes == /\ ~Closed /\ ~Closed' /\ LastRead' = LastRead /\ UNCHANGED child[b]
          /\ \E m \in ChatMessages : /\ m.n = LastRead + Len(OnLine) + 1
                                     /\ OnLine' = Append(OnLine, m)
Ends   == /\ ~Closed /\ Closed' /\ LastRead' = LastRead /\ UNCHANGED child[b]
          /\ OnLine' = OnLine
Reads  == /\ OnLine # <<>> /\ OnLine' = Tail(OnLine) /\ LastRead' = Head(OnLine).n
          /\ child[b] = "receive" /\ child'[b] = "receive" /\ (Closed' <=> Closed)
Leaves == /\ Closed /\ Closed' /\ OnLine = <<>> /\ OnLine' = <<>> /\ LastRead' = LastRead
          /\ child[b] # "ended" /\ child'[b] = "ended"
Passes == /\ (Closed' <=> Closed) /\ LastRead' = LastRead /\ OnLine' = OnLine
          /\ child[b] = "ended" <=> child'[b] = "ended"
LineStep == Writes \/ Ends \/ Reads \/ Leaves \/ Passes

LEMMA LineSends ==
    ASSUME LineInv, NEW x \in Instances, Chat!SendLine(x) \/ Chat!SendLast(x)
    PROVE  LineStep /\ InOrder' /\ AllTyped' /\ LeftEmpty'
<1>0. /\ ChatTypeOK /\ LastIsOnce /\ queue \in Seq(ChatMessages) /\ Len(queue) \in Nat
      /\ parent \in [Instances -> ParentPlaces] /\ a \in Instances
      /\ InOrder /\ AllTyped /\ LeftEmpty
  BY QueueChatAssumption DEF LineInv, ChatInv, ChatTypeOK
<1>1. PICK m \in ChatMessages :
              /\ m.from = x /\ queue' = Append(queue, m)
              /\ UNCHANGED <<child, typed, shown>>
              /\ \/ /\ m.n = typed[x] /\ m.n # 0 /\ parent[x] = "send"
                    /\ parent' = [parent EXCEPT ![x] = "read"]
                 \/ /\ m.n = 0 /\ parent[x] = "last"
                    /\ parent' = [parent EXCEPT ![x] = "waitpid"]
  BY <1>0, ChatSends
<1>2. OnLine' = IF m.from = a /\ m.n # 0 THEN Append(OnLine, m) ELSE OnLine
  BY <1>0, <1>1, OnLineSent
<1>3. LastRead' = LastRead /\ child'[b] = child[b]
  BY <1>1 DEF LastRead
<1>4. /\ \A l \in Range(queue') : l \in Range(queue) \/ l = m
      /\ \A l \in Range(queue) : l \in Range(queue')
      /\ m \in Range(queue')
  <2>1. /\ DOMAIN queue' = 1..(Len(queue) + 1) /\ DOMAIN queue = 1..Len(queue)
        /\ queue'[Len(queue) + 1] = m /\ \A k \in 1..Len(queue) : queue'[k] = queue[k]
    BY <1>0, <1>1
  <2>2. QED
    BY <1>0, <2>1 DEF Range
<1>5. CASE x # a
  <2>1. m # Chat!Message(a, 0)
    BY <1>1, <1>5 DEF Chat!Message
  <2>2. Passes
    BY <1>1, <1>2, <1>3, <1>4, <1>5, <2>1 DEF Passes, Closed
  <2>3. parent'[a] = parent[a] /\ typed' = typed
    BY <1>0, <1>1, <1>5
  <2>4. LeftEmpty'
    BY <1>0, <1>1, <1>5, <2>3 DEF LeftEmpty, MayHaveSentLast
  <2>5. InOrder' /\ AllTyped'
    BY <1>0, <2>2, <2>3 DEF InOrder, AllTyped, Passes
  <2>6. QED
    BY <2>2, <2>4, <2>5 DEF LineStep
<1>6. CASE x = a
  <2>1. ~MayHaveSentLast(a) /\ ~Closed /\ child[b] # "ended"
    BY <1>0, <1>1, <1>6, LineFacts DEF MayHaveSentLast, LeftEmpty
  <2>2. LeftEmpty'
    BY <1>3, <2>1 DEF LeftEmpty
  <2>3. LastRead \in Nat /\ Len(OnLine) \in Nat /\ OnLine \in Seq(ChatMessages)
    BY <1>0, LineFacts, OnLineType
  <2>4. CASE m.n # 0
    <3>1. OnLine' = Append(OnLine, m) /\ m.n = typed[a] /\ parent[a] = "send"
          /\ parent'[a] = "read" /\ typed' = typed
      BY <1>0, <1>1, <1>2, <1>6, <2>4
    <3>2. m.n = LastRead + Len(OnLine) + 1
      BY <1>0, <3>1 DEF AllTyped
    <3>3. m # Chat!Message(a, 0)
      BY <2>4 DEF Chat!Message
    <3>4. ~Closed'
      BY <1>3, <1>4, <2>1, <3>3 DEF Closed
    <3>5. Writes
      BY <1>3, <2>1, <3>1, <3>2, <3>4 DEF Writes
    <3>6. /\ Len(OnLine') = Len(OnLine) + 1
          /\ \A k \in 1..Len(OnLine') :
                OnLine'[k] = IF k = Len(OnLine) + 1 THEN m ELSE OnLine[k]
      BY <2>3, <3>1
    <3>7. InOrder'
      <4>1. ASSUME NEW k \in 1..Len(OnLine') PROVE OnLine'[k].n = LastRead + k
        <5>1. CASE k = Len(OnLine) + 1
          <6>1. OnLine'[k] = m
            BY <3>6, <5>1
          <6>2. QED
            BY <2>3, <3>2, <5>1, <6>1
        <5>2. CASE k # Len(OnLine) + 1
          <6>1. k \in 1..Len(OnLine) /\ OnLine'[k] = OnLine[k]
            BY <2>3, <3>6, <5>2
          <6>2. QED
            BY <1>0, <6>1 DEF InOrder
        <5>3. QED
          BY <5>1, <5>2
      <4>2. QED
        BY <1>3, <4>1 DEF InOrder
    <3>8. AllTyped'
      BY <1>3, <2>3, <3>1, <3>2, <3>6 DEF AllTyped
    <3>9. QED
      BY <2>2, <3>5, <3>7, <3>8 DEF LineStep
  <2>5. CASE m.n = 0
    <3>1. OnLine' = OnLine /\ parent'[a] = "waitpid"
      BY <1>0, <1>1, <1>2, <1>6, <2>3, <2>5 DEF ChatTypeOK
    <3>2. m = Chat!Message(a, 0)
      BY <1>0, <1>1, <1>6, <2>5, ClosedByLast
    <3>3. Closed'
      BY <1>4, <3>2 DEF Closed
    <3>4. Ends
      BY <1>3, <2>1, <3>1, <3>3 DEF Ends
    <3>5. InOrder' /\ AllTyped'
      BY <1>0, <1>3, <3>1 DEF InOrder, AllTyped
    <3>6. QED
      BY <2>2, <3>4, <3>5 DEF LineStep
  <2>6. QED
    BY <2>4, <2>5
<1>7. QED
  BY <1>5, <1>6

LEMMA LineReceives ==
    ASSUME LineInv, NEW x \in Instances, Chat!ReceiveMsg(x)
    PROVE  LineStep /\ InOrder' /\ AllTyped' /\ LeftEmpty'
<1>0. /\ ChatTypeOK /\ LastIsOnce /\ queue \in Seq(ChatMessages) /\ Len(queue) \in Nat
      /\ child \in [Instances -> ChildPlaces] /\ shown \in [Instances -> Seq(ChatMessages)]
      /\ a \in Instances /\ b \in Instances
      /\ InOrder /\ AllTyped /\ LeftEmpty
  BY QueueChatAssumption DEF LineInv, ChatInv, ChatTypeOK
<1>1. PICK k \in 1..Len(queue) :
              /\ queue[k].type = ReadType[x]
              /\ \A l \in 1..(k - 1) : queue[l].type # ReadType[x]
              /\ queue' \in Seq(ChatMessages) /\ Closes(queue', queue, k)
              /\ child[x] = "receive" /\ UNCHANGED <<parent, typed>>
              /\ \/ /\ queue[k].n = 0 /\ shown' = shown
                    /\ child' = [child EXCEPT ![x] = "ended"]
                 \/ /\ queue[k].n # 0 /\ child' = child
                    /\ shown' = [shown EXCEPT ![x] = Append(shown[x], queue[k])]
  BY <1>0, ChatReceives
<1>2. \A l \in 1..Len(queue) : queue[l] \in ChatMessages
  BY <1>0
<1>3. /\ \A l \in 1..Len(queue) : queue[l].from = a <=> queue[l].type = ReadType[b]
      /\ x # b => queue[k].from # a
  BY <1>0, <1>1, <1>2, ClosedByLast
<1>4. \A l \in 1..(k - 1) : queue[k].from = a => queue[l].from # a
  <2>1. ASSUME NEW l \in 1..(k - 1) PROVE l \in 1..Len(queue)
    BY <1>0
  <2>2. QED
    BY <1>1, <1>3, <2>1
<1>5. IF queue[k].from = a /\ queue[k].n # 0
      THEN OnLine # <<>> /\ Head(OnLine) = queue[k] /\ OnLine' = Tail(OnLine)
      ELSE OnLine' = OnLine
  BY <1>0, <1>1, <1>4, OnLineReceived
<1>6. \A m : m \in Range(queue') <=> \E l \in 1..Len(queue) : l # k /\ queue[l] = m
  BY <1>0, <1>1, OthersStay
<1>7. Range(queue) = {queue[l] : l \in 1..Len(queue)}
      /\ Range(queue') = {queue'[l] : l \in 1..Len(queue')}
  <2>1. Range(queue) = {queue[l] : l \in 1..Len(queue)}
    BY <1>0, MembersOfSeq, Zenon
  <2>2. Range(queue') = {queue'[l] : l \in 1..Len(queue')}
    BY <1>1, MembersOfSeq, Zenon
  <2>3. QED
    BY <2>1, <2>2
<1>8. ASSUME NEW l \in 1..Len(queue')
      PROVE  \E p \in 1..Len(queue) : p # k /\ queue[p] = queue'[l]
  BY <1>6, <1>7
<1>9. CASE x # b
  <2>1. queue[k].from # a /\ queue[k] # Chat!Message(a, 0)
    BY <1>3, <1>9 DEF Chat!Message
  <2>2. /\ OnLine' = OnLine /\ child'[b] = child[b] /\ LastRead' = LastRead
        /\ UNCHANGED <<parent, typed>>
    BY <1>0, <1>1, <1>5, <1>9, <2>1 DEF LastRead
  <2>3. Closed' <=> Closed
    BY <1>6, <1>7, <2>1, <2>2 DEF Closed, Chat!Message
  <2>4. Passes
    BY <2>2, <2>3 DEF Passes
  <2>5. InOrder' /\ AllTyped'
    BY <1>0, <2>2 DEF InOrder, AllTyped
  <2>6. LeftEmpty'
    BY <1>0, <1>8, <2>2 DEF LeftEmpty, MayHaveSentLast
  <2>7. QED
    BY <2>4, <2>5, <2>6 DEF LineStep
<1>10. CASE x = b
  <2>1. queue[k].from = a /\ child[b] = "receive" /\ UNCHANGED <<parent, typed>>
    BY <1>1, <1>3, <1>10
  <2>2. OnLine \in Seq(ChatMessages) /\ Len(OnLine) \in Nat /\ LastRead \in Nat
    BY <1>0, OnLineType, LineFacts
  <2>3. CASE queue[k].n # 0
    <3>1. /\ child' = child /\ shown' = [shown EXCEPT ![b] = Append(shown[b], queue[k])]
          /\ OnLine # <<>> /\ Head(OnLine) = queue[k] /\ OnLine' = Tail(OnLine)
      BY <1>1, <1>5, <1>10, <2>1, <2>3
    <3>2. LastRead' = queue[k].n
      <4>1. shown'[b] = Append(shown[b], queue[k]) /\ shown[b] \in Seq(ChatMessages)
        BY <1>0, <3>1
      <4>2. /\ shown'[b] # <<>> /\ Len(shown'[b]) = Len(shown[b]) + 1
            /\ shown'[b][Len(shown[b]) + 1] = queue[k]
        BY <1>2, <4>1
      <4>3. QED
        BY <4>2 DEF LastRead
    <3>3. queue[k] # Chat!Message(a, 0)
      BY <2>3 DEF Chat!Message
    <3>4. Closed' <=> Closed
      BY <1>6, <1>7, <3>1, <3>3 DEF Closed, Chat!Message
    <3>5. Reads
      BY <2>1, <3>1, <3>2, <3>4 DEF Reads
    <3>6. /\ Len(OnLine) >= 1 /\ Head(OnLine) = OnLine[1]
          /\ Len(OnLine') = Len(OnLine) - 1
          /\ \A l \in 1..Len(OnLine') : OnLine'[l] = OnLine[l + 1]
      BY <2>2, <3>1
    <3>7. LastRead' = LastRead + 1
      BY <1>0, <2>2, <3>1, <3>2, <3>6 DEF InOrder
    <3>8. InOrder'
      <4>1. ASSUME NEW l \in 1..Len(OnLine') PROVE OnLine'[l].n = LastRead' + l
        <5>1. l + 1 \in 1..Len(OnLine) /\ OnLine'[l] = OnLine[l + 1]
          BY <2>2, <3>6
        <5>2. OnLine[l + 1].n = LastRead + (l + 1)
          BY <1>0, <5>1 DEF InOrder
        <5>3. QED
          BY <2>2, <3>6, <3>7, <5>1, <5>2
      <4>2. QED
        BY <4>1 DEF InOrder
    <3>9. AllTyped'
      <4>1. LastRead' + Len(OnLine') = LastRead + Len(OnLine)
        BY <2>2, <3>6, <3>7
      <4>2. QED
        BY <1>0, <2>1, <4>1 DEF AllTyped
    <3>10. LeftEmpty'
      BY <2>1, <3>1 DEF LeftEmpty
    <3>11. QED
      BY <3>5, <3>8, <3>9, <3>10 DEF LineStep
  <2>4. CASE queue[k].n = 0
    <3>1. /\ child' = [child EXCEPT ![b] = "ended"] /\ LastRead' = LastRead
          /\ OnLine' = OnLine /\ child'[b] = "ended"
      BY <1>0, <1>1, <1>5, <1>10, <2>4 DEF LastRead
    <3>2. MayHaveSentLast(a) /\ \A l \in 1..Len(queue) : l # k => queue[l].from # a
      <4>1. /\ MayHaveSentLast(a)
            /\ \A l \in 1..Len(queue) : k < l => queue[l].from # a
        BY <1>0, <2>1, <2>4 DEF LastIsOnce
      <4>2. ASSUME NEW l \in 1..Len(queue), l # k, ~(k < l) PROVE queue[l].from # a
        <5>1. l \in 1..(k - 1)
          BY <1>0, <4>2
        <5>2. QED
          BY <1>4, <2>1, <5>1
      <4>3. QED
        BY <4>1, <4>2
    <3>3. LeftEmpty'
      BY <1>8, <2>1, <3>2 DEF LeftEmpty, MayHaveSentLast
    <3>4. OnLine = <<>>
      <4>1. LinePlaces(queue) = {}
        BY <1>0, <2>4, <3>2 DEF LinePlaces, Chat!Empty
      <4>2. QED
        <5>1. OnLine = [l \in 1..Cardinality({}) |-> queue[Nth({}, l)]]
          BY <1>0, <4>1, OnLineType, Zenon DEF Picked
        <5>2. Cardinality({}) = 0
          BY FS_EmptySet
        <5>3. DOMAIN OnLine = {}
          BY <5>1, <5>2
        <5>4. QED
          BY <2>2, <5>3
    <3>5. queue[k] = Chat!Message(a, 0)
      BY <1>0, <1>2, <2>1, <2>4, ClosedByLast
    <3>6. Closed /\ Closed'
      BY <1>7, <3>1, <3>5 DEF Closed
    <3>7. Leaves
      BY <2>1, <3>1, <3>4, <3>6 DEF Leaves
    <3>8. InOrder' /\ AllTyped'
      BY <1>0, <2>1, <3>1 DEF InOrder, AllTyped
    <3>9. QED
      BY <3>3, <3>7, <3>8 DEF LineStep
  <2>5. QED
    BY <2>3, <2>4
<1>11. QED
  BY <1>9, <1>10

LEMMA LineKeeps ==
    ASSUME LineInv, NEW x \in Instances,
           \/ Chat!Start(x) \/ Chat!ReadLine(x) \/ Chat!EndOfInput(x)
           \/ Chat!SendFails(x) \/ Chat!Exit(x) \/ Chat!Kill(x)
    PROVE  LineStep /\ InOrder' /\ AllTyped' /\ LeftEmpty'
<1>0. /\ ChatTypeOK /\ a \in Instances /\ b \in Instances
      /\ parent \in [Instances -> ParentPlaces] /\ child \in [Instances -> ChildPlaces]
      /\ typed \in [Instances -> Nat]
      /\ InOrder /\ AllTyped /\ LeftEmpty /\ LastRead \in Nat /\ Len(OnLine) \in Nat
  BY QueueChatAssumption, LineFacts DEF LineInv, ChatInv, ChatTypeOK
<1>1. /\ UNCHANGED <<queue, shown>>
      /\ \E to \in ParentPlaces : parent' = [parent EXCEPT ![x] = to]
      /\ \E to \in ChildPlaces : /\ child' = [child EXCEPT ![x] = to]
                                 /\ to = "ended" <=> child[x] = "ended"
      /\ parent'[x] # "off" /\ (parent'[x] = "send" => parent[x] = "read")
      /\ parent'[x] = "read" => parent[x] = "off"
      /\ MayHaveSentLast(x) => MayHaveSentLast(x)'
      /\ IF parent'[x] = "send" THEN typed' = [typed EXCEPT ![x] = typed[x] + 1]
         ELSE typed' = typed
  BY <1>0, ChatKeeps
<1>2. child'[b] = "ended" <=> child[b] = "ended"
  BY <1>0, <1>1
<1>3. OnLine' = OnLine /\ LastRead' = LastRead
  BY <1>1 DEF OnLine, LastRead
<1>4. Passes
  BY <1>1, <1>2, <1>3 DEF Passes, Closed
<1>5. InOrder'
  BY <1>0, <1>3 DEF InOrder
<1>6. AllTyped'
  <2>1. CASE x # a
    BY <1>0, <1>1, <1>3, <2>1 DEF AllTyped
  <2>2. CASE x = a /\ parent'[a] = "send"
    BY <1>0, <1>1, <1>3, <2>2 DEF AllTyped
  <2>3. CASE x = a /\ parent'[a] # "send"
    BY <1>0, <1>1, <1>3, <2>3 DEF AllTyped
  <2>4. QED
    BY <2>1, <2>2, <2>3
<1>7. LeftEmpty'
  BY <1>0, <1>1, <1>2 DEF LeftEmpty, MayHaveSentLast
<1>8. QED
  BY <1>4, <1>5, <1>6, <1>7 DEF LineStep

LEMMA LineNext ==
    ASSUME LineInv, [Chat!Next]_chatVars
    PROVE  LineStep /\ InOrder' /\ AllTyped' /\ LeftEmpty'
<1>1. CASE Chat!Next
  <2>1. PICK x \in Instances :
              \/ Chat!SendLine(x) \/ Chat!SendLast(x) \/ Chat!ReceiveMsg(x)
              \/ Chat!Start(x) \/ Chat!ReadLine(x) \/ Chat!EndOfInput(x)
              \/ Chat!SendFails(x) \/ Chat!Exit(x) \/ Chat!Kill(x)
    BY <1>1, ChatSteps
  <2>2. QED
    BY <2>1, LineSends, LineReceives, LineKeeps
<1>2. CASE UNCHANGED chatVars
  <2>1. Passes
    BY <1>2 DEF chatVars, Passes, Closed, LastRead, OnLine
  <2>2. InOrder' /\ AllTyped' /\ LeftEmpty'
    BY <1>2 DEF LineInv, chatVars, InOrder, AllTyped, LeftEmpty, MayHaveSentLast, LastRead,
       OnLine
  <2>3. QED
    BY <2>1, <2>2 DEF LineStep
<1>3. QED
  BY <1>1, <1>2

\* A step of the chat is a step of the line.
LEMMA LineStepIsAStep ==
    ASSUME LineInv, LineStep
    PROVE  [Line!Write \/ Line!Close \/ Line!Read \/ Line!Leave]_Line!lineVars
<1>1. /\ OnLine \in Seq(ChatMessages) /\ LastRead \in Nat /\ Len(OnLine) \in Nat
  BY OnLineType, LineFacts DEF LineInv, ChatInv
<1>2. /\ Numbers(OnLine) \in Seq(Nat) /\ Len(Numbers(OnLine)) = Len(OnLine)
      /\ Numbers(OnLine) = <<>> <=> OnLine = <<>>
      /\ \A m \in ChatMessages : Numbers(Append(OnLine, m)) = Append(Numbers(OnLine), m.n)
      /\ OnLine # <<>> => /\ Numbers(Tail(OnLine)) = Tail(Numbers(OnLine))
                          /\ Head(Numbers(OnLine)) = Head(OnLine).n
  BY <1>1, NumbersOfLines
<1>3. CASE Writes
  <2>1. /\ ~Closed /\ ~Closed' /\ LastRead' = LastRead /\ child'[b] = child[b]
        /\ Numbers(OnLine)' = Append(Numbers(OnLine), LastRead + Len(Numbers(OnLine)) + 1)
    BY <1>2, <1>3 DEF Writes
  <2>2. Line!Write
    BY <2>1 DEF Line!Write, Numbers, Closed, LastRead
  <2>3. QED
    BY <2>2
<1>4. CASE Ends
  <2>1. Line!Close
    BY <1>4 DEF Line!Close, Ends, Closed, LastRead
  <2>2. QED
    BY <2>1
<1>5. CASE Reads
  <2>1. /\ Numbers(OnLine) # <<>> /\ Numbers(OnLine)' = Tail(Numbers(OnLine))
        /\ LastRead' = Head(Numbers(OnLine)) /\ (Closed' <=> Closed)
        /\ child[b] # "ended" /\ child'[b] # "ended"
    BY <1>2, <1>5 DEF Reads
  <2>2. Line!Read
    BY <2>1 DEF Line!Read, Numbers, Closed, LastRead
  <2>3. QED
    BY <2>2
<1>6. CASE Leaves
  <2>1. /\ Closed /\ Closed' /\ Numbers(OnLine) = <<>> /\ Numbers(OnLine)' = Numbers(OnLine)
        /\ LastRead' = LastRead /\ child'[b] = "ended"
    BY <1>2, <1>6 DEF Leaves
  <2>2. Line!Leave
    BY <2>1 DEF Line!Leave, Numbers, Closed, LastRead
  <2>3. QED
    BY <2>2
<1>7. CASE Passes
  <2>1. UNCHANGED Line!lineVars
    BY <1>7 DEF Line!lineVars, Passes, Closed, LastRead
  <2>2. QED
    BY <2>1
<1>8. QED
  BY <1>3, <1>4, <1>5, <1>6, <1>7 DEF LineStep

LEMMA LineInit ==
    ASSUME Chat!Init, ChatInv
    PROVE  LineInv /\ Line!Init
<1>1. /\ queue = <<>> /\ Len(queue) = 0 /\ Range(queue) = {} /\ DOMAIN queue = {}
      /\ shown[b] = <<>> /\ child[b] = "off" /\ typed[a] = 0
  BY QueueChatAssumption DEF Chat!Init, Range
<1>2. OnLine = <<>> /\ Len(OnLine) = 0 /\ DOMAIN OnLine = {}
  <2>1. LinePlaces(queue) = {}
    BY <1>1 DEF LinePlaces
  <2>2. OnLine = [l \in 1..Cardinality({}) |-> queue[Nth({}, l)]]
    BY <2>1, OnLineType, Zenon DEF Picked, ChatInv
  <2>3. DOMAIN OnLine = {}
    BY <2>2, FS_EmptySet
  <2>4. OnLine \in Seq(ChatMessages)
    BY OnLineType DEF ChatInv
  <2>5. QED
    BY <2>3, <2>4
<1>3. LastRead = 0 /\ ~Closed
  BY <1>1 DEF LastRead, Closed
<1>4. LineInv
  BY <1>1, <1>2, <1>3, QueueChatAssumption
     DEF LineInv, InOrder, AllTyped, LeftEmpty, Chat!Init
<1>5. Numbers(OnLine) = <<>>
  BY <1>2 DEF Numbers
<1>6. QED
  BY <1>1, <1>3, <1>4, <1>5 DEF Line!Init, Numbers, LastRead, Closed

\* From a to b the chat implements a line that loses, doubles and reorders nothing
\* and is left only when it is closed and empty, whatever the other instances do
\* and whoever is killed (task2.c:73-121).
THEOREM ChatImplementsLine == ChatSpec => ChatIsALine
<1>1. ASSUME Chat!Init, ChatInv PROVE LineInv /\ Line!Init
  BY <1>1, LineInit
<1>2. ASSUME LineInv, ChatInv', [Chat!Next]_chatVars PROVE LineInv'
  BY <1>2, LineNext DEF LineInv
<1>3. ASSUME LineInv, [Chat!Next]_chatVars
      PROVE  [Line!Write \/ Line!Close \/ Line!Read \/ Line!Leave]_Line!lineVars
  BY <1>3, LineNext, LineStepIsAStep
<1>4. QED
  BY <1>1, <1>2, <1>3, ChatInvHolds, PTL DEF ChatSpec, ChatIsALine, Line!Spec

-----------------------------------------------------------------------------
\* What is proved of either program holds in the behaviours that TLC checks.
THEOREM RunsOfEither == MCSpec => Spec /\ ChatSpec
<1>1. MCInit => Init /\ Chat!Init
  BY DEF MCInit
<1>2. [MCNext]_allVars => [Next]_vars /\ [Chat!Next]_chatVars
  BY Zenon DEF MCNext, allVars, IsTexts, IsChat
<1>3. QED
  BY <1>1, <1>2, PTL DEF MCSpec, Spec, ChatSpec
=============================================================================
