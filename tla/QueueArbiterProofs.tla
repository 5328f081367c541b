------------------------- MODULE QueueArbiterProofs -------------------------
(***************************************************************************)
(* Theorems of QueueArbiter for any clients, names, capacities and bounds: *)
(* its types, its registration, its messages, its texts and its requests.  *)
(***************************************************************************)
EXTENDS QueueArbiterProps, SystemVProofs

Message == AMessage \union RegularMessage

\* The first free slot is a free slot.
LEMMA FirstAvailableSlot ==
    ASSUME NEW t, ~IsFull(t)
    PROVE  Min(AvailableSlots(t)) \in AvailableSlots(t)
  BY MinProperties, TableAssumption DEF IsFull, AvailableSlots, Slots

\* Adding a client keeps the table a table, and gives away identifiers that
\* are neither 0 nor the arbiter's.
LEMMA AddToTableType ==
    ASSUME NEW t \in Table, NEW name \in Names, ~IsFull(t)
    PROVE  /\ AddToTable(t, name) \in Table
           /\ NewIdForArbiter(t) \in Ids
           /\ NewIdForRMessages(t) \in Ids
<1>1. Min(AvailableSlots(t)) \in Slots
  BY FirstAvailableSlot DEF AvailableSlots
<1>2. /\ t.free_id \in Nat /\ t.free_id > 1
      /\ t.free_id + 1 \in Ids /\ t.free_id + 2 \in Ids \ {0} /\ t.free_id \in Ids
  BY DEF Table, Ids, kArbiterId
<1>3. QED
  BY <1>1, <1>2 DEF Table, AddToTable, NewIdForArbiter, NewIdForRMessages

\* A lookup yields an identifier of the table or NotFound, never the arbiter's.
LEMMA LookupType ==
    ASSUME NEW t \in Table, NEW name
    PROVE  GetIdForRMessagesFromName(t, name) \in Ids \union {NotFound}
<1>1. CASE SlotsNamed(t, name) = {}
  BY <1>1 DEF GetIdForRMessagesFromName
<1>2. CASE SlotsNamed(t, name) # {}
  <2>1. SlotsNamed(t, name) \in SUBSET Nat
    BY TableAssumption DEF SlotsNamed, Slots
  <2>2. Min(SlotsNamed(t, name)) \in Slots
    BY <1>2, <2>1, MinProperties DEF SlotsNamed
  <2>3. QED
    BY <1>2, <2>2 DEF GetIdForRMessagesFromName, Table
<1>3. QED
  BY <1>1, <1>2

LEMMA InitTableType == InitTable \in Table
  BY ArbiterAssumption DEF InitTable, Table, FreeSlot, Ids, kArbiterId

\* A message sent leaves the queue a queue of messages.
LEMMA SendType ==
    ASSUME NEW m, ValidType(m.type) => m \in Message, queue \in Seq(Message), Send(m)
    PROVE  queue' \in Seq(Message)
  BY DEF Send

\* What a receive takes is a message and what it leaves a queue of messages.
LEMMA ReceiveType ==
    ASSUME NEW t, queue \in Seq(Message), Receive(t)
    PROVE  /\ queue' \in Seq(Message)
           /\ Received(queue, t) \in Message
           /\ Matches(Received(queue, t), t)
  BY ReceiveProperties, Zenon DEF Receive

\* A message with the arbiter's type is one the arbiter's switch handles.
LEMMA ForArbiter ==
    ASSUME NEW m \in Message, Matches(m, kArbiterId)
    PROVE  m \in AMessage
  BY DEF Message, AMessage, RegularMessage, RespondMessages, TextMessages, Matches,
         kArbiterId, Ids

LEMMA AsDestIdType ==
    ASSUME NEW m \in Message
    PROVE  AsDestId(m) \in Ids \union {NotFound}
<1>1. CASE m \in RegisterMessages
  BY <1>1, ArbiterAssumption DEF RegisterMessages, AsDestId, Ids
<1>2. CASE m \in RequestMessages
  BY <1>2 DEF RequestMessages, AsDestId
<1>3. CASE m \in RespondMessages
  BY <1>3 DEF RespondMessages, AsDestId
<1>4. CASE m \in TextMessages
  BY <1>4, ArbiterAssumption DEF TextMessages, AsDestId, Ids
<1>5. QED
  BY <1>1, <1>2, <1>3, <1>4 DEF Message, AMessage, RegularMessage

\* Zero stands for "no identifier yet".
LEMMA ZeroId == 0 \in Ids
  BY DEF Ids, kArbiterId

LEMMA InitType == Init => TypeOK
<1> SUFFICES ASSUME Init PROVE TypeOK
  OBVIOUS
<1>1. response \in [resp_pid : Clients \union {Nobody}, resp_id_for_arbiter : Ids,
                   resp_id_for_rmessages : Ids, client_resp : BOOLEAN]
  BY ZeroId DEF Init, ZeroResponse
<1>2. /\ restarts \in 0..MaxRestarts /\ kills \in 0..MaxKills
      /\ lines \in [Clients -> 0..MaxLines]
  BY ArbiterAssumption DEF Init
<1>3. client_table \in Table /\ new_id \in [arbiter : Ids, rmessages : Ids]
  BY InitTableType, ZeroId DEF Init
<1>4. /\ client \in [Clients -> [id_for_arbiter : Ids, id_for_rmessages : Ids]]
      /\ dest_id \in [Clients -> Ids \union {NotFound}]
      /\ dest_name \in [Clients -> Names]
  BY ArbiterAssumption, ZeroId DEF Init
<1>5. /\ queue \in Seq(AMessage \union RegularMessage)
      /\ stdout \in [Clients -> Seq(AMessage \union RegularMessage)]
  BY DEF Init
<1>6. /\ pc \in [Clients -> ClientPcs]
      /\ sender_pc \in [Clients -> {"off", "read", "ask", "await", "post", "done"}]
      /\ \A c \in Clients : sender_pc[c] \notin {"ask", "await", "post"}
      /\ a_pc = "msgget" /\ a_pc \in ArbiterPcs
  BY DEF Init, ArbiterPcs, ClientPcs, InitPcs
<1>7. QED
  BY <1>1, <1>2, <1>3, <1>4, <1>5, <1>6 DEF Init, TypeOK

LEMMA ArbiterStepType == TypeOK /\ ArbiterStep => TypeOK'
<1> SUFFICES ASSUME TypeOK, ArbiterStep PROVE TypeOK'
  OBVIOUS
<1> USE DEF ArbiterGoto, ArbiterPcs, InitPcs, sharedVars,
      existVars, lockVars, tableVars, peerVars, dataVars, senderVars, clientVars
<1>1. CASE GetQueue
  BY <1>1 DEF TypeOK, GetQueue
<1>2. CASE GetShmem
  BY <1>2 DEF TypeOK, GetShmem
<1>3. CASE InitLocks
  BY <1>3 DEF TypeOK, InitLocks, Unlock
<1>4. CASE InitResponseIds
  BY <1>4, ZeroId DEF TypeOK, InitResponseIds
<1>5. CASE FinishInit
  BY <1>5, InitTableType DEF TypeOK, FinishInit
<1>6. CASE ListenOnMessages
  <2>1. queue' \in Seq(Message) /\ mes' \in AMessage
    <3>1. queue \in Seq(Message)
      BY DEF TypeOK, Message
    <3>2. QED
      BY <1>6, <3>1, ReceiveType, ForArbiter DEF ListenOnMessages
  <2>2. /\ mes'.policy = "register" => mes' \in RegisterMessages
        /\ mes'.policy # "register" => mes' \in RequestMessages
    BY <2>1 DEF AMessage, RegisterMessages, RequestMessages
  <2>3. QED
    BY <1>6, <2>1, <2>2 DEF TypeOK, ListenOnMessages, Message
<1>7. CASE AddClient
  BY <1>7, AddToTableType DEF TypeOK, AddClient, RegisterMessages
<1>8. CASE AbortOnFullTable
  BY <1>8 DEF TypeOK, AbortOnFullTable
<1>9. CASE LockToRespond
  BY <1>9 DEF TypeOK, LockToRespond, Lock
<1>10. CASE FillPid
  BY <1>10 DEF TypeOK, FillPid, RegisterMessages
<1>11. CASE FillIds
  BY <1>11 DEF TypeOK, FillIds
<1>12. CASE UnlockFilled
  BY <1>12 DEF TypeOK, UnlockFilled, Unlock
<1>13. CASE Broadcast
  BY <1>13 DEF TypeOK, Broadcast, ClientPcs
<1>14. CASE SpinOnClientResp
  BY <1>14 DEF TypeOK, SpinOnClientResp
<1>15. CASE LockToClear
  BY <1>15 DEF TypeOK, LockToClear, Lock
<1>16. CASE ClearResponse
  BY <1>16, ZeroId DEF TypeOK, ClearResponse, ZeroResponse
<1>17. CASE UnlockCleared
  BY <1>17 DEF TypeOK, UnlockCleared, Unlock
<1>18. CASE SendDestId
  <2> DEFINE dest == GetIdForRMessagesFromName(client_table, mes.dest_name)
             reply == [type |-> mes.who_ask_id, policy |-> "respond", dest_id |-> dest]
  <2>1. queue \in Seq(Message) /\ mes.who_ask_id \in Ids
    BY <1>18 DEF TypeOK, SendDestId, Message, RequestMessages
  <2>2. dest \in Ids \union {NotFound}
    BY LookupType DEF TypeOK
  <2>3. ValidType(reply.type) => reply \in Message
    BY <2>1, <2>2 DEF ValidType, Message, RegularMessage, RespondMessages, Ids
  <2>4. Send(reply)
    BY <1>18 DEF SendDestId
  <2>5. queue' \in Seq(Message)
    BY <2>1, <2>3, <2>4, SendType
  <2>6. QED
    BY <1>18, <2>5 DEF TypeOK, SendDestId, Message
<1>19. QED
  BY <1>1, <1>2, <1>3, <1>4, <1>5, <1>6, <1>7, <1>8, <1>9, <1>10, <1>11, <1>12, <1>13,
     <1>14, <1>15, <1>16, <1>17, <1>18 DEF ArbiterStep

LEMMA RegisterStepType ==
    ASSUME TypeOK, NEW c \in Clients, RegisterStep(c)
    PROVE  TypeOK'
<1> USE DEF ClientGoto, ClientPcs, sharedVars,
      existVars, lockVars, tableVars, peerVars, dataVars, arbiterVars, senderVars
<1>1. CASE SendRegister(c)
  <2> DEFINE m == [type |-> kArbiterId, policy |-> "register",
                   client_pid |-> c, client_name |-> NameOf[c]]
  <2>1. m \in Message /\ queue \in Seq(Message)
    BY ArbiterAssumption DEF TypeOK, Message, AMessage, RegisterMessages
  <2>2. queue' \in Seq(Message)
    BY <1>1, <2>1, SendType DEF SendRegister
  <2>3. QED
    BY <1>1, <2>2 DEF TypeOK, SendRegister, Message
<1>2. CASE LockToWait(c)
  BY <1>2 DEF TypeOK, LockToWait, Lock
<1>3. CASE CondWait(c)
  BY <1>3 DEF TypeOK, CondWait, Unlock
<1>4. CASE LockAwaken(c)
  BY <1>4 DEF TypeOK, LockAwaken, Lock
<1>5. CASE CheckResponse(c)
  BY <1>5 DEF TypeOK, CheckResponse
<1>6. CASE WaitAgain(c)
  BY <1>6 DEF TypeOK, WaitAgain
<1>7. CASE UnlockRegistered(c)
  BY <1>7 DEF TypeOK, UnlockRegistered, Unlock
<1>8. CASE AckResponse(c)
  BY <1>8 DEF TypeOK, AckResponse
<1>9. QED
  BY <1>1, <1>2, <1>3, <1>4, <1>5, <1>6, <1>7, <1>8 DEF RegisterStep

LEMMA SenderStepType ==
    ASSUME TypeOK, NEW c \in Clients, SenderStep(c)
    PROVE  TypeOK'
<1> USE DEF SenderGoto, sharedVars,
      existVars, lockVars, tableVars, peerVars, dataVars, arbiterVars, clientVars
<1>0. queue \in Seq(Message)
  BY DEF TypeOK, Message
<1>1. CASE RequestDestId(c)
  <2> DEFINE m == [type |-> kArbiterId, policy |-> "request",
                   who_ask_id |-> client[c].id_for_arbiter, dest_name |-> dest_name[c]]
  <2>1. m \in Message
    BY DEF TypeOK, Message, AMessage, RequestMessages
  <2>2. queue' \in Seq(Message)
    BY <1>0, <1>1, <2>1, SendType DEF RequestDestId
  <2>3. QED
    BY <1>1, <2>2 DEF TypeOK, RequestDestId, Message
<1>2. CASE ReceiveDestId(c)
  <2> DEFINE id == client[c].id_for_arbiter
  <2>1. queue' \in Seq(Message) /\ Received(queue, id) \in Message
    BY <1>0, <1>2, ReceiveType DEF ReceiveDestId
  <2>2. AsDestId(Received(queue, id)) \in Ids \union {NotFound}
    BY <2>1, AsDestIdType
  <2>3. QED
    BY <1>2, <2>1, <2>2 DEF TypeOK, ReceiveDestId, Message
<1>3. CASE SendToReceiver(c)
  <2> DEFINE m == [type |-> dest_id[c], policy |-> "regular", mes |-> Typed(c)]
  <2>1. Typed(c) \in Texts
    BY <1>3, ArbiterAssumption DEF TypeOK, SendToReceiver, Typed, Texts
  <2>2. ValidType(m.type) => m \in Message
    BY <2>1, SMTT(30) DEF TypeOK, ValidType, Message, RegularMessage, TextMessages, NotFound, Ids
  <2>3. queue' \in Seq(Message)
    BY <1>0, <1>3, <2>2, SendType DEF SendToReceiver
  <2>4. QED
    BY <1>3, <2>3 DEF TypeOK, SendToReceiver, Message
<1>4. QED
  BY <1>1, <1>2, <1>3 DEF SenderStep

LEMMA ReaderStepType ==
    ASSUME TypeOK, NEW c \in Clients, ReaderThreadTask(c)
    PROVE  TypeOK'
<1> DEFINE m == Received(queue, client[c].id_for_rmessages)
<1>1. queue' \in Seq(Message) /\ m \in Message
  BY ReceiveType DEF TypeOK, ReaderThreadTask, Message
<1>2. stdout' \in [Clients -> Seq(Message)]
  BY <1>1 DEF TypeOK, ReaderThreadTask, Message
<1>3. QED
  BY <1>1, <1>2 DEF TypeOK, ReaderThreadTask, Message, sharedVars,
      existVars, lockVars, tableVars, peerVars, dataVars, arbiterVars, senderVars

LEMMA EnvironmentStepType == TypeOK /\ EnvironmentStep => TypeOK'
<1> SUFFICES ASSUME TypeOK, EnvironmentStep PROVE TypeOK'
  OBVIOUS
<1> USE DEF ClientGoto, SenderGoto, ClientPcs, ArbiterPcs, InitPcs,
            sharedVars,
      existVars, lockVars, tableVars, peerVars, dataVars, arbiterVars, senderVars, clientVars
<1>1. CASE KillArbiter
  BY <1>1, ArbiterAssumption, SMTT(30) DEF TypeOK, KillArbiter
<1>2. ASSUME NEW c \in Clients, AttachClient(c) PROVE TypeOK'
  BY <1>2 DEF TypeOK, AttachClient
<1>3. ASSUME NEW c \in Clients, ReadLine(c) PROVE TypeOK'
  <2>1. lines' \in [Clients -> 0..MaxLines] /\ lines'[c] > 0
    BY <1>3, ArbiterAssumption DEF TypeOK, ReadLine
  <2>2. \A d \in Clients : sender_pc'[d] \in {"ask", "await", "post"} => lines'[d] > 0
    BY <1>3, <2>1 DEF TypeOK, ReadLine
  <2>3. dest_name' \in [Clients -> Names]
    BY <1>3 DEF TypeOK, ReadLine
  <2>4. QED
    BY <1>3, <2>1, <2>2, <2>3 DEF TypeOK, ReadLine
<1>4. ASSUME NEW c \in Clients, EndOfInput(c) PROVE TypeOK'
  BY <1>4 DEF TypeOK, EndOfInput
<1>5. ASSUME NEW c \in Clients, SpuriousWake(c) PROVE TypeOK'
  BY <1>5 DEF TypeOK, SpuriousWake
<1>6. ASSUME NEW c \in Clients, KillClient(c) PROVE TypeOK'
  <2>1. kills' \in 0..MaxKills
    BY <1>6, ArbiterAssumption DEF TypeOK, KillClient
  <2>2. /\ pc' \in [Clients -> ClientPcs]
        /\ sender_pc' \in [Clients -> {"off", "read", "ask", "await", "post", "done"}]
        /\ \A d \in Clients : sender_pc'[d] \in {"ask", "await", "post"} => lines'[d] > 0
    BY <1>6 DEF TypeOK, KillClient
  <2>3. cond_waiters' \subseteq Clients
    BY <1>6 DEF TypeOK, KillClient
  <2>4. QED
    BY <1>6, <2>1, <2>2, <2>3 DEF TypeOK, KillClient
<1>7. QED
  BY <1>1, <1>2, <1>3, <1>4, <1>5, <1>6 DEF EnvironmentStep

LEMMA StutterType == TypeOK /\ UNCHANGED vars => TypeOK'
  BY DEF TypeOK, vars, sharedVars,
      existVars, lockVars, tableVars, peerVars, dataVars, arbiterVars, senderVars, clientVars

LEMMA TypeStep == TypeOK /\ [Next]_vars => TypeOK'
  BY ArbiterStepType, RegisterStepType, SenderStepType, ReaderStepType,
     EnvironmentStepType, StutterType DEF Next

\* Every variable keeps its type, whatever processes die or restart; so the
\* arbiter's switch never meets a policy it does not know (main_arbiter.c:180).
THEOREM TypeCorrect == Spec => []TypeOK
  BY InitType, TypeStep, PTL DEF Spec

-----------------------------------------------------------------------------
\* The registration, for an arbiter that is not killed and clients that start
\* after ArbiterInit.

regVars == <<a_pc, pc, client, new_id, response, resp_mutex, cond_waiters, client_table>>

LEMMA RegistrationInit == Init => RegistrationInv
  BY DEF Init, RegistrationInv, WaitersAreBlocked, StartsInOrder, ResponseIsGuarded,
         ClientIdsIssued, NewIdsFresh, ResponseFresh, AckPending, AckIsForThisClient, Registered,
         ZeroResponse, InitPcs

\* The parts of the invariant read no other variables.
LEMMA RegistrationFrame == RegistrationInv /\ UNCHANGED regVars => RegistrationInv'
  BY DEF regVars, RegistrationInv, WaitersAreBlocked, StartsInOrder, ResponseIsGuarded,
         ClientIdsIssued, NewIdsFresh, ResponseFresh, AckPending, AckIsForThisClient, Registered, Issued

LEMMA ArbiterStepRegistration ==
    ASSUME TypeOK, RegistrationInv, ArbiterStep
    PROVE  RegistrationInv'
<1> USE DEF ArbiterGoto, InitPcs, sharedVars,
      existVars, lockVars, tableVars, peerVars, dataVars, senderVars, clientVars
<1> USE DEF RegistrationInv, WaitersAreBlocked, StartsInOrder, ResponseIsGuarded, ClientIdsIssued,
         NewIdsFresh, ResponseFresh, AckPending, AckIsForThisClient, Registered, Issued
<1>1. CASE GetQueue
  BY <1>1 DEF GetQueue
<1>2. CASE GetShmem
  BY <1>2 DEF GetShmem
<1>3. CASE InitLocks
  BY <1>3 DEF InitLocks, Unlock
<1>4. CASE InitResponseIds
  BY <1>4 DEF InitResponseIds, TypeOK
<1>5. CASE FinishInit
  BY <1>5 DEF FinishInit, TypeOK
<1>6. CASE ListenOnMessages
  BY <1>6 DEF ListenOnMessages
<1>7. CASE AddClient
  <2>1. /\ client_table.free_id \in Nat /\ client_table.free_id > 1
        /\ client_table'.free_id = client_table.free_id + 2
    BY <1>7 DEF AddClient, AddToTable, TypeOK, Table, Ids, kArbiterId
  <2>2. new_id' = [arbiter |-> client_table.free_id, rmessages |-> client_table.free_id + 1]
    BY <1>7 DEF AddClient, NewIdForArbiter, NewIdForRMessages
  <2>3. \A c \in Clients : client[c].id_for_arbiter \in Nat
    BY DEF TypeOK, Ids
  <2>4. ClientIdsIssued'
    BY <1>7, <2>1, <2>3 DEF AddClient
  <2>5. NewIdsFresh'
    BY <1>7, <2>1, <2>2, <2>3 DEF AddClient, Apart
  <2>6. QED
    BY <1>7, <2>4, <2>5 DEF AddClient
<1>8. CASE AbortOnFullTable
  BY <1>8 DEF AbortOnFullTable
<1>9. CASE LockToRespond
  BY <1>9, ArbiterAssumption DEF LockToRespond, Lock
<1>10. CASE FillPid
  BY <1>10 DEF FillPid, TypeOK
<1>11. CASE FillIds
  BY <1>11 DEF FillIds, TypeOK
<1>12. CASE UnlockFilled
  BY <1>12, ArbiterAssumption DEF UnlockFilled, Unlock
<1>13. CASE Broadcast
  BY <1>13 DEF Broadcast, TypeOK
<1>14. CASE SpinOnClientResp
  BY <1>14 DEF SpinOnClientResp
<1>15. CASE LockToClear
  BY <1>15, ArbiterAssumption DEF LockToClear, Lock
<1>16. CASE ClearResponse
  BY <1>16 DEF ClearResponse, ZeroResponse
<1>17. CASE UnlockCleared
  BY <1>17, ArbiterAssumption DEF UnlockCleared, Unlock
<1>18. CASE SendDestId
  BY <1>18 DEF SendDestId
<1>19. QED
  BY <1>1, <1>2, <1>3, <1>4, <1>5, <1>6, <1>7, <1>8, <1>9, <1>10, <1>11, <1>12, <1>13,
     <1>14, <1>15, <1>16, <1>17, <1>18 DEF ArbiterStep

LEMMA RegisterStepRegistration ==
    ASSUME TypeOK, RegistrationInv, ~EagerStart, NEW c \in Clients, RegisterStep(c)
    PROVE  RegistrationInv'
<1> USE DEF ClientGoto, InitPcs, sharedVars,
      existVars, lockVars, tableVars, peerVars, dataVars, arbiterVars, senderVars
<1> USE DEF RegistrationInv, WaitersAreBlocked, StartsInOrder, ResponseIsGuarded,
         ClientIdsIssued, NewIdsFresh, ResponseFresh, AckPending, AckIsForThisClient,
         Registered, Issued
<1>1. CASE SendRegister(c)
  BY <1>1 DEF SendRegister, TypeOK
<1>2. CASE LockToWait(c)
  BY <1>2, ArbiterAssumption DEF LockToWait, Lock, TypeOK
<1>3. CASE CondWait(c)
  BY <1>3, ArbiterAssumption DEF CondWait, Unlock, TypeOK
<1>4. CASE LockAwaken(c)
  BY <1>4, ArbiterAssumption, SMTT(30) DEF LockAwaken, Lock, TypeOK
<1>5. CASE CheckResponse(c)
  <2>1. /\ response.resp_pid = c /\ c # Nobody /\ resp_mutex = c
        /\ a_pc \in {"broadcast", "spin"}
        /\ client'[c].id_for_arbiter = response.resp_id_for_arbiter
        /\ client'[c].id_for_rmessages = response.resp_id_for_rmessages
        /\ \A d \in Clients \ {c} : client'[d] = client[d] /\ (Registered(d)' <=> Registered(d))
    BY <1>5, ArbiterAssumption DEF CheckResponse, TypeOK
  <2>2. /\ Issued(response.resp_id_for_arbiter, response.resp_id_for_rmessages)
        /\ \A d \in Clients \ {c} : Registered(d) =>
              Apart(client[d].id_for_arbiter, response.resp_id_for_arbiter)
    BY <2>1
  <2>3. \A x, y : Apart(x, y) <=> Apart(y, x)
    BY DEF Apart
  <2>4. UNCHANGED client_table
    BY <1>5 DEF CheckResponse
  <2>5. ClientIdsIssued'
    BY <2>1, <2>2, <2>3, <2>4
  <2>6. QED
    BY <1>5, <2>1, <2>2, <2>5 DEF CheckResponse, TypeOK
<1>6. CASE WaitAgain(c)
  BY <1>6 DEF WaitAgain, TypeOK
<1>7. CASE UnlockRegistered(c)
  BY <1>7, ArbiterAssumption DEF UnlockRegistered, Unlock, TypeOK
<1>8. CASE AckResponse(c)
  BY <1>8, ArbiterAssumption DEF AckResponse, TypeOK
<1>9. QED
  BY <1>1, <1>2, <1>3, <1>4, <1>5, <1>6, <1>7, <1>8 DEF RegisterStep

LEMMA EnvironmentStepRegistration ==
    ASSUME TypeOK, RegistrationInv, ~EagerStart, MaxRestarts = 0, EnvironmentStep
    PROVE  RegistrationInv'
<1> USE DEF ClientGoto, sharedVars,
      existVars, lockVars, tableVars, peerVars, dataVars, arbiterVars, senderVars, clientVars
<1>1. ~KillArbiter
  BY DEF KillArbiter, TypeOK
<1> USE DEF RegistrationInv, WaitersAreBlocked, StartsInOrder, ResponseIsGuarded,
         ClientIdsIssued, NewIdsFresh, ResponseFresh, AckPending, AckIsForThisClient,
         Registered, Issued
<1>2. ASSUME NEW c \in Clients, AttachClient(c) PROVE RegistrationInv'
  BY <1>2 DEF AttachClient, TypeOK
<1>3. ASSUME NEW c \in Clients, ReadLine(c) \/ EndOfInput(c) PROVE RegistrationInv'
  BY <1>3, RegistrationFrame DEF ReadLine, EndOfInput, regVars
<1>4. ASSUME NEW c \in Clients, SpuriousWake(c) PROVE RegistrationInv'
  BY <1>4 DEF SpuriousWake, TypeOK
<1>5. ASSUME NEW c \in Clients, KillClient(c) PROVE RegistrationInv'
  BY <1>5 DEF KillClient, TypeOK, InitPcs
<1>6. QED
  BY <1>1, <1>2, <1>3, <1>4, <1>5 DEF EnvironmentStep

\* The invariant is inductive next to the types.
LEMMA RegistrationInductive ==
    ASSUME ~EagerStart, MaxRestarts = 0, TypeOK, RegistrationInv, [Next]_vars
    PROVE  RegistrationInv'
<1>1. ASSUME NEW c \in Clients, SenderStep(c) \/ ReaderThreadTask(c) PROVE RegistrationInv'
  BY <1>1, RegistrationFrame
  DEF SenderStep, RequestDestId, ReceiveDestId, SendToReceiver, ReaderThreadTask,
      sharedVars,
      existVars, lockVars, tableVars, peerVars, dataVars, arbiterVars, clientVars, regVars
<1>2. CASE UNCHANGED vars
  BY <1>2, RegistrationFrame DEF vars, sharedVars,
      existVars, lockVars, tableVars, peerVars, dataVars, arbiterVars, clientVars, regVars
<1>3. QED
  BY <1>1, <1>2, ArbiterStepRegistration, RegisterStepRegistration,
     EnvironmentStepRegistration DEF Next

\* The invariant gives every registered client identifiers of its own.
LEMMA RegistrationImpliesUnique == TypeOK /\ RegistrationInv => IdsUnique
<1> SUFFICES ASSUME TypeOK, ClientIdsIssued PROVE IdsUnique
  BY DEF RegistrationInv
<1>1. \A c \in Clients : /\ client[c].id_for_arbiter \in Nat
                        /\ client[c].id_for_rmessages \in Nat
  BY DEF TypeOK, Ids
<1>2. ASSUME NEW c \in Clients, Registered(c)
      PROVE  /\ \A id \in IdsOf(c) : id > kArbiterId
             /\ client[c].id_for_arbiter # client[c].id_for_rmessages
  BY <1>1, <1>2 DEF ClientIdsIssued, IdsOf, Issued, kArbiterId
<1>3. ASSUME NEW c \in Clients, NEW d \in Clients, c # d, Registered(c), Registered(d)
      PROVE  IdsOf(c) \intersect IdsOf(d) = {}
  BY <1>1, <1>3 DEF ClientIdsIssued, IdsOf, Issued, Apart
<1>4. QED
  BY <1>2, <1>3 DEF IdsUnique

\* Where the arbiter is started first and once, what the mutex guards is never
\* touched without it.
THEOREM ResponseGuarded ==
    ASSUME ~EagerStart, MaxRestarts = 0
    PROVE  Spec => []ResponseIsGuarded
<1>1. Init => TypeOK /\ RegistrationInv
  BY InitType, RegistrationInit
<1>2. TypeOK /\ RegistrationInv /\ [Next]_vars => (TypeOK /\ RegistrationInv)'
  BY RegistrationInductive, TypeStep
<1>3. RegistrationInv => ResponseIsGuarded
  BY DEF RegistrationInv
<1>4. QED
  BY <1>1, <1>2, <1>3, PTL DEF Spec

\* No two clients are ever given an identifier in common, nor 0, nor the
\* arbiter's, however many register at once and whoever is killed meanwhile.
THEOREM UniqueIds ==
    ASSUME ~EagerStart, MaxRestarts = 0
    PROVE  Spec => []IdsUnique
<1>1. Init => TypeOK /\ RegistrationInv
  BY InitType, RegistrationInit
<1>2. TypeOK /\ RegistrationInv /\ [Next]_vars => (TypeOK /\ RegistrationInv)'
  BY RegistrationInductive, TypeStep
<1>3. TypeOK /\ RegistrationInv => IdsUnique
  BY RegistrationImpliesUnique
<1>4. QED
  BY <1>1, <1>2, <1>3, PTL DEF Spec

\* An acknowledgement only ever ends the registration it belongs to.
THEOREM AckMatches ==
    ASSUME ~EagerStart, MaxRestarts = 0
    PROVE  Spec => []AckIsForThisClient
<1>1. Init => TypeOK /\ RegistrationInv
  BY InitType, RegistrationInit
<1>2. TypeOK /\ RegistrationInv /\ [Next]_vars => (TypeOK /\ RegistrationInv)'
  BY RegistrationInductive, TypeStep
<1>3. RegistrationInv => AckIsForThisClient
  BY DEF RegistrationInv
<1>4. QED
  BY <1>1, <1>2, <1>3, PTL DEF Spec

\* A step takes the response away from a client only once that client runs.
LEMMA ResponseKept ==
    ASSUME ~EagerStart, MaxRestarts = 0, TypeOK, RegistrationInv, [Next]_vars,
           NEW c \in Clients, response.resp_pid = c, response'.resp_pid # c, pc[c] # "killed"
    PROVE  pc[c] = "running"
<1>1. c # Nobody
  BY ArbiterAssumption
<1>2. CASE ClearResponse
  BY <1>2 DEF ClearResponse, ArbiterGoto, RegistrationInv, AckPending, AckIsForThisClient
<1>3. CASE FillPid \/ FinishInit
  BY <1>1, <1>3 DEF FillPid, FinishInit, ArbiterGoto, RegistrationInv, ResponseFresh
<1>4. CASE response'.resp_pid = response.resp_pid
  BY <1>4
<1>5. CASE ArbiterStep
  BY <1>2, <1>3, <1>4, <1>5
  DEF ArbiterStep, GetQueue, GetShmem, InitLocks, InitResponseIds, ListenOnMessages,
      AddClient, AbortOnFullTable, LockToRespond, FillIds, UnlockFilled, Broadcast,
      SpinOnClientResp, LockToClear, UnlockCleared, SendDestId, sharedVars,
      existVars, lockVars, tableVars, peerVars, dataVars, TypeOK
<1>6. ASSUME NEW d \in Clients, RegisterStep(d) PROVE response'.resp_pid = response.resp_pid
  BY <1>6
  DEF RegisterStep, SendRegister, LockToWait, CondWait, LockAwaken, CheckResponse,
      WaitAgain, UnlockRegistered, AckResponse, sharedVars,
      existVars, lockVars, tableVars, peerVars, dataVars, TypeOK
<1>7. ASSUME NEW d \in Clients, SenderStep(d) \/ ReaderThreadTask(d)
      PROVE  response'.resp_pid = response.resp_pid
  BY <1>7
  DEF SenderStep, RequestDestId, ReceiveDestId, SendToReceiver, ReaderThreadTask, sharedVars,
      existVars, lockVars, tableVars, peerVars, dataVars
<1>8. CASE EnvironmentStep
  BY <1>4, <1>8
  DEF EnvironmentStep, KillArbiter, AttachClient, ReadLine, EndOfInput, SpuriousWake,
      KillClient, sharedVars,
      existVars, lockVars, tableVars, peerVars, dataVars
<1>9. CASE UNCHANGED vars
  BY <1>4, <1>9 DEF vars, sharedVars,
      existVars, lockVars, tableVars, peerVars, dataVars
<1>10. QED
  BY <1>4, <1>5, <1>6, <1>7, <1>8, <1>9 DEF Next

\* The arbiter never clears or overwrites a response its living addressee has not
\* copied yet.
THEOREM MailboxKept ==
    ASSUME ~EagerStart, MaxRestarts = 0
    PROVE  Spec => MailboxKeptUntilTaken
<1>1. Init => TypeOK /\ RegistrationInv
  BY InitType, RegistrationInit
<1>2. TypeOK /\ RegistrationInv /\ [Next]_vars => (TypeOK /\ RegistrationInv)'
  BY RegistrationInductive, TypeStep
<1>3. TypeOK /\ RegistrationInv /\ [Next]_vars =>
        [\A c \in Clients :
            response.resp_pid = c /\ response'.resp_pid # c /\ pc[c] # "killed"
                => pc[c] = "running"]_vars
  BY ResponseKept
<1>4. QED
  BY <1>1, <1>2, <1>3, PTL DEF Spec, MailboxKeptUntilTaken

-----------------------------------------------------------------------------
\* The messages of registered clients: the invariant.

Info(i) == client_table.client_info[i]
Used(i) == Info(i).id_for_arbiter # 0

\* A slot is empty or holds a pair given away; no two slots share a pair.
SlotsApart ==
    /\ \A i \in Slots : IF Used(i) THEN Issued(Info(i).id_for_arbiter, Info(i).id_for_rmessages)
                                   ELSE Info(i).id_for_rmessages = 0
    /\ \A i, j \in Slots : i # j /\ Used(i) /\ Used(j) =>
          Apart(Info(i).id_for_arbiter, Info(j).id_for_arbiter)

\* Some slot holds the name with the pair that begins with id.
HasSlot(name, id) ==
    \E i \in Slots : Used(i) /\ Info(i).client_name = name /\ Info(i).id_for_arbiter = id

\* An identifier texts can be sent to belongs to a bearer of the name.
Resolves(name, id) ==
    id > 0 => \E i \in Slots :
        Used(i) /\ Info(i).client_name = name /\ Info(i).id_for_rmessages = id

\* A client that has copied its pair, dead or alive.
Owner(c) == client[c].id_for_arbiter # 0

OwnersInTable ==
    /\ \A c \in Clients : Owner(c) =>
          /\ HasSlot(NameOf[c], client[c].id_for_arbiter)
          /\ client[c].id_for_rmessages = client[c].id_for_arbiter + 1
          /\ pc[c] \in {"unlock", "ack", "running", "killed"}
    /\ \A c, d \in Clients : c # d /\ Owner(c) /\ Owner(d) =>
          client[c].id_for_arbiter # client[d].id_for_arbiter

\* The pair on its way to a client is in the table under its name, and nobody
\* else's, dead or alive.
PairsInTable ==
    /\ a_pc \in {"lock", "fill_pid", "fill_ids"} =>
          /\ mes \in RegisterMessages /\ HasSlot(mes.client_name, new_id.arbiter)
          /\ \A c \in Clients : client[c].id_for_arbiter # new_id.arbiter
    /\ a_pc = "fill_ids" => response.resp_pid = mes.client_pid
    /\ response.resp_pid # Nobody /\ a_pc # "fill_ids" =>
          /\ HasSlot(NameOf[response.resp_pid], response.resp_id_for_arbiter)
          /\ \A c \in Clients \ {response.resp_pid} :
                client[c].id_for_arbiter # response.resp_id_for_arbiter

\* Who asks has an identifier of its own and has acknowledged it.
Asker(c, id) == pc[c] \in {"running", "killed"} /\ id # 0 /\ client[c].id_for_arbiter = id

MessageOK(m) ==
    /\ m.policy = "register" => m.client_name = NameOf[m.client_pid]
    /\ m.policy = "request" => \E c \in Clients : Asker(c, m.who_ask_id)
    /\ m.policy = "respond" => \E c \in Clients : Asker(c, m.type)
    /\ m.policy = "regular" => Resolves(m.mes.to, m.type)

MessagesOK ==
    /\ \A i \in 1..Len(queue) : MessageOK(queue[i])
    /\ a_pc \in {"add", "lock", "fill_pid", "fill_ids", "respond"} => MessageOK(mes)

\* A message that is the question or the answer of the client with this identifier.
Asks(m, id) == m.policy = "request" /\ m.who_ask_id = id
Answers(m, id) == m.policy = "respond" /\ m.type = id
Concerns(m, id) == Asks(m, id) \/ Answers(m, id)

\* A sender that does not wait has no question under way, one that waits exactly
\* one, and it is about the name in its hands.
QuestionOf(c) ==
    LET id == client[c].id_for_arbiter IN
    /\ \A i \in 1..Len(queue) : Concerns(queue[i], id) =>
          /\ sender_pc[c] = "await" /\ ~BeingAnswered(c)
          /\ \A j \in 1..Len(queue) : Concerns(queue[j], id) => i = j
          /\ Asks(queue[i], id) => queue[i].dest_name = dest_name[c]
          /\ Answers(queue[i], id) => Resolves(dest_name[c], queue[i].dest_id)
    /\ BeingAnswered(c) => sender_pc[c] = "await" /\ mes.dest_name = dest_name[c]
    /\ sender_pc[c] = "await" =>
          BeingAnswered(c) \/ \E i \in 1..Len(queue) : Concerns(queue[i], id)

Questions == \A c \in Clients : pc[c] = "running" => QuestionOf(c)

DestinationsResolve ==
    \A c \in Clients : sender_pc[c] = "post" => Resolves(dest_name[c], dest_id[c])

\* Only a client that runs has a sender thread.
SendersRun == \A c \in Clients : sender_pc[c] # "off" => pc[c] = "running"

\* ArbiterInit empties a table that is empty already.
TableStartsEmpty == a_pc \in InitPcs => client_table = InitTable

MessageInv ==
    /\ TableStartsEmpty /\ SlotsApart /\ OwnersInTable /\ PairsInTable /\ MessagesOK
    /\ Questions /\ DestinationsResolve /\ SendersRun /\ DeliveredToAddressee

-----------------------------------------------------------------------------
\* What each kind of step does to the parts of the invariant.

LEMMA MessageInit == Init => MessageInv
<1> SUFFICES ASSUME Init PROVE MessageInv
  OBVIOUS
<1> USE DEF Init
<1>1. TableStartsEmpty /\ SlotsApart
  BY DEF TableStartsEmpty, SlotsApart, Used, Info, InitTable, FreeSlot
<1>2. OwnersInTable /\ PairsInTable /\ MessagesOK
  BY DEF OwnersInTable, PairsInTable, MessagesOK, Owner, ZeroResponse
<1>3. Questions /\ DestinationsResolve /\ SendersRun
  BY DEF Questions, DestinationsResolve, SendersRun
<1>4. DeliveredToAddressee
  <2>1. \A c \in Clients : Range(stdout[c]) = {}
    BY DEF Range
  <2>2. QED
    BY <2>1 DEF DeliveredToAddressee
<1>5. QED
  BY <1>1, <1>2, <1>3, <1>4 DEF MessageInv

\* A step of the handshake moves threads on and leaves messages, table and
\* identifiers as they are.
LEMMA ControlStep ==
    ASSUME MessageInv, TypeOK, UNCHANGED <<queue, client_table, client, senderVars, stdout>>,
           PairsInTable',
           a_pc' \in InitPcs => a_pc \in InitPcs,
           a_pc' \in {"add", "lock", "fill_pid", "fill_ids"} =>
              mes' = mes /\ a_pc \in {"add", "lock", "fill_pid", "fill_ids"},
           a_pc' = "respond" => mes' = mes,
           a_pc' = "respond" <=> a_pc = "respond",
           \A c \in Clients : Owner(c) => pc'[c] \in {"unlock", "ack", "running", "killed"},
           \A c \in Clients : pc[c] \in {"running", "killed"} <=> pc'[c] \in {"running", "killed"},
           \A c \in Clients : pc[c] = "running" <=> pc'[c] = "running"
    PROVE  MessageInv'
<1> USE DEF MessageInv, senderVars
<1>1. TableStartsEmpty' /\ SlotsApart'
  BY DEF TableStartsEmpty, SlotsApart, Used, Info, Issued
<1>2. OwnersInTable'
  BY DEF OwnersInTable, HasSlot, Used, Info, Owner
<1>3. MessagesOK'
  BY DEF MessagesOK, MessageOK, Resolves, Used, Info, Asker
<1>4. Questions'
  BY DEF Questions, QuestionOf, Concerns, Asks, Answers, BeingAnswered, Resolves, Used, Info
<1>5. DestinationsResolve' /\ SendersRun' /\ DeliveredToAddressee'
  BY DEF DestinationsResolve, SendersRun, DeliveredToAddressee, Resolves, Used, Info
<1>6. QED
  BY <1>1, <1>2, <1>3, <1>4, <1>5

\* A slot in use keeps its pair and its name for good, so what resolves goes on to.
LEMMA SlotsKept ==
    ASSUME \A i \in Slots : Used(i) => Info(i)' = Info(i)
    PROVE  \A name, id : /\ HasSlot(name, id) => HasSlot(name, id)'
                         /\ Resolves(name, id) => Resolves(name, id)'
  BY DEF HasSlot, Resolves, Used

\* Adding a client fills one free slot with a pair beyond those given away.
LEMMA AddedSlot ==
    ASSUME TypeOK, AddClient
    PROVE  \E i \in Slots :
              /\ ~Used(i)
              /\ client_table' = [free_id |-> client_table.free_id + 2,
                                  client_info |-> [client_table.client_info EXCEPT ![i] =
                                    [client_name |-> mes.client_name,
                                     id_for_arbiter |-> client_table.free_id,
                                     id_for_rmessages |-> client_table.free_id + 1,
                                     is_awaken |-> TRUE]]]
              /\ new_id' = [arbiter |-> client_table.free_id,
                            rmessages |-> client_table.free_id + 1]
<1>1. Min(AvailableSlots(client_table)) \in AvailableSlots(client_table)
  BY FirstAvailableSlot DEF AddClient
<1>2. QED
  BY <1>1 DEF AddClient, AddToTable, NewIdForArbiter, NewIdForRMessages, AvailableSlots,
              Used, Info

LEMMA AddClientMessages ==
    ASSUME TypeOK, RegistrationInv, MessageInv, AddClient
    PROVE  MessageInv'
<1> USE DEF MessageInv, AddClient, ArbiterGoto, sharedVars, peerVars, senderVars, clientVars,
            dataVars
<1> DEFINE free == client_table.free_id
<1>0. free \in Nat /\ free > 1
      /\ \A i \in Slots : Info(i).id_for_arbiter \in Nat /\ Info(i).id_for_rmessages \in Nat
  BY SMTT(30) DEF TypeOK, Table, Ids, kArbiterId, Info
<1>1. PICK s \in Slots :
        /\ ~Used(s)
        /\ client_table' = [free_id |-> free + 2,
                            client_info |-> [client_table.client_info EXCEPT ![s] =
                              [client_name |-> mes.client_name, id_for_arbiter |-> free,
                               id_for_rmessages |-> free + 1, is_awaken |-> TRUE]]]
        /\ new_id' = [arbiter |-> free, rmessages |-> free + 1]
  BY AddedSlot
<1>2. /\ Info(s)' = [client_name |-> mes.client_name, id_for_arbiter |-> free,
                     id_for_rmessages |-> free + 1, is_awaken |-> TRUE]
      /\ \A i \in Slots \ {s} : Info(i)' = Info(i)
      /\ client_table'.free_id = free + 2
  BY <1>1 DEF Info, TypeOK, Table
<1>3. /\ Used(s)' /\ \A i \in Slots \ {s} : Used(i)' <=> Used(i)
      /\ \A i \in Slots : Used(i) => Info(i)' = Info(i)
  BY <1>0, <1>1, <1>2 DEF Used
<1>4. \A name, id : /\ HasSlot(name, id) => HasSlot(name, id)'
                    /\ Resolves(name, id) => Resolves(name, id)'
  BY <1>3, SlotsKept
<1>5. SlotsApart' /\ TableStartsEmpty'
  <2>1. \A i \in Slots : Used(i) =>
            Issued(Info(i).id_for_arbiter, Info(i).id_for_rmessages)
    BY DEF SlotsApart
  <2>2. \A i \in Slots : (IF Used(i) THEN Issued(Info(i).id_for_arbiter, Info(i).id_for_rmessages)
                                     ELSE Info(i).id_for_rmessages = 0)'
    BY <1>0, <1>2, <1>3 DEF SlotsApart, Issued
  <2>3. ASSUME NEW i \in Slots, NEW j \in Slots, i # j, Used(i)', Used(j)'
        PROVE  Apart(Info(i).id_for_arbiter, Info(j).id_for_arbiter)'
    BY <1>0, <1>2, <1>3, <2>1, <2>3 DEF SlotsApart, Issued, Apart
  <2>4. QED
    BY <2>2, <2>3 DEF SlotsApart, TableStartsEmpty, InitPcs
<1>6. OwnersInTable'
  BY <1>4 DEF OwnersInTable, Owner
<1>7. PairsInTable'
  <2>1. mes' = mes /\ mes \in RegisterMessages /\ response' = response
        /\ response.resp_pid = Nobody
    BY DEF TypeOK, RegistrationInv, ResponseFresh
  <2>2. HasSlot(mes.client_name, new_id.arbiter)'
    BY <1>1, <1>2, <1>3 DEF HasSlot
  <2>3. \A c \in Clients : client[c].id_for_arbiter # free
    <3>1. SUFFICES ASSUME NEW c \in Clients, client[c].id_for_arbiter = free PROVE FALSE
      OBVIOUS
    <3>2. PICK i \in Slots : Used(i) /\ Info(i).id_for_arbiter = free
      BY <1>0, <3>1 DEF OwnersInTable, Owner, HasSlot
    <3>3. QED
      BY <1>0, <3>2 DEF SlotsApart, Issued
  <2>4. QED
    BY <1>1, <2>1, <2>2, <2>3 DEF PairsInTable
<1>8. MessagesOK'
  BY <1>4 DEF MessagesOK, MessageOK, Asker
<1>9. Questions'
  BY <1>4 DEF Questions, QuestionOf, Concerns, Asks, Answers, BeingAnswered
<1>10. DestinationsResolve' /\ SendersRun' /\ DeliveredToAddressee'
  BY <1>4 DEF DestinationsResolve, SendersRun, DeliveredToAddressee
<1>11. QED
  BY <1>5, <1>6, <1>7, <1>8, <1>9, <1>10

\* The message at position k leaves the queue; the others stay, each once.
TakenAt(k) ==
    /\ \A i \in 1..Len(queue') : \E j \in 1..Len(queue) \ {k} : queue'[i] = queue[j]
    /\ \A j \in 1..Len(queue) \ {k} : \E i \in 1..Len(queue') : queue'[i] = queue[j]
    /\ \A i1, i2 \in 1..Len(queue') : i1 # i2 =>
          \E j1, j2 \in 1..Len(queue) \ {k} :
              j1 # j2 /\ queue'[i1] = queue[j1] /\ queue'[i2] = queue[j2]

\* A receive takes one message out and keeps the others, each once.
LEMMA ReceivePositions ==
    ASSUME TypeOK, NEW t, Receive(t)
    PROVE  \E k \in 1..Len(queue) :
              /\ Received(queue, t) = queue[k] /\ Matches(queue[k], t) /\ queue[k] \in Message
              /\ TakenAt(k)
<1> DEFINE k == FirstMatch(queue, t)
<1>1. queue \in Seq(Message) /\ HasMessage(queue, t) /\ queue' = Remaining(queue, t)
  BY DEF TypeOK, Message, Receive
<1>2. /\ k \in 1..Len(queue) /\ Received(queue, t) = queue[k] /\ Matches(queue[k], t)
      /\ Len(queue') = Len(queue) - 1
      /\ \A i \in 1..Len(queue') : queue'[i] = IF i < k THEN queue[i] ELSE queue[i + 1]
  BY <1>1, RemainingPositions, ZenonT(40)
<1> HIDE DEF k
<1>3. ASSUME NEW i \in 1..Len(queue')
      PROVE  \E j \in 1..Len(queue) \ {k} : j = (IF i < k THEN i ELSE i + 1) /\ queue'[i] = queue[j]
  BY <1>2
<1>4. ASSUME NEW j \in 1..Len(queue) \ {k}
      PROVE  \E i \in 1..Len(queue') : queue'[i] = queue[j]
  <2>1. CASE j < k
    BY <1>2, <2>1
  <2>2. CASE j > k
    <3>1. j - 1 \in 1..Len(queue') /\ ~(j - 1 < k) /\ (j - 1) + 1 = j
      BY <1>2, <2>2
    <3>2. QED
      BY <1>2, <3>1
  <2>3. QED
    BY <1>2, <2>1, <2>2
<1>5. ASSUME NEW i1 \in 1..Len(queue'), NEW i2 \in 1..Len(queue'), i1 # i2
      PROVE  \E j1, j2 \in 1..Len(queue) \ {k} :
                j1 # j2 /\ queue'[i1] = queue[j1] /\ queue'[i2] = queue[j2]
  <2>1. PICK j1 \in 1..Len(queue) \ {k} :
            j1 = (IF i1 < k THEN i1 ELSE i1 + 1) /\ queue'[i1] = queue[j1]
    BY <1>3
  <2>2. PICK j2 \in 1..Len(queue) \ {k} :
            j2 = (IF i2 < k THEN i2 ELSE i2 + 1) /\ queue'[i2] = queue[j2]
    BY <1>3
  <2>3. j1 # j2
    BY <1>2, <1>5, <2>1, <2>2
  <2>4. QED
    BY <2>1, <2>2, <2>3
<1>6. queue[k] \in Message
  BY <1>1, <1>2
<1>7. \A i \in 1..Len(queue') : \E j \in 1..Len(queue) \ {k} : queue'[i] = queue[j]
  BY <1>3
<1>8. QED
  BY <1>2, <1>4, <1>5, <1>6, <1>7, Zenon DEF TakenAt

\* Every message in the queue is one of the four kinds.
LEMMA QueueTypes ==
    ASSUME TypeOK
    PROVE  queue \in Seq(Message) /\ \A i \in 1..Len(queue) : queue[i] \in Message
  BY DEF TypeOK, Message

\* The arbiter's control flow between a receive and the next one.
LEMMA ArbiterControlMessages ==
    ASSUME TypeOK, RegistrationInv, MessageInv, ArbiterStep,
           ~ListenOnMessages, ~AddClient, ~SendDestId
    PROVE  MessageInv'
<1> USE DEF ArbiterGoto, InitPcs, sharedVars, existVars, lockVars, tableVars, peerVars,
            dataVars, senderVars, clientVars
<1>0. PairsInTable /\ MessagesOK /\ OwnersInTable
  BY DEF MessageInv
<1>1. CASE GetQueue \/ GetShmem \/ InitLocks
  BY <1>0, <1>1, ControlStep
  DEF GetQueue, GetShmem, InitLocks, PairsInTable, OwnersInTable, HasSlot, Used, Info
<1>2. CASE InitResponseIds
  <2>1. response'.resp_pid = Nobody
    BY <1>2 DEF InitResponseIds, TypeOK, RegistrationInv, StartsInOrder
  <2>2. PairsInTable'
    BY <1>2, <2>1 DEF InitResponseIds, PairsInTable
  <2>3. QED
    BY <1>0, <1>2, <2>2, ControlStep DEF InitResponseIds, OwnersInTable
<1>3. CASE FinishInit
  <2>1. client_table' = client_table
    BY <1>3 DEF FinishInit, MessageInv, TableStartsEmpty
  <2>2. response'.resp_pid = Nobody
    BY <1>3 DEF FinishInit, TypeOK
  <2>3. PairsInTable'
    BY <1>3, <2>2 DEF FinishInit, PairsInTable
  <2>4. QED
    BY <1>0, <1>3, <2>1, <2>3, ControlStep DEF FinishInit, OwnersInTable
<1>4. CASE AbortOnFullTable \/ LockToRespond \/ UnlockFilled \/ SpinOnClientResp
           \/ LockToClear \/ UnlockCleared
  <2>1. PairsInTable'
    BY <1>0, <1>4
    DEF AbortOnFullTable, LockToRespond, UnlockFilled, SpinOnClientResp, LockToClear,
        UnlockCleared, PairsInTable, HasSlot, Used, Info, RegistrationInv, ResponseFresh, TypeOK
  <2>2. QED
    BY <1>0, <1>4, <2>1, ControlStep
    DEF AbortOnFullTable, LockToRespond, UnlockFilled, SpinOnClientResp, LockToClear,
        UnlockCleared, OwnersInTable
<1>5. CASE FillPid
  <2>1. response'.resp_pid = mes.client_pid
    BY <1>5 DEF FillPid, TypeOK
  <2>2. PairsInTable'
    BY <1>0, <1>5, <2>1 DEF FillPid, PairsInTable, HasSlot, Used, Info
  <2>3. QED
    BY <1>0, <1>5, <2>2, ControlStep DEF FillPid, OwnersInTable
<1>6. CASE FillIds
  <2>1. /\ response'.resp_pid = response.resp_pid
        /\ response'.resp_id_for_arbiter = new_id.arbiter
    BY <1>6 DEF FillIds, TypeOK
  <2>2. /\ mes \in RegisterMessages /\ HasSlot(mes.client_name, new_id.arbiter)
        /\ \A c \in Clients : client[c].id_for_arbiter # new_id.arbiter
        /\ response.resp_pid = mes.client_pid
    BY <1>0, <1>6 DEF FillIds, PairsInTable
  <2>3. mes.client_name = NameOf[mes.client_pid]
    BY <1>0, <1>6, <2>2 DEF FillIds, MessagesOK, MessageOK, RegisterMessages
  <2>4. PairsInTable'
    BY <1>6, <2>1, <2>2, <2>3 DEF FillIds, PairsInTable, HasSlot, Used, Info
  <2>5. QED
    BY <1>0, <1>6, <2>4, ControlStep DEF FillIds, OwnersInTable
<1>7. CASE Broadcast
  <2>1. /\ \A c \in cond_waiters : pc[c] = "blocked"
        /\ \A c \in Clients : pc'[c] = pc[c] \/ (pc[c] = "blocked" /\ pc'[c] = "relock")
    BY <1>7 DEF Broadcast, RegistrationInv, WaitersAreBlocked
  <2>2. PairsInTable'
    BY <1>0, <1>7 DEF Broadcast, PairsInTable, HasSlot, Used, Info
  <2>3. QED
    BY <1>0, <1>7, <2>1, <2>2, ControlStep DEF Broadcast, OwnersInTable
<1>8. CASE ClearResponse
  BY <1>0, <1>8, ControlStep DEF ClearResponse, ZeroResponse, PairsInTable, OwnersInTable
<1>9. QED
  BY <1>1, <1>2, <1>3, <1>4, <1>5, <1>6, <1>7, <1>8 DEF ArbiterStep

\* A message taken that does not concern a client leaves its question alone.
LEMMA QuestionKeptByReceive ==
    ASSUME TypeOK, NEW c \in Clients, QuestionOf(c), NEW k \in 1..Len(queue),
           ~Concerns(queue[k], client[c].id_for_arbiter),
           TakenAt(k),
           UNCHANGED <<client, client_table>>,
           sender_pc'[c] = sender_pc[c], dest_name'[c] = dest_name[c],
           BeingAnswered(c)' <=> BeingAnswered(c), BeingAnswered(c) => mes' = mes
    PROVE  QuestionOf(c)'
<1> DEFINE id == client[c].id_for_arbiter
<1>1. ASSUME NEW i \in 1..Len(queue'), Concerns(queue'[i], id)
      PROVE  /\ sender_pc[c] = "await" /\ ~BeingAnswered(c)
             /\ Asks(queue'[i], id) => queue'[i].dest_name = dest_name[c]
             /\ Answers(queue'[i], id) => Resolves(dest_name[c], queue'[i].dest_id)
  <2>1. PICK j \in 1..Len(queue) \ {k} : queue'[i] = queue[j]
    BY DEF TakenAt
  <2>2. QED
    BY <1>1, <2>1 DEF QuestionOf
<1>2. ASSUME NEW i1 \in 1..Len(queue'), NEW i2 \in 1..Len(queue'), i1 # i2,
             Concerns(queue'[i1], id), Concerns(queue'[i2], id)
      PROVE  FALSE
  <2>1. PICK j1 \in 1..Len(queue) \ {k}, j2 \in 1..Len(queue) \ {k} :
            j1 # j2 /\ queue'[i1] = queue[j1] /\ queue'[i2] = queue[j2]
    BY <1>2 DEF TakenAt
  <2>2. QED
    BY <1>2, <2>1 DEF QuestionOf
<1>3. ASSUME sender_pc[c] = "await", ~BeingAnswered(c)
      PROVE  \E i \in 1..Len(queue') : Concerns(queue'[i], id)
  <2>1. PICK j \in 1..Len(queue) : Concerns(queue[j], id)
    BY <1>3 DEF QuestionOf
  <2>2. j # k
    BY <2>1
  <2>3. QED
    BY <2>1, <2>2 DEF TakenAt
<1>4. \A name, x : Resolves(name, x)' <=> Resolves(name, x)
  BY DEF Resolves, Used, Info
<1>5. /\ BeingAnswered(c)' => sender_pc'[c] = "await" /\ mes'.dest_name = dest_name'[c]
      /\ sender_pc'[c] = "await" =>
            BeingAnswered(c)' \/ \E i \in 1..Len(queue') : Concerns(queue'[i], id')
  BY <1>3 DEF QuestionOf
<1>6. ASSUME NEW i \in 1..Len(queue'), Concerns(queue'[i], id')
      PROVE  /\ sender_pc'[c] = "await" /\ ~BeingAnswered(c)'
             /\ \A j \in 1..Len(queue') : Concerns(queue'[j], id') => i = j
             /\ Asks(queue'[i], id') => queue'[i].dest_name = dest_name'[c]
             /\ Answers(queue'[i], id') => Resolves(dest_name[c], queue[i].dest_id)'
  BY <1>1, <1>2, <1>4, <1>6
<1>7. QED
  BY <1>5, <1>6 DEF QuestionOf, Concerns, Asks, Answers

\* What was in order stays so when a message is taken out.
LEMMA MessagesKeptByReceive ==
    ASSUME MessagesOK,
           NEW k, TakenAt(k), UNCHANGED <<client, client_table, pc>>
    PROVE  \A i \in 1..Len(queue') : MessageOK(queue[i])'
<1> SUFFICES ASSUME NEW i \in 1..Len(queue') PROVE MessageOK(queue[i])'
  OBVIOUS
<1>1. PICK j \in 1..Len(queue) : queue'[i] = queue[j]
  BY DEF TakenAt
<1>2. MessageOK(queue[j])
  BY DEF MessagesOK
<1>3. QED
  BY <1>1, <1>2 DEF MessageOK, Asker, Resolves, Used, Info

\* Nor does a message sent that does not concern the client.
LEMMA QuestionKeptBySend ==
    ASSUME TypeOK, NEW c \in Clients, QuestionOf(c), NEW m, queue' = Append(queue, m),
           ~Concerns(m, client[c].id_for_arbiter),
           UNCHANGED <<client, client_table>>,
           sender_pc'[c] = sender_pc[c], dest_name'[c] = dest_name[c],
           BeingAnswered(c)' <=> BeingAnswered(c), BeingAnswered(c) => mes' = mes
    PROVE  QuestionOf(c)'
<1> DEFINE id == client[c].id_for_arbiter
<1>1. /\ Len(queue) \in Nat /\ Len(queue') = Len(queue) + 1
      /\ \A i \in 1..Len(queue) : queue'[i] = queue[i]
      /\ queue'[Len(queue) + 1] = m
  BY QueueTypes
<1>2. /\ \A i \in 1..Len(queue') : Concerns(queue'[i], id) =>
            i \in 1..Len(queue) /\ queue'[i] = queue[i]
      /\ \A i \in 1..Len(queue) : i \in 1..Len(queue') /\ queue'[i] = queue[i]
  BY <1>1
<1>3. \A name, x : Resolves(name, x)' <=> Resolves(name, x)
  BY DEF Resolves, Used, Info
<1>4. /\ BeingAnswered(c)' => sender_pc'[c] = "await" /\ mes'.dest_name = dest_name'[c]
      /\ sender_pc'[c] = "await" =>
            BeingAnswered(c)' \/ \E i \in 1..Len(queue') : Concerns(queue'[i], id')
  BY <1>2 DEF QuestionOf
<1>5. ASSUME NEW i \in 1..Len(queue'), Concerns(queue'[i], id')
      PROVE  /\ sender_pc'[c] = "await" /\ ~BeingAnswered(c)'
             /\ \A j \in 1..Len(queue') : Concerns(queue'[j], id') => i = j
             /\ Asks(queue'[i], id') => queue'[i].dest_name = dest_name'[c]
             /\ Answers(queue'[i], id') => Resolves(dest_name[c], queue[i].dest_id)'
  BY <1>2, <1>3, <1>5 DEF QuestionOf
<1>6. QED
  BY <1>4, <1>5 DEF QuestionOf, Concerns, Asks, Answers

LEMMA MessagesKeptBySend ==
    ASSUME TypeOK, MessagesOK, NEW m, MessageOK(m), queue' = Append(queue, m),
           UNCHANGED <<client, client_table>>,
           \A c \in Clients : pc[c] \in {"running", "killed"} => pc'[c] = pc[c]
    PROVE  \A i \in 1..Len(queue') : MessageOK(queue[i])'
<1> SUFFICES ASSUME NEW i \in 1..Len(queue') PROVE MessageOK(queue[i])'
  OBVIOUS
<1>1. queue'[i] = m \/ (i \in 1..Len(queue) /\ queue'[i] = queue[i])
  BY QueueTypes
<1>2. MessageOK(queue'[i])
  BY <1>1 DEF MessagesOK
<1>3. QED
  BY <1>2 DEF MessageOK, Asker, Resolves, Used, Info

\* The arbiter takes a message: a question leaves the queue for its hands.
LEMMA ListenMessages ==
    ASSUME TypeOK, RegistrationInv, MessageInv, ListenOnMessages
    PROVE  MessageInv'
<1>0. Receive(kArbiterId)
  BY DEF ListenOnMessages
<1>1. PICK k \in 1..Len(queue) :
        /\ Received(queue, kArbiterId) = queue[k] /\ Matches(queue[k], kArbiterId)
        /\ queue[k] \in Message /\ TakenAt(k)
  BY <1>0, ReceivePositions
<1> USE DEF MessageInv, ListenOnMessages, sharedVars, existVars, lockVars, peerVars,
            senderVars, clientVars, dataVars
<1>2. /\ mes' = queue[k] /\ mes' \in AMessage /\ MessageOK(mes')
      /\ mes'.policy = "register" => mes' \in RegisterMessages /\ a_pc' = "add"
      /\ mes'.policy # "register" =>
            mes' \in RequestMessages /\ mes'.policy = "request" /\ a_pc' = "respond"
  BY <1>1, ForArbiter DEF MessagesOK, AMessage, RegisterMessages, RequestMessages
<1>3. TableStartsEmpty' /\ SlotsApart'
  BY <1>2 DEF TableStartsEmpty, SlotsApart, Used, Info, Issued, InitPcs
<1>4. OwnersInTable' /\ PairsInTable'
  BY <1>2 DEF OwnersInTable, PairsInTable, HasSlot, Used, Info, Owner, RegistrationInv,
              ResponseFresh
<1>5. MessagesOK'
  <2>1. \A i \in 1..Len(queue') : MessageOK(queue[i])'
    BY <1>1, MessagesKeptByReceive
  <2>2. MessageOK(mes)'
    BY <1>2 DEF MessageOK, Asker, Resolves, Used, Info
  <2>3. QED
    BY <2>1, <2>2 DEF MessagesOK
<1>6. ASSUME NEW c \in Clients, pc[c] = "running" PROVE QuestionOf(c)'
  <2> DEFINE id == client[c].id_for_arbiter
  <2>1. QuestionOf(c) /\ ~BeingAnswered(c)
    BY <1>6 DEF Questions, BeingAnswered
  <2>2. id > 1
    BY <1>6 DEF RegistrationInv, ClientIdsIssued, Registered, Issued, TypeOK
  <2>3. CASE Concerns(queue[k], id)
    <3>1. mes'.type = kArbiterId
      BY <1>2 DEF AMessage, RegisterMessages, RequestMessages
    <3>2. Asks(mes', id) /\ BeingAnswered(c)'
      BY <1>2, <2>2, <2>3, <3>1 DEF Concerns, Asks, Answers, BeingAnswered, RegisterMessages,
                                    kArbiterId
    <3>3. sender_pc[c] = "await" /\ mes'.dest_name = dest_name[c]
      BY <1>2, <2>1, <2>3, <3>2 DEF QuestionOf
    <3>4. \A i \in 1..Len(queue') : ~Concerns(queue'[i], id)
      BY <1>1, <2>1, <2>3 DEF QuestionOf, TakenAt
    <3>5. QED
      BY <3>2, <3>3, <3>4 DEF QuestionOf, Concerns, Asks, Answers
  <2>4. CASE ~Concerns(queue[k], id)
    <3>1. ~BeingAnswered(c)'
      BY <1>2, <2>4 DEF BeingAnswered, Concerns, Asks
    <3>2. QED
      BY <1>1, <2>1, <2>4, <3>1, QuestionKeptByReceive
  <2>5. QED
    BY <2>3, <2>4
<1>7. Questions'
  BY <1>6 DEF Questions
<1>8. DestinationsResolve' /\ SendersRun' /\ DeliveredToAddressee'
  BY DEF DestinationsResolve, SendersRun, DeliveredToAddressee, Resolves, Used, Info
<1>9. QED
  BY <1>3, <1>4, <1>5, <1>7, <1>8

\* A lookup that finds an identifier finds it in a slot that holds the name.
LEMMA LookupResolves ==
    ASSUME TypeOK, MessageInv, NEW name
    PROVE  Resolves(name, GetIdForRMessagesFromName(client_table, name))
<1> DEFINE found == SlotsNamed(client_table, name)
           x == GetIdForRMessagesFromName(client_table, name)
<1>1. SUFFICES ASSUME x > 0
               PROVE  \E i \in Slots :
                        Used(i) /\ Info(i).client_name = name /\ Info(i).id_for_rmessages = x
  BY DEF Resolves
<1>2. found # {} /\ x = Info(Min(found)).id_for_rmessages
  BY <1>1 DEF GetIdForRMessagesFromName, NotFound, Info
<1>3. found \in SUBSET Nat
  BY TableAssumption DEF SlotsNamed, Slots
<1>4. Min(found) \in Slots /\ Info(Min(found)).client_name = name
  BY <1>2, <1>3, MinProperties DEF SlotsNamed, Info
<1>5. Used(Min(found))
  BY <1>1, <1>2, <1>4 DEF MessageInv, SlotsApart
<1>6. QED
  BY <1>2, <1>4, <1>5

\* The arbiter answers: the question in its hands becomes the answer in the queue.
LEMMA SendDestIdMessages ==
    ASSUME TypeOK, RegistrationInv, MessageInv, SendDestId
    PROVE  MessageInv'
<1> DEFINE reply == [type |-> mes.who_ask_id, policy |-> "respond",
                     dest_id |-> GetIdForRMessagesFromName(client_table, mes.dest_name)]
<1>1. /\ a_pc = "respond" /\ mes \in RequestMessages /\ MessageOK(mes)
      /\ mes.policy = "request" /\ mes.who_ask_id \in Nat /\ mes.who_ask_id # 0
  BY DEF SendDestId, ArbiterGoto, TypeOK, MessageInv, MessagesOK, RequestMessages, Ids,
         MessageOK, Asker
<1>2. queue' = Append(queue, reply)
  BY <1>1 DEF SendDestId, Send, ValidType
<1>3. Resolves(mes.dest_name, reply.dest_id)
  BY LookupResolves
<1>4. MessageOK(reply)
  BY <1>1 DEF MessageOK
<1> USE DEF MessageInv, ArbiterGoto, sharedVars, existVars, lockVars, tableVars, peerVars,
            senderVars, clientVars, dataVars
<1>5. /\ a_pc' = "receive"
      /\ UNCHANGED <<response, client_table, mes, new_id, pc, client, senderVars, stdout>>
  BY DEF SendDestId
<1> HIDE DEF reply
<1>6. TableStartsEmpty' /\ SlotsApart'
  BY <1>5 DEF TableStartsEmpty, SlotsApart, Used, Info, Issued, InitPcs
<1>7. OwnersInTable' /\ PairsInTable'
  BY <1>1, <1>5 DEF OwnersInTable, PairsInTable, HasSlot, Used, Info, Owner
<1>8. MessagesOK'
  BY <1>2, <1>4, <1>5, MessagesKeptBySend DEF MessagesOK
<1>9. ASSUME NEW c \in Clients, pc[c] = "running" PROVE QuestionOf(c)'
  <2> DEFINE id == client[c].id_for_arbiter
  <2>1. QuestionOf(c) /\ ~BeingAnswered(c)'
    BY <1>5, <1>9 DEF Questions, BeingAnswered
  <2>2. CASE BeingAnswered(c)
    <3>1. /\ mes.who_ask_id = id /\ sender_pc[c] = "await" /\ mes.dest_name = dest_name[c]
          /\ \A i \in 1..Len(queue) : ~Concerns(queue[i], id)
      BY <2>1, <2>2 DEF QuestionOf, BeingAnswered
    <3>2. /\ Len(queue) \in Nat /\ Len(queue') = Len(queue) + 1
          /\ \A i \in 1..Len(queue) : queue'[i] = queue[i]
          /\ queue'[Len(queue) + 1] = reply
      BY <1>2, QueueTypes
    <3>3. Concerns(reply, id) /\ ~Asks(reply, id)
      BY <3>1 DEF Concerns, Asks, Answers, reply
    <3>4. \A i \in 1..Len(queue') : Concerns(queue'[i], id) <=> i = Len(queue) + 1
      BY <3>1, <3>2, <3>3
    <3>5. Resolves(dest_name[c], reply.dest_id)'
      BY <1>3, <1>5, <3>1 DEF Resolves, Used, Info, reply
    <3>6. \A i \in 1..Len(queue') : Concerns(queue'[i], id) =>
              Resolves(dest_name[c], queue[i].dest_id)' /\ ~Asks(queue'[i], id)
      BY <1>5, <3>2, <3>3, <3>4, <3>5 DEF Resolves, Used, Info, reply
    <3>7. Len(queue) + 1 \in 1..Len(queue')
      BY <3>2
    <3>8. QED
      BY <1>5, <2>1, <3>1, <3>4, <3>6, <3>7 DEF QuestionOf, Concerns, Asks, Answers
  <2>3. CASE ~BeingAnswered(c)
    <3>1. ~Concerns(reply, id)
      BY <1>1, <2>3 DEF Concerns, Asks, Answers, BeingAnswered, reply
    <3>2. QED
      BY <1>2, <1>5, <2>1, <2>3, <3>1, QuestionKeptBySend
  <2>4. QED
    BY <2>2, <2>3
<1>10. Questions'
  BY <1>5, <1>9 DEF Questions
<1>11. DestinationsResolve' /\ SendersRun' /\ DeliveredToAddressee'
  BY <1>5 DEF DestinationsResolve, SendersRun, DeliveredToAddressee, Resolves, Used, Info
<1>12. QED
  BY <1>6, <1>7, <1>8, <1>10, <1>11

\* Registering: the message carries the client's own name, and the client takes
\* the pair that stands in the table under it.
LEMMA RegisterStepMessages ==
    ASSUME TypeOK, RegistrationInv, MessageInv, NEW c \in Clients, RegisterStep(c)
    PROVE  MessageInv'
<1> USE DEF ClientGoto, sharedVars, existVars, lockVars, tableVars, arbiterVars, dataVars
<1>0. PairsInTable /\ MessagesOK /\ OwnersInTable
  BY DEF MessageInv
<1>1. CASE SendRegister(c)
  <2> DEFINE m == [type |-> kArbiterId, policy |-> "register",
                   client_pid |-> c, client_name |-> NameOf[c]]
  <2>1. queue' = Append(queue, m) /\ MessageOK(m)
    BY <1>1 DEF SendRegister, Send, ValidType, kArbiterId, MessageOK
  <2>2. /\ pc[c] = "register" /\ pc' = [pc EXCEPT ![c] = "lock"]
        /\ UNCHANGED <<response, a_pc, client_table, mes, new_id, client, senderVars, stdout>>
    BY <1>1 DEF SendRegister
  <2>3. \A id : ~Concerns(m, id)
    BY DEF Concerns, Asks, Answers
  <2> HIDE DEF m
  <2>4. TableStartsEmpty' /\ SlotsApart'
    BY <2>2 DEF MessageInv, TableStartsEmpty, SlotsApart, Used, Info, Issued
  <2>5. OwnersInTable' /\ PairsInTable'
    BY <1>0, <2>2 DEF OwnersInTable, PairsInTable, HasSlot, Used, Info, Owner, TypeOK
  <2>6. \A d \in Clients : pc[d] \in {"running", "killed"} => pc'[d] = pc[d]
    BY <2>2 DEF TypeOK
  <2>7. MessagesOK'
    <3>1. \A i \in 1..Len(queue') : MessageOK(queue[i])'
      BY <1>0, <2>1, <2>2, <2>6, MessagesKeptBySend
    <3>2. QED
      BY <1>0, <2>2, <2>6, <3>1 DEF MessagesOK, MessageOK, Asker, Resolves, Used, Info
  <2>8. ASSUME NEW d \in Clients, pc'[d] = "running" PROVE QuestionOf(d)'
    <3>1. QuestionOf(d) /\ (BeingAnswered(d)' <=> BeingAnswered(d))
      BY <2>2, <2>8 DEF MessageInv, Questions, BeingAnswered, TypeOK
    <3>2. QED
      BY <2>1, <2>2, <2>3, <3>1, QuestionKeptBySend DEF senderVars
  <2>9. Questions'
    BY <2>8 DEF Questions
  <2>10. DestinationsResolve' /\ SendersRun' /\ DeliveredToAddressee'
    BY <2>2 DEF MessageInv, DestinationsResolve, SendersRun, DeliveredToAddressee, Resolves,
                Used, Info, senderVars, TypeOK
  <2>11. QED
    BY <2>4, <2>5, <2>7, <2>9, <2>10 DEF MessageInv
<1>2. CASE LockToWait(c) \/ CondWait(c) \/ LockAwaken(c) \/ WaitAgain(c)
  <2>1. /\ pc[c] \in {"lock", "wait", "relock", "check"} /\ ~Owner(c)
        /\ pc'[c] \in {"wait", "blocked", "check"}
        /\ \A d \in Clients \ {c} : pc'[d] = pc[d]
    BY <1>0, <1>2 DEF LockToWait, CondWait, LockAwaken, WaitAgain, TypeOK, OwnersInTable
  <2>2. PairsInTable'
    BY <1>0, <1>2 DEF LockToWait, CondWait, LockAwaken, WaitAgain, PairsInTable, HasSlot, Used,
                      Info
  <2>3. QED
    BY <1>0, <1>2, <2>1, <2>2, ControlStep
    DEF LockToWait, CondWait, LockAwaken, WaitAgain, OwnersInTable
<1>3. CASE CheckResponse(c)
  <2> DEFINE id == response.resp_id_for_arbiter
  <2>1. /\ response.resp_pid = c /\ c # Nobody /\ c # Arbiter /\ pc[c] = "check"
        /\ pc' = [pc EXCEPT ![c] = "unlock"]
        /\ client' = [client EXCEPT ![c] =
              [id_for_arbiter |-> id, id_for_rmessages |-> response.resp_id_for_rmessages]]
        /\ UNCHANGED <<queue, response, a_pc, client_table, mes, new_id, senderVars, stdout>>
    BY <1>3, ArbiterAssumption DEF CheckResponse
  <2>2. a_pc \in {"broadcast", "spin"}
    BY <2>1 DEF RegistrationInv, ResponseFresh, ResponseIsGuarded, AckPending,
                AckIsForThisClient
  <2>3. /\ HasSlot(NameOf[c], id) /\ Issued(id, response.resp_id_for_rmessages)
        /\ \A d \in Clients \ {c} : client[d].id_for_arbiter # id
    BY <1>0, <2>1, <2>2 DEF PairsInTable, RegistrationInv, ResponseFresh
  <2>4. /\ client'[c] = [id_for_arbiter |-> id,
                         id_for_rmessages |-> response.resp_id_for_rmessages]
        /\ pc'[c] = "unlock"
        /\ \A d \in Clients \ {c} : client'[d] = client[d] /\ pc'[d] = pc[d]
    BY <2>1 DEF TypeOK
  <2>5. TableStartsEmpty' /\ SlotsApart'
    BY <2>1 DEF MessageInv, TableStartsEmpty, SlotsApart, Used, Info, Issued
  <2>6. OwnersInTable'
    BY <1>0, <2>1, <2>3, <2>4 DEF OwnersInTable, HasSlot, Used, Info, Owner, Issued
  <2>7. PairsInTable'
    BY <1>0, <2>1, <2>2, <2>3, <2>4 DEF PairsInTable, HasSlot, Used, Info
  <2>8. MessagesOK'
    BY <1>0, <2>1, <2>4 DEF MessagesOK, MessageOK, Asker, Resolves, Used, Info
  <2>9. Questions'
    BY <2>1, <2>4 DEF MessageInv, Questions, QuestionOf, Concerns, Asks, Answers, BeingAnswered,
                      Resolves, Used, Info, senderVars
  <2>10. DestinationsResolve' /\ SendersRun' /\ DeliveredToAddressee'
    BY <2>1, <2>4 DEF MessageInv, DestinationsResolve, SendersRun, DeliveredToAddressee,
                      Resolves, Used, Info, senderVars
  <2>11. QED
    BY <2>5, <2>6, <2>7, <2>8, <2>9, <2>10 DEF MessageInv
<1>4. CASE UnlockRegistered(c)
  <2>1. /\ pc[c] = "unlock" /\ pc'[c] = "ack" /\ \A d \in Clients \ {c} : pc'[d] = pc[d]
    BY <1>4 DEF UnlockRegistered, TypeOK
  <2>2. PairsInTable'
    BY <1>0, <1>4 DEF UnlockRegistered, PairsInTable, HasSlot, Used, Info
  <2>3. QED
    BY <1>0, <1>4, <2>1, <2>2, ControlStep DEF UnlockRegistered, OwnersInTable
<1>5. CASE AckResponse(c)
  <2>1. /\ pc[c] = "ack" /\ pc'[c] = "running" /\ sender_pc'[c] = "read"
        /\ \A d \in Clients \ {c} : pc'[d] = pc[d] /\ sender_pc'[d] = sender_pc[d]
        /\ response'.resp_pid = response.resp_pid
        /\ response'.resp_id_for_arbiter = response.resp_id_for_arbiter
        /\ UNCHANGED <<queue, a_pc, client_table, mes, new_id, client, dest_name, dest_id,
                       stdout>>
    BY <1>5 DEF AckResponse, TypeOK
  <2> DEFINE id == client[c].id_for_arbiter
  <2>2. TableStartsEmpty' /\ SlotsApart'
    BY <2>1 DEF MessageInv, TableStartsEmpty, SlotsApart, Used, Info, Issued
  <2>3. OwnersInTable' /\ PairsInTable'
    BY <1>0, <2>1 DEF OwnersInTable, PairsInTable, HasSlot, Used, Info, Owner
  <2>4. MessagesOK'
    BY <1>0, <2>1 DEF MessagesOK, MessageOK, Asker, Resolves, Used, Info
  <2>5. id # 0
    BY <2>1 DEF RegistrationInv, ClientIdsIssued, Registered, Issued
  <2>6. \A d \in Clients : ~Asker(d, id)
    BY <1>0, <2>1, <2>5 DEF Asker, OwnersInTable, Owner
  <2>7. /\ \A i \in 1..Len(queue) : ~Concerns(queue[i], id)
        /\ ~BeingAnswered(c)
    BY <1>0, <2>6 DEF MessagesOK, MessageOK, Concerns, Asks, Answers, BeingAnswered,
                      RequestMessages, TypeOK
  <2>8. QuestionOf(c)'
    BY <2>1, <2>7 DEF QuestionOf, Concerns, Asks, Answers, BeingAnswered
  <2>9. \A d \in Clients \ {c} : pc[d] = "running" => QuestionOf(d)'
    BY <2>1 DEF MessageInv, Questions, QuestionOf, Concerns, Asks, Answers, BeingAnswered,
                Resolves, Used, Info
  <2>10. Questions'
    BY <2>1, <2>8, <2>9 DEF Questions
  <2>11. DestinationsResolve' /\ SendersRun' /\ DeliveredToAddressee'
    BY <2>1 DEF MessageInv, DestinationsResolve, SendersRun, DeliveredToAddressee,
                Resolves, Used, Info
  <2>12. QED
    BY <2>2, <2>3, <2>4, <2>10, <2>11 DEF MessageInv
<1>6. QED
  BY <1>1, <1>2, <1>3, <1>4, <1>5 DEF RegisterStep

\* What stands under the first identifier of a registered client is an answer,
\* what stands under its second a text, because no other slot has either.
LEMMA TypesApart ==
    ASSUME TypeOK, RegistrationInv, MessageInv, NEW c \in Clients, Registered(c),
           NEW i \in 1..Len(queue)
    PROVE  /\ queue[i].type = client[c].id_for_arbiter => queue[i] \in RespondMessages
           /\ queue[i].type = client[c].id_for_rmessages =>
                  queue[i] \in TextMessages /\ queue[i].mes.to = NameOf[c]
<1> DEFINE id == client[c].id_for_arbiter
           m == queue[i]
<1>1. /\ id \in Nat /\ id > 1 /\ client[c].id_for_rmessages = id + 1
      /\ HasSlot(NameOf[c], id)
  BY DEF RegistrationInv, ClientIdsIssued, Issued, MessageInv, OwnersInTable, Owner, TypeOK, Ids
<1>2. PICK s \in Slots : /\ Used(s) /\ Info(s).client_name = NameOf[c]
                         /\ Info(s).id_for_arbiter = id /\ Info(s).id_for_rmessages = id + 1
  BY <1>1 DEF HasSlot, MessageInv, SlotsApart, Issued
<1>3. \A t \in Slots : Used(t) =>
          /\ Info(t).id_for_arbiter \in Nat
          /\ Info(t).id_for_arbiter # id + 1 /\ Info(t).id_for_arbiter + 1 # id
          /\ Info(t).id_for_rmessages = Info(t).id_for_arbiter + 1
          /\ Info(t).id_for_arbiter = id => t = s
  <2>1. \A t \in Slots : Info(t).id_for_arbiter \in Nat
    BY DEF Info, TypeOK, Table, Ids
  <2>2. QED
    BY <1>1, <1>2, <2>1 DEF MessageInv, SlotsApart, Issued, Apart
<1>4. m \in Message /\ MessageOK(m)
  BY QueueTypes DEF MessageInv, MessagesOK
<1>5. ASSUME m.type \in {id, id + 1} PROVE m \in RespondMessages \union TextMessages
  BY <1>1, <1>4, <1>5 DEF Message, AMessage, RegisterMessages, RequestMessages, RegularMessage,
                          kArbiterId
<1>6. ASSUME m \in RespondMessages PROVE m.type # id + 1
  <2>1. PICK d \in Clients : Asker(d, m.type)
    BY <1>4, <1>6 DEF MessageOK, RespondMessages
  <2>2. HasSlot(NameOf[d], m.type)
    BY <2>1 DEF Asker, MessageInv, OwnersInTable, Owner
  <2>3. QED
    BY <1>3, <2>2 DEF HasSlot
<1>7. ASSUME m \in TextMessages
      PROVE  m.type # id /\ (m.type = id + 1 => m.mes.to = NameOf[c])
  <2>1. m.type > 0 /\ Resolves(m.mes.to, m.type)
    BY <1>4, <1>7 DEF MessageOK, TextMessages, Ids
  <2>2. PICK t \in Slots : Used(t) /\ Info(t).client_name = m.mes.to
                           /\ Info(t).id_for_rmessages = m.type
    BY <2>1 DEF Resolves
  <2>3. QED
    BY <1>1, <1>2, <1>3, <2>2
<1>8. QED
  BY <1>1, <1>5, <1>6, <1>7

\* Asking, reading the answer and posting.
LEMMA SenderStepMessages ==
    ASSUME TypeOK, RegistrationInv, MessageInv, NEW c \in Clients, SenderStep(c)
    PROVE  MessageInv'
<1> DEFINE id == client[c].id_for_arbiter
<1> USE DEF SenderGoto, sharedVars, existVars, lockVars, tableVars, arbiterVars, dataVars,
            clientVars
<1>0. /\ PairsInTable /\ MessagesOK /\ OwnersInTable
      /\ UNCHANGED <<response, a_pc, client_table, mes, new_id, pc, client, dest_name, stdout>>
      /\ \A d \in Clients \ {c} : sender_pc'[d] = sender_pc[d] /\ dest_id'[d] = dest_id[d]
  BY DEF MessageInv, SenderStep, RequestDestId, ReceiveDestId, SendToReceiver, TypeOK
<1>1. /\ pc[c] = "running" /\ QuestionOf(c) /\ id > 1 /\ Owner(c) /\ Registered(c)
      /\ \A d \in Clients \ {c} : Registered(d) => client[d].id_for_arbiter # id
  <2>1. sender_pc[c] # "off"
    BY DEF SenderStep, RequestDestId, ReceiveDestId, SendToReceiver
  <2>2. pc[c] = "running" /\ QuestionOf(c) /\ Registered(c)
    BY <2>1 DEF MessageInv, SendersRun, Questions, Registered
  <2>3. id > 1 /\ Owner(c)
    BY <2>2 DEF RegistrationInv, ClientIdsIssued, Issued, Owner
  <2>4. ASSUME NEW d \in Clients \ {c}, Registered(d) PROVE client[d].id_for_arbiter # id
    BY <2>3, <2>4 DEF MessageInv, OwnersInTable, Owner, RegistrationInv, ClientIdsIssued, Issued
  <2>5. QED
    BY <2>2, <2>3, <2>4
<1>2. TableStartsEmpty' /\ SlotsApart' /\ OwnersInTable' /\ PairsInTable'
      /\ DeliveredToAddressee'
  BY <1>0 DEF MessageInv, TableStartsEmpty, SlotsApart, OwnersInTable, PairsInTable, HasSlot,
              Used, Info, Owner, Issued, DeliveredToAddressee
<1>3. SendersRun'
  BY <1>0, <1>1 DEF MessageInv, SendersRun
<1>4. \A d \in Clients : BeingAnswered(d)' <=> BeingAnswered(d)
  BY <1>0 DEF BeingAnswered
<1>5. \A d \in Clients : pc[d] = "running" => QuestionOf(d) /\ client[d].id_for_arbiter # 0
  BY DEF MessageInv, Questions, RegistrationInv, ClientIdsIssued, Registered, Issued
<1>6. MessageOK(mes) => MessageOK(mes)'
  BY <1>0 DEF MessageOK, Asker, Resolves, Used, Info
<1>7. CASE RequestDestId(c)
  <2> DEFINE m == [type |-> kArbiterId, policy |-> "request",
                   who_ask_id |-> id, dest_name |-> dest_name[c]]
  <2>1. /\ queue' = Append(queue, m) /\ sender_pc[c] = "ask" /\ sender_pc'[c] = "await"
        /\ dest_id' = dest_id
    BY <1>7 DEF RequestDestId, Send, ValidType, kArbiterId, TypeOK
  <2>2. MessageOK(m)
    BY <1>1 DEF MessageOK, Asker, Owner
  <2>3. /\ Asks(m, id) /\ ~Answers(m, id) /\ m.dest_name = dest_name[c]
        /\ \A x : x # id => ~Concerns(m, x)
    BY DEF Concerns, Asks, Answers
  <2> HIDE DEF m
  <2>4. MessagesOK'
    BY <1>0, <1>6, <2>1, <2>2, MessagesKeptBySend DEF MessagesOK
  <2>5. QuestionOf(c)'
    <3>1. /\ ~BeingAnswered(c) /\ \A i \in 1..Len(queue) : ~Concerns(queue[i], id)
      BY <1>1, <2>1 DEF QuestionOf
    <3>2. /\ Len(queue) \in Nat /\ Len(queue') = Len(queue) + 1
          /\ \A i \in 1..Len(queue) : queue'[i] = queue[i]
          /\ queue'[Len(queue) + 1] = m
      BY <2>1, QueueTypes
    <3>3. \A i \in 1..Len(queue') : Concerns(queue'[i], id) <=> i = Len(queue) + 1
      BY <2>3, <3>1, <3>2 DEF Concerns
    <3>4. Len(queue) + 1 \in 1..Len(queue')
      BY <3>2
    <3>5. QED
      BY <1>0, <1>4, <2>1, <2>3, <3>1, <3>2, <3>3, <3>4 DEF QuestionOf, Concerns, Asks, Answers
  <2>6. ASSUME NEW d \in Clients \ {c}, pc[d] = "running" PROVE QuestionOf(d)'
    BY <1>0, <1>1, <1>4, <1>5, <2>1, <2>3, <2>6, QuestionKeptBySend DEF Registered
  <2>7. Questions'
    BY <1>0, <2>5, <2>6 DEF Questions
  <2>8. DestinationsResolve'
    BY <1>0, <2>1 DEF MessageInv, DestinationsResolve, Resolves, Used, Info
  <2>9. QED
    BY <1>2, <1>3, <2>4, <2>7, <2>8 DEF MessageInv
<1>8. CASE ReceiveDestId(c)
  <2>1. Receive(id)
    BY <1>8 DEF ReceiveDestId
  <2>2. PICK k \in 1..Len(queue) : /\ Received(queue, id) = queue[k] /\ Matches(queue[k], id)
                                   /\ queue[k] \in Message /\ TakenAt(k)
    BY <2>1, ReceivePositions
  <2>3. queue[k].type = id /\ queue[k] \in RespondMessages
    BY <1>1, <2>2, TypesApart DEF Matches
  <2>4. /\ sender_pc[c] = "await" /\ sender_pc'[c] = "post"
        /\ dest_id'[c] = queue[k].dest_id
    BY <1>8, <2>2, <2>3 DEF ReceiveDestId, AsDestId, RespondMessages, TypeOK
  <2>5. Answers(queue[k], id) /\ Concerns(queue[k], id) /\ \A x : x # id => ~Concerns(queue[k], x)
    BY <2>3 DEF Answers, Asks, Concerns, RespondMessages
  <2>6. MessagesOK'
    BY <1>0, <1>6, <2>2, MessagesKeptByReceive DEF MessagesOK
  <2>7. QuestionOf(c)'
    <3>1. ~BeingAnswered(c) /\ \A i \in 1..Len(queue) \ {k} : ~Concerns(queue[i], id)
      BY <1>1, <2>5 DEF QuestionOf
    <3>2. \A i \in 1..Len(queue') : ~Concerns(queue'[i], id)
      BY <2>2, <3>1 DEF TakenAt
    <3>3. QED
      BY <1>0, <1>4, <2>4, <3>1, <3>2 DEF QuestionOf, Concerns, Asks, Answers
  <2>8. ASSUME NEW d \in Clients \ {c}, pc[d] = "running" PROVE QuestionOf(d)'
    BY <1>0, <1>1, <1>4, <1>5, <2>2, <2>5, <2>8, QuestionKeptByReceive DEF Registered
  <2>9. Questions'
    BY <1>0, <2>7, <2>8 DEF Questions
  <2>10. DestinationsResolve'
    <3>1. Resolves(dest_name[c], queue[k].dest_id)
      BY <1>1, <2>5 DEF QuestionOf
    <3>2. QED
      BY <1>0, <2>4, <3>1 DEF MessageInv, DestinationsResolve, Resolves, Used, Info
  <2>11. QED
    BY <1>2, <1>3, <2>6, <2>9, <2>10 DEF MessageInv
<1>9. CASE SendToReceiver(c)
  <2> DEFINE m == [type |-> dest_id[c], policy |-> "regular", mes |-> Typed(c)]
  <2>1. /\ sender_pc[c] = "post" /\ sender_pc'[c] = "read" /\ dest_id' = dest_id
    BY <1>9 DEF SendToReceiver, TypeOK
  <2>2. DestinationsResolve'
    BY <1>0, <2>1 DEF MessageInv, DestinationsResolve, Resolves, Used, Info
  <2>3. CASE queue' = queue
    <3>1. MessagesOK'
      BY <1>0, <2>3 DEF MessagesOK, MessageOK, Asker, Resolves, Used, Info
    <3>2. Questions'
      BY <1>0, <1>5, <2>1, <2>3
      DEF Questions, QuestionOf, Concerns, Asks, Answers, BeingAnswered, Resolves, Used, Info
    <3>3. QED
      BY <1>2, <1>3, <2>2, <3>1, <3>2 DEF MessageInv
  <2>4. CASE queue' = Append(queue, m)
    <3>1. MessageOK(m) /\ \A x : ~Concerns(m, x)
      BY <2>1 DEF MessageInv, DestinationsResolve, MessageOK, Typed, Concerns, Asks, Answers
    <3> HIDE DEF m
    <3>2. MessagesOK'
      BY <1>0, <1>6, <2>4, <3>1, MessagesKeptBySend DEF MessagesOK
    <3>3. ASSUME NEW d \in Clients \ {c}, pc[d] = "running" PROVE QuestionOf(d)'
      BY <1>0, <1>4, <1>5, <2>4, <3>1, <3>3, QuestionKeptBySend
    <3>4. QuestionOf(c)'
      <4>1. /\ ~BeingAnswered(c) /\ \A i \in 1..Len(queue) : ~Concerns(queue[i], id)
        BY <1>1, <2>1 DEF QuestionOf
      <4>2. \A i \in 1..Len(queue') : queue'[i] = m \/ (i \in 1..Len(queue) /\ queue'[i] = queue[i])
        BY <2>4, QueueTypes
      <4>3. \A i \in 1..Len(queue') : ~Concerns(queue'[i], id)
        BY <3>1, <4>1, <4>2
      <4>4. QED
        BY <1>0, <1>4, <2>1, <4>1, <4>3 DEF QuestionOf, Concerns, Asks, Answers
    <3>5. Questions'
      BY <1>0, <3>3, <3>4 DEF Questions
    <3>6. QED
      BY <1>2, <1>3, <2>2, <3>2, <3>5 DEF MessageInv
  <2>5. QED
    BY <1>9, <2>3, <2>4 DEF SendToReceiver, Send
<1>10. QED
  BY <1>7, <1>8, <1>9 DEF SenderStep

\* The reader prints one text, which was meant for a bearer of its client's name.
LEMMA ReaderStepMessages ==
    ASSUME TypeOK, RegistrationInv, MessageInv, NEW c \in Clients, ReaderThreadTask(c)
    PROVE  MessageInv'
<1> DEFINE id == client[c].id_for_rmessages
<1>0. /\ pc[c] = "running" /\ Registered(c) /\ Receive(id) /\ id > 0
      /\ UNCHANGED <<response, a_pc, client_table, mes, new_id, pc, client, senderVars>>
      /\ stdout' = [stdout EXCEPT ![c] = Append(@, Received(queue, id))]
  BY DEF ReaderThreadTask, Registered, RegistrationInv, ClientIdsIssued, Issued, sharedVars,
         arbiterVars, tableVars, TypeOK, Ids
<1>1. PICK k \in 1..Len(queue) : /\ Received(queue, id) = queue[k] /\ Matches(queue[k], id)
                                 /\ queue[k] \in Message /\ TakenAt(k)
  BY <1>0, ReceivePositions
<1>2. queue[k] \in TextMessages /\ queue[k].mes.to = NameOf[c]
  BY <1>0, <1>1, TypesApart DEF Matches
<1>3. queue[k].policy = "regular" /\ \A x : ~Concerns(queue[k], x)
  BY <1>2 DEF TextMessages, Concerns, Asks, Answers
<1>4. TableStartsEmpty' /\ SlotsApart' /\ OwnersInTable' /\ PairsInTable'
      /\ DestinationsResolve' /\ SendersRun'
  BY <1>0 DEF MessageInv, TableStartsEmpty, SlotsApart, OwnersInTable, PairsInTable, HasSlot,
              Used, Info, Owner, Issued, DestinationsResolve, SendersRun, Resolves, senderVars
<1>5. MessagesOK'
  <2>1. \A i \in 1..Len(queue') : MessageOK(queue[i])'
    BY <1>0, <1>1, MessagesKeptByReceive DEF MessageInv
  <2>2. QED
    BY <1>0, <2>1 DEF MessageInv, MessagesOK, MessageOK, Asker, Resolves, Used, Info
<1>6. ASSUME NEW d \in Clients, pc[d] = "running" PROVE QuestionOf(d)'
  <2>1. QuestionOf(d) /\ (BeingAnswered(d)' <=> BeingAnswered(d))
    BY <1>0, <1>6 DEF MessageInv, Questions, BeingAnswered
  <2>2. QED
    BY <1>0, <1>1, <1>3, <2>1, QuestionKeptByReceive DEF senderVars
<1>7. Questions'
  BY <1>0, <1>6 DEF Questions
<1>8. DeliveredToAddressee'
  <2>1. \A d \in Clients \ {c} : stdout'[d] = stdout[d]
    BY <1>0 DEF TypeOK
  <2>2. stdout'[c] = Append(stdout[c], queue[k]) /\ stdout[c] \in Seq(Message)
    BY <1>0, <1>1 DEF TypeOK, Message
  <2>3. ASSUME NEW m \in Range(stdout'[c]) PROVE m.policy = "regular" /\ m.mes.to = NameOf[c]
    <3>1. m = queue[k] \/ m \in Range(stdout[c])
      BY <2>2, <2>3 DEF Range
    <3>2. QED
      BY <1>2, <1>3, <3>1 DEF MessageInv, DeliveredToAddressee
  <2>4. QED
    BY <2>1, <2>3 DEF MessageInv, DeliveredToAddressee
<1>9. QED
  BY <1>4, <1>5, <1>7, <1>8 DEF MessageInv

\* Attaching, typing, waking up unasked and dying change no message.
LEMMA EnvironmentStepMessages ==
    ASSUME TypeOK, RegistrationInv, MessageInv, MaxRestarts = 0, EnvironmentStep
    PROVE  MessageInv'
<1> USE DEF ClientGoto, SenderGoto, sharedVars, existVars, lockVars, tableVars, arbiterVars,
            dataVars, clientVars
<1>0. PairsInTable /\ MessagesOK /\ OwnersInTable
  BY DEF MessageInv
<1>1. ~KillArbiter
  BY DEF KillArbiter, TypeOK
<1>2. ASSUME NEW c \in Clients, AttachClient(c) \/ SpuriousWake(c) PROVE MessageInv'
  <2>1. /\ pc[c] \in {"start", "blocked"} /\ ~Owner(c)
        /\ pc'[c] \in {"register", "exited", "relock"}
        /\ \A d \in Clients \ {c} : pc'[d] = pc[d]
    BY <1>0, <1>2 DEF AttachClient, SpuriousWake, TypeOK, OwnersInTable
  <2>2. PairsInTable'
    BY <1>0, <1>2 DEF AttachClient, SpuriousWake, PairsInTable, HasSlot, Used, Info
  <2>3. QED
    BY <1>0, <1>2, <2>1, <2>2, ControlStep DEF AttachClient, SpuriousWake, OwnersInTable
<1>3. ASSUME NEW c \in Clients, ReadLine(c) \/ EndOfInput(c) PROVE MessageInv'
  <2>1. /\ sender_pc[c] = "read" /\ sender_pc'[c] \in {"ask", "done"} /\ dest_id' = dest_id
        /\ \A d \in Clients \ {c} : sender_pc'[d] = sender_pc[d] /\ dest_name'[d] = dest_name[d]
        /\ UNCHANGED <<queue, response, a_pc, client_table, mes, new_id, pc, client, stdout>>
    BY <1>3 DEF ReadLine, EndOfInput, TypeOK
  <2>2. TableStartsEmpty' /\ SlotsApart' /\ OwnersInTable' /\ PairsInTable' /\ MessagesOK'
        /\ DeliveredToAddressee'
    BY <2>1 DEF MessageInv, TableStartsEmpty, SlotsApart, OwnersInTable, PairsInTable, HasSlot,
                Used, Info, Owner, Issued, MessagesOK, MessageOK, Asker, Resolves,
                DeliveredToAddressee
  <2>3. DestinationsResolve' /\ SendersRun'
    BY <2>1 DEF MessageInv, DestinationsResolve, SendersRun, Resolves, Used, Info
  <2>4. Questions'
    BY <2>1 DEF MessageInv, Questions, QuestionOf, Concerns, Asks, Answers, BeingAnswered,
                Resolves, Used, Info
  <2>5. QED
    BY <2>2, <2>3, <2>4 DEF MessageInv
<1>4. ASSUME NEW c \in Clients, KillClient(c) PROVE MessageInv'
  <2>1. /\ pc'[c] = "killed" /\ sender_pc'[c] = "off"
        /\ \A d \in Clients \ {c} : pc'[d] = pc[d] /\ sender_pc'[d] = sender_pc[d]
        /\ UNCHANGED <<queue, response, a_pc, client_table, mes, new_id, client, dest_name,
                       dest_id, stdout>>
    BY <1>4 DEF KillClient, TypeOK
  <2>2. TableStartsEmpty' /\ SlotsApart' /\ DeliveredToAddressee'
    BY <2>1 DEF MessageInv, TableStartsEmpty, SlotsApart, Used, Info, Issued,
                DeliveredToAddressee
  <2>3. OwnersInTable' /\ PairsInTable'
    BY <1>0, <2>1 DEF OwnersInTable, PairsInTable, HasSlot, Used, Info, Owner
  <2>4. MessagesOK'
    <3>1. \A d \in Clients : \A x : Asker(d, x) => Asker(d, x)'
      BY <2>1 DEF Asker
    <3>2. \A name, x : Resolves(name, x)' <=> Resolves(name, x)
      BY <2>1 DEF Resolves, Used, Info
    <3>3. QED
      BY <1>0, <2>1, <3>1, <3>2 DEF MessagesOK, MessageOK
  <2>5. DestinationsResolve' /\ SendersRun'
    BY <2>1 DEF MessageInv, DestinationsResolve, SendersRun, Resolves, Used, Info
  <2>6. Questions'
    BY <2>1 DEF MessageInv, Questions, QuestionOf, Concerns, Asks, Answers, BeingAnswered,
                Resolves, Used, Info
  <2>7. QED
    BY <2>2, <2>3, <2>4, <2>5, <2>6 DEF MessageInv
<1>5. QED
  BY <1>1, <1>2, <1>3, <1>4 DEF EnvironmentStep

LEMMA MessageStutter == MessageInv /\ UNCHANGED vars => MessageInv'
  BY DEF vars, sharedVars, existVars, lockVars, tableVars, arbiterVars, dataVars, clientVars,
         peerVars, senderVars, MessageInv, TableStartsEmpty, SlotsApart, OwnersInTable,
         PairsInTable, HasSlot, Used, Info, Owner, Issued, MessagesOK, MessageOK, Asker, Resolves,
         Questions, QuestionOf, Concerns, Asks, Answers, BeingAnswered, DestinationsResolve,
         SendersRun, DeliveredToAddressee

\* The invariant is inductive next to the types and the registration.
LEMMA MessageInductive ==
    ASSUME TypeOK, RegistrationInv, MessageInv, MaxRestarts = 0, [Next]_vars
    PROVE  MessageInv'
<1>1. CASE ArbiterStep
  BY <1>1, ListenMessages, AddClientMessages, SendDestIdMessages, ArbiterControlMessages
<1>2. CASE EnvironmentStep
  BY <1>2, EnvironmentStepMessages
<1>3. ASSUME NEW c \in Clients, RegisterStep(c) \/ SenderStep(c) \/ ReaderThreadTask(c)
      PROVE  MessageInv'
  BY <1>3, RegisterStepMessages, SenderStepMessages, ReaderStepMessages
<1>4. QED
  BY <1>1, <1>2, <1>3, MessageStutter DEF Next

-----------------------------------------------------------------------------
\* What the invariant means for the clients.

LEMMA MatchesTable == TypeOK /\ RegistrationInv /\ MessageInv => RegistrationMatchesTable
<1> SUFFICES ASSUME TypeOK, RegistrationInv, MessageInv, NEW c \in Clients, Registered(c)
             PROVE  \E i \in Slots :
                        /\ Info(i).client_name = NameOf[c]
                        /\ Info(i).id_for_arbiter = client[c].id_for_arbiter
                        /\ Info(i).id_for_rmessages = client[c].id_for_rmessages
  BY DEF RegistrationMatchesTable, Info
<1>1. Issued(client[c].id_for_arbiter, client[c].id_for_rmessages)
  BY DEF RegistrationInv, ClientIdsIssued
<1>2. PICK i \in Slots : /\ Used(i) /\ Info(i).client_name = NameOf[c]
                         /\ Info(i).id_for_arbiter = client[c].id_for_arbiter
  BY <1>1 DEF MessageInv, OwnersInTable, Owner, HasSlot, Issued
<1>3. Info(i).id_for_rmessages = client[c].id_for_rmessages
  BY <1>1, <1>2 DEF MessageInv, SlotsApart, Issued
<1>4. QED
  BY <1>2, <1>3

LEMMA Unmixed == TypeOK /\ RegistrationInv /\ MessageInv => NoMixups
<1> SUFFICES ASSUME TypeOK, RegistrationInv, MessageInv, NEW c \in Clients, Registered(c),
                    NEW i \in DOMAIN queue
             PROVE  /\ queue[i].type = client[c].id_for_arbiter => queue[i].policy = "respond"
                    /\ queue[i].type = client[c].id_for_rmessages => queue[i].policy = "regular"
  BY DEF NoMixups
<1>1. i \in 1..Len(queue)
  BY QueueTypes
<1>2. QED
  BY <1>1, TypesApart DEF RespondMessages, TextMessages

\* Positions that are all the same one are at most one.
LEMMA AtMostOnePosition ==
    ASSUME NEW P, NEW i \in P, \A j \in P : i = j
    PROVE  P = {i} /\ Cardinality(P) = 1
<1>1. P = {i}
  OBVIOUS
<1>2. QED
  BY <1>1, FS_Singleton

LEMMA OneQuestion == TypeOK /\ RegistrationInv /\ MessageInv => OneQuestionUnderWay
<1> SUFFICES ASSUME TypeOK, MessageInv, NEW c \in Clients, pc[c] = "running"
             PROVE  Cardinality(RequestsOf(c)) + Cardinality(RepliesTo(c))
                        + (IF BeingAnswered(c) THEN 1 ELSE 0)
                    = IF sender_pc[c] = "await" THEN 1 ELSE 0
  BY DEF OneQuestionUnderWay
<1> DEFINE id == client[c].id_for_arbiter
<1>1. QuestionOf(c)
  BY DEF MessageInv, Questions
<1>2. /\ \A i : i \in RequestsOf(c) <=> i \in 1..Len(queue) /\ Asks(queue[i], id)
      /\ \A i : i \in RepliesTo(c) <=> i \in 1..Len(queue) /\ Answers(queue[i], id)
  BY QueueTypes DEF RequestsOf, RepliesTo, Asks, Answers
<1>3. Cardinality({}) = 0
  BY FS_EmptySet
<1>4. CASE \A i \in 1..Len(queue) : ~Concerns(queue[i], id)
  <2>1. RequestsOf(c) = {} /\ RepliesTo(c) = {}
    BY <1>2, <1>4 DEF Concerns
  <2>2. BeingAnswered(c) <=> sender_pc[c] = "await"
    BY <1>1, <1>4 DEF QuestionOf
  <2>3. QED
    BY <1>3, <2>1, <2>2
<1>5. CASE \E i \in 1..Len(queue) : Concerns(queue[i], id)
  <2>1. PICK i \in 1..Len(queue) : Concerns(queue[i], id)
    BY <1>5
  <2>2. /\ sender_pc[c] = "await" /\ ~BeingAnswered(c)
        /\ \A j \in 1..Len(queue) : Concerns(queue[j], id) => i = j
    BY <1>1, <2>1 DEF QuestionOf
  <2>3. CASE Asks(queue[i], id)
    <3>1. ~Answers(queue[i], id)
      BY <2>3 DEF Asks, Answers
    <3>2. RepliesTo(c) = {} /\ i \in RequestsOf(c) /\ \A j \in RequestsOf(c) : i = j
      BY <1>2, <2>1, <2>2, <2>3, <3>1 DEF Concerns
    <3>3. Cardinality(RequestsOf(c)) = 1
      BY <3>2, AtMostOnePosition
    <3>4. QED
      BY <1>3, <2>2, <3>2, <3>3
  <2>4. CASE ~Asks(queue[i], id)
    <3>1. RequestsOf(c) = {} /\ i \in RepliesTo(c) /\ \A j \in RepliesTo(c) : i = j
      BY <1>2, <2>1, <2>2, <2>4 DEF Concerns
    <3>2. Cardinality(RepliesTo(c)) = 1
      BY <3>1, AtMostOnePosition
    <3>3. QED
      BY <1>3, <2>2, <3>1, <3>2
  <2>5. QED
    BY <2>3, <2>4
<1>6. QED
  BY <1>4, <1>5

\* The three invariants hold together in every reachable state.
LEMMA Invariants ==
    ASSUME ~EagerStart, MaxRestarts = 0
    PROVE  Spec => [](TypeOK /\ RegistrationInv /\ MessageInv)
<1>1. Init => TypeOK /\ RegistrationInv /\ MessageInv
  BY InitType, RegistrationInit, MessageInit
<1>2. TypeOK /\ RegistrationInv /\ MessageInv /\ [Next]_vars
        => (TypeOK /\ RegistrationInv /\ MessageInv)'
  BY RegistrationInductive, TypeStep, MessageInductive
<1>3. QED
  BY <1>1, <1>2, PTL DEF Spec

\* What a client takes for its identifiers is what the arbiter's table tells the
\* others under its name (client_table.c:61-72, main_client.c:224-228).
THEOREM MatchingTable ==
    ASSUME ~EagerStart, MaxRestarts = 0
    PROVE  Spec => []RegistrationMatchesTable
  BY Invariants, MatchesTable, PTL

\* Answers and texts never arrive under each other's identifiers
\* (main_client.c:258-262, 280-284).
THEOREM NeverMixed ==
    ASSUME ~EagerStart, MaxRestarts = 0
    PROVE  Spec => []NoMixups
  BY Invariants, Unmixed, PTL

\* A sender that waits has one question under way, one that does not has none
\* (main_client.c:240-262, main_arbiter.c:236-261).
THEOREM OneQuestionAtATime ==
    ASSUME ~EagerStart, MaxRestarts = 0
    PROVE  Spec => []OneQuestionUnderWay
  BY Invariants, OneQuestion, PTL

\* A text is printed only by a client that bears the name it was typed for.
THEOREM Delivered ==
    ASSUME ~EagerStart, MaxRestarts = 0
    PROVE  Spec => []DeliveredToAddressee
<1>1. MessageInv => DeliveredToAddressee
  BY DEF MessageInv
<1>2. QED
  BY <1>1, Invariants, PTL

-----------------------------------------------------------------------------
\* Texts, whatever dies and however the processes start: a text of an earlier
\* line than its sender's present one, and never two alike.

Text(m) == m.policy = "regular"

Written(m) == Text(m) =>
    /\ m.mes.n <= lines[m.mes.from]
    /\ sender_pc[m.mes.from] \in {"ask", "await", "post"} => m.mes.n < lines[m.mes.from]

Alike(m1, m2) == Text(m1) /\ Text(m2) /\ m1.mes = m2.mes

TextsWritten ==
    /\ \A i \in 1..Len(queue) : Written(queue[i])
    /\ \A c \in Clients : \A i \in 1..Len(stdout[c]) : Written(stdout[c][i])

NoneAlike ==
    /\ \A i, j \in 1..Len(queue) : i # j => ~Alike(queue[i], queue[j])
    /\ \A c \in Clients : \A i \in 1..Len(stdout[c]), j \in 1..Len(queue) :
          ~Alike(stdout[c][i], queue[j])
    /\ \A c, d \in Clients : \A i \in 1..Len(stdout[c]), j \in 1..Len(stdout[d]) :
          c # d \/ i # j => ~Alike(stdout[c][i], stdout[d][j])

TextsInv == TextsWritten /\ NoneAlike

LEMMA TextsInit == Init => TextsInv
  BY DEF Init, TextsInv, TextsWritten, NoneAlike

\* A step that moves no message and no sender into the middle of a line.
LEMMA TextsFrame ==
    ASSUME TextsInv, TypeOK, UNCHANGED <<queue, stdout, lines>>,
           \A c \in Clients : sender_pc'[c] \in {"ask", "await", "post"} =>
                sender_pc[c] \in {"ask", "await", "post"}
    PROVE  TextsInv'
<1>1. \A m \in Message : Written(m) => Written(m)'
  BY DEF Written, Text, Message, AMessage, RegisterMessages, RequestMessages, RegularMessage,
         RespondMessages, TextMessages, Texts
<1>2. /\ \A i \in 1..Len(queue) : queue[i] \in Message
      /\ \A c \in Clients : \A i \in 1..Len(stdout[c]) : stdout[c][i] \in Message
  BY DEF TypeOK, Message
<1>3. /\ \A i \in 1..Len(queue) : Written(queue[i])'
      /\ \A c \in Clients : \A i \in 1..Len(stdout[c]) : Written(stdout[c][i])'
  BY <1>1, <1>2 DEF TextsInv, TextsWritten
<1>4. QED
  BY <1>3 DEF TextsInv, TextsWritten, NoneAlike, Alike, Text

\* A message taken out of the queue and, if print says so, printed by c.
LEMMA TextsReceived ==
    ASSUME TextsInv, TypeOK, NEW k \in 1..Len(queue), TakenAt(k), queue[k] \in Message,
           UNCHANGED lines, NEW c \in Clients,
           stdout' = stdout \/ stdout' = [stdout EXCEPT ![c] = Append(@, queue[k])],
           \A d \in Clients : sender_pc'[d] \in {"ask", "await", "post"} =>
                sender_pc[d] \in {"ask", "await", "post"}
    PROVE  TextsInv'
<1>1. \A m \in Message : Written(m) => Written(m)'
  BY DEF Written, Text, Message, AMessage, RegisterMessages, RequestMessages, RegularMessage,
         RespondMessages, TextMessages, Texts
<1>2. /\ \A i \in 1..Len(queue) : queue[i] \in Message
      /\ \A d \in Clients : \A i \in 1..Len(stdout[d]) : stdout[d][i] \in Message
  BY DEF TypeOK, Message
<1>3. /\ \A d \in Clients \ {c} : stdout'[d] = stdout[d]
      /\ \A i \in 1..Len(stdout'[c]) :
            \/ i \in 1..Len(stdout[c]) /\ stdout'[c][i] = stdout[c][i]
            \/ i = Len(stdout[c]) + 1 /\ stdout'[c][i] = queue[k]
      /\ Len(stdout[c]) \in Nat
  BY DEF TypeOK
<1>4. \A i \in 1..Len(queue') : \E j \in 1..Len(queue) \ {k} : queue'[i] = queue[j]
  BY DEF TakenAt
<1>5. TextsWritten'
  <2>1. \A i \in 1..Len(queue') : Written(queue[i])'
    BY <1>1, <1>2, <1>4 DEF TextsInv, TextsWritten
  <2>2. ASSUME NEW d \in Clients, NEW i \in 1..Len(stdout'[d]) PROVE Written(stdout[d][i])'
    BY <1>1, <1>2, <1>3 DEF TextsInv, TextsWritten
  <2>3. QED
    BY <2>1, <2>2 DEF TextsWritten
<1>6. NoneAlike'
  <2>1. ASSUME NEW i \in 1..Len(queue'), NEW j \in 1..Len(queue'), i # j
        PROVE  ~Alike(queue'[i], queue'[j])
    <3>1. PICK i1 \in 1..Len(queue) \ {k}, j1 \in 1..Len(queue) \ {k} :
              i1 # j1 /\ queue'[i] = queue[i1] /\ queue'[j] = queue[j1]
      BY <2>1 DEF TakenAt
    <3>2. QED
      BY <3>1 DEF TextsInv, NoneAlike
  <2>2. ASSUME NEW d \in Clients, NEW i \in 1..Len(stdout'[d]), NEW j \in 1..Len(queue')
        PROVE  ~Alike(stdout'[d][i], queue'[j])
    <3>1. PICK j1 \in 1..Len(queue) \ {k} : queue'[j] = queue[j1]
      BY <1>4
    <3>2. stdout'[d][i] = queue[k] \/ (i \in 1..Len(stdout[d]) /\ stdout'[d][i] = stdout[d][i])
      BY <1>3
    <3>3. ~Alike(queue[k], queue[j1])
      BY <3>1 DEF TextsInv, NoneAlike
    <3>4. i \in 1..Len(stdout[d]) => ~Alike(stdout[d][i], queue[j1])
      BY <3>1 DEF TextsInv, NoneAlike
    <3>5. QED
      BY <3>1, <3>2, <3>3, <3>4
  <2>3. ASSUME NEW d \in Clients, NEW e \in Clients,
               NEW i \in 1..Len(stdout'[d]), NEW j \in 1..Len(stdout'[e]), d # e \/ i # j
        PROVE  ~Alike(stdout'[d][i], stdout'[e][j])
    <3>1. \/ i \in 1..Len(stdout[d]) /\ stdout'[d][i] = stdout[d][i]
          \/ d = c /\ i = Len(stdout[c]) + 1 /\ stdout'[d][i] = queue[k]
      BY <1>3
    <3>2. \/ j \in 1..Len(stdout[e]) /\ stdout'[e][j] = stdout[e][j]
          \/ e = c /\ j = Len(stdout[c]) + 1 /\ stdout'[e][j] = queue[k]
      BY <1>3
    <3>3. \A m1, m2 : Alike(m1, m2) <=> Alike(m2, m1)
      BY DEF Alike
    <3>4. QED
      BY <2>3, <3>1, <3>2, <3>3 DEF TextsInv, NoneAlike
  <2>4. QED
    BY <2>1, <2>2, <2>3 DEF NoneAlike, Alike, Text
<1>7. QED
  BY <1>5, <1>6 DEF TextsInv

\* A message sent is no text, or one of a line no text in the system has.
LEMMA TextsSent ==
    ASSUME TextsInv, TypeOK, NEW m, queue' = Append(queue, m), UNCHANGED <<lines, stdout>>,
           Text(m) => Written(m)' /\ \A old \in Message : Written(old) => ~Alike(old, m),
           \A d \in Clients : sender_pc'[d] \in {"ask", "await", "post"} =>
                sender_pc[d] \in {"ask", "await", "post"}
    PROVE  TextsInv'
<1>1. \A old \in Message : Written(old) => Written(old)'
  BY DEF Written, Text, Message, AMessage, RegisterMessages, RequestMessages, RegularMessage,
         RespondMessages, TextMessages, Texts
<1>2. /\ \A i \in 1..Len(queue) : queue[i] \in Message /\ Written(queue[i])
      /\ \A d \in Clients : \A i \in 1..Len(stdout[d]) :
            stdout[d][i] \in Message /\ Written(stdout[d][i])
  BY DEF TypeOK, Message, TextsInv, TextsWritten
<1>3. \A i \in 1..Len(queue') : \/ i \in 1..Len(queue) /\ queue'[i] = queue[i]
                                \/ i = Len(queue) + 1 /\ queue'[i] = m
  BY QueueTypes
<1>4. Written(m)'
  BY DEF Written, Text
<1>5. TextsWritten'
  <2>1. \A i \in 1..Len(queue') : Written(queue[i])'
    BY <1>1, <1>2, <1>3, <1>4
  <2>2. \A d \in Clients : \A i \in 1..Len(stdout[d]) : Written(stdout[d][i])'
    BY <1>1, <1>2
  <2>3. QED
    BY <2>1, <2>2 DEF TextsWritten
<1>6. /\ \A old \in Message : Written(old) => ~Alike(old, m) /\ ~Alike(m, old)
      /\ \A m1, m2 : Alike(m1, m2) <=> Alike(m2, m1)
  BY DEF Alike
<1>7. NoneAlike'
  <2>1. \A i, j \in 1..Len(queue') : i # j => ~Alike(queue'[i], queue'[j])
    BY <1>2, <1>3, <1>6 DEF TextsInv, NoneAlike
  <2>2. \A d \in Clients : \A i \in 1..Len(stdout[d]), j \in 1..Len(queue') :
            ~Alike(stdout[d][i], queue'[j])
    BY <1>2, <1>3, <1>6 DEF TextsInv, NoneAlike
  <2>3. QED
    BY <2>1, <2>2 DEF TextsInv, NoneAlike, Alike, Text
<1>8. QED
  BY <1>5, <1>7 DEF TextsInv

LEMMA TextsInductive == TypeOK /\ TextsInv /\ [Next]_vars => TextsInv'
<1> SUFFICES ASSUME TypeOK, TextsInv, [Next]_vars PROVE TextsInv'
  OBVIOUS
<1> USE DEF sharedVars, existVars, lockVars, tableVars, arbiterVars, dataVars, clientVars,
            peerVars, senderVars
<1>1. CASE ListenOnMessages
  <2>1. Receive(kArbiterId) /\ UNCHANGED <<stdout, lines, sender_pc>>
    BY <1>1 DEF ListenOnMessages
  <2>2. PICK k \in 1..Len(queue) : queue[k] \in Message /\ TakenAt(k)
    BY <2>1, ReceivePositions
  <2>3. CASE Clients = {}
    <3>1. \A i \in 1..Len(queue') : \E j \in 1..Len(queue) \ {k} : queue'[i] = queue[j]
      BY <2>2 DEF TakenAt
    <3>2. \A m \in Message : ~Text(m)
      BY <2>3 DEF Text, Message, AMessage, RegisterMessages, RequestMessages, RegularMessage,
                  RespondMessages, TextMessages, Texts
    <3>3. QED
      BY <2>3, <3>1, <3>2, QueueTypes DEF TextsInv, TextsWritten, NoneAlike, Written, Alike, Text
  <2>4. QED
    BY <2>1, <2>2, <2>3, TextsReceived
<1>2. CASE SendDestId
  <2> DEFINE m == [type |-> mes.who_ask_id, policy |-> "respond",
                   dest_id |-> GetIdForRMessagesFromName(client_table, mes.dest_name)]
  <2>1. ~Text(m) /\ UNCHANGED <<stdout, lines, sender_pc>>
    BY <1>2 DEF SendDestId, Text
  <2>2. queue' = queue \/ queue' = Append(queue, m)
    BY <1>2 DEF SendDestId, Send
  <2> HIDE DEF m
  <2>3. QED
    BY <2>1, <2>2, TextsFrame, TextsSent
<1>3. CASE ArbiterStep /\ ~ListenOnMessages /\ ~SendDestId
  BY <1>3, TextsFrame
  DEF ArbiterStep, GetQueue, GetShmem, InitLocks, InitResponseIds, FinishInit, AddClient,
      AbortOnFullTable, LockToRespond, FillPid, FillIds, UnlockFilled, Broadcast,
      SpinOnClientResp, LockToClear, ClearResponse, UnlockCleared
<1>4. ASSUME NEW c \in Clients, SendRegister(c) PROVE TextsInv'
  <2> DEFINE m == [type |-> kArbiterId, policy |-> "register",
                   client_pid |-> c, client_name |-> NameOf[c]]
  <2>1. ~Text(m) /\ UNCHANGED <<stdout, lines, sender_pc>>
    BY <1>4 DEF SendRegister, Text
  <2>2. queue' = Append(queue, m)
    BY <1>4 DEF SendRegister, Send, ValidType, kArbiterId
  <2> HIDE DEF m
  <2>3. QED
    BY <2>1, <2>2, TextsSent
<1>5. ASSUME NEW c \in Clients, RegisterStep(c), ~SendRegister(c) PROVE TextsInv'
  BY <1>5, TextsFrame
  DEF RegisterStep, LockToWait, CondWait, LockAwaken, CheckResponse, WaitAgain,
      UnlockRegistered, AckResponse, TypeOK
<1>6. ASSUME NEW c \in Clients, RequestDestId(c) PROVE TextsInv'
  <2> DEFINE m == [type |-> kArbiterId, policy |-> "request",
                   who_ask_id |-> client[c].id_for_arbiter, dest_name |-> dest_name[c]]
  <2>1. ~Text(m) /\ UNCHANGED <<stdout, lines>> /\ sender_pc[c] = "ask"
        /\ \A d \in Clients \ {c} : sender_pc'[d] = sender_pc[d]
    BY <1>6 DEF RequestDestId, SenderGoto, Text, TypeOK
  <2>2. queue' = Append(queue, m)
    BY <1>6 DEF RequestDestId, Send, ValidType, kArbiterId
  <2> HIDE DEF m
  <2>3. QED
    BY <2>1, <2>2, TextsSent
<1>7. ASSUME NEW c \in Clients, ReceiveDestId(c) PROVE TextsInv'
  <2>1. Receive(client[c].id_for_arbiter) /\ UNCHANGED <<stdout, lines>>
        /\ sender_pc[c] = "await" /\ \A d \in Clients \ {c} : sender_pc'[d] = sender_pc[d]
    BY <1>7 DEF ReceiveDestId, SenderGoto, TypeOK
  <2>2. PICK k \in 1..Len(queue) : queue[k] \in Message /\ TakenAt(k)
    BY <2>1, ReceivePositions
  <2>3. QED
    BY <2>1, <2>2, TextsReceived
<1>8. ASSUME NEW c \in Clients, SendToReceiver(c) PROVE TextsInv'
  <2>1. PICK m : m = [type |-> dest_id[c], policy |-> "regular", mes |-> Typed(c)]
    OBVIOUS
  <2>2. /\ UNCHANGED <<stdout, lines>> /\ sender_pc[c] = "post" /\ sender_pc'[c] = "read"
        /\ \A d \in Clients \ {c} : sender_pc'[d] = sender_pc[d]
    BY <1>8 DEF SendToReceiver, SenderGoto, TypeOK
  <2>3. queue' = queue \/ queue' = Append(queue, m)
    BY <1>8, <2>1 DEF SendToReceiver, Send
  <2>4. m.mes.from = c /\ m.mes.n = lines[c] /\ lines[c] \in Nat
    BY <2>1 DEF Typed, TypeOK
  <2>5. Written(m)'
    BY <2>2, <2>4 DEF Written
  <2>6. ASSUME NEW old \in Message, Written(old), Alike(old, m) PROVE FALSE
    <3>1. old.mes.from = c /\ old.mes.n < lines[c]
      BY <2>2, <2>4, <2>6 DEF Written, Alike
    <3>2. old.mes.n = lines[c]
      BY <2>4, <2>6 DEF Alike
    <3>3. QED
      BY <2>4, <3>1, <3>2
  <2>7. CASE queue' = queue
    BY <2>2, <2>7, TextsFrame
  <2>8. CASE queue' = Append(queue, m)
    BY <2>2, <2>5, <2>6, <2>8, TextsSent
  <2>9. QED
    BY <2>3, <2>7, <2>8
<1>9. ASSUME NEW c \in Clients, ReaderThreadTask(c) PROVE TextsInv'
  <2> DEFINE id == client[c].id_for_rmessages
  <2>1. /\ Receive(id) /\ UNCHANGED <<lines, sender_pc>>
        /\ stdout' = [stdout EXCEPT ![c] = Append(@, Received(queue, id))]
    BY <1>9 DEF ReaderThreadTask
  <2>2. PICK k \in 1..Len(queue) : /\ Received(queue, id) = queue[k]
                                   /\ queue[k] \in Message /\ TakenAt(k)
    BY <2>1, ReceivePositions
  <2>3. QED
    BY <2>1, <2>2, TextsReceived
<1>10. ASSUME NEW c \in Clients, ReadLine(c) PROVE TextsInv'
  <2>1. /\ UNCHANGED <<queue, stdout>> /\ lines'[c] = lines[c] + 1 /\ lines[c] \in Nat
        /\ \A d \in Clients \ {c} : lines'[d] = lines[d] /\ sender_pc'[d] = sender_pc[d]
    BY <1>10 DEF ReadLine, SenderGoto, TypeOK
  <2>2. \A m \in Message : Written(m) => Written(m)'
    <3>1. SUFFICES ASSUME NEW m \in TextMessages, Written(m) PROVE Written(m)'
      BY DEF Written, Text, Message, AMessage, RegisterMessages, RequestMessages, RegularMessage,
             RespondMessages
    <3>2. m.mes.from \in Clients /\ m.mes.n \in Nat
      BY DEF TextMessages, Texts
    <3>3. CASE m.mes.from = c
      BY <2>1, <3>1, <3>2, <3>3 DEF Written, Text
    <3>4. CASE m.mes.from # c
      BY <2>1, <3>1, <3>2, <3>4 DEF Written, Text
    <3>5. QED
      BY <3>3, <3>4
  <2>3. TextsWritten'
    BY <2>1, <2>2 DEF TypeOK, Message, TextsInv, TextsWritten
  <2>4. QED
    BY <2>1, <2>3 DEF TextsInv, NoneAlike, Alike, Text
<1>11. CASE EnvironmentStep /\ ~(\E c \in Clients : ReadLine(c))
  BY <1>11, TextsFrame
  DEF EnvironmentStep, KillArbiter, AttachClient, EndOfInput, SpuriousWake, KillClient,
      SenderGoto, TypeOK
<1>12. CASE UNCHANGED vars
  BY <1>12, TextsFrame DEF vars
<1>13. QED
  BY <1>1, <1>2, <1>3, <1>4, <1>5, <1>6, <1>7, <1>8, <1>9, <1>10, <1>11, <1>12
  DEF Next, SenderStep

\* No text exists twice, even when processes die and the arbiter starts again
\* (main_client.c:289-297, 236-287).
THEOREM TextsUnique == Spec => []TextsAreNotDuplicated
<1>1. Init => TypeOK /\ TextsInv
  BY InitType, TextsInit
<1>2. TypeOK /\ TextsInv /\ [Next]_vars => (TypeOK /\ TextsInv)'
  BY TypeStep, TextsInductive
<1>3. TypeOK /\ TextsInv => TextsAreNotDuplicated
  <2> SUFFICES ASSUME TypeOK, NoneAlike PROVE TextsAreNotDuplicated
    BY DEF TextsInv
  <2> DEFINE Printed == {p \in UNION {{c} \X DOMAIN stdout[c] : c \in Clients} :
                            stdout[p[1]][p[2]].policy = "regular"}
  <2>1. \A p \in Printed : /\ p[1] \in Clients /\ p[2] \in 1..Len(stdout[p[1]])
                            /\ p = <<p[1], p[2]>> /\ Text(stdout[p[1]][p[2]])
    BY DEF TypeOK, Text
  <2>2. \A i \in InTransit : i \in 1..Len(queue) /\ Text(queue[i])
    BY QueueTypes DEF InTransit, Text
  <2> HIDE DEF Printed
  <2>3. \A p, q \in Printed : p # q => stdout[p[1]][p[2]].mes # stdout[q[1]][q[2]].mes
    BY <2>1 DEF NoneAlike, Alike
  <2>4. \A i, j \in InTransit : i # j => queue[i].mes # queue[j].mes
    BY <2>2 DEF NoneAlike, Alike
  <2>5. \A p \in Printed, i \in InTransit : stdout[p[1]][p[2]].mes # queue[i].mes
    BY <2>1, <2>2 DEF NoneAlike, Alike
  <2>6. QED
    BY <2>3, <2>4, <2>5 DEF TextsAreNotDuplicated, Printed
<1>4. QED
  BY <1>1, <1>2, <1>3, PTL DEF Spec

-----------------------------------------------------------------------------
\* Requests to register, whatever dies and however the processes start.

\* Clients that have asked to be registered or died, the ones whose request is
\* still under way, and the slots given to the others.
Asked == {c \in Clients : pc[c] \notin {"start", "exited", "register"}}
Queued(c) == \E i \in 1..Len(queue) : queue[i].policy = "register" /\ queue[i].client_pid = c
Pending == {c \in Clients : Queued(c) \/ (a_pc = "add" /\ mes.client_pid = c)}
TakenSlots == {i \in Slots : client_table.client_info[i].id_for_arbiter # 0}

\* Nobody asks twice.
QueuedOnce ==
    \A i, j \in 1..Len(queue) :
        queue[i].policy = "register" /\ queue[j].policy = "register"
            /\ queue[i].client_pid = queue[j].client_pid => i = j

RequestsOnce ==
    /\ Pending \subseteq Asked /\ QueuedOnce
    /\ a_pc = "add" => ~Queued(mes.client_pid)

RequestsInv ==
    /\ RequestsOnce
    /\ Cardinality(TakenSlots) <= Cardinality(Asked \ Pending)
    /\ AbortsOnlyOnTooMany

LEMMA RequestsInit ==
    ASSUME IsFiniteSet(Clients), Init
    PROVE  RequestsInv
<1>1. Len(queue) = 0 /\ a_pc = "msgget"
  BY DEF Init
<1>2. TakenSlots = {}
  BY DEF Init, TakenSlots, InitTable, FreeSlot
<1>3. IsFiniteSet(Asked \ Pending)
  BY FS_Subset DEF Asked
<1>4. Cardinality(TakenSlots) <= Cardinality(Asked \ Pending)
  BY <1>2, <1>3, FS_EmptySet, FS_CardinalityType
<1>5. RequestsOnce /\ AbortsOnlyOnTooMany
  BY <1>1 DEF RequestsOnce, QueuedOnce, Pending, Queued, AbortsOnlyOnTooMany
<1>6. QED
  BY <1>4, <1>5 DEF RequestsInv

\* A step that adds no request and takes none for a slot.
LEMMA RequestsKept ==
    ASSUME IsFiniteSet(Clients), RequestsInv,
           \A c \in Clients : Queued(c)' => Queued(c), QueuedOnce',
           TakenSlots' = TakenSlots \/ TakenSlots' = {}, Asked \subseteq Asked',
           a_pc' = "add" => a_pc = "add" /\ mes' = mes /\ mes.client_pid \in Clients,
           a_pc' = "aborted" => a_pc = "aborted"
    PROVE  RequestsInv'
<1>1. Pending' \subseteq Pending
  BY DEF Pending
<1>2. RequestsOnce'
  BY <1>1 DEF RequestsInv, RequestsOnce
<1>3. Cardinality(TakenSlots') <= Cardinality(Asked' \ Pending')
  <2>1. Asked \ Pending \subseteq Asked' \ Pending'
    BY <1>1
  <2>2. IsFiniteSet(Asked' \ Pending')
    BY FS_Subset DEF Asked
  <2>3. /\ Cardinality(Asked \ Pending) <= Cardinality(Asked' \ Pending')
        /\ Cardinality(Asked' \ Pending') \in Nat /\ Cardinality(Asked \ Pending) \in Nat
    BY <2>1, <2>2, FS_Subset, FS_CardinalityType
  <2>4. Cardinality(TakenSlots) \in Nat
    <3>1. IsFiniteSet(Slots)
      BY TableAssumption, FS_Interval DEF Slots
    <3>2. TakenSlots \in SUBSET Slots
      BY DEF TakenSlots
    <3>3. QED
      BY <3>1, <3>2, FS_Subset, FS_CardinalityType
  <2>5. CASE TakenSlots' = TakenSlots
    BY <2>3, <2>4, <2>5 DEF RequestsInv
  <2>6. CASE TakenSlots' = {}
    BY <2>3, <2>6, FS_EmptySet
  <2>7. QED
    BY <2>5, <2>6
<1>4. AbortsOnlyOnTooMany'
  <2>1. IsFiniteSet(Asked')
    BY FS_Subset DEF Asked
  <2>2. /\ Cardinality(Asked) <= Cardinality(Asked')
        /\ Cardinality(Asked) \in Nat /\ Cardinality(Asked') \in Nat
    BY <2>1, FS_Subset, FS_CardinalityType
  <2>3. ASSUME a_pc' = "aborted" PROVE Cardinality(Asked') > MAX_N_CLIENTS
    <3>1. Cardinality(Asked) > MAX_N_CLIENTS
      BY <2>3 DEF RequestsInv, AbortsOnlyOnTooMany, Asked
    <3>2. QED
      BY <2>2, <3>1, TableAssumption
  <2>4. QED
    BY <2>3 DEF AbortsOnlyOnTooMany, Asked
<1>5. QED
  BY <1>2, <1>3, <1>4 DEF RequestsInv

\* What a receive leaves of the requests.
LEMMA QueuedReceived ==
    ASSUME TypeOK, QueuedOnce, NEW k \in 1..Len(queue), TakenAt(k)
    PROVE  /\ \A c : Queued(c)' => Queued(c)
           /\ QueuedOnce'
           /\ \A c : queue[k].policy = "register" /\ queue[k].client_pid = c => ~Queued(c)'
           /\ \A c : Queued(c) /\ ~Queued(c)' =>
                queue[k].policy = "register" /\ queue[k].client_pid = c
<1>1. \A i \in 1..Len(queue') : \E j \in 1..Len(queue) \ {k} : queue'[i] = queue[j]
  BY DEF TakenAt
<1>2. \A c : Queued(c)' => \E j \in 1..Len(queue) \ {k} :
                queue[j].policy = "register" /\ queue[j].client_pid = c
  BY <1>1 DEF Queued
<1>3. \A c : Queued(c)' => Queued(c)
  BY <1>2 DEF Queued
<1>4. ASSUME NEW i1 \in 1..Len(queue'), NEW i2 \in 1..Len(queue'), i1 # i2,
             queue'[i1].policy = "register", queue'[i2].policy = "register",
             queue'[i1].client_pid = queue'[i2].client_pid
      PROVE  FALSE
  <2>1. PICK j1 \in 1..Len(queue) \ {k}, j2 \in 1..Len(queue) \ {k} :
            j1 # j2 /\ queue'[i1] = queue[j1] /\ queue'[i2] = queue[j2]
    BY <1>4 DEF TakenAt
  <2>2. QED
    BY <1>4, <2>1 DEF QueuedOnce
<1>5. queue[k].policy = "register" => ~(\E j \in 1..Len(queue) \ {k} :
          queue[j].policy = "register" /\ queue[j].client_pid = queue[k].client_pid)
  BY DEF QueuedOnce
<1>6. ASSUME NEW c, Queued(c), ~Queued(c)'
      PROVE  queue[k].policy = "register" /\ queue[k].client_pid = c
  <2>1. PICK j \in 1..Len(queue) : queue[j].policy = "register" /\ queue[j].client_pid = c
    BY <1>6 DEF Queued
  <2>2. CASE j = k
    BY <2>1, <2>2
  <2>3. CASE j # k
    BY <1>6, <2>1, <2>3 DEF Queued, TakenAt
  <2>4. QED
    BY <2>2, <2>3
<1>7. ASSUME NEW c, queue[k].policy = "register", queue[k].client_pid = c PROVE ~Queued(c)'
  BY <1>2, <1>5, <1>7
<1>8. QueuedOnce'
  BY <1>4 DEF QueuedOnce
<1>9. QED
  BY <1>3, <1>6, <1>7, <1>8

\* A message sent that is no request to register leaves them alone.
LEMMA QueuedSent ==
    ASSUME TypeOK, QueuedOnce, NEW m, m.policy # "register", queue' = Append(queue, m)
    PROVE  (\A c : Queued(c)' => Queued(c)) /\ QueuedOnce'
<1>1. \A i \in 1..Len(queue') : \/ i \in 1..Len(queue) /\ queue'[i] = queue[i]
                                \/ queue'[i] = m
  BY QueueTypes
<1>2. QED
  BY <1>1 DEF Queued, QueuedOnce

\* The arbiter's part: a request goes from the queue through its hands into a slot.
LEMMA RequestsArbiter ==
    ASSUME IsFiniteSet(Clients), TypeOK, RequestsInv, ArbiterStep
    PROVE  RequestsInv'
<1> USE DEF ArbiterGoto, InitPcs, sharedVars, existVars, lockVars, tableVars, peerVars,
            dataVars, senderVars, clientVars
<1>0. RequestsOnce /\ QueuedOnce /\ Pending \subseteq Asked
  BY DEF RequestsInv, RequestsOnce
<1>1. CASE ListenOnMessages
  <2>1. Receive(kArbiterId)
    BY <1>1 DEF ListenOnMessages
  <2>2. PICK k \in 1..Len(queue) : /\ Received(queue, kArbiterId) = queue[k]
                                   /\ queue[k] \in Message /\ TakenAt(k)
    BY <2>1, ReceivePositions
  <2>3. /\ mes' = queue[k] /\ a_pc' = (IF queue[k].policy = "register" THEN "add" ELSE "respond")
        /\ a_pc = "receive" /\ UNCHANGED <<client_table, pc>>
    BY <1>1, <2>2 DEF ListenOnMessages
  <2>4. /\ \A c : Queued(c)' => Queued(c)
        /\ QueuedOnce'
        /\ \A c : queue[k].policy = "register" /\ queue[k].client_pid = c => ~Queued(c)'
        /\ \A c : Queued(c) /\ ~Queued(c)' =>
              queue[k].policy = "register" /\ queue[k].client_pid = c
    BY <1>0, <2>2, QueuedReceived
  <2>5. TakenSlots' = TakenSlots /\ Asked' = Asked
    BY <2>3 DEF TakenSlots, Asked
  <2>6. Pending' = Pending
    <3>1. queue[k].policy = "register" => Queued(queue[k].client_pid)
      BY DEF Queued
    <3>2. ASSUME NEW c \in Clients PROVE c \in Pending' <=> c \in Pending
      BY <2>3, <2>4, <3>1 DEF Pending
    <3>3. QED
      BY <3>2 DEF Pending
  <2>7. a_pc' = "add" => ~Queued(mes.client_pid)'
    BY <2>3, <2>4 DEF Queued
  <2>8. RequestsOnce'
    BY <1>0, <2>4, <2>5, <2>6, <2>7 DEF RequestsOnce
  <2>9. QED
    BY <2>3, <2>5, <2>6, <2>8 DEF RequestsInv, AbortsOnlyOnTooMany
<1>2. CASE AddClient
  <2>1. PICK s \in Slots :
          /\ ~Used(s)
          /\ client_table' = [free_id |-> client_table.free_id + 2,
                              client_info |-> [client_table.client_info EXCEPT ![s] =
                                [client_name |-> mes.client_name,
                                 id_for_arbiter |-> client_table.free_id,
                                 id_for_rmessages |-> client_table.free_id + 1,
                                 is_awaken |-> TRUE]]]
    BY <1>2, AddedSlot
  <2>2. /\ a_pc = "add" /\ a_pc' = "lock" /\ mes \in RegisterMessages
        /\ UNCHANGED <<queue, mes, pc>> /\ client_table.free_id # 0
    BY <1>2 DEF AddClient, TypeOK, Table
  <2>3. TakenSlots' = TakenSlots \union {s} /\ s \notin TakenSlots
    BY <2>1, <2>2 DEF TakenSlots, Used, Info, TypeOK, Table
  <2> DEFINE c == mes.client_pid
  <2>4. c \in Clients /\ c \in Pending /\ ~Queued(c) /\ Asked' = Asked
    BY <1>0, <2>2 DEF RegisterMessages, Pending, RequestsOnce, Asked
  <2>5. \A d : Queued(d)' <=> Queued(d)
    BY <2>2 DEF Queued
  <2>6. Pending' = Pending \ {c}
    BY <2>2, <2>4, <2>5 DEF Pending
  <2> HIDE DEF c
  <2>7. Asked' \ Pending' = (Asked \ Pending) \union {c} /\ c \notin Asked \ Pending
    BY <1>0, <2>4, <2>6
  <2>8. IsFiniteSet(Asked \ Pending) /\ IsFiniteSet(TakenSlots)
    <3>1. IsFiniteSet(Slots)
      BY TableAssumption, FS_Interval DEF Slots
    <3>2. QED
      BY <3>1, FS_Subset DEF Asked, TakenSlots
  <2>9. /\ Cardinality(TakenSlots') = Cardinality(TakenSlots) + 1
        /\ Cardinality(Asked' \ Pending') = Cardinality(Asked \ Pending) + 1
    BY <2>3, <2>7, <2>8, FS_AddElement
  <2>10. Cardinality(TakenSlots') <= Cardinality(Asked' \ Pending')
    BY <2>8, <2>9, FS_CardinalityType DEF RequestsInv
  <2>11. QueuedOnce'
    BY <1>0, <2>2 DEF QueuedOnce
  <2>12. QED
    BY <1>0, <2>2, <2>4, <2>6, <2>10, <2>11 DEF RequestsInv, RequestsOnce, AbortsOnlyOnTooMany
<1>3. CASE AbortOnFullTable
  <2>1. /\ a_pc = "add" /\ a_pc' = "aborted" /\ mes \in RegisterMessages
        /\ UNCHANGED <<queue, client_table, pc>>
    BY <1>3 DEF AbortOnFullTable, TypeOK
  <2>2. TakenSlots = 0..MAX_N_CLIENTS - 1
    BY <1>3 DEF AbortOnFullTable, IsFull, AvailableSlots, TakenSlots, Slots
  <2>3. Cardinality(TakenSlots) = MAX_N_CLIENTS
    BY <2>2, TableAssumption, FS_Interval
  <2> DEFINE c == mes.client_pid
             rest == Asked \ Pending
  <2>4. c \in Asked /\ c \in Pending
    BY <1>0, <2>1 DEF Pending, RegisterMessages
  <2>5. rest \union {c} \in SUBSET Asked /\ c \notin rest
    BY <2>4
  <2>6. IsFiniteSet(rest) /\ IsFiniteSet(Asked)
    BY FS_Subset DEF Asked
  <2> HIDE DEF c
  <2>7. /\ Cardinality(rest \union {c}) = Cardinality(rest) + 1
        /\ Cardinality(rest \union {c}) <= Cardinality(Asked)
    BY <2>5, <2>6, FS_AddElement, FS_Subset
  <2>8. Cardinality(Asked) > MAX_N_CLIENTS
    BY <2>3, <2>6, <2>7, FS_CardinalityType, TableAssumption DEF RequestsInv
  <2>9. AbortsOnlyOnTooMany'
    BY <2>1, <2>8 DEF AbortsOnlyOnTooMany, Asked
  <2>10. TakenSlots' = TakenSlots /\ Asked' = Asked /\ \A d : Queued(d)' <=> Queued(d)
    BY <2>1 DEF TakenSlots, Asked, Queued
  <2>11. Pending' \subseteq Pending
    BY <2>1, <2>10 DEF Pending
  <2>12. RequestsOnce'
    BY <1>0, <2>1, <2>10, <2>11 DEF RequestsOnce, QueuedOnce
  <2>13. Cardinality(TakenSlots') <= Cardinality(Asked' \ Pending')
    <3>1. rest \subseteq Asked' \ Pending' /\ IsFiniteSet(Asked' \ Pending')
      BY <2>6, <2>10, <2>11, FS_Subset
    <3>2. Cardinality(rest) <= Cardinality(Asked' \ Pending')
      BY <3>1, FS_Subset
    <3>3. QED
      BY <2>3, <2>6, <2>10, <3>1, <3>2, FS_CardinalityType, TableAssumption DEF RequestsInv
  <2>14. QED
    BY <2>9, <2>12, <2>13 DEF RequestsInv
<1>4. CASE SendDestId
  <2> DEFINE m == [type |-> mes.who_ask_id, policy |-> "respond",
                   dest_id |-> GetIdForRMessagesFromName(client_table, mes.dest_name)]
  <2>1. m.policy # "register"
    OBVIOUS
  <2>2. queue' = queue \/ queue' = Append(queue, m)
    BY <1>4 DEF SendDestId, Send
  <2> HIDE DEF m
  <2>3. (\A c : Queued(c)' => Queued(c)) /\ QueuedOnce'
    BY <1>0, <2>1, <2>2, QueuedSent DEF Queued, QueuedOnce
  <2>4. TakenSlots' = TakenSlots /\ Asked' = Asked
    BY <1>4 DEF SendDestId, TakenSlots, Asked
  <2>5. QED
    BY <1>4, <2>3, <2>4, RequestsKept DEF SendDestId
<1>5. CASE ArbiterStep /\ ~ListenOnMessages /\ ~AddClient /\ ~AbortOnFullTable /\ ~SendDestId
  <2>1. queue' = queue /\ a_pc' \notin {"add", "aborted"}
    BY <1>5
    DEF ArbiterStep, GetQueue, GetShmem, InitLocks, InitResponseIds, FinishInit,
        LockToRespond, FillPid, FillIds, UnlockFilled, Broadcast,
        SpinOnClientResp, LockToClear, ClearResponse, UnlockCleared
  <2>2. client_table' = client_table \/ client_table' = InitTable
    BY <1>5
    DEF ArbiterStep, GetQueue, GetShmem, InitLocks, InitResponseIds, FinishInit,
        LockToRespond, FillPid, FillIds, UnlockFilled, Broadcast,
        SpinOnClientResp, LockToClear, ClearResponse, UnlockCleared
  <2>3. \A c \in Clients : pc'[c] = pc[c] \/ pc'[c] = "relock"
    BY <1>5
    DEF ArbiterStep, GetQueue, GetShmem, InitLocks, InitResponseIds, FinishInit,
        LockToRespond, FillPid, FillIds, UnlockFilled, Broadcast,
        SpinOnClientResp, LockToClear, ClearResponse, UnlockCleared
  <2>4. TakenSlots' = TakenSlots \/ TakenSlots' = {}
    BY <2>2 DEF TakenSlots, InitTable, FreeSlot
  <2>5. Asked \subseteq Asked'
    BY <2>3 DEF Asked
  <2>6. (\A c : Queued(c)' => Queued(c)) /\ QueuedOnce'
    BY <1>0, <2>1 DEF Queued, QueuedOnce
  <2>7. QED
    BY <2>1, <2>4, <2>5, <2>6, RequestsKept
<1>6. QED
  BY <1>1, <1>2, <1>3, <1>4, <1>5

LEMMA RequestsInductive ==
    ASSUME IsFiniteSet(Clients), TypeOK, RequestsInv, [Next]_vars
    PROVE  RequestsInv'
<1> USE DEF sharedVars, existVars, lockVars, tableVars, arbiterVars, peerVars, dataVars,
            senderVars, clientVars, ClientGoto, SenderGoto
<1>0. /\ QueuedOnce /\ Pending \subseteq Asked
      /\ a_pc = "add" => ~Queued(mes.client_pid) /\ mes.client_pid \in Clients
  BY DEF RequestsInv, RequestsOnce, TypeOK, RegisterMessages
<1>1. ASSUME NEW c \in Clients, SendRegister(c) PROVE RequestsInv'
  <2>1. PICK m : m = [type |-> kArbiterId, policy |-> "register",
                      client_pid |-> c, client_name |-> NameOf[c]]
    OBVIOUS
  <2>2. /\ queue' = Append(queue, m) /\ m.policy = "register" /\ m.client_pid = c
        /\ UNCHANGED <<a_pc, mes, client_table>>
        /\ pc[c] = "register" /\ pc' = [pc EXCEPT ![c] = "lock"]
    BY <1>1, <2>1 DEF SendRegister, Send, ValidType, kArbiterId
  <2>3. TakenSlots' = TakenSlots
    BY <2>2 DEF TakenSlots
  <2>4. c \notin Asked /\ Asked' = Asked \union {c}
    BY <2>2 DEF Asked, TypeOK
  <2>5. /\ Len(queue) \in Nat /\ Len(queue') = Len(queue) + 1
        /\ \A i \in 1..Len(queue) : queue'[i] = queue[i]
        /\ queue'[Len(queue) + 1] = m
    BY <2>2, QueueTypes
  <2>6. \A d : Queued(d)' <=> Queued(d) \/ d = c
    BY <2>2, <2>5 DEF Queued
  <2>7. ~Queued(c) /\ (a_pc = "add" => mes.client_pid # c)
    BY <1>0, <2>4 DEF Pending
  <2>8. Pending' = Pending \union {c}
    BY <2>2, <2>6 DEF Pending
  <2>9. QueuedOnce'
    <3>1. \A i \in 1..Len(queue') : \/ i \in 1..Len(queue) /\ queue'[i] = queue[i]
                                    \/ i = Len(queue) + 1 /\ queue'[i] = m
      BY <2>5
    <3>2. \A i \in 1..Len(queue) : queue[i].policy = "register" => queue[i].client_pid # c
      BY <2>7 DEF Queued
    <3>3. QED
      BY <1>0, <2>2, <3>1, <3>2 DEF QueuedOnce
  <2>10. RequestsOnce'
    BY <1>0, <2>2, <2>4, <2>6, <2>7, <2>8, <2>9 DEF RequestsOnce
  <2>11. Asked' \ Pending' = Asked \ Pending
    BY <2>4, <2>8
  <2>12. AbortsOnlyOnTooMany'
    <3>1. IsFiniteSet(Asked)
      BY FS_Subset DEF Asked
    <3>2. Cardinality(Asked') = Cardinality(Asked) + 1 /\ Cardinality(Asked) \in Nat
      BY <2>4, <3>1, FS_AddElement, FS_CardinalityType
    <3>3. QED
      BY <2>2, <3>2, TableAssumption DEF RequestsInv, AbortsOnlyOnTooMany, Asked
  <2>13. QED
    BY <2>3, <2>10, <2>11, <2>12 DEF RequestsInv
<1>2. ASSUME NEW c \in Clients, RegisterStep(c), ~SendRegister(c) PROVE RequestsInv'
  <2>1. UNCHANGED <<queue, a_pc, mes, client_table>>
    BY <1>2 DEF RegisterStep, LockToWait, CondWait, LockAwaken, CheckResponse, WaitAgain,
                UnlockRegistered, AckResponse
  <2>2. Asked \subseteq Asked'
    BY <1>2 DEF RegisterStep, LockToWait, CondWait, LockAwaken, CheckResponse, WaitAgain,
                UnlockRegistered, AckResponse, Asked, TypeOK
  <2>3. (\A d : Queued(d)' => Queued(d)) /\ QueuedOnce' /\ TakenSlots' = TakenSlots
    BY <1>0, <2>1 DEF Queued, QueuedOnce, TakenSlots
  <2>4. QED
    BY <1>0, <2>1, <2>2, <2>3, RequestsKept
<1>3. ASSUME NEW c \in Clients, SenderStep(c) \/ ReaderThreadTask(c) PROVE RequestsInv'
  <2>1. UNCHANGED <<a_pc, mes, client_table, pc>>
    BY <1>3 DEF SenderStep, RequestDestId, ReceiveDestId, SendToReceiver, ReaderThreadTask
  <2>2. TakenSlots' = TakenSlots /\ Asked' = Asked
    BY <2>1 DEF TakenSlots, Asked
  <2>3. (\A d : Queued(d)' => Queued(d)) /\ QueuedOnce'
    <3>1. CASE RequestDestId(c)
      <4>1. PICK m : m = [type |-> kArbiterId, policy |-> "request",
                          who_ask_id |-> client[c].id_for_arbiter, dest_name |-> dest_name[c]]
        OBVIOUS
      <4>2. queue' = Append(queue, m) /\ m.policy # "register"
        BY <3>1, <4>1 DEF RequestDestId, Send, ValidType, kArbiterId
      <4>3. QED
        BY <1>0, <4>2, QueuedSent
    <3>2. CASE SendToReceiver(c)
      <4>1. PICK m : m = [type |-> dest_id[c], policy |-> "regular", mes |-> Typed(c)]
        OBVIOUS
      <4>2. (queue' = queue \/ queue' = Append(queue, m)) /\ m.policy # "register"
        BY <3>2, <4>1 DEF SendToReceiver, Send
      <4>3. QED
        BY <1>0, <4>2, QueuedSent DEF Queued, QueuedOnce
    <3>3. CASE ReceiveDestId(c)
      <4>1. Receive(client[c].id_for_arbiter)
        BY <3>3 DEF ReceiveDestId
      <4>2. QED
        BY <1>0, <4>1, ReceivePositions, QueuedReceived
    <3>4. CASE ReaderThreadTask(c)
      <4>1. Receive(client[c].id_for_rmessages)
        BY <3>4 DEF ReaderThreadTask
      <4>2. QED
        BY <1>0, <4>1, ReceivePositions, QueuedReceived
    <3>5. QED
      BY <1>3, <3>1, <3>2, <3>3, <3>4 DEF SenderStep
  <2>4. QED
    BY <1>0, <2>1, <2>2, <2>3, RequestsKept
<1>4. CASE EnvironmentStep \/ UNCHANGED vars
  <2>1. queue' = queue /\ client_table' = client_table /\ mes' = mes
        /\ (a_pc' = a_pc \/ a_pc' = "msgget")
    BY <1>4 DEF EnvironmentStep, KillArbiter, AttachClient, ReadLine, EndOfInput, SpuriousWake,
                KillClient, vars
  <2>2. Asked \subseteq Asked'
    BY <1>4 DEF EnvironmentStep, KillArbiter, AttachClient, ReadLine, EndOfInput, SpuriousWake,
                KillClient, vars, Asked, TypeOK
  <2>3. (\A d : Queued(d)' => Queued(d)) /\ QueuedOnce' /\ TakenSlots' = TakenSlots
    BY <1>0, <2>1 DEF Queued, QueuedOnce, TakenSlots
  <2>4. QED
    BY <1>0, <2>1, <2>2, <2>3, RequestsKept
<1>5. CASE ArbiterStep
  BY <1>5, RequestsArbiter
<1>6. QED
  BY <1>1, <1>2, <1>3, <1>4, <1>5 DEF Next

\* Whoever is killed and however often the arbiter is started again, its
\* assertion on a full table fails only when more clients have asked than the
\* table holds: no request is taken for a slot twice (main_arbiter.c:197).
THEOREM AbortsOnTooMany ==
    ASSUME IsFiniteSet(Clients)
    PROVE  Spec => []AbortsOnlyOnTooMany
<1>1. Init => TypeOK /\ RequestsInv
  BY InitType, RequestsInit
<1>2. TypeOK /\ RequestsInv /\ [Next]_vars => (TypeOK /\ RequestsInv)'
  BY TypeStep, RequestsInductive
<1>3. RequestsInv => AbortsOnlyOnTooMany
  BY DEF RequestsInv
<1>4. QED
  BY <1>1, <1>2, <1>3, PTL DEF Spec
=============================================================================
