---------------------------- MODULE QueueArbiter ----------------------------
(***************************************************************************)
(* The messenger of dz8/queue_arbiter: one arbiter process and several     *)
(* client processes share a System V queue and a shared-memory mailbox.    *)
(*                                                                         *)
(* A client registers by a queue message; the arbiter answers through the  *)
(* mailbox under a process-shared mutex and condition variable, then spins *)
(* on client_resp.  A registered client runs a sender thread (asks the     *)
(* arbiter for the addressee's identifier, posts to that identifier) and a *)
(* reader thread (prints what is posted to its own).  A process may be     *)
(* killed at any step; the arbiter may be started again on the queue and   *)
(* the shared memory it left behind.                                       *)
(***************************************************************************)
EXTENDS MsgQueue, ClientTable

CONSTANTS Clients,         \* client processes; a client stands for its pid
          Names,           \* names given at start or typed as addressees
          NameOf,          \* argv[1] of each client
          Arbiter,         \* the arbiter as owner of the mutex
          Nobody,          \* the zero pid; also the owner of a free mutex
          NoMessage,       \* the arbiter's message buffer before a receive
          QueueBytes,      \* capacity of the queue (msg_qbytes)
          AMessageSize,    \* bytes of a message to the arbiter
          RMessageSize,    \* bytes of a message to a client
          TextAsId,        \* a text's first bytes read as a long
          MaxLines,        \* bound: lines typed by one client
          MaxKills,        \* bound: clients killed
          MaxRestarts,     \* bound: times the arbiter is killed
          SpuriousWakeups, \* pthread_cond_wait may return unasked
          EagerStart       \* clients may attach before ArbiterInit ends

ASSUME ArbiterAssumption ==
    /\ NoName \in Names
    /\ NameOf \in [Clients -> Names]
    /\ Arbiter \notin Clients /\ Nobody \notin Clients \union {Arbiter}
    /\ TextAsId \in Nat /\ TextAsId > kArbiterId
    /\ {QueueBytes, AMessageSize, RMessageSize} \subseteq Nat
    /\ {MaxLines, MaxKills, MaxRestarts} \subseteq Nat
    /\ {SpuriousWakeups, EagerStart} \subseteq BOOLEAN

VARIABLES
    queue,         \* the System V queue
    queue_exists, shmem_exists,
    response,      \* AResponse: resp_content and client_resp
    resp_mutex,    \* its owner, or Nobody
    cond_waiters,  \* clients blocked on resp_cond
    a_pc,          \* where the arbiter's message thread is
    client_table,  \* arbiter.client_table
    mes,           \* the arbiter's receive buffer
    new_id,        \* new_id_for_arbiter, new_id_for_rmessages
    restarts,
    pc,            \* where each client's main thread is
    client,        \* struct Client: its two identifiers
    sender_pc,     \* where each client's sender thread is
    dest_name, dest_id,  \* that thread's locals
    lines,         \* lines typed so far
    stdout,        \* what each reader thread printed
    kills

tableVars   == <<client_table, mes, new_id, restarts>>
arbiterVars == <<a_pc, tableVars>>
existVars   == <<queue_exists, shmem_exists>>
lockVars    == <<resp_mutex, cond_waiters>>
sharedVars  == <<existVars, response, lockVars>>
senderVars  == <<sender_pc, dest_name, dest_id, lines>>
dataVars    == <<client, stdout, kills>>
clientVars  == <<pc, dataVars>>
peerVars    == <<senderVars, clientVars>>
vars == <<queue, sharedVars, arbiterVars, peerVars>>

-----------------------------------------------------------------------------
\* Messages.  A text is told apart by who typed it, when, and for whom.

Ids == Nat \ {kArbiterId}
Texts == [from : Clients, n : 1..MaxLines, to : Names]

RegisterMessages ==
    [type : {kArbiterId}, policy : {"register"}, client_pid : Clients, client_name : Names]
RequestMessages ==
    [type : {kArbiterId}, policy : {"request"}, who_ask_id : Ids, dest_name : Names]
AMessage == RegisterMessages \union RequestMessages

RespondMessages ==
    [type : Ids \ {0}, policy : {"respond"}, dest_id : Ids \union {NotFound}]
TextMessages == [type : Ids \ {0}, policy : {"regular"}, mes : Texts]
RegularMessage == RespondMessages \union TextMessages

SizeOf(m) == IF m.policy \in {"register", "request"} THEN AMessageSize ELSE RMessageSize

\* The union's dest_id, whatever was stored in the union; the first bytes of a text
\* are taken as one large number.
AsDestId(m) == CASE m.policy = "respond" -> m.dest_id
                 [] m.policy = "request" -> m.who_ask_id
                 [] OTHER -> TextAsId

CanSend(m) == Fits([i \in DOMAIN queue |-> SizeOf(queue[i])], SizeOf(m), QueueBytes)

\* msgsnd: a type below 1 is refused at once and nobody looks at the result.
Send(m) == IF ValidType(m.type)
           THEN CanSend(m) /\ queue' = Append(queue, m)
           ELSE UNCHANGED queue

Receive(msgtyp) == HasMessage(queue, msgtyp) /\ queue' = Remaining(queue, msgtyp)

-----------------------------------------------------------------------------
\* pthread mutex and condition variable in the shared memory.

Lock(p)  == resp_mutex = Nobody /\ resp_mutex' = p
\* A normal mutex does not check who unlocks it.
Unlock   == resp_mutex' = Nobody

ZeroResponse == [resp_pid |-> Nobody, resp_id_for_arbiter |-> 0,
                 resp_id_for_rmessages |-> 0, client_resp |-> FALSE]

Init ==
    /\ queue = <<>>
    /\ queue_exists = FALSE /\ shmem_exists = FALSE
    /\ response = ZeroResponse
    /\ resp_mutex = Nobody /\ cond_waiters = {}
    /\ a_pc = "msgget" /\ client_table = InitTable
    /\ mes = NoMessage /\ new_id = [arbiter |-> 0, rmessages |-> 0]
    /\ restarts = 0
    /\ pc = [c \in Clients |-> "start"]
    /\ client = [c \in Clients |-> [id_for_arbiter |-> 0, id_for_rmessages |-> 0]]
    /\ sender_pc = [c \in Clients |-> "off"]
    /\ dest_name = [c \in Clients |-> NoName]
    /\ dest_id = [c \in Clients |-> 0]
    /\ lines = [c \in Clients |-> 0]
    /\ stdout = [c \in Clients |-> <<>>]
    /\ kills = 0

-----------------------------------------------------------------------------
\* Arbiter: ArbiterInit.  Its calls succeed: main ignores what it returns, and an
\* arbiter without queue or memory is left out.

ArbiterGoto(from, to) == a_pc = from /\ a_pc' = to

GetQueue ==
    /\ ArbiterGoto("msgget", "shmget")
    /\ queue_exists' = TRUE
    /\ UNCHANGED <<queue, shmem_exists, response, lockVars, tableVars, peerVars>>

GetShmem ==
    /\ ArbiterGoto("shmget", "init_locks")
    /\ shmem_exists' = TRUE
    /\ UNCHANGED <<queue, queue_exists, response, lockVars, tableVars, peerVars>>

\* The locks are initialised again even when clients are using them: the mutex
\* becomes free, and a client blocked on the condition may be forgotten.
InitLocks ==
    /\ ArbiterGoto("init_locks", "init_response")
    /\ resp_mutex' = Nobody
    /\ \E kept \in SUBSET cond_waiters : cond_waiters' = kept
    /\ UNCHANGED <<queue, existVars, response, tableVars, peerVars>>

\* The response is cleared, the identifiers first and then the pid, and the
\* table is emptied.
InitResponseIds ==
    /\ ArbiterGoto("init_response", "init_table")
    /\ response' = [response EXCEPT !.resp_id_for_arbiter = 0, !.resp_id_for_rmessages = 0]
    /\ UNCHANGED <<queue, existVars, lockVars, tableVars, peerVars>>

FinishInit ==
    /\ ArbiterGoto("init_table", "receive")
    /\ response' = [response EXCEPT !.resp_pid = Nobody, !.client_resp = FALSE]
    /\ client_table' = InitTable
    /\ mes' = NoMessage
    /\ UNCHANGED <<queue, existVars, lockVars, new_id, restarts, peerVars>>

-----------------------------------------------------------------------------
\* Arbiter: ListenOnMessages and its handlers.

ListenOnMessages ==
    /\ a_pc = "receive"
    /\ Receive(kArbiterId)
    /\ mes' = Received(queue, kArbiterId)
    /\ a_pc' = IF mes'.policy = "register" THEN "add" ELSE "respond"
    /\ UNCHANGED <<sharedVars, client_table, new_id, restarts, peerVars>>

AddClient ==
    /\ ArbiterGoto("add", "lock")
    /\ ~IsFull(client_table)
    /\ client_table' = AddToTable(client_table, mes.client_name)
    /\ new_id' = [arbiter |-> NewIdForArbiter(client_table),
                  rmessages |-> NewIdForRMessages(client_table)]
    /\ UNCHANGED <<queue, sharedVars, mes, restarts, peerVars>>

\* assert(is_added): the arbiter aborts on a full table.
AbortOnFullTable ==
    /\ ArbiterGoto("add", "aborted")
    /\ IsFull(client_table)
    /\ UNCHANGED <<queue, sharedVars, tableVars, peerVars>>

LockToRespond ==
    /\ ArbiterGoto("lock", "fill_pid")
    /\ Lock(Arbiter)
    /\ UNCHANGED <<queue, existVars, response, cond_waiters, tableVars, peerVars>>

FillPid ==
    /\ ArbiterGoto("fill_pid", "fill_ids")
    /\ response' = [response EXCEPT !.resp_pid = mes.client_pid]
    /\ UNCHANGED <<queue, existVars, lockVars, tableVars, peerVars>>

FillIds ==
    /\ ArbiterGoto("fill_ids", "unlock_filled")
    /\ response' = [response EXCEPT !.resp_id_for_arbiter = new_id.arbiter,
                                    !.resp_id_for_rmessages = new_id.rmessages]
    /\ UNCHANGED <<queue, existVars, lockVars, tableVars, peerVars>>

UnlockFilled ==
    /\ ArbiterGoto("unlock_filled", "broadcast")
    /\ Unlock
    /\ UNCHANGED <<queue, existVars, response, cond_waiters, tableVars, peerVars>>

\* Mutant: pthread_cond_signal in place of pthread_cond_broadcast.
Broadcast_Signal ==
    /\ ArbiterGoto("broadcast", "spin")
    /\ \E c \in cond_waiters :
        /\ cond_waiters' = cond_waiters \ {c}
        /\ pc' = [pc EXCEPT ![c] = "relock"]
    /\ UNCHANGED <<queue, existVars, response, resp_mutex, tableVars, senderVars, dataVars>>

Broadcast ==
    /\ ArbiterGoto("broadcast", "spin")
    /\ cond_waiters' = {}
    /\ pc' = [c \in Clients |-> IF c \in cond_waiters THEN "relock" ELSE pc[c]]
    /\ UNCHANGED <<queue, existVars, response, resp_mutex, tableVars, senderVars, dataVars>>

\* Mutant: the arbiter does not wait for client_resp.
SpinOnClientResp_NoWait ==
    /\ ArbiterGoto("spin", "relock")
    /\ UNCHANGED <<queue, sharedVars, tableVars, peerVars>>

SpinOnClientResp ==
    /\ ArbiterGoto("spin", "relock")
    /\ response.client_resp
    /\ UNCHANGED <<queue, sharedVars, tableVars, peerVars>>

\* Mutant: the response is cleared without the mutex.
LockToClear_NoLock ==
    /\ ArbiterGoto("relock", "clear")
    /\ UNCHANGED <<queue, sharedVars, tableVars, peerVars>>

LockToClear ==
    /\ ArbiterGoto("relock", "clear")
    /\ Lock(Arbiter)
    /\ UNCHANGED <<queue, existVars, response, cond_waiters, tableVars, peerVars>>

\* Mutant: client_resp is not reset.
ClearResponse_KeepsAck ==
    /\ ArbiterGoto("clear", "unlock_cleared")
    /\ response' = [ZeroResponse EXCEPT !.client_resp = response.client_resp]
    /\ UNCHANGED <<queue, existVars, lockVars, tableVars, peerVars>>

ClearResponse ==
    /\ ArbiterGoto("clear", "unlock_cleared")
    /\ response' = ZeroResponse
    /\ UNCHANGED <<queue, existVars, lockVars, tableVars, peerVars>>

UnlockCleared ==
    /\ ArbiterGoto("unlock_cleared", "receive")
    /\ Unlock
    /\ UNCHANGED <<queue, existVars, response, cond_waiters, tableVars, peerVars>>

\* Mutant: an unknown name is not answered.
SendDestId_OnlyWhenFound ==
    /\ ArbiterGoto("respond", "receive")
    /\ LET dest == GetIdForRMessagesFromName(client_table, mes.dest_name) IN
        IF dest >= 0
        THEN Send([type |-> mes.who_ask_id, policy |-> "respond", dest_id |-> dest])
        ELSE UNCHANGED queue
    /\ UNCHANGED <<sharedVars, tableVars, peerVars>>

\* The lookup and the blocking reply; the table does not change in between.
SendDestId ==
    /\ ArbiterGoto("respond", "receive")
    /\ Send([type |-> mes.who_ask_id, policy |-> "respond",
             dest_id |-> GetIdForRMessagesFromName(client_table, mes.dest_name)])
    /\ UNCHANGED <<sharedVars, tableVars, peerVars>>

\* The arbiter dies at any step; queue, shared memory and a held mutex remain.
KillArbiter ==
    /\ restarts < MaxRestarts
    /\ restarts' = restarts + 1
    /\ a_pc' = "msgget"
    /\ UNCHANGED <<queue, sharedVars, client_table, mes, new_id, peerVars>>

ArbiterStep ==
    \/ GetQueue \/ GetShmem \/ InitLocks \/ InitResponseIds \/ FinishInit
    \/ ListenOnMessages \/ AddClient \/ AbortOnFullTable
    \/ LockToRespond \/ FillPid \/ FillIds \/ UnlockFilled \/ Broadcast
    \/ SpinOnClientResp \/ LockToClear \/ ClearResponse \/ UnlockCleared
    \/ SendDestId

-----------------------------------------------------------------------------
\* Client: main and RegisterInArbiter.

ClientGoto(c, from, to) == pc[c] = from /\ pc' = [pc EXCEPT ![c] = to]

InitPcs == {"msgget", "shmget", "init_locks", "init_response", "init_table"}

\* The client attaches to the queue and to the shared memory if both exist.
AttachClient(c) ==
    /\ EagerStart \/ a_pc \notin InitPcs
    /\ ClientGoto(c, "start", IF queue_exists /\ shmem_exists THEN "register" ELSE "exited")
    /\ UNCHANGED <<queue, sharedVars, arbiterVars, senderVars, dataVars>>

\* Mutant: the request is sent again after it was sent.
SendRegister_Again(c) ==
    /\ \E next \in {"register", "lock"} : ClientGoto(c, "register", next)
    /\ Send([type |-> kArbiterId, policy |-> "register",
             client_pid |-> c, client_name |-> NameOf[c]])
    /\ UNCHANGED <<sharedVars, arbiterVars, senderVars, dataVars>>

SendRegister(c) ==
    /\ ClientGoto(c, "register", "lock")
    /\ Send([type |-> kArbiterId, policy |-> "register",
             client_pid |-> c, client_name |-> NameOf[c]])
    /\ UNCHANGED <<sharedVars, arbiterVars, senderVars, dataVars>>

LockToWait(c) ==
    /\ ClientGoto(c, "lock", "wait")
    /\ Lock(c)
    /\ UNCHANGED <<queue, existVars, response, cond_waiters, arbiterVars, senderVars, dataVars>>

\* pthread_cond_wait releases the mutex and blocks in one step.  The loop waits
\* before it has looked at the response even once.
CondWait(c) ==
    /\ ClientGoto(c, "wait", "blocked")
    /\ Unlock
    /\ cond_waiters' = cond_waiters \union {c}
    /\ UNCHANGED <<queue, existVars, response, arbiterVars, senderVars, dataVars>>

SpuriousWake(c) ==
    /\ SpuriousWakeups
    /\ c \in cond_waiters
    /\ ClientGoto(c, "blocked", "relock")
    /\ cond_waiters' = cond_waiters \ {c}
    /\ UNCHANGED <<queue, existVars, response, resp_mutex, arbiterVars, senderVars, dataVars>>

LockAwaken(c) ==
    /\ ClientGoto(c, "relock", "check")
    /\ Lock(c)
    /\ UNCHANGED <<queue, existVars, response, cond_waiters, arbiterVars, senderVars, dataVars>>

CheckResponse(c) ==
    /\ response.resp_pid = c
    /\ ClientGoto(c, "check", "unlock")
    /\ client' = [client EXCEPT ![c] =
                    [id_for_arbiter   |-> response.resp_id_for_arbiter,
                     id_for_rmessages |-> response.resp_id_for_rmessages]]
    /\ UNCHANGED <<queue, sharedVars, arbiterVars, senderVars, stdout, kills>>

WaitAgain(c) ==
    /\ response.resp_pid # c
    /\ ClientGoto(c, "check", "wait")
    /\ UNCHANGED <<queue, sharedVars, arbiterVars, senderVars, dataVars>>

UnlockRegistered(c) ==
    /\ ClientGoto(c, "unlock", "ack")
    /\ Unlock
    /\ UNCHANGED <<queue, existVars, response, cond_waiters, arbiterVars, senderVars, dataVars>>

\* client_resp is written after the unlock; then both threads start.
AckResponse(c) ==
    /\ ClientGoto(c, "ack", "running")
    /\ response' = [response EXCEPT !.client_resp = TRUE]
    /\ sender_pc' = [sender_pc EXCEPT ![c] = "read"]
    /\ UNCHANGED <<queue, existVars, lockVars, arbiterVars, dest_name, dest_id, lines, dataVars>>

-----------------------------------------------------------------------------
\* Client: SenderThreadTask.

SenderGoto(c, from, to) == sender_pc[c] = from /\ sender_pc' = [sender_pc EXCEPT ![c] = to]

\* fgets and ParseMessage; a line without '#' leaves the name empty.
ReadLine(c) ==
    /\ SenderGoto(c, "read", "ask")
    /\ lines[c] < MaxLines
    /\ lines' = [lines EXCEPT ![c] = @ + 1]
    /\ \E name \in Names : dest_name' = [dest_name EXCEPT ![c] = name]
    /\ UNCHANGED <<queue, sharedVars, arbiterVars, dest_id, clientVars>>

EndOfInput(c) ==
    /\ SenderGoto(c, "read", "done")
    /\ UNCHANGED <<queue, sharedVars, arbiterVars, dest_name, dest_id, lines, clientVars>>

\* GetReceiverId: the request, then the reply.
RequestDestId(c) ==
    /\ SenderGoto(c, "ask", "await")
    /\ Send([type |-> kArbiterId, policy |-> "request",
             who_ask_id |-> client[c].id_for_arbiter, dest_name |-> dest_name[c]])
    /\ UNCHANGED <<sharedVars, arbiterVars, dest_name, dest_id, lines, clientVars>>

ReceiveDestId(c) ==
    /\ SenderGoto(c, "await", "post")
    /\ Receive(client[c].id_for_arbiter)
    /\ dest_id' = [dest_id EXCEPT ![c] = AsDestId(Received(queue, client[c].id_for_arbiter))]
    /\ UNCHANGED <<sharedVars, arbiterVars, dest_name, lines, clientVars>>

Typed(c) == [from |-> c, n |-> lines[c], to |-> dest_name[c]]

\* Mutant: the message is sent again after it was sent.
SendToReceiver_Again(c) ==
    /\ \E next \in {"post", "read"} : SenderGoto(c, "post", next)
    /\ Send([type |-> dest_id[c], policy |-> "regular", mes |-> Typed(c)])
    /\ UNCHANGED <<sharedVars, arbiterVars, dest_name, dest_id, lines, clientVars>>

SendToReceiver(c) ==
    /\ SenderGoto(c, "post", "read")
    /\ Send([type |-> dest_id[c], policy |-> "regular", mes |-> Typed(c)])
    /\ UNCHANGED <<sharedVars, arbiterVars, dest_name, dest_id, lines, clientVars>>

\* Client: ReaderThreadTask.

\* Mutant: the reader receives under the other identifier.
ReaderThreadTask_WrongId(c) ==
    /\ pc[c] = "running"
    /\ Receive(client[c].id_for_arbiter)
    /\ stdout' = [stdout EXCEPT ![c] = Append(@, Received(queue, client[c].id_for_arbiter))]
    /\ UNCHANGED <<sharedVars, arbiterVars, senderVars, pc, client, kills>>

ReaderThreadTask(c) ==
    /\ pc[c] = "running"
    /\ Receive(client[c].id_for_rmessages)
    /\ stdout' = [stdout EXCEPT ![c] = Append(@, Received(queue, client[c].id_for_rmessages))]
    /\ UNCHANGED <<sharedVars, arbiterVars, senderVars, pc, client, kills>>

\* The client dies at any step; a mutex it holds stays locked.
KillClient(c) ==
    /\ kills < MaxKills
    /\ pc[c] \notin {"start", "exited", "killed"}
    /\ kills' = kills + 1
    /\ pc' = [pc EXCEPT ![c] = "killed"]
    /\ sender_pc' = [sender_pc EXCEPT ![c] = "off"]
    /\ cond_waiters' = cond_waiters \ {c}
    /\ UNCHANGED <<queue, existVars, response, resp_mutex, arbiterVars, dest_name, dest_id,
                   lines, client, stdout>>

\* What a client does by itself, once it runs.
RegisterStep(c) ==
    \/ SendRegister(c) \/ LockToWait(c) \/ CondWait(c) \/ LockAwaken(c)
    \/ CheckResponse(c) \/ WaitAgain(c) \/ UnlockRegistered(c) \/ AckResponse(c)

SenderStep(c) == RequestDestId(c) \/ ReceiveDestId(c) \/ SendToReceiver(c)

\* What users, the kernel and failures do.
EnvironmentStep ==
    \/ KillArbiter
    \/ \E c \in Clients :
          AttachClient(c) \/ ReadLine(c) \/ EndOfInput(c) \/ SpuriousWake(c) \/ KillClient(c)

Next ==
    \/ ArbiterStep
    \/ \E c \in Clients : RegisterStep(c) \/ SenderStep(c) \/ ReaderThreadTask(c)
    \/ EnvironmentStep

Spec == Init /\ [][Next]_vars

\* Every thread that can take a step takes one: the scheduler runs them all.
\* Users owe no line, and nobody owes a kill or a spurious wakeup.
Fairness ==
    /\ WF_vars(ArbiterStep)
    /\ \A c \in Clients : /\ WF_vars(RegisterStep(c))
                          /\ WF_vars(SenderStep(c))
                          /\ WF_vars(ReaderThreadTask(c))

FairSpec == Spec /\ Fairness
=============================================================================
