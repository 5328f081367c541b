-------------------------- MODULE QueueArbiterProps -------------------------
(***************************************************************************)
(* What the arbiter and its clients promise.                               *)
(***************************************************************************)
EXTENDS QueueArbiter

ClientPcs == {"start", "exited", "register", "lock", "wait", "blocked", "relock",
              "check", "unlock", "ack", "running", "killed"}

ArbiterPcs == InitPcs \union
    {"receive", "add", "lock", "fill_pid", "fill_ids", "unlock_filled", "broadcast",
     "spin", "relock", "clear", "unlock_cleared", "respond", "aborted"}

Table == [free_id : Ids \ {0},
          client_info : [Slots -> [client_name : Names, id_for_arbiter : Ids,
                                   id_for_rmessages : Ids, is_awaken : BOOLEAN]]]

\* Every variable has its type.  In particular the arbiter's buffer holds a
\* message its switch knows (main_arbiter.c:180), because nothing but requests
\* ever carries the arbiter's type, and no client is given that identifier.
TypeOK ==
    /\ queue \in Seq(AMessage \union RegularMessage)
    /\ queue_exists \in BOOLEAN /\ shmem_exists \in BOOLEAN
    /\ response \in [resp_pid : Clients \union {Nobody}, resp_id_for_arbiter : Ids,
                     resp_id_for_rmessages : Ids, client_resp : BOOLEAN]
    /\ resp_mutex \in Clients \union {Arbiter, Nobody}
    /\ cond_waiters \subseteq Clients
    /\ a_pc \in ArbiterPcs
    /\ client_table \in Table
    /\ mes \in AMessage \union {NoMessage}
    /\ a_pc \in {"add", "lock", "fill_pid"} => mes \in RegisterMessages
    /\ a_pc = "respond" => mes \in RequestMessages
    /\ new_id \in [arbiter : Ids, rmessages : Ids]
    /\ restarts \in 0..MaxRestarts
    /\ pc \in [Clients -> ClientPcs]
    /\ client \in [Clients -> [id_for_arbiter : Ids, id_for_rmessages : Ids]]
    /\ sender_pc \in [Clients -> {"off", "read", "ask", "await", "post", "done"}]
    /\ dest_name \in [Clients -> Names]
    /\ dest_id \in [Clients -> Ids \union {NotFound}]
    /\ lines \in [Clients -> 0..MaxLines]
    /\ \A c \in Clients : sender_pc[c] \in {"ask", "await", "post"} => lines[c] > 0
    /\ stdout \in [Clients -> Seq(AMessage \union RegularMessage)]
    /\ kills \in 0..MaxKills

\* The client has copied its identifiers out of the response.
Registered(c) == pc[c] \in {"unlock", "ack", "running"}
IdsOf(c) == {client[c].id_for_arbiter, client[c].id_for_rmessages}

-----------------------------------------------------------------------------
\* Safety.

\* "Every client receives its own identifier" (task3.c:7): nobody holds identifier
\* 0, which receives every message, or the arbiter's 1, the two identifiers of a
\* client differ, and no two registered clients share one (client_table.c:64-67,
\* main_client.c:224-228).
IdsUnique ==
    /\ \A c \in Clients : Registered(c) =>
          /\ \A id \in IdsOf(c) : id > kArbiterId
          /\ client[c].id_for_arbiter # client[c].id_for_rmessages
    /\ \A c, d \in Clients :
          c # d /\ Registered(c) /\ Registered(d) => IdsOf(c) \intersect IdsOf(d) = {}

\* What a client believes are its identifiers is what the arbiter tells others
\* under its name: some slot holds its name with exactly its two identifiers.
RegistrationMatchesTable ==
    \A c \in Clients : Registered(c) => \E i \in Slots :
        LET info == client_table.client_info[i] IN
        /\ info.client_name = NameOf[c]
        /\ info.id_for_arbiter = client[c].id_for_arbiter
        /\ info.id_for_rmessages = client[c].id_for_rmessages

\* The mutex does what it is for: whoever is between its lock and its unlock
\* owns it, so the response is never filled or cleared under a reader
\* (main_arbiter.c:202-211, 222-231; main_client.c:218-231).
ResponseIsGuarded ==
    /\ a_pc \in {"fill_pid", "fill_ids", "unlock_filled", "clear", "unlock_cleared"} =>
        resp_mutex = Arbiter
    /\ \A c \in Clients : pc[c] \in {"wait", "check", "unlock"} => resp_mutex = c

\* client_resp crosses the mutex: it is TRUE only while the arbiter is waiting
\* for the very client its response names, so an old acknowledgement never ends
\* the spin of a later registration (main_arbiter.c:218, main_client.c:234).
AckIsForThisClient ==
    response.client_resp =>
        /\ a_pc \in {"broadcast", "spin", "relock", "clear"}
        /\ response.resp_pid \in Clients
        /\ pc[response.resp_pid] \in {"running", "killed"}

\* The arbiter takes the response for a living client away only after that
\* client has copied it (main_arbiter.c:218-229).
MailboxKeptUntilTaken ==
    [][\A c \in Clients :
        response.resp_pid = c /\ response'.resp_pid # c /\ pc[c] # "killed" => pc[c] = "running"]_vars

RequestsOf(c) == {i \in DOMAIN queue : queue[i].policy = "request"
                                    /\ queue[i].who_ask_id = client[c].id_for_arbiter}
RepliesTo(c)  == {i \in DOMAIN queue : queue[i].policy = "respond"
                                    /\ queue[i].type = client[c].id_for_arbiter}
BeingAnswered(c) == a_pc = "respond" /\ mes.who_ask_id = client[c].id_for_arbiter

\* A waiting sender has exactly one request under way, in the queue, in the
\* arbiter's hands or answered in the queue; nobody else has any.  An answer
\* therefore always belongs to the question last asked (main_client.c:258-262).
OneQuestionUnderWay ==
    \A c \in Clients : pc[c] = "running" =>
        Cardinality(RequestsOf(c)) + Cardinality(RepliesTo(c))
            + (IF BeingAnswered(c) THEN 1 ELSE 0)
        = IF sender_pc[c] = "await" THEN 1 ELSE 0

\* What stands in the queue under a client's identifier for the arbiter is an
\* answer, what stands under its other identifier is text: the reply the sender
\* reads is never a regular message (the FIXME at main_client.c:261), nor does
\* the reader print an answer.
NoMixups ==
    \A c \in Clients : Registered(c) => \A i \in DOMAIN queue :
        /\ queue[i].type = client[c].id_for_arbiter => queue[i].policy = "respond"
        /\ queue[i].type = client[c].id_for_rmessages => queue[i].policy = "regular"

\* A text is printed only by a client that bears the name it was typed for.
DeliveredToAddressee ==
    \A c \in Clients : \A m \in Range(stdout[c]) :
        m.policy = "regular" /\ m.mes.to = NameOf[c]

InTransit == {i \in DOMAIN queue : queue[i].policy = "regular"}

\* No text exists twice: not printed twice, nor printed and still queued, even
\* when processes die and the arbiter starts again.
TextsAreNotDuplicated ==
    LET Printed == {p \in UNION {{c} \X DOMAIN stdout[c] : c \in Clients} :
                        stdout[p[1]][p[2]].policy = "regular"}
        PrintedText(p) == stdout[p[1]][p[2]].mes
    IN /\ \A p, q \in Printed : p # q => PrintedText(p) # PrintedText(q)
       /\ \A i, j \in InTransit : i # j => queue[i].mes # queue[j].mes
       /\ \A p \in Printed, i \in InTransit : PrintedText(p) # queue[i].mes

\* The assertion on a full table ends the arbiter only when more clients than the
\* table holds have asked to register, whoever was killed and however often the
\* arbiter was started again: no request is taken twice
\* (main_arbiter.c:197, client_table.c:48-59).
AbortsOnlyOnTooMany ==
    a_pc = "aborted" =>
        Cardinality({c \in Clients : pc[c] \notin {"start", "exited", "register"}}) > MAX_N_CLIENTS

-----------------------------------------------------------------------------
\* The inductive invariant behind the registration, for clients that start
\* after ArbiterInit and an arbiter that is not killed.

\* Two pairs of consecutive identifiers, given by their first ones, are disjoint.
Apart(id1, id2) == id1 + 2 <= id2 \/ id2 + 2 <= id1

\* A pair the table has given away.
Issued(id1, id2) == 1 < id1 /\ id2 = id1 + 1 /\ id1 + 2 <= client_table.free_id

\* Nobody has started before the arbiter is ready.
StartsInOrder ==
    a_pc \in InitPcs =>
        /\ \A c \in Clients : pc[c] \in {"start", "exited"}
        /\ response.resp_pid = Nobody /\ ~response.client_resp

ClientIdsIssued ==
    \A c \in Clients : Registered(c) =>
        /\ Issued(client[c].id_for_arbiter, client[c].id_for_rmessages)
        /\ \A d \in Clients \ {c} : Registered(d) =>
              Apart(client[c].id_for_arbiter, client[d].id_for_arbiter)

\* The pair on its way to the response is nobody's.
NewIdsFresh ==
    a_pc \in {"lock", "fill_pid", "fill_ids"} =>
        /\ Issued(new_id.arbiter, new_id.rmessages)
        /\ \A c \in Clients : Registered(c) => Apart(client[c].id_for_arbiter, new_id.arbiter)

\* The response names a client only between the filling and the clearing, and
\* the pair it holds is nobody else's.
ResponseFresh ==
    response.resp_pid # Nobody =>
        /\ a_pc \in {"fill_ids", "unlock_filled", "broadcast", "spin", "relock", "clear"}
        /\ a_pc # "fill_ids" =>
            /\ Issued(response.resp_id_for_arbiter, response.resp_id_for_rmessages)
            /\ \A c \in Clients \ {response.resp_pid} : Registered(c) =>
                  Apart(client[c].id_for_arbiter, response.resp_id_for_arbiter)

\* A client that has copied its identifiers and not acknowledged yet is the one
\* the arbiter is waiting for; the arbiter goes on only once acknowledged.
AckPending ==
    /\ \A c \in Clients : pc[c] \in {"unlock", "ack"} =>
          response.resp_pid = c /\ a_pc \in {"broadcast", "spin"}
    /\ a_pc \in {"relock", "clear"} => response.client_resp

WaitersAreBlocked == \A c \in cond_waiters : pc[c] = "blocked"

RegistrationInv ==
    /\ WaitersAreBlocked /\ StartsInOrder /\ ResponseIsGuarded
    /\ ClientIdsIssued /\ NewIdsFresh /\ ResponseFresh
    /\ AckPending /\ AckIsForThisClient

-----------------------------------------------------------------------------
\* Liveness, under FairSpec.

Handshaking == a_pc \in {"lock", "fill_pid", "fill_ids", "unlock_filled", "broadcast",
                         "spin", "relock", "clear", "unlock_cleared"}

\* A client that is already blocked when the arbiter turns to its request gets
\* its identifiers and runs (main_arbiter.c:186-233, main_client.c:220-234).
WaiterIsServed ==
    \A c \in Clients :
        a_pc = "add" /\ mes.client_pid = c /\ c \in cond_waiters ~> pc[c] = "running"

\* A sender finishes every line it starts: neither the reply nor the room in the
\* queue is waited for forever, as long as the arbiter is not kept in a
\* registration (main_client.c:152-158, main_arbiter.c:261).
EveryLineIsFinished ==
    \A c \in Clients :
        []<>(~Handshaking) => (sender_pc[c] = "ask" ~> sender_pc[c] = "read")

\* What was posted to an existing identifier is printed by somebody.
PostedIsPrinted ==
    \A c \in Clients : \A n \in 1..MaxLines :
        []<>(~Handshaking) =>
            ((\E i \in InTransit : queue[i].mes.from = c /\ queue[i].mes.n = n)
                ~> (\E d \in Clients : \E m \in Range(stdout[d]) :
                        m.policy = "regular" /\ m.mes.from = c /\ m.mes.n = n))

\* Everyone who asks for registration is registered: the task gives every client
\* its identifier at start (task3.c:7).
EveryClientRegisters ==
    \A c \in Clients : pc[c] = "lock" ~> pc[c] = "running"
=============================================================================
