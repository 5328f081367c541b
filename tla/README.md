# A verification development for `computer_tech`

The repository holds the homework of a third-semester course on UNIX processes:
one directory per topic (`dz1` fork and exec, `dz2` shared memory, `dz3`
signals, `dz4` pipes, `dz5` threads, `dz6` semaphores, `dz7` shell scripts, `dz8`
message queues, `dz9` sockets). Most programs are a `main` of forty lines; what
makes them worth a model is that they are *concurrent*: processes that share a
queue, a segment of memory, a set of semaphores, a pipe or a file, with the
kernel in between. The largest of them, `dz8/queue_arbiter`, is a messenger with
a server process, a registration handshake through shared memory, a mutex and a
condition variable, and two threads in every client. It is the core of this
development.

## Inventory

| Part | Code | State it keeps | Operations | What is hard |
| --- | --- | --- | --- | --- |
| Arbiter process | `dz8/queue_arbiter/main_arbiter.c` | the client table, the receive buffer, the mailbox `AResponse` it fills | `ArbiterInit`, `ListenOnMessages`, `RegisterClient`, `SendDestId` | one mailbox for all clients, a spin on a flag outside the mutex, initialisation over live locks, a full table, a full queue |
| Client process | `dz8/queue_arbiter/main_client.c` | its two identifiers; the sender thread's name and destination | `main`, `RegisterInArbiter`, `GetReceiverId`, `SendToReceiver`, `SenderThreadTask`, `ReaderThreadTask` | asking before waiting, pairing an answer with its question, telling answers from texts |
| Client table | `dz8/queue_arbiter/client_table.c` | `MAX_N_CLIENTS` slots, `free_id` | `InitTable`, `AddToTable`, `GetIdForRMessagesFromName` | two identifiers per client, names that repeat, free slots that answer to the empty name |
| Shared mailbox | `dz8/queue_arbiter/handshake.h` | mutex, condition, pid, identifiers, `client_resp` | written by the arbiter, read by clients | everything above |
| Queue sender, receiver | `dz8/task1_1.c`, `task1_2.c` | a loop counter, a buffer; the queue of the key | attach or create, send five texts and LAST, receive until LAST, remove the queue | a queue removed under its users and created again under the same key |
| Queue chat | `dz8/task2.c` | nothing but the queue | send lines and an empty last message, print what comes under one's number | numbers shared by instances, one end for one last message, a queue nobody removes |
| Semaphore condition | `dz6/task1.c`, `task2.c` | a semaphore of a key | create, set to 1, take or give without waiting, print and remove | creating and setting are two calls; who removes it |
| Shared message | `dz6/task3.c`, `task4.c` | a segment and a semaphore of a key | write and wait for a reader, print and give, remove both | `SEM_UNDO` at exit, a second writer that resets the value, removal under other users |
| Ping-pong | `dz6/task5.c` | a number in a segment, a semaphore of a key | take the semaphore, add one, give it, wait for zero | each start resets the semaphore, failed calls are ignored, the first increment comes from outside; marked unfinished |
| File messenger | `dz1/messenger/src` | a common file; one offset per listener | copy input to the end of the file, copy the file to the screen | two appending writers, short writes, a fork that failed |
| Byte utilities | `dz1/messenger/cutils` | none | `SwapBytes`, byte order, logging | a length that is no multiple of 8 |
| Chat in shared memory | `dz2/task5.c` | a page: the name of a terminal and a text | count the attachments, type, poll, show, clear | no lock at all: the first byte of the name is the protocol |
| File in shared memory | `dz2/task1.c`, `task2.c` | a segment of a key | read a file into it in chunks, print and remove it | old contents, removal while attached, the pointer into the segment |
| Private segment | `dz2/task3.c`, `task4.c` | a private segment | write, print its identifier, remove; attach, print | removal while others read |
| Signal counter | `dz3/task4.c` | a flag, a counter | count SIGINT up to five | a handler between a test and a reset |
| Leap year | `dz3/task3.c`, `task3_helper.c` | a status | ask a helper, spin on the signal it sends | a helper that never answers |
| Factorial | `dz3/task5.c` | a partial product and the time it was begun | multiply; print both on SIGINT | a handler between two assignments, overflow |
| Other signals | `dz3/task1.c`, `task2.c` | - | a function pointer; an ignored signal | nothing |
| Square through a pipe | `dz4/task4_*.c` | a pipe | fork two children, read a number, print its square, wait | -1 as a pid, ends of the pipe that stay open, overflow |
| Exchange over two pipes | `dz4/task3.c` | two pipes | greet and answer | ends that stay open |
| FIFO | `dz4/task1.c`, `task2.c` | a FIFO that nobody removes | make it and write one message; read and print it | the two meet at `open`; a second reader, a second writer |
| Fork and exec, threads, scripts, sockets, process queue | `dz1/task*.c`, `dz5`, `dz7`, `dz9`, `dz6/proc_queue.c` | - | one call after another | nothing interleaves, or the peer is not in the repository |

The programs of different directories share nothing. Within one, programs meet
only through what the kernel keeps for them (queue, segment, semaphore, pipe,
file, signal), which is why most modules have the kernel's object as a variable
and a program counter for every process.

What makes each part correct, in a sentence: the arbiter gives every client
identifiers of its own and a client reads only what was sent to it; a LAST message
comes after everything its sender sent; a chat loses, doubles and reorders
nothing; a writer in shared memory goes on only after a reader and leaves
nothing behind; no player of ping-pong loses another's update; all screens of the file messenger agree; exactly the bytes of
two buffers are exchanged; a segment prints as the file; a program that waits for
a signal, a child or a pipe ends when it can, and not before.

## The messenger of `dz8/queue_arbiter`

### How it works

Everybody attaches to one System V queue and one segment of shared memory. A
client registers by posting `{type 1, kRegisterClient, pid, name}`; the arbiter
puts the client into its table under two fresh identifiers and publishes
`pid, id_for_arbiter, id_for_rmessages` in the shared mailbox under a
process-shared mutex, broadcasts a condition variable and spins on `client_resp`
until the client has acknowledged; then it clears the mailbox. A registered
client runs a sender thread (parse a line, ask the arbiter for the addressee's
identifier, wait for the answer under `id_for_arbiter`, post the text under the
addressee's `id_for_rmessages`) and a reader thread (print whatever arrives under
its own `id_for_rmessages`).

### Modules

| Module | Models | State and actions |
| --- | --- | --- |
| `MsgQueue` | the kernel's `msgsnd` and `msgrcv` (external, from how the programs call them) | operators: what matches, what is received, what remains, what fits, the messages of a type |
| `ClientTable` | `client_table.c` | a record `free_id`, `client_info`; `InitTable`, `AddToTable`, `GetIdForRMessagesFromName` |
| `QueueArbiter` | `main_arbiter.c`, `main_client.c`, `handshake.h` | one program counter for the arbiter's message thread (`a_pc`), for each client's main thread (`pc`) and sender thread (`sender_pc`); an action for every stretch of code between two points where another process can see a difference |
| `QueueArbiterProps` | - | type invariant, safety and liveness properties, the inductive invariant |
| `Messenger` | what `task3.c` asks for | a directory, mailboxes, lines being sent, texts printed |
| `QueueArbiterRefinement` | - | the refinement mapping from `QueueArbiter` to `Messenger` |
| `MCQueueArbiter`, `qa_*.cfg` | - | instances |
| `QueueArbiterProofs`, `QueueArbiterRefinementProofs` | - | theorems: registration, messages, the table's end; the refinement of `Messenger` |
| `SystemVProofs` | - | what the operators of `MsgQueue` and `Semaphores` do, as lemmas |

Abstractions. A text is the triple (who typed it, which line of theirs, for
whom). Message sizes matter only for the room in the queue: a message to the
arbiter counts `AMessageSize`, one to a client `RMessageSize` (the code's 48 and
136 bytes, taken as 1 and 3). The table operations are single steps: only the
arbiter's one message thread touches the table, so `table_mutex` excludes nobody.
`resp_policy` is written and never read. The mailbox is filled and cleared field
by field where the order can be seen. A client stands for its pid; pids are not
reused. Names are shorter than their buffers. Logging is left out.

Failures. A client can be killed at any step, with the mutex in hand or in the
middle of a line; the arbiter can be killed at any step and started again on the
queue, the locks and the mailbox it left (`KillArbiter`, `InitLocks` makes a held
mutex free and may forget blocked clients). `pthread_cond_wait` may wake
spuriously. `msgsnd` refuses types below 1 and nobody looks at its result.
A reply that is not a reply (`AsDestId`) yields whatever the union holds; the first
eight bytes of a text, which could be any `long`, are taken as one number above 1
(`TextAsId`), and no reader meets them before a restart or an early start. The error
returns of `ArbiterInit` (`main_arbiter.c:75-100`), which `main` ignores at line 51, are
left out: in the models its calls succeed.

### Runs

| Run | Instance | Shows |
| --- | --- | --- |
| `qa_registration` | 3 clients (two namesakes, one with the empty name), 1 kill, no lines | the registration protocol: unique identifiers, client and table agree, mutex discipline, acknowledgements stay with their registration, a response is kept until taken |
| `qa_messages` | 2 clients, 2 lines each, 1 kill, room for two texts | questions and answers are paired, answers and texts are never mixed up, texts reach a bearer of the name; the whole implements `Messenger`. No two clients bear one name here: what a name means among namesakes is settled by the theorems `Delivered` and `ImplementsMessenger` only |
| `qa_restart` | 2 clients, 1 slot, arbiter killed up to twice, spurious wakeups, clients may start early, 1 kill | even then no text is duplicated, and the arbiter aborts only when more clients asked than it has slots (`AbortsOnlyOnTooMany`: no request is taken twice) |
| `qa_live` | 2 clients, 2 lines each, fairness, smallest sufficient queue | blocked clients are served, lines are finished, posted texts are printed |
| `qa_lost_wakeup` | violated: `EveryClientRegisters` | the broadcast can come before the client waits; client and arbiter then wait for each other |

Bounds. Two clients are enough for every race of the handshake between a client
and the arbiter; the third makes two registrations interleave with a
registered client, and namesakes compete. Two lines let an answer meet the next
question. `QueueBytes` is 6 in the safety runs, so the queue really fills, and in
`qa_live` it is exactly the worst case that does not wedge the arbiter,
`(N - 1)` requests and one text. With less, the arbiter can block in
`SendDestId` on a queue full of requests that only it could take out.
`MaxRestarts` is 2 in `qa_restart`, so that texts and clients of two former lives
meet, and 0 elsewhere; `MaxKills` is 1 in the safety runs, as a second killed client repeats the
first, and 0 in `qa_live` and `qa_lost_wakeup`, whose questions a kill would answer by itself. All
runs have `CHECK_DEADLOCK FALSE`, since the system may really stop: users stop
typing and the arbiter waits for messages.

Fairness (`FairSpec`). Every thread that can take a step eventually takes one
(weak fairness of the arbiter, of each client's main, sender and reader threads):
the scheduler runs them all, and the arbiter's spin is preemptible. Nothing is
assumed of users, kills or spurious wakeups. `qa_live` has no spurious wakeups,
because under weak fairness an endless row of them could keep a mutex busy at
every moment somebody else is scheduled. `EveryLineIsFinished` and
`PostedIsPrinted` assume that no registration holds the arbiter for ever; whether
one can is `qa_lost_wakeup`'s question.

### Proofs

`QueueArbiterProofs` proves, for every number of clients, names, slots, lines
and kills:

* `TypeCorrect`: `Spec => []TypeOK`, with no further assumption. The interesting
  part is that the arbiter's buffer holds only messages its `switch` knows:
  identifiers below the first one issued never become a message type other
  than the arbiter's own.
* `ResponseGuarded`, `UniqueIds`, `AckMatches`, `MailboxKept`: under
  `~EagerStart` and `MaxRestarts = 0`. Both assumptions are necessary: a client
  that attaches between `shmget` and `pthread_mutex_init` can lock a mutex that is
  then initialised under it, read its own pid before the identifiers are filled
  in and register with identifier 0; and a restarted arbiter counts from 2 again
  while its old clients still use what it issued. None of the
  four is inductive by itself. `RegistrationInv` is: it says where the pair of
  identifiers issued last is at every moment - in the arbiter's locals
  (`NewIdsFresh`), in the mailbox (`ResponseFresh`), with a client that has not
  acknowledged (`AckPending`), with a registered client (`ClientIdsIssued`) - and that
  all these pairs are apart and below `free_id`. It also holds, as an invariant of TLC,
  on the instance of `qa_registration`.

About what happens to the messages of registered clients it adds:

* `MatchingTable`, `NeverMixed`, `OneQuestionAtATime` and `Delivered`, under the same
  two assumptions. `MessageInv` carries them: each message in the queue, in the
  arbiter's buffer or in a client's belongs under the identifier where it stands - a
  request under the arbiter's type with an `id_for_arbiter` that the table knows, an
  answer under such an identifier, a text under an `id_for_rmessages` of somebody who
  bears the name it was typed for - and the places where a client's one question can
  be (a request, the arbiter at work on it, an answer, and more than once nowhere)
  exclude each other.
* `TextsUnique`, with no assumption: kills and restarts leave texts lying about, but
  nothing makes a second one. `TextsInv` says that a text that exists has a
  number its author has already reached, and is behind while its author works on a
  later line (`Written`), and that no two places hold the same text (`NoneAlike`).
* `AbortsOnTooMany`, for finitely many clients. `RequestsInv` says that no client has
  two requests under way and that the slots in use are never more than the clients
  that have asked and whose request is no longer under way.

`SystemVProofs` is what these proofs and those of `dz6` and `dz8` rest on. For queues:
the oldest match is a match, what remains is the same messages in the same order
with one gap closed (`RemainingPositions`). For semaphores: `Outcome` says in one
predicate what every operation leaves once the kernel has served the waiting - who was
served, by how much the value fell, whose adjustment grew, that zero-waiters go at
zero - and a lemma per operation (`AddOutcome`, `TakeOutcome`, `SetValOutcome`,
`UndoOutcome`, `ZeroOutcome`, `RemoveOutcome`, `GetOutcome`) shows it.

`QueueArbiterRefinementProofs` proves that `QueueArbiter` implements `Messenger`
(`ImplementsMessenger : Spec => MessengerSpec`), under `~EagerStart` and
`MaxRestarts = 0`: after a restart the table is empty while texts still lie under the
identifiers it gave away, and no mapping can hide that. `MapInv` adds two facts to the
invariants above: the slots are filled in their order with the pairs 2 and 3, 4 and 5,
and so on (`FilledInOrder`: a name keeps its first holder when a slot is filled, and the
mailboxes are the odd identifiers), and who has no identifiers has no mailbox
(`NobodysMailbox`). A lemma per visible step then says which step of `Messenger` it is:
`AddClient` announces a name (`AddAnnounces`), `CheckResponse` takes possession
(`CopyOwns`), `ReadLine` types, `SendDestId` resolves or answers a dead client,
`SendToReceiver` posts or drops, `ReaderThreadTask` prints the head of its mailbox,
`KillClient` loses a line; the others leave what users see as it is, in particular
`ReceiveDestId`, because the line counts as resolved since the answer stands in the
queue and no second answer can be there (`OnlyReply`).

A mailbox is the subsequence of the queue under one identifier, `OfType(queue, b)`. It is
defined by counting (the k-th message of the type is the one with k - 1 before it) and not by
the recursive `SelectSeq`, so that what a send and a receive do to it can be
proved: `PickedSent` and `PickedReceived` of `SystemVProofs`, by way of the counting
lemma `CountedOnce`.

Liveness is out of the prover's reach.

## The other programs

| Module | Models | Checked by |
| --- | --- | --- |
| `ProducerConsumer`, `QueueProofs` | `dz8/task1_1.c`, `task1_2.c`: any number of senders and receivers, queues of one key one after another, removal, kills | `MCQueues` |
| `QueueChat`, `ChatLine`, `QueueProofs` | `dz8/task2.c`: sending and receiving process of every instance; `ChatLine` is the abstract specification of one direction | `MCQueues` |
| `Semaphores` | semaphore sets with `SEM_UNDO` (external, from the calls in `dz6`) | with `SharedMessage`, `PingPong` |
| `SharedMessage`, `SharedMessageProps` | `dz6/task3.c` (writers) and `task4.c` (readers) | `MCSharedMemory` |
| `SemCondition` | `dz6/task1.c` (takers) and `task2.c` (givers) | `MCSemaphores`, `one_at_a_time` |
| `PingPong` | `dz6/task5.c`: players, and readers of `task4.c` on the same key whose increment starts the game | `MCSemaphores` |
| `ShmChat` | `dz2/task5.c`: parent and child of every instance | `MCSharedMemory` |
| `FileInMemory` | `dz2/task1.c` (writer) and `task2.c` (reader), run repeatedly | `MCSharedMemory`, `file_gap` |
| `PrivateSegment` | `dz2/task3.c` (writer) and `task4.c` (reader); a segment is named by its writer | `MCSharedMemory` |
| `SignalCounter` | `dz3/task4.c`: the handler runs between any two steps of `main` | `MCSignalsAndPipes` |
| `LeapYear` | `dz3/task3.c` and its helper | `MCSignalsAndPipes` |
| `Factorial` | `dz3/task5.c`: the handler runs between any two steps of `main` | `MCSignalsAndPipes` |
| `PipeSquare` | `dz4/task4_pipe_manager.c`, `task4_read_term.c`, `task4_square.c` | `MCSignalsAndPipes` |
| `PipeExchange` | `dz4/task3.c` | `MCSignalsAndPipes` |
| `Fifo` | `dz4/task1.c` (writer) and `task2.c` (reader); the FIFO is external | `MCSignalsAndPipes` |
| `FileMessenger`, `FileMessengerProps`, `FileMessengerProofs` | `dz1/messenger/src/source/main.c` | `MCMessenger` |
| `SwapBytes` | `dz1/messenger/cutils/source/swap.c`, memory as a function from addresses to bytes | `MCSignalsAndPipes` |

Flags that another process or a handler sets (`client_resp` of the arbiter,
`sig_occured` of `dz3/task4.c`) are read in loops and are not `volatile`, which makes
it the compiler's choice whether they are read again. The models follow the build of
the makefiles (`-Og` and the sanitizers), which reads them in every round; with
optimisation gcc reads `client_resp` once before the loop, and the arbiter would
never leave it.

An action is the code from one call that another process can notice to the next
one. A process is a value of a set given as a constant, its place a string named
for the call it is about to make; a process in `failed` has left through an error
path. Texts are records of their author and number, never characters.

Left out: in `FileInMemory`, what `read` has copied of a chunk before it meets the end of
the segment (`task1.c:65`), and two runs of the same program at one time (there is one
writer and one reader, each run again and again). In `ProducerConsumer` a sender's failed
`msgsnd` and its `msgctl` are one step, since the identifier is that of a removed queue and
nobody can see the second call. In `PipeSquare` the child forked first is the square: the manager's file names
are exchanged (`task4_pipe_manager.c:23-24`).

`MCQueues`, `MCSemaphores`, `MCSharedMemory` and `MCSignalsAndPipes` put the programs of
one topic into one run: each extends one component with theorems, whose properties the
run checks under their own names, and instantiates the others, whose constants are its own
(`QueueProofs`, `SemaphoreProofs`, `SharedMemoryProofs` and `SignalsAndPipesProofs` extend the MC module of
their topic and prove the properties of all of its components). The variable `program` is
chosen at the start and only that program moves: they are separate assignments, and
interleaving them would multiply their states. They share nothing, except that the two
pairs of programs in `MCQueues` derive their key from the same file, `queue_meow`; what
happens when both are run at the same time is left out. Fairness is stated of its actions only. A property
of an MC module such as `AllEnd` is the conjunction of what its components' modules
promise under the names in brackets below.

### Runs

| Run | Instance | Shows |
| --- | --- | --- |
| `queues` | `ProducerConsumer`: 2 senders of 2 texts, 2 receivers, room for 2 texts, 2 queues, 1 kill. `QueueChat`: a pair, and a third instance that listens to one of their numbers and has none to send to; 2 lines each, room for 2, 1 kill | that a LAST taken leaves no text of its sender in a queue (`LastMeansAll`: each was printed, or is in the buffer of a receiver at its `printf` or killed before it), no text twice (`PrintedOnceInOrder`), who may remove a queue (`OnlyTheEndRemoves`), that one last message ends one child (`OneEndForOneLast`), that LAST is reached and a pair ends (`EndsAreReached`: `EndIsReached`, `BothEnd`), the refinement of `ChatLine` (`ChatIsALine`) |
| `semaphores` | `SemCondition`: 2 takers, 2 givers, as many sets as processes. `PingPong`: 3 players, 2 increments from outside, turns until the number is 2, 1 fault | `ConditionIsRemoved`; `NoUpdateIsLost`, `TurnsAlternate`, and a waiting player goes on (`WaiterGetsATurn`) |
| `shared_memory` | `SharedMessage`: 2 writers, 2 readers, 2 sets, 1 kill. `ShmChat`: 3 calm users, 3 lines together, 1 interrupt, 1 read at the end of input or torn names. `FileInMemory`: 2 runs of each program, 0 to 6 bytes, chunks of 2, a segment of 7. `PrivateSegment`: 2 writers, 2 readers with either one's identifier | `NobodyPassesUnread`, `ZeroWillCome`, `NothingIsLeft`; `ChatIsOneOnOne` (`AtMostTwo`, `ShownOnceInOrder`); `PrintedOnce`; `TextsAreWhole` (one chunk of a file, a private message); `EverybodyIsServed` (`WaitingWriterEnds`, `EveryLineIsShown`) |
| `signals_and_pipes` | `SwapBytes`: lengths 0 to 17; 8 signals; 11 years around the rule's exceptions with failing `fork` and `exec`; numbers -4..4, an `INT_MAX` of 9, 2 faults; an exchange with 1 kill; a FIFO with 2 writers, 2 readers and 1 kill; 8 factorials in five bits | `Exchanged`: exactly the bytes of the buffers change places; `AnswersAreRight` (the calendar's verdict, the product shown with its time); `ManagerEndsLast`; `OneShowsIt`; `AllEnd` (whoever waits for a child, a signal, a pipe or a FIFO, and `SignalIsFollowedByCount`) |
| `messenger` | `FileMessenger`: 2 users, 3 units each, a buffer of 2, 1 fault | `ScreensAgree`, `TypedOrder`, `EveryoneSeesAll` |
| `file_gap` | violated: `WholeFileIsPrinted` | the writer moves its pointer by a running total, so that from the third chunk on a gap breaks the text off |
| `one_at_a_time` | violated: `OneAtATime` | a second taker gives the semaphore its value again while the first is inside |

Bounds. Two processes of a kind meet every race between two of the kind; a third
one appears where the code speaks of it (a third chat user) or where it makes two
compete (the third chat instance). Buffers and queues hold less than what is
sent, so that they fill. `INT_MAX`, the sizes of the segment and of a chunk are
scaled down so that what overflows in the code overflows here. One kill, one
interrupt or one short write at any step shows what a failure leaves behind; two
faults in `PipeSquare` let both children be missing. `MaxSets` and `MaxQueues` end
an endless succession of removed and newly created objects. Lengths up to 17
pass through every branch of `SwapBytes` and two of its eight-byte rounds. In
`PingPong` `MaxNum` ends the game, whose players never stop, and a second increment
from outside counts as a fault.
Every run ends in states where all programs have ended, hence
`CHECK_DEADLOCK FALSE`.

Fairness. A process that runs gets the processor, hence weak fairness of the
disjunction of its steps; a pending signal is delivered; in `PipeSquare` the user
types a number, since the properties begin there. Nothing is assumed of users,
of who starts a program, and of kills. A process that waits in the kernel is
served by the other process's call (that is how `msgrcv`, `semop` and `read` wake
their waiters), so that a waiting process needs no fairness of its own.

Conditions under which a property is claimed, all of which the code can leave:

* `ShownOnceInOrder` and `EveryLineIsShown` are claimed for *calm*
  users of `ShmChat` (one starts after the other, and types when the last line was
  shown) whose input does not end: at the end of input `fgets` fails unseen and the
  parent announces the last line again and again. Three instances started together all read an attachment count of 0 and
  all enter; a line typed too soon overwrites the one before it. With a name seen
  half written a line may come up on its own terminal and be cleared there.
* Even calm users may see their own line on their own terminal: line 79 reads the page
  twice, for the first byte and for the name, with `ttyname` in between (`Poll`,
  `Compare`), and the other child may clear the name there; the empty name is then
  somebody else's. `ShownOnceInOrder` says that this comes only after another terminal
  has shown the line, and once.
* `LastMeansAll` leaves out no receiver, but a text that another one took before the LAST
  may still be in its buffer, or lost with it. `EndIsReached` does not hold when a receiver
  is killed between `msgrcv` of a LAST and `msgctl` (`Receive`, `RemoveQueue`): the queue
  stays, without a LAST, and the others wait.
* `TextsAreWhole` is claimed for files of one chunk; `file_gap` shows what happens
  to longer ones.
* `SignalIsFollowedByCount` does not say that five signals are enough: a signal
  between the test of the flag and its reset is merged with another.
* `AtMostTwo` is claimed for users of the chat who start one after the other.
* `NoUpdateIsLost` and `TurnsAlternate` are claimed while there is one increment
  from outside and the set is not removed; a removed set lets every player in, since
  nobody looks at `error_occured`. `TurnsAlternate` also excludes a killed player: the
  kernel's undoing may give the last one a second turn. Before the first increment,
  and after it is lost to a player that starts while it lies unused, all players
  wait; `WaiterGetsATurn` is about those who wait while somebody has a turn.
* `OneShowsIt` allows an empty reader when a writer was killed or the message was
  taken before; `AllEnd` speaks of a reader that opens the FIFO while a writer waits.
* `EndsAreReached`, `EverybodyIsServed`, `WaiterGetsATurn` and `AllEnd` except the cases named in their
  comments: a killed partner, a fork that failed, a year the helper refuses, an
  overflowing square, and a second reader that comes when the writer has gone.

### Proofs

For every value of the constants, with the hypotheses named:

* `QueueProofs`, about the sender and receiver (nobody is both): `OnlyLastRemoves`,
  `OncePrinted`, `LastComesLast`; the empty buffer is no text (`Roles`). What a receiver has
  `taken` is what it has printed and the text in its buffer. The inductive `Inv` says that a
  text that has been sent stands in its sender's queue or has been taken (`NothingLost`), that
  a queue holds its senders' texts in the order of their numbers, that what has been taken
  was sent before all of its sender that still stands there (`TakenFirst`), and that an
  unprinted text is only in the buffer of a receiver between `msgrcv` and `printf` or
  killed there (`InHand`).
* `QueueProofs`, about the chat (`QueueChatAssumption`: finitely many instances, nobody listens
  to the number 0, which takes everything, and one number joins a to b alone, without which the
  line has two ends on one side; the other numbers may be shared at will):
  * `EveryLastEndsOne`. `ChatInv` says that an empty message in the queue is the only and
    newest one of its writer, who has ended or been killed (`LastIsOnce`), so that the set of
    empty messages under a number can be counted, and that this count and the children ended
    lie between the parents that ended normally and those with the killed (`Balanced`). A step
    either ends nobody under the number, or adds one writer and one message, or moves
    one from the messages to the children.
  * `ChatImplementsLine`. `LineInv` adds that the lines of a still in the queue are numbered on from
    the last b has printed (`InOrder`) up to those a has typed (`AllTyped`), and that an ended b
    leaves nothing of a behind (`LeftEmpty`). Each step is one of `Writes`, `Ends`, `Reads`,
    `Leaves`, the steps of `ChatLine`, or `Passes`, a stutter.
  * `RunsOfEither`: behaviours of `MCSpec` are behaviours of both programs' own specifications.
* `SharedMemoryProofs` (for the message: nobody is both writer and reader, finitely many
  readers; for the file: sizes that are natural numbers, chunks of at least one byte, a
  `Zero` that is no byte of a file; for the chat: no instance has the empty name). The last three
  are theorems of `MCSpec`, in which each program moves only by itself (`ProgramsApart`).
  * `PassesOnlyRead`, `ZeroIsToCome`, `MessageLeavesNothing`. `MessageInv` says that until
    a reader has printed the semaphore is untouched and every writer past its decrement
    still waits (`Untouched`), that each increment is one of a reader about to exit, which
    undoes it (`ToBeUndone`), that the value is never more than those while no writer was
    killed (`ZeroIsDue`), and that the set and the segment that exist have a writer
    that is still to remove them (`SetHasOwner`, `SegmentHasOwner`).
  * `ChatStaysOneOnOne`: the two parts of `ChatIsOneOnOne`. `ChatInv` counts those who came,
    attached or not (`AtMostTwoCome`): when a calm user starts, all of them are attached with both
    processes, so that the count of attachments is twice theirs. The page holds the last line
    of its author and no terminal a later one (`LastLine`); and while no parent has met the end of
    its input, a line is announced once, when nobody is about to show the one before, and
    whoever has shown it finds the name cleared (`AnnouncedOnce`). `OwnAfterOthers` says that
    a child that compares an empty name with its own user's line on the page does so after
    another has shown the line, in particular that no newcomer clears the page while a line
    is announced.
  * `WholeTexts` and the action property `PrintsOnce`. `FileInv` says that of a file of one
    chunk what was read stands at the beginning and the zero byte right after it
    (`OneChunk`), that a later segment is written by later runs (`LaterRuns`), and that what is
    still to be printed was written after what was printed last (`PrintedBefore`).
    What `printf` shows is a `CHOOSE` of the place of the first zero byte, which exists and is
    unique (`TextIs`, `TextUpToZero`). `PrivateInv` says that the text of a segment whose
    identifier can be known was copied, and that it is there while it is attached.
* `SemaphoreProofs` (nobody is both player and kicker): `NothingLost` and the action
  property `NobodyTwice`. `TurnInv` says that the one increment is in the semaphore or with
  the one player inside (`OneTurn`), that the kernel would add only for that player
  (`Adjusted`), and that who wrote last finds the semaphore at zero when it asks again
  (`Rests`) - until another player's exit serves it, which has then written after it.
  `SemaphoreIsRemoved` (no hypotheses): `ConditionInv` says that while a semaphore exists somebody
  who has it is inside or about to make an operation that cannot fail (`WillRemove`).
* `FileMessengerProofs` (the sizes are natural numbers): `OrderOfTyping`,
  `SameConversation`. `Inv` says that a user's buffer holds the last units typed and the
  file only earlier ones of that user (`BufferIsLatest`), and that a screen with what is
  about to be written to it is the beginning of the file up to the parent's offset, or has
  already missed something (`ScreenIsFile`).
* `SignalsAndPipesProofs` (a length and a memory for `SwapBytes`; years that are integers,
  an `unsigned` of at least one bit, nobody both writer and reader): theorems of `MCSpec`,
  in which each program moves only by itself (`ProgramsApart`).
  * `SwapBytesTypes` (types, and where the two pointers stand at each stage) and
    `SwapBytesExchanges` (when the function returns exactly the bytes of the two buffers
    have been exchanged). The inductive invariant says that the bytes below the pointers
    are exchanged, the others untouched, and that what is left to do is what the remaining
    bits of the trailer add up to.
  * `RightAnswers`: the two parts of `AnswersAreRight`. `LeapInv` says that only a helper
    that has ended has sent a signal, and which; `LeapYearsHaveADayMore` is the
    arithmetic: the rule holds of a year exactly when the days before the next year are
    366 more. `ProductInv` says at each place of `main` whose factorial the result is a
    part of; that `factorial`, a recursive function, satisfies its equation is proved
    by least counterexamples over sets (`TablesExist`, `TablesAgree`, `FactorialIs`), and
    `ModMul` lets each product be reduced on its own.
  * `ManagerIsLast`: a child that was waited for is gone (`SquareInv`).
  * `OneReaderShowsIt`: `FifoInv` says that one writer makes the FIFO (`OneMaker`), that the
    message is nowhere before the write, and then in the FIFO or with one reader, or lost
    (`OneMessage`), and that without kills whoever reads finds an open writer or the message
    (`NobodyMissesIt`).

Each of these invariants was first checked by TLC on the instance of the component's run.
Their type invariants are their first conjuncts. The bounds on kills, faults and
queues are constants like any other there: the theorems hold for all their values.

## What is not modelled

The parts listed with status `not_modelled` in `PROJECT.json`, each with its
reason there: diagnostic output, shell scripts, programs that run one system
call after another with nobody to interleave with (`dz1/task*.c`, `dz5`, where threads
share nothing and are joined at once), and the two socket programs, whose peers are not in the
repository.

What is modelled but only model-checked: the liveness properties and everything with
`ENABLED`, which the prover does not do.

## Plan

1. Done: the messenger of `dz8/queue_arbiter` (the largest program and the only
   one with a server), its abstract specification, its type invariant and the
   safety of its registration as theorems; then a module for every other program
   in which processes meet, and the proof of `SwapBytes`.
2. Done since: the FIFO, the factorial with its signal handler, the private segment
   and the unfinished ping-pong; the full table; a third user in the chat; a run that
   shows two takers inside at once. Left in the core is what its code does not do yet:
   `DisconectService` is empty, and nothing calls `RemoveNotAwaken`.
3. Demonstrate next, by a run that is expected to fail: identifiers shared after
   a restart of the arbiter; a client that starts during `ArbiterInit`; messages of
   a dead client that stay (`task3.c:4`); five handled signals that are not enough (`dz3/task4.c:6`); texts left unread by
   a chat instance that took another's last message (`dz8/task2.c:3-4`).
4. State and prove next, program by program, the type invariants of the other
   programs (those of the list in 5 have theirs) and what is now left to their
   proofs: the numbers and the order of the chat's texts, that the counter does not end before five signals, that the
   square printed is that of the number typed.
5. Proved: every safety property that a run checks, and the refinements of `Messenger` and
   of `ChatLine`.
