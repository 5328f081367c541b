--------------------------- MODULE MCSharedMemory ---------------------------
(***************************************************************************)
(* Small instances of the programs that share memory: those of dz2, and    *)
(* from dz6 the message that a semaphore guards.  The assignments share    *)
(* nothing, so a behaviour is one of one of them.                          *)
(***************************************************************************)
EXTENDS SharedMessageProps

CONSTANTS Instances, i1, i2, NoName, TornName, MaxLines, MaxFaults,   \* ShmChat
          kMaxSize, kChunkSize, FileSizes, Zero, MaxRuns,             \* FileInMemory
          Owners, Guests                    \* PrivateSegment: its Writers, its Readers

\* A name is not empty, nor a byte of a file, and a chunk has bytes.
ASSUME SharedMemoryAssumption ==
    /\ i1 \in Instances /\ i2 \in Instances /\ NoName \notin Instances
    /\ kMaxSize \in Nat /\ kChunkSize \in Nat \ {0} /\ FileSizes \subseteq Nat /\ MaxRuns \in Nat
    /\ \A run \in 0..MaxRuns, k \in 0..kMaxSize : Zero # <<run, k>>

VARIABLES program,
          name, text, parent, child, typed, screen, quits, repeats, torn,  \* ShmChat
          segment, segments, writer, reader,                      \* FileInMemory
          file_size, data_readed, move_ptr, printed,
          owner, guest, own_segment, shared_memory_id, shown      \* PrivateSegment

\* Files of up to three chunks, in a segment the third may leave.
MCFileSizes == 0..6

Chat == INSTANCE ShmChat WITH Calm <- TRUE

File == INSTANCE FileInMemory

Private == INSTANCE PrivateSegment WITH
    Writers <- Owners, Readers <- Guests,
    writer <- owner, reader <- guest, segment <- own_segment

chatVars == <<name, text, parent, child, typed, screen, quits, repeats, torn>>
fileVars == <<segment, segments, writer, reader, file_size, data_readed, move_ptr, printed>>
privateVars == <<owner, guest, own_segment, shared_memory_id, shown>>
allVars == <<program, vars, chatVars, fileVars, privateVars>>

MCInit ==
    /\ Init /\ Chat!Init /\ File!Init /\ Private!Init
    /\ program \in {"message", "chat", "file", "private"}
    /\ program # "chat" => ~torn
    /\ program # "private" =>
          shared_memory_id = [r \in Guests |-> CHOOSE w \in Owners : TRUE]

IsMessage == program = "message" /\ UNCHANGED <<program, chatVars, fileVars, privateVars>>
IsChat == program = "chat" /\ UNCHANGED <<program, vars, fileVars, privateVars>>
IsFile == program = "file" /\ UNCHANGED <<program, vars, chatVars, privateVars>>
IsPrivate == program = "private" /\ UNCHANGED <<program, vars, chatVars, fileVars>>

MCNext == \/ IsMessage /\ Next
          \/ IsChat /\ Chat!Next
          \/ IsFile /\ File!Next
          \/ IsPrivate /\ Private!Next

MCSpec == MCInit /\ [][MCNext]_allVars

\* A process that runs goes on running; nobody has to start, type or quit.
FairSpec ==
    /\ MCSpec
    /\ \A w \in Writers : WF_allVars(IsMessage /\ WriterStep(w))
    /\ \A r \in Readers : WF_allVars(IsMessage /\ ReaderStep(r))
    /\ \A i \in Instances : /\ WF_allVars(IsChat /\ Chat!Going(i))
                          /\ WF_allVars(IsChat /\ Chat!Polling(i))

-----------------------------------------------------------------------------
\* Of instances that start one after the other two at most are in the chat, and
\* lines are shown in order, once, and on their own terminal only after another
\* (task5.c:61-64,79-83,93-95).
ChatIsOneOnOne == Chat!AtMostTwo /\ Chat!ShownOnceInOrder

\* What a reader of a segment prints is whole: a file of one chunk, whatever the
\* segment held, and the message of whoever printed its identifier
\* (dz2/task1.c:66-87, task2.c:48, task3.c:53-63, task4.c:15-24).
TextsAreWhole == File!ChunkIsPrinted /\ Private!MessageIsWhole

\* No text is printed by two runs of the reader (dz2/task2.c:48-60).
PrintedOnce == File!PrintedOnce

\* Whoever waits is served: a writer of a message when a reader comes to its
\* increment, and the line that one of calm users types is shown to another
\* (dz6/task3.c:104-125, task4.c:48, dz2/task5.c:32,76-83,92-96).
EverybodyIsServed == WaitingWriterEnds /\ Chat!EveryLineIsShown(i1, i2)
=============================================================================
