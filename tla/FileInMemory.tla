---------------------------- MODULE FileInMemory ----------------------------
(***************************************************************************)
(* dz2/task1.c and task2.c: one program reads a file into a shared memory  *)
(* segment, chunk by chunk, and ends it with a zero byte; the other prints *)
(* the segment up to the first zero byte and removes it.  Both create the  *)
(* segment when there is none.  A byte of a file is the pair of the run    *)
(* that wrote it and its place.                                            *)
(***************************************************************************)
EXTENDS Integers, Sequences

CONSTANTS kMaxSize, kChunkSize,
          FileSizes,   \* sizes the file may have when the writer is run
          Zero,        \* the byte '\0'
          MaxRuns      \* bound: runs of each program

VARIABLES segment,         \* the number of the segment the key stands for, 0 if none
          segments,        \* contents of all segments
          writer, reader,  \* [pc, run, seg]: what each program does, its segment
          file_size, data_readed, move_ptr,   \* of the writer
          printed          \* what the reader's last run printed

writerState == <<writer, file_size, data_readed, move_ptr>>
vars == <<segment, segments, writerState, reader, printed>>

Empty == [k \in 0..(kMaxSize - 1) |-> Zero]

Init ==
    /\ segment = 0 /\ segments = <<>>
    /\ writer = [pc |-> "ended", run |-> 0, seg |-> 0] /\ reader = writer
    /\ file_size = 0 /\ data_readed = 0 /\ move_ptr = 0
    /\ printed = <<>>

\* shmget with IPC_CREAT, and shmat.
OpenSegment(proc) ==
    /\ proc.pc = "ended" /\ proc.run < MaxRuns
    /\ IF segment # 0 THEN UNCHANGED <<segment, segments>>
       ELSE segments' = Append(segments, Empty) /\ segment' = Len(segments')

Goto(proc, to) == [proc EXCEPT !.pc = to]
Opened(proc, to) == [pc |-> to, run |-> proc.run + 1, seg |-> segment']

-----------------------------------------------------------------------------
\* task1.c

StartWriter ==
    /\ OpenSegment(writer) /\ writer' = Opened(writer, "read")
    /\ file_size' \in FileSizes /\ data_readed' = 0 /\ move_ptr' = 0
    /\ UNCHANGED <<reader, printed>>

\* Where the next chunk goes: the count of all that was read is added.
NextPtr(n) == move_ptr + data_readed + n

NothingMore(to) ==
    writer' = Goto(writer, to) /\ UNCHANGED <<segment, segments, file_size, data_readed,
                                             move_ptr, reader, printed>>

\* A chunk, the end of the file, or an address outside the segment; what read has
\* copied before it meets that address is left out.
ReadChunk ==
    LET left == file_size - data_readed
        n == IF left < kChunkSize THEN left ELSE kChunkSize
    IN /\ writer.pc = "read"
       /\ \/ n = 0 /\ NothingMore("zero")
          \/ n > 0 /\ move_ptr + n > kMaxSize /\ NothingMore("failed")
          \/ /\ n > 0 /\ move_ptr + n <= kMaxSize
             /\ segments' = [segments EXCEPT ![writer.seg] =
                    [k \in DOMAIN @ |-> IF k \in move_ptr..(move_ptr + n - 1)
                                        THEN <<writer.run, data_readed + k - move_ptr>>
                                        ELSE @[k]]]
             /\ data_readed' = data_readed + n /\ move_ptr' = NextPtr(n)
             /\ UNCHANGED <<segment, writer, file_size, reader, printed>>

\* Mutant: the zero byte is forgotten.
Terminated_Not(seg) == segments[seg]

Terminated(seg) == [segments[seg] EXCEPT ![move_ptr] = Zero]

\* Past the segment the write is fatal.
WriteZero ==
    /\ writer.pc = "zero"
    /\ IF move_ptr >= kMaxSize THEN NothingMore("failed")
       ELSE /\ segments' = [segments EXCEPT ![writer.seg] = Terminated(writer.seg)]
            /\ writer' = Goto(writer, "getchar")
            /\ UNCHANGED <<segment, file_size, data_readed, move_ptr, reader, printed>>

\* getchar returns, shmdt.
EndWriter == writer.pc \in {"getchar", "failed"} /\ NothingMore("ended")

-----------------------------------------------------------------------------
\* task2.c

StartReader ==
    /\ OpenSegment(reader) /\ reader' = Opened(reader, "print")
    /\ UNCHANGED <<writerState, printed>>

Text(mem) ==
    LET end == CHOOSE k \in 0..kMaxSize : /\ k < kMaxSize => mem[k] = Zero
                                          /\ \A j \in 0..(k - 1) : mem[j] # Zero
    IN [k \in 1..end |-> mem[k - 1]]

PrintText ==
    /\ reader.pc = "print" /\ reader' = Goto(reader, "remove")
    /\ printed' = Text(segments[reader.seg])
    /\ UNCHANGED <<segment, segments, writerState>>

\* Mutant: the segment is not removed.
AfterRemoval_Kept == segment

\* A segment that was removed already has no key.
AfterRemoval == IF segment = reader.seg THEN 0 ELSE segment

Remove ==
    /\ reader.pc = "remove" /\ reader' = Goto(reader, "ended")
    /\ segment' = AfterRemoval
    /\ UNCHANGED <<segments, writerState, printed>>

Next == \/ StartWriter \/ ReadChunk \/ WriteZero \/ EndWriter
        \/ StartReader \/ PrintText \/ Remove

Spec == Init /\ [][Next]_vars

-----------------------------------------------------------------------------
\* A file of one chunk is whole, whatever was in the segment before
\* (task1.c:66-87, task2.c:48).
ChunkIsPrinted ==
    writer.pc = "getchar" /\ file_size <= kChunkSize =>
        Text(segments[writer.seg]) = [k \in 1..file_size |-> <<writer.run, k - 1>>]

\* "After all the text that was read we put the end of the string, to print it
\* all with one printf" (task1.c:85-86): what is in the segment while the writer
\* waits prints as the file, whatever was in the segment before.
WholeFileIsPrinted ==
    writer.pc = "getchar" =>
        Text(segments[writer.seg]) = [k \in 1..file_size |-> <<writer.run, k - 1>>]

\* No text is printed by two runs of the reader: what the first one printed is
\* removed, whether the writer still has it attached or not (task2.c:48-60).
PrintedOnce ==
    [][reader.pc = "print" /\ printed # <<>> /\ printed' # <<>> /\ reader' # reader
         => printed'[1][1] > printed[1][1]]_vars
=============================================================================
