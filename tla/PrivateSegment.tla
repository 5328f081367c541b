--------------------------- MODULE PrivateSegment ---------------------------
(***************************************************************************)
(* dz2/task3.c and task4.c: a writer leaves a message in a segment of its  *)
(* own, prints the segment's identifier and removes the segment when a key *)
(* is pressed; a reader is started with an identifier and prints what it   *)
(* finds.  A segment is named by its writer.                               *)
(***************************************************************************)
CONSTANTS Writers, Readers

VARIABLES writer, reader,    \* where each process is
          segment,           \* of each writer: its contents and whether it is
                             \* there, marked to be destroyed, or none
          shared_memory_id,  \* the argument of each reader
          shown              \* what each reader printed

vars == <<writer, reader, segment, shared_memory_id, shown>>

Init ==
    /\ writer = [w \in Writers |-> "shmget"] /\ reader = [r \in Readers |-> "start"]
    /\ segment = [w \in Writers |-> [status |-> "none", text |-> "empty"]]
    /\ shared_memory_id \in [Readers -> Writers]
    /\ shown = [r \in Readers |-> "nothing"]

\* A marked segment is destroyed when nobody has it attached any more.
Attached(w) == \/ writer'[w] \in {"strcpy", "printf", "shmdt"}
               \/ \E r \in Readers : reader'[r] \in {"printf", "shmdt"} /\ shared_memory_id[r] = w
Settled(s) == [w \in Writers |-> IF s[w].status = "marked" /\ ~Attached(w)
                                 THEN [s[w] EXCEPT !.status = "none"] ELSE s[w]]

Writes(w, from, to, s) ==
    /\ writer[w] = from /\ writer' = [writer EXCEPT ![w] = to] /\ UNCHANGED reader
    /\ segment' = Settled([segment EXCEPT ![w] = s])
    /\ UNCHANGED <<shared_memory_id, shown>>

ShmGet(w) == Writes(w, "shmget", "shmat", [status |-> "there", text |-> "empty"])

\* A failed shmat or shmctl ends the writer and leaves the segment.
ShmAt(w) == \E to \in {"strcpy", "failed"} : Writes(w, "shmat", to, segment[w])

\* Mutant: the identifier is printed before the message is there.
IdIsPrinted_Early(w) == writer[w] \notin {"shmget", "shmat", "failed"}
IdIsPrinted(w) == writer[w] \in {"shmdt", "remove", "ended", "killed"}

StrCpy(w) == Writes(w, "strcpy", "printf", [segment[w] EXCEPT !.text = "message"])
PrintId(w) == Writes(w, "printf", "shmdt", segment[w])
ShmDt(w) == Writes(w, "shmdt", "remove", segment[w])

Remove(w) == Writes(w, "remove", "ended", [segment[w] EXCEPT !.status = "marked"])

\* Interrupted while it waits for a key.
Kill(w) == Writes(w, "shmdt", "killed", segment[w])

Reads(r, from, to, text) ==
    /\ reader[r] = from /\ reader' = [reader EXCEPT ![r] = to] /\ UNCHANGED writer
    /\ segment' = Settled(segment) /\ shown' = [shown EXCEPT ![r] = text]
    /\ UNCHANGED shared_memory_id

\* A marked segment can still be attached.
Attach(r) ==
    LET w == shared_memory_id[r] IN
    IdIsPrinted(w) /\ Reads(r, "start", IF segment[w].status = "none" THEN "failed" ELSE "printf",
                            "nothing")
PrintText(r) == Reads(r, "printf", "shmdt", segment[shared_memory_id[r]].text)
Detach(r) == Reads(r, "shmdt", "ended", shown[r])

Next == \/ \E w \in Writers : \/ ShmGet(w) \/ ShmAt(w) \/ StrCpy(w) \/ PrintId(w)
                              \/ ShmDt(w) \/ Remove(w) \/ Kill(w)
        \/ \E r \in Readers : Attach(r) \/ PrintText(r) \/ Detach(r)

-----------------------------------------------------------------------------
\* What a reader prints is the message: the identifier is known only when the
\* message is there, and a segment that is removed while it is being read stays
\* as it is (task3.c:53-63, task4.c:15-24).
MessageIsWhole == \A r \in Readers : shown[r] \in {"nothing", "message"}
=============================================================================
