-------------------------------- MODULE Fifo --------------------------------
(***************************************************************************)
(* dz4/task1.c and task2.c: a writer makes the FIFO meow.fifo and writes   *)
(* one message into it, a reader reads from it once and prints what it     *)
(* read.  Nobody ever removes the FIFO, so a second writer fails.  The     *)
(* FIFO is external: an open waits for a peer at the other end, a read     *)
(* waits for bytes or for the last writer's end, and what nobody has open  *)
(* loses its contents.                                                     *)
(***************************************************************************)
EXTENDS Naturals, FiniteSets

CONSTANTS Writers, Readers,
          MaxKills   \* bound: processes killed

VARIABLES exists,    \* whether the FIFO's name is there
          contents,  \* messages in the FIFO
          pc, restring,
          kills

vars == <<exists, contents, pc, restring, kills>>
Procs == Writers \union Readers

Init == /\ exists = FALSE /\ contents = 0 /\ kills = 0
        /\ pc = [p \in Procs |-> "start"]
        /\ restring = [r \in Readers |-> "nothing"]

Goto(p, from, to) == pc[p] = from /\ pc' = [pc EXCEPT ![p] = to]

\* Those that have the FIFO open, or wait in open, in a state of all processes.
Open(procs, at) == {p \in procs : at[p] \in {"opening", "write", "read", "print", "close"}}

\* The last close empties the FIFO.
Kept(n) == IF Open(Procs, pc') = {} THEN 0 ELSE n

MakeFifo(w) ==
    /\ Goto(w, "start", IF exists THEN "failed" ELSE "open") /\ exists' = TRUE
    /\ UNCHANGED <<contents, restring, kills>>

FindFifo(r) ==
    /\ Goto(r, "start", IF exists THEN "open" ELSE "failed")
    /\ UNCHANGED <<exists, contents, restring, kills>>

\* open waits in "opening" for a peer, and lets the peers that wait go on.
Peers(p) == IF p \in Writers THEN Readers ELSE Writers
Opened(p) == IF p \in Writers THEN "write" ELSE "read"
OpenFifo(p) ==
    /\ pc[p] = "open"
    /\ pc' = [q \in Procs |->
                 IF q = p THEN IF Open(Peers(p), pc) = {} THEN "opening" ELSE Opened(p)
                 ELSE IF q \in Peers(p) /\ pc[q] = "opening" THEN Opened(q) ELSE pc[q]]
    /\ UNCHANGED <<exists, contents, restring, kills>>

\* Without a reader the writer is killed by SIGPIPE.
Write(w) ==
    /\ Goto(w, "write", IF Open(Readers, pc) = {} THEN "failed" ELSE "close")
    /\ contents' = Kept(contents + 1) /\ UNCHANGED <<exists, restring, kills>>

\* Mutant: a read does not wait for the writer, as with O_NONBLOCK.
MayRead_NonBlocking == TRUE
MayRead == contents > 0 \/ Open(Writers, pc) = {}

\* 20 bytes are more than the only message there is; without a writer the read ends.
Read(r) ==
    /\ Goto(r, "read", "print") /\ MayRead
    /\ restring' = [restring EXCEPT ![r] = IF contents > 0 THEN "message" ELSE "empty"]
    /\ contents' = 0 /\ UNCHANGED <<exists, kills>>

PrintRead(r) == Goto(r, "print", "close") /\ UNCHANGED <<exists, contents, restring, kills>>

Close(p) == /\ Goto(p, "close", "ended") /\ contents' = Kept(contents)
            /\ UNCHANGED <<exists, restring, kills>>

Kill(p) == /\ kills < MaxKills /\ kills' = kills + 1
           /\ pc[p] \in {"open", "opening", "write", "read"}
           /\ pc' = [pc EXCEPT ![p] = "killed"]
           /\ contents' = Kept(contents) /\ UNCHANGED <<exists, restring>>

Writing(w) == OpenFifo(w) \/ Write(w) \/ Close(w)
Reading(r) == OpenFifo(r) \/ Read(r) \/ PrintRead(r) \/ Close(r)

Next == \/ \E w \in Writers : MakeFifo(w) \/ Writing(w)
        \/ \E r \in Readers : FindFifo(r) \/ Reading(r)
        \/ \E p \in Procs : Kill(p)
-----------------------------------------------------------------------------
\* One reader shows the message; another shows nothing only because the message
\* was taken before, or somebody was killed (task2.c:22-36, task1.c:30-41).
OneShowsIt ==
    /\ \A r, other \in Readers :
          restring[r] = "message" /\ restring[other] = "message" => r = other
    /\ \A r \in Readers : restring[r] = "empty" =>
          kills > 0 \/ \E other \in Readers : restring[other] = "message"

\* A writer that waits ends when a reader comes, with the message shown.  A second
\* reader may come too late and then wait for ever (task1.c:28-49, task2.c:16-38).
MessageIsShown ==
    \A w \in Writers, r \in Readers :
        pc[w] = "opening" /\ pc[r] = "open"
            ~> (kills > 0 \/ (pc[w] = "ended" /\ \E q \in Readers : restring[q] = "message"))
=============================================================================
