--------------------------- MODULE FileMessenger ----------------------------
(***************************************************************************)
(* dz1/messenger: every user runs a process that forks.  The child copies  *)
(* what the user types to the end of a common file, the parent copies the  *)
(* file to the user's screen.  Text is counted in units; a unit is the     *)
(* pair of its author and its number.                                      *)
(***************************************************************************)
EXTENDS Integers, SequencesExt

CONSTANTS Users,
          BUFFER_SIZE,   \* in units
          MaxTyped,      \* bound: units a user types
          MaxFaults      \* bound: failed forks and short writes

VARIABLES file,
          child, parent,   \* where the two processes of each user are
          typed,           \* units typed and read by the child
          to_file,         \* the child's buffer
          offset,          \* the parent's place in the file
          to_screen,       \* the parent's buffer
          screen,
          faults

childState == <<child, typed, to_file>>
parentState == <<parent, offset, to_screen, screen>>
vars == <<file, childState, parentState, faults>>

Init ==
    /\ file = <<>> /\ faults = 0
    /\ child = [u \in Users |-> "none"] /\ parent = [u \in Users |-> "none"]
    /\ typed = [u \in Users |-> 0]
    /\ to_file = [u \in Users |-> <<>>] /\ to_screen = [u \in Users |-> <<>>]
    /\ offset = [u \in Users |-> 0] /\ screen = [u \in Users |-> <<>>]

\* main; a failed fork, which returns -1, is taken for the parent's branch.
Start(u) ==
    /\ parent[u] = "none" /\ parent' = [parent EXCEPT ![u] = "read"]
    /\ \/ child' = [child EXCEPT ![u] = "read"] /\ UNCHANGED faults
       \/ faults < MaxFaults /\ faults' = faults + 1 /\ UNCHANGED child
    /\ UNCHANGED <<file, typed, to_file, offset, to_screen, screen>>

-----------------------------------------------------------------------------
\* SendToFile.

ReadInput(u) ==
    /\ child[u] = "read" /\ child' = [child EXCEPT ![u] = "write"]
    /\ \E n \in 1..Min({BUFFER_SIZE, MaxTyped - typed[u]}) :
          /\ to_file' = [to_file EXCEPT ![u] = [k \in 1..n |-> <<u, typed[u] + k>>]]
          /\ typed' = [typed EXCEPT ![u] = @ + n]
    /\ UNCHANGED <<file, parentState, faults>>

\* Mutant: the file is opened without O_APPEND, and a write goes after what the
\* same user wrote.
WriteAt_Own(u) == Len(SelectSeq(file, LAMBDA x : x[1] = u))

WriteAt(u) == Len(file)

Written(at, units) ==
    [k \in 1..Max({Len(file), at + Len(units)}) |->
        IF k \in (at + 1)..(at + Len(units)) THEN units[k - at] ELSE file[k]]

\* A write of n of the units; of fewer than all of them counts as a fault.
Short(n, units) ==
    faults' = faults + (IF n < Len(units) THEN 1 ELSE 0) /\ faults' <= MaxFaults

\* Mutant: a short write is written again from its beginning.
LeftToWrite_All(units, n) == IF n = Len(units) THEN <<>> ELSE units

\* A short write is logged and the rest of it forgotten.
LeftToWrite(units, n) == <<>>

WriteFile(u) ==
    /\ child[u] = "write"
    /\ \E n \in 0..Len(to_file[u]) :
          /\ Short(n, to_file[u])
          /\ file' = Written(WriteAt(u), SubSeq(to_file[u], 1, n))
          /\ to_file' = [to_file EXCEPT ![u] = LeftToWrite(@, n)]
    /\ child' = [child EXCEPT ![u] = IF to_file'[u] = <<>> THEN "read" ELSE "write"]
    /\ UNCHANGED <<typed, parentState>>

-----------------------------------------------------------------------------
\* ListenOnFile.

\* Mutant: the parent moves a whole buffer on, however much it has read.
Moved_Buffer(at, n) == at + BUFFER_SIZE

Moved(at, n) == at + n

ReadFile(u) ==
    /\ parent[u] = "read" /\ parent' = [parent EXCEPT ![u] = "write"]
    /\ LET n == Min({BUFFER_SIZE, Len(file) - offset[u]})
       IN /\ n > 0
          /\ to_screen' = [to_screen EXCEPT ![u] = SubSeq(file, offset[u] + 1, offset[u] + n)]
          /\ offset' = [offset EXCEPT ![u] = Moved(@, n)]
    /\ UNCHANGED <<file, childState, screen, faults>>

\* Here too the rest of a short write is forgotten.
WriteScreen(u) ==
    /\ parent[u] = "write" /\ parent' = [parent EXCEPT ![u] = "read"]
    /\ \E n \in 0..Len(to_screen[u]) :
          /\ Short(n, to_screen[u])
          /\ screen' = [screen EXCEPT ![u] = @ \o SubSeq(to_screen[u], 1, n)]
    /\ to_screen' = [to_screen EXCEPT ![u] = <<>>]
    /\ UNCHANGED <<file, childState, offset>>

Parent(u) == ReadFile(u) \/ WriteScreen(u)

Next == \E u \in Users : Start(u) \/ ReadInput(u) \/ WriteFile(u) \/ Parent(u)

Spec == Init /\ [][Next]_vars
=============================================================================
