------------------------------ MODULE ChatLine ------------------------------
(***************************************************************************)
(* One direction of a chat between two users (dz8/task2.c): a line that    *)
(* loses, doubles and reorders nothing, is closed by the writer at the end *)
(* of its input, and is left by the reader only when it is closed and      *)
(* everything on it has been read.                                         *)
(***************************************************************************)
EXTENDS Naturals, Sequences

VARIABLES wire,    \* numbers of the texts on their way
          read,    \* how many have been read
          closed,  \* the writer has ended
          left     \* the reader has ended

lineVars == <<wire, read, closed, left>>

Init == wire = <<>> /\ read = 0 /\ closed = FALSE /\ left = FALSE

Write ==
    /\ ~closed
    /\ wire' = Append(wire, read + Len(wire) + 1)
    /\ UNCHANGED <<read, closed, left>>

Close == ~closed /\ closed' = TRUE /\ UNCHANGED <<wire, read, left>>

Read ==
    /\ wire # <<>> /\ ~left
    /\ read' = Head(wire) /\ wire' = Tail(wire)
    /\ UNCHANGED <<closed, left>>

Leave == closed /\ wire = <<>> /\ left' = TRUE /\ UNCHANGED <<wire, read, closed>>

Spec == Init /\ [][Write \/ Close \/ Read \/ Leave]_lineVars
=============================================================================
