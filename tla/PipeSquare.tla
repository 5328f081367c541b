----------------------------- MODULE PipeSquare -----------------------------
(***************************************************************************)
(* dz4/task4: a manager makes a pipe, forks a process that reads a number  *)
(* from the terminal into the pipe and a process that takes it out and     *)
(* prints its square, and waits for both.  The manager's two indices and   *)
(* the two file names are exchanged: each process still gets its end, but  *)
(* the one forked first is the square.  All three hold both ends of the    *)
(* pipe, so that a reader of it never sees its end.                        *)
(***************************************************************************)
EXTENDS Integers, Sequences

CONSTANTS Numbers,     \* what the user may type; what is not a number leaves 0
          INT_MAX,
          MaxFaults    \* bound: failed forks and killed children

VARIABLES manager,
          proc_id,   \* of each child: not forked, forked, or -1
          child,     \* where each child is; a reaped one is gone
          pipe, user_number, printed, faults

vars == <<manager, proc_id, child, pipe, user_number, printed, faults>>

Children == {"read_term", "square"}

Init ==
    /\ manager = "fork1" /\ proc_id = [c \in Children |-> "none"]
    /\ child = [c \in Children |-> "none"]
    /\ pipe = <<>> /\ user_number = 0 /\ printed = <<>> /\ faults = 0

-----------------------------------------------------------------------------
\* task4_pipe_manager.c

Fork(c, from, to) ==
    /\ manager = from /\ manager' = to
    /\ \/ /\ proc_id' = [proc_id EXCEPT ![c] = "forked"]
          /\ child' = [child EXCEPT ![c] = "start"] /\ UNCHANGED faults
       \/ /\ proc_id' = [proc_id EXCEPT ![c] = "-1"]
          /\ faults < MaxFaults /\ faults' = faults + 1 /\ UNCHANGED child
    /\ UNCHANGED <<pipe, user_number, printed>>

\* Mutant: waitpid with WNOHANG.
WaitedFor_NoHang(c) == {d \in {c} : child[d] = "ended"}

\* waitpid of -1 waits for any child, and fails when there is none.
WaitedFor(c) ==
    {d \in IF proc_id[c] = "-1" THEN Children ELSE {c} : child[d] \notin {"none", "gone"}}

Wait(c, from, to) ==
    /\ manager = from /\ manager' = to
    /\ \/ WaitedFor(c) = {} /\ UNCHANGED child
       \/ \E d \in WaitedFor(c) : child[d] = "ended" /\ child' = [child EXCEPT ![d] = "gone"]
    /\ UNCHANGED <<proc_id, pipe, user_number, printed, faults>>

-----------------------------------------------------------------------------
\* task4_read_term.c

ReadTerm ==
    /\ child["read_term"] = "start" /\ child' = [child EXCEPT !["read_term"] = "write"]
    /\ user_number' \in Numbers \union {0}
    /\ UNCHANGED <<manager, proc_id, pipe, printed, faults>>

\* Mutant: the write fails and is not looked at.
Put_Lost == pipe
Put == Append(pipe, user_number)

WritePipe ==
    /\ child["read_term"] = "write" /\ child' = [child EXCEPT !["read_term"] = "ended"]
    /\ pipe' = Put
    /\ UNCHANGED <<manager, proc_id, user_number, printed, faults>>

\* task4_square.c; a square that is no int may come out as any int.
Squares(n) == IF n * n <= INT_MAX THEN {n * n} ELSE (-INT_MAX - 1)..INT_MAX

ReadPipe ==
    /\ child["square"] = "start" /\ child' = [child EXCEPT !["square"] = "ended"]
    /\ pipe # <<>> /\ pipe' = Tail(pipe)
    /\ \E s \in Squares(Head(pipe)) : printed' = Append(printed, s)
    /\ UNCHANGED <<manager, proc_id, user_number, faults>>

\* A child is killed, or exec fails.
Kill(c) ==
    /\ child[c] \in {"start", "write"} /\ child' = [child EXCEPT ![c] = "ended"]
    /\ faults < MaxFaults /\ faults' = faults + 1
    /\ UNCHANGED <<manager, proc_id, pipe, user_number, printed>>

\* The first fork, and the first wait, are the ones of the square.
Manager == \/ Fork("square", "fork1", "fork2") \/ Fork("read_term", "fork2", "wait1")
           \/ Wait("square", "wait1", "wait2") \/ Wait("read_term", "wait2", "ended")

Next == Manager \/ ReadTerm \/ WritePipe \/ ReadPipe \/ \E c \in Children : Kill(c)

-----------------------------------------------------------------------------
\* The manager ends after its children, whichever fork failed and whoever was
\* killed (task4_pipe_manager.c:36,45,54-55).
ManagerEndsLast == manager = "ended" => \A c \in Children : child[c] \in {"none", "gone"}

\* Without a fault all of them end and the square of what was typed is printed,
\* if it is an int; a killed read_term leaves the square waiting for a pipe it
\* holds open itself (task4_read_term.c:30-36, task4_square.c:35-43).
Squared(s) == user_number * user_number <= INT_MAX => s = user_number * user_number
AllEnd == <>(faults > 0 \/ (manager = "ended" /\ Len(printed) = 1 /\ Squared(printed[1])))
=============================================================================
