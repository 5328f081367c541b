---------------------------- MODULE PipeExchange ----------------------------
(***************************************************************************)
(* dz4/task3.c: a parent greets its child over one pipe and reads the      *)
(* answer from another.  Both keep all four ends open until they are done, *)
(* so a peer that died is never noticed.                                   *)
(***************************************************************************)
EXTENDS Integers, Sequences

CONSTANT MaxFaults   \* bound: a process killed

VARIABLES pipe1, pipe2, pc,
          restring,   \* what each process has read
          faults

vars == <<pipe1, pipe2, pc, restring, faults>>

Processes == {"parent", "child"}

Init == /\ pipe1 = <<>> /\ pipe2 = <<>> /\ faults = 0
        /\ pc = [parent |-> "fork", child |-> "none"]
        /\ restring = [p \in Processes |-> "nothing"]

\* A failed fork ends the parent.
Fork == /\ pc["parent"] = "fork"
        /\ \/ pc' = [parent |-> "write", child |-> "read"]
           \/ pc' = [pc EXCEPT !["parent"] = "failed"]
        /\ UNCHANGED <<pipe1, pipe2, restring, faults>>

Goto(p, from, to) == pc[p] = from /\ pc' = [pc EXCEPT ![p] = to]

ParentWrites == /\ Goto("parent", "write", "read")
                /\ pipe1' = Append(pipe1, "greeting")
                /\ UNCHANGED <<pipe2, restring, faults>>

\* A read takes all there is.
AllOf(pipe) == pipe[Len(pipe)]

ChildReads == /\ Goto("child", "read", "write") /\ pipe1 # <<>>
              /\ restring' = [restring EXCEPT !["child"] = AllOf(pipe1)]
              /\ pipe1' = <<>> /\ UNCHANGED <<pipe2, faults>>

ChildWrites == /\ Goto("child", "write", "ended")
               /\ pipe2' = Append(pipe2, "answer")
               /\ UNCHANGED <<pipe1, restring, faults>>

ParentReads == /\ Goto("parent", "read", "ended") /\ pipe2 # <<>>
               /\ restring' = [restring EXCEPT !["parent"] = AllOf(pipe2)]
               /\ pipe2' = <<>> /\ UNCHANGED <<pipe1, faults>>

Kill(p) == /\ faults < MaxFaults /\ faults' = faults + 1
           /\ pc[p] \in {"write", "read"} /\ pc' = [pc EXCEPT ![p] = "killed"]
           /\ UNCHANGED <<pipe1, pipe2, restring>>

Parent == ParentWrites \/ ParentReads
Child == ChildReads \/ ChildWrites
Next == Fork \/ Parent \/ Child \/ \E p \in Processes : Kill(p)

-----------------------------------------------------------------------------
\* If the fork succeeds and nobody is killed both end, the child with the parent's
\* greeting and the parent with the child's answer (task3.c:48-63,77-93).
AllEnd == <>(\/ pc["parent"] = "failed" \/ faults > 0
             \/ /\ \A p \in Processes : pc[p] = "ended"
                /\ restring = [parent |-> "answer", child |-> "greeting"])
=============================================================================
