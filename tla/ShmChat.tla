------------------------------ MODULE ShmChat -------------------------------
(***************************************************************************)
(* dz2/task5.c: a chat of the instances that gave the same number, over    *)
(* one page of shared memory: the text of the last line, and before it the *)
(* name of the terminal it was typed on, whose first byte tells that the   *)
(* line was not shown yet.  An instance is a parent, which puts what is    *)
(* typed into the page, and a child, which polls the page.                 *)
(***************************************************************************)
EXTENDS Integers, Sequences, FiniteSets

CONSTANTS Instances,
          NoName, TornName,   \* the first byte is 0; only the beginning is there
          MaxLines,           \* bound: lines typed by all together
          MaxFaults,          \* bound: instances interrupted and reads at the end
                              \* of input; none if names may be torn
          Calm                \* whether the users wait for each other, see Quiet

VARIABLES name, text,      \* the page
          parent, child,   \* where the two processes of each instance are
          typed, screen, quits, repeats,
          torn             \* whether strncpy may be seen half done, see WriteName

vars == <<name, text, parent, child, typed, screen, quits, repeats, torn>>

Init ==
    /\ torn \in BOOLEAN
    /\ name = NoName /\ text = <<NoName, 0>>
    /\ parent = [i \in Instances |-> "none"] /\ child = [i \in Instances |-> "none"]
    /\ typed = [i \in Instances |-> 0] /\ screen = [i \in Instances |-> <<>>]
    /\ quits = 0 /\ repeats = 0

InChat(pc) == {i \in Instances : pc[i] \notin {"none", "fork", "attach", "exited"}}
shm_nattch == Cardinality(InChat(parent)) + Cardinality(InChat(child))

Ready(i) == parent[i] = "fgets" /\ child[i] = "poll"

\* Calm users start and type one after the other, and a line only when two are
\* there and the last line was shown.
Quiet == /\ \A i \in Instances : Ready(i) \/ parent[i] \in {"none", "exited"}
         /\ name = NoName
Allowed == Calm => Quiet

\* Mutant: the bound counts instances, not processes.
TooMany_Four == shm_nattch > 4 /\ shm_nattch < 255
TooMany == shm_nattch > 2 /\ shm_nattch < 255

Start(i) ==
    /\ parent[i] = "none" /\ Allowed
    /\ parent' = [parent EXCEPT ![i] = IF TooMany THEN "exited" ELSE "fork"]
    /\ UNCHANGED <<name, text, child, typed, screen, quits, repeats, torn>>

Fork(i) ==
    /\ parent[i] = "fork"
    /\ \/ parent' = [parent EXCEPT ![i] = "attach"] /\ child' = [child EXCEPT ![i] = "attach"]
       \/ parent' = [parent EXCEPT ![i] = "exited"] /\ UNCHANGED child
    /\ UNCHANGED <<name, text, typed, screen, quits, repeats, torn>>

MoreFaults == ~torn /\ quits + repeats < MaxFaults

Step(pc, i, from, to) == pc[i] = from /\ pc' = [pc EXCEPT ![i] = to]

-----------------------------------------------------------------------------
\* The parent.

AttachParent(i) ==
    Step(parent, i, "attach", "fgets") /\ UNCHANGED <<name, text, child, typed, screen, quits, repeats, torn>>

LinesTyped == {line \in Instances \X (1..MaxLines) : line[2] <= typed[line[1]]}

TypeLine(i) ==
    /\ Step(parent, i, "fgets", "name") /\ Cardinality(LinesTyped) < MaxLines
    /\ Allowed /\ (Calm => Cardinality(InChat(parent)) = 2)
    /\ typed' = [typed EXCEPT ![i] = @ + 1]
    /\ text' = <<i, typed[i] + 1>>
    /\ UNCHANGED <<name, child, screen, quits, repeats, torn>>

\* At the end of input fgets puts nothing into the page, and the loop goes on.
EndOfInput(i) ==
    /\ Step(parent, i, "fgets", "name") /\ MoreFaults /\ repeats' = repeats + 1
    /\ UNCHANGED <<name, text, child, typed, screen, quits, torn>>

WriteName(i) ==
    /\ \/ Step(parent, i, "name", "fgets") /\ name' = i
       \/ torn /\ Step(parent, i, "name", "rest") /\ name' = TornName
       \/ Step(parent, i, "rest", "fgets") /\ name' = IF name = NoName THEN NoName ELSE i
    /\ UNCHANGED <<text, child, typed, screen, quits, repeats, torn>>

-----------------------------------------------------------------------------
\* The child.

AttachChild(i) ==
    Step(child, i, "attach", "clear") /\ UNCHANGED <<name, text, parent, typed, screen, quits, repeats, torn>>

ClearPage(i) ==
    /\ Step(child, i, "clear", "poll") /\ name' = NoName
    /\ UNCHANGED <<text, parent, typed, screen, quits, repeats, torn>>

\* Mutant: the name is not compared with the terminal's own.
IsForMe_Any(i) == TRUE

\* An empty name differs from the terminal's own too.
IsForMe(i) == name # i

\* The child reads the page twice, first the first byte and then, after it has
\* asked for the terminal's name, the whole name.
Poll(i) ==
    /\ Step(child, i, "poll", "compare") /\ name # NoName
    /\ UNCHANGED <<name, text, parent, typed, screen, quits, repeats, torn>>

Compare(i) ==
    /\ Step(child, i, "compare", IF IsForMe(i) THEN "printf" ELSE "poll")
    /\ UNCHANGED <<name, text, parent, typed, screen, quits, repeats, torn>>

Show(i) ==
    /\ Step(child, i, "printf", "shown")
    /\ screen' = [screen EXCEPT ![i] = Append(@, text)]
    /\ UNCHANGED <<name, text, parent, typed, quits, repeats, torn>>

\* Mutant: the first byte is left as it was.
AfterShown_Kept == name
AfterShown == NoName

Shown(i) ==
    /\ Step(child, i, "shown", "poll") /\ name' = AfterShown
    /\ UNCHANGED <<text, parent, typed, screen, quits, repeats, torn>>

\* Both processes are interrupted from the terminal.
Quit(i) ==
    /\ i \in InChat(parent) /\ MoreFaults /\ quits' = quits + 1
    /\ parent' = [parent EXCEPT ![i] = "exited"] /\ child' = [child EXCEPT ![i] = "exited"]
    /\ UNCHANGED <<name, text, typed, screen, repeats, torn>>

Going(i) == Fork(i) \/ AttachParent(i) \/ WriteName(i)
Polling(i) == \/ AttachChild(i) \/ ClearPage(i) \/ Poll(i) \/ Compare(i)
              \/ Show(i) \/ Shown(i)

Next == \E i \in Instances : Start(i) \/ Going(i) \/ TypeLine(i) \/ EndOfInput(i) \/ Polling(i) \/ Quit(i)

-----------------------------------------------------------------------------
\* A terminal shows the lines of another in the order they were typed, none of
\* them twice.  Its own it shows only if a name was seen half written, or after
\* another terminal has shown it: the name may be cleared between the two reads
\* of the child.  A parent at the end of its input shows the last line again
\* (task5.c:79-83,93-95).
ShownOnceInOrder ==
    /\ ~torn /\ repeats = 0 =>
          \A i \in Instances : \A k \in DOMAIN screen[i] :
              screen[i][k][1] = i =>
                  \E other \in Instances \ {i} : \E l \in DOMAIN screen[other] :
                      screen[other][l] = screen[i][k]
    /\ \A i \in Instances : \A j, k \in DOMAIN screen[i] :
          j < k /\ screen[i][j][1] = screen[i][k][1] =>
              screen[i][j][2] < screen[i][k][2] + (IF repeats = 0 THEN 0 ELSE 1)

\* "Only one-on-one chat is supported!" (task5.c:62): of instances that start one
\* after the other two at most are in the chat; those that start together count
\* nobody (task5.c:54-64,75,89).
AtMostTwo == Cardinality(InChat(parent)) <= 2

\* "Another instance of SHM-Chat receives and displays it." (task5.c:32): a line
\* typed while another instance polls is shown by it if all stay and type on, or,
\* when its name was seen half written, at least on the terminal it was typed on.
EveryLineIsShown(i, j) ==
    \A n \in 1..MaxLines :
        (parent[i] = "name" /\ typed[i] = n /\ child[j] = "poll")
            ~> (quits + repeats > 0 \/ \E v \in {j} \union (IF torn THEN {i} ELSE {}) :
                                 <<i, n>> \in {screen[v][k] : k \in DOMAIN screen[v]})
=============================================================================
