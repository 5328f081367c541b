------------------------------ MODULE LeapYear ------------------------------
(***************************************************************************)
(* dz3/task3.c and task3_helper.c: a parent starts a helper, which tells   *)
(* it by one of two signals whether a year is a leap year, and spins on    *)
(* what its handlers note.                                                 *)
(***************************************************************************)
EXTENDS Integers

CONSTANTS Years,      \* what may be given on the command line
          MayFail     \* whether fork and exec may fail

VARIABLES year, sig_status, parent, helper, printed

vars == <<year, sig_status, parent, helper, printed>>

Init == /\ year \in Years /\ sig_status = 0 /\ printed = "nothing"
        /\ parent = "sigaction" /\ helper = "none"

SigAction == /\ parent = "sigaction" /\ parent' = "fork"
             /\ UNCHANGED <<year, sig_status, helper, printed>>

\* A failed fork is not looked at: the parent spins.
Fork == /\ parent = "fork" /\ parent' = "spin"
        /\ helper' \in IF MayFail THEN {"exec", "none"} ELSE {"exec"}
        /\ UNCHANGED <<year, sig_status, printed>>

\* A child that cannot become the helper aborts its parent.
Exec == /\ helper = "exec"
        /\ \/ helper' = "main" /\ UNCHANGED parent
           \/ MayFail /\ helper' = "ended" /\ parent' = "aborted"
        /\ UNCHANGED <<year, sig_status, printed>>

\* Mutant: centuries are forgotten.
CheckYear_Fourth(y) == y % 4 = 0

CheckYear(y) == (y % 4 = 0 /\ y % 100 # 0) \/ y % 400 = 0

\* Mutant: the first year is refused as well.
Refuses_One(y) == y <= 1

Refuses(y) == y <= 0

\* The parent's handler runs at once; an ended parent is not reached.
Answer == /\ helper = "main" /\ helper' = "ended"
          /\ sig_status' = IF Refuses(year) THEN sig_status
                           ELSE IF CheckYear(year) THEN 1 ELSE 2
          /\ UNCHANGED <<year, parent, printed>>

Verdict == IF sig_status = 1 THEN "leap year" ELSE "not leap year"

Spin == /\ parent = "spin" /\ sig_status # 0 /\ parent' = "ended"
        /\ printed' = Verdict
        /\ UNCHANGED <<year, sig_status, helper>>

Parent == SigAction \/ Fork \/ Spin
Helper == Exec \/ Answer

Next == Parent \/ Helper

-----------------------------------------------------------------------------
\* The days of all years before y.
DaysBefore(y) == LET p == y - 1 IN 365 * p + p \div 4 - p \div 100 + p \div 400

\* What is printed is what the calendar says, and nothing is printed of a year
\* that is none (task3.c:64-72, task3_helper.c:18-23).
VerdictIsCalendar ==
    printed # "nothing" =>
        /\ year > 0
        /\ printed = IF DaysBefore(year + 1) - DaysBefore(year) = 366
                     THEN "leap year" ELSE "not leap year"

\* For a year after 0 the parent ends, by itself or aborted, unless the fork
\* fails; for the other years it spins for ever (task3.c:63-73,
\* task3_helper.c:18).
ParentEnds ==
    (helper = "exec" /\ year > 0) ~> parent \in {"ended", "aborted"}
=============================================================================
