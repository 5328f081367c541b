----------------------------- MODULE Factorial ------------------------------
(***************************************************************************)
(* dz3/task5.c: a program that computes one factorial after another, modulo*)
(* the size of unsigned, and on SIGINT prints how far the present one is   *)
(* and for how long it has been computed.  The handler may run between any *)
(* two steps of main, which stands still meanwhile.                        *)
(***************************************************************************)
EXTENDS Integers

CONSTANTS UINT_MAX,
          n_iters

VARIABLES pc, n, i,        \* where main is, and the locals of the two loops
          factorial_res,
          started,         \* the n that factorial_starting_time belongs to, or -1
          shown            \* what the handler printed last: both of them

vars == <<pc, n, i, factorial_res, started, shown>>

Init == /\ pc = "sigaction" /\ n = 0 /\ i = 1
        /\ factorial_res = 0 /\ started = -1 /\ shown = <<>>

Step(from, to) == pc = from /\ pc' = to /\ UNCHANGED shown

SigAction == Step("sigaction", "reset") /\ UNCHANGED <<n, i, factorial_res, started>>

\* Mutant: the next factorial goes on with the result of the last.
FirstProduct_Last == IF factorial_res = 0 THEN 1 ELSE factorial_res
FirstProduct == 1

Reset == /\ Step("reset", "clock") /\ factorial_res' = FirstProduct /\ i' = 1
         /\ UNCHANGED <<n, started>>

StartClock == Step("clock", "multiply") /\ started' = n /\ UNCHANGED <<n, i, factorial_res>>

Multiply == /\ i <= n /\ Step("multiply", "multiply")
            /\ factorial_res' = (factorial_res * i) % (UINT_MAX + 1) /\ i' = i + 1
            /\ UNCHANGED <<n, started>>

NextNumber == /\ i > n /\ Step("multiply", IF n + 1 < n_iters THEN "reset" ELSE "ended")
              /\ n' = n + 1 /\ UNCHANGED <<i, factorial_res, started>>

Main == SigAction \/ Reset \/ StartClock \/ Multiply \/ NextNumber

\* SigHandler, or, before sigaction, the end of the process.
SigHandler ==
    /\ pc # "ended" /\ pc' = IF pc = "sigaction" THEN "ended" ELSE pc
    /\ shown' = IF pc = "sigaction" THEN shown ELSE <<factorial_res, started>>
    /\ UNCHANGED <<n, i, factorial_res, started>>

Next == Main \/ SigHandler

-----------------------------------------------------------------------------
factorial[k \in Nat] == IF k = 0 THEN 1 ELSE k * factorial[k - 1]

\* The time shown is that of the factorial whose partial product is shown with
\* it, though result and starting time are set in two steps; only before the
\* first is neither there (task5.c:50-58,63-66).
ShownBelongTogether ==
    shown = <<>> \/ \/ shown[2] = -1 /\ shown[1] \in {0, 1}
                    \/ \E k \in 0..shown[2] :
                                     shown[1] = factorial[k] % (UINT_MAX + 1)
=============================================================================
