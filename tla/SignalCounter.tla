--------------------------- MODULE SignalCounter ----------------------------
(***************************************************************************)
(* dz3/task4.c: a program that ends after five SIGINT.  The handler raises *)
(* a flag, the loop of main lowers it and counts.  The kernel keeps one    *)
(* pending signal and calls the handler between any two steps of main.     *)
(***************************************************************************)
EXTENDS Integers

CONSTANT MaxSent   \* bound: signals sent

VARIABLES sent, pending,
          handled,   \* calls of the handler
          sig_occured, sig_counter, pc

vars == <<sent, pending, handled, sig_occured, sig_counter, pc>>

Init == /\ sent = 0 /\ pending = FALSE /\ handled = 0
        /\ sig_occured = FALSE /\ sig_counter = 0 /\ pc = "start"

Send == /\ sent < MaxSent /\ sent' = sent + 1 /\ pending' = TRUE
        /\ UNCHANGED <<handled, sig_occured, sig_counter, pc>>

\* SigHandler, or, before sigaction, the end of the process.
Handle == /\ pending /\ pc \notin {"exit", "killed"} /\ pending' = FALSE
          /\ IF pc = "start" THEN pc' = "killed" /\ UNCHANGED <<handled, sig_occured>>
             ELSE sig_occured' = TRUE /\ handled' = handled + 1 /\ UNCHANGED pc
          /\ UNCHANGED <<sent, sig_counter>>

\* Mutant: the flag is lowered after the signal was counted.
Body_CountFirst == [print |-> "count", count |-> "reset", reset |-> "test"]

\* What follows what in the body of the loop.
Body == [print |-> "reset", reset |-> "count", count |-> "test"]

SigAction == pc = "start" /\ pc' = "check" /\ UNCHANGED <<sig_occured, sig_counter>>

Check == /\ pc = "check" /\ pc' = IF sig_occured THEN "print" ELSE "test"
         /\ UNCHANGED <<sig_occured, sig_counter>>

InBody == /\ pc \in DOMAIN Body /\ pc' = Body[pc]
          /\ sig_occured' = IF pc = "reset" THEN FALSE ELSE sig_occured
          /\ sig_counter' = IF pc = "count" THEN sig_counter + 1 ELSE sig_counter

Test == /\ pc = "test" /\ pc' = IF sig_counter >= 5 THEN "exit" ELSE "check"
        /\ UNCHANGED <<sig_occured, sig_counter>>

Main == (SigAction \/ Check \/ InBody \/ Test) /\ UNCHANGED <<sent, pending, handled>>

Next == Send \/ Handle \/ Main

-----------------------------------------------------------------------------
\* After every signal the counter grows: a signal that is merged with another or
\* lost with the flag is at least followed by the count of that other
\* (task4.c:27-31).
SignalIsFollowedByCount ==
    \A n \in 0..5 : (pending /\ sig_counter = n) ~> (sig_counter > n \/ pc \in {"exit", "killed"})
=============================================================================
