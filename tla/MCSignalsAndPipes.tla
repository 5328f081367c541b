------------------------- MODULE MCSignalsAndPipes --------------------------
(***************************************************************************)
(* Small instances of programs of dz3 (signals) and dz4 (pipes), and of    *)
(* the exchange of buffers in the library of dz1.  They share nothing, so  *)
(* a behaviour is one of one of them.  The integers of the factorial have  *)
(* five bits, which 5! does not fit into.                                  *)
(***************************************************************************)
EXTENDS SwapBytes

CONSTANTS MaxSent,             \* SignalCounter
          Years, MayFail,      \* LeapYear
          UINT_MAX, n_iters,   \* Factorial
          Numbers, INT_MAX, MaxFaults,   \* PipeSquare
          MaxLosses,                     \* PipeExchange: its MaxFaults
          Writers, Readers, MaxKills     \* Fifo

ASSUME InstanceAssumption ==
    /\ Years \subseteq Int
    /\ UINT_MAX \in Nat \ {0}
    /\ Writers \intersect Readers = {}
    /\ MaxKills \in Nat

VARIABLES program,
          sent, pending, handled, sig_occured, sig_counter, main,        \* SignalCounter
          year, sig_status, parent, helper, verdict,                     \* LeapYear
          at, n, factor, factorial_res, started, shown,                  \* Factorial
          manager, proc_id, child, pipe, user_number, printed, faults,   \* PipeSquare
          pipe1, pipe2, place, restring, losses,                         \* PipeExchange
          exists, contents, where, received, kills                       \* Fifo

\* Bytes that differ by their place and their buffer.
MCByte == -MaxSize..MaxSize
MCData_a == [k \in 0..(MaxSize - 1) |-> k]
MCData_b == [k \in 0..(MaxSize - 1) |-> -k - 1]

\* Years around the exceptions of the rule, and years that are none.
MCYears == {-4, 0, 1, 4, 100, 200, 400, 1900, 2000, 2023, 2024}
MCNumbers == -4..4

Counter == INSTANCE SignalCounter WITH pc <- main

Leap == INSTANCE LeapYear WITH printed <- verdict

Product == INSTANCE Factorial WITH pc <- at, i <- factor

Square == INSTANCE PipeSquare

Exchange == INSTANCE PipeExchange WITH MaxFaults <- MaxLosses, pc <- place, faults <- losses

Named == INSTANCE Fifo WITH pc <- where, restring <- received

counterVars == <<sent, pending, handled, sig_occured, sig_counter, main>>
leapVars == <<year, sig_status, parent, helper, verdict>>
productVars == <<at, n, factor, factorial_res, started, shown>>
signalVars == <<counterVars, leapVars, productVars>>
squareVars == <<manager, proc_id, child, pipe, user_number, printed, faults>>
exchangeVars == <<pipe1, pipe2, place, restring, losses>>
namedVars == <<exists, contents, where, received, kills>>
pipeVars == <<squareVars, exchangeVars, namedVars>>
allVars == <<program, vars, signalVars, pipeVars>>

MCInit ==
    /\ Init /\ Counter!Init /\ Leap!Init /\ Product!Init
    /\ Square!Init /\ Exchange!Init /\ Named!Init
    /\ program \in {"swap", "counter", "leap", "product", "square", "exchange", "named"}
    /\ program # "leap" => year = 1
    /\ program # "swap" => size = 0

IsSwap == program = "swap" /\ UNCHANGED <<program, signalVars, pipeVars>>
IsSignal == UNCHANGED <<program, vars, pipeVars>>
IsCounter == program = "counter" /\ IsSignal /\ UNCHANGED <<leapVars, productVars>>
IsLeap == program = "leap" /\ IsSignal /\ UNCHANGED <<counterVars, productVars>>
IsProduct == program = "product" /\ IsSignal /\ UNCHANGED <<counterVars, leapVars>>
IsPipe == UNCHANGED <<program, vars, signalVars>>
IsSquare == program = "square" /\ IsPipe /\ UNCHANGED <<exchangeVars, namedVars>>
IsExchange == program = "exchange" /\ IsPipe /\ UNCHANGED <<squareVars, namedVars>>
IsNamed == program = "named" /\ IsPipe /\ UNCHANGED <<squareVars, exchangeVars>>

MCNext == \/ IsSwap /\ Next
          \/ IsCounter /\ Counter!Next
          \/ IsLeap /\ Leap!Next
          \/ IsProduct /\ Product!Next
          \/ IsSquare /\ Square!Next
          \/ IsExchange /\ Exchange!Next
          \/ IsNamed /\ Named!Next

MCSpec == MCInit /\ [][MCNext]_allVars

\* Processes run, the kernel delivers a pending signal, and the user types a
\* number; nobody has to send a signal, to start or to kill a process.
FairSpec ==
    /\ MCSpec
    /\ WF_allVars(IsCounter /\ Counter!Main) /\ WF_allVars(IsCounter /\ Counter!Handle)
    /\ WF_allVars(IsLeap /\ Leap!Parent) /\ WF_allVars(IsLeap /\ Leap!Helper)
    /\ WF_allVars(IsSquare /\ Square!Manager) /\ WF_allVars(IsSquare /\ Square!ReadPipe)
    /\ WF_allVars(IsSquare /\ (Square!ReadTerm \/ Square!WritePipe))
    /\ WF_allVars(IsExchange /\ (Exchange!Fork \/ Exchange!Parent))
    /\ WF_allVars(IsExchange /\ Exchange!Child)
    /\ \A w \in Writers : WF_allVars(IsNamed /\ Named!Writing(w))
    /\ \A r \in Readers : WF_allVars(IsNamed /\ Named!Reading(r))

-----------------------------------------------------------------------------
\* The verdict on a year is the calendar's, and the product shown is one of the
\* factorial whose time is shown with it (dz3/task3.c:64-72,
\* task3_helper.c:18-23, task5.c:50-58,63-66).
AnswersAreRight == Leap!VerdictIsCalendar /\ Product!ShownBelongTogether

\* The manager ends after its children (dz4/task4_pipe_manager.c:54-55).
ManagerEndsLast == Square!ManagerEndsLast

\* One reader shows the message of the FIFO, and none an empty one before
\* (dz4/task2.c:22-36, task1.c:30-41).
OneShowsIt == Named!OneShowsIt

\* Processes that wait for each other end, with the right result: the asker for
\* the verdict, the manager for its children, parent and child for each other's
\* message, the writer of the FIFO for its reader; and every signal is followed by
\* a count (dz3/task3.c:63-73, task4.c:27-31, dz4/task4_square.c:35-43,
\* task3.c:48-93, task1.c:28-49, task2.c:16-38).
AllEnd == /\ Leap!ParentEnds
          /\ Counter!SignalIsFollowedByCount
          /\ program = "square" => Square!AllEnd
          /\ program = "exchange" => Exchange!AllEnd
          /\ Named!MessageIsShown
=============================================================================
