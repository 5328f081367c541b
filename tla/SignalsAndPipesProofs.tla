----------------------- MODULE SignalsAndPipesProofs ------------------------
(***************************************************************************)
(* Theorems of the programs of dz3 and dz4 and of SwapBytes, for every     *)
(* length and contents of the buffers, every year, every width of the      *)
(* factorial, any number of writers, readers, faults and kills.            *)
(***************************************************************************)
EXTENDS MCSignalsAndPipes, NaturalsInduction, WellFoundedInduction, TLAPS

-----------------------------------------------------------------------------
\* SwapBytes.

IInv == TypeOK /\ ExchangedSoFar

\* The trailer is size modulo 8, and taking its three bits off leaves nothing
\* (swap.c:20-21,35,45,55).
LEMMA Trailer ==
    ASSUME NEW s \in Nat
    PROVE  /\ s \div 8 \in Nat /\ s % 8 \in 0..7
           /\ 8 * (s \div 8) = s - (s % 8)
  BY SMT

LEMMA TrailerBits ==
    ASSUME NEW t \in 0..7
    PROVE  /\ IF (t \div 4) % 2 = 1 THEN t = 4 + (t % 4) ELSE t = t % 4
           /\ IF (t \div 2) % 2 = 1 THEN t % 4 = 2 + (t % 2) ELSE t % 4 = t % 2
           /\ IF (t \div 1) % 2 = 1 THEN t % 2 = 1 ELSE t % 2 = 0
           /\ t % 4 \in 0..3 /\ t % 2 \in 0..1
  BY SMT

\* An exchange of a run keeps what is exchanged so far exact (swap.c:25-60).
LEMMA SwapRunExchanges ==
    ASSUME TypeOK, ExchangedSoFar, NEW len \in Nat, SwapRun(len)
    PROVE  /\ ExchangedSoFar'
           /\ a' \in [0..(MaxSize - 1) -> Byte] /\ b' \in [0..(MaxSize - 1) -> Byte]
           /\ move' = move + len
  BY SwapBytesAssumption DEF TypeOK, ExchangedSoFar, ExchangedUpTo, SwapRun

LEMMA InitIInv == Init => IInv
  BY SwapBytesAssumption, SMT
  DEF Init, IInv, TypeOK, MoveIsRight, ExchangedSoFar, ExchangedUpTo, n_full_ops

LEMMA NextIInv == IInv /\ [Next]_vars => IInv'
<1> SUFFICES ASSUME IInv, [Next]_vars PROVE IInv'
  OBVIOUS
<1> USE SwapBytesAssumption
<1>size. /\ size \in Nat /\ trailer \in 0..7 /\ n_full_ops \in Nat
         /\ 8 * n_full_ops = size - trailer
  BY Trailer DEF IInv, TypeOK, trailer, n_full_ops
<1>bits. /\ trailer % 4 \in 0..3 /\ trailer % 2 \in 0..1
         /\ BitIsSet(4) => trailer = 4 + (trailer % 4)
         /\ ~BitIsSet(4) => trailer = trailer % 4
         /\ BitIsSet(2) => trailer % 4 = 2 + (trailer % 2)
         /\ ~BitIsSet(2) => trailer % 4 = trailer % 2
         /\ BitIsSet(1) => trailer % 2 = 1
         /\ ~BitIsSet(1) => trailer % 2 = 0
  BY <1>size, TrailerBits, Zenon DEF BitIsSet
<1>1. CASE SwapEight
  <2>1. SwapRun(8) /\ pc = "eights" /\ i < n_full_ops /\ i' = i + 1
        /\ size' = size /\ pc' = pc
    BY <1>1 DEF SwapEight
  <2>2. /\ ExchangedSoFar' /\ move' = move + 8
        /\ a' \in [0..(MaxSize - 1) -> Byte] /\ b' \in [0..(MaxSize - 1) -> Byte]
    BY <2>1, SwapRunExchanges DEF IInv
  <2>3. i' \in Nat /\ i' <= n_full_ops /\ move' = 8 * i' /\ move' \in 0..size
    BY <2>1, <2>2, <1>size, SMT DEF IInv, TypeOK, MoveIsRight
  <2> QED BY <2>1, <2>2, <2>3 DEF IInv, TypeOK, MoveIsRight, n_full_ops, trailer
<1>2. CASE EndOfEights
  <2>1. move = size - trailer
    BY <1>2, <1>size, SMT DEF EndOfEights, IInv, TypeOK, MoveIsRight
  <2> QED BY <1>2, <2>1 DEF EndOfEights, IInv, TypeOK, MoveIsRight, trailer,
                            ExchangedSoFar, ExchangedUpTo
<1>3. ASSUME NEW len \in {1, 2, 4}, NEW from, NEW to, SwapTrailer(len, from, to)
      PROVE  /\ ExchangedSoFar'
             /\ a' \in [0..(MaxSize - 1) -> Byte] /\ b' \in [0..(MaxSize - 1) -> Byte]
             /\ move' = IF BitIsSet(len) THEN move + len ELSE move
             /\ pc = from /\ pc' = to /\ size' = size /\ i' = i
  <2>1. CASE BitIsSet(len)
    <3>1. SwapRun(len) /\ len \in Nat
      BY <1>3, <2>1 DEF SwapTrailer
    <3> QED BY <1>3, <2>1, <3>1, SwapRunExchanges DEF IInv, SwapTrailer
  <2>2. CASE ~BitIsSet(len)
    BY <1>3, <2>2 DEF SwapTrailer, IInv, TypeOK, ExchangedSoFar, ExchangedUpTo
  <2> QED BY <2>1, <2>2
<1>4. CASE SwapTrailer(4, "four", "two")
  <2>1. /\ ExchangedSoFar'
        /\ a' \in [0..(MaxSize - 1) -> Byte] /\ b' \in [0..(MaxSize - 1) -> Byte]
        /\ move' = IF BitIsSet(4) THEN move + 4 ELSE move
        /\ pc = "four" /\ pc' = "two" /\ size' = size /\ i' = i
    BY <1>4, <1>3
  <2>2. move' = size - (trailer % 4) /\ move' \in 0..size
    BY <2>1, <1>size, <1>bits, SMT DEF IInv, TypeOK, MoveIsRight
  <2> QED BY <2>1, <2>2 DEF IInv, TypeOK, MoveIsRight, trailer
<1>5. CASE SwapTrailer(2, "two", "one")
  <2>1. /\ ExchangedSoFar'
        /\ a' \in [0..(MaxSize - 1) -> Byte] /\ b' \in [0..(MaxSize - 1) -> Byte]
        /\ move' = IF BitIsSet(2) THEN move + 2 ELSE move
        /\ pc = "two" /\ pc' = "one" /\ size' = size /\ i' = i
    BY <1>5, <1>3
  <2>2. move' = size - (trailer % 2) /\ move' \in 0..size
    BY <2>1, <1>size, <1>bits, SMT DEF IInv, TypeOK, MoveIsRight
  <2> QED BY <2>1, <2>2 DEF IInv, TypeOK, MoveIsRight, trailer
<1>6. CASE SwapTrailer(1, "one", "return")
  <2>1. /\ ExchangedSoFar'
        /\ a' \in [0..(MaxSize - 1) -> Byte] /\ b' \in [0..(MaxSize - 1) -> Byte]
        /\ move' = IF BitIsSet(1) THEN move + 1 ELSE move
        /\ pc = "one" /\ pc' = "return" /\ size' = size /\ i' = i
    BY <1>6, <1>3
  <2>2. move' = size /\ move' \in 0..size
    BY <2>1, <1>size, <1>bits, SMT DEF IInv, TypeOK, MoveIsRight
  <2> QED BY <2>1, <2>2 DEF IInv, TypeOK, MoveIsRight, trailer
<1>7. CASE UNCHANGED vars
  BY <1>7 DEF vars, IInv, TypeOK, MoveIsRight, ExchangedSoFar, ExchangedUpTo, n_full_ops, trailer
<1> QED BY <1>1, <1>2, <1>4, <1>5, <1>6, <1>7 DEF Next

\* A call returns with exactly size bytes exchanged, for every length and every
\* contents of the buffers (swap.c:12-63).
THEOREM SwapBytesExchanges == Spec => []Exchanged
<1>1. IInv => Exchanged
  BY DEF IInv, TypeOK, MoveIsRight, ExchangedSoFar, Exchanged, ExchangedUpTo
<1> QED BY <1>1, InitIInv, NextIInv, PTL DEF Spec

\* Every variable keeps its type and the pointers stand where each part of the
\* function needs them (swap.c:20-60).
THEOREM SwapBytesTypes == Spec => []TypeOK
<1>1. IInv => TypeOK
  BY DEF IInv
<1> QED BY <1>1, InitIInv, NextIInv, PTL DEF Spec

-----------------------------------------------------------------------------
\* Each program moves by itself.

LEMMA ProgramsApart ==
    ASSUME [MCNext]_allVars
    PROVE  /\ [Leap!Next]_(Leap!vars)
           /\ [Product!Next]_(Product!vars)
           /\ [Square!Next]_(Square!vars)
           /\ [Named!Next]_(Named!vars)
<1> USE DEF counterVars, leapVars, productVars, signalVars, squareVars, exchangeVars, namedVars,
            pipeVars, IsSignal, IsPipe, Leap!vars, Product!vars, Square!vars, Named!vars
<1>1. CASE IsSwap /\ Next
  BY <1>1 DEF IsSwap
<1>2. CASE IsCounter /\ Counter!Next
  BY <1>2 DEF IsCounter
<1>3. CASE IsLeap /\ Leap!Next
  BY <1>3 DEF IsLeap
<1>4. CASE IsProduct /\ Product!Next
  BY <1>4 DEF IsProduct
<1>5. CASE IsSquare /\ Square!Next
  BY <1>5 DEF IsSquare
<1>6. CASE IsExchange /\ Exchange!Next
  BY <1>6 DEF IsExchange
<1>7. CASE IsNamed /\ Named!Next
  BY <1>7 DEF IsNamed
<1>8. CASE UNCHANGED allVars
  BY <1>8 DEF allVars
<1>9. QED
  BY <1>1, <1>2, <1>3, <1>4, <1>5, <1>6, <1>7, <1>8 DEF MCNext

-----------------------------------------------------------------------------
\* PipeSquare: once the manager has waited twice, neither child is left, though
\* a waitpid of -1 may have taken the other one.

SquareInv ==
    /\ child = [c \in Square!Children |-> child[c]]
    /\ proc_id = [c \in Square!Children |-> proc_id[c]]
    /\ \A c \in Square!Children : proc_id[c] = "-1" => child[c] = "none"
    /\ manager = "fork1" => child["square"] = "none"
    /\ manager \in {"fork1", "fork2"} => child["read_term"] = "none"
    /\ manager \in {"wait2", "ended"} => child["square"] \in {"none", "gone"}
    /\ manager = "ended" => child["read_term"] \in {"none", "gone"}

LEMMA SquareInductive == SquareInv /\ [Square!Next]_(Square!vars) => SquareInv'
<1> SUFFICES ASSUME SquareInv, [Square!Next]_(Square!vars) PROVE SquareInv'
  OBVIOUS
<1> USE DEF SquareInv, Square!Children
<1>1. CASE Square!Manager
  <2>1. CASE Square!Fork("square", "fork1", "fork2")
    BY <2>1 DEF Square!Fork
  <2>2. CASE Square!Fork("read_term", "fork2", "wait1")
    BY <2>2 DEF Square!Fork
  <2>3. CASE Square!Wait("square", "wait1", "wait2")
    BY <2>3 DEF Square!Wait, Square!WaitedFor
  <2>4. CASE Square!Wait("read_term", "wait2", "ended")
    BY <2>4 DEF Square!Wait, Square!WaitedFor
  <2>5. QED
    BY <1>1, <2>1, <2>2, <2>3, <2>4 DEF Square!Manager
<1>2. CASE Square!ReadTerm \/ Square!WritePipe \/ Square!ReadPipe
  BY <1>2 DEF Square!ReadTerm, Square!WritePipe, Square!ReadPipe
<1>3. ASSUME NEW c \in Square!Children, Square!Kill(c) PROVE SquareInv'
  BY <1>3 DEF Square!Kill
<1>4. CASE UNCHANGED Square!vars
  BY <1>4 DEF Square!vars
<1>5. QED
  BY <1>1, <1>2, <1>3, <1>4 DEF Square!Next

\* The manager ends after its children, whichever fork failed and whoever was
\* killed, for any number of faults (dz4/task4_pipe_manager.c:36,45,54-55).
THEOREM ManagerIsLast == MCSpec => []ManagerEndsLast
<1>1. MCInit => SquareInv
  BY DEF MCInit, Square!Init, SquareInv, Square!Children
<1>2. SquareInv /\ [MCNext]_allVars => SquareInv'
  BY ProgramsApart, SquareInductive
<1>3. SquareInv => ManagerEndsLast
  BY DEF SquareInv, ManagerEndsLast, Square!ManagerEndsLast, Square!Children
<1>4. QED
  BY <1>1, <1>2, <1>3, PTL DEF MCSpec

-----------------------------------------------------------------------------
\* LeapYear: the helper's signal is the verdict on the year, and the parent
\* prints what it got.

LeapInv ==
    /\ year \in Years /\ sig_status \in 0..2
    /\ parent \in {"sigaction", "fork"} => helper = "none"
    /\ sig_status # 0 => helper = "ended" /\ year > 0
    /\ sig_status = 1 => Leap!CheckYear(year)
    /\ sig_status = 2 => ~Leap!CheckYear(year)
    /\ verdict # "nothing" => sig_status # 0 /\ verdict = Leap!Verdict

LEMMA LeapInductive == LeapInv /\ [Leap!Next]_(Leap!vars) => LeapInv'
<1> SUFFICES ASSUME LeapInv, [Leap!Next]_(Leap!vars) PROVE LeapInv'
  OBVIOUS
<1>0. year \in Int
  BY InstanceAssumption DEF LeapInv
<1>1. ASSUME UNCHANGED <<year, sig_status, verdict>>, helper = "ended" => helper' = "ended",
             parent' \in {"sigaction", "fork"} => helper' = "none"
      PROVE LeapInv'
  <2>1. (Leap!CheckYear(year)' <=> Leap!CheckYear(year)) /\ Leap!Verdict' = Leap!Verdict
    BY <1>1 DEF Leap!CheckYear, Leap!Verdict
  <2>2. QED
    BY <1>1, <2>1 DEF LeapInv
<1>2. CASE Leap!SigAction
  BY <1>1, <1>2 DEF LeapInv, Leap!SigAction
<1>3. CASE Leap!Fork
  <2>1. UNCHANGED <<year, sig_status, verdict>>
    BY <1>3 DEF Leap!Fork
  <2>2. helper # "ended" /\ parent' = "spin"
    BY <1>3 DEF LeapInv, Leap!Fork
  <2>3. QED
    BY <1>1, <2>1, <2>2
<1>4. CASE Leap!Exec
  <2>1. UNCHANGED <<year, sig_status, verdict>> /\ helper = "exec" /\ helper' # "none"
        /\ (parent' = parent \/ parent' = "aborted")
    BY <1>4 DEF Leap!Exec
  <2>2. parent' \notin {"sigaction", "fork"}
    BY <2>1 DEF LeapInv
  <2>3. QED
    BY <1>1, <2>1, <2>2
<1>5. CASE Leap!Spin
  BY <1>5 DEF LeapInv, Leap!Spin, Leap!CheckYear, Leap!Verdict
<1>6. CASE Leap!Answer
  <2>1. sig_status = 0 /\ verdict = "nothing" /\ parent \notin {"sigaction", "fork"}
    BY <1>6 DEF LeapInv, Leap!Answer
  <2>2. /\ helper' = "ended" /\ UNCHANGED <<year, verdict, parent>>
        /\ \/ sig_status' = 0
           \/ sig_status' = 1 /\ year > 0 /\ Leap!CheckYear(year)
           \/ sig_status' = 2 /\ year > 0 /\ ~Leap!CheckYear(year)
    BY <1>0, <1>6, <2>1 DEF Leap!Answer, Leap!Refuses
  <2>3. Leap!CheckYear(year)' <=> Leap!CheckYear(year)
    BY <2>2 DEF Leap!CheckYear
  <2>4. CASE sig_status' = 0
    BY <2>1, <2>2, <2>4 DEF LeapInv
  <2>5. CASE sig_status' = 1
    <3>1. Leap!CheckYear(year)' /\ year > 0
      BY <2>2, <2>3, <2>5
    <3>2. QED
      BY <2>1, <2>2, <2>5, <3>1 DEF LeapInv
  <2>6. CASE sig_status' = 2
    <3>1. ~Leap!CheckYear(year)' /\ year > 0
      BY <2>2, <2>3, <2>6
    <3>2. QED
      BY <2>1, <2>2, <2>6, <3>1 DEF LeapInv
  <2>7. QED
    BY <2>2, <2>4, <2>5, <2>6
<1>7. CASE UNCHANGED Leap!vars
  BY <1>1, <1>7 DEF LeapInv, Leap!vars
<1>8. QED
  BY <1>2, <1>3, <1>4, <1>5, <1>6, <1>7 DEF Leap!Next, Leap!Parent, Leap!Helper

\* A multiple of d begins the next run of d years.
LEMMA Quotients ==
    ASSUME NEW y \in Int
    PROVE  /\ y \div 4 - (y - 1) \div 4 = IF y % 4 = 0 THEN 1 ELSE 0
           /\ y \div 100 - (y - 1) \div 100 = IF y % 100 = 0 THEN 1 ELSE 0
           /\ y \div 400 - (y - 1) \div 400 = IF y % 400 = 0 THEN 1 ELSE 0
           /\ y % 400 = 0 => y % 100 = 0
           /\ y % 100 = 0 => y % 4 = 0
  BY SMTT(30)

\* The rule of the program and the days of the calendar agree on every year.
LEMMA LeapYearsHaveADayMore ==
    ASSUME NEW y \in Int
    PROVE  Leap!DaysBefore(y + 1) - Leap!DaysBefore(y)
              = IF Leap!CheckYear(y) THEN 366 ELSE 365
<1> DEFINE q == y \div 4    qq == (y - 1) \div 4
           c == y \div 100  cc == (y - 1) \div 100
           g == y \div 400  gg == (y - 1) \div 400
<1>1. (y + 1) - 1 = y
  OBVIOUS
<1>2. /\ Leap!DaysBefore(y + 1) = 365 * y + q - c + g
      /\ Leap!DaysBefore(y) = 365 * (y - 1) + qq - cc + gg
  BY <1>1 DEF Leap!DaysBefore
<1>3. q \in Int /\ qq \in Int /\ c \in Int /\ cc \in Int /\ g \in Int /\ gg \in Int
  OBVIOUS
<1>4. /\ q - qq = IF y % 4 = 0 THEN 1 ELSE 0
      /\ c - cc = IF y % 100 = 0 THEN 1 ELSE 0
      /\ g - gg = IF y % 400 = 0 THEN 1 ELSE 0
      /\ y % 400 = 0 => y % 100 = 0
      /\ y % 100 = 0 => y % 4 = 0
  BY Quotients
<1> HIDE DEF q, qq, c, cc, g, gg
<1>5. Leap!DaysBefore(y + 1) - Leap!DaysBefore(y)
          = 365 + (q - qq) - (c - cc) + (g - gg)
  BY <1>2, <1>3
<1>6. QED
  BY <1>4, <1>5 DEF Leap!CheckYear

LEMMA VerdictFollows == LeapInv => Leap!VerdictIsCalendar
<1> SUFFICES ASSUME LeapInv, verdict # "nothing"
             PROVE  /\ year > 0
                    /\ verdict = IF Leap!DaysBefore(year + 1) - Leap!DaysBefore(year) = 366
                                 THEN "leap year" ELSE "not leap year"
  BY DEF Leap!VerdictIsCalendar
<1>1. /\ year \in Int /\ year > 0
      /\ verdict = IF Leap!CheckYear(year) THEN "leap year" ELSE "not leap year"
  <2>1. /\ year \in Int /\ year > 0 /\ verdict = Leap!Verdict
        /\ \/ sig_status = 1 /\ Leap!CheckYear(year)
           \/ sig_status = 2 /\ ~Leap!CheckYear(year)
    BY InstanceAssumption DEF LeapInv
  <2>2. CASE sig_status = 1
    <3>1. Leap!CheckYear(year)
      BY <2>1, <2>2
    <3>2. QED
      BY <2>1, <2>2, <3>1, Zenon DEF Leap!Verdict
  <2>3. CASE sig_status = 2
    <3>1. sig_status # 1 /\ ~Leap!CheckYear(year)
      BY <2>1, <2>3
    <3>2. QED
      BY <2>1, <3>1, Zenon DEF Leap!Verdict
  <2>4. QED
    BY <2>1, <2>2, <2>3
<1>2. Leap!CheckYear(year) <=> Leap!DaysBefore(year + 1) - Leap!DaysBefore(year) = 366
  <2>1. Leap!DaysBefore(year + 1) - Leap!DaysBefore(year)
           = IF Leap!CheckYear(year) THEN 366 ELSE 365
    BY <1>1, LeapYearsHaveADayMore
  <2>2. 365 # 366
    OBVIOUS
  <2>3. CASE Leap!CheckYear(year)
    BY <2>1, <2>3, Zenon
  <2>4. CASE ~Leap!CheckYear(year)
    <3>1. Leap!DaysBefore(year + 1) - Leap!DaysBefore(year) = 365
      BY <2>1, <2>4, Zenon
    <3>2. QED
      BY <2>2, <2>4, <3>1
  <2>5. QED
    BY <2>3, <2>4, Zenon
<1>3. QED
  BY <1>1, <1>2, Zenon

-----------------------------------------------------------------------------
\* Factorial.

LEMMA LeastNumber ==
    ASSUME NEW S \in SUBSET Nat, S # {}
    PROVE  \E k \in S : \A j \in S : k <= j
<1> DEFINE R == {p \in Nat \X Nat : p[1] < p[2]}
<1>1. IsWellFoundedOn(R, Nat)
  BY NatLessThanWellFounded, Zenon DEF OpToRel
<1>2. PICK k \in S : \A j \in S : ~(<<j, k>> \in R)
  BY <1>1, WFMin, Zenon
<1>3. ASSUME NEW j \in S PROVE k <= j
  <2>1. /\ k \in Nat /\ j \in Nat
        /\ <<j, k>> \in Nat \X Nat
        /\ <<j, k>>[1] = j /\ <<j, k>>[2] = k
    OBVIOUS
  <2>2. ~(j < k)
    BY <1>2, <2>1, Zenon
  <2>3. QED
    BY <2>1, <2>2
<1>4. QED
  BY <1>3

\* The beginnings of the table of factorials.
Tables(m) == {g \in [0..m -> Nat] : \A j \in 0..m : g[j] = IF j = 0 THEN 1 ELSE j * g[j - 1]}

LEMMA TablesAgree ==
    ASSUME NEW m \in Nat, NEW l \in Nat, NEW g \in Tables(m), NEW h \in Tables(l),
           NEW j \in 0..m, j \in 0..l
    PROVE  g[j] = h[j]
<1> DEFINE S == {k \in Nat : k <= m /\ k <= l /\ g[k] # h[k]}
<1>1. SUFFICES S = {}
  OBVIOUS
<1>2. SUFFICES ASSUME S # {} PROVE FALSE
  OBVIOUS
<1>3. PICK k \in S : \A kk \in S : k <= kk
  BY <1>2, LeastNumber, Zenon
<1>4. k # 0
  BY DEF Tables
<1>5. k - 1 \in 0..m /\ k - 1 \in 0..l /\ k \in 0..m /\ k \in 0..l
  BY <1>4
<1>6. g[k - 1] = h[k - 1]
  BY <1>3, <1>5
<1>7. g[k] = k * g[k - 1] /\ h[k] = k * h[k - 1]
  BY <1>4, <1>5 DEF Tables
<1>8. QED
  BY <1>6, <1>7

LEMMA TablesExist == \A m \in Nat : Tables(m) # {}
<1> DEFINE S == {m \in Nat : Tables(m) = {}}
<1>1. SUFFICES ASSUME S # {} PROVE FALSE
  OBVIOUS
<1>2. PICK k \in S : \A m \in S : k <= m
  BY <1>1, LeastNumber, Zenon
<1>3. CASE k = 0
  <2> DEFINE g == [j \in 0..0 |-> 1]
  <2>1. g \in Tables(0)
    BY DEF Tables
  <2>2. QED
    BY <1>3, <2>1
<1>4. CASE k # 0
  <2>1. k - 1 \in Nat /\ k - 1 \notin S
    BY <1>2, <1>4
  <2>2. PICK f \in Tables(k - 1) : TRUE
    BY <2>1
  <2> DEFINE g == [j \in 0..k |-> IF j = k THEN k * f[k - 1] ELSE f[j]]
  <2>3. f \in [0..k - 1 -> Nat] /\ f[k - 1] \in Nat
    BY <2>1, <2>2 DEF Tables
  <2>4. g \in [0..k -> Nat]
    <3>1. k * f[k - 1] \in Nat
      BY <2>3
    <3>2. \A j \in 0..k : j # k => f[j] \in Nat
      BY <2>3
    <3>3. QED
      BY <3>1, <3>2
  <2>5. ASSUME NEW j \in 0..k PROVE g[j] = IF j = 0 THEN 1 ELSE j * g[j - 1]
    <3>1. CASE j = k
      BY <1>4, <3>1
    <3>2. CASE j # k
      <4>1. j \in 0..k - 1
        BY <3>2
      <4>2. f[j] = IF j = 0 THEN 1 ELSE j * f[j - 1]
        BY <2>2, <4>1 DEF Tables
      <4>3. g[j] = f[j]
        BY <3>2
      <4>4. j # 0 => g[j - 1] = f[j - 1]
        BY <4>1
      <4>5. QED
        BY <4>2, <4>3, <4>4
    <3>3. QED
      BY <3>1, <3>2
  <2>6. g \in Tables(k)
    BY <2>4, <2>5, Zenon DEF Tables
  <2>7. QED
    BY <1>2, <2>6
<1>5. QED
  BY <1>3, <1>4

LEMMA FactorialIs ==
    ASSUME NEW k \in Nat
    PROVE  /\ Product!factorial[k] \in Nat
           /\ Product!factorial[k] = IF k = 0 THEN 1 ELSE k * Product!factorial[k - 1]
<1> DEFINE T(m) == CHOOSE g \in Tables(m) : TRUE
           f == [m \in Nat |-> T(m)[m]]
           step(g) == [m \in Nat |-> IF m = 0 THEN 1 ELSE m * g[m - 1]]
<1>1. ASSUME NEW m \in Nat PROVE T(m) \in Tables(m)
  BY TablesExist, Zenon
<1> HIDE DEF T
<1>2. ASSUME NEW m \in Nat
      PROVE  f[m] \in Nat /\ f[m] = IF m = 0 THEN 1 ELSE m * f[m - 1]
  <2>1. T(m) \in Tables(m) /\ m \in 0..m
    BY <1>1
  <2>2. f[m] = T(m)[m]
    OBVIOUS
  <2>3. T(m)[m] \in Nat /\ T(m)[m] = IF m = 0 THEN 1 ELSE m * T(m)[m - 1]
    BY <2>1 DEF Tables
  <2>4. CASE m # 0
    <3>1. /\ m - 1 \in Nat /\ m - 1 \in 0..m /\ m - 1 \in 0..m - 1
          /\ f[m - 1] = T(m - 1)[m - 1]
      BY <2>4
    <3>2. T(m - 1) \in Tables(m - 1)
      BY <1>1, <3>1
    <3>3. T(m)[m - 1] = T(m - 1)[m - 1]
      BY <2>1, <3>1, <3>2, TablesAgree, Zenon
    <3>4. QED
      BY <2>2, <2>3, <3>1, <3>3, Zenon
  <2>5. QED
    BY <2>2, <2>3, <2>4
<1>3. f = step(f)
  <2>1. \A m \in Nat : f[m] = IF m = 0 THEN 1 ELSE m * f[m - 1]
    BY <1>2
  <2>2. f = [m \in Nat |-> f[m]]
    OBVIOUS
  <2> HIDE DEF f
  <2>3. QED
    BY <2>1, <2>2
<1>4. Product!factorial = step(Product!factorial)
  <2> HIDE DEF f
  <2>1. (CHOOSE g : g = step(g)) = step(CHOOSE g : g = step(g))
    BY <1>3, Zenon
  <2>2. QED
    BY <2>1, Zenon DEF Product!factorial
<1>5. ASSUME NEW m \in Nat
      PROVE  Product!factorial[m] = IF m = 0 THEN 1 ELSE m * Product!factorial[m - 1]
  <2> DEFINE g == Product!factorial
  <2>1. g = step(g)
    BY <1>4
  <2> HIDE DEF g
  <2>2. step(g)[m] = IF m = 0 THEN 1 ELSE m * g[m - 1]
    OBVIOUS
  <2>3. QED
    BY <2>1, <2>2, Zenon DEF g
<1> HIDE DEF f
<1> DEFINE S == {m \in Nat : Product!factorial[m] # f[m]}
<1>6. ASSUME S # {} PROVE FALSE
  <2>1. PICK m \in S : \A j \in S : m <= j
    BY <1>6, LeastNumber
  <2>2. CASE m = 0
    BY <1>2, <1>5, <2>1, <2>2
  <2>3. CASE m # 0
    <3>1. m \in Nat /\ m - 1 \in Nat /\ m - 1 \notin S
      BY <2>1, <2>3
    <3>2. Product!factorial[m - 1] = f[m - 1]
      BY <3>1
    <3>3. /\ Product!factorial[m] = m * Product!factorial[m - 1]
          /\ f[m] = m * f[m - 1]
      BY <1>2, <1>5, <2>3, <3>1
    <3>4. QED
      BY <2>1, <3>2, <3>3
  <2>4. QED
    BY <2>2, <2>3
<1>7. Product!factorial[k] = f[k]
  BY <1>6
<1>8. QED
  BY <1>2, <1>5, <1>7

\* Products of integers reduced modulo m after each step.
LEMMA ModMul ==
    ASSUME NEW x \in Nat, NEW y \in Nat, NEW m \in Nat \ {0}
    PROVE  ((x % m) * y) % m = (x * y) % m
<1> DEFINE q == x \div m
           r == x % m
           d == (r * y) \div m
           e == (r * y) % m
<1>1. /\ q \in Nat /\ r \in Nat
      /\ x = q * m + r
  BY SMTT(30)
<1>2. r * y \in Nat
  BY <1>1, SMT
<1> HIDE DEF q, r
<1>3. d \in Nat /\ e \in Nat /\ e < m /\ r * y = d * m + e
  BY <1>2, SMTT(30)
<1> HIDE DEF d, e
<1>4. x * y = (q * y + d) * m + e
  BY <1>1, <1>3, SMTT(30)
<1>5. ((q * y + d) * m + e) % m = e
  BY <1>1, <1>3, SMTT(30)
<1>6. QED
  BY <1>4, <1>5 DEF e, r

\* A result and the n that the starting time is of.
OfOneFactorial(res, of) ==
    \/ of = -1 /\ res \in {0, 1}
    \/ \E k \in 0..of : res = Product!factorial[k] % (UINT_MAX + 1)

ProductInv ==
    /\ n \in Nat /\ started \in Nat \union {-1}
    /\ at \in {"sigaction", "reset", "clock", "multiply", "ended"}
    /\ at = "clock" => factor = 1 /\ factorial_res = 1
    /\ at = "multiply" =>
          /\ started = n /\ factor \in 1..n + 1
          /\ factorial_res = Product!factorial[factor - 1] % (UINT_MAX + 1)
    /\ at # "ended" => OfOneFactorial(factorial_res, started)
    /\ shown = <<>> \/ OfOneFactorial(shown[1], shown[2])

LEMMA ProductInductive == ProductInv /\ [Product!Next]_(Product!vars) => ProductInv'
<1> SUFFICES ASSUME ProductInv, [Product!Next]_(Product!vars) PROVE ProductInv'
  OBVIOUS
<1> DEFINE m == UINT_MAX + 1
<1>0. m \in Nat /\ m > 1
  BY InstanceAssumption
<1>a. ASSUME NEW k \in Nat PROVE Product!factorial[k] \in Nat
  BY FactorialIs
<1>b. Product!factorial[0] % m = 1
  <2>1. Product!factorial[0] = 1
    BY FactorialIs
  <2>2. 1 % m = 1
    BY <1>0
  <2>3. QED
    BY <2>1, <2>2
<1>c. ASSUME UNCHANGED shown
      PROVE (shown = <<>> \/ OfOneFactorial(shown[1], shown[2]))'
  BY <1>c DEF ProductInv, OfOneFactorial
<1>d. ASSUME UNCHANGED <<factorial_res, started>>, at # "ended"
      PROVE  OfOneFactorial(factorial_res, started)'
  BY <1>d DEF ProductInv, OfOneFactorial
<1>1. CASE Product!SigAction
  BY <1>1, <1>c, <1>d DEF ProductInv, Product!SigAction, Product!Step
<1>2. CASE Product!Reset
  <2>1. /\ at' = "clock" /\ factorial_res' = 1 /\ factor' = 1
        /\ UNCHANGED <<n, started, shown>>
    BY <1>2 DEF Product!Reset, Product!Step, Product!FirstProduct
  <2>2. OfOneFactorial(factorial_res, started)'
    <3>1. CASE started = -1
      BY <2>1, <3>1 DEF OfOneFactorial
    <3>2. CASE started \in Nat
      <4>1. 0 \in 0..started /\ started' = started
        BY <2>1, <3>2
      <4>2. QED
        BY <1>b, <2>1, <4>1, Zenon DEF OfOneFactorial
    <3>3. QED
      BY <3>1, <3>2 DEF ProductInv
  <2>3. QED
    BY <1>c, <2>1, <2>2 DEF ProductInv
<1>3. CASE Product!StartClock
  <2>1. /\ at' = "multiply" /\ factorial_res' = 1 /\ factor' = 1 /\ started' = n
        /\ UNCHANGED <<n, shown>>
    BY <1>3 DEF ProductInv, Product!StartClock, Product!Step
  <2>2. factor' - 1 = 0 /\ 0 \in 0..n
    BY <2>1 DEF ProductInv
  <2>3. factorial_res' = Product!factorial[factor' - 1] % m
    BY <1>b, <2>1, <2>2, Zenon
  <2>4. OfOneFactorial(factorial_res, started)'
    BY <2>1, <2>2, <2>3, Zenon DEF OfOneFactorial
  <2>5. QED
    BY <1>c, <2>1, <2>3, <2>4 DEF ProductInv
<1>4. CASE Product!Multiply
  <2>1. /\ at = "multiply" /\ at' = "multiply" /\ factor <= n /\ factor' = factor + 1
        /\ factorial_res' = (factorial_res * factor) % m /\ UNCHANGED <<n, started, shown>>
    BY <1>4 DEF Product!Multiply, Product!Step
  <2>2. /\ factor \in Nat /\ factor > 0 /\ factor - 1 \in Nat /\ started = n /\ n \in Nat
        /\ factorial_res = Product!factorial[factor - 1] % m
    BY <2>1 DEF ProductInv
  <2>3. factorial_res' = (Product!factorial[factor - 1] * factor) % m
    BY <1>0, <1>a, <2>1, <2>2, ModMul
  <2>4. Product!factorial[factor] = factor * Product!factorial[factor - 1]
    BY <2>2, FactorialIs
  <2>5. Product!factorial[factor - 1] * factor = factor * Product!factorial[factor - 1]
    BY <1>a, <2>2
  <2>6. factor' - 1 = factor /\ factor \in 0..n /\ factor' \in 1..n + 1
    BY <2>1, <2>2
  <2>7. factorial_res' = Product!factorial[factor' - 1] % m
    BY <2>3, <2>4, <2>5, <2>6, Zenon
  <2>8. OfOneFactorial(factorial_res, started)'
    BY <2>1, <2>2, <2>6, <2>7, Zenon DEF OfOneFactorial
  <2>9. QED
    BY <1>c, <2>1, <2>2, <2>6, <2>7, <2>8 DEF ProductInv
<1>5. CASE Product!NextNumber
  BY <1>5, <1>c, <1>d DEF ProductInv, Product!NextNumber, Product!Step
<1>6. CASE Product!SigHandler
  <2>1. /\ at # "ended" /\ UNCHANGED <<n, factor, factorial_res, started>>
        /\ \/ at' = "ended" /\ shown' = shown
           \/ at' = at /\ shown' = <<factorial_res, started>>
    BY <1>6 DEF Product!SigHandler
  <2>2. (shown = <<>> \/ OfOneFactorial(shown[1], shown[2]))'
    <3>1. CASE shown' = shown
      BY <1>c, <3>1
    <3>2. CASE shown' = <<factorial_res, started>>
      <4>1. shown'[1] = factorial_res /\ shown'[2] = started
        BY <3>2
      <4>2. OfOneFactorial(factorial_res, started)
        BY <2>1 DEF ProductInv
      <4>3. QED
        BY <4>1, <4>2, Zenon DEF OfOneFactorial
    <3>3. QED
      BY <2>1, <3>1, <3>2
  <2>3. OfOneFactorial(factorial_res, started)'
    BY <1>d, <2>1
  <2>4. QED
    BY <2>1, <2>2, <2>3 DEF ProductInv
<1>7. CASE UNCHANGED Product!vars
  BY <1>7 DEF Product!vars, ProductInv, OfOneFactorial
<1>8. QED
  BY <1>1, <1>2, <1>3, <1>4, <1>5, <1>6, <1>7 DEF Product!Next, Product!Main

\* The verdict on a year is the calendar's, for every set of years on the command
\* line, and the product shown is one of the factorial whose time is shown with it,
\* for every width of unsigned and wherever the signal comes (dz3/task3.c:64-72,
\* task3_helper.c:18-23, task5.c:50-58,63-66).
THEOREM RightAnswers == MCSpec => []AnswersAreRight
<1>1. MCInit => LeapInv /\ ProductInv
  BY DEF MCInit, Leap!Init, Product!Init, LeapInv, ProductInv, OfOneFactorial
<1>2. LeapInv /\ ProductInv /\ [MCNext]_allVars => (LeapInv /\ ProductInv)'
  BY ProgramsApart, LeapInductive, ProductInductive
<1>3. LeapInv /\ ProductInv => AnswersAreRight
  <2>1. ProductInv => Product!ShownBelongTogether
    BY Zenon DEF ProductInv, OfOneFactorial, Product!ShownBelongTogether
  <2>2. QED
    BY <2>1, VerdictFollows DEF AnswersAreRight
<1>4. QED
  BY <1>1, <1>2, <1>3, PTL DEF MCSpec
-----------------------------------------------------------------------------
\* Fifo: a message goes one way, from its only writer through the FIFO to one
\* reader.

Shown == {r \in Readers : received[r] = "message"}
OpenStates == {"opening", "write", "read", "print", "close"}

FifoTypeOK ==
    /\ exists \in BOOLEAN /\ contents \in {0, 1} /\ kills \in Nat
    /\ where \in [Named!Procs -> OpenStates \union {"start", "open", "failed", "killed", "ended"}]
    /\ received \in [Readers -> {"nothing", "message", "empty"}]

\* One writer makes the FIFO, and the others fail.
OneMaker ==
    \A w \in Writers : where[w] \notin {"start", "failed"} =>
        exists /\ \A v \in Writers \ {w} : where[v] \in {"start", "failed"}

\* No message is there before the writer has written, and there is one at most.
OneMessage ==
    /\ ~exists \/ (\E w \in Writers : where[w] \in {"open", "opening", "write"}) =>
          contents = 0 /\ Shown = {}
    /\ contents = 1 => Shown = {}
    /\ \A r, other \in Shown : r = other
    /\ \A r \in Readers : where[r] \in {"start", "open", "opening", "read"} =>
          received[r] = "nothing"

\* Unless somebody was killed, a reader finds a writer or a message.
NobodyMissesIt ==
    kills = 0 =>
        /\ \A w \in Writers : where[w] = "close" => contents = 1 \/ Shown # {}
        /\ \A r \in Readers : where[r] = "read" =>
              contents = 1 \/ Shown # {} \/ \E w \in Writers : where[w] \in OpenStates
        /\ \A r \in Readers : received[r] = "empty" => Shown # {}

FifoInv == FifoTypeOK /\ OneMaker /\ OneMessage /\ NobodyMissesIt

\* What a process leaves in the FIFO when it closes.
LEMMA Keeping ==
    ASSUME NEW x
    PROVE  /\ Named!Kept(x) \in {0, x}
           /\ (\E p \in Named!Procs : where'[p] \in OpenStates) => Named!Kept(x) = x
  BY DEF Named!Kept, Named!Open, OpenStates

LEMMA OpenIs ==
    ASSUME NEW S, Named!Open(S, where) = {}
    PROVE  \A p \in S : where[p] \notin OpenStates
  BY DEF Named!Open, OpenStates

LEMMA FifoInductive == FifoInv /\ [Named!Next]_(Named!vars) => FifoInv'
<1> SUFFICES ASSUME FifoInv, [Named!Next]_(Named!vars) PROVE FifoInv'
  OBVIOUS
<1> USE InstanceAssumption DEF FifoInv
<1>0. /\ Writers \subseteq Named!Procs /\ Readers \subseteq Named!Procs
      /\ \A p \in Named!Procs : p \in Writers \/ p \in Readers
      /\ \A p \in Writers : p \notin Readers
  BY DEF Named!Procs
<1>1. ASSUME NEW w \in Writers, Named!MakeFifo(w) PROVE FifoInv'
  <2>1. /\ where[w] = "start" /\ exists' = TRUE
        /\ where' = [where EXCEPT ![w] = IF exists THEN "failed" ELSE "open"]
        /\ UNCHANGED <<contents, received, kills>>
    BY <1>1 DEF Named!MakeFifo, Named!Goto
  <2>2. FifoTypeOK'
    BY <1>0, <2>1 DEF FifoTypeOK
  <2>3. OneMaker'
    BY <1>0, <2>1 DEF FifoTypeOK, OneMaker
  <2>4. OneMessage'
    BY <1>0, <2>1 DEF FifoTypeOK, OneMessage, Shown
  <2>5. NobodyMissesIt'
    BY <1>0, <2>1 DEF FifoTypeOK, NobodyMissesIt, Shown, OpenStates
  <2>6. QED
    BY <2>2, <2>3, <2>4, <2>5
<1>2. ASSUME NEW r \in Readers, Named!FindFifo(r) PROVE FifoInv'
  <2>1. /\ where[r] = "start"
        /\ where' = [where EXCEPT ![r] = IF exists THEN "open" ELSE "failed"]
        /\ UNCHANGED <<exists, contents, received, kills>>
    BY <1>2 DEF Named!FindFifo, Named!Goto
  <2>2. FifoTypeOK'
    BY <1>0, <2>1 DEF FifoTypeOK
  <2>3. OneMaker'
    BY <1>0, <2>1 DEF FifoTypeOK, OneMaker
  <2>4. OneMessage'
    BY <1>0, <2>1 DEF FifoTypeOK, OneMessage, Shown
  <2>5. NobodyMissesIt'
    BY <1>0, <2>1 DEF FifoTypeOK, NobodyMissesIt, Shown, OpenStates
  <2>6. QED
    BY <2>2, <2>3, <2>4, <2>5
<1>3. ASSUME NEW p \in Named!Procs, Named!OpenFifo(p) PROVE FifoInv'
  <2>1. /\ where[p] = "open" /\ UNCHANGED <<exists, contents, received, kills>>
        /\ where' = [q \in Named!Procs |->
              IF q = p THEN IF Named!Open(Named!Peers(p), where) = {} THEN "opening"
                            ELSE Named!Opened(p)
              ELSE IF q \in Named!Peers(p) /\ where[q] = "opening" THEN Named!Opened(q)
              ELSE where[q]]
    BY <1>3 DEF Named!OpenFifo
  <2>2. /\ where'[p] \in {"opening", Named!Opened(p)}
        /\ \A q \in Named!Procs \ {p} :
              where'[q] = where[q] \/ (where[q] = "opening" /\ where'[q] = Named!Opened(q))
        /\ \A q \in Writers : Named!Opened(q) = "write"
        /\ \A q \in Readers : Named!Opened(q) = "read"
    <3>1. where'[p] \in {"opening", Named!Opened(p)}
      BY <2>1
    <3>2. \A q \in Named!Procs \ {p} :
             where'[q] = where[q] \/ (where[q] = "opening" /\ where'[q] = Named!Opened(q))
      BY <2>1
    <3>3. QED
      BY <1>0, <3>1, <3>2 DEF Named!Opened
  <2>3. FifoTypeOK'
    <3>1. \A q \in Named!Procs : where'[q] \in OpenStates \union {"start", "open", "failed", "killed", "ended"}
      BY <1>0, <2>2 DEF FifoTypeOK, OpenStates
    <3>2. where' = [q \in Named!Procs |-> where'[q]]
      BY <2>1, Zenon
    <3>3. where' \in [Named!Procs -> OpenStates \union {"start", "open", "failed", "killed", "ended"}]
      BY <3>1, <3>2, Zenon
    <3>4. QED
      BY <2>1, <3>3 DEF FifoTypeOK
  <2>4. OneMaker'
    <3>1. \A w \in Writers : /\ where'[w] \notin {"start", "failed"} => where[w] \notin {"start", "failed"}
                             /\ where[w] \in {"start", "failed"} => where'[w] = where[w]
      BY <1>0, <2>1, <2>2
    <3>2. QED
      BY <2>1, <3>1 DEF OneMaker
  <2>5. OneMessage'
    <3>1. \A w \in Writers : where'[w] \in {"open", "opening", "write"}
                                => where[w] \in {"open", "opening", "write"}
      BY <1>0, <2>1, <2>2
    <3>2. \A r \in Readers : where'[r] \in {"start", "open", "opening", "read"}
                                => where[r] \in {"start", "open", "opening", "read"}
      BY <1>0, <2>1, <2>2
    <3>3. QED
      BY <2>1, <3>1, <3>2 DEF OneMessage, Shown
  <2>6. NobodyMissesIt'
    <3>1. \A w \in Writers : where'[w] = "close" => where[w] = "close"
      BY <1>0, <2>1, <2>2
    <3>2. \A w \in Writers : where[w] \in OpenStates => where'[w] \in OpenStates
      BY <1>0, <2>1, <2>2 DEF OpenStates
    <3>3. \A r \in Readers : where'[r] = "read" =>
             where[r] = "read" \/ \E w \in Writers : where'[w] \in OpenStates
      <4>1. ASSUME NEW r \in Readers, where'[r] = "read", where[r] # "read"
            PROVE  \E w \in Writers : where'[w] \in OpenStates
        <5>1. CASE r = p
          <6>1. Named!Open(Writers, where) # {}
            BY <1>0, <2>1, <4>1, <5>1 DEF Named!Peers
          <6>2. \E w \in Writers : where[w] \in OpenStates
            BY <6>1 DEF Named!Open, OpenStates
          <6>3. QED
            BY <3>2, <6>2
        <5>2. CASE r # p
          <6>1. r \in Named!Peers(p)
            BY <1>0, <2>1, <4>1, <5>2
          <6>2. p \in Writers
            BY <1>0, <6>1 DEF Named!Peers
          <6>3. QED
            BY <2>2, <6>2 DEF OpenStates
        <5>3. QED
          BY <5>1, <5>2
      <4>2. QED
        BY <4>1
    <3>4. QED
      BY <2>1, <3>1, <3>2, <3>3 DEF NobodyMissesIt, Shown
  <2>7. QED
    BY <2>3, <2>4, <2>5, <2>6
<1>4. ASSUME NEW w \in Writers, Named!Write(w) PROVE FifoInv'
  <2>1. /\ where[w] = "write" /\ contents = 0 /\ Shown = {}
        /\ UNCHANGED <<exists, received, kills>> /\ contents' = Named!Kept(contents + 1)
        /\ where' = [where EXCEPT ![w] = IF Named!Open(Readers, where) = {} THEN "failed" ELSE "close"]
    BY <1>4 DEF Named!Write, Named!Goto, OneMessage
  <2>2. contents' \in {0, 1} /\ (where'[w] = "close" => contents' = 1)
    <3>1. contents + 1 = 1 /\ w \in Named!Procs
      BY <1>0, <2>1
    <3>2. QED
      BY <2>1, <3>1, Keeping DEF OpenStates
  <2>3. FifoTypeOK'
    BY <1>0, <2>1, <2>2 DEF FifoTypeOK, OpenStates
  <2>4. OneMaker'
    BY <1>0, <2>1 DEF FifoTypeOK, OneMaker
  <2>5. exists /\ \A v \in Writers : where'[v] \notin {"open", "opening", "write"}
    BY <1>0, <2>1 DEF FifoTypeOK, OneMaker
  <2>6. OneMessage'
    BY <1>0, <2>1, <2>2, <2>5 DEF FifoTypeOK, OneMessage, Shown
  <2>7. NobodyMissesIt'
    <3>1. \A v \in Writers : where'[v] = "close" => v = w
      BY <1>0, <2>1 DEF FifoTypeOK, OneMaker
    <3>2. where'[w] = "failed" => \A r \in Readers : where'[r] # "read"
      BY <1>0, <2>1, OpenIs DEF FifoTypeOK, OpenStates
    <3>3. where'[w] = "close" \/ where'[w] = "failed"
      BY <1>0, <2>1 DEF FifoTypeOK
    <3>4. QED
      BY <1>0, <2>1, <2>2, <3>1, <3>2, <3>3 DEF FifoTypeOK, NobodyMissesIt, Shown, OpenStates
  <2>8. QED
    BY <2>3, <2>4, <2>6, <2>7
<1>5. ASSUME NEW r \in Readers, Named!Read(r) PROVE FifoInv'
  <2>1. /\ where[r] = "read" /\ where' = [where EXCEPT ![r] = "print"]
        /\ contents > 0 \/ Named!Open(Writers, where) = {}
        /\ received' = [received EXCEPT ![r] = IF contents > 0 THEN "message" ELSE "empty"]
        /\ contents' = 0 /\ UNCHANGED <<exists, kills>>
    BY <1>5 DEF Named!Read, Named!Goto, Named!MayRead
  <2>2. FifoTypeOK'
    BY <1>0, <2>1 DEF FifoTypeOK, OpenStates
  <2>3. OneMaker'
    BY <1>0, <2>1 DEF FifoTypeOK, OneMaker
  <2>4. \A q \in Readers : received'[q] = "message" <=>
            q \in Shown \/ (q = r /\ contents = 1)
    BY <1>0, <2>1 DEF FifoTypeOK, OneMessage, Shown
  <2>5. CASE contents = 1
    <3>1. Shown' = {r} /\ Shown = {}
      BY <2>4, <2>5 DEF Shown, OneMessage
    <3>2. OneMessage'
      BY <1>0, <2>1, <2>5, <3>1 DEF FifoTypeOK, OneMessage
    <3>3. NobodyMissesIt'
      BY <3>1 DEF NobodyMissesIt
    <3>4. QED
      BY <2>2, <2>3, <3>2, <3>3
  <2>6. CASE contents = 0
    <3>1. Shown' = Shown
      BY <2>4, <2>6 DEF Shown
    <3>2. OneMessage'
      BY <1>0, <2>1, <2>6, <3>1 DEF FifoTypeOK, OneMessage
    <3>3. NobodyMissesIt'
      <4>1. \A w \in Writers : where[w] \notin OpenStates
        BY <2>1, <2>6, OpenIs
      <4>2. kills = 0 => Shown # {}
        BY <2>1, <2>6, <4>1 DEF NobodyMissesIt
      <4>3. QED
        BY <2>1, <3>1, <4>2 DEF NobodyMissesIt
    <3>4. QED
      BY <2>2, <2>3, <3>2, <3>3
  <2>7. QED
    BY <2>5, <2>6 DEF FifoTypeOK
<1>6. ASSUME NEW r \in Readers, Named!PrintRead(r) PROVE FifoInv'
  <2>1. /\ where[r] = "print" /\ where' = [where EXCEPT ![r] = "close"]
        /\ UNCHANGED <<exists, contents, received, kills>>
    BY <1>6 DEF Named!PrintRead, Named!Goto
  <2>2. FifoTypeOK'
    BY <1>0, <2>1 DEF FifoTypeOK, OpenStates
  <2>3. OneMaker'
    BY <1>0, <2>1 DEF FifoTypeOK, OneMaker
  <2>4. OneMessage'
    BY <1>0, <2>1 DEF FifoTypeOK, OneMessage, Shown
  <2>5. NobodyMissesIt'
    BY <1>0, <2>1 DEF FifoTypeOK, NobodyMissesIt, Shown, OpenStates
  <2>6. QED
    BY <2>2, <2>3, <2>4, <2>5
<1>7. ASSUME NEW p \in Named!Procs, Named!Close(p) PROVE FifoInv'
  <2>1. /\ where[p] = "close" /\ where' = [where EXCEPT ![p] = "ended"]
        /\ contents' = Named!Kept(contents) /\ UNCHANGED <<exists, received, kills>>
    BY <1>7 DEF Named!Close, Named!Goto
  <2>2. contents' \in {0, contents}
    BY <2>1, Keeping
  <2>3. FifoTypeOK'
    BY <2>1, <2>2 DEF FifoTypeOK, OpenStates
  <2>4. OneMaker'
    BY <1>0, <2>1 DEF FifoTypeOK, OneMaker
  <2>5. OneMessage'
    BY <1>0, <2>1, <2>2 DEF FifoTypeOK, OneMessage, Shown
  <2>6. NobodyMissesIt'
    <3>1. \A q \in Named!Procs : where'[q] \in OpenStates => where[q] = where'[q] /\ q # p
      BY <2>1 DEF FifoTypeOK, OpenStates
    <3>2. (\E q \in Named!Procs : where'[q] \in OpenStates) => contents' = contents
      BY <2>1, Keeping
    <3>3. \A w \in Writers : where[w] \in OpenStates => w = p \/ where'[w] \in OpenStates
      BY <1>0, <2>1 DEF FifoTypeOK
    <3>4. Shown' = Shown
      BY <2>1 DEF Shown
    <3>5. ASSUME kills = 0, NEW w \in Writers, where'[w] = "close"
          PROVE  contents' = 1 \/ Shown # {}
      <4>1. where'[w] \in OpenStates
        BY <3>5 DEF OpenStates
      <4>2. QED
        BY <1>0, <3>1, <3>2, <3>5, <4>1 DEF NobodyMissesIt
    <3>6. ASSUME kills = 0, NEW r \in Readers, where'[r] = "read"
          PROVE  contents' = 1 \/ Shown # {} \/ \E w \in Writers : where'[w] \in OpenStates
      <4>1. where'[r] \in OpenStates
        BY <3>6 DEF OpenStates
      <4>2. where[r] = "read" /\ contents' = contents
        BY <1>0, <3>1, <3>2, <3>6, <4>1
      <4>3. p \in Writers => contents = 1 \/ Shown # {}
        BY <2>1, <3>6 DEF NobodyMissesIt
      <4>4. QED
        BY <1>0, <3>3, <3>6, <4>2, <4>3 DEF NobodyMissesIt
    <3>7. QED
      BY <2>1, <3>4, <3>5, <3>6 DEF NobodyMissesIt
  <2>7. QED
    BY <2>3, <2>4, <2>5, <2>6
<1>8. ASSUME NEW p \in Named!Procs, Named!Kill(p) PROVE FifoInv'
  <2>1. /\ where[p] \in {"open", "opening", "write", "read"}
        /\ where' = [where EXCEPT ![p] = "killed"] /\ kills' = kills + 1
        /\ contents' = Named!Kept(contents) /\ UNCHANGED <<exists, received>>
    BY <1>8 DEF Named!Kill
  <2>2. contents' \in {0, contents}
    BY <2>1, Keeping
  <2>3. FifoTypeOK' /\ kills' # 0
    BY <2>1, <2>2 DEF FifoTypeOK, OpenStates
  <2>4. OneMaker'
    BY <1>0, <2>1 DEF FifoTypeOK, OneMaker
  <2>5. OneMessage'
    BY <1>0, <2>1, <2>2 DEF FifoTypeOK, OneMessage, Shown
  <2>6. NobodyMissesIt'
    BY <2>3 DEF NobodyMissesIt
  <2>7. QED
    BY <2>3, <2>4, <2>5, <2>6
<1>9. CASE UNCHANGED Named!vars
  BY <1>9 DEF Named!vars, FifoTypeOK, OneMaker, OneMessage, NobodyMissesIt, Shown
<1>10. QED
  BY <1>0, <1>1, <1>2, <1>3, <1>4, <1>5, <1>6, <1>7, <1>8, <1>9
  DEF Named!Next, Named!Writing, Named!Reading

\* One reader shows the message, and another shows nothing only because it was
\* taken before or somebody was killed, for any numbers of writers, readers and
\* kills (dz4/task2.c:22-36, task1.c:30-41).
THEOREM OneReaderShowsIt == MCSpec => []OneShowsIt
<1>1. MCInit => FifoInv
  <2> SUFFICES ASSUME Named!Init PROVE FifoInv
    BY DEF MCInit
  <2>1. FifoTypeOK
    BY DEF Named!Init, FifoTypeOK
  <2>2. Writers \subseteq Named!Procs /\ Readers \subseteq Named!Procs
    BY DEF Named!Procs
  <2>3. OneMaker /\ OneMessage /\ NobodyMissesIt
    BY <2>2 DEF Named!Init, OneMaker, OneMessage, NobodyMissesIt, Shown
  <2>4. QED
    BY <2>1, <2>3 DEF FifoInv
<1>2. FifoInv /\ [MCNext]_allVars => FifoInv'
  BY ProgramsApart, FifoInductive
<1>3. FifoInv => OneShowsIt
  BY DEF FifoInv, FifoTypeOK, OneMessage, NobodyMissesIt, Shown, OneShowsIt, Named!OneShowsIt
<1>4. QED
  BY <1>1, <1>2, <1>3, PTL DEF MCSpec
=============================================================================
