--------------------------- MODULE SemaphoreProofs ---------------------------
(***************************************************************************)
(* The programs of dz6 that use nothing but semaphores.  The players of    *)
(* task5.c for any number of players, of turns and of faults: with one     *)
(* increment from outside there is one turn to be had, so no update of the *)
(* number is lost and turns alternate.  The takers and givers of task1.c   *)
(* and task2.c in any number: they leave no semaphore behind.              *)
(***************************************************************************)
EXTENDS MCSemaphores, SystemVProofs, FiniteSetTheorems

-----------------------------------------------------------------------------
\* PingPong.

\* Nobody is a player and a kicker, and NoOne is nobody.
Roles == Players \intersect Kickers = {} /\ NoOne \notin Players

Procs == Players \union Kickers

TypeOK ==
    /\ Good(sem, Procs) /\ pc = [p \in Players |-> pc[p]]
    /\ shmem_num \in Nat /\ num \in [Players -> Nat] /\ last \in Players \union {NoOne}
    /\ kicked \subseteq Kickers /\ IsFiniteSet(kicked)

\* Who has started has seen to it that the set exists.
SetIsThere == \A p \in Players : pc[p] # "start" => sem.live

\* Who waits has already gone on to where the wait leads.
WaitPlaces ==
    /\ \A p \in Range(sem.takers) : p \in Players /\ pc[p] = "read"
    /\ \A p \in sem.zeros : p \in Players /\ pc[p] = "enter"

\* The one increment from outside is in the semaphore or with the player inside,
\* or it was lost.
OneTurn ==
    /\ sem.val <= 1 /\ (\A p, q \in Inside : p = q) /\ (Inside # {} => sem.val = 0)
    /\ kicked = {} => sem.val = 0 /\ Inside = {} /\ last = NoOne

\* Only for the player inside would the kernel add to the value.
Adjusted(p) == sem.adj[p] <= IF p \in Inside THEN 1 ELSE 0

\* What the player inside has read is still the number.
HasRead(p) == pc[p] = "write" => num[p] = shmem_num
WroteLast(p) == pc[p] = "exit" => last = p

\* Who wrote last and asks for another turn finds the semaphore at zero, so it
\* waits until another player has written.
Rests(p) ==
    killed = {} /\ last = p =>
        /\ pc[p] \in {"exit", "wait", "enter", "read"}
        /\ pc[p] = "read" \/ (pc[p] = "enter" /\ p \notin sem.zeros) =>
              sem.val = 0 /\ p \notin Inside

Turns ==
    /\ SetIsThere /\ WaitPlaces /\ OneTurn
    /\ \A p \in Procs : Adjusted(p)
    /\ \A p \in Players : HasRead(p) /\ WroteLast(p) /\ Rests(p)

TurnInv == TypeOK /\ (OneKick => Turns)

-----------------------------------------------------------------------------
\* What a step makes of the set.

Undone(p) == IF sem.val + sem.adj[p] >= 0 THEN sem.val + sem.adj[p] ELSE 0

LEMMA SemSteps ==
    ASSUME TypeOK, NEW p \in Procs
    PROVE  /\ CtorGet(p) => sem' = SemGet(sem)
           /\ CtorSet(p) /\ sem.live =>
                Outcome(sem, sem', Procs, 0, [q \in Procs |-> 0], Range(sem.takers), sem.zeros)
           /\ Enter(p) /\ sem.live =>
                Outcome(sem, sem', Procs, sem.val, sem.adj, Range(sem.takers) \union {p}, sem.zeros)
           /\ Exit(p) /\ sem.live =>
                Outcome(sem, sem', Procs, sem.val + 1, [sem.adj EXCEPT ![p] = @ - 1],
                        Range(sem.takers), sem.zeros)
           /\ Wait(p) /\ sem.live => sem' = WaitForZero(sem, p)
           /\ Kick(p) =>
                Outcome(sem, sem', Procs, sem.val + 1, [sem.adj EXCEPT ![p] = @ - 1],
                        Range(sem.takers), sem.zeros)
           /\ KickerExits(p) \/ (Kill(p) /\ sem.live) =>
                Outcome(sem, sem', Procs, Undone(p), [sem.adj EXCEPT ![p] = 0],
                        Range(sem.takers) \ {p}, sem.zeros \ {p})
           /\ (CtorSet(p) \/ Enter(p) \/ Exit(p) \/ Wait(p) \/ Kill(p)) /\ ~sem.live => sem' = sem
<1>1. Good(sem, Procs)
  BY DEF TypeOK
<1>2. CtorGet(p) => sem' = SemGet(sem)
  BY DEF CtorGet
<1>3. ASSUME CtorSet(p), sem.live
      PROVE  Outcome(sem, sem', Procs, 0, [q \in Procs |-> 0], Range(sem.takers), sem.zeros)
  <2>1. sem' = SetVal(sem, 0)
    BY <1>3 DEF CtorSet, InitialValue
  <2>2. QED
    BY <1>1, <2>1, SetValOutcome
<1>4. ASSUME Enter(p), sem.live
      PROVE  Outcome(sem, sem', Procs, sem.val, sem.adj, Range(sem.takers) \union {p}, sem.zeros)
  <2>1. sem' = Take(sem, p) /\ p \notin Range(sem.takers)
    BY <1>4 DEF Enter, SemOp, Goto, Waiting
  <2>2. QED
    BY <1>1, <2>1, TakeOutcome
<1>5. ASSUME (Exit(p) /\ sem.live) \/ Kick(p)
      PROVE  Outcome(sem, sem', Procs, sem.val + 1, [sem.adj EXCEPT ![p] = @ - 1],
                     Range(sem.takers), sem.zeros)
  <2>1. sem' = Add(sem, p)
    BY <1>5 DEF Exit, SemOp, Kick
  <2>2. QED
    BY <1>1, <2>1, AddOutcome
<1>6. Wait(p) /\ sem.live => sem' = WaitForZero(sem, p)
  BY DEF Wait, SemOp
<1>7. ASSUME KickerExits(p) \/ (Kill(p) /\ sem.live)
      PROVE  Outcome(sem, sem', Procs, Undone(p), [sem.adj EXCEPT ![p] = 0],
                     Range(sem.takers) \ {p}, sem.zeros \ {p})
  <2>1. sem' = Undo(sem, p)
    BY <1>7 DEF KickerExits, Kill
  <2>2. QED
    BY <1>1, <2>1, UndoOutcome DEF Undone
<1>8. (CtorSet(p) \/ Enter(p) \/ Exit(p) \/ Wait(p) \/ Kill(p)) /\ ~sem.live => sem' = sem
  BY DEF CtorSet, Enter, Exit, Wait, Kill, SemOp
<1>9. QED
  BY <1>2, <1>3, <1>4, <1>5, <1>6, <1>7, <1>8

LEMMA TypeStep ==
    ASSUME Roles, TypeOK, Next
    PROVE  TypeOK'
<1>1. /\ Good(sem, Procs) /\ pc = [p \in Players |-> pc[p]]
      /\ shmem_num \in Nat /\ num \in [Players -> Nat] /\ last \in Players \union {NoOne}
      /\ kicked \subseteq Kickers /\ IsFiniteSet(kicked)
      /\ Players \subseteq Procs /\ Kickers \subseteq Procs
  BY DEF TypeOK, Procs
<1>2. ASSUME NEW p \in Players, CtorGet(p) PROVE TypeOK'
  <2>1. sem' = SemGet(sem) /\ pc' = [pc EXCEPT ![p] = "setall"] /\ UNCHANGED <<numbers, outside>>
    BY <1>2 DEF CtorGet, Goto
  <2>2. Good(SemGet(sem), Procs)
    BY <1>1, GetOutcome, Zenon DEF SemGet
  <2>3. QED
    BY <1>1, <2>1, <2>2 DEF TypeOK, numbers, outside
<1>3. ASSUME NEW p \in Players, CtorSet(p) \/ Enter(p) \/ Exit(p) PROVE TypeOK'
  <2>1. Good(sem', Procs)
    BY <1>1, <1>3, SemSteps DEF Outcome
  <2>2. UNCHANGED <<numbers, outside>> /\ \E to : pc' = [pc EXCEPT ![p] = to]
    BY <1>3 DEF CtorSet, Enter, Exit, SemOp, Goto
  <2>3. QED
    BY <1>1, <2>1, <2>2 DEF TypeOK, numbers, outside
<1>4. ASSUME NEW p \in Players, Wait(p) PROVE TypeOK'
  <2>1. UNCHANGED <<numbers, outside>> /\ pc' = [pc EXCEPT ![p] = "enter"]
    BY <1>4 DEF Wait, SemOp, Goto
  <2>2. sem' = sem \/ sem' = WaitForZero(sem, p)
    BY <1>4 DEF Wait, SemOp
  <2>3. Good(WaitForZero(sem, p), Procs)
    BY <1>1, ZeroOutcome
  <2>4. QED
    BY <1>1, <2>1, <2>2, <2>3 DEF TypeOK, numbers, outside
<1>5. ASSUME NEW p \in Players, Read(p) PROVE TypeOK'
  BY <1>1, <1>5 DEF Read, Goto, TypeOK, outside
<1>6. ASSUME NEW p \in Players, Write(p) PROVE TypeOK'
  BY <1>1, <1>6 DEF Write, Goto, TypeOK, outside
<1>7. ASSUME NEW p \in Players, Kill(p) PROVE TypeOK'
  <2>1. Good(sem', Procs)
    BY <1>1, <1>7, SemSteps DEF Outcome
  <2>2. QED
    BY <1>1, <1>7, <2>1 DEF Kill, TypeOK, outside
<1>8. ASSUME NEW k \in Kickers, Kick(k) \/ KickerExits(k) PROVE TypeOK'
  <2>1. Good(sem', Procs)
    BY <1>1, <1>8, SemSteps DEF Outcome
  <2>2. UNCHANGED <<pc, numbers>> /\ (kicked' = kicked \union {k} \/ kicked' = kicked)
    BY <1>8 DEF Kick, KickerExits, outside
  <2>3. IsFiniteSet(kicked')
    BY <1>1, <2>2, FS_AddElement
  <2>4. QED
    BY <1>1, <2>1, <2>2, <2>3 DEF TypeOK, numbers
<1>9. ASSUME RemoveSet PROVE TypeOK'
  <2>1. Good(RmId(sem), Procs)
    BY <1>1, RemoveOutcome
  <2>2. QED
    BY <1>1, <1>9, <2>1 DEF RemoveSet, TypeOK, numbers
<1>10. QED
  BY <1>2, <1>3, <1>4, <1>5, <1>6, <1>7, <1>8, <1>9 DEF Next, Turn

\* One increment stays one: nobody kicks a second time, and the set is not removed.
LEMMA OneKickStays ==
    ASSUME TypeOK, Next, OneKick'
    PROVE  /\ OneKick /\ ~RemoveSet
           /\ \A k \in Kickers : Kick(k) => kicked = {}
<1>1. kicked \subseteq Kickers /\ IsFiniteSet(kicked)
  BY DEF TypeOK
<1>2. ASSUME NEW k \in Kickers, Kick(k) PROVE kicked = {} /\ OneKick
  <2>1. kicked' = kicked \union {k} /\ k \notin kicked /\ removed' = removed
    BY <1>2 DEF Kick
  <2>2. Cardinality(kicked') = Cardinality(kicked) + 1 /\ Cardinality(kicked) \in Nat
    BY <1>1, <2>1, FS_AddElement, FS_CardinalityType
  <2>3. Cardinality(kicked) = 0
    BY <2>2 DEF OneKick
  <2>4. QED
    BY <1>1, <2>1, <2>3, FS_EmptySet DEF OneKick
<1>3. ~RemoveSet
  BY DEF RemoveSet, OneKick
<1>4. ASSUME \A k \in Kickers : ~Kick(k) PROVE OneKick
  <2>1. UNCHANGED <<kicked, removed>>
    BY <1>3, <1>4 DEF Next, Turn, CtorGet, CtorSet, Enter, Read, Write, Exit, Wait, Kill,
       KickerExits, SemOp, outside
  <2>2. QED
    BY <2>1 DEF OneKick
<1>5. QED
  BY <1>2, <1>3, <1>4

-----------------------------------------------------------------------------
\* What a semaphore operation of p does to everybody else: who leaves T is inside.

Others(p, v, T) ==
    /\ \A q \in Players \ {p} : q \in Inside' <=> q \in Inside \/ q \in T \ Range(sem'.takers)
    /\ \A q \in Procs \ {p} : Adjusted(q)'
    /\ \A q \in Range(sem'.takers) \ {p} : q \in Players /\ pc'[q] = "read"
    /\ \A q \in sem'.zeros \ {p} : q \in Players /\ pc'[q] = "enter"
    /\ sem'.val \in Nat /\ sem'.val <= v /\ sem'.live = sem.live
    /\ T \ Range(sem'.takers) # {} => sem'.val = 0 /\ v = 1
    /\ \A x, y \in T \ Range(sem'.takers) : x = y
    /\ v <= sem.val /\ last' = last /\ (killed' = {} => killed = {}) =>
         \A q \in Players \ {p} : Rests(q)'

LEMMA TurnStep ==
    ASSUME TypeOK, Turns, NEW p \in Procs, NEW v \in Int, NEW a, NEW T, NEW Z,
           Outcome(sem, sem', Procs, v, a, T, Z), v <= 1,
           \A q \in Players \ {p} : pc'[q] = pc[q],
           T \subseteq Range(sem.takers) \union {p}, Range(sem.takers) \ {p} \subseteq T,
           Z \subseteq sem.zeros, sem.zeros \ {p} \subseteq Z,
           \A q \in Procs \ {p} : a[q] \in Int /\ a[q] <= IF q \in Inside THEN 1 ELSE 0
    PROVE  Others(p, v, T)
<1> DEFINE S == T \ Range(sem'.takers)
<1>1. /\ Good(sem', Procs) /\ sem'.live = sem.live
      /\ sem'.val <= v /\ Range(sem'.takers) \subseteq T
      /\ sem'.val = v <=> Range(sem'.takers) = T
      /\ \A x, y \in S : x = y
      /\ \A q \in Procs : sem'.adj[q] = IF q \in S THEN a[q] + 1 ELSE a[q]
      /\ sem'.zeros = IF sem'.val = 0 THEN {} ELSE Z
  BY DEF Outcome
<1>2. sem'.val \in Nat /\ sem.val \in Nat
  BY <1>1 DEF TypeOK, Good, SemSets
<1>3. S # {} => sem'.val = 0 /\ v = 1
  BY <1>1, <1>2
<1>4. /\ \A q \in Range(sem.takers) : q \in Players /\ pc[q] = "read"
      /\ \A q \in sem.zeros : q \in Players /\ pc[q] = "enter"
  BY DEF Turns, WaitPlaces
<1>5. ASSUME NEW q \in Players, q # p PROVE q \in Inside' <=> q \in Inside \/ q \in S
  BY <1>1, <1>4, <1>5 DEF Inside, Waiting
<1>6. ASSUME NEW q \in S, q # p PROVE q \in Players /\ q \notin Inside
  BY <1>4, <1>6 DEF Inside, Waiting
<1>7. ASSUME NEW q \in Procs, q # p PROVE Adjusted(q)'
  <2>1. q \in Inside \/ q \in S => q \in Inside'
    BY <1>5, <1>6, <1>7 DEF Inside
  <2>2. a[q] \in Int /\ a[q] <= IF q \in Inside THEN 1 ELSE 0
    BY <1>7
  <2>3. sem'.adj[q] = IF q \in S THEN a[q] + 1 ELSE a[q]
    BY <1>1
  <2>4. sem'.adj[q] <= IF q \in Inside' THEN 1 ELSE 0
    BY <1>6, <1>7, <2>1, <2>2, <2>3
  <2>5. QED
    BY <2>4 DEF Adjusted
<1>8. ASSUME v <= sem.val, last' = last, killed' = {} => killed = {},
             NEW q \in Players, q # p
      PROVE  Rests(q)'
  <2>1. SUFFICES ASSUME killed' = {}, last' = q
                 PROVE  /\ pc'[q] \in {"exit", "wait", "enter", "read"}
                        /\ pc'[q] = "read" \/ (pc'[q] = "enter" /\ q \notin sem'.zeros) =>
                             sem'.val = 0 /\ q \notin Inside'
    BY DEF Rests
  <2>2. pc'[q] = pc[q] /\ Rests(q) /\ killed = {} /\ last = q
    BY <1>8, <2>1 DEF Turns
  <2>3. CASE pc[q] = "read" \/ (pc[q] = "enter" /\ q \notin sem.zeros)
    <3>1. sem.val = 0 /\ q \notin Inside
      BY <2>2, <2>3 DEF Rests
    <3>2. sem'.val = 0 /\ S = {}
      BY <1>1, <1>2, <1>3, <1>8, <3>1
    <3>3. QED
      BY <1>5, <1>8, <2>2, <2>3, <3>1, <3>2
  <2>4. CASE pc[q] = "enter" /\ q \in sem.zeros
    <3>1. q \notin Inside'
      BY <2>2, <2>4 DEF Inside
    <3>2. q \notin sem'.zeros => sem'.val = 0
      BY <1>1, <1>8, <2>4
    <3>3. QED
      BY <2>2, <2>4, <3>1, <3>2
  <2>5. CASE pc[q] \notin {"enter", "read"}
    BY <2>2, <2>5 DEF Rests
  <2>6. QED
    BY <2>3, <2>4, <2>5
<1>9. \A q \in Range(sem'.takers) \ {p} : q \in Players /\ pc'[q] = "read"
  BY <1>1, <1>4
<1>10. \A q \in sem'.zeros \ {p} : q \in Players /\ pc'[q] = "enter"
  BY <1>1, <1>4
<1>11. QED
  BY <1>1, <1>2, <1>3, <1>5, <1>7, <1>8, <1>9, <1>10 DEF Others

\* Steps that leave the semaphore alone, and the end of the wait.
LEMMA QuietStep ==
    ASSUME Roles, TypeOK, Turns, NEW p \in Players,
           CtorGet(p) \/ Read(p) \/ Write(p) \/ Wait(p)
    PROVE  Turns'
<1>1. /\ SetIsThere /\ WaitPlaces /\ OneTurn /\ \A q \in Procs : Adjusted(q)
      /\ \A q \in Players : HasRead(q) /\ WroteLast(q) /\ Rests(q)
  BY DEF Turns
<1>2. /\ pc = [q \in Players |-> pc[q]] /\ num \in [Players -> Nat] /\ shmem_num \in Nat
      /\ Good(sem, Procs) /\ Players \subseteq Procs /\ NoOne \notin Players
  BY DEF TypeOK, Roles, Procs
<1>3. UNCHANGED outside /\ p \notin Waiting(sem) /\ \A q \in Players \ {p} : pc'[q] = pc[q]
  BY <1>2 DEF CtorGet, Read, Write, Wait, SemOp, Goto, outside
<1>4. CASE CtorGet(p)
  <2>1. /\ pc[p] = "start" /\ pc'[p] = "setall"
        /\ UNCHANGED <<numbers, outside>> /\ sem' = SemGet(sem)
    BY <1>2, <1>4 DEF CtorGet, Goto
  <2>2. CASE sem.live
    <3>1. sem' = sem
      BY <2>1, <2>2 DEF SemGet
    <3>2. Inside' = Inside
      BY <1>3, <2>1, <3>1 DEF Inside
    <3>3. killed' = {} => killed = {}
      BY <1>3, <2>1 DEF killed
    <3>4. SetIsThere' /\ WaitPlaces' /\ OneTurn' /\ \A q \in Procs : Adjusted(q)'
      BY <1>1, <1>2, <1>3, <2>1, <2>2, <3>1, <3>2 DEF SetIsThere, WaitPlaces, OneTurn, Adjusted, numbers, outside, Waiting
    <3>5. ASSUME NEW q \in Players PROVE HasRead(q)' /\ WroteLast(q)' /\ Rests(q)'
      BY <1>1, <1>3, <2>1, <3>1, <3>2, <3>3 DEF HasRead, WroteLast, Rests, numbers
    <3>6. QED
      BY <3>4, <3>5 DEF Turns
  <2>3. CASE ~sem.live
    <3>1. \A q \in Players : pc[q] = "start"
      BY <1>1, <2>3 DEF SetIsThere
    <3>2. sem' = [NoSemaphores(Procs) EXCEPT !.live = TRUE, !.id = sem.id + 1]
      BY <1>2, <2>1, <2>3 DEF SemGet, Good, SemSets
    <3>3. /\ sem'.live /\ sem'.val = 0 /\ sem'.adj = [q \in Procs |-> 0]
          /\ sem'.takers = <<>> /\ sem'.zeros = {} /\ Range(sem'.takers) = {}
      BY <3>2 DEF NoSemaphores, Range
    <3>4. Inside' = {} /\ Inside = {}
      BY <1>3, <2>1, <3>1 DEF Inside
    <3>5. killed' = {} /\ killed = {}
      BY <1>3, <2>1, <3>1 DEF killed
    <3>6. ASSUME NEW q \in Players PROVE HasRead(q)' /\ WroteLast(q)' /\ Rests(q)'
      BY <1>1, <1>3, <2>1, <3>1, <3>5 DEF HasRead, WroteLast, Rests, numbers
    <3>7. WaitPlaces' /\ SetIsThere' /\ OneTurn' /\ \A q \in Procs : Adjusted(q)'
      BY <1>1, <2>1, <3>3, <3>4 DEF SetIsThere, WaitPlaces, OneTurn, Adjusted, numbers, outside
    <3>8. QED
      BY <3>6, <3>7 DEF Turns
  <2>4. QED
    BY <2>2, <2>3
<1>5. CASE Read(p)
  <2>1. /\ pc[p] = "read" /\ pc'[p] = "write" /\ sem' = sem /\ last' = last
        /\ shmem_num' = shmem_num /\ num' = [num EXCEPT ![p] = shmem_num]
    BY <1>2, <1>5 DEF Read, Goto
  <2>2. p \in Inside /\ Inside' = Inside
    BY <1>3, <2>1 DEF Inside
  <2>3. killed' = {} => killed = {}
    BY <1>3, <2>1 DEF killed
  <2>4. SetIsThere' /\ WaitPlaces' /\ OneTurn' /\ \A q \in Procs : Adjusted(q)'
    BY <1>1, <1>2, <1>3, <2>1, <2>2 DEF SetIsThere, WaitPlaces, OneTurn, Adjusted, outside, Waiting
  <2>5. ASSUME NEW q \in Players PROVE HasRead(q)' /\ WroteLast(q)' /\ Rests(q)'
    BY <1>1, <1>2, <1>3, <2>1, <2>2, <2>3 DEF HasRead, WroteLast, Rests
  <2>6. QED
    BY <2>4, <2>5 DEF Turns
<1>6. CASE Write(p)
  <2>1. /\ pc[p] = "write" /\ pc'[p] = "exit" /\ sem' = sem /\ last' = p
    BY <1>2, <1>6 DEF Write, Goto
  <2>2. p \in Inside /\ Inside' = Inside
    BY <1>3, <2>1 DEF Inside
  <2>3. killed' = {} => killed = {}
    BY <1>3, <2>1 DEF killed
  <2>4. SetIsThere' /\ WaitPlaces' /\ OneTurn' /\ \A q \in Procs : Adjusted(q)'
    BY <1>1, <1>2, <1>3, <2>1, <2>2 DEF SetIsThere, WaitPlaces, OneTurn, Adjusted, outside, Waiting
  <2>5. ASSUME NEW q \in Players \ {p} PROVE pc[q] \notin {"write", "exit"}
    BY <1>1, <2>2 DEF WaitPlaces, OneTurn, Inside, Waiting
  <2>6. ASSUME NEW q \in Players PROVE HasRead(q)' /\ WroteLast(q)' /\ Rests(q)'
    BY <1>3, <2>1, <2>5 DEF HasRead, WroteLast, Rests
  <2>7. QED
    BY <2>4, <2>6 DEF Turns
<1>7. CASE Wait(p)
  <2>1. /\ pc[p] = "wait" /\ pc'[p] = "enter" /\ sem.live
        /\ UNCHANGED <<numbers, outside>> /\ sem' = WaitForZero(sem, p)
    BY <1>1, <1>2, <1>7 DEF Wait, SemOp, Goto, SetIsThere
  <2>2. /\ sem'.live /\ sem'.val = sem.val /\ sem'.adj = sem.adj /\ sem'.takers = sem.takers
        /\ sem'.zeros = IF sem.val = 0 THEN sem.zeros ELSE sem.zeros \union {p}
    BY <1>2, <2>1 DEF WaitForZero, Good, SemSets
  <2>3. Inside' = Inside
    BY <1>3, <2>1, <2>2 DEF Inside, Waiting
  <2>4. killed' = {} => killed = {}
    BY <1>3, <2>1 DEF killed
  <2>5. SetIsThere' /\ OneTurn' /\ \A q \in Procs : Adjusted(q)'
    BY <1>1, <1>2, <1>3, <2>1, <2>2, <2>3 DEF SetIsThere, OneTurn, Adjusted, outside, numbers
  <2>6. WaitPlaces'
    BY <1>1, <1>3, <2>1, <2>2 DEF WaitPlaces, Waiting
  <2>7. ASSUME NEW q \in Players PROVE HasRead(q)' /\ WroteLast(q)'
    BY <1>1, <1>3, <2>1 DEF HasRead, WroteLast, numbers
  <2>8. ASSUME NEW q \in Players PROVE Rests(q)'
    <3>1. CASE q = p
      BY <2>1, <2>2, <2>3, <3>1 DEF Rests, Inside
    <3>2. CASE q # p
      BY <1>1, <1>3, <2>1, <2>2, <2>3, <2>4, <3>2 DEF Rests, numbers
    <3>3. QED
      BY <3>1, <3>2
  <2>9. QED
    BY <2>5, <2>6, <2>7, <2>8 DEF Turns
<1>8. QED
  BY <1>4, <1>5, <1>6, <1>7

\* A new player sets the value back to 0; if there was an increment it is lost.
LEMMA CtorSetStep ==
    ASSUME Roles, TypeOK, Turns, NEW p \in Players, CtorSet(p)
    PROVE  Turns'
<1>1. /\ SetIsThere /\ WaitPlaces /\ OneTurn /\ \A q \in Procs : Adjusted(q)
      /\ \A q \in Players : HasRead(q) /\ WroteLast(q) /\ Rests(q)
  BY DEF Turns
<1>2. /\ pc = [q \in Players |-> pc[q]] /\ Good(sem, Procs) /\ p \in Procs
      /\ Players \subseteq Procs /\ sem.val \in Nat
  BY DEF TypeOK, Procs, Good, SemSets
<1>3. /\ pc[p] = "setall" /\ p \notin Waiting(sem) /\ sem.live /\ pc'[p] = "enter"
      /\ \A q \in Players \ {p} : pc'[q] = pc[q]
      /\ UNCHANGED <<numbers, outside>>
  BY <1>1, <1>2 DEF CtorSet, Goto, SetIsThere
<1>4. PICK a, T, Z : /\ a = [q \in Procs |-> 0] /\ T = Range(sem.takers) /\ Z = sem.zeros
                     /\ Outcome(sem, sem', Procs, 0, a, T, Z)
  BY <1>2, <1>3, SemSteps
<1>5. Others(p, 0, T)
  <2>1. \A q \in Procs : a[q] \in Int /\ a[q] <= IF q \in Inside THEN 1 ELSE 0
    BY <1>4
  <2>2. QED
    BY <1>2, <1>3, <1>4, <2>1, TurnStep
<1>6. p \notin T /\ p \notin Z /\ sem'.val = 0 /\ T \ Range(sem'.takers) = {} /\ sem'.live
  BY <1>3, <1>4, <1>5 DEF Others, Waiting
<1>7. Inside' = Inside /\ p \notin Inside
  BY <1>3, <1>5, <1>6 DEF Others, Inside
<1>8. killed' = {} => killed = {}
  BY <1>3 DEF killed
<1>9. Range(sem'.takers) \subseteq T /\ sem'.zeros = {} /\ sem'.adj[p] = 0
  BY <1>2, <1>4, <1>6 DEF Outcome
<1>10. SetIsThere' /\ WaitPlaces' /\ OneTurn'
  BY <1>1, <1>3, <1>5, <1>6, <1>7, <1>9 DEF Others, SetIsThere, WaitPlaces, OneTurn, numbers, outside
<1>11. \A q \in Procs : Adjusted(q)'
  BY <1>5, <1>7, <1>9 DEF Others, Adjusted
<1>12. ASSUME NEW q \in Players PROVE HasRead(q)' /\ WroteLast(q)'
  BY <1>1, <1>3 DEF HasRead, WroteLast, numbers
<1>13. ASSUME NEW q \in Players PROVE Rests(q)'
  <2>1. CASE q # p
    BY <1>2, <1>3, <1>5, <1>8, <2>1 DEF Others, numbers
  <2>2. CASE q = p
    BY <1>1, <1>3, <1>8, <2>2 DEF Rests, numbers
  <2>3. QED
    BY <2>1, <2>2
<1>14. QED
  BY <1>10, <1>11, <1>12, <1>13 DEF Turns

LEMMA EnterStep ==
    ASSUME Roles, TypeOK, Turns, NEW p \in Players, Enter(p)
    PROVE  Turns'
<1>1. /\ SetIsThere /\ WaitPlaces /\ OneTurn /\ \A q \in Procs : Adjusted(q)
      /\ \A q \in Players : HasRead(q) /\ WroteLast(q) /\ Rests(q)
  BY DEF Turns
<1>2. /\ pc = [q \in Players |-> pc[q]] /\ Good(sem, Procs) /\ p \in Procs
      /\ Players \subseteq Procs /\ sem.val \in Nat /\ sem.adj \in [Procs -> Int]
  BY DEF TypeOK, Procs, Good, SemSets
<1>3. /\ pc[p] = "enter" /\ p \notin Waiting(sem) /\ sem.live /\ pc'[p] = "read"
      /\ \A q \in Players \ {p} : pc'[q] = pc[q]
      /\ UNCHANGED <<numbers, outside>>
  BY <1>1, <1>2 DEF Enter, SemOp, Goto, SetIsThere
<1>4. PICK v, a, T, Z : /\ v = sem.val /\ a = sem.adj
                        /\ T = Range(sem.takers) \union {p} /\ Z = sem.zeros
                        /\ Outcome(sem, sem', Procs, v, a, T, Z)
  BY <1>2, <1>3, SemSteps
<1>5. v \in Int /\ v <= 1 /\ \A q \in Procs : a[q] \in Int /\ a[q] <= IF q \in Inside THEN 1 ELSE 0
  BY <1>1, <1>2, <1>4 DEF OneTurn, Adjusted
<1>6. Others(p, v, T)
  BY <1>2, <1>3, <1>4, <1>5, TurnStep
<1>7. p \notin Inside /\ p \notin Z /\ a[p] <= 0
  BY <1>2, <1>3, <1>4, <1>5 DEF Inside, Waiting
<1>8. /\ Range(sem'.takers) \subseteq T /\ sem'.zeros \subseteq Z
      /\ sem'.adj[p] = IF p \in T \ Range(sem'.takers) THEN a[p] + 1 ELSE a[p]
      /\ sem'.val = v <=> Range(sem'.takers) = T
  BY <1>2, <1>4 DEF Outcome
<1>9. p \in Inside' <=> p \in T \ Range(sem'.takers)
  BY <1>3, <1>4, <1>7, <1>8 DEF Inside, Waiting
<1>10. \A q \in Players : q \in Inside' <=> q \in Inside \/ q \in T \ Range(sem'.takers)
  BY <1>6, <1>7, <1>9 DEF Others
<1>11. killed' = {} => killed = {}
  BY <1>3 DEF killed
<1>12. SetIsThere' /\ WaitPlaces'
  BY <1>1, <1>3, <1>6, <1>7, <1>8 DEF Others, SetIsThere, WaitPlaces
<1>13. OneTurn'
  <2>1. sem'.val \in Nat /\ sem'.val <= v
        /\ (T \ Range(sem'.takers) # {} => sem'.val = 0 /\ v = 1)
        /\ \A x, y \in T \ Range(sem'.takers) : x = y
    BY <1>6 DEF Others
  <2>2. (\A x \in Inside' : x \in Players) /\ (\A x \in Inside : x \in Players)
    BY DEF Inside
  <2>3. Inside # {} => v = 0 /\ T \ Range(sem'.takers) = {}
    BY <1>1, <1>4, <2>1 DEF OneTurn
  <2>4. \A x, y \in Inside' : x = y
    BY <1>1, <1>10, <2>1, <2>2, <2>3 DEF OneTurn
  <2>5. Inside' # {} => sem'.val = 0
    BY <1>10, <2>1, <2>2, <2>3
  <2>6. kicked' = {} => sem'.val = 0 /\ Inside' = {} /\ last' = NoOne
    BY <1>1, <1>3, <1>4, <1>10, <2>1, <2>2 DEF OneTurn, numbers, outside
  <2>7. QED
    BY <1>5, <2>1, <2>4, <2>5, <2>6 DEF OneTurn
<1>14. \A q \in Procs : Adjusted(q)'
  BY <1>5, <1>6, <1>7, <1>8, <1>9 DEF Others, Adjusted
<1>15. ASSUME NEW q \in Players PROVE HasRead(q)' /\ WroteLast(q)'
  BY <1>1, <1>3 DEF HasRead, WroteLast, numbers
<1>16. ASSUME NEW q \in Players PROVE Rests(q)'
  <2>1. CASE q # p
    BY <1>2, <1>3, <1>4, <1>6, <1>11, <2>1 DEF Others, numbers
  <2>2. CASE q = p
    <3>1. killed' = {} /\ last' = p => v = 0
      BY <1>1, <1>3, <1>4, <1>11 DEF Rests, numbers, Waiting
    <3>2. killed' = {} /\ last' = p => sem'.val = 0 /\ T \ Range(sem'.takers) = {}
      BY <1>6, <3>1 DEF Others
    <3>3. QED
      BY <1>3, <1>9, <2>2, <3>2 DEF Rests
  <2>3. QED
    BY <2>1, <2>2
<1>17. QED
  BY <1>12, <1>13, <1>14, <1>15, <1>16 DEF Turns

\* The player inside hands its turn to the first that waits, or leaves it in the
\* semaphore.
LEMMA ExitStep ==
    ASSUME Roles, TypeOK, Turns, NEW p \in Players, Exit(p)
    PROVE  Turns'
<1>1. /\ SetIsThere /\ WaitPlaces /\ OneTurn /\ \A q \in Procs : Adjusted(q)
      /\ \A q \in Players : HasRead(q) /\ WroteLast(q) /\ Rests(q)
  BY DEF Turns
<1>2. /\ pc = [q \in Players |-> pc[q]] /\ Good(sem, Procs) /\ p \in Procs
      /\ Players \subseteq Procs /\ sem.val \in Nat /\ sem.adj \in [Procs -> Int]
  BY DEF TypeOK, Procs, Good, SemSets
<1>3. /\ pc[p] = "exit" /\ p \notin Waiting(sem) /\ sem.live /\ pc'[p] = "wait"
      /\ \A q \in Players \ {p} : pc'[q] = pc[q]
      /\ UNCHANGED <<numbers, outside>>
  BY <1>1, <1>2 DEF Exit, SemOp, Goto, SetIsThere
<1>4. p \in Inside /\ sem.val = 0 /\ last = p /\ kicked # {} /\ \A q \in Inside : q = p
  BY <1>1, <1>3 DEF OneTurn, Inside, WroteLast
<1>5. PICK v, a, T, Z : /\ v = sem.val + 1 /\ a = [sem.adj EXCEPT ![p] = @ - 1]
                        /\ T = Range(sem.takers) /\ Z = sem.zeros
                        /\ Outcome(sem, sem', Procs, v, a, T, Z)
  BY <1>2, <1>3, SemSteps
<1>6. v \in Int /\ v = 1 /\ \A q \in Procs \ {p} : a[q] \in Int /\ a[q] <= IF q \in Inside THEN 1 ELSE 0
  BY <1>1, <1>2, <1>4, <1>5 DEF Adjusted
<1>7. Others(p, v, T)
  BY <1>2, <1>3, <1>5, <1>6, TurnStep
<1>8. p \notin T /\ p \notin Z /\ a[p] <= 0 /\ sem'.live
  <2>1. sem.adj[p] <= 1 /\ sem.adj[p] \in Int /\ a[p] = sem.adj[p] - 1
    BY <1>1, <1>2, <1>4, <1>5 DEF Adjusted
  <2>2. QED
    BY <1>3, <1>5, <1>7, <2>1 DEF Waiting, Others
<1>9. Range(sem'.takers) \subseteq T /\ sem'.zeros \subseteq Z /\ sem'.adj[p] = a[p]
  BY <1>2, <1>5, <1>8 DEF Outcome
<1>10. \A q \in Inside' : q \in T \ Range(sem'.takers)
  BY <1>3, <1>4, <1>7 DEF Others, Inside
<1>11. SetIsThere' /\ WaitPlaces' /\ OneTurn'
  BY <1>1, <1>3, <1>4, <1>6, <1>7, <1>8, <1>9, <1>10
     DEF Others, SetIsThere, WaitPlaces, OneTurn, outside
<1>12. \A q \in Procs : Adjusted(q)'
  <2>1. Adjusted(p)'
    BY <1>3, <1>8, <1>9 DEF Adjusted, Inside
  <2>2. QED
    BY <1>7, <2>1 DEF Others
<1>13. ASSUME NEW q \in Players PROVE HasRead(q)' /\ WroteLast(q)' /\ Rests(q)'
  BY <1>1, <1>3, <1>4 DEF HasRead, WroteLast, Rests, numbers
<1>14. QED
  BY <1>11, <1>12, <1>13 DEF Turns

\* The only increment from outside.
LEMMA KickStep ==
    ASSUME Roles, TypeOK, Turns, NEW k \in Kickers, Kick(k), kicked = {}
    PROVE  Turns'
<1>1. /\ SetIsThere /\ WaitPlaces /\ OneTurn /\ \A q \in Procs : Adjusted(q)
      /\ \A q \in Players : HasRead(q) /\ WroteLast(q) /\ Rests(q)
  BY DEF Turns
<1>2. /\ Good(sem, Procs) /\ k \in Procs /\ k \notin Players
      /\ Players \subseteq Procs /\ sem.val \in Nat /\ sem.adj \in [Procs -> Int]
  BY DEF TypeOK, Procs, Good, SemSets, Roles
<1>3. /\ sem.live /\ UNCHANGED <<pc, numbers>> /\ kicked' # {}
      /\ sem.val = 0 /\ Inside = {} /\ last = NoOne
  BY <1>1 DEF Kick, OneTurn
<1>4. PICK v, a, T, Z : /\ v = sem.val + 1 /\ a = [sem.adj EXCEPT ![k] = @ - 1]
                        /\ T = Range(sem.takers) /\ Z = sem.zeros
                        /\ Outcome(sem, sem', Procs, v, a, T, Z)
  BY <1>2, SemSteps
<1>5. v \in Int /\ v = 1 /\ \A q \in Procs \ {k} : a[q] \in Int /\ a[q] <= IF q \in Inside THEN 1 ELSE 0
  BY <1>1, <1>2, <1>3, <1>4 DEF Adjusted
<1>6. \A q \in Players \ {k} : pc'[q] = pc[q]
  BY <1>3
<1>7. Others(k, v, T)
  BY <1>2, <1>4, <1>5, <1>6, TurnStep
<1>8. k \notin T /\ k \notin Z
  BY <1>1, <1>2, <1>4 DEF WaitPlaces
<1>9. Range(sem'.takers) \subseteq T /\ sem'.zeros \subseteq Z /\ sem'.adj[k] = a[k]
  BY <1>2, <1>4, <1>8 DEF Outcome
<1>10. sem'.adj[k] <= 0
  <2>1. sem.adj[k] <= 0 /\ sem.adj[k] \in Int /\ a[k] = sem.adj[k] - 1
    BY <1>1, <1>2, <1>3, <1>4 DEF Adjusted
  <2>2. QED
    BY <1>9, <2>1
<1>11. \A q \in Inside' : q \in T \ Range(sem'.takers)
  BY <1>2, <1>3, <1>7 DEF Others, Inside
<1>12. SetIsThere' /\ WaitPlaces' /\ OneTurn'
  BY <1>3, <1>5, <1>7, <1>8, <1>9, <1>11 DEF Others, SetIsThere, WaitPlaces, OneTurn
<1>13. \A q \in Procs : Adjusted(q)'
  <2>1. Adjusted(k)'
    BY <1>2, <1>10 DEF Adjusted, Inside
  <2>2. QED
    BY <1>7, <2>1 DEF Others
<1>14. ASSUME NEW q \in Players PROVE HasRead(q)' /\ WroteLast(q)' /\ Rests(q)'
  BY <1>1, <1>3 DEF HasRead, WroteLast, Rests, numbers, Roles
<1>15. QED
  BY <1>12, <1>13, <1>14 DEF Turns

\* An increment is taken back when who made it ends: a kicker's while it is in the
\* semaphore, and the kernel gives back the turn of a player killed inside.
LEMMA EndStep ==
    ASSUME Roles, TypeOK, Turns, NEW p \in Procs,
           (p \in Kickers /\ KickerExits(p)) \/ (p \in Players /\ Kill(p))
    PROVE  Turns'
<1>1. /\ SetIsThere /\ WaitPlaces /\ OneTurn /\ \A q \in Procs : Adjusted(q)
      /\ \A q \in Players : HasRead(q) /\ WroteLast(q) /\ Rests(q)
  BY DEF Turns
<1>2. /\ Good(sem, Procs) /\ Players \subseteq Procs /\ sem.val \in Nat
      /\ sem.adj \in [Procs -> Int] /\ pc = [q \in Players |-> pc[q]]
      /\ num \in [Players -> Nat] /\ Players \intersect Kickers = {}
  BY DEF TypeOK, Procs, Good, SemSets, Roles
<1>3. KickerExits(p) \/ (Kill(p) /\ sem.live)
  BY <1>1 DEF Kill, SetIsThere
<1>4. /\ \A q \in Players \ {p} : pc'[q] = pc[q] /\ num'[q] = num[q]
      /\ UNCHANGED <<shmem_num, last, outside>>
      /\ p \in Players => pc'[p] = "killed" /\ pc[p] # "start"
      /\ p \notin Players => pc' = pc
  BY <1>2 DEF KickerExits, Kill, numbers
<1>5. PICK v, a, T, Z : /\ v = Undone(p) /\ a = [sem.adj EXCEPT ![p] = 0]
                        /\ T = Range(sem.takers) \ {p} /\ Z = sem.zeros \ {p}
                        /\ Outcome(sem, sem', Procs, v, a, T, Z)
  BY <1>3, SemSteps
<1>6. /\ sem.adj[p] \in Int /\ sem.adj[p] <= IF p \in Inside THEN 1 ELSE 0
      /\ v = IF sem.val + sem.adj[p] >= 0 THEN sem.val + sem.adj[p] ELSE 0
  BY <1>1, <1>2, <1>5 DEF Adjusted, Undone
<1>7. v \in Int /\ v <= 1 /\ (p \notin Inside => v <= sem.val)
  BY <1>1, <1>2, <1>6 DEF OneTurn
<1>8. \A q \in Procs \ {p} : a[q] \in Int /\ a[q] <= IF q \in Inside THEN 1 ELSE 0
  BY <1>1, <1>2, <1>5 DEF Adjusted
<1>9. Others(p, v, T)
  <2>1. \A q \in Players \ {p} : pc'[q] = pc[q]
    BY <1>4
  <2>2. /\ T \subseteq Range(sem.takers) \union {p} /\ Range(sem.takers) \ {p} \subseteq T
        /\ Z \subseteq sem.zeros /\ sem.zeros \ {p} \subseteq Z
    BY <1>5
  <2>3. Outcome(sem, sem', Procs, v, a, T, Z) /\ v \in Int /\ v <= 1
    BY <1>5, <1>7
  <2>4. QED
    BY <1>8, <2>1, <2>2, <2>3, TurnStep
<1>10. /\ Range(sem'.takers) \subseteq T /\ sem'.zeros \subseteq Z /\ sem'.adj[p] = 0
       /\ sem'.live = sem.live
  BY <1>2, <1>5 DEF Outcome
<1>11. \A q \in Inside' : q # p /\ (q \in Inside \/ q \in T \ Range(sem'.takers))
  BY <1>4, <1>9 DEF Others, Inside
<1>12. SetIsThere' /\ WaitPlaces'
  BY <1>1, <1>4, <1>5, <1>9, <1>10 DEF Others, SetIsThere, WaitPlaces
<1>13. OneTurn'
  <2>1. sem'.val \in Nat /\ sem'.val <= v
        /\ (T \ Range(sem'.takers) # {} => sem'.val = 0 /\ v = 1)
        /\ \A x, y \in T \ Range(sem'.takers) : x = y
    BY <1>9 DEF Others
  <2>2. \A q \in Inside : sem.val = 0 /\ \A x \in Inside : x = q
    BY <1>1 DEF OneTurn
  <2>3. \A q \in Inside : q # p => v = 0
    BY <1>6, <1>7, <2>1, <2>2
  <2>4. \A x, y \in Inside' : x = y
    BY <1>11, <2>1, <2>2, <2>3
  <2>5. Inside' # {} => sem'.val = 0
    BY <1>11, <2>1, <2>3
  <2>6. kicked' = {} => sem'.val = 0 /\ Inside' = {} /\ last' = NoOne
    BY <1>1, <1>4, <1>7, <1>11, <2>1 DEF OneTurn, outside
  <2>7. QED
    BY <1>7, <2>1, <2>4, <2>5, <2>6 DEF OneTurn
<1>14. \A q \in Procs : Adjusted(q)'
  BY <1>9, <1>10 DEF Others, Adjusted
<1>15. ASSUME NEW q \in Players PROVE HasRead(q)' /\ WroteLast(q)'
  BY <1>1, <1>4 DEF HasRead, WroteLast
<1>16. ASSUME NEW q \in Players PROVE Rests(q)'
  <2>1. CASE p \in Players
    BY <1>4, <2>1 DEF Rests, killed
  <2>2. CASE p \notin Players
    <3>1. killed' = killed /\ p \notin Inside
      BY <1>4, <2>2 DEF killed, Inside
    <3>2. QED
      BY <1>4, <1>7, <1>9, <2>2, <3>1 DEF Others
  <2>3. QED
    BY <2>1, <2>2
<1>17. QED
  BY <1>12, <1>13, <1>14, <1>15, <1>16 DEF Turns

-----------------------------------------------------------------------------
LEMMA TurnsStep ==
    ASSUME Roles, TurnInv, Next
    PROVE  TurnInv'
<1>1. TypeOK /\ TypeOK'
  BY TypeStep DEF TurnInv
<1>2. ASSUME OneKick' PROVE Turns'
  <2>1. OneKick /\ Turns /\ ~RemoveSet /\ \A k \in Kickers : Kick(k) => kicked = {}
    BY <1>1, <1>2, OneKickStays DEF TurnInv
  <2>2. ASSUME NEW p \in Players, CtorGet(p) \/ Read(p) \/ Write(p) \/ Wait(p) PROVE Turns'
    BY <1>1, <2>1, <2>2, QuietStep
  <2>3. ASSUME NEW p \in Players, CtorSet(p) PROVE Turns'
    BY <1>1, <2>1, <2>3, CtorSetStep
  <2>4. ASSUME NEW p \in Players, Enter(p) PROVE Turns'
    BY <1>1, <2>1, <2>4, EnterStep
  <2>5. ASSUME NEW p \in Players, Exit(p) PROVE Turns'
    BY <1>1, <2>1, <2>5, ExitStep
  <2>6. ASSUME NEW p \in Players, Kill(p) PROVE Turns'
    BY <1>1, <2>1, <2>6, EndStep DEF Procs
  <2>7. ASSUME NEW k \in Kickers, Kick(k) PROVE Turns'
    BY <1>1, <2>1, <2>7, KickStep
  <2>8. ASSUME NEW k \in Kickers, KickerExits(k) PROVE Turns'
    BY <1>1, <2>1, <2>8, EndStep DEF Procs
  <2>9. QED
    BY <2>1, <2>2, <2>3, <2>4, <2>5, <2>6, <2>7, <2>8 DEF Next, Turn
<1>3. QED
  BY <1>1, <1>2 DEF TurnInv

\* The invariant holds for any players and kickers, however many turns and faults.
THEOREM TurnInvHolds ==
    ASSUME Roles
    PROVE  Spec => []TurnInv
<1>1. Init => TurnInv
  <2>1. SUFFICES ASSUME Init PROVE TurnInv
    OBVIOUS
  <2>2. Good(NoSemaphores(Procs), Procs)
    BY NewSet DEF NoSemaphores, Good, SemSets, Settled
  <2>3. sem = NoSemaphores(Procs) /\ Range(sem.takers) = {} /\ sem.zeros = {} /\ sem.val = 0
        /\ sem.adj = [p \in Procs |-> 0]
    BY <2>1 DEF Init, NoSemaphores, Procs, Range
  <2>4. TypeOK
    BY <2>1, <2>2, <2>3, FS_EmptySet DEF Init, TypeOK
  <2>5. /\ pc = [p \in Players |-> "start"] /\ last = NoOne /\ Inside = {}
    BY <2>1 DEF Init, Inside
  <2>6. Turns
    BY <2>3, <2>5 DEF Turns, SetIsThere, WaitPlaces, OneTurn, Adjusted, HasRead, WroteLast,
       Rests, Roles
  <2>7. QED
    BY <2>4, <2>6 DEF TurnInv
<1>2. TurnInv /\ [Next]_vars => TurnInv'
  <2>1. TurnInv /\ UNCHANGED vars => TurnInv'
    BY DEF TurnInv, TypeOK, Turns, OneKick, SetIsThere, WaitPlaces, OneTurn, Adjusted, HasRead,
       WroteLast, Rests, Inside, Waiting, killed, vars, numbers, outside
  <2>2. QED
    BY <2>1, TurnsStep
<1>3. QED
  BY <1>1, <1>2, PTL DEF Spec

\* With one increment from outside nobody writes over what another player has
\* written since it read (task5.c:70-79,98,115-118).
THEOREM NothingLost ==
    ASSUME Roles
    PROVE  Spec => []NoUpdateIsLost
<1>1. TurnInv => NoUpdateIsLost
  BY DEF TurnInv, Turns, HasRead, NoUpdateIsLost
<1>2. QED
  BY <1>1, TurnInvHolds, PTL

\* Nobody has two turns in a row while no player is killed (task5.c:79-82).
THEOREM NobodyTwice ==
    ASSUME Roles
    PROVE  Spec => TurnsAlternate
<1>1. ASSUME TurnInv, Next PROVE last' # last \/ shmem_num' = shmem_num \/ killed # {} \/ ~OneKick
  <2>1. SUFFICES ASSUME OneKick, killed = {} PROVE last' # last \/ shmem_num' = shmem_num
    OBVIOUS
  <2>2. ASSUME NEW p \in Players, Write(p) PROVE last' # last
    <3>1. pc[p] = "write" /\ last' = p
      BY <2>2 DEF Write, Goto
    <3>2. last # p
      BY <1>1, <2>1, <3>1 DEF TurnInv, Turns, Rests
    <3>3. QED
      BY <3>1, <3>2
  <2>3. CASE \A p \in Players : ~Write(p)
    BY <1>1, <2>3 DEF Next, Turn, CtorGet, CtorSet, Enter, Read, Exit, Wait, Kill, Kick,
       KickerExits, RemoveSet, SemOp, numbers
  <2>4. QED
    BY <2>2, <2>3
<1>2. TurnInv /\ [Next]_vars =>
        [last' # last \/ shmem_num' = shmem_num \/ killed # {} \/ ~OneKick]_vars
  BY <1>1
<1>3. QED
  BY <1>2, TurnInvHolds, PTL DEF Spec, TurnsAlternate

-----------------------------------------------------------------------------
\* SemCondition.

ConditionTypeOK ==
    /\ key \in Nat /\ sets \in Nat /\ val \in Nat
    /\ semid \in [Condition!Procs -> Nat]
    /\ place \in [Condition!Procs -> {"semget", "setval", "semop", "inside", "failed", "ended"}]

\* Somebody who has this set will remove it: it is inside, or its operation cannot
\* fail, for it gives, or is about to set the value first, or the value is there.
WillRemove(p) ==
    /\ semid[p] = key
    /\ \/ place[p] = "inside"
       \/ place[p] = "setval" /\ p \in Takers
       \/ place[p] = "semop" /\ (p \notin Takers \/ val >= 1)

ConditionInv == ConditionTypeOK /\ (key # 0 => \E p \in Condition!Procs : WillRemove(p))

LEMMA ConditionInductive == ConditionInv /\ [Condition!Next]_(Condition!vars) => ConditionInv'
<1> SUFFICES ASSUME ConditionInv, [Condition!Next]_(Condition!vars) PROVE ConditionInv'
  OBVIOUS
<1> USE DEF ConditionInv
<1>1. ASSUME NEW p \in Condition!Procs, Condition!SemGet(p) PROVE ConditionInv'
  <2>1. /\ place[p] = "semget" /\ semid' = [semid EXCEPT ![p] = key']
        /\ place' = [place EXCEPT ![p] = IF p \in Takers THEN "setval" ELSE "semop"]
        /\ \/ key # 0 /\ UNCHANGED <<key, sets, val>>
           \/ sets' = sets + 1 /\ key' = sets' /\ val' = 0
    BY <1>1 DEF Condition!SemGet, Condition!Goto
  <2>2. ConditionTypeOK'
    BY <2>1 DEF ConditionTypeOK
  <2>3. CASE key # 0 /\ UNCHANGED <<key, sets, val>>
    <3>1. PICK q \in Condition!Procs : WillRemove(q)
      BY <2>3
    <3>2. q # p
      BY <2>1, <3>1 DEF WillRemove
    <3>3. WillRemove(q)'
      BY <2>1, <2>3, <3>1, <3>2 DEF WillRemove, ConditionTypeOK
    <3>4. QED
      BY <2>2, <3>3
  <2>4. CASE sets' = sets + 1 /\ key' = sets' /\ val' = 0
    <3>1. WillRemove(p)'
      BY <2>1, <2>4 DEF WillRemove, ConditionTypeOK
    <3>2. QED
      BY <2>2, <3>1
  <2>5. QED
    BY <2>1, <2>3, <2>4
<1>2. ASSUME NEW p \in Condition!Procs, Condition!SetVal(p) PROVE ConditionInv'
  <2>1. /\ place[p] = "setval" /\ place' = [place EXCEPT ![p] = "semop"]
        /\ val' = IF key = semid[p] THEN 1 ELSE val
        /\ UNCHANGED <<key, sets, semid>>
    BY <1>2 DEF Condition!SetVal, Condition!Goto, Condition!IsThere
  <2>2. ConditionTypeOK'
    BY <2>1 DEF ConditionTypeOK
  <2>3. ASSUME NEW q \in Condition!Procs, WillRemove(q) PROVE WillRemove(q)'
    BY <2>1, <2>3 DEF WillRemove, ConditionTypeOK
  <2>4. QED
    BY <2>1, <2>2, <2>3
<1>3. ASSUME NEW p \in Condition!Procs, Condition!SemOp(p) PROVE ConditionInv'
  <2> DEFINE succeeds == key = semid[p] /\ (p \in Takers => val >= 1)
             change == IF p \in Takers THEN -1 ELSE 1
  <2>1. /\ place[p] = "semop"
        /\ place' = [place EXCEPT ![p] = IF succeeds THEN "inside" ELSE "failed"]
        /\ val' = IF succeeds THEN val + change ELSE val
        /\ UNCHANGED <<key, sets, semid>>
    <3>1. Condition!Change(p) = change /\ val \in Nat
      BY DEF Condition!Change, ConditionTypeOK
    <3>2. Condition!Succeeds(p) <=> key = semid[p] /\ val + change >= 0
      BY <3>1 DEF Condition!Succeeds, Condition!IsThere
    <3>3. val + change >= 0 <=> (p \in Takers => val >= 1)
      BY <3>1
    <3>4. CASE Condition!Succeeds(p)
      BY <1>3, <3>1, <3>2, <3>3, <3>4 DEF Condition!SemOp, Condition!Goto
    <3>5. CASE ~Condition!Succeeds(p)
      BY <1>3, <3>2, <3>3, <3>5 DEF Condition!SemOp, Condition!Goto
    <3>6. QED
      BY <3>4, <3>5
  <2>2. ConditionTypeOK'
    BY <2>1 DEF ConditionTypeOK
  <2>3. ASSUME key # 0 PROVE \E q \in Condition!Procs : WillRemove(q)'
    <3>1. PICK q \in Condition!Procs : WillRemove(q)
      BY <2>3
    <3>2. CASE succeeds
      <4>1. WillRemove(p)'
        BY <2>1, <3>2 DEF WillRemove, ConditionTypeOK
      <4>2. QED
        BY <4>1
    <3>3. CASE ~succeeds
      <4>1. q # p
        BY <2>1, <3>1, <3>3 DEF WillRemove
      <4>2. WillRemove(q)'
        BY <2>1, <3>1, <3>3, <4>1 DEF WillRemove, ConditionTypeOK
      <4>3. QED
        BY <4>2
    <3>4. QED
      BY <3>2, <3>3
  <2>4. QED
    BY <2>1, <2>2, <2>3
<1>4. ASSUME NEW p \in Condition!Procs, Condition!PrintAndRemove(p) PROVE ConditionInv'
  <2>1. /\ place[p] = "inside" /\ place' = [place EXCEPT ![p] = "ended"]
        /\ key' = IF key = semid[p] THEN 0 ELSE key
        /\ UNCHANGED <<sets, val, semid>>
    BY <1>4 DEF Condition!PrintAndRemove, Condition!Goto, Condition!AfterRmId, Condition!IsThere
  <2>2. ConditionTypeOK'
    BY <2>1 DEF ConditionTypeOK
  <2>3. ASSUME key' # 0, NEW q \in Condition!Procs, WillRemove(q) PROVE WillRemove(q)'
    BY <2>1, <2>3 DEF WillRemove, ConditionTypeOK
  <2>4. QED
    BY <2>1, <2>2, <2>3
<1>5. CASE UNCHANGED Condition!vars
  BY <1>5 DEF Condition!vars, ConditionTypeOK, WillRemove
<1>6. QED
  BY <1>1, <1>2, <1>3, <1>4, <1>5 DEF Condition!Next

\* When all have ended the semaphore is gone, for any number of takers and givers:
\* whoever fails leaves it to one who cannot fail (dz6/task1.c:42-51,
\* task2.c:36-45).
THEOREM SemaphoreIsRemoved == MCSpec => []ConditionIsRemoved
<1>1. MCInit => ConditionInv
  BY DEF MCInit, Condition!Init, ConditionInv, ConditionTypeOK
<1>2. ConditionInv /\ [MCNext]_allVars => ConditionInv'
  <2> SUFFICES ASSUME ConditionInv, [MCNext]_allVars PROVE ConditionInv'
    OBVIOUS
  <2>1. [Condition!Next]_(Condition!vars)
    <3>1. CASE IsTurns /\ Next
      BY <3>1 DEF IsTurns, conditionVars, Condition!vars
    <3>2. CASE IsCondition /\ Condition!Next
      BY <3>2
    <3>3. CASE UNCHANGED allVars
      BY <3>3 DEF allVars, conditionVars, Condition!vars
    <3>4. QED
      BY <3>1, <3>2, <3>3 DEF MCNext
  <2>2. QED
    BY <2>1, ConditionInductive
<1>3. ConditionInv => ConditionIsRemoved
  BY DEF ConditionInv, WillRemove, ConditionIsRemoved, Condition!NothingIsLeft
<1>4. QED
  BY <1>1, <1>2, <1>3, PTL DEF MCSpec
=============================================================================
