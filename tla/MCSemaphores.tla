---------------------------- MODULE MCSemaphores ----------------------------
(***************************************************************************)
(* Small instances of the programs of dz6 that use nothing but semaphores, *)
(* the ping-pong and the condition.  The assignments share nothing, so a   *)
(* behaviour is one of one of them.                                        *)
(***************************************************************************)
EXTENDS PingPong

CONSTANTS Takers, Givers, MaxSets   \* SemCondition

VARIABLES program,
          key, sets, val, semid, place   \* SemCondition

Condition == INSTANCE SemCondition WITH pc <- place

conditionVars == <<key, sets, val, semid, place>>
allVars == <<program, vars, conditionVars>>

MCInit == program \in {"turns", "condition"} /\ Init /\ Condition!Init

IsTurns == program = "turns" /\ UNCHANGED <<program, conditionVars>>
IsCondition == program = "condition" /\ UNCHANGED <<program, vars>>

MCNext == (IsTurns /\ Next) \/ (IsCondition /\ Condition!Next)

MCSpec == MCInit /\ [][MCNext]_allVars

\* A player that was started runs; nobody has to start or to kill one.
FairSpec ==
    /\ MCSpec
    /\ \A p \in Players : WF_allVars(IsTurns /\ Turn(p))

-----------------------------------------------------------------------------
\* Those that meet at the condition leave no semaphore though some fail
\* (task1.c:42-51, task2.c:36-45).
ConditionIsRemoved == Condition!NothingIsLeft
=============================================================================
