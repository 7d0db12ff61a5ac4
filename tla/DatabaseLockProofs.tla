-------------------------- MODULE DatabaseLockProofs --------------------------
(***************************************************************************)
(* Theorems about DatabaseLock, for every set of handles, every assignment *)
(* of handles to processes and every timing that meets PromptReplicas.     *)
(***************************************************************************)
EXTENDS MCDatabaseLock, TLAPS

-----------------------------------------------------------------------------
(* Arithmetic of the bounds                                                *)

\* The beat of keep_saying_still_here is a positive whole number of ticks.
LEMMA BeatIsPositive == Beat \in Nat \ {0}
  BY TimesAssumption, SMT DEF Beat, RENEWAL_FRACTION

\* Drift(m) counts the ticks m failed beats may take: it grows by one Period
\* per beat and so is monotone.
LEMMA DriftGrows ==
  /\ Period \in Nat
  /\ \A m \in Nat : Drift(m) \in Nat /\ Drift(m + 1) = Drift(m) + Period
  /\ \A m, n \in Nat : m <= n => Drift(m) <= Drift(n)
<1>1. Period \in Nat
  BY BeatIsPositive, TimesAssumption DEF Period
<1>2. ASSUME NEW m \in Nat
      PROVE  Drift(m) \in Nat /\ Drift(m + 1) = Drift(m) + Period
  BY <1>1, SMT DEF Drift
<1>3. ASSUME NEW m \in Nat, NEW n \in Nat, m <= n
      PROVE  Drift(m) <= Drift(n)
  BY <1>1, <1>3, SMT DEF Drift
<1> QED
  BY <1>1, <1>2, <1>3

-----------------------------------------------------------------------------
(* Type correctness, under every fault                                     *)

\* An UPDATE in flight is at most Latency old, so what it writes has the type
\* of an age even if the task it belongs to is cancelled.
MovingIsPrompt ==
  \A h \in Handles : renewal[h] = "moving" => rtimer[h] <= Latency

IType == TypeOK /\ MovingIsPrompt

LEMMA InitTyped == Init => IType
  BY TimesAssumption, BeatIsPositive
  DEF Init, IType, TypeOK, MovingIsPrompt, PCs, AgeCap

LEMMA StepTyped == IType /\ [Next]_vars => IType'
<1> SUFFICES ASSUME IType, [Next]_vars PROVE IType'
  OBVIOUS
<1> USE TimesAssumption, BeatIsPositive
<1> USE DEF IType, TypeOK, MovingIsPrompt, AgeCap
<1>1. ASSUME NEW h \in Handles, Begin(h) PROVE IType'
  BY <1>1 DEF Begin, MoveTo, PCs, Awaiting, rowVars, beatVars, adminVars
<1>2. ASSUME NEW h \in Handles, Cleanup(h) PROVE IType'
  BY <1>2 DEF Cleanup, DeleteStale, MoveTo, PCs, Awaiting, rowVars, beatVars, adminVars
<1>3. ASSUME NEW h \in Handles, Stamp(h) PROVE IType'
  BY <1>3 DEF Stamp, MoveTo, PCs, Awaiting, rowVars, beatVars, adminVars
<1>4. ASSUME NEW h \in Handles, InsertRow(h) PROVE IType'
  BY <1>4 DEF InsertRow, MoveTo, PCs, Awaiting, rowVars, beatVars, adminVars
<1>5. ASSUME NEW h \in Handles, InsertConflict(h) PROVE IType'
  BY <1>5 DEF InsertConflict, MoveTo, PCs, Awaiting, rowVars, beatVars, adminVars
<1>6. ASSUME NEW h \in Handles, Lookup(h) PROVE IType'
  BY <1>6 DEF Lookup, MoveTo, PCs, Awaiting, rowVars, beatVars, adminVars
<1>7. ASSUME NEW h \in Handles, Decide(h) PROVE IType'
  BY <1>7 DEF Decide, MoveTo, PCs, Awaiting, rowVars, beatVars, adminVars
<1>8. ASSUME NEW h \in Handles, Takeover(h) PROVE IType'
  BY <1>8 DEF Takeover, MoveTo, PCs, Awaiting, rowVars, beatVars, adminVars
<1>9. ASSUME NEW h \in Handles, Release(h) PROVE IType'
  BY <1>9 DEF Release, MoveTo, PCs, Awaiting, rowVars, beatVars, adminVars
<1>10. ASSUME NEW h \in Handles, Wake(h) PROVE IType'
  BY <1>10 DEF Wake, rowVars, adminVars
<1>11. ASSUME NEW h \in Handles, Renew(h) PROVE IType'
  <2>1. CASE RowOfInstance(h)
    BY <1>11, <2>1 DEF Renew, adminVars
  <2>2. CASE ~RowOfInstance(h)
    <3>1. /\ acquired' = [acquired EXCEPT ![h] = FALSE]
          /\ renewal' = [renewal EXCEPT ![h] = "asleep"]
          /\ rtimer' = [rtimer EXCEPT ![h] = 0]
          /\ missed' = [missed EXCEPT ![h] = 0]
          /\ UNCHANGED <<owner, age, pc, timer, seen, strays, admin, crashes>>
      BY <1>11, <2>2 DEF Renew, adminVars
    <3> QED
      BY <3>1
  <2> QED
    BY <2>1, <2>2
<1>12. ASSUME NEW h \in Handles, Finish(h) PROVE IType'
  BY <1>12 DEF Finish, MoveTo, PCs, Awaiting, rowVars, adminVars
<1>13. ASSUME NEW h \in Handles, Stray(h) PROVE IType'
  BY <1>13 DEF Stray, adminVars
<1>14. ASSUME NEW h \in Handles, AcquireError(h) PROVE IType'
  BY <1>14 DEF AcquireError, MoveTo, PCs, Awaiting, rowVars, beatVars, adminVars
<1>15. ASSUME NEW h \in Handles, RenewError(h) PROVE IType'
  BY <1>15 DEF RenewError, rowVars, adminVars
<1>16. ASSUME NEW h \in Handles, ReleaseError(h) PROVE IType'
  BY <1>16 DEF ReleaseError, MoveTo, PCs, Awaiting, rowVars, beatVars, adminVars
<1>17. ASSUME NEW h \in Handles, Abandon(h) PROVE IType'
  BY <1>17 DEF Abandon, MoveTo, PCs, Awaiting, rowVars, beatVars, adminVars
<1>18. ASSUME NEW h \in Handles, Crash(h) PROVE IType'
  BY <1>18 DEF Crash, PCs, rowVars
<1>19. ASSUME NEW h \in Handles, Restart(h) PROVE IType'
  BY <1>19 DEF Restart, MoveTo, PCs, Awaiting, rowVars, beatVars, adminVars
<1>20. CASE ForceLook
  BY <1>20 DEF ForceLook, rowVars, beatVars
<1>21. CASE ForceDelete
  BY <1>21 DEF ForceDelete, beatVars
<1>22. CASE Tick
  BY <1>22 DEF Tick, Prompt, Older, PCs, adminVars
<1>23. CASE UNCHANGED vars
  BY <1>23 DEF vars
<1> QED
  BY <1>1, <1>2, <1>3, <1>4, <1>5, <1>6, <1>7, <1>8, <1>9, <1>10, <1>11,
     <1>12, <1>13, <1>14, <1>15, <1>16, <1>17, <1>18, <1>19, <1>20, <1>21,
     <1>22, <1>23
  DEF Next, Proceed, Beats, Fault

\* The lock's variables stay in their ranges, whatever fails.
THEOREM TypeCorrect == Spec => []TypeOK
<1>1. IType => TypeOK
  BY DEF IType
<1> QED
  BY InitTyped, StepTyped, <1>1, PTL DEF Spec
-----------------------------------------------------------------------------
(* Safety, while replicas are prompt                                       *)

\* What PromptReplicas gives the steps below: no row that any handle can see
\* reaches MaxLockTime, however the renewals and the statements are delayed.
LEMMA BoundsFit ==
  ASSUME PromptReplicas
  PROVE  /\ Drift(0) = 0
         /\ Drift(MissBudget + 1) \in Nat
         /\ Drift(MissBudget + 1) = Drift(MissBudget) + Beat + 2 * Latency
         /\ \A m \in 0..MissBudget :
              /\ Drift(m) \in Nat
              /\ Drift(m + 1) = Drift(m) + Beat + 2 * Latency
              /\ Drift(m) <= Drift(MissBudget)
         /\ Drift(MissBudget + 1) + 3 * Latency <= MaxLockTime
<1>1. Drift(0) = 0
  BY DriftGrows, SMT DEF Drift
<1>2. MissBudget \in Nat /\ Latency \in Nat /\ Beat \in Nat
  BY TimesAssumption, BeatIsPositive
<1>3. Period = Beat + 2 * Latency
  BY DEF Period
<1>4. ASSUME NEW m \in 0..MissBudget
      PROVE  /\ Drift(m) \in Nat
             /\ Drift(m + 1) = Drift(m) + Beat + 2 * Latency
             /\ Drift(m) <= Drift(MissBudget)
  <2>1. m \in Nat /\ m <= MissBudget
    BY <1>2
  <2> QED
    BY <1>2, <1>3, <2>1, DriftGrows
<1>5. /\ Drift(MissBudget + 1) \in Nat
      /\ Drift(MissBudget + 1) = Drift(MissBudget) + Beat + 2 * Latency
  <2>1. MissBudget + 1 \in Nat
    BY <1>2
  <2> QED
    BY <1>2, <1>3, <2>1, DriftGrows
<1> QED
  BY <1>1, <1>4, <1>5 DEF PromptReplicas

LEMMA InitSafe == Init => IInv
  BY InitTyped, DriftGrows, TimesAssumption, HandlesAssumption
  DEF Init, IInv, IType, RenewalFollowsWork, RowIsHolders, RowIsFresh,
      NoTakeover, Holds, Working

\* A row that is there is younger than what the sweep and the takeover ask for.
LEMMA RowIsYoung ==
  ASSUME PromptReplicas, IInv, owner # NoRow
  PROVE  age <= Drift(MissBudget + 1) + 2 * Latency
<1>1. owner \in Handles /\ Holds(owner)
  BY DEF IInv, TypeOK, RowIsHolders
<1>2. CASE pc[owner] = "releasing"
  BY <1>1, <1>2, BoundsFit, TimesAssumption DEF IInv, TypeOK, RowIsFresh
<1>3. CASE pc[owner] = "working"
  <2>1. renewal[owner] \in {"asleep", "moving"}
    BY <1>1, <1>3 DEF IInv, TypeOK, RenewalFollowsWork, Working
  <2> QED
    BY <1>1, <2>1, BoundsFit, TimesAssumption, BeatIsPositive
    DEF IInv, TypeOK, RowIsFresh, RenewalFollowsWork
<1> QED
  BY <1>1, <1>2, <1>3 DEF Holds

LEMMA StepSafe ==
  ASSUME PromptReplicas, IInv, [Next]_vars
  PROVE  IInv'
<1>1. TypeOK'
  BY StepTyped DEF IInv, IType, MovingIsPrompt, RenewalFollowsWork
<1> DEFINE Rest == RenewalFollowsWork /\ RowIsHolders /\ RowIsFresh /\ NoTakeover
<1> SUFFICES Rest'
  BY <1>1 DEF IInv
<1> USE HandlesAssumption, TimesAssumption, BeatIsPositive
<1> USE DEF IInv, TypeOK, RenewalFollowsWork, RowIsHolders, RowIsFresh,
            NoTakeover, Holds, Working
<1>2. ASSUME NEW h \in Handles, Begin(h) PROVE Rest'
  BY <1>2 DEF Begin, MoveTo, rowVars, beatVars, adminVars
<1>3. ASSUME NEW h \in Handles, Cleanup(h) PROVE Rest'
  \* The sweep finds nothing to delete.
  <2>1. UNCHANGED rowVars
    BY <1>3, RowIsYoung, BoundsFit DEF Cleanup, DeleteStale, Stale
  <2> QED
    BY <1>3, <2>1 DEF Cleanup, MoveTo, rowVars, beatVars, adminVars
<1>4. ASSUME NEW h \in Handles, Stamp(h) PROVE Rest'
  BY <1>4 DEF Stamp, MoveTo, rowVars, beatVars, adminVars
<1>5. ASSUME NEW h \in Handles, InsertRow(h) PROVE Rest'
  BY <1>5, BoundsFit DEF InsertRow, MoveTo, adminVars
<1>6. ASSUME NEW h \in Handles, InsertConflict(h) PROVE Rest'
  BY <1>6 DEF InsertConflict, MoveTo, rowVars, beatVars, adminVars
<1>7. ASSUME NEW h \in Handles, Lookup(h) PROVE Rest'
  <2>1. CASE owner = NoRow
    BY <1>7, <2>1 DEF Lookup, MoveTo, rowVars, beatVars, adminVars
  <2>2. CASE owner # NoRow
    <3>1. age <= Drift(MissBudget + 1) + 2 * Latency
      BY <2>2, RowIsYoung
    <3>2. /\ pc' = [pc EXCEPT ![h] = "decide"]
          /\ timer' = [timer EXCEPT ![h] = 0]
          /\ seen' = [seen EXCEPT ![h] = age]
          /\ pc[h] = "lookup"
          /\ UNCHANGED <<owner, age, acquired, renewal, rtimer, missed, admin>>
      BY <1>7, <2>2 DEF Lookup, MoveTo, rowVars, beatVars, adminVars
    <3>3. NoTakeover'
      BY <3>1, <3>2, BoundsFit
    <3> QED
      BY <3>2, <3>3
  <2> QED
    BY <2>1, <2>2
<1>8. ASSUME NEW h \in Handles, Decide(h) PROVE Rest'
  \* What was read does not look abandoned.
  <2>1. seen[h] <= MaxLockTime
    BY <1>8, BoundsFit DEF Decide
  <2> QED
    BY <1>8, <2>1 DEF Decide, MoveTo, rowVars, beatVars, adminVars
<1>9. ASSUME NEW h \in Handles, Takeover(h) PROVE Rest'
  BY <1>9 DEF Takeover
<1>10. ASSUME NEW h \in Handles, Release(h) PROVE Rest'
  BY <1>10 DEF Release, RowOfInstance, MoveTo, rowVars, beatVars, adminVars
<1>11. ASSUME NEW h \in Handles, Wake(h) PROVE Rest'
  <2>1. acquired[h]
    BY <1>11 DEF Wake
  <2>2. age <= Drift(missed[h]) + Latency + Beat + Latency
    BY <1>11, BoundsFit DEF Wake
  <2>3. /\ renewal' = [renewal EXCEPT ![h] = "moving"]
        /\ rtimer' = [rtimer EXCEPT ![h] = 0]
        /\ UNCHANGED <<owner, age, pc, timer, seen, acquired, missed, admin>>
        /\ pc[h] = "working"
    BY <1>11, <2>1 DEF Wake, rowVars, adminVars
  <2> QED
    BY <2>2, <2>3, BoundsFit
<1>12. ASSUME NEW h \in Handles, Renew(h) PROVE Rest'
  \* A holder's own row is there to be moved.
  <2>1. RowOfInstance(h)
    BY <1>12 DEF Renew, RowOfInstance
  <2> QED
    BY <1>12, <2>1, BoundsFit DEF Renew, adminVars
<1>13. ASSUME NEW h \in Handles, Finish(h) PROVE Rest'
  BY <1>13, BoundsFit DEF Finish, MoveTo, rowVars, adminVars
<1>14. ASSUME NEW h \in Handles, Stray(h) PROVE Rest'
  BY <1>14, BoundsFit DEF Stray, adminVars
<1>15. ASSUME NEW h \in Handles, AcquireError(h) PROVE Rest'
  BY <1>15 DEF AcquireError, MoveTo, rowVars, beatVars, adminVars
<1>16. ASSUME NEW h \in Handles, RenewError(h) PROVE Rest'
  BY <1>16, BoundsFit DEF RenewError, rowVars, adminVars
<1>17. ASSUME NEW h \in Handles,
              ReleaseError(h) \/ Abandon(h) \/ Crash(h) \/ Restart(h)
       PROVE  Rest'
  BY <1>17 DEF ReleaseError, Abandon, Crash, Restart, PromptReplicas
<1>18. CASE ForceLook \/ ForceDelete
  BY <1>18 DEF ForceLook, ForceDelete, PromptReplicas
<1>19. CASE Tick
  <2>1. /\ UNCHANGED <<owner, pc, acquired, renewal, missed, admin>>
        /\ age' <= age + 1
        /\ \A h \in Handles :
             /\ timer'[h] = IF pc[h] \in Awaiting THEN timer[h] + 1 ELSE timer[h]
             /\ seen'[h] <= IF pc[h] = "decide" THEN seen[h] + 1 ELSE seen[h]
             /\ rtimer'[h] = IF renewal[h] = "off" THEN rtimer[h]
                                                    ELSE rtimer[h] + 1
    BY <1>19 DEF Tick, Older, AgeCap, adminVars
  <2>2. \A h \in Handles : renewal'[h] = "moving" => rtimer'[h] <= Latency
    BY <1>19 DEF Tick, Prompt, adminVars
  <2>3. RenewalFollowsWork'
    BY <2>1, <2>2
  <2>4. RowIsHolders'
    BY <2>1
  <2>5. RowIsFresh'
    BY <2>1, <1>1, BoundsFit DEF Awaiting
  <2>6. NoTakeover'
    BY <2>1, <1>1, BoundsFit DEF Awaiting
  <2> QED
    BY <2>3, <2>4, <2>5, <2>6
<1>20. CASE UNCHANGED vars
  BY <1>20 DEF vars
<1> QED
  BY <1>2, <1>3, <1>4, <1>5, <1>6, <1>7, <1>8, <1>9, <1>10, <1>11, <1>12,
     <1>13, <1>14, <1>15, <1>16, <1>17, <1>18, <1>19, <1>20
  DEF Next, Proceed, Beats, Fault

\* The promise of distributed_lock: with prompt replicas no two handles work
\* at a time, whichever statements and renewals fail within MissBudget.
THEOREM LockIsExclusive == PromptReplicas => (Spec => []MutualExclusion)
<1> SUFFICES ASSUME PromptReplicas PROVE Spec => []MutualExclusion
  OBVIOUS
<1>1. IInv /\ [Next]_vars => IInv'
  BY StepSafe
<1>2. IInv => MutualExclusion
  BY DEF IInv, RowIsHolders, MutualExclusion, Holds, Working
<1> QED
  BY InitSafe, <1>1, <1>2, PTL DEF Spec

\* A holder at work is never found abandoned by the sweep or by a contender.
THEOREM HolderIsNeverFoundAbandoned ==
  PromptReplicas => (Spec => []LiveRowNeverLooksAbandoned)
<1> SUFFICES ASSUME PromptReplicas PROVE Spec => []LiveRowNeverLooksAbandoned
  OBVIOUS
<1>1. IInv /\ [Next]_vars => IInv'
  BY StepSafe
<1>2. IInv => LiveRowNeverLooksAbandoned
  <2> SUFFICES ASSUME IInv, NEW h \in Handles, Working(h)
               PROVE  owner = h /\ age <= MaxLockTime
    BY DEF LiveRowNeverLooksAbandoned
  <2>1. owner = h
    BY DEF IInv, RowIsHolders, Holds, Working
  <2>2. age <= Drift(MissBudget + 1) + 2 * Latency
    BY <2>1, RowIsYoung, HandlesAssumption
  <2> QED
    BY <2>1, <2>2, BoundsFit, TimesAssumption DEF IInv, TypeOK
<1> QED
  BY InitSafe, <1>1, <1>2, PTL DEF Spec

\* Every behaviour of the database lock with prompt replicas is a behaviour of
\* the mutex: acquire() enters it, the end of the `async with` leaves it.
THEOREM LockImplementsMutex == PromptReplicas => (Spec => ImplementsMutex)
<1> SUFFICES ASSUME PromptReplicas PROVE Spec => ImplementsMutex
  OBVIOUS
<1> DEFINE inside == {h \in Handles : Working(h)}
<1>1. Init => ABS!Init
  BY DEF Init, ABS!Init, Working
<1>2. IInv /\ [Next]_vars => IInv'
  BY StepSafe
<1>3. IInv /\ [Next]_vars => [ABS!Next]_inside
  <2> SUFFICES ASSUME IInv, [Next]_vars
               PROVE  ABS!Next \/ inside' = inside
    BY DEF ABS!Next
  <2> USE DEF Working
  <2>1. ASSUME NEW h \in Handles, InsertRow(h) PROVE ABS!Next
    <3>1. inside = {} /\ inside' = {h}
      BY <2>1, HandlesAssumption
      DEF InsertRow, MoveTo, IInv, RowIsHolders, Holds, TypeOK
    <3> QED
      BY <3>1 DEF ABS!Next, ABS!Enter
  <2>2. ASSUME NEW h \in Handles, Finish(h) PROVE ABS!Next
    <3>1. inside = {h} /\ inside' = {}
      BY <2>2 DEF Finish, MoveTo, IInv, RowIsHolders, Holds, TypeOK
    <3> QED
      BY <3>1 DEF ABS!Next, ABS!Leave
  <2>3. ASSUME NEW h \in Handles,
               \/ Begin(h) \/ Cleanup(h) \/ Stamp(h) \/ InsertConflict(h)
               \/ Lookup(h) \/ Decide(h) \/ Takeover(h) \/ Release(h)
               \/ AcquireError(h) \/ Restart(h)
        PROVE  inside' = inside
    BY <2>3 DEF Begin, Cleanup, Stamp, InsertConflict, Lookup, Decide,
                Takeover, Release, AcquireError, Restart, MoveTo, IInv, TypeOK
  <2>4. ASSUME NEW h \in Handles,
               ReleaseError(h) \/ Abandon(h) \/ Crash(h)
        PROVE  inside' = inside
    BY <2>4 DEF ReleaseError, Abandon, Crash, PromptReplicas
  <2>5. ASSUME NEW h \in Handles,
               Wake(h) \/ Renew(h) \/ RenewError(h) \/ Stray(h)
        PROVE  inside' = inside
    BY <2>5 DEF Wake, Renew, RenewError, Stray
  <2>6. CASE ForceLook \/ ForceDelete \/ Tick \/ UNCHANGED vars
    BY <2>6 DEF ForceLook, ForceDelete, Tick, vars
  <2> QED
    BY <2>1, <2>2, <2>3, <2>4, <2>5, <2>6 DEF Next, Proceed, Beats, Fault
<1> QED
  BY InitSafe, <1>1, <1>2, <1>3, PTL DEF Spec, ABS!Spec, ImplementsMutex

\* Under every fault, and without promptness: where each handle is a process of
\* its own, a holder that finishes late leaves the row of the next one alone.
THEOREM LateFinisherIsHarmless ==
  ASSUME \A g, h \in Handles : Instance[g] = Instance[h] => g = h
  PROVE  Spec => FinishingLeavesTheNewHolder
<1> DEFINE Unharmed(h) ==
      pc[h] = "releasing" /\ pc'[h] = "idle" /\ owner # h /\ owner # NoRow
        => owner' = owner /\ age' = age
<1>1. ASSUME IType, [Next]_vars, NEW h \in Handles PROVE Unharmed(h)
  <2> SUFFICES ASSUME pc[h] = "releasing", pc'[h] = "idle",
                      owner # h, owner # NoRow
               PROVE  UNCHANGED rowVars
    BY DEF rowVars
  <2> USE <1>1 DEF IType, TypeOK, rowVars
  <2>1. CASE Release(h)
    BY <2>1 DEF Release, RowOfInstance
  <2>2. CASE ReleaseError(h)
    BY <2>2 DEF ReleaseError
  <2>3. ASSUME NEW g \in Handles, Release(g) \/ ReleaseError(g), g # h
        PROVE  FALSE
    BY <2>3 DEF Release, ReleaseError, MoveTo
  <2>4. ASSUME NEW g \in Handles,
               \/ Begin(g) \/ Cleanup(g) \/ Stamp(g) \/ InsertRow(g)
               \/ InsertConflict(g) \/ Lookup(g) \/ Decide(g) \/ Takeover(g)
               \/ AcquireError(g) \/ Abandon(g) \/ Restart(g) \/ Finish(g)
        PROVE  FALSE
    BY <2>4 DEF Begin, Cleanup, Stamp, InsertRow, InsertConflict, Lookup,
                Decide, Takeover, AcquireError, Abandon, Restart, Finish, MoveTo
  <2>5. ASSUME NEW g \in Handles,
               Wake(g) \/ Renew(g) \/ RenewError(g) \/ Stray(g)
        PROVE  FALSE
    BY <2>5 DEF Wake, Renew, RenewError, Stray
  <2>7. ASSUME NEW g \in Handles, Crash(g) PROVE FALSE
    BY <2>7 DEF Crash
  <2>6. CASE ForceLook \/ ForceDelete \/ Tick \/ UNCHANGED vars
    BY <2>6 DEF ForceLook, ForceDelete, Tick, vars
  <2> QED
    BY <2>1, <2>2, <2>3, <2>4, <2>5, <2>6, <2>7
    DEF Next, Proceed, Beats, Fault
<1>2. IType /\ [Next]_vars =>
        [\A h \in Handles : Unharmed(h)]_vars
  BY <1>1
<1> QED
  BY InitTyped, StepTyped, <1>2, PTL DEF Spec, FinishingLeavesTheNewHolder

-----------------------------------------------------------------------------
(* The replicas of the runs that have every fault                          *)

\* What a step of them needs to know of the row and of the handles.
FaultyTyped == DOMAIN pc_ = {h1, h2} /\ owner_ \in {h1, h2, NoRow}

LEMMA FaultyInitTyped == Faulty!Init => FaultyTyped
  BY DEF Faulty!Init, FaultyTyped

LEMMA FaultyStepTyped == FaultyTyped /\ [Faulty!Next]_faultyVars => FaultyTyped'
<1> SUFFICES ASSUME FaultyTyped, [Faulty!Next]_faultyVars PROVE FaultyTyped'
  OBVIOUS
<1> USE DEF FaultyTyped
<1>1. ASSUME NEW h \in {h1, h2}, Faulty!Proceed(h) PROVE FaultyTyped'
  BY <1>1 DEF Faulty!Proceed, Faulty!Begin, Faulty!Cleanup, Faulty!DeleteStale, Faulty!Stamp,
              Faulty!InsertRow, Faulty!InsertConflict, Faulty!Lookup, Faulty!Decide,
              Faulty!Takeover, Faulty!Release, Faulty!MoveTo, Faulty!rowVars
<1>2. ASSUME NEW h \in {h1, h2}, Faulty!Beats(h) \/ Faulty!Finish(h) \/ Faulty!Stray(h)
      PROVE  FaultyTyped'
  BY <1>2 DEF Faulty!Beats, Faulty!Wake, Faulty!Renew, Faulty!Finish, Faulty!Stray,
              Faulty!MoveTo, Faulty!rowVars
<1>3. ASSUME NEW h \in {h1, h2}, Faulty!Fault(h) PROVE FaultyTyped'
  BY <1>3 DEF Faulty!Fault, Faulty!AcquireError, Faulty!RenewError, Faulty!ReleaseError,
              Faulty!Abandon, Faulty!Crash, Faulty!Restart, Faulty!MoveTo, Faulty!rowVars
<1>4. CASE Faulty!ForceLook \/ Faulty!ForceDelete \/ Faulty!Tick \/ UNCHANGED faultyVars
  BY <1>4 DEF Faulty!ForceLook, Faulty!ForceDelete, Faulty!Tick, Faulty!rowVars, faultyVars
<1> QED
  BY <1>1, <1>2, <1>3, <1>4 DEF Faulty!Next

\* The property of the run: two replicas that crash, restart, are cancelled and lose
\* statements, with an administrator who releases by force, and still a late release takes
\* no row but its own.
THEOREM FaultyReplicasLeaveTheNewHolder ==
  ASSUME {h1, h2} \subseteq Handles, h1 # h2
  PROVE  LockSpec => LateFinishIsHarmless
<1> DEFINE Unharmed(h) ==
      pc_[h] = "releasing" /\ pc_'[h] = "idle" /\ owner_ # h /\ owner_ # NoRow
        => owner_' = owner_ /\ age_' = age_
<1>1. ASSUME FaultyTyped, [Faulty!Next]_faultyVars, NEW h \in {h1, h2} PROVE Unharmed(h)
  <2> SUFFICES ASSUME pc_[h] = "releasing", pc_'[h] = "idle", owner_ # h, owner_ # NoRow
               PROVE  owner_' = owner_ /\ age_' = age_
    OBVIOUS
  <2> USE <1>1 DEF FaultyTyped
  <2>1. CASE Faulty!Release(h)
    <3>1. \A g \in {h1, h2} : Apart[g] = Apart[h] => g = h
      BY DEF Apart
    <3> QED
      BY <2>1, <3>1 DEF Faulty!Release, Faulty!RowOfInstance, Faulty!rowVars
  <2>2. CASE Faulty!ReleaseError(h)
    BY <2>2 DEF Faulty!ReleaseError, Faulty!rowVars
  <2>3. ASSUME NEW g \in {h1, h2}, Faulty!Release(g) \/ Faulty!ReleaseError(g), g # h
        PROVE  FALSE
    BY <2>3 DEF Faulty!Release, Faulty!ReleaseError, Faulty!MoveTo
  <2>4. ASSUME NEW g \in {h1, h2},
               \/ Faulty!Begin(g) \/ Faulty!Cleanup(g) \/ Faulty!Stamp(g)
               \/ Faulty!InsertRow(g) \/ Faulty!InsertConflict(g) \/ Faulty!Lookup(g)
               \/ Faulty!Decide(g) \/ Faulty!Takeover(g) \/ Faulty!AcquireError(g)
               \/ Faulty!Abandon(g) \/ Faulty!Restart(g) \/ Faulty!Finish(g)
        PROVE  FALSE
    BY <2>4 DEF Faulty!Begin, Faulty!Cleanup, Faulty!Stamp, Faulty!InsertRow,
                Faulty!InsertConflict, Faulty!Lookup, Faulty!Decide, Faulty!Takeover,
                Faulty!AcquireError, Faulty!Abandon, Faulty!Restart, Faulty!Finish,
                Faulty!MoveTo
  <2>5. ASSUME NEW g \in {h1, h2},
               \/ Faulty!Wake(g) \/ Faulty!Renew(g) \/ Faulty!RenewError(g)
               \/ Faulty!Stray(g) \/ Faulty!Crash(g)
        PROVE  FALSE
    BY <2>5 DEF Faulty!Wake, Faulty!Renew, Faulty!RenewError, Faulty!Stray, Faulty!Crash
  <2>6. CASE Faulty!ForceLook \/ Faulty!ForceDelete \/ Faulty!Tick \/ UNCHANGED faultyVars
    BY <2>6 DEF Faulty!ForceLook, Faulty!ForceDelete, Faulty!Tick, faultyVars
  <2> QED
    BY <2>1, <2>2, <2>3, <2>4, <2>5, <2>6
    DEF Faulty!Next, Faulty!Proceed, Faulty!Beats, Faulty!Fault
<1>2. FaultyTyped /\ [Faulty!Next]_faultyVars
        => [\A h \in {h1, h2} : Unharmed(h)]_(Faulty!vars)
  BY <1>1 DEF faultyVars, Faulty!vars
<1>3. [LockNext]_<<which, vars, faultyVars>> => [Faulty!Next]_faultyVars
  BY DEF LockNext
<1>4. LockInit => Faulty!Init
  BY DEF LockInit
<1> QED
  BY FaultyInitTyped, FaultyStepTyped, <1>2, <1>3, <1>4, PTL
  DEF LockSpec, LateFinishIsHarmless, Faulty!FinishingLeavesTheNewHolder

=============================================================================
