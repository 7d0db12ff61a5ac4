--------------------------- MODULE MCDatabaseLock ---------------------------
(* Two instances of DatabaseLock.  Prompt: two loops of one replica and one  *)
(* of another, statements that fail, no replica that dies or is late.        *)
(* Faulty: two replicas and every fault.  They share no variable; a          *)
(* behaviour is one of one of them, the other at rest: `which' says whose.   *)
EXTENDS DatabaseLock

CONSTANTS h1, h2, h3
Shared == [h \in Handles |-> IF h = h3 THEN "host-b-1" ELSE "host-a-1"]
Apart  == [h \in Handles |-> CASE h = h1 -> "host-a-1"
                               [] h = h2 -> "host-b-1"
                               [] OTHER  -> "host-c-1"]

VARIABLES
  which,
  owner_, age_, pc_, timer_, seen_, acquired_, renewal_, rtimer_, missed_, strays_, admin_, crashes_
faultyVars == <<owner_, age_, pc_, timer_, seen_, acquired_, renewal_, rtimer_, missed_, strays_,
                admin_, crashes_>>

Faulty == INSTANCE DatabaseLock
  WITH Handles <- {h1, h2}, Instance <- Apart, MaxLockTime <- 3, Latency <- 1, MissBudget <- 1,
       MaxCrashes <- 1, Faults <- FaultKinds \ {"acquire_error"},
       owner <- owner_, age <- age_, pc <- pc_, timer <- timer_, seen <- seen_,
       acquired <- acquired_, renewal <- renewal_, rtimer <- rtimer_, missed <- missed_,
       strays <- strays_, admin <- admin_, crashes <- crashes_

LockInit == which \in {"prompt", "faulty"} /\ Init /\ Faulty!Init

LockNext ==
  \/ which = "prompt" /\ Next /\ UNCHANGED <<which, faultyVars>>
  \/ which = "faulty" /\ Faulty!Next /\ UNCHANGED <<which, vars>>

\* The fairness of DatabaseLock!Fairness, for the faulty replicas.
LockFairness ==
  /\ \A h \in {h1, h2} :
       /\ WF_faultyVars(which = "faulty" /\ Faulty!Proceed(h))
       /\ WF_faultyVars(which = "faulty" /\ Faulty!Beats(h))
       /\ WF_faultyVars(which = "faulty" /\ Faulty!Stray(h))
  /\ WF_faultyVars(which = "faulty" /\ Faulty!Tick)

LockSpec == LockInit /\ [][LockNext]_<<which, vars, faultyVars>> /\ LockFairness

\* The properties of the faulty replicas
LateFinishIsHarmless == Faulty!FinishingLeavesTheNewHolder
AbandonedIsCleared == Faulty!OrphanIsCleared
LoserLearns == Faulty!LostHolderLearns
=============================================================================
