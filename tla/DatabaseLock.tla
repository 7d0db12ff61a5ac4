----------------------------- MODULE DatabaseLock -----------------------------
(***************************************************************************)
(* The distributed lock of src/locks.py: one row of `distributed_locks`    *)
(* (one lock name), contended for by the background loops of several       *)
(* replicas.                                                               *)
(*                                                                         *)
(* A handle is one loop that keeps entering `distributed_lock(name)`.      *)
(* Every SQL statement runs in a thread of its own (execute_commit_async   *)
(* is asyncio.to_thread), so a coroutine fixes the timestamp it passes,    *)
(* awaits, and the statement reaches the database up to Latency later.     *)
(*                                                                         *)
(* Time is kept as ages: `age` is how far acquired_at lies in the past, a  *)
(* timer how long ago a coroutine took its last step, and Tick advances    *)
(* all of them.  A comparison of two timestamps in the code becomes a      *)
(* comparison of the difference of two ages.  Ages are capped above every  *)
(* value a comparison can tell apart, so the state space is finite.        *)
(***************************************************************************)
EXTENDS Integers, FiniteSets

CONSTANTS
  Handles,       \* the loops that contend for the lock
  NoRow,         \* the value of `owner` while the table has no row
  Instance,      \* Instance[h] is the instance_id of the process h runs in
  MaxLockTime,   \* max_lock_time, in ticks
  Latency,       \* ticks within which a prompt replica takes its next step
  MissBudget,    \* consecutive renewals that may fail
  MaxCrashes,    \* bound: how many crashes a behaviour has
  Faults         \* which faults the environment may inject

FaultKinds == {"acquire_error", "renew_error", "release_error",
               "abandon", "crash", "restart", "force"}

ASSUME HandlesAssumption == NoRow \notin Handles
ASSUME TimesAssumption ==
  /\ MaxLockTime \in Nat \ {0}
  /\ Latency \in Nat
  /\ MissBudget \in Nat
  /\ MaxCrashes \in Nat
ASSUME FaultsAssumption == Faults \subseteq FaultKinds

RENEWAL_FRACTION == 3

\* How long the renewal sleeps between two renewals.
Beat ==
  IF MaxLockTime \div RENEWAL_FRACTION > 1
    THEN MaxLockTime \div RENEWAL_FRACTION ELSE 1

\* Ages at or above the cap are alike: every argument's age is at most Latency.
AgeCap == MaxLockTime + Latency + 1
Older(a) == IF a < AgeCap THEN a + 1 ELSE a

VARIABLES
  owner,     \* the handle whose INSERT made the row, NoRow when there is none
  age,       \* age of the row's acquired_at
  pc,        \* where each handle's coroutine stands
  timer,     \* ticks since that coroutine last fixed a timestamp or resumed
  seen,      \* age of the acquired_at its SELECT returned
  acquired,  \* DatabaseLock.acquired of the lock object in use
  renewal,   \* the renewal task: "off", "asleep" or "moving" (UPDATE in flight)
  rtimer,    \* ticks since the renewal task last moved
  missed,    \* consecutive renewals that failed
  strays,    \* ages of UPDATEs left running by a cancelled renewal task
  admin,     \* the force-release route: "idle" or "found" (row was read)
  crashes    \* crashes so far

rowVars   == <<owner, age>>
beatVars  == <<renewal, rtimer, missed, strays>>
adminVars == <<admin, crashes>>
vars == <<owner, age, pc, timer, seen, acquired, renewal, rtimer, missed,
          strays, admin, crashes>>

\* The steps at which a coroutine waits for the database or for the scheduler.
Awaiting == {"cleanup", "stamp", "insert", "lookup", "decide", "takeover",
             "again", "releasing"}
PCs == Awaiting \cup {"idle", "working", "dead"}

Init ==
  /\ owner = NoRow /\ age = 0
  /\ pc = [h \in Handles |-> "idle"]
  /\ timer = [h \in Handles |-> 0]
  /\ seen = [h \in Handles |-> 0]
  /\ acquired = [h \in Handles |-> FALSE]
  /\ renewal = [h \in Handles |-> "off"]
  /\ rtimer = [h \in Handles |-> 0]
  /\ missed = [h \in Handles |-> 0]
  /\ strays = [h \in Handles |-> {}]
  /\ admin = "idle" /\ crashes = 0

\* Mutant: renew() and release() find the row by lock name alone.
RowOfInstance_AnyRow(h) == owner # NoRow

\* The WHERE clause `instance_id = :instance_id` matches the row.
RowOfInstance(h) == owner # NoRow /\ Instance[owner] = Instance[h]

MoveTo(h, p) ==
  /\ pc' = [pc EXCEPT ![h] = p]
  /\ timer' = [timer EXCEPT ![h] = 0]

-----------------------------------------------------------------------------
(* acquire(), _cleanup_stale_locks() and _try_acquire_existing()           *)

\* Entering acquire(): the cutoff of the stale sweep is fixed now.  "again" is
\* the recursive call after a takeover.
Begin(h) ==
  /\ pc[h] \in {"idle", "again"}
  /\ MoveTo(h, "cleanup")
  /\ UNCHANGED <<rowVars, seen, acquired, beatVars, adminVars>>

\* acquired_at < cutoff_time, the cutoff being as old as the coroutine's timer.
Stale(h) == age - timer[h] > MaxLockTime

DeleteStale(h) ==
  IF owner # NoRow /\ Stale(h)
    THEN owner' = NoRow /\ age' = 0
    ELSE UNCHANGED rowVars

Cleanup(h) ==
  /\ pc[h] = "cleanup"
  /\ \/ DeleteStale(h)
     \/ "acquire_error" \in Faults /\ UNCHANGED rowVars
  /\ MoveTo(h, "stamp")
  /\ UNCHANGED <<seen, acquired, beatVars, adminVars>>

\* The coroutine resumes and fixes the acquired_at it will insert.
Stamp(h) ==
  /\ pc[h] = "stamp"
  /\ MoveTo(h, "insert")
  /\ UNCHANGED <<rowVars, seen, acquired, beatVars, adminVars>>

\* The INSERT takes: the lock is ours and its renewal task starts asleep.
InsertRow(h) ==
  /\ pc[h] = "insert" /\ owner = NoRow
  /\ owner' = h /\ age' = timer[h]
  /\ acquired' = [acquired EXCEPT ![h] = TRUE]
  /\ renewal' = [renewal EXCEPT ![h] = "asleep"]
  /\ MoveTo(h, "working")
  /\ UNCHANGED <<seen, rtimer, missed, strays, adminVars>>

\* The unique constraint refuses the INSERT.
InsertConflict(h) ==
  /\ pc[h] = "insert" /\ owner # NoRow
  /\ MoveTo(h, "lookup")
  /\ UNCHANGED <<rowVars, seen, acquired, beatVars, adminVars>>

\* The SELECT of _try_acquire_existing.
Lookup(h) ==
  /\ pc[h] = "lookup"
  /\ IF owner = NoRow
       THEN MoveTo(h, "idle") /\ UNCHANGED seen
       ELSE MoveTo(h, "decide") /\ seen' = [seen EXCEPT ![h] = age]
  /\ UNCHANGED <<rowVars, acquired, beatVars, adminVars>>

\* time_diff > max_lock_time, judged on the row that was read.
Decide(h) ==
  /\ pc[h] = "decide"
  /\ MoveTo(h, IF seen[h] > MaxLockTime THEN "takeover" ELSE "idle")
  /\ seen' = [seen EXCEPT ![h] = 0]
  /\ UNCHANGED <<rowVars, acquired, beatVars, adminVars>>

\* The DELETE of the takeover: by lock name alone, whatever row is there now.
Takeover(h) ==
  /\ pc[h] = "takeover"
  /\ owner' = NoRow /\ age' = 0
  /\ MoveTo(h, "again")
  /\ UNCHANGED <<seen, acquired, beatVars, adminVars>>

\* A statement of acquire() fails for a reason that is not the constraint:
\* logged, and acquire() answers False.
AcquireError(h) ==
  /\ "acquire_error" \in Faults
  /\ pc[h] \in {"insert", "lookup", "takeover"}
  /\ MoveTo(h, "idle")
  /\ UNCHANGED <<rowVars, seen, acquired, beatVars, adminVars>>

-----------------------------------------------------------------------------
(* distributed_lock(): the renewal task, renew() and release()             *)

\* The sleep of one beat ends.  renew() returns at once on a lock that is
\* known to be lost; otherwise the UPDATE's timestamp is fixed now.
Wake(h) ==
  /\ renewal[h] = "asleep" /\ rtimer[h] >= Beat
  /\ renewal' = [renewal EXCEPT ![h] = IF acquired[h] THEN "moving" ELSE @]
  /\ rtimer' = [rtimer EXCEPT ![h] = 0]
  /\ UNCHANGED <<rowVars, pc, timer, seen, acquired, missed, strays, adminVars>>

\* Mutant: the beat goes on, but the row's timestamp is not moved.
Renew_MovesNothing(h) ==
  /\ renewal[h] = "moving"
  /\ acquired' = [acquired EXCEPT ![h] = @ /\ RowOfInstance(h)]
  /\ renewal' = [renewal EXCEPT ![h] = "asleep"]
  /\ rtimer' = [rtimer EXCEPT ![h] = 0]
  /\ missed' = [missed EXCEPT ![h] = 0]
  /\ UNCHANGED <<rowVars, pc, timer, seen, strays, adminVars>>

\* Mutant: renew() does not look at the row count.
Renew_IgnoresCount(h) ==
  /\ renewal[h] = "moving"
  /\ age' = IF RowOfInstance(h) THEN rtimer[h] ELSE age
  /\ renewal' = [renewal EXCEPT ![h] = "asleep"]
  /\ rtimer' = [rtimer EXCEPT ![h] = 0]
  /\ missed' = [missed EXCEPT ![h] = 0]
  /\ UNCHANGED <<owner, pc, timer, seen, acquired, strays, adminVars>>

\* The UPDATE reaches the database: it moves the row of this instance, or
\* finds none and renew() drops `acquired`.  The work is not told.
Renew(h) ==
  /\ renewal[h] = "moving"
  /\ IF RowOfInstance(h)
       THEN age' = rtimer[h] /\ UNCHANGED acquired
       ELSE acquired' = [acquired EXCEPT ![h] = FALSE] /\ UNCHANGED age
  /\ renewal' = [renewal EXCEPT ![h] = "asleep"]
  /\ rtimer' = [rtimer EXCEPT ![h] = 0]
  /\ missed' = [missed EXCEPT ![h] = 0]
  /\ UNCHANGED <<owner, pc, timer, seen, strays, adminVars>>

\* The UPDATE fails: logged, and the loop sleeps for another beat.
RenewError(h) ==
  /\ "renew_error" \in Faults
  /\ renewal[h] = "moving" /\ missed[h] < MissBudget
  /\ renewal' = [renewal EXCEPT ![h] = "asleep"]
  /\ rtimer' = [rtimer EXCEPT ![h] = 0]
  /\ missed' = [missed EXCEPT ![h] = @ + 1]
  /\ UNCHANGED <<rowVars, pc, timer, seen, acquired, strays, adminVars>>

\* The body of the `async with` ends, in whatever way: the renewal task is
\* cancelled, which does not stop an UPDATE its thread already runs, and
\* release() is entered; it has nothing to do when `acquired` is False.
Finish(h) ==
  /\ pc[h] = "working"
  /\ strays' = [strays EXCEPT ![h] =
                  IF renewal[h] = "moving" THEN @ \cup {rtimer[h]} ELSE @]
  /\ renewal' = [renewal EXCEPT ![h] = "off"]
  /\ rtimer' = [rtimer EXCEPT ![h] = 0]
  /\ missed' = [missed EXCEPT ![h] = 0]
  /\ MoveTo(h, IF acquired[h] THEN "releasing" ELSE "idle")
  /\ UNCHANGED <<rowVars, seen, acquired, adminVars>>

\* The UPDATE of a cancelled renewal runs, or its thread never started.
Stray(h) ==
  \E a \in strays[h] :
    /\ strays' = [strays EXCEPT ![h] = @ \ {a}]
    /\ \/ RowOfInstance(h) /\ age' = a
       \/ UNCHANGED age
    /\ UNCHANGED <<owner, pc, timer, seen, acquired, renewal, rtimer, missed,
                   adminVars>>

\* The DELETE of release(): whatever row this instance has.
Release(h) ==
  /\ pc[h] = "releasing"
  /\ IF RowOfInstance(h)
       THEN owner' = NoRow /\ age' = 0
       ELSE UNCHANGED rowVars
  /\ acquired' = [acquired EXCEPT ![h] = FALSE]
  /\ MoveTo(h, "idle")
  /\ UNCHANGED <<seen, beatVars, adminVars>>

\* The DELETE fails: the row stays and the lock object is dropped.
ReleaseError(h) ==
  /\ "release_error" \in Faults
  /\ pc[h] = "releasing"
  /\ acquired' = [acquired EXCEPT ![h] = FALSE]
  /\ MoveTo(h, "idle")
  /\ UNCHANGED <<rowVars, seen, beatVars, adminVars>>

\* The caller is cancelled while the INSERT runs: the row appears, but
\* acquire() never set `acquired`, so release() leaves the row alone.
Abandon(h) ==
  /\ "abandon" \in Faults
  /\ pc[h] = "insert"
  /\ IF owner = NoRow
       THEN owner' = h /\ age' = timer[h]
       ELSE UNCHANGED rowVars
  /\ MoveTo(h, "idle")
  /\ UNCHANGED <<seen, acquired, beatVars, adminVars>>

-----------------------------------------------------------------------------
(* The processes, the administrator and time                               *)

\* The process h runs in dies, and every handle in it.
Crash(h) ==
  LET in == {g \in Handles : Instance[g] = Instance[h]} IN
  /\ "crash" \in Faults /\ pc[h] # "dead" /\ crashes < MaxCrashes
  /\ pc' = [g \in Handles |-> IF g \in in THEN "dead" ELSE pc[g]]
  /\ timer' = [g \in Handles |-> IF g \in in THEN 0 ELSE timer[g]]
  /\ seen' = [g \in Handles |-> IF g \in in THEN 0 ELSE seen[g]]
  /\ acquired' = [g \in Handles |-> g \notin in /\ acquired[g]]
  /\ renewal' = [g \in Handles |-> IF g \in in THEN "off" ELSE renewal[g]]
  /\ rtimer' = [g \in Handles |-> IF g \in in THEN 0 ELSE rtimer[g]]
  /\ missed' = [g \in Handles |-> IF g \in in THEN 0 ELSE missed[g]]
  /\ strays' = [g \in Handles |-> IF g \in in THEN {} ELSE strays[g]]
  /\ crashes' = crashes + 1
  /\ UNCHANGED <<rowVars, admin>>

\* It comes back under the same hostname and pid, as a container does.
Restart(h) ==
  /\ "restart" \in Faults
  /\ pc[h] = "dead"
  /\ MoveTo(h, "idle")
  /\ UNCHANGED <<rowVars, seen, acquired, beatVars, adminVars>>

\* force_release_lock: the row is read, then deleted by name.
ForceLook ==
  /\ "force" \in Faults
  /\ admin = "idle" /\ owner # NoRow
  /\ admin' = "found"
  /\ UNCHANGED <<rowVars, pc, timer, seen, acquired, beatVars, crashes>>

ForceDelete ==
  /\ admin = "found"
  /\ admin' = "idle" /\ owner' = NoRow /\ age' = 0
  /\ UNCHANGED <<pc, timer, seen, acquired, beatVars, crashes>>

\* No live coroutine, renewal or thread is later than Latency.
Prompt ==
  \A h \in Handles :
    /\ pc[h] \in Awaiting => timer[h] < Latency
    /\ renewal[h] = "asleep" => rtimer[h] < Beat + Latency
    /\ renewal[h] = "moving" => rtimer[h] < Latency
    /\ \A a \in strays[h] : a < Latency

Tick ==
  /\ Prompt
  /\ age' = IF owner = NoRow THEN age ELSE Older(age)
  /\ timer' = [h \in Handles |-> IF pc[h] \in Awaiting THEN timer[h] + 1
                                                       ELSE timer[h]]
  /\ seen' = [h \in Handles |-> IF pc[h] = "decide" THEN Older(seen[h])
                                                    ELSE seen[h]]
  /\ rtimer' = [h \in Handles |-> IF renewal[h] = "off" THEN rtimer[h]
                                                        ELSE rtimer[h] + 1]
  /\ strays' = [h \in Handles |-> {a + 1 : a \in strays[h]}]
  /\ UNCHANGED <<owner, pc, acquired, renewal, missed, adminVars>>

\* What a live handle's coroutine does next, its work and its faults aside.
Proceed(h) ==
  \/ Begin(h) \/ Cleanup(h) \/ Stamp(h) \/ InsertRow(h) \/ InsertConflict(h)
  \/ Lookup(h) \/ Decide(h) \/ Takeover(h) \/ Release(h)

Beats(h) == Wake(h) \/ Renew(h)

Fault(h) ==
  \/ AcquireError(h) \/ RenewError(h) \/ ReleaseError(h) \/ Abandon(h)
  \/ Crash(h) \/ Restart(h)

Next ==
  \/ \E h \in Handles :
       Proceed(h) \/ Beats(h) \/ Finish(h) \/ Stray(h) \/ Fault(h)
  \/ ForceLook \/ ForceDelete
  \/ Tick

Spec == Init /\ [][Next]_vars

\* The loops run for ever, statements and sleeps end, and time passes.  Work
\* need never finish, a crashed process need never return.
Fairness ==
  /\ \A h \in Handles :
       WF_vars(Proceed(h)) /\ WF_vars(Beats(h)) /\ WF_vars(Stray(h))
  /\ WF_vars(Tick)

FairSpec == Spec /\ Fairness

-----------------------------------------------------------------------------
(* Properties                                                              *)

Working(h) == pc[h] = "working"

\* Every variable stays in its range; the renewal task runs exactly while its
\* holder works.
TypeOK ==
  /\ owner \in Handles \cup {NoRow}
  /\ age \in 0..AgeCap
  /\ pc \in [Handles -> PCs]
  /\ timer \in [Handles -> 0..Latency]
  /\ seen \in [Handles -> 0..AgeCap]
  /\ acquired \in [Handles -> BOOLEAN]
  /\ renewal \in [Handles -> {"off", "asleep", "moving"}]
  /\ rtimer \in [Handles -> 0..(Beat + Latency)]
  /\ missed \in [Handles -> 0..MissBudget]
  /\ strays \in [Handles -> SUBSET (0..Latency)]
  /\ admin \in {"idle", "found"}
  /\ crashes \in 0..MaxCrashes

\* The work a lock protects runs in one place: no two handles, of one replica
\* or of two, are inside `async with distributed_lock(name)` together.
MutualExclusion ==
  \A g, h \in Handles : Working(g) /\ Working(h) => g = h

\* A holder at work has its row, and the row is never so old that the stale
\* sweep or _try_acquire_existing would find it abandoned.
LiveRowNeverLooksAbandoned ==
  \A h \in Handles :
    Working(h) => owner = h /\ age <= MaxLockTime

\* "only a holder that stopped saying it is taken over": the takeover's DELETE
\* never removes the row of a holder that works and whose row is fresh.
OnlyASilentHolderIsTakenOver ==
  [][\A g, h \in Handles :
       pc[g] = "takeover" /\ pc'[g] = "again" /\ owner = h /\ Working(h)
         => age > MaxLockTime]_vars

\* Lost, and finishing late: a holder whose row was taken releases without
\* touching the row of whoever holds the lock now (replicas, not one process).
FinishingLeavesTheNewHolder ==
  [][\A h \in Handles :
       pc[h] = "releasing" /\ pc'[h] = "idle" /\ owner # h /\ owner # NoRow
         => owner' = owner /\ age' = age]_vars

\* A row nobody is behind -- its holder crashed, was cancelled while it was
\* inserted, or failed to release it -- is cleared, as long as some live
\* handle is there to contend for the lock.
Orphan == owner # NoRow /\ pc[owner] \notin {"working", "releasing"}
AllBusyOrDead == \A h \in Handles : pc[h] \in {"working", "dead"}
OrphanIsCleared == Orphan ~> (~Orphan \/ AllBusyOrDead)

\* A holder whose row is gone gets to know it, although its work goes on.
Lost(h) == Working(h) /\ acquired[h] /\ owner # h
LostHolderLearns == \A h \in Handles : Lost(h) ~> ~Lost(h)

\* The lock as its callers see it: while replicas are prompt, it is a mutex.
ABS == INSTANCE Mutex WITH Callers <- Handles,
                           inside <- {h \in Handles : Working(h)}
ImplementsMutex == ABS!Spec

-----------------------------------------------------------------------------
(* The inductive invariant behind MutualExclusion                          *)

\* The replicas neither die nor lose a statement of release(), and what
\* MissBudget failed renewals, late wake-ups and slow statements add up to
\* stays within MaxLockTime.
Period == Beat + 2 * Latency
Drift(m) == m * Period
PromptReplicas ==
  /\ Faults \subseteq {"acquire_error", "renew_error"}
  /\ Drift(MissBudget + 1) + 3 * Latency <= MaxLockTime

Holds(h) == pc[h] \in {"working", "releasing"}

\* The renewal task runs exactly while the work does, and rests in zeros.
RenewalFollowsWork ==
  \A h \in Handles :
    /\ renewal[h] # "off" <=> Working(h)
    /\ renewal[h] = "off" => rtimer[h] = 0 /\ missed[h] = 0
    /\ renewal[h] = "moving" => rtimer[h] <= Latency

\* The row stands for its holder and the holder for its row.
RowIsHolders ==
  /\ owner # NoRow => Holds(owner)
  /\ \A h \in Handles : Holds(h) => owner = h /\ acquired[h]

\* How old the row can be at each point of the holder's life.
RowIsFresh ==
  \A h \in Handles :
    /\ renewal[h] = "asleep" => age <= Drift(missed[h]) + Latency + rtimer[h]
    /\ renewal[h] = "moving" =>
         age <= Drift(missed[h]) + Latency + Beat + Latency + rtimer[h]
    /\ pc[h] = "releasing" => age <= Drift(MissBudget + 1) + Latency + timer[h]

\* Nobody is on its way to a takeover.
NoTakeover ==
  /\ admin = "idle"
  /\ \A h \in Handles :
       /\ pc[h] # "takeover"
       /\ pc[h] = "decide" =>
            seen[h] <= Drift(MissBudget + 1) + 2 * Latency + timer[h]

IInv ==
  /\ TypeOK /\ RenewalFollowsWork /\ RowIsHolders /\ RowIsFresh /\ NoTakeover
=============================================================================
