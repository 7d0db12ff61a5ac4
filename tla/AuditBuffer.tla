----------------------------- MODULE AuditBuffer -----------------------------
(***************************************************************************)
(* The audit of incoming requests, buffered in memory and flushed by size, *)
(* by age and at shutdown:                                                 *)
(* src/packages/keepup-audit/keepup_audit/audit.py.                        *)
(*                                                                         *)
(* One process.  The buffer's lock is never held across an await, so the   *)
(* start and the end of a request are one step each, and so is the choice  *)
(* of the rows of a flush.  The write of a flush runs in a thread, under   *)
(* the flush lock; requests start and end meanwhile.                       *)
(***************************************************************************)
EXTENDS Integers, FiniteSets

CONSTANTS
  Requests,    \* the calls that are recorded
  MaxSize,     \* BUFFER_MAX_SIZE
  HardLimit,   \* BUFFER_HARD_LIMIT
  MaxFailures  \* bound: writes that fail

ASSUME RequestsAssumption == IsFiniteSet(Requests)
ASSUME LimitsAssumption ==
  MaxSize \in Nat \ {0} /\ HardLimit \in Nat \ {0} /\ MaxFailures \in Nat

VARIABLES
  phase,    \* how far each request is
  stale,    \* it has been running for IN_FLIGHT_STALE_SECONDS
  entry,    \* what its dict says: whether it ended, whether with a status
  buffer,   \* the keys of incoming_requests_buffer
  before,   \* the order of the buffer, and of the chosen: pairs, older first
  chosen,   \* what the flush under way has taken out
  astray,   \* what a cancelled flush had taken out: its thread still runs
  holder,   \* who holds _flush_lock
  nudges,   \* flush tasks that a full buffer has started and that wait
  timer,    \* background_buffer_flusher
  paused,   \* time.monotonic() < _flush_paused_until
  row,      \* incoming_requests: no row, one without outcome, one with it
  evicted,  \* history: what went past the hard limit
  dropped,  \* dropped_requests
  stage,    \* "up", "stopping" (cleanup waits for the last flush) or "ended"
  failures

bufferVars  == <<entry, buffer, before>>
flushVars   == <<chosen, astray, holder, timer, paused, row, failures>>
vars == <<phase, stale, entry, buffer, before, chosen, astray, holder, nudges,
          timer, paused, row, evicted, dropped, stage, failures>>

Fresh == [ended |-> FALSE, status |-> FALSE]

Init ==
  /\ phase = [r \in Requests |-> "new"]
  /\ stale = [r \in Requests |-> FALSE]
  /\ entry = [r \in Requests |-> Fresh]
  /\ buffer = {} /\ before = {} /\ chosen = {} /\ astray = {}
  /\ holder = "nobody" /\ nudges = 0 /\ timer = "asleep" /\ paused = FALSE
  /\ row = [r \in Requests |-> "none"]
  /\ evicted = {} /\ dropped = 0 /\ stage = "up" /\ failures = 0

-----------------------------------------------------------------------------
(* The requests: start_request(), end_request(), log_api_request()         *)

\* The pairs of an order that stay together.
Within(pairs, S) == {p \in pairs : p[1] \in S /\ p[2] \in S}

\* How many requests are over the hard limit.
Excess(S) == IF Cardinality(S) > HardLimit THEN Cardinality(S) - HardLimit ELSE 0

\* The first of S in the order: as many as there are in out.
Oldest(out, S, order) ==
  out \subseteq S /\ \A o \in out, k \in S \ out : <<k, o>> \notin order

\* start_request().  The evicted are the oldest by insertion; a buffer that is
\* full by then starts a flush task, unless one holds the lock or has failed.
Start(r) ==
  LET entered == buffer \cup {r}
      order   == before \cup (buffer \X {r}) IN
  /\ stage = "up" /\ phase[r] = "new"
  /\ phase' = [phase EXCEPT ![r] = "running"]
  /\ \E out \in SUBSET entered :
       /\ Oldest(out, entered, order) /\ Cardinality(out) = Excess(entered)
       /\ buffer' = entered \ out
       /\ evicted' = evicted \cup out
       /\ dropped' = dropped + Cardinality(out)
  /\ before' = Within(order, buffer') \cup Within(before, chosen)
  /\ nudges' = IF Cardinality(buffer') >= MaxSize /\ holder = "nobody" /\ ~paused
                 THEN nudges + 1 ELSE nudges
  /\ UNCHANGED <<stale, entry, flushVars, stage>>

\* Mutant: the second end writes over what the first one recorded.
Ends_Overwrites(r, status) ==
  entry' = IF r \in buffer THEN [entry EXCEPT ![r] = [ended |-> TRUE, status |-> status]]
                           ELSE entry

\* end_request(): what it is told is added, nothing is taken back.  A request
\* that is not in the buffer is logged as not found.
Ends(r, status) ==
  entry' = IF r \in buffer
             THEN [entry EXCEPT ![r] = [ended |-> TRUE, status |-> @.status \/ status]]
             ELSE entry

Moves(r, from, to) == phase[r] = from /\ phase' = [phase EXCEPT ![r] = to]

\* The route answers, or raises: end_call() reports the status either way.
Answer(r) ==
  /\ \E to \in {"answered", "raised"} : Moves(r, "running", to)
  /\ Ends(r, TRUE)
  /\ UNCHANGED <<stale, buffer, before, nudges, flushVars, evicted, dropped, stage>>

\* The route is cancelled: only log_api_request's finally hears of it.
Cancel(r) ==
  /\ Moves(r, "running", "cancelled")
  /\ Ends(r, FALSE)
  /\ UNCHANGED <<stale, buffer, before, nudges, flushVars, evicted, dropped, stage>>

\* What the route raised passes log_api_request's except.
Caught(r) ==
  /\ Moves(r, "raised", "answered")
  /\ Ends(r, FALSE)
  /\ UNCHANGED <<stale, buffer, before, nudges, flushVars, evicted, dropped, stage>>

\* And then its finally.
Leave(r) ==
  /\ Moves(r, "answered", "done")
  /\ Ends(r, FALSE)
  /\ UNCHANGED <<stale, buffer, before, nudges, flushVars, evicted, dropped, stage>>

-----------------------------------------------------------------------------
(* The flush: flush_buffer() and _flush_buffer()                           *)

\* Mutant: it waits for what will never finish.
Ready_Finished(r) == entry[r].ended

Ready(r) == entry[r].ended \/ stale[r]

\* Under both locks: the rows are picked and taken out.  With none to write the
\* flush is over at once.
Take(who, rows) ==
  /\ holder = "nobody"
  /\ buffer' = buffer \ rows
  /\ chosen' = rows
  /\ before' = Within(before, buffer') \cup Within(before, rows)
  /\ holder' = IF rows = {} THEN "nobody" ELSE who

\* background_buffer_flusher(): its interval is over, and it may take the lock.
TimerDue ==
  /\ timer = "asleep"
  /\ timer' = "due"
  /\ UNCHANGED <<phase, stale, bufferVars, chosen, astray, holder, nudges, paused,
                 row, evicted, dropped, stage, failures>>

TimerFlush ==
  /\ timer = "due"
  /\ Take("timer", {r \in buffer : Ready(r)})
  /\ timer' = IF holder' = "timer" THEN "writing" ELSE "asleep"
  /\ UNCHANGED <<phase, stale, entry, astray, nudges, paused, row, evicted, dropped,
                 stage, failures>>

\* A task that a full buffer started.
NudgeFlush ==
  /\ nudges > 0 /\ stage # "ended"
  /\ nudges' = nudges - 1
  /\ Take("nudge", {r \in buffer : Ready(r)})
  /\ UNCHANGED <<phase, stale, entry, astray, timer, paused, row, evicted, dropped,
                 stage, failures>>

\* What the INSERT leaves: a row that is there already is not written again.
Inserted(rows) ==
  [r \in Requests |->
     IF r \in rows /\ row[r] = "none"
       THEN (IF entry[r].status THEN "outcome" ELSE "bare") ELSE row[r]]

\* The holder goes on: the timer sleeps, the process ends after the last flush.
Done ==
  /\ holder' = "nobody" /\ chosen' = {}
  /\ timer' = IF holder = "timer" THEN "asleep" ELSE timer
  /\ stage' = IF holder = "last" THEN "ended" ELSE stage

\* The transaction commits; what was dropped meanwhile is logged.
Write ==
  /\ holder # "nobody" /\ stage # "ended"
  /\ row' = Inserted(chosen)
  /\ dropped' = 0
  /\ before' = Within(before, buffer)
  /\ Done
  /\ UNCHANGED <<phase, stale, entry, buffer, astray, nudges, paused, evicted,
                 failures>>

\* setdefault() in the order they were chosen in, behind what came meanwhile.
PutBack ==
  /\ buffer' = buffer \cup chosen
  /\ before' = before \cup (buffer \X chosen)

\* It raises: nothing was committed, or the answer to the commit was lost.
WriteFails ==
  /\ holder # "nobody" /\ stage # "ended" /\ failures < MaxFailures
  /\ failures' = failures + 1
  /\ row' \in {row, Inserted(chosen)}
  /\ paused' = TRUE
  /\ PutBack
  /\ Done
  /\ UNCHANGED <<phase, stale, entry, astray, nudges, evicted, dropped>>

\* FLUSH_RETRY_PAUSE_SECONDS are over.
Unpause ==
  /\ paused /\ paused' = FALSE
  /\ UNCHANGED <<phase, stale, bufferVars, chosen, astray, holder, nudges, timer,
                 row, evicted, dropped, stage, failures>>

\* IN_FLIGHT_STALE_SECONDS since request_start_at.
GrowStale(r) ==
  /\ phase[r] # "new" /\ ~stale[r] /\ ~entry[r].ended
  /\ stale' = [stale EXCEPT ![r] = TRUE]
  /\ UNCHANGED <<phase, bufferVars, nudges, flushVars, evicted, dropped, stage>>

-----------------------------------------------------------------------------
(* The shutdown: AuditPlugin.cleanup()                                     *)

\* The flusher is cancelled, asleep, waiting for the lock, or at its write: then
\* the lock is free and its thread goes on with rows nobody waits for.
Cleanup ==
  /\ stage = "up" /\ stage' = "stopping"
  /\ timer' = "gone"
  /\ IF holder = "timer"
       THEN /\ holder' = "nobody" /\ chosen' = {}
            /\ astray' = chosen
            /\ before' = Within(before, buffer)
       ELSE UNCHANGED <<holder, chosen, astray, before>>
  /\ UNCHANGED <<phase, stale, entry, buffer, nudges, paused, row, evicted, dropped,
                 failures>>

\* The thread ends, one way or the other.
Astray ==
  /\ astray # {} /\ astray' = {}
  /\ \/ row' = Inserted(astray) /\ UNCHANGED failures
     \/ failures < MaxFailures /\ failures' = failures + 1 /\ UNCHANGED row
  /\ UNCHANGED <<phase, stale, bufferVars, chosen, holder, nudges, timer, paused,
                 evicted, dropped, stage>>

\* flush_buffer(include_in_flight=True).
LastFlush ==
  /\ stage = "stopping"
  /\ Take("last", buffer)
  /\ stage' = IF buffer = {} THEN "ended" ELSE stage
  /\ UNCHANGED <<phase, stale, entry, astray, nudges, timer, paused, row, evicted,
                 dropped, failures>>

Next ==
  \/ \E r \in Requests :
       \/ Start(r) \/ Answer(r) \/ Cancel(r) \/ Caught(r) \/ Leave(r)
       \/ GrowStale(r)
  \/ TimerDue \/ TimerFlush \/ NudgeFlush \/ Write \/ WriteFails \/ Unpause
  \/ Cleanup \/ Astray \/ LastFlush

Spec == Init /\ [][Next]_vars

\* The event loop runs what is ready, a sleep and a write end, and a flush lock
\* is handed to the task that waited longest.
Fairness ==
  /\ WF_vars(TimerDue) /\ WF_vars(TimerFlush) /\ WF_vars(NudgeFlush)
  /\ WF_vars(Write \/ WriteFails) /\ WF_vars(LastFlush) /\ WF_vars(Astray)

FairSpec == Spec /\ Fairness

-----------------------------------------------------------------------------
(* Properties                                                              *)

Started == {r \in Requests : phase[r] # "new"}
Reported == {r \in Requests : phase[r] \in {"answered", "raised", "done"}}

\* Every variable in its range; rows are out of the buffer exactly while a
\* flush holds the lock; an order is kept of what is in the buffer or chosen.
TypeOK ==
  /\ phase \in [Requests -> {"new", "running", "answered", "raised", "cancelled", "done"}]
  /\ stale \in [Requests -> BOOLEAN]
  /\ entry \in [Requests -> [ended : BOOLEAN, status : BOOLEAN]]
  /\ buffer \subseteq Requests /\ chosen \subseteq Requests /\ astray \subseteq Requests
  /\ before \subseteq (buffer \X buffer) \cup (chosen \X chosen)
  /\ holder \in {"nobody", "timer", "nudge", "last"}
  /\ chosen = {} <=> holder = "nobody"
  /\ nudges \in Nat
  /\ timer \in {"asleep", "due", "writing", "gone"}
  /\ paused \in BOOLEAN
  /\ row \in [Requests -> {"none", "bare", "outcome"}]
  /\ evicted \subseteq Requests /\ dropped \in Nat
  /\ stage \in {"up", "stopping", "ended"}
  /\ failures \in 0..MaxFailures

\* "A request still running stays in the buffer": whatever a route reports before
\* the process ends is in the row, however its ends and its flushes interleave,
\* and whichever write was repeated -- unless it had run for an hour.
AnsweredRowHasOutcome ==
  \A r \in Reported :
    row[r] # "none" /\ ~stale[r] /\ stage # "ended" => row[r] = "outcome"

\* A recorded request is in the buffer, under way, in the table, or counted as
\* dropped, through failing and half-failing writes and evictions; at shutdown
\* too, as long as no write fails.
Accounted(r) == r \in buffer \cup chosen \cup astray \cup evicted \/ row[r] # "none"
NothingIsLost == stage = "up" \/ failures = 0 => \A r \in Started : Accounted(r)

\* "At shutdown everything is written": when the last flush is over nothing is
\* left in the memory that the process is about to lose, unless a write failed.
LastFlushLeavesNothing ==
  stage = "ended" /\ failures = 0 => buffer = {} /\ chosen = {}

\* A request that finished, or that nobody will finish, does not stay in the
\* buffer: it is written, or dropped, or the process shuts down.
EveryRequestIsWritten ==
  \A r \in Requests :
    r \in buffer /\ (entry[r].ended \/ stale[r])
      ~> row[r] # "none" \/ r \in evicted \/ stage # "up"

-----------------------------------------------------------------------------
(* The inductive invariant behind AnsweredRowHasOutcome, NothingIsLost and *)
(* LastFlushLeavesNothing                                                  *)

\* A request that started is in one place; none is astray before the shutdown.
OnePlace ==
  /\ buffer \cup chosen \cup astray \cup evicted \subseteq Started
  /\ buffer \cap chosen = {} /\ buffer \cap astray = {} /\ chosen \cap astray = {}
  /\ evicted \cap (buffer \cup chosen \cup astray) = {}
  /\ stage = "up" => astray = {} /\ holder # "last"

\* A running request has not ended.
EndsFollowTheRoute ==
  \A r \in Requests : phase[r] \in {"new", "running"} => ~entry[r].ended

\* Only the last flush takes what is neither finished nor stale.
TakenIsReady ==
  \A r \in chosen \cup astray :
    entry[r].ended \/ stale[r] \/ (r \in chosen /\ holder = "last")

\* A request that reported while it was in the buffer has its status there; and
\* a row without outcome is one of a request that ended without.
StatusIsKept ==
  \A r \in Requests : ~stale[r] /\ stage # "ended" =>
    /\ r \in Reported /\ (r \in buffer \/ entry[r].ended) => entry[r].status
    /\ row[r] = "bare" => entry[r].ended /\ ~entry[r].status

\* Once the shutdown began the flusher is gone, and the last flush has all that was left.
ShutdownIsOrderly ==
  /\ stage # "up" => timer = "gone" /\ holder # "timer"
  /\ holder = "last" => buffer = {} /\ stage = "stopping"
  /\ LastFlushLeavesNothing

IInv ==
  /\ TypeOK /\ OnePlace /\ EndsFollowTheRoute /\ TakenIsReady /\ StatusIsKept
  /\ AnsweredRowHasOutcome /\ NothingIsLost /\ ShutdownIsOrderly

-----------------------------------------------------------------------------
(* The abstract specification it implements                                *)

\* What the memory of a process that has not ended holds, or a thread of it.
InMemory == astray \cup IF stage = "ended" THEN {} ELSE buffer \cup chosen

\* What the routes have told so far.
Tells ==
  [r \in Requests |->
     CASE r \in Reported -> "status"
       [] phase[r] = "cancelled" -> "end"
       [] phase[r] \in {"new", "running"} -> "nothing"]

Fates ==
  [r \in Requests |->
     IF row[r] # "none" THEN row[r]
     ELSE IF phase[r] = "new" THEN "none"
     ELSE IF r \in evicted THEN "dropped"
     ELSE IF r \in InMemory THEN "kept" ELSE "lost"]

AWriteFailed == failures > 0

Records == INSTANCE CallRecords
             WITH Calls <- Requests, told <- Tells, old <- stale, record <- Fates,
                  failed <- AWriteFailed, stage <- stage

\* The record of a call has one fate: a row is never changed, not by the repetition of a
\* write that half failed either, what was dropped is never written, nothing but the
\* end of the process loses it, and a row has the status exactly if the call has told it,
\* but for calls that ran for an hour and those that are cut off by the shutdown.
EveryRecordHasOneFate == Records!Spec
=============================================================================
