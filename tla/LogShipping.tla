---------------------------- MODULE LogShipping ----------------------------
(***************************************************************************)
(* RemoteLoggerWrapper (keepup_log_shipping/log_shipping.py): the records  *)
(* that wait for the collector, the thread that ships them, and the        *)
(* flushes of the plugin's cleanup and of the end of the process, which    *)
(* may overlap it.  Taking a batch and putting it back hold the lock; the  *)
(* POST between the two does not.                                          *)
(***************************************************************************)
EXTENDS Integers, Sequences, FiniteSets, SequencesExt

CONSTANTS
  MaxQueued,    \* REMOTE_MAX_QUEUED
  BatchSize,    \* REMOTE_BATCH_SIZE
  Threshold,    \* max_consecutive_failures
  MaxAttempts,  \* max_attempts of force_flush
  MaxRecords,   \* bound: records emitted
  MaxFailures,  \* bound: deliveries that fail
  MaxBackoffs   \* bound: how often the collector is put aside and asked again

ShippingAssumption ==
  /\ {MaxQueued, BatchSize, Threshold, MaxAttempts} \subseteq Nat \ {0}
  /\ {MaxRecords, MaxFailures, MaxBackoffs} \subseteq Nat

\* The shipping thread; Log_shippingPlugin.cleanup; atexit and RemoteLogHandler.close.
Flushers == {"worker", "cleanup", "exit"}

VARIABLES
  queue,      \* log_queue: the records by the order they were emitted in
  emitted,
  dropped,    \* since the last delivery
  running,
  aside,      \* not remote_available, and before backoff_until
  consecutive,\* consecutive_failures
  at,         \* where each flusher is
  batch,      \* logs_to_send
  attempts,   \* flush_attempts
  received,   \* history: what the collector has
  gone,       \* history: the records that were dropped
  reported,   \* history: how many of these a warning has told
  overlapped,   \* history: two batches have been under way at once
  failures, backoffs

vars == <<queue, emitted, dropped, running, aside, consecutive, at, batch, attempts,
          received, gone, reported, overlapped, failures, backoffs>>
history == <<received, reported, failures, backoffs>>

Init ==
  /\ queue = << >> /\ emitted = 0 /\ dropped = 0
  /\ running = TRUE /\ aside = FALSE /\ consecutive = 0
  /\ at = [f \in Flushers |-> IF f = "worker" THEN "waits" ELSE "off"]
  /\ batch = [f \in Flushers |-> << >>]
  /\ attempts = [f \in Flushers |-> 0]
  /\ received = {} /\ gone = {} /\ reported = 0 /\ overlapped = FALSE
  /\ failures = 0 /\ backoffs = 0

InFlight == UNION {ToSet(batch[f]) : f \in Flushers}

-----------------------------------------------------------------------------

\* Mutant: the new record is the one that is dropped, and nobody counts it.
Emit_DropsTheNewest ==
  /\ emitted < MaxRecords
  /\ emitted' = emitted + 1
  /\ IF Len(queue) < MaxQueued
     THEN queue' = Append(queue, emitted + 1) /\ UNCHANGED <<dropped, gone>>
     ELSE gone' = gone \cup {emitted + 1} /\ UNCHANGED <<queue, dropped>>
  /\ UNCHANGED <<running, aside, consecutive, at, batch, attempts, overlapped, history>>

\* emit: the oldest record makes room.
Emit ==
  /\ emitted < MaxRecords
  /\ emitted' = emitted + 1
  /\ IF Len(queue) < MaxQueued
     THEN queue' = Append(queue, emitted + 1) /\ UNCHANGED <<dropped, gone>>
     ELSE /\ queue' = Append(Tail(queue), emitted + 1)
          /\ dropped' = dropped + 1
          /\ gone' = gone \cup {Head(queue)}
  /\ UNCHANGED <<running, aside, consecutive, at, batch, attempts, overlapped, history>>

\* _flush_worker wakes, by its interval or a full batch, as long as it runs.
Wake ==
  /\ at["worker"] = "waits" /\ running
  /\ at' = [at EXCEPT !["worker"] = "flush"]
  /\ UNCHANGED <<queue, emitted, dropped, running, aside, consecutive, batch, attempts, gone, overlapped, history>>

\* force_flush; the end of the process comes after the cleanup.
ForceFlush(f) ==
  /\ f # "worker" /\ at[f] = "off"
  /\ f = "exit" => at["cleanup"] \in {"off", "done"}
  /\ f = "cleanup" => at["exit"] = "off"
  /\ running' = FALSE
  /\ at' = [at EXCEPT ![f] = "again"]
  /\ UNCHANGED <<queue, emitted, dropped, aside, consecutive, batch, attempts, gone, overlapped, history>>

\* Its loop: as long as something waits, and three times at most.
Again(f) ==
  /\ at[f] = "again"
  /\ at' = [at EXCEPT ![f] = IF queue # << >> /\ attempts[f] < MaxAttempts THEN "flush" ELSE "done"]
  /\ UNCHANGED <<queue, emitted, dropped, running, aside, consecutive, batch, attempts, gone, overlapped, history>>

\* What flush returns to; a call of force_flush counts it.
Returns(f) ==
  /\ at' = [at EXCEPT ![f] = IF f # "worker" THEN "again" ELSE IF running THEN "waits" ELSE "done"]
  /\ attempts' = IF f = "worker" THEN attempts ELSE [attempts EXCEPT ![f] = @ + 1]

\* Mutant: a flush that finds the collector aside is not counted as an attempt.
Take_Uncounted(f) ==
  /\ at[f] = "flush"
  /\ LET n == IF Len(queue) < BatchSize THEN Len(queue) ELSE BatchSize IN
       IF aside \/ n = 0
       THEN /\ at' = [at EXCEPT ![f] = IF f # "worker" THEN "again" ELSE IF running THEN "waits" ELSE "done"]
            /\ UNCHANGED <<queue, batch, overlapped, attempts>>
       ELSE /\ batch' = [batch EXCEPT ![f] = SubSeq(queue, 1, n)]
            /\ queue' = SubSeq(queue, n + 1, Len(queue))
            /\ at' = [at EXCEPT ![f] = "post"]
            /\ overlapped' = (overlapped \/ InFlight # {})
            /\ UNCHANGED attempts
  /\ UNCHANGED <<emitted, dropped, running, aside, consecutive, gone, history>>

\* flush, up to the POST: nothing while the collector is aside or nothing waits.
Take(f) ==
  /\ at[f] = "flush"
  /\ LET n == IF Len(queue) < BatchSize THEN Len(queue) ELSE BatchSize IN
       IF aside \/ n = 0
       THEN Returns(f) /\ UNCHANGED <<queue, batch, overlapped>>
       ELSE /\ batch' = [batch EXCEPT ![f] = SubSeq(queue, 1, n)]
            /\ queue' = SubSeq(queue, n + 1, Len(queue))
            /\ at' = [at EXCEPT ![f] = "post"]
            /\ overlapped' = (overlapped \/ InFlight # {})
            /\ UNCHANGED attempts
  /\ UNCHANGED <<emitted, dropped, running, aside, consecutive, gone, history>>

Deliver(f) ==
  /\ at[f] = "post"
  /\ received' = received \cup ToSet(batch[f])
  /\ batch' = [batch EXCEPT ![f] = << >>]
  /\ consecutive' = 0 /\ aside' = FALSE
  /\ reported' = reported + dropped /\ dropped' = 0
  /\ Returns(f)
  /\ UNCHANGED <<queue, emitted, running, gone, overlapped, failures, backoffs>>

\* The POST fails: _handle_failure.  After a timeout the collector may have it.
Fail(f) ==
  /\ at[f] = "post" /\ failures < MaxFailures
  /\ failures' = failures + 1
  /\ received' \in {received, received \cup ToSet(batch[f])}
  /\ consecutive' = consecutive + 1
  /\ aside' = (aside \/ consecutive + 1 >= Threshold)
  /\ at' = [at EXCEPT ![f] = "return"]
  /\ UNCHANGED <<queue, emitted, dropped, running, batch, attempts, gone, reported, overlapped, backoffs>>

\* _return_logs_to_queue: to the front; what does not fit is the oldest.
PutBack(f) ==
  /\ at[f] = "return"
  /\ LET waiting == batch[f] \o queue
         overflow == IF Len(waiting) > MaxQueued THEN Len(waiting) - MaxQueued ELSE 0 IN
       /\ queue' = SubSeq(waiting, overflow + 1, Len(waiting))
       /\ dropped' = dropped + overflow
       /\ gone' = gone \cup ToSet(SubSeq(waiting, 1, overflow))
  /\ batch' = [batch EXCEPT ![f] = << >>]
  /\ Returns(f)
  /\ UNCHANGED <<emitted, running, aside, consecutive, overlapped, history>>

\* backoff_until passes.
AskAgain ==
  /\ aside /\ backoffs < MaxBackoffs
  /\ aside' = FALSE /\ backoffs' = backoffs + 1
  /\ UNCHANGED <<queue, emitted, dropped, running, consecutive, at, batch, attempts,
                 received, gone, reported, overlapped, failures>>

Proceed(f) == Again(f) \/ Take(f) \/ Deliver(f) \/ Fail(f) \/ PutBack(f)

Next ==
  \/ Emit \/ Wake \/ AskAgain
  \/ \E f \in Flushers : ForceFlush(f) \/ Proceed(f)

\* The threads run, and a POST ends by its timeout.
Spec == Init /\ [][Next]_vars
FairSpec == Spec /\ (\A f \in Flushers : WF_vars(Proceed(f)))

-----------------------------------------------------------------------------

\* Whatever fails and overlaps: a record waits, is under way, has arrived, or was
\* dropped and is in the number that the next delivery reports (emit,
\* _return_logs_to_queue, keepup-68).
EveryRecordIsAccountedFor ==
  /\ 1 .. emitted \subseteq ToSet(queue) \cup InFlight \cup received \cup gone
  /\ Cardinality(gone) = dropped + reported
  /\ \A f, g \in Flushers : f # g => ToSet(batch[f]) \cap ToSet(batch[g]) = {}

\* Records keep the order they were emitted in, also when a delivery fails and is put back:
\* what is under way is older than what waits, and what has arrived for good is older than
\* both ("Returned to the front, so ordering is preserved": _return_logs_to_queue).  Not so
\* once the flushes of two threads have overlapped.
Rising(s) == \A i, j \in DOMAIN s : i < j => s[i] < s[j]
Unsent == ToSet(queue) \cup InFlight
OrderIsPreserved ==
  ~overlapped =>
    /\ Rising(queue) /\ \A f \in Flushers : Rising(batch[f])
    /\ \A x \in InFlight, y \in ToSet(queue) : x < y
    /\ \A x \in received \ (gone \cup Unsent), y \in Unsent : x < y

\* The process always gets to its end: no failure and no collector holds up a
\* flush for ever (force_flush).
FlushesEnd == \A f \in Flushers \ {"worker"} : (at[f] = "again") ~> (at[f] = "done")

=============================================================================
