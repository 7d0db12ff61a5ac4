------------------------------ MODULE MCTrail ------------------------------
(* What a process remembers of its calls until it is written: the buffer of  *)
(* the request audit (AuditBuffer) and the queue of the records it ships     *)
(* (LogShipping).  The two share no variable; a behaviour is one of one of   *)
(* them, the other at rest: `which' says whose.                              *)
(* Two requests are enough for a flush of one to overlap the start, the end  *)
(* and the eviction of the other.                                            *)
EXTENDS AuditBuffer

CONSTANTS a, b
MCRequests == {a, b}

VARIABLES
  which,
  queue, emitted, unreported, running, aside, consecutive, at, batch, attempts,
  received, gone, reported, overlapped, lost, backoffs
shippingVars == <<queue, emitted, unreported, running, aside, consecutive, at, batch, attempts,
                  received, gone, reported, overlapped, lost, backoffs>>

CONSTANTS MaxQueued, BatchSize, Threshold, MaxAttempts, MaxRecords, MaxLost, MaxBackoffs
Shipping == INSTANCE LogShipping
              WITH dropped <- unreported, failures <- lost, MaxFailures <- MaxLost

ASSUME ShippingLimitsAssumption == Shipping!ShippingAssumption

TrailInit == which \in {"audit", "shipping"} /\ Init /\ Shipping!Init

TrailNext ==
  \/ which = "audit" /\ Next /\ UNCHANGED <<which, shippingVars>>
  \/ which = "shipping" /\ Shipping!Next /\ UNCHANGED <<which, vars>>

\* The fairness of AuditBuffer!Fairness and of LogShipping!FairSpec
TrailFairness ==
  /\ WF_vars(which = "audit" /\ TimerDue)
  /\ WF_vars(which = "audit" /\ TimerFlush)
  /\ WF_vars(which = "audit" /\ NudgeFlush)
  /\ WF_vars(which = "audit" /\ (Write \/ WriteFails))
  /\ WF_vars(which = "audit" /\ LastFlush)
  /\ WF_vars(which = "audit" /\ Astray)
  /\ \A f \in Shipping!Flushers : WF_shippingVars(which = "shipping" /\ Shipping!Proceed(f))

TrailSpec == TrailInit /\ [][TrailNext]_<<which, vars, shippingVars>> /\ TrailFairness

\* Nothing that a process remembers is lost without a count: no request of the audit, at
\* the shutdown neither as long as no write fails, and no record on its way to the collector;
\* and none of these overtakes another, unless two flushes overlap.
NothingGoesAstray ==
  /\ NothingIsLost /\ LastFlushLeavesNothing
  /\ Shipping!EveryRecordIsAccountedFor /\ Shipping!OrderIsPreserved
FlushesEnd == Shipping!FlushesEnd
=============================================================================
