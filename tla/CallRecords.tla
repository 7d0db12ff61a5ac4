----------------------------- MODULE CallRecords -----------------------------
(***************************************************************************)
(* What the audit promises of a call it records, however it keeps the      *)
(* record until it is written.  The record is kept, and then one of three  *)
(* things happens to it, once: it becomes a row that never changes, it is  *)
(* dropped to make room for a newer one, or the end of the process loses   *)
(* it -- this only when a write has failed.  A row tells the outcome of    *)
(* its call if and only if the call has told it; unless the call had been  *)
(* running for too long, or the process was at its end, the row waits.     *)
(* AuditBuffer is to implement this; AuditBufferProofs shows that it does. *)
(***************************************************************************)
CONSTANT Calls

VARIABLES
  told,    \* what the call has told of itself: "nothing", its "status", its "end" alone
  old,     \* it has been running for too long to wait for
  record,  \* "none", "kept", a row "bare" or with "outcome", "dropped" or "lost"
  failed,  \* a write has failed
  stage    \* "up", "stopping" or "ended"

vars == <<told, old, record, failed, stage>>

Init ==
  /\ told = [c \in Calls |-> "nothing"] /\ old = [c \in Calls |-> FALSE]
  /\ record = [c \in Calls |-> "none"]
  /\ failed = FALSE /\ stage = "up"

Kept == {c \in Calls : record[c] = "kept"}

\* What is kept of the calls of S becomes what fate says; the rest stays what it is.
Becomes(S, fate) ==
  /\ S \subseteq Kept
  /\ record' = [c \in Calls |-> IF c \in S THEN fate[c] ELSE record[c]]

\* A call begins.  Records may have to go for it, its own among them.
Begin(c) ==
  /\ stage = "up" /\ record[c] = "none"
  /\ \E out \in SUBSET (Kept \cup {c}) :
       record' = [d \in Calls |-> IF d \in out THEN "dropped" ELSE IF d = c THEN "kept" ELSE record[d]]
  /\ UNCHANGED <<told, old, failed, stage>>

Tell(c, what) ==
  /\ told[c] = "nothing" /\ record[c] # "none"
  /\ told' = [told EXCEPT ![c] = what]
  /\ UNCHANGED <<old, record, failed, stage>>

GrowOld(c) ==
  /\ record[c] # "none" /\ old' = [old EXCEPT ![c] = TRUE]
  /\ UNCHANGED <<told, record, failed, stage>>

Stop == stage = "up" /\ stage' = "stopping" /\ UNCHANGED <<told, old, record, failed>>

\* A write may be the last.
Goes == stage' = stage \/ (stage = "stopping" /\ stage' = "ended")

\* The row that a call may get: what it has told, and nothing before it has.
RowOf(c) ==
  {to \in {"bare", "outcome"} :
     /\ to = "outcome" => told[c] = "status"
     /\ to = "bare" => told[c] = "end" \/ old[c] \/ stage' = "ended"}

\* Some are written; the write may have failed as well, when its answer was lost.
Write(S) ==
  /\ Goes /\ (failed' = TRUE \/ UNCHANGED failed)
  /\ \E rows \in [S -> {"bare", "outcome"}] :
       /\ \A c \in S : rows[c] \in RowOf(c)
       /\ Becomes(S, rows)
  /\ UNCHANGED <<told, old>>

\* At the end, a write that fails is not repeated.
Lose(S) ==
  /\ stage # "up" /\ Goes /\ failed' = TRUE
  /\ Becomes(S, [c \in S |-> "lost"])
  /\ UNCHANGED <<told, old>>

Next ==
  \/ \E c \in Calls : Begin(c) \/ Tell(c, "status") \/ Tell(c, "end") \/ GrowOld(c)
  \/ \E S \in SUBSET Calls : Write(S) \/ Lose(S)
  \/ Stop

Spec == Init /\ [][Next]_vars
=============================================================================
