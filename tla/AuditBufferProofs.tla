--------------------------- MODULE AuditBufferProofs ---------------------------
(***************************************************************************)
(* Theorems about AuditBuffer, for every finite set of requests, every     *)
(* limit and any number of failing writes; and about LogShipping, for any  *)
(* queue, batch and number of records, in the composition MCTrail.         *)
(***************************************************************************)
EXTENDS MCTrail, FiniteSetTheorems, SequenceTheorems, TLAPS

-----------------------------------------------------------------------------
(* Type correctness                                                        *)

\* What is within a set is a relation on that set.
LEMMA WithinTyped ==
  ASSUME NEW pairs, NEW S, NEW T, pairs \subseteq T \X T
  PROVE  Within(pairs, S) \subseteq S \X S
<1> SUFFICES ASSUME NEW p \in Within(pairs, S) PROVE p \in S \X S
  OBVIOUS
<1>1. p \in pairs /\ p[1] \in S /\ p[2] \in S
  BY DEF Within
<1>2. PICK x \in T, y \in T : p = <<x, y>>
  BY <1>1
<1>3. x \in S /\ y \in S
  BY <1>1, <1>2, Zenon
<1> QED
  BY <1>2, <1>3

LEMMA InitTyped == Init => TypeOK
<1> SUFFICES ASSUME Init PROVE TypeOK
  OBVIOUS
<1>1. entry \in [Requests -> [ended : BOOLEAN, status : BOOLEAN]]
  BY DEF Init, Fresh
<1>2. before \subseteq (buffer \X buffer) \cup (chosen \X chosen)
  BY DEF Init
<1>3. phase \in [Requests -> {"new", "running", "answered", "raised", "cancelled", "done"}]
      /\ row \in [Requests -> {"none", "bare", "outcome"}]
  BY DEF Init
<1>4. failures \in 0..MaxFailures /\ nudges \in Nat /\ dropped \in Nat
  BY LimitsAssumption DEF Init
<1> HIDE LimitsAssumption
<1> QED
  BY <1>1, <1>2, <1>3, <1>4, Zenon DEF Init, TypeOK

\* end_request() leaves an entry an entry.
LEMMA EndsTyped ==
  ASSUME TypeOK, NEW r \in Requests, NEW status \in BOOLEAN, Ends(r, status)
  PROVE  entry' \in [Requests -> [ended : BOOLEAN, status : BOOLEAN]]
  BY DEF TypeOK, Ends

LEMMA StepTyped == TypeOK /\ [Next]_vars => TypeOK'
<1> SUFFICES ASSUME TypeOK, [Next]_vars PROVE TypeOK'
  OBVIOUS
<1> USE RequestsAssumption, LimitsAssumption
<1> USE DEF TypeOK, bufferVars, flushVars
<1>1. ASSUME NEW r \in Requests, Start(r) PROVE TypeOK'
<2> DEFINE entered == buffer \cup {r}
           order   == before \cup (buffer \X {r})
<2>1. PICK out \in SUBSET entered :
        /\ buffer' = entered \ out /\ evicted' = evicted \cup out
        /\ dropped' = dropped + Cardinality(out)
  BY <1>1 DEF Start
<2>2. buffer' \subseteq Requests /\ evicted' \subseteq Requests
  BY <2>1
<2>3. IsFiniteSet(out)
  BY <2>1, FS_Subset
<2>4. dropped' \in Nat
  BY <2>1, <2>3, FS_CardinalityType
<2>5. before' = Within(order, buffer') \cup Within(before, chosen)
  BY <1>1 DEF Start
<2>6. before' \subseteq (buffer' \X buffer') \cup (chosen \X chosen)
<3>1. order \subseteq Requests \X Requests /\ before \subseteq Requests \X Requests
  OBVIOUS
<3>2. Within(order, buffer') \subseteq buffer' \X buffer'
  BY <3>1, WithinTyped
<3>3. Within(before, chosen) \subseteq chosen \X chosen
  BY <3>1, WithinTyped
<3> QED
  BY <2>5, <3>2, <3>3
<2>7. nudges' \in Nat
  BY <1>1 DEF Start
<2>8. phase' \in [Requests -> {"new", "running", "answered", "raised", "cancelled", "done"}]
  BY <1>1 DEF Start
<2> QED
  BY <1>1, <2>2, <2>4, <2>6, <2>7, <2>8 DEF Start
<1>2. ASSUME NEW r \in Requests, Answer(r) \/ Cancel(r) \/ Caught(r) \/ Leave(r)
      PROVE  TypeOK'
<2>1. entry' \in [Requests -> [ended : BOOLEAN, status : BOOLEAN]]
  BY <1>2, EndsTyped DEF Answer, Cancel, Caught, Leave
<2>2. phase' \in [Requests -> {"new", "running", "answered", "raised", "cancelled", "done"}]
  BY <1>2 DEF Answer, Cancel, Caught, Leave, Moves
<2> QED
  BY <1>2, <2>1, <2>2 DEF Answer, Cancel, Caught, Leave
<1>3. ASSUME NEW r \in Requests, GrowStale(r) PROVE TypeOK'
  BY <1>3 DEF GrowStale
<1>4. ASSUME NEW who \in {"timer", "nudge", "last"}, NEW rows \in SUBSET buffer,
             Take(who, rows)
      PROVE  /\ buffer' \subseteq Requests /\ chosen' \subseteq Requests
             /\ before' \subseteq (buffer' \X buffer') \cup (chosen' \X chosen')
             /\ holder' \in {"nobody", who}
             /\ chosen' = {} <=> holder' = "nobody"
<2>1. before \subseteq Requests \X Requests
  OBVIOUS
<2>2. /\ buffer' = buffer \ rows /\ chosen' = rows
      /\ before' = Within(before, buffer') \cup Within(before, rows)
      /\ holder' = IF rows = {} THEN "nobody" ELSE who
  BY <1>4 DEF Take
<2>3. Within(before, buffer') \subseteq buffer' \X buffer'
  BY <2>1, WithinTyped
<2>4. Within(before, rows) \subseteq rows \X rows
  BY <2>1, WithinTyped
<2> QED
  BY <2>2, <2>3, <2>4
<1>5. CASE TimerDue
  BY <1>5 DEF TimerDue
<1>6. CASE TimerFlush
<2>1. Take("timer", {r \in buffer : Ready(r)})
  BY <1>6 DEF TimerFlush
<2> QED
  BY <1>4, <1>6, <2>1 DEF TimerFlush
<1>7. CASE NudgeFlush
<2>1. Take("nudge", {r \in buffer : Ready(r)})
  BY <1>7 DEF NudgeFlush
<2> QED
  BY <1>4, <1>7, <2>1 DEF NudgeFlush
<1>8. ASSUME NEW rows \in SUBSET Requests
      PROVE  Inserted(rows) \in [Requests -> {"none", "bare", "outcome"}]
  BY DEF Inserted
<1>9. CASE Write
<2>1. row' \in [Requests -> {"none", "bare", "outcome"}]
  BY <1>8, <1>9 DEF Write
<2>2. before' \subseteq buffer \X buffer
<3>1. before \subseteq Requests \X Requests
  OBVIOUS
<3>2. before' = Within(before, buffer)
  BY <1>9 DEF Write
<3> QED
  BY <3>1, <3>2, WithinTyped
<2> QED
  BY <1>9, <2>1, <2>2 DEF Write, Done
<1>10. CASE WriteFails
<2>1. row' \in [Requests -> {"none", "bare", "outcome"}]
  BY <1>8, <1>10 DEF WriteFails
<2>2. buffer' \subseteq Requests /\ before' \subseteq buffer' \X buffer'
  BY <1>10 DEF WriteFails, PutBack
<2>3. failures' \in 0..MaxFailures
  BY <1>10 DEF WriteFails
<2> QED
  BY <1>10, <2>1, <2>2, <2>3 DEF WriteFails, Done
<1>11. CASE Unpause
  BY <1>11 DEF Unpause
<1>12. CASE Cleanup
<2>1. Within(before, buffer) \subseteq buffer \X buffer
<3>1. before \subseteq Requests \X Requests
  OBVIOUS
<3> QED
  BY <3>1, WithinTyped
<2> QED
  BY <1>12, <2>1 DEF Cleanup
<1>13. CASE Astray
<2>1. row' \in [Requests -> {"none", "bare", "outcome"}]
  BY <1>8, <1>13 DEF Astray
<2>2. failures' \in 0..MaxFailures
  BY <1>13 DEF Astray
<2> QED
  BY <1>13, <2>1, <2>2 DEF Astray
<1>14. CASE LastFlush
<2>1. Take("last", buffer)
  BY <1>14 DEF LastFlush
<2>2. stage' \in {"up", "stopping", "ended"}
  BY <1>14 DEF LastFlush
<2> QED
  BY <1>4, <1>14, <2>1, <2>2 DEF LastFlush
<1>15. CASE UNCHANGED vars
  BY <1>15 DEF vars
<1> QED
  BY <1>1, <1>2, <1>3, <1>5, <1>6, <1>7, <1>9, <1>10, <1>11, <1>12, <1>13, <1>14,
     <1>15 DEF Next

\* Every variable stays in its range, rows are out of the buffer exactly while
\* a flush holds the lock, and the order relates only what is there.
THEOREM TypeCorrect == Spec => []TypeOK
<1> QED
  BY InitTyped, StepTyped, PTL DEF Spec

-----------------------------------------------------------------------------
(* The inductive invariant                                                 *)

Stored == \A r \in Started : Accounted(r)
Unharmed == stage = "up" \/ failures = 0
Safe ==
  /\ OnePlace /\ EndsFollowTheRoute /\ TakenIsReady /\ StatusIsKept
  /\ Unharmed => Stored

LEMMA InitSafe == Init => Safe
  BY DEF Init, Safe, OnePlace, EndsFollowTheRoute, TakenIsReady, StatusIsKept, Stored,
         Unharmed, Started, Reported, Fresh

\* A request enters the buffer; others leave it as evicted.
LEMMA StartIsSafe ==
  ASSUME TypeOK, Safe, NEW r \in Requests, Start(r)
  PROVE  Safe'
<1> USE DEF TypeOK, bufferVars, flushVars
<1>1. PICK out \in SUBSET (buffer \cup {r}) :
        buffer' = (buffer \cup {r}) \ out /\ evicted' = evicted \cup out
  BY DEF Start
<1>2. /\ phase[r] = "new" /\ phase' = [phase EXCEPT ![r] = "running"]
      /\ UNCHANGED <<stale, entry, chosen, astray, holder, row, stage>>
      /\ Unharmed' => Unharmed
  BY DEF Start, Unharmed
<1>3. r \notin buffer \cup chosen \cup astray \cup evicted /\ ~entry[r].ended
  BY <1>2 DEF Safe, OnePlace, Started, EndsFollowTheRoute
<1>4. Started' = Started \cup {r} /\ Reported' = Reported
  BY <1>2 DEF Started, Reported
<1>5. OnePlace'
  BY <1>1, <1>2, <1>3, <1>4 DEF Safe, OnePlace
<1>6. EndsFollowTheRoute' /\ TakenIsReady'
  BY <1>2, <1>3 DEF Safe, EndsFollowTheRoute, TakenIsReady
<1>7. StatusIsKept'
<2>1. r \notin Reported
  BY <1>2 DEF Reported
<2> QED
  BY <1>1, <1>2, <1>4, <2>1 DEF Safe, StatusIsKept
<1>8. Unharmed' => Stored'
<2> SUFFICES ASSUME Unharmed, NEW q \in Started \cup {r}
             PROVE  Accounted(q)'
  BY <1>2, <1>4 DEF Stored
<2>1. Accounted(q) \/ q = r
  BY DEF Safe, Stored
<2> QED
  BY <1>1, <1>2, <2>1 DEF Accounted
<1> QED
  BY <1>5, <1>6, <1>7, <1>8 DEF Safe

\* The route moves on: its status is added where its entry is.
LEMMA RouteIsSafe ==
  ASSUME TypeOK, Safe, NEW r \in Requests,
         Answer(r) \/ Cancel(r) \/ Caught(r) \/ Leave(r)
  PROVE  Safe'
<1> USE DEF TypeOK, bufferVars, flushVars
<1>1. PICK told \in BOOLEAN :
        /\ Ends(r, told)
        /\ \/ told /\ phase[r] = "running" /\ phase'[r] \in {"answered", "raised"}
           \/ ~told /\ phase[r] = "running" /\ phase'[r] = "cancelled"
           \/ ~told /\ phase[r] \in {"raised", "answered"} /\ phase'[r] \in {"answered", "done"}
  BY DEF Answer, Cancel, Caught, Leave, Moves
<1>2. /\ \A q \in Requests \ {r} : phase'[q] = phase[q]
      /\ UNCHANGED <<stale, buffer, chosen, astray, holder, row, evicted, stage>>
      /\ Unharmed' => Unharmed
  BY DEF Answer, Cancel, Caught, Leave, Moves, Unharmed
<1>3. /\ \A q \in Requests \ {r} : entry'[q] = entry[q]
      /\ r \notin buffer => entry'[r] = entry[r]
      /\ r \in buffer => entry'[r].ended /\ (entry'[r].status <=> entry[r].status \/ told)
  BY <1>1 DEF Ends
<1>4. Started' = Started
  BY <1>1, <1>2 DEF Started
<1>5. /\ \A q \in Requests \ {r} : q \in Reported' <=> q \in Reported
      /\ r \in Reported' => told \/ r \in Reported
      /\ r \in Reported => ~told
  BY <1>1, <1>2 DEF Reported
<1>6. OnePlace' /\ (Unharmed' => Stored')
  BY <1>2, <1>4 DEF Safe, OnePlace, Stored, Accounted
<1>7. EndsFollowTheRoute'
  BY <1>1, <1>2, <1>3 DEF Safe, EndsFollowTheRoute
<1>8. TakenIsReady'
  BY <1>2, <1>3 DEF Safe, TakenIsReady, OnePlace
<1>9. StatusIsKept'
<2> SUFFICES ASSUME NEW q \in Requests, ~stale[q], stage # "ended"
             PROVE  /\ q \in Reported' /\ (q \in buffer \/ entry'[q].ended)
                         => entry'[q].status
                    /\ row[q] = "bare" => entry'[q].ended /\ ~entry'[q].status
  BY <1>2 DEF StatusIsKept
<2>1. CASE q # r
  BY <1>3, <1>5, <2>1 DEF Safe, StatusIsKept
<2>2. CASE q = r /\ r \in buffer
<3>1. q \in Reported' => entry'[q].status
  BY <1>3, <1>5, <2>2 DEF Safe, StatusIsKept
<3>2. row[q] = "bare" => ~told
  BY <1>1, <2>2 DEF Safe, StatusIsKept, EndsFollowTheRoute
<3> QED
  BY <1>3, <2>2, <3>1, <3>2 DEF Safe, StatusIsKept
<2>3. CASE q = r /\ r \notin buffer
<3>1. entry'[q] = entry[q]
  BY <1>3, <2>3
<3>2. told => ~entry[q].ended
  BY <1>1, <2>3 DEF Safe, EndsFollowTheRoute
<3> QED
  BY <1>5, <2>3, <3>1, <3>2 DEF Safe, StatusIsKept
<2> QED
  BY <2>1, <2>2, <2>3
<1> QED
  BY <1>6, <1>7, <1>8, <1>9 DEF Safe

\* The rows of a flush leave the buffer for the hands of the flush.
LEMMA TakeIsSafe ==
  ASSUME TypeOK, Safe, NEW who \in {"timer", "nudge", "last"},
         NEW rows \in SUBSET buffer, Take(who, rows),
         \A r \in rows : Ready(r) \/ who = "last",
         who = "last" => stage = "stopping", stage' \in {stage, "ended"},
         UNCHANGED <<phase, stale, entry, astray, row, evicted, failures>>
  PROVE  Safe'
<1> USE DEF TypeOK
<1>1. /\ chosen = {} /\ chosen' = rows /\ buffer' = buffer \ rows
      /\ rows # {} => holder' = who
      /\ holder' \in {who, "nobody"}
  BY DEF Take
<1>2. Started' = Started /\ Reported' = Reported
  BY DEF Started, Reported
<1>3. OnePlace'
  BY <1>1, <1>2 DEF Safe, OnePlace
<1>4. EndsFollowTheRoute'
  BY DEF Safe, EndsFollowTheRoute
<1>5. TakenIsReady'
  BY <1>1 DEF Safe, TakenIsReady, Ready
<1>6. StatusIsKept'
  BY <1>1, <1>2 DEF Safe, StatusIsKept
<1>7. Unharmed' => Stored'
<2>1. Unharmed' => Unharmed
  BY DEF Unharmed, Safe, OnePlace
<2> QED
  BY <1>1, <1>2, <2>1 DEF Safe, Stored, Accounted
<1> QED
  BY <1>3, <1>4, <1>5, <1>6, <1>7 DEF Safe

\* What the INSERT leaves behind for what it is given.
LEMMA InsertedRows ==
  ASSUME NEW rows, NEW r \in Requests
  PROVE  /\ row[r] # "none" => Inserted(rows)[r] = row[r]
         /\ r \in rows => Inserted(rows)[r] # "none"
         /\ Inserted(rows)[r] = "bare" =>
              row[r] = "bare" \/ (r \in rows /\ ~entry[r].status)
  BY DEF Inserted

\* Rows that a flush holds are written, or not: no answered request is bare.
LEMMA RowsKeepStatus ==
  ASSUME TypeOK, Safe, NEW rows \in SUBSET (chosen \cup astray),
         \A r \in rows : r \in chosen => holder # "last" \/ stage' = "ended",
         row' \in {row, Inserted(rows)}, stage' \in {stage, "ended"}
  PROVE  \A r \in Requests : ~stale[r] /\ stage' # "ended" =>
           (row'[r] = "bare" => entry[r].ended /\ ~entry[r].status)
<1> SUFFICES ASSUME NEW r \in Requests, ~stale[r], stage' # "ended", row'[r] = "bare"
             PROVE  entry[r].ended /\ ~entry[r].status
  OBVIOUS
<1>1. stage # "ended"
  OBVIOUS
<1>2. CASE row[r] = "bare"
  BY <1>1, <1>2 DEF Safe, StatusIsKept
<1>3. CASE row[r] # "bare"
<2>1. r \in rows /\ ~entry[r].status
  BY <1>3, InsertedRows
<2>2. entry[r].ended
  BY <2>1 DEF Safe, TakenIsReady, TypeOK, OnePlace
<2> QED
  BY <2>1, <2>2
<1> QED
  BY <1>2, <1>3

LEMMA WriteIsSafe ==
  ASSUME TypeOK, Safe, Write
  PROVE  Safe'
<1> USE DEF TypeOK
<1>1. /\ row' = Inserted(chosen) /\ chosen' = {} /\ holder' = "nobody"
      /\ stage' = IF holder = "last" THEN "ended" ELSE stage
      /\ UNCHANGED <<phase, stale, entry, buffer, astray, evicted, failures>>
  BY DEF Write, Done
<1>2. Started' = Started /\ Reported' = Reported
  BY <1>1 DEF Started, Reported
<1>3. OnePlace' /\ EndsFollowTheRoute'
  BY <1>1, <1>2 DEF Safe, OnePlace, EndsFollowTheRoute
<1>4. TakenIsReady'
  BY <1>1 DEF Safe, TakenIsReady, OnePlace
<1>5. StatusIsKept'
<2>1. \A r \in Requests : ~stale[r] /\ stage' # "ended" =>
        (row'[r] = "bare" => entry[r].ended /\ ~entry[r].status)
  BY <1>1, RowsKeepStatus
<2> QED
  BY <1>1, <1>2, <2>1 DEF Safe, StatusIsKept
<1>6. Unharmed' => Stored'
<2>0. Unharmed' => Unharmed
  BY <1>1 DEF Unharmed
<2> SUFFICES ASSUME Unharmed, NEW r \in Started PROVE Accounted(r)'
  BY <1>2, <2>0 DEF Stored
<2>1. r \in Requests /\ Accounted(r)
  BY DEF Safe, Stored, Started
<2> QED
  BY <1>1, <2>1, InsertedRows DEF Accounted
<1> QED
  BY <1>3, <1>4, <1>5, <1>6 DEF Safe

LEMMA WriteFailsIsSafe ==
  ASSUME TypeOK, Safe, WriteFails
  PROVE  Safe'
<1> USE DEF TypeOK
<1>1. /\ row' \in {row, Inserted(chosen)} /\ chosen' = {} /\ holder' = "nobody"
      /\ buffer' = buffer \cup chosen
      /\ stage' = IF holder = "last" THEN "ended" ELSE stage
      /\ failures' = failures + 1
      /\ UNCHANGED <<phase, stale, entry, astray, evicted>>
  BY DEF WriteFails, PutBack, Done
<1>2. Started' = Started /\ Reported' = Reported
  BY <1>1 DEF Started, Reported
<1>3. OnePlace' /\ EndsFollowTheRoute'
  BY <1>1, <1>2 DEF Safe, OnePlace, EndsFollowTheRoute
<1>4. TakenIsReady'
  BY <1>1 DEF Safe, TakenIsReady, OnePlace
<1>5. StatusIsKept'
<2>1. \A r \in Requests : ~stale[r] /\ stage' # "ended" =>
        (row'[r] = "bare" => entry[r].ended /\ ~entry[r].status)
  BY <1>1, RowsKeepStatus
<2>2. \A r \in chosen : ~stale[r] /\ stage' # "ended" => entry[r].ended
  BY <1>1 DEF Safe, TakenIsReady
<2> QED
  BY <1>1, <1>2, <2>1, <2>2 DEF Safe, StatusIsKept
<1>6. Unharmed' => Stored'
<2>0. Unharmed' => Unharmed
  BY <1>1 DEF Unharmed
<2> SUFFICES ASSUME Unharmed, NEW r \in Started PROVE Accounted(r)'
  BY <1>2, <2>0 DEF Stored
<2>1. r \in Requests /\ Accounted(r)
  BY DEF Safe, Stored, Started
<2> QED
  BY <1>1, <2>1, InsertedRows DEF Accounted
<1> QED
  BY <1>3, <1>4, <1>5, <1>6 DEF Safe

\* The shutdown cancels the flusher: what it held goes astray with its thread.
LEMMA CleanupIsSafe ==
  ASSUME TypeOK, Safe, Cleanup
  PROVE  Safe'
<1> USE DEF TypeOK
<1>1. /\ stage = "up" /\ stage' = "stopping"
      /\ chosen' \cup astray' = chosen \cup astray
      /\ chosen' \cap astray' = {} /\ chosen' \subseteq chosen
      /\ UNCHANGED <<phase, stale, entry, buffer, row, evicted>>
  BY DEF Cleanup, Safe, OnePlace
<1>2. Started' = Started /\ Reported' = Reported
  BY <1>1 DEF Started, Reported
<1>3. OnePlace'
  BY <1>1, <1>2 DEF Safe, OnePlace
<1>4. EndsFollowTheRoute' /\ StatusIsKept'
  BY <1>1, <1>2 DEF Safe, EndsFollowTheRoute, StatusIsKept
<1>5. TakenIsReady'
  BY <1>1 DEF Safe, TakenIsReady, OnePlace
<1>6. Stored'
<2>1. Unharmed
  BY <1>1 DEF Unharmed
<2> QED
  BY <1>1, <1>2, <2>1 DEF Safe, Stored, Accounted
<1> QED
  BY <1>3, <1>4, <1>5, <1>6 DEF Safe

LEMMA AstrayIsSafe ==
  ASSUME TypeOK, Safe, Astray
  PROVE  Safe'
<1> USE DEF TypeOK, bufferVars
<1>1. /\ astray # {} /\ astray' = {} /\ row' \in {row, Inserted(astray)}
      /\ UNCHANGED <<phase, stale, entry, buffer, chosen, holder, evicted, stage>>
  BY DEF Astray
<1>2. Started' = Started /\ Reported' = Reported
  BY <1>1 DEF Started, Reported
<1>3. OnePlace' /\ EndsFollowTheRoute' /\ TakenIsReady'
  BY <1>1, <1>2 DEF Safe, OnePlace, EndsFollowTheRoute, TakenIsReady
<1>4. StatusIsKept'
<2>1. \A r \in Requests : ~stale[r] /\ stage' # "ended" =>
        (row'[r] = "bare" => entry[r].ended /\ ~entry[r].status)
<3>1. astray \cap chosen = {}
  BY DEF Safe, OnePlace
<3> QED
  BY <1>1, <3>1, RowsKeepStatus
<2> QED
  BY <1>1, <1>2, <2>1 DEF Safe, StatusIsKept
<1>5. Unharmed' => Stored'
<2> SUFFICES ASSUME Unharmed' PROVE Stored'
  OBVIOUS
<2>1. Unharmed /\ row' = Inserted(astray)
<3>1. stage # "up"
  BY <1>1 DEF Safe, OnePlace
<3> QED
  BY <1>1, <3>1 DEF Astray, Unharmed
<2> SUFFICES ASSUME NEW r \in Started PROVE Accounted(r)'
  BY <1>2 DEF Stored
<2>2. r \in Requests /\ Accounted(r)
  BY <2>1 DEF Safe, Stored, Started
<2> QED
  BY <1>1, <2>1, <2>2, InsertedRows DEF Accounted
<1> QED
  BY <1>3, <1>4, <1>5 DEF Safe

LEMMA StepSafe == TypeOK /\ Safe /\ [Next]_vars => Safe'
<1> SUFFICES ASSUME TypeOK, Safe, [Next]_vars PROVE Safe'
  OBVIOUS
<1>0. CASE UNCHANGED <<phase, stale, entry, buffer, chosen, astray, holder, row,
                       evicted, stage, failures>>
  BY <1>0 DEF Safe, OnePlace, EndsFollowTheRoute, TakenIsReady, StatusIsKept, Stored,
              Started, Reported, Accounted, Unharmed
<1>1. ASSUME NEW r \in Requests, Start(r) PROVE Safe'
  BY <1>1, StartIsSafe
<1>2. ASSUME NEW r \in Requests, Answer(r) \/ Cancel(r) \/ Caught(r) \/ Leave(r)
      PROVE  Safe'
  BY <1>2, RouteIsSafe
<1>3. ASSUME NEW r \in Requests, GrowStale(r) PROVE Safe'
<2>1. /\ \A q \in Requests : stale[q] => stale'[q]
      /\ UNCHANGED <<phase, entry, buffer, chosen, astray, holder, row, evicted, stage,
                     failures>>
  BY <1>3 DEF GrowStale, bufferVars, flushVars, TypeOK
<2> QED
  BY <2>1 DEF Safe, OnePlace, EndsFollowTheRoute, TakenIsReady, StatusIsKept, Stored,
              Started, Reported, Accounted, Unharmed, TypeOK
<1>4. CASE TimerDue
  BY <1>0, <1>4 DEF TimerDue, bufferVars
<1>5. CASE TimerFlush
<2>1. /\ Take("timer", {r \in buffer : Ready(r)})
      /\ UNCHANGED <<phase, stale, entry, astray, row, evicted, stage, failures>>
  BY <1>5 DEF TimerFlush
<2> QED
  BY <2>1, TakeIsSafe
<1>6. CASE NudgeFlush
<2>1. /\ Take("nudge", {r \in buffer : Ready(r)})
      /\ UNCHANGED <<phase, stale, entry, astray, row, evicted, stage, failures>>
  BY <1>6 DEF NudgeFlush
<2> QED
  BY <2>1, TakeIsSafe
<1>7. CASE Write
  BY <1>7, WriteIsSafe
<1>8. CASE WriteFails
  BY <1>8, WriteFailsIsSafe
<1>9. CASE Unpause
  BY <1>0, <1>9 DEF Unpause, bufferVars
<1>10. CASE Cleanup
  BY <1>10, CleanupIsSafe
<1>11. CASE Astray
  BY <1>11, AstrayIsSafe
<1>12. CASE LastFlush
<2>1. /\ Take("last", buffer) /\ stage = "stopping" /\ stage' \in {stage, "ended"}
      /\ UNCHANGED <<phase, stale, entry, astray, row, evicted, failures>>
  BY <1>12 DEF LastFlush
<2> QED
  BY <2>1, TakeIsSafe
<1>13. CASE UNCHANGED vars
  BY <1>0, <1>13 DEF vars
<1> QED
  BY <1>1, <1>2, <1>3, <1>4, <1>5, <1>6, <1>7, <1>8, <1>9, <1>10, <1>11, <1>12, <1>13
  DEF Next

LEMMA SafeAlways == Spec => [](TypeOK /\ Safe)
<1>1. Init => TypeOK /\ Safe
  BY InitTyped, InitSafe
<1>2. TypeOK /\ Safe /\ [Next]_vars => TypeOK' /\ Safe'
  BY StepTyped, StepSafe
<1> QED
  BY <1>1, <1>2, PTL DEF Spec

\* What a route reported before the process ends is in its row, unless it had run
\* for an hour: a flush takes only what has ended, the ends that follow add
\* nothing, and what a failed write puts back is written as it is.
THEOREM OutcomeReachesTheRow == Spec => []AnsweredRowHasOutcome
<1>1. TypeOK /\ Safe => AnsweredRowHasOutcome
<2> SUFFICES ASSUME TypeOK, Safe, NEW r \in Reported, row[r] # "none", ~stale[r],
                    stage # "ended"
             PROVE  row[r] = "outcome"
  BY DEF AnsweredRowHasOutcome
<2>1. r \in Requests
  BY DEF Reported
<2>2. row[r] # "bare"
  BY <2>1 DEF Safe, StatusIsKept
<2> QED
  BY <2>1, <2>2 DEF TypeOK
<1> QED
  BY SafeAlways, <1>1, PTL

\* While the process is up, no request that was recorded goes missing: it is in
\* the buffer, in a flush, in the table, or it was counted as dropped.
THEOREM NothingLostWhileUp == Spec => [](stage = "up" => \A r \in Started : Accounted(r))
<1>1. TypeOK /\ Safe => (stage = "up" => \A r \in Started : Accounted(r))
  BY DEF Safe, Stored, Unharmed
<1> QED
  BY SafeAlways, <1>1, PTL

-----------------------------------------------------------------------------
(* The shutdown                                                            *)

LEMMA InitOrderly == Init => ShutdownIsOrderly
  BY DEF Init, ShutdownIsOrderly, LastFlushLeavesNothing

\* Nobody but the timer becomes due or takes the lock in the timer's name, and it is gone
\* from the first step of the shutdown on; what the last flush finds is all there is, since
\* nothing starts any more.
LEMMA StepOrderly == TypeOK /\ Safe /\ ShutdownIsOrderly /\ [Next]_vars => ShutdownIsOrderly'
<1> SUFFICES ASSUME TypeOK, Safe, ShutdownIsOrderly, [Next]_vars PROVE ShutdownIsOrderly'
  OBVIOUS
<1> USE DEF ShutdownIsOrderly, LastFlushLeavesNothing
<1>0. holder \in {"nobody", "timer", "nudge", "last"} /\ (stage = "up" => holder # "last")
  BY DEF TypeOK, Safe, OnePlace
<1>1. ASSUME NEW r \in Requests, Start(r) PROVE ShutdownIsOrderly'
  BY <1>0, <1>1 DEF Start, flushVars
<1>2. ASSUME NEW r \in Requests, Answer(r) \/ Cancel(r) \/ Caught(r) \/ Leave(r) \/ GrowStale(r)
      PROVE  ShutdownIsOrderly'
  BY <1>2 DEF Answer, Cancel, Caught, Leave, GrowStale, bufferVars, flushVars
<1>3. CASE TimerDue \/ Unpause \/ Astray
  BY <1>3, LimitsAssumption DEF TimerDue, Unpause, Astray, bufferVars, TypeOK
<1>4. CASE TimerFlush
<2>1. stage = "up" /\ stage' = stage
  BY <1>4 DEF TimerFlush, TypeOK
<2>2. holder' # "last"
  BY <1>4 DEF TimerFlush, Take
<2> QED
  BY <2>1, <2>2
<1>5. CASE NudgeFlush
<2>1. /\ buffer' \subseteq buffer /\ holder' \in {"nobody", "nudge"}
      /\ stage # "ended" /\ UNCHANGED <<timer, stage>>
  BY <1>5 DEF NudgeFlush, Take
<2> QED
  BY <2>1
<1>6. CASE Write \/ WriteFails
<2>1. /\ holder' = "nobody" /\ chosen' = {}
      /\ stage' = IF holder = "last" THEN "ended" ELSE stage
      /\ timer' = IF holder = "timer" THEN "asleep" ELSE timer
      /\ stage # "ended" /\ (buffer' = buffer \/ failures' = failures + 1)
  BY <1>6 DEF Write, WriteFails, Done
<2>2. failures' = failures + 1 => failures' # 0
  BY LimitsAssumption DEF TypeOK
<2> QED
  BY <1>0, <2>1, <2>2
<1>7. CASE Cleanup
  BY <1>0, <1>7 DEF Cleanup
<1>8. CASE LastFlush
<2>1. /\ buffer' = {} /\ chosen' = buffer /\ stage = "stopping"
      /\ holder' = IF buffer = {} THEN "nobody" ELSE "last"
      /\ stage' = IF buffer = {} THEN "ended" ELSE stage
      /\ timer' = timer
  BY <1>8 DEF LastFlush, Take
<2> QED
  BY <2>1
<1>9. CASE UNCHANGED vars
  BY <1>9 DEF vars
<1> QED
  BY <1>1, <1>2, <1>3, <1>4, <1>5, <1>6, <1>7, <1>8, <1>9 DEF Next

\* No request that was recorded goes missing, while the process is up and at its shutdown as
\* long as no write fails; and when the last flush is over nothing is left in memory.
THEOREM ShutdownWritesEverything == Spec => [](NothingIsLost /\ LastFlushLeavesNothing)
<1>1. Init => ShutdownIsOrderly
  BY InitOrderly
<1>2. TypeOK /\ Safe /\ ShutdownIsOrderly /\ [Next]_vars => ShutdownIsOrderly'
  BY StepOrderly
<1>3. TypeOK /\ Safe /\ ShutdownIsOrderly => NothingIsLost /\ LastFlushLeavesNothing
  BY DEF Safe, Stored, Unharmed, NothingIsLost, ShutdownIsOrderly
<1> QED
  BY SafeAlways, <1>1, <1>2, <1>3, PTL DEF Spec

-----------------------------------------------------------------------------
(* AuditBuffer implements CallRecords                                      *)

\* No row without a call that started, and no status that no route has told.
NothingIsMadeUp ==
  \A r \in Requests :
    /\ phase[r] = "new" => row[r] = "none"
    /\ entry[r].status => r \in Reported

LEMMA StepNotMadeUp ==
  TypeOK /\ Safe /\ NothingIsMadeUp /\ [Next]_vars => NothingIsMadeUp'
<1> SUFFICES ASSUME TypeOK, Safe, NothingIsMadeUp, [Next]_vars PROVE NothingIsMadeUp'
  OBVIOUS
<1> USE DEF NothingIsMadeUp
<1>1. ASSUME NEW r \in Requests, Start(r) PROVE NothingIsMadeUp'
  BY <1>1 DEF Start, flushVars, TypeOK, Reported
<1>2. ASSUME NEW r \in Requests, Answer(r) \/ Cancel(r) \/ Caught(r) \/ Leave(r)
      PROVE  NothingIsMadeUp'
<2>1. PICK tells \in BOOLEAN :
        /\ Ends(r, tells)
        /\ \/ tells /\ phase[r] = "running" /\ phase'[r] \in {"answered", "raised"}
           \/ ~tells /\ phase[r] = "running" /\ phase'[r] = "cancelled"
           \/ ~tells /\ phase[r] \in {"raised", "answered"} /\ phase'[r] \in {"answered", "done"}
  BY <1>2 DEF Answer, Cancel, Caught, Leave, Moves, TypeOK
<2>2. (\A q \in Requests \ {r} : phase'[q] = phase[q]) /\ row' = row
  BY <1>2 DEF Answer, Cancel, Caught, Leave, Moves, TypeOK, flushVars
<2>3. /\ \A q \in Requests \ {r} : entry'[q] = entry[q]
      /\ entry'[r].status => entry[r].status \/ tells
  BY <2>1 DEF Ends, TypeOK
<2> QED
  BY <2>1, <2>2, <2>3 DEF Reported
<1>3. CASE UNCHANGED <<phase, entry, row>>
  BY <1>3 DEF Reported
<1>4. ASSUME NEW rows \in SUBSET Started, row' \in {row, Inserted(rows)}, UNCHANGED <<phase, entry>>
      PROVE  NothingIsMadeUp'
  BY <1>4 DEF Inserted, Reported, Started
<1>5. CASE Write \/ WriteFails
<2>1. chosen \in SUBSET Started /\ row' \in {row, Inserted(chosen)} /\ UNCHANGED <<phase, entry>>
  BY <1>5 DEF Write, WriteFails, Safe, OnePlace
<2> QED
  BY <1>4, <2>1
<1>6. CASE Astray
<2>1. astray \in SUBSET Started /\ row' \in {row, Inserted(astray)} /\ UNCHANGED <<phase, entry>>
  BY <1>6 DEF Astray, bufferVars, Safe, OnePlace
<2> QED
  BY <1>4, <2>1
<1>7. ASSUME NEW r \in Requests, GrowStale(r) PROVE UNCHANGED <<phase, entry, row>>
  BY <1>7 DEF GrowStale, bufferVars, flushVars
<1>8. CASE TimerDue \/ TimerFlush \/ NudgeFlush \/ Unpause \/ Cleanup \/ LastFlush \/ UNCHANGED vars
  BY <1>3, <1>8 DEF TimerDue, TimerFlush, NudgeFlush, Unpause, Cleanup, LastFlush, bufferVars, vars
<1> QED
  BY <1>1, <1>2, <1>3, <1>5, <1>6, <1>7, <1>8 DEF Next

\* What the refinement needs of a state.
Sound == TypeOK /\ Safe /\ ShutdownIsOrderly /\ NothingIsMadeUp

LEMMA InitRecords == Init => Records!Init
<1> SUFFICES ASSUME Init PROVE Records!Init
  OBVIOUS
<1>1. Tells = [r \in Requests |-> "nothing"] /\ Fates = [r \in Requests |-> "none"]
  BY DEF Init, Tells, Fates, Reported
<1>2. AWriteFailed = FALSE
  BY DEF Init, AWriteFailed
<1> QED
  BY <1>1, <1>2 DEF Init, Records!Init

\* Each fate, one request at a time.
LEMMA FateOfOne ==
  ASSUME NEW r \in Requests
  PROVE  /\ row[r] # "none" => Fates[r] = row[r]
         /\ row[r] = "none" /\ phase[r] = "new" => Fates[r] = "none"
         /\ row[r] = "none" /\ phase[r] # "new" =>
              /\ r \in evicted => Fates[r] = "dropped"
              /\ r \notin evicted /\ r \in InMemory => Fates[r] = "kept"
              /\ r \notin evicted /\ r \notin InMemory => Fates[r] = "lost"
  BY DEF Fates

\* What is in memory, and has no row yet, is kept.
LEMMA InMemoryIsKept ==
  ASSUME Sound, NEW r \in InMemory, row[r] = "none"
  PROVE  r \in Requests /\ Fates[r] = "kept"
<1>1. r \in buffer \cup chosen \cup astray
  BY DEF InMemory
<1>2. r \in Started /\ r \notin evicted
  BY <1>1 DEF Sound, Safe, OnePlace
<1> QED
  BY <1>2, FateOfOne DEF Started

\* As long as calls, rows and memory are what they were, so are the fates.
LEMMA FatesStay ==
  ASSUME UNCHANGED <<phase, row, evicted>>, InMemory' = InMemory
  PROVE  Fates' = Fates
  BY DEF Fates

LEMMA TellsStay ==
  ASSUME UNCHANGED phase
  PROVE  Tells' = Tells
  BY DEF Tells, Reported

LEMMA StartRecords ==
  ASSUME Sound, NEW r \in Requests, Start(r)
  PROVE  Records!Begin(r)
<1>1. PICK out \in SUBSET (buffer \cup {r}) :
        buffer' = (buffer \cup {r}) \ out /\ evicted' = evicted \cup out
  BY DEF Start
<1>2. /\ phase[r] = "new" /\ phase' = [phase EXCEPT ![r] = "running"] /\ stage = "up"
      /\ UNCHANGED <<stale, chosen, astray, row, failures, stage>>
  BY DEF Start, flushVars
<1> DEFINE without == {q \in out : row[q] = "none"}
<1>3. InMemory = astray \cup buffer \cup chosen /\ InMemory' = astray \cup buffer' \cup chosen
  BY <1>2 DEF InMemory
<1>4. /\ phase \in [Requests -> {"new", "running", "answered", "raised", "cancelled", "done"}]
      /\ buffer \cup chosen \cup astray \cup evicted \subseteq Started
      /\ evicted \cap (buffer \cup chosen \cup astray) = {}
      /\ buffer \cap (chosen \cup astray) = {}
      /\ row[r] = "none"
  BY <1>2 DEF Sound, TypeOK, Safe, OnePlace, NothingIsMadeUp
<1>5. r \notin buffer \cup chosen \cup astray \cup evicted
  BY <1>2, <1>4 DEF Started
<1>6. Fates[r] = "none"
  BY <1>2, <1>4, FateOfOne
<1>7. without \in SUBSET (Records!Kept \cup {r})
<2> SUFFICES ASSUME NEW q \in without, q # r PROVE q \in Records!Kept
  OBVIOUS
<2>1. q \in InMemory /\ row[q] = "none"
  BY <1>3
<2> QED
  BY <2>1, InMemoryIsKept DEF Records!Kept
<1>8. Fates' = [q \in Requests |->
                  IF q \in without THEN "dropped" ELSE IF q = r THEN "kept" ELSE Fates[q]]
<2> SUFFICES ASSUME NEW q \in Requests
             PROVE  Fates'[q] = IF q \in without THEN "dropped" ELSE IF q = r THEN "kept" ELSE Fates[q]
  BY DEF Fates
<2>1. Fates'[q] = IF row[q] # "none" THEN row[q]
                  ELSE IF phase'[q] = "new" THEN "none"
                  ELSE IF q \in evicted' THEN "dropped"
                  ELSE IF q \in InMemory' THEN "kept" ELSE "lost"
  BY <1>2 DEF Fates
<2>2. phase'[q] = IF q = r THEN "running" ELSE phase[q]
  BY <1>2, <1>4
<2>3. CASE q \in out
<3>1. phase'[q] # "new" /\ q \in evicted'
  BY <1>1, <1>4, <2>2, <2>3 DEF Started
<3>2. row[q] # "none" => q # r /\ Fates[q] = row[q]
  BY <1>4, FateOfOne
<3> QED
  BY <2>1, <2>3, <3>1, <3>2
<2>4. CASE q \notin out /\ q = r
<3>1. q \notin evicted' /\ q \in InMemory'
  BY <1>1, <1>3, <1>5, <2>4
<3> QED
  BY <1>4, <2>1, <2>2, <2>4, <3>1
<2>5. CASE q \notin out /\ q # r
<3>1. (q \in evicted' <=> q \in evicted) /\ (q \in InMemory' <=> q \in InMemory)
  BY <1>1, <1>3, <2>5
<3> QED
  BY <2>1, <2>2, <2>5, <3>1 DEF Fates
<2> QED
  BY <2>3, <2>4, <2>5
<1>9. Tells' = Tells /\ AWriteFailed' = AWriteFailed
<2>1. Reported' = Reported
  BY <1>2, <1>4 DEF Reported
<2>2. \A q \in Requests : phase'[q] = "cancelled" <=> phase[q] = "cancelled"
  BY <1>2, <1>4
<2>3. \A q \in Requests : phase'[q] \in {"new", "running"} <=> phase[q] \in {"new", "running"}
  BY <1>2, <1>4
<2> QED
  BY <1>2, <2>1, <2>2, <2>3 DEF Tells, AWriteFailed
<1> HIDE DEF without
<1> QED
  BY <1>2, <1>6, <1>7, <1>8, <1>9 DEF Records!Begin

\* What a route tells, by how far it is.
LEMMA TellsOfOne ==
  ASSUME TypeOK, NEW r \in Requests
  PROVE  /\ Tells[r] = "status" <=> r \in Reported
         /\ Tells[r] = "end" <=> phase[r] = "cancelled"
         /\ Tells[r] = "nothing" <=> phase[r] \in {"new", "running"}
<1>1. phase[r] \in {"new", "running", "answered", "raised", "cancelled", "done"}
  BY DEF TypeOK
<1>2. r \in Reported <=> phase[r] \in {"answered", "raised", "done"}
  BY DEF Reported
<1>3. CASE r \in Reported
  BY <1>2, <1>3 DEF Tells
<1>4. CASE phase[r] = "cancelled"
  BY <1>2, <1>4 DEF Tells
<1>5. CASE phase[r] \in {"new", "running"}
  BY <1>2, <1>5 DEF Tells
<1> QED
  BY <1>1, <1>2, <1>3, <1>4, <1>5

\* The status of a call is told once; its except and its finally add nothing.
LEMMA RouteRecords ==
  ASSUME Sound, TypeOK', NEW r \in Requests,
         Answer(r) \/ Cancel(r) \/ Caught(r) \/ Leave(r)
  PROVE  \/ Records!Tell(r, "status") \/ Records!Tell(r, "end")
         \/ UNCHANGED Records!vars
<1>1. UNCHANGED <<stale, buffer, chosen, astray, row, evicted, failures, stage>>
  BY DEF Answer, Cancel, Caught, Leave, flushVars
<1>2. /\ phase \in [Requests -> {"new", "running", "answered", "raised", "cancelled", "done"}]
      /\ \A q \in Requests \ {r} : phase'[q] = phase[q]
      /\ \/ phase[r] = "running" /\ phase'[r] \in {"answered", "raised"}
         \/ phase[r] = "running" /\ phase'[r] = "cancelled"
         \/ phase[r] \in {"raised", "answered"} /\ phase'[r] \in {"answered", "done"}
  BY DEF Answer, Cancel, Caught, Leave, Moves, Sound, TypeOK
<1>3. Fates' = Fates
<2>1. InMemory' = InMemory
  BY <1>1 DEF InMemory
<2>2. \A q \in Requests : phase'[q] = "new" <=> phase[q] = "new"
  BY <1>2
<2> QED
  BY <1>1, <2>1, <2>2 DEF Fates
<1>4. AWriteFailed' = AWriteFailed
  BY <1>1 DEF AWriteFailed
<1>5. Fates[r] # "none"
<2>1. phase[r] # "new"
  BY <1>2
<2> QED
  BY <2>1, FateOfOne
<1>6. ASSUME NEW what, Tells[r] = "nothing", Tells' = [Tells EXCEPT ![r] = what]
      PROVE  Records!Tell(r, what)
  BY <1>1, <1>3, <1>4, <1>5, <1>6 DEF Records!Tell
<1>7. /\ Tells \in [Requests -> {"status", "end", "nothing"}]
      /\ DOMAIN Tells' = Requests /\ Tells' = [q \in Requests |-> Tells'[q]]
  BY <1>2 DEF Tells, Reported
<1>8. \A q \in Requests \ {r} : Tells'[q] = Tells[q]
  BY <1>2 DEF Tells, Reported
<1>9. CASE phase[r] = "running" /\ phase'[r] \in {"answered", "raised"}
<2>1. Tells[r] = "nothing" /\ Tells'[r] = "status"
  BY <1>9 DEF Tells, Reported
<2>2. Tells' = [Tells EXCEPT ![r] = "status"]
  BY <1>7, <1>8, <2>1
<2> QED
  BY <1>6, <2>1, <2>2
<1>10. CASE phase[r] = "running" /\ phase'[r] = "cancelled"
<2>1. Tells[r] = "nothing" /\ Tells'[r] = "end"
  BY <1>10 DEF Tells, Reported
<2>2. Tells' = [Tells EXCEPT ![r] = "end"]
  BY <1>7, <1>8, <2>1
<2> QED
  BY <1>6, <2>1, <2>2
<1>11. CASE phase[r] \in {"raised", "answered"} /\ phase'[r] \in {"answered", "done"}
<2>1. Tells'[r] = Tells[r]
  BY <1>11 DEF Tells, Reported
<2>2. Tells' = Tells
  BY <1>7, <1>8, <2>1
<2> QED
  BY <1>1, <1>3, <1>4, <2>2 DEF Records!vars
<1> QED
  BY <1>2, <1>9, <1>10, <1>11

\* Those of the rows that had none yet are written, with what their calls have told.
LEMMA InsertRecords ==
  ASSUME Sound, NEW rows \in {chosen, astray}, row' = Inserted(rows),
         rows = chosen => holder # "last" \/ stage' = "ended",
         rows \subseteq InMemory, InMemory' \cup rows = InMemory,
         UNCHANGED <<phase, stale, evicted>>, Records!Goes,
         AWriteFailed' = TRUE \/ UNCHANGED AWriteFailed
  PROVE  \E S \in SUBSET Requests : Records!Write(S)
<1> DEFINE S == {r \in rows : row[r] = "none"}
           written == [r \in S |-> IF entry[r].status THEN "outcome" ELSE "bare"]
<1>1. \A r \in S : r \in Requests /\ Fates[r] = "kept"
  BY InMemoryIsKept
<1>2. Tells' = Tells
  BY TellsStay
<1>3. ASSUME NEW r \in S PROVE written[r] \in Records!RowOf(r)
<2>1. r \in Requests /\ written[r] = IF entry[r].status THEN "outcome" ELSE "bare"
  BY <1>1
<2>2. TypeOK
  BY DEF Sound
<2>3. entry[r].status => Tells[r] = "status"
  BY <2>1, <2>2, TellsOfOne DEF Sound, NothingIsMadeUp
<2>4. ~entry[r].status => Tells[r] = "end" \/ stale[r] \/ stage' = "ended"
<3> SUFFICES ASSUME ~entry[r].status, ~stale[r], stage' # "ended" PROVE Tells[r] = "end"
  OBVIOUS
<3>0. r \in chosen \cup astray /\ (r \in chosen => rows = chosen)
<4>1. chosen \cap astray = {}
  BY DEF Sound, Safe, OnePlace
<4> QED
  BY <4>1
<3>1. entry[r].ended
  BY <2>1, <3>0 DEF Sound, Safe, TakenIsReady, TypeOK
<3>2. stage # "ended"
  BY DEF Records!Goes
<3>3. r \notin Reported /\ phase[r] \notin {"new", "running"}
  BY <2>1, <3>1, <3>2 DEF Sound, Safe, StatusIsKept, EndsFollowTheRoute
<3>4. phase[r] = "cancelled"
  BY <2>1, <3>3 DEF Reported, Sound, TypeOK
<3> QED
  BY <2>1, <2>2, <3>4, TellsOfOne
<2> QED
  BY <2>1, <2>3, <2>4 DEF Records!RowOf
<1>4. Fates' = [r \in Requests |-> IF r \in S THEN written[r] ELSE Fates[r]]
<2> SUFFICES ASSUME NEW r \in Requests
             PROVE  Fates'[r] = IF r \in S THEN written[r] ELSE Fates[r]
  BY DEF Fates
<2>1. Fates'[r] = IF row'[r] # "none" THEN row'[r]
                  ELSE IF phase[r] = "new" THEN "none"
                  ELSE IF r \in evicted THEN "dropped"
                  ELSE IF r \in InMemory' THEN "kept" ELSE "lost"
  BY DEF Fates
<2>2. row'[r] = IF r \in S THEN (IF entry[r].status THEN "outcome" ELSE "bare") ELSE row[r]
  BY DEF Inserted
<2>3. CASE r \in S
  BY <2>1, <2>2, <2>3
<2>4. CASE r \notin S
<3>1. row[r] = "none" => (r \in InMemory' <=> r \in InMemory)
  BY <2>4
<3> QED
  BY <2>1, <2>2, <2>4, <3>1 DEF Fates
<2> QED
  BY <2>3, <2>4
<1>5. Records!Becomes(S, written)
  BY <1>1, <1>4 DEF Records!Becomes, Records!Kept
<1>6. written \in [S -> {"bare", "outcome"}]
  OBVIOUS
<1>7. S \in SUBSET Requests
  BY <1>1
<1> HIDE DEF written, S
<1>8. Records!Write(S)
  BY <1>2, <1>3, <1>5, <1>6 DEF Records!Write
<1> QED
  BY <1>7, <1>8

\* Nothing is written: a write that failed, or the end with nothing left to write.
LEMMA NothingIsWritten ==
  ASSUME Tells' = Tells, Fates' = Fates, stale' = stale, Records!Goes,
         AWriteFailed' = TRUE \/ UNCHANGED AWriteFailed
  PROVE  \E S \in SUBSET Requests : Records!Write(S)
<1> DEFINE written == [r \in {} |-> "bare"]
<1>1. Fates' = [r \in Requests |-> IF r \in {} THEN written[r] ELSE Fates[r]]
  BY DEF Fates
<1>2. Records!Becomes({}, written)
  BY <1>1 DEF Records!Becomes
<1>3. written \in [{} -> {"bare", "outcome"}]
  OBVIOUS
<1> HIDE DEF written
<1>4. Records!Write({})
  BY <1>2, <1>3 DEF Records!Write
<1> QED
  BY <1>4

\* What leaves the memory without a row when a write fails at the shutdown is lost.
LEMMA LeavesAreLost ==
  ASSUME Sound, NEW left \in SUBSET InMemory, InMemory' = InMemory \ left,
         UNCHANGED <<phase, stale, evicted, row>>, Records!Goes, stage # "up", AWriteFailed'
  PROVE  \E S \in SUBSET Requests : Records!Lose(S)
<1> DEFINE S == {r \in left : row[r] = "none"}
<1>1. \A r \in S : r \in Requests /\ Fates[r] = "kept"
  BY InMemoryIsKept
<1>2. Tells' = Tells
  BY TellsStay
<1>3. Fates' = [r \in Requests |-> IF r \in S THEN [q \in S |-> "lost"][r] ELSE Fates[r]]
<2> SUFFICES ASSUME NEW r \in Requests
             PROVE  Fates'[r] = IF r \in S THEN "lost" ELSE Fates[r]
  BY DEF Fates
<2>1. Fates'[r] = IF row[r] # "none" THEN row[r]
                  ELSE IF phase[r] = "new" THEN "none"
                  ELSE IF r \in evicted THEN "dropped"
                  ELSE IF r \in InMemory' THEN "kept" ELSE "lost"
  BY DEF Fates
<2>2. CASE r \in S
<3>1. r \in Started /\ r \notin evicted /\ r \notin InMemory'
<4>1. r \in buffer \cup chosen \cup astray
  BY <2>2 DEF InMemory
<4> QED
  BY <2>2, <4>1 DEF Sound, Safe, OnePlace
<3> QED
  BY <2>1, <2>2, <3>1 DEF Started
<2>3. CASE r \notin S
<3>1. row[r] = "none" => (r \in InMemory' <=> r \in InMemory)
  BY <2>3
<3> QED
  BY <2>1, <2>3, <3>1 DEF Fates
<2> QED
  BY <2>2, <2>3
<1>4. Records!Becomes(S, [r \in S |-> "lost"])
  BY <1>1, <1>3 DEF Records!Becomes, Records!Kept
<1>5. S \in SUBSET Requests
  BY <1>1
<1> HIDE DEF S
<1>6. Records!Lose(S)
  BY <1>2, <1>4 DEF Records!Lose
<1> QED
  BY <1>5, <1>6

LEMMA StepRecords == Sound /\ TypeOK' /\ [Next]_vars => [Records!Next]_Records!vars
<1> SUFFICES ASSUME Sound, TypeOK', [Next]_vars
             PROVE  Records!Next \/ UNCHANGED Records!vars
  OBVIOUS
<1>0. ASSUME UNCHANGED <<phase, stale, row, evicted, failures, stage>>, InMemory' = InMemory
      PROVE  UNCHANGED Records!vars
  BY <1>0, FatesStay, TellsStay DEF Records!vars, AWriteFailed
<1>1. ASSUME NEW r \in Requests, Start(r) PROVE Records!Next
  BY <1>1, StartRecords DEF Records!Next
<1>2. ASSUME NEW r \in Requests, Answer(r) \/ Cancel(r) \/ Caught(r) \/ Leave(r)
      PROVE  Records!Next \/ UNCHANGED Records!vars
  BY <1>2, RouteRecords DEF Records!Next
<1>3. ASSUME NEW r \in Requests, GrowStale(r) PROVE Records!Next
<2>1. /\ phase[r] # "new" /\ stale' = [stale EXCEPT ![r] = TRUE]
      /\ UNCHANGED <<phase, buffer, chosen, astray, row, evicted, failures, stage>>
  BY <1>3 DEF GrowStale, bufferVars, flushVars
<2>2. Fates' = Fates /\ Tells' = Tells /\ AWriteFailed' = AWriteFailed
  BY <2>1, FatesStay, TellsStay DEF InMemory, AWriteFailed
<2>3. Fates[r] # "none"
  BY <2>1, FateOfOne
<2>4. Records!GrowOld(r)
  BY <2>1, <2>2, <2>3 DEF Records!GrowOld
<2> QED
  BY <2>4 DEF Records!Next
<1>4. CASE TimerDue \/ Unpause \/ UNCHANGED vars
<2>1. /\ UNCHANGED <<phase, stale, row, evicted, failures, stage>>
      /\ UNCHANGED <<buffer, chosen, astray>>
  BY <1>4 DEF TimerDue, Unpause, bufferVars, vars
<2>2. InMemory' = InMemory
  BY <2>1 DEF InMemory
<2> QED
  BY <1>0, <2>1, <2>2
<1>5. ASSUME NEW who, NEW rows \in SUBSET buffer, Take(who, rows)
      PROVE  buffer' \cup chosen' = buffer \cup chosen
<2>1. chosen = {} /\ buffer' = buffer \ rows /\ chosen' = rows
  BY <1>5 DEF Take, Sound, TypeOK
<2> QED
  BY <2>1
<1>6. CASE TimerFlush \/ NudgeFlush
<2>1. /\ UNCHANGED <<phase, stale, row, evicted, failures, stage, astray>>
      /\ \E who \in {"timer", "nudge"} : Take(who, {r \in buffer : Ready(r)})
  BY <1>6 DEF TimerFlush, NudgeFlush
<2>2. InMemory' = InMemory
  BY <1>5, <2>1 DEF InMemory
<2> QED
  BY <1>0, <2>1, <2>2
<1>7. CASE LastFlush
<2>1. /\ Take("last", buffer) /\ stage = "stopping"
      /\ stage' = IF buffer = {} THEN "ended" ELSE stage
      /\ UNCHANGED <<phase, stale, row, evicted, failures, astray>>
  BY <1>7 DEF LastFlush
<2>2. chosen = {} /\ chosen' = buffer /\ buffer' = {}
  BY <2>1 DEF Take, Sound, TypeOK
<2>3. InMemory' = InMemory
  BY <2>1, <2>2 DEF InMemory
<2>4. Fates' = Fates /\ Tells' = Tells /\ AWriteFailed' = AWriteFailed
  BY <2>1, <2>3, FatesStay, TellsStay DEF AWriteFailed
<2>5. Records!Goes
  BY <2>1 DEF Records!Goes
<2> QED
  BY <2>1, <2>4, <2>5, NothingIsWritten DEF Records!Next
\* The flush ends: what it held is in the buffer again, in the table, or lost.
<1>8. ASSUME Write \/ WriteFails
      PROVE  /\ holder # "nobody" /\ stage # "ended" /\ chosen' = {}
             /\ stage' = IF holder = "last" THEN "ended" ELSE stage
             /\ UNCHANGED <<phase, stale, evicted, astray>>
             /\ Records!Goes /\ chosen \subseteq InMemory
             /\ holder = "last" => buffer = {} /\ stage = "stopping"
  BY <1>8 DEF Write, WriteFails, Done, Records!Goes, InMemory, Sound, ShutdownIsOrderly
<1>9. CASE Write
<2>1. row' = Inserted(chosen) /\ buffer' = buffer /\ failures' = failures
  BY <1>9 DEF Write
<2>2. chosen \cap (buffer \cup astray) = {}
  BY DEF Sound, Safe, OnePlace
<2>3. InMemory' \cup chosen = InMemory
  BY <1>8, <1>9, <2>1 DEF InMemory
<2> QED
  BY <1>8, <1>9, <2>1, <2>3, InsertRecords DEF Records!Next, AWriteFailed
<1>10. CASE WriteFails
<2>1. /\ row' \in {row, Inserted(chosen)} /\ buffer' = buffer \cup chosen
      /\ failures' = failures + 1
  BY <1>10 DEF WriteFails, PutBack
<2>2. AWriteFailed'
  BY <2>1, LimitsAssumption DEF AWriteFailed, Sound, TypeOK
<2>3. InMemory' \cup chosen = InMemory /\ (holder # "last" => InMemory' = InMemory)
  BY <1>8, <1>10, <2>1 DEF InMemory
<2>4. CASE row' = Inserted(chosen)
  BY <1>8, <1>10, <2>2, <2>3, <2>4, InsertRecords DEF Records!Next
<2>5. CASE row' = row /\ holder # "last"
<3>1. Fates' = Fates /\ Tells' = Tells
  BY <1>8, <1>10, <2>3, <2>5, FatesStay, TellsStay
<3> QED
  BY <1>8, <1>10, <2>2, <3>1, NothingIsWritten DEF Records!Next
<2>6. CASE row' = row /\ holder = "last"
<3>1. chosen \cap astray = {}
  BY DEF Sound, Safe, OnePlace
<3>2. InMemory' = InMemory \ chosen
  BY <1>8, <1>10, <2>1, <2>6, <3>1 DEF InMemory
<3> QED
  BY <1>8, <1>10, <2>2, <2>6, <3>2, LeavesAreLost DEF Records!Next
<2> QED
  BY <2>1, <2>4, <2>5, <2>6
<1>11. CASE Cleanup
<2>1. /\ stage = "up" /\ stage' = "stopping"
      /\ UNCHANGED <<phase, stale, buffer, row, evicted, failures>>
  BY <1>11 DEF Cleanup
<2>2. chosen' \cup astray' = chosen \cup astray
<3>1. astray = {}
  BY <2>1 DEF Sound, Safe, OnePlace
<3> QED
  BY <1>11, <3>1 DEF Cleanup
<2>3. InMemory' = InMemory
  BY <2>1, <2>2 DEF InMemory
<2>4. Fates' = Fates /\ Tells' = Tells /\ AWriteFailed' = AWriteFailed
  BY <2>1, <2>3, FatesStay, TellsStay DEF AWriteFailed
<2> QED
  BY <2>1, <2>4 DEF Records!Stop, Records!Next
<1>12. CASE Astray
<2>1. /\ astray # {} /\ astray' = {}
      /\ \/ row' = Inserted(astray) /\ failures' = failures
         \/ failures' = failures + 1 /\ row' = row
      /\ UNCHANGED <<phase, stale, buffer, chosen, evicted, stage>>
  BY <1>12 DEF Astray, bufferVars
<2>2. astray \cap (buffer \cup chosen) = {} /\ stage # "up"
  BY <2>1 DEF Sound, Safe, OnePlace
<2>3. astray \subseteq InMemory /\ InMemory' = InMemory \ astray
  BY <2>1, <2>2 DEF InMemory
<2>4. Records!Goes
  BY <2>1 DEF Records!Goes
<2>5. CASE row' = Inserted(astray) /\ failures' = failures
<3>1. AWriteFailed' = AWriteFailed
  BY <2>5 DEF AWriteFailed
<3>2. InMemory' \cup astray = InMemory
  BY <2>3
<3>3. astray = chosen => holder # "last" \/ stage' = "ended"
  BY <2>1, <2>2
<3> QED
  BY <2>1, <2>3, <2>4, <2>5, <3>1, <3>2, <3>3, InsertRecords DEF Records!Next
<2>6. CASE row' = row /\ failures' = failures + 1
<3>1. AWriteFailed'
  BY <2>6, LimitsAssumption DEF AWriteFailed, Sound, TypeOK
<3> QED
  BY <2>1, <2>2, <2>3, <2>4, <2>6, <3>1, LeavesAreLost DEF Records!Next
<2> QED
  BY <2>1, <2>5, <2>6
<1> QED
  BY <1>1, <1>2, <1>3, <1>4, <1>6, <1>7, <1>9, <1>10, <1>11, <1>12 DEF Next

\* Every recorded call has one fate, in every behaviour of the buffer: each of its steps is
\* a step of the abstract audit, or none.
THEOREM AuditImplementsRecords == Spec => EveryRecordHasOneFate
<1>1. Init => NothingIsMadeUp
  BY DEF Init, NothingIsMadeUp, Fresh
<1>2. Spec => []Sound
  BY SafeAlways, InitOrderly, StepOrderly, <1>1, StepNotMadeUp, PTL DEF Spec, Sound
<1>3. Sound' => TypeOK'
  BY DEF Sound
<1> QED
  BY InitRecords, <1>2, <1>3, StepRecords, PTL DEF Spec, Records!Spec, EveryRecordHasOneFate

-----------------------------------------------------------------------------
(* Sequences without repetition                                            *)

Distinct(s) == \A i, j \in DOMAIN s : s[i] = s[j] => i = j
Items(s) == {s[i] : i \in 1 .. Len(s)}

LEMMA ItemsAreTheSet ==
  ASSUME NEW S, NEW s \in Seq(S)
  PROVE  Shipping!ToSet(s) = Items(s)
  BY DEF Shipping!ToSet, Items

\* A queue cut in two: nothing is lost, and nothing is in both parts.
LEMMA CutInTwo ==
  ASSUME NEW S, NEW s \in Seq(S), Distinct(s), NEW n \in 0 .. Len(s)
  PROVE  LET front == SubSeq(s, 1, n)
             rest  == SubSeq(s, n + 1, Len(s)) IN
         /\ front \in Seq(S) /\ rest \in Seq(S)
         /\ Distinct(front) /\ Distinct(rest)
         /\ Items(front) \cup Items(rest) = Items(s)
         /\ Items(front) \cap Items(rest) = {}
         /\ Len(front) = n
<1> DEFINE front == SubSeq(s, 1, n)
           rest  == SubSeq(s, n + 1, Len(s))
<1>0. Len(s) \in Nat /\ \A i \in 1 .. Len(s) : s[i] \in S
  BY LenProperties, ElementOfSeq
<1>1. /\ front \in Seq(S) /\ Len(front) = n
      /\ \A i \in 1 .. n : front[i] = s[i]
<2>1. \A i \in 1 .. n : s[i] \in S
  BY <1>0
<2> QED
  BY <1>0, <2>1, SubSeqProperties
<1>2. /\ rest \in Seq(S) /\ Len(rest) = Len(s) - n
      /\ \A i \in 1 .. Len(s) - n : rest[i] = s[n + i]
<2>1. \A i \in n + 1 .. Len(s) : s[i] \in S
  BY <1>0
<2> QED
  BY <1>0, <2>1, SubSeqProperties
<1> HIDE DEF front, rest
<1>3. DOMAIN front = 1 .. n /\ DOMAIN rest = 1 .. Len(s) - n /\ DOMAIN s = 1 .. Len(s)
  BY <1>1, <1>2, LenProperties
<1>4. Distinct(front)
  BY <1>0, <1>1, <1>3 DEF Distinct
<1>5. Distinct(rest)
<2> SUFFICES ASSUME NEW i \in 1 .. Len(s) - n, NEW j \in 1 .. Len(s) - n, rest[i] = rest[j]
             PROVE  i = j
  BY <1>3 DEF Distinct
<2>1. n + i \in DOMAIN s /\ n + j \in DOMAIN s /\ s[n + i] = s[n + j]
  BY <1>0, <1>2, <1>3
<2>2. n + i = n + j
  BY <2>1 DEF Distinct
<2> QED
  BY <1>0, <2>2
<1>6. Items(front) \cup Items(rest) = Items(s)
<2>1. ASSUME NEW x \in Items(front) PROVE x \in Items(s)
  BY <1>0, <1>1, <2>1 DEF Items
<2>2. ASSUME NEW x \in Items(rest) PROVE x \in Items(s)
<3>1. PICK i \in 1 .. Len(s) - n : x = rest[i]
  BY <1>2, <2>2 DEF Items
<3>2. n + i \in 1 .. Len(s) /\ x = s[n + i]
  BY <1>0, <1>2, <3>1
<3> QED
  BY <3>2 DEF Items
<2>3. ASSUME NEW x \in Items(s) PROVE x \in Items(front) \cup Items(rest)
<3>1. PICK i \in 1 .. Len(s) : x = s[i]
  BY <2>3 DEF Items
<3>2. CASE i <= n
<4>1. i \in 1 .. n /\ x = front[i]
  BY <1>0, <1>1, <3>1, <3>2
<4> QED
  BY <1>1, <4>1 DEF Items
<3>3. CASE i > n
<4>1. i - n \in 1 .. Len(s) - n /\ n + (i - n) = i
  BY <1>0, <3>1, <3>3
<4>2. x = rest[i - n]
  BY <1>2, <3>1, <4>1
<4> QED
  BY <1>2, <4>1, <4>2 DEF Items
<3> QED
  BY <1>0, <3>1, <3>2, <3>3
<2> QED
  BY <2>1, <2>2, <2>3
<1>7. Items(front) \cap Items(rest) = {}
<2> SUFFICES ASSUME NEW x \in Items(front), x \in Items(rest) PROVE FALSE
  OBVIOUS
<2>1. PICK i \in 1 .. n : x = front[i]
  BY <1>1 DEF Items
<2>2. PICK j \in 1 .. Len(s) - n : x = rest[j]
  BY <1>2 DEF Items
<2>3. i \in DOMAIN s /\ n + j \in DOMAIN s
  BY <1>0, <1>3
<2>4. s[i] = s[n + j]
  BY <1>1, <1>2, <2>1, <2>2, Zenon
<2>5. i = n + j
  BY <2>3, <2>4 DEF Distinct
<2> QED
  BY <1>0, <2>5
<1> QED
  BY <1>1, <1>2, <1>4, <1>5, <1>6, <1>7 DEF front, rest

\* Two sequences that share nothing, one behind the other.
LEMMA OneBehindTheOther ==
  ASSUME NEW S, NEW s \in Seq(S), NEW t \in Seq(S), Distinct(s), Distinct(t),
         Items(s) \cap Items(t) = {}
  PROVE  /\ s \o t \in Seq(S) /\ Distinct(s \o t)
         /\ Items(s \o t) = Items(s) \cup Items(t)
         /\ Len(s \o t) = Len(s) + Len(t)
<1> DEFINE m == Len(s)
           n == Len(t)
           u == s \o t
<1>1. m \in Nat /\ n \in Nat /\ DOMAIN s = 1 .. m /\ DOMAIN t = 1 .. n
  BY LenProperties
<1>2. /\ u \in Seq(S) /\ Len(u) = m + n
      /\ \A i \in 1 .. m + n : u[i] = IF i <= m THEN s[i] ELSE t[i - m]
  BY ConcatProperties
<1>3. DOMAIN u = 1 .. m + n
  BY <1>2, LenProperties
<1> HIDE DEF m, n, u
<1>4. \A i \in 1 .. m + n : \/ i \in 1 .. m /\ u[i] = s[i]
                            \/ i - m \in 1 .. n /\ u[i] = t[i - m]
  BY <1>1, <1>2
<1>5. \A i \in 1 .. m : s[i] \in Items(s)
  BY DEF Items, m
<1>6. \A i \in 1 .. n : t[i] \in Items(t)
  BY DEF Items, n
<1>7. Distinct(u)
<2> SUFFICES ASSUME NEW i \in 1 .. m + n, NEW j \in 1 .. m + n, u[i] = u[j]
             PROVE  i = j
  BY <1>3 DEF Distinct
<2>1. CASE i \in 1 .. m /\ u[i] = s[i]
<3>1. ~(j - m \in 1 .. n /\ u[j] = t[j - m])
  BY <1>5, <1>6, <2>1
<3>2. j \in 1 .. m /\ u[j] = s[j]
  BY <1>4, <3>1
<3> QED
  BY <1>1, <2>1, <3>2 DEF Distinct
<2>2. CASE i - m \in 1 .. n /\ u[i] = t[i - m]
<3>1. ~(j \in 1 .. m /\ u[j] = s[j])
  BY <1>5, <1>6, <2>2
<3>2. j - m \in 1 .. n /\ u[j] = t[j - m]
  BY <1>4, <3>1
<3>3. i - m = j - m
  BY <1>1, <2>2, <3>2 DEF Distinct
<3> QED
  BY <1>1, <3>3
<2> QED
  BY <1>4, <2>1, <2>2
<1>8. Items(u) = Items(s) \cup Items(t)
<2>1. ASSUME NEW x \in Items(u) PROVE x \in Items(s) \cup Items(t)
<3>1. PICK i \in 1 .. m + n : x = u[i]
  BY <1>2, <2>1 DEF Items
<3> QED
  BY <1>4, <1>5, <1>6, <3>1
<2>2. ASSUME NEW x \in Items(s) PROVE x \in Items(u)
<3>1. PICK i \in 1 .. m : x = s[i]
  BY <2>2 DEF Items, m
<3>2. i \in 1 .. m + n /\ x = u[i]
  BY <1>1, <1>2, <3>1
<3> QED
  BY <1>2, <3>2 DEF Items
<2>3. ASSUME NEW x \in Items(t) PROVE x \in Items(u)
<3>1. PICK i \in 1 .. n : x = t[i]
  BY <2>3 DEF Items, n
<3>2. m + i \in 1 .. m + n /\ ~(m + i <= m) /\ (m + i) - m = i
  BY <1>1
<3>3. x = u[m + i]
  BY <1>2, <3>1, <3>2
<3> QED
  BY <1>2, <3>2, <3>3 DEF Items
<2> QED
  BY <2>1, <2>2, <2>3
<1> QED
  BY <1>2, <1>7, <1>8 DEF u, m, n

\* As many records as places.
LEMMA AsManyAsPlaces ==
  ASSUME NEW S, NEW s \in Seq(S), Distinct(s)
  PROVE  IsFiniteSet(Items(s)) /\ Cardinality(Items(s)) = Len(s)
<1>1. Len(s) \in Nat /\ DOMAIN s = 1 .. Len(s) /\ s \in [1 .. Len(s) -> S]
  BY LenProperties
<1>2. s \in Bijection(1 .. Len(s), Items(s))
<2>1. s \in [1 .. Len(s) -> Items(s)]
  BY <1>1 DEF Items
<2>2. \A i, j \in 1 .. Len(s) : s[i] = s[j] => i = j
  BY <1>1 DEF Distinct
<2>3. \A x \in Items(s) : \E i \in 1 .. Len(s) : s[i] = x
  BY DEF Items
<2> QED
  BY <2>1, <2>2, <2>3 DEF Bijection, Injection, Surjection, IsInjective
<1>3. IsFiniteSet(1 .. Len(s)) /\ Cardinality(1 .. Len(s)) = Len(s)
  BY <1>1, FS_Interval
<1>4. ExistsBijection(1 .. Len(s), Items(s))
  BY <1>2 DEF ExistsBijection
<1> QED
  BY <1>3, <1>4, FS_Bijection

\* A record at the end that was not there before.
LEMMA OneMore ==
  ASSUME NEW S, NEW s \in Seq(S), Distinct(s), NEW x \in S, x \notin Items(s)
  PROVE  /\ Append(s, x) \in Seq(S) /\ Distinct(Append(s, x))
         /\ Items(Append(s, x)) = Items(s) \cup {x}
<1> DEFINE t == <<x>>
<1>1. t \in Seq(S) /\ Len(t) = 1 /\ t[1] = x /\ DOMAIN t = {1}
  OBVIOUS
<1>2. Append(s, x) = s \o t
  OBVIOUS
<1> HIDE DEF t
<1>3. Items(t) = {x} /\ Distinct(t)
  BY <1>1 DEF Items, Distinct
<1>4. Items(s) \cap Items(t) = {}
  BY <1>3
<1> QED
  BY <1>1, <1>2, <1>3, <1>4, OneBehindTheOther

\* The oldest record leaves.
LEMMA OneLess ==
  ASSUME NEW S, NEW s \in Seq(S), Distinct(s), s # << >>
  PROVE  /\ Tail(s) \in Seq(S) /\ Distinct(Tail(s))
         /\ Items(s) = {Head(s)} \cup Items(Tail(s)) /\ Head(s) \notin Items(Tail(s))
<1>1. Len(s) \in Nat \ {0} /\ Tail(s) = SubSeq(s, 2, Len(s)) /\ Head(s) = s[1]
  BY TailIsSubSeq, EmptySeq
<1> DEFINE front == SubSeq(s, 1, 1)
<1>2. 1 \in 0 .. Len(s) /\ 1 + 1 = 2
  BY <1>1
<1>3. /\ Tail(s) \in Seq(S) /\ Distinct(Tail(s)) /\ Len(front) = 1
      /\ Items(front) \cup Items(Tail(s)) = Items(s)
      /\ Items(front) \cap Items(Tail(s)) = {}
<2>1. /\ front \in Seq(S) /\ SubSeq(s, 1 + 1, Len(s)) \in Seq(S)
      /\ Distinct(front) /\ Distinct(SubSeq(s, 1 + 1, Len(s)))
      /\ Items(front) \cup Items(SubSeq(s, 1 + 1, Len(s))) = Items(s)
      /\ Items(front) \cap Items(SubSeq(s, 1 + 1, Len(s))) = {}
      /\ Len(front) = 1
  BY <1>2, CutInTwo
<2> QED
  BY <1>1, <1>2, <2>1
<1>4. front[1] = s[1]
<2>1. \A i \in 1 .. 1 : s[i] \in S
  BY <1>1, ElementOfSeq
<2> QED
  BY <2>1, SubSeqProperties
<1>5. Items(front) = {Head(s)}
  BY <1>1, <1>3, <1>4 DEF Items
<1> QED
  BY <1>3, <1>5

-----------------------------------------------------------------------------
(* Sequences that rise                                                     *)

Rises(s) == \A i, j \in 1 .. Len(s) : i < j => s[i] < s[j]

\* Cut in two, both parts rise, and the front is below the rest.
LEMMA CutRises ==
  ASSUME NEW s \in Seq(Nat), Rises(s), NEW n \in 0 .. Len(s)
  PROVE  LET front == SubSeq(s, 1, n)
             rest  == SubSeq(s, n + 1, Len(s)) IN
         /\ Rises(front) /\ Rises(rest)
         /\ \A x \in Items(front), y \in Items(rest) : x < y
<1> DEFINE front == SubSeq(s, 1, n)
           rest  == SubSeq(s, n + 1, Len(s))
<1>0. Len(s) \in Nat /\ \A i \in 1 .. Len(s) : s[i] \in Nat
  BY LenProperties, ElementOfSeq
<1>1. Len(front) = n /\ \A i \in 1 .. n : front[i] = s[i]
<2>1. \A i \in 1 .. n : s[i] \in Nat
  BY <1>0
<2> QED
  BY <1>0, <2>1, SubSeqProperties
<1>2. Len(rest) = Len(s) - n /\ \A i \in 1 .. Len(s) - n : rest[i] = s[n + i]
<2>1. \A i \in n + 1 .. Len(s) : s[i] \in Nat
  BY <1>0
<2> QED
  BY <1>0, <2>1, SubSeqProperties
<1> HIDE DEF front, rest
<1>3. Rises(front)
<2> SUFFICES ASSUME NEW i \in 1 .. n, NEW j \in 1 .. n, i < j
             PROVE  front[i] < front[j]
  BY <1>1 DEF Rises
<2>1. i \in 1 .. Len(s) /\ j \in 1 .. Len(s)
  BY <1>0
<2> QED
  BY <1>1, <2>1 DEF Rises
<1>4. Rises(rest)
<2> SUFFICES ASSUME NEW i \in 1 .. Len(s) - n, NEW j \in 1 .. Len(s) - n, i < j
             PROVE  rest[i] < rest[j]
  BY <1>2 DEF Rises
<2>1. n + i \in 1 .. Len(s) /\ n + j \in 1 .. Len(s) /\ n + i < n + j
  BY <1>0
<2> QED
  BY <1>2, <2>1 DEF Rises
<1>5. ASSUME NEW x \in Items(front), NEW y \in Items(rest) PROVE x < y
<2>1. PICK i \in 1 .. n : x = s[i]
  BY <1>1 DEF Items
<2>2. PICK j \in 1 .. Len(s) - n : y = s[n + j]
  BY <1>2 DEF Items
<2>3. i \in 1 .. Len(s) /\ n + j \in 1 .. Len(s) /\ i < n + j
  BY <1>0
<2> QED
  BY <2>1, <2>2, <2>3 DEF Rises
<1> QED
  BY <1>3, <1>4, <1>5 DEF front, rest

\* One behind the other, when all of the first is below all of the second.
LEMMA JoinRises ==
  ASSUME NEW s \in Seq(Nat), NEW t \in Seq(Nat), Rises(s), Rises(t),
         \A x \in Items(s), y \in Items(t) : x < y
  PROVE  Rises(s \o t)
<1> DEFINE m == Len(s)
           n == Len(t)
           u == s \o t
<1>1. m \in Nat /\ n \in Nat
  BY LenProperties
<1>2. Len(u) = m + n /\ \A i \in 1 .. m + n : u[i] = IF i <= m THEN s[i] ELSE t[i - m]
  BY ConcatProperties
<1>3. /\ \A i \in 1 .. m : s[i] \in Items(s)
      /\ \A i \in 1 .. n : t[i] \in Items(t)
  BY DEF Items
<1>4. /\ \A i, j \in 1 .. m : i < j => s[i] < s[j]
      /\ \A i, j \in 1 .. n : i < j => t[i] < t[j]
  BY DEF Rises
<1> HIDE DEF m, n, u
<1> SUFFICES ASSUME NEW i \in 1 .. m + n, NEW j \in 1 .. m + n, i < j
             PROVE  u[i] < u[j]
  BY <1>2 DEF Rises, u
<1>5. CASE j <= m
<2>1. i \in 1 .. m /\ j \in 1 .. m
  BY <1>1, <1>5
<2> QED
  BY <1>2, <1>4, <1>5, <2>1
<1>6. CASE i <= m /\ ~(j <= m)
<2>1. i \in 1 .. m /\ j - m \in 1 .. n
  BY <1>1, <1>6
<2>2. u[i] = s[i] /\ u[j] = t[j - m]
  BY <1>2, <1>6
<2> QED
  BY <1>3, <2>1, <2>2
<1>7. CASE ~(i <= m)
<2>1. i - m \in 1 .. n /\ j - m \in 1 .. n /\ i - m < j - m /\ ~(j <= m)
  BY <1>1, <1>7
<2>2. u[i] = t[i - m] /\ u[j] = t[j - m]
  BY <1>2, <1>7, <2>1
<2> QED
  BY <1>4, <2>1, <2>2
<1> QED
  BY <1>1, <1>5, <1>6, <1>7

\* The front leaves, or something newer comes behind.
LEMMA TailRises ==
  ASSUME NEW s \in Seq(Nat), Rises(s), s # << >>
  PROVE  Rises(Tail(s))
<1>1. Tail(s) = SubSeq(s, 2, Len(s)) /\ 1 \in 0 .. Len(s) /\ 1 + 1 = 2
  BY TailIsSubSeq, EmptySeq, LenProperties
<1>2. Rises(SubSeq(s, 1 + 1, Len(s)))
  BY <1>1, CutRises
<1> QED
  BY <1>1, <1>2

LEMMA AppendRises ==
  ASSUME NEW s \in Seq(Nat), Rises(s), NEW x \in Nat, \A y \in Items(s) : y < x
  PROVE  Rises(Append(s, x))
<1> DEFINE t == <<x>>
<1>1. t \in Seq(Nat) /\ Len(t) = 1 /\ t[1] = x /\ Append(s, x) = s \o t
  OBVIOUS
<1> HIDE DEF t
<1>2. Items(t) = {x} /\ Rises(t)
  BY <1>1 DEF Items, Rises
<1> QED
  BY <1>1, <1>2, JoinRises

-----------------------------------------------------------------------------
(* Log shipping                                                            *)

Places == {"off", "waits", "flush", "post", "return", "again", "done"}

ShippingTyped ==
  /\ emitted \in Nat /\ unreported \in Nat /\ reported \in Nat
  /\ queue \in Seq(Nat)
  /\ batch \in [Shipping!Flushers -> Seq(Nat)]
  /\ at \in [Shipping!Flushers -> Places]

\* A record is in the queue or in one batch, once; and a batch is held from its taking to the
\* end of the POST, or until it is put back.
OncePlaced ==
  /\ Distinct(queue)
  /\ \A f \in Shipping!Flushers :
       /\ Distinct(batch[f]) /\ Items(queue) \cap Items(batch[f]) = {}
       /\ batch[f] # << >> => at[f] \in {"post", "return"}
       /\ \A g \in Shipping!Flushers : f # g => Items(batch[f]) \cap Items(batch[g]) = {}

\* What was dropped is nowhere else in the process, and has been counted.
GoneIsCounted ==
  /\ gone \cap Items(queue) = {}
  /\ \A f \in Shipping!Flushers : gone \cap Items(batch[f]) = {}
  /\ IsFiniteSet(gone) /\ Cardinality(gone) = unreported + reported

Held(x) == x \in Items(queue) \/ \E f \in Shipping!Flushers : x \in Items(batch[f])

\* The records there are, and none of them is missing.
NoneMissing ==
  /\ \A x : Held(x) \/ x \in gone => x \in 1 .. emitted
  /\ \A x \in 1 .. emitted : Held(x) \/ x \in received \/ x \in gone

Shipped == ShippingTyped /\ OncePlaced /\ GoneIsCounted /\ NoneMissing

LEMMA InitShipped == Shipping!Init => Shipped
<1> SUFFICES ASSUME Shipping!Init PROVE Shipped
  OBVIOUS
<1>1. /\ queue = << >> /\ emitted = 0 /\ unreported = 0 /\ gone = {} /\ reported = 0
      /\ at = [f \in Shipping!Flushers |-> IF f = "worker" THEN "waits" ELSE "off"]
      /\ batch = [f \in Shipping!Flushers |-> << >>]
  BY DEF Shipping!Init
<1>2. Items(<< >>) = {} /\ Distinct(<< >>) /\ << >> \in Seq(Nat)
  BY DEF Items, Distinct
<1>3. ShippingTyped
  BY <1>1, <1>2 DEF ShippingTyped, Places
<1>4. OncePlaced
  BY <1>1, <1>2 DEF OncePlaced
<1>5. GoneIsCounted
  BY <1>1, <1>2, FS_EmptySet DEF GoneIsCounted
<1>6. NoneMissing
  BY <1>1, <1>2 DEF NoneMissing, Held
<1> QED
  BY <1>3, <1>4, <1>5, <1>6 DEF Shipped

\* A step that moves no record and drops none.
LEMMA NothingMoves ==
  ASSUME Shipped, UNCHANGED <<queue, emitted, unreported, batch, gone, reported>>,
         received \subseteq received', at' \in [Shipping!Flushers -> Places],
         \A f \in Shipping!Flushers : batch[f] # << >> => at'[f] \in {"post", "return"}
  PROVE  Shipped'
<1>1. ShippingTyped'
  BY DEF Shipped, ShippingTyped
<1>2. OncePlaced'
  BY DEF Shipped, OncePlaced
<1>3. GoneIsCounted'
  BY DEF Shipped, GoneIsCounted
<1>4. NoneMissing'
  BY DEF Shipped, NoneMissing, Held
<1> QED
  BY <1>1, <1>2, <1>3, <1>4 DEF Shipped

\* A record is emitted: it goes to the end, and the oldest makes room.
LEMMA EmitIsShipped ==
  ASSUME Shipped, Shipping!Emit
  PROVE  Shipped'
<1> DEFINE x == emitted + 1
<1>1. /\ emitted' = x /\ UNCHANGED <<batch, at, received, reported>>
      /\ \/ queue' = Append(queue, x) /\ UNCHANGED <<unreported, gone>>
         \/ /\ Len(queue) >= MaxQueued /\ queue' = Append(Tail(queue), x)
            /\ unreported' = unreported + 1 /\ gone' = gone \cup {Head(queue)}
  BY ShippingLimitsAssumption DEF Shipping!Emit, Shipping!history, Shipping!ShippingAssumption,
     Shipped, ShippingTyped
<1>2. emitted \in Nat /\ x \in Nat /\ x \notin 1 .. emitted /\ 1 .. x = 1 .. emitted \cup {x}
  BY DEF Shipped, ShippingTyped
<1> HIDE DEF x
<1>3. queue \in Seq(Nat) /\ Distinct(queue)
  BY DEF Shipped, ShippingTyped, OncePlaced
<1>4. ~Held(x) /\ x \notin gone
  BY <1>2 DEF Shipped, NoneMissing
<1>5. x \notin Items(queue) /\ \A f \in Shipping!Flushers : x \notin Items(batch[f])
  BY <1>4 DEF Held
<1>6. PICK kept \in Seq(Nat) :
        /\ Distinct(kept) /\ queue' = Append(kept, x)
        /\ \/ kept = queue /\ UNCHANGED <<unreported, gone>>
           \/ /\ Items(queue) = {Head(queue)} \cup Items(kept) /\ Head(queue) \notin Items(kept)
              /\ unreported' = unreported + 1 /\ gone' = gone \cup {Head(queue)}
<2>1. CASE queue' = Append(queue, x) /\ UNCHANGED <<unreported, gone>>
  BY <1>3, <2>1
<2>2. CASE /\ Len(queue) >= MaxQueued /\ queue' = Append(Tail(queue), x)
           /\ unreported' = unreported + 1 /\ gone' = gone \cup {Head(queue)}
<3>1. queue # << >>
  BY <2>2, ShippingLimitsAssumption DEF Shipping!ShippingAssumption
<3> QED
  BY <1>3, <2>2, <3>1, OneLess
<2> QED
  BY <1>1, <2>1, <2>2
<1>7. Items(kept) \subseteq Items(queue)
  BY <1>6
<1>8. /\ queue' \in Seq(Nat) /\ Distinct(queue')
      /\ Items(queue') = Items(kept) \cup {x}
  BY <1>2, <1>5, <1>6, <1>7, OneMore
<1>9. ShippingTyped'
  BY <1>1, <1>2, <1>6, <1>8 DEF Shipped, ShippingTyped
<1>10. OncePlaced'
  BY <1>1, <1>5, <1>7, <1>8 DEF Shipped, OncePlaced
<1>11. gone' \cap Items(queue') = {} /\ \A f \in Shipping!Flushers : gone' \cap Items(batch[f]) = {}
<2>1. /\ gone \cap Items(queue) = {}
      /\ \A f \in Shipping!Flushers : /\ gone \cap Items(batch[f]) = {}
                                      /\ Items(queue) \cap Items(batch[f]) = {}
  BY DEF Shipped, GoneIsCounted, OncePlaced
<2>2. CASE gone' = gone
  BY <1>4, <1>7, <1>8, <2>1, <2>2
<2>3. CASE /\ Items(queue) = {Head(queue)} \cup Items(kept) /\ Head(queue) \notin Items(kept)
           /\ gone' = gone \cup {Head(queue)}
<3>1. Head(queue) \in Items(queue) /\ Head(queue) # x
  BY <1>5, <2>3
<3> QED
  BY <1>4, <1>7, <1>8, <2>1, <2>3, <3>1
<2> QED
  BY <1>6, <2>2, <2>3
<1>12. IsFiniteSet(gone') /\ Cardinality(gone') = unreported' + reported
<2>1. CASE UNCHANGED <<unreported, gone>>
  BY <2>1 DEF Shipped, GoneIsCounted
<2>2. CASE /\ Items(queue) = {Head(queue)} \cup Items(kept)
           /\ unreported' = unreported + 1 /\ gone' = gone \cup {Head(queue)}
<3>1. Head(queue) \notin gone
  BY <2>2 DEF Shipped, GoneIsCounted
<3>2. IsFiniteSet(gone) /\ Cardinality(gone) = unreported + reported
  BY DEF Shipped, GoneIsCounted
<3>3. unreported \in Nat /\ reported \in Nat
  BY DEF Shipped, ShippingTyped
<3>4. /\ IsFiniteSet(gone \cup {Head(queue)})
      /\ Cardinality(gone \cup {Head(queue)}) = Cardinality(gone) + 1
  BY <3>1, <3>2, FS_AddElement
<3>5. Cardinality(gone') = (unreported + 1) + reported
  BY <2>2, <3>2, <3>3, <3>4
<3> QED
  BY <2>2, <3>4, <3>5
<2> QED
  BY <1>6, <2>1, <2>2
<1>13. GoneIsCounted'
  BY <1>1, <1>11, <1>12 DEF GoneIsCounted
<1>14. \A y : Held(y)' \/ y \in gone' <=> Held(y) \/ y \in gone \/ y = x
  BY <1>1, <1>6, <1>8 DEF Held
<1>15. NoneMissing'
<2>1. \A y : Held(y)' \/ y \in gone' => y \in 1 .. emitted'
  BY <1>1, <1>2, <1>14 DEF Shipped, NoneMissing
<2>2. \A y \in 1 .. emitted' : Held(y)' \/ y \in received' \/ y \in gone'
  BY <1>1, <1>2, <1>14 DEF Shipped, NoneMissing
<2> QED
  BY <2>1, <2>2 DEF NoneMissing
<1> QED
  BY <1>9, <1>10, <1>13, <1>15 DEF Shipped

\* What flush returns to holds no batch.
LEMMA ReturnsTyped ==
  ASSUME Shipped, NEW f \in Shipping!Flushers, Shipping!Returns(f)
  PROVE  /\ at' \in [Shipping!Flushers -> Places]
         /\ \A g \in Shipping!Flushers \ {f} : at'[g] = at[g]
  BY DEF Shipping!Returns, Shipped, ShippingTyped, Places

\* A batch is taken from the front of the queue.
LEMMA TakeIsShipped ==
  ASSUME Shipped, NEW f \in Shipping!Flushers, Shipping!Take(f)
  PROVE  Shipped'
<1> DEFINE n == IF Len(queue) < BatchSize THEN Len(queue) ELSE BatchSize
<1>1. /\ at[f] = "flush" /\ UNCHANGED <<emitted, unreported, gone, received, reported>>
      /\ \/ Shipping!Returns(f) /\ UNCHANGED <<queue, batch>>
         \/ /\ batch' = [batch EXCEPT ![f] = SubSeq(queue, 1, n)]
            /\ queue' = SubSeq(queue, n + 1, Len(queue))
            /\ at' = [at EXCEPT ![f] = "post"]
  BY DEF Shipping!Take, Shipping!history
<1>2. batch[f] = << >>
  BY <1>1 DEF Shipped, OncePlaced
<1>3. CASE Shipping!Returns(f) /\ UNCHANGED <<queue, batch>>
<2>1. \A g \in Shipping!Flushers : batch[g] # << >> => at'[g] \in {"post", "return"}
  BY <1>2, <1>3, ReturnsTyped DEF Shipped, OncePlaced
<2> QED
  BY <1>1, <1>3, <2>1, ReturnsTyped, NothingMoves
<1>4. CASE /\ batch' = [batch EXCEPT ![f] = SubSeq(queue, 1, n)]
           /\ queue' = SubSeq(queue, n + 1, Len(queue))
           /\ at' = [at EXCEPT ![f] = "post"]
<2>1. queue \in Seq(Nat) /\ Distinct(queue) /\ batch \in [Shipping!Flushers -> Seq(Nat)]
  BY DEF Shipped, ShippingTyped, OncePlaced
<2>2. n \in 0 .. Len(queue)
<3>1. Len(queue) \in Nat /\ BatchSize \in Nat
  BY <2>1, LenProperties, ShippingLimitsAssumption DEF Shipping!ShippingAssumption
<3> QED
  BY <3>1
<2> HIDE DEF n
<2>3. /\ SubSeq(queue, 1, n) \in Seq(Nat) /\ queue' \in Seq(Nat)
      /\ Distinct(SubSeq(queue, 1, n)) /\ Distinct(queue')
      /\ Items(SubSeq(queue, 1, n)) \cup Items(queue') = Items(queue)
      /\ Items(SubSeq(queue, 1, n)) \cap Items(queue') = {}
  BY <1>4, <2>1, <2>2, CutInTwo
<2>4. /\ batch'[f] = SubSeq(queue, 1, n) /\ at'[f] = "post"
      /\ \A g \in Shipping!Flushers \ {f} : batch'[g] = batch[g] /\ at'[g] = at[g]
      /\ batch' \in [Shipping!Flushers -> Seq(Nat)] /\ at' \in [Shipping!Flushers -> Places]
  BY <1>4, <2>1, <2>3 DEF Shipped, ShippingTyped, Places
<2>5. ShippingTyped'
  BY <1>1, <2>3, <2>4 DEF Shipped, ShippingTyped
<2>6. OncePlaced'
<3>1. \A g \in Shipping!Flushers :
        /\ Distinct(batch'[g]) /\ Items(queue') \cap Items(batch'[g]) = {}
        /\ batch'[g] # << >> => at'[g] \in {"post", "return"}
  BY <2>3, <2>4 DEF Shipped, OncePlaced
<3>2. \A g, h \in Shipping!Flushers : g # h => Items(batch'[g]) \cap Items(batch'[h]) = {}
  BY <2>3, <2>4 DEF Shipped, OncePlaced
<3> QED
  BY <2>3, <3>1, <3>2 DEF OncePlaced
<2>7. GoneIsCounted'
<3>1. gone \cap Items(queue') = {} /\ \A g \in Shipping!Flushers : gone \cap Items(batch'[g]) = {}
  BY <2>3, <2>4 DEF Shipped, GoneIsCounted
<3> QED
  BY <1>1, <3>1 DEF Shipped, GoneIsCounted
<2>8. \A y : Held(y)' <=> Held(y)
<3>1. Items(batch[f]) = {}
  BY <1>2 DEF Items
<3> QED
  BY <2>3, <2>4, <3>1 DEF Held
<2>9. NoneMissing'
  BY <1>1, <2>8 DEF Shipped, NoneMissing
<2> QED
  BY <2>5, <2>6, <2>7, <2>9 DEF Shipped
<1> QED
  BY <1>1, <1>3, <1>4

\* The collector has the batch, and is told how many were dropped.
LEMMA DeliverIsShipped ==
  ASSUME Shipped, NEW f \in Shipping!Flushers, Shipping!Deliver(f)
  PROVE  Shipped'
<1>1. /\ batch' = [batch EXCEPT ![f] = << >>] /\ Shipping!Returns(f)
      /\ received' = received \cup Shipping!ToSet(batch[f])
      /\ reported' = reported + unreported /\ unreported' = 0
      /\ UNCHANGED <<queue, emitted, gone>>
  BY DEF Shipping!Deliver
<1>2. /\ batch \in [Shipping!Flushers -> Seq(Nat)] /\ << >> \in Seq(Nat)
      /\ Items(<< >>) = {} /\ Distinct(<< >>)
  BY DEF Shipped, ShippingTyped, Items, Distinct
<1>3. /\ batch'[f] = << >> /\ batch' \in [Shipping!Flushers -> Seq(Nat)]
      /\ \A g \in Shipping!Flushers \ {f} : batch'[g] = batch[g]
  BY <1>1, <1>2
<1>4. at' \in [Shipping!Flushers -> Places] /\ \A g \in Shipping!Flushers \ {f} : at'[g] = at[g]
  BY <1>1, ReturnsTyped
<1>5. received' = received \cup Items(batch[f])
<2>1. batch[f] \in Seq(Nat)
  BY <1>2
<2> QED
  BY <1>1, <2>1, ItemsAreTheSet
<1>6. ShippingTyped'
  BY <1>1, <1>3, <1>4 DEF Shipped, ShippingTyped
<1>7. OncePlaced'
  BY <1>1, <1>2, <1>3, <1>4 DEF Shipped, OncePlaced
<1>8. GoneIsCounted'
<2>1. unreported + reported = unreported' + reported'
  BY <1>1 DEF Shipped, ShippingTyped
<2>2. \A g \in Shipping!Flushers : gone \cap Items(batch'[g]) = {}
  BY <1>2, <1>3 DEF Shipped, GoneIsCounted
<2> QED
  BY <1>1, <2>1, <2>2 DEF Shipped, GoneIsCounted
<1>9. NoneMissing'
<2>1. \A y : Held(y)' => Held(y)
  BY <1>1, <1>2, <1>3 DEF Held
<2>2. \A y : Held(y) => Held(y)' \/ y \in received'
  BY <1>1, <1>2, <1>3, <1>5 DEF Held
<2>3. \A y : Held(y)' \/ y \in gone' => y \in 1 .. emitted'
  BY <1>1, <2>1 DEF Shipped, NoneMissing
<2>4. \A y \in 1 .. emitted' : Held(y)' \/ y \in received' \/ y \in gone'
  BY <1>1, <1>5, <2>2 DEF Shipped, NoneMissing
<2> QED
  BY <2>3, <2>4 DEF NoneMissing
<1> QED
  BY <1>6, <1>7, <1>8, <1>9 DEF Shipped

\* What a failed delivery held goes back to the front; the oldest of all make room.
LEMMA PutBackIsShipped ==
  ASSUME Shipped, NEW f \in Shipping!Flushers, Shipping!PutBack(f)
  PROVE  Shipped'
<1> DEFINE waiting == batch[f] \o queue
           overflow == IF Len(waiting) > MaxQueued THEN Len(waiting) - MaxQueued ELSE 0
           out == SubSeq(waiting, 1, overflow)
<1>1. /\ queue' = SubSeq(waiting, overflow + 1, Len(waiting))
      /\ unreported' = unreported + overflow
      /\ gone' = gone \cup Shipping!ToSet(out)
      /\ batch' = [batch EXCEPT ![f] = << >>] /\ Shipping!Returns(f)
      /\ UNCHANGED <<emitted, received, reported>>
  BY DEF Shipping!PutBack, Shipping!history
<1>2. /\ batch \in [Shipping!Flushers -> Seq(Nat)] /\ << >> \in Seq(Nat)
      /\ Items(<< >>) = {} /\ Distinct(<< >>)
  BY DEF Shipped, ShippingTyped, Items, Distinct
<1>3. /\ batch'[f] = << >> /\ batch' \in [Shipping!Flushers -> Seq(Nat)]
      /\ \A g \in Shipping!Flushers \ {f} : batch'[g] = batch[g]
  BY <1>1, <1>2
<1>4. at' \in [Shipping!Flushers -> Places] /\ \A g \in Shipping!Flushers \ {f} : at'[g] = at[g]
  BY <1>1, ReturnsTyped
<1>5. /\ waiting \in Seq(Nat) /\ Distinct(waiting)
      /\ Items(waiting) = Items(batch[f]) \cup Items(queue)
<2>1. batch[f] \in Seq(Nat) /\ queue \in Seq(Nat)
  BY <1>2 DEF Shipped, ShippingTyped
<2>2. Distinct(batch[f]) /\ Distinct(queue) /\ Items(batch[f]) \cap Items(queue) = {}
  BY DEF Shipped, OncePlaced
<2> QED
  BY <2>1, <2>2, OneBehindTheOther
<1>6. overflow \in 0 .. Len(waiting)
<2>1. Len(waiting) \in Nat /\ MaxQueued \in Nat
  BY <1>5, LenProperties, ShippingLimitsAssumption DEF Shipping!ShippingAssumption
<2> QED
  BY <2>1
<1> HIDE DEF waiting, overflow
<1>7. /\ out \in Seq(Nat) /\ queue' \in Seq(Nat) /\ Distinct(out) /\ Distinct(queue')
      /\ Items(out) \cup Items(queue') = Items(batch[f]) \cup Items(queue)
      /\ Items(out) \cap Items(queue') = {} /\ Len(out) = overflow
  BY <1>1, <1>5, <1>6, CutInTwo
<1>8. overflow \in Nat
  BY <1>6, <1>5, LenProperties
<1> HIDE DEF out
<1>9. gone' = gone \cup Items(out)
  BY <1>1, <1>7, ItemsAreTheSet
<1>10. ShippingTyped'
  BY <1>1, <1>3, <1>4, <1>7, <1>8 DEF Shipped, ShippingTyped
<1>11. \A g \in Shipping!Flushers \ {f} : (Items(out) \cup Items(queue')) \cap Items(batch[g]) = {}
  BY <1>7 DEF Shipped, OncePlaced
<1>12. OncePlaced'
<2>1. \A g \in Shipping!Flushers :
        /\ Distinct(batch'[g]) /\ Items(queue') \cap Items(batch'[g]) = {}
        /\ batch'[g] # << >> => at'[g] \in {"post", "return"}
  BY <1>2, <1>3, <1>4, <1>11 DEF Shipped, OncePlaced
<2>2. \A g, h \in Shipping!Flushers : g # h => Items(batch'[g]) \cap Items(batch'[h]) = {}
  BY <1>2, <1>3 DEF Shipped, OncePlaced
<2> QED
  BY <1>7, <2>1, <2>2 DEF OncePlaced
<1>13. gone \cap (Items(out) \cup Items(queue')) = {}
  BY <1>7 DEF Shipped, GoneIsCounted
<1>14. GoneIsCounted'
<2>1. IsFiniteSet(Items(out)) /\ Cardinality(Items(out)) = overflow
  BY <1>7, AsManyAsPlaces
<2>2. IsFiniteSet(gone) /\ Cardinality(gone) = unreported + reported /\ gone \cap Items(out) = {}
  BY <1>13 DEF Shipped, GoneIsCounted
<2>3. unreported \in Nat /\ reported \in Nat
  BY DEF Shipped, ShippingTyped
<2>4. /\ IsFiniteSet(gone \cup Items(out))
      /\ Cardinality(gone \cup Items(out)) = Cardinality(gone) + Cardinality(Items(out)) - 0
  BY <2>1, <2>2, FS_Union, FS_EmptySet
<2>5. IsFiniteSet(gone') /\ Cardinality(gone') = unreported' + reported'
<3>1. Cardinality(gone \cup Items(out)) = (unreported + overflow) + reported
  BY <1>8, <2>1, <2>2, <2>3, <2>4
<3>2. Cardinality(gone') = (unreported + overflow) + reported
  BY <1>9, <3>1
<3> QED
  BY <1>1, <1>9, <2>4, <3>2
<2>6. gone' \cap Items(queue') = {}
  BY <1>7, <1>9, <1>13
<2>7. \A g \in Shipping!Flushers : gone' \cap Items(batch'[g]) = {}
<3> SUFFICES ASSUME NEW g \in Shipping!Flushers PROVE gone' \cap Items(batch'[g]) = {}
  OBVIOUS
<3>1. CASE g = f
  BY <1>2, <1>3, <3>1
<3>2. CASE g # f
<4>1. gone \cap Items(batch[g]) = {}
  BY DEF Shipped, GoneIsCounted
<4> QED
  BY <1>3, <1>9, <1>11, <3>2, <4>1
<3> QED
  BY <3>1, <3>2
<2> QED
  BY <2>5, <2>6, <2>7 DEF GoneIsCounted
<1>15. \A y : Held(y)' \/ y \in gone' <=> Held(y) \/ y \in gone
  BY <1>2, <1>3, <1>7, <1>9 DEF Held
<1>16. NoneMissing'
<2>1. \A y : Held(y)' \/ y \in gone' => y \in 1 .. emitted'
  BY <1>1, <1>15 DEF Shipped, NoneMissing
<2>2. \A y \in 1 .. emitted' : Held(y)' \/ y \in received' \/ y \in gone'
  BY <1>1, <1>15 DEF Shipped, NoneMissing
<2> QED
  BY <2>1, <2>2 DEF NoneMissing
<1> QED
  BY <1>10, <1>12, <1>14, <1>16 DEF Shipped

LEMMA StepShipped == Shipped /\ [Shipping!Next]_shippingVars => Shipped'
<1> SUFFICES ASSUME Shipped, [Shipping!Next]_shippingVars PROVE Shipped'
  OBVIOUS
<1>0. ASSUME at' \in [Shipping!Flushers -> Places], received \subseteq received',
             UNCHANGED <<queue, emitted, unreported, batch, gone, reported>>,
             \A f \in Shipping!Flushers : at'[f] = at[f] \/ batch[f] = << >> \/ at'[f] = "return"
      PROVE  Shipped'
<2>1. \A f \in Shipping!Flushers : batch[f] # << >> => at'[f] \in {"post", "return"}
  BY <1>0 DEF Shipped, OncePlaced
<2> QED
  BY <1>0, <2>1, NothingMoves
<1>1. at \in [Shipping!Flushers -> Places]
  BY DEF Shipped, ShippingTyped
<1>2. \A f \in Shipping!Flushers : at[f] \notin {"post", "return"} => batch[f] = << >>
  BY DEF Shipped, OncePlaced
<1>3. CASE Shipping!Emit
  BY <1>3, EmitIsShipped
<1>4. CASE Shipping!Wake
<2>1. /\ at["worker"] = "waits" /\ at' = [at EXCEPT !["worker"] = "flush"]
      /\ UNCHANGED <<queue, emitted, unreported, batch, gone, reported, received>>
  BY <1>4 DEF Shipping!Wake, Shipping!history
<2>2. at' \in [Shipping!Flushers -> Places]
  BY <1>1, <2>1 DEF Places
<2>3. \A f \in Shipping!Flushers : at'[f] = at[f] \/ batch[f] = << >>
  BY <1>1, <1>2, <2>1
<2> QED
  BY <1>0, <2>1, <2>2, <2>3
<1>5. CASE Shipping!AskAgain
<2>1. UNCHANGED <<at, queue, emitted, unreported, batch, gone, reported, received>>
  BY <1>5 DEF Shipping!AskAgain
<2> QED
  BY <1>0, <1>1, <2>1
<1>6. ASSUME NEW f \in Shipping!Flushers, Shipping!ForceFlush(f) \/ Shipping!Again(f)
      PROVE  Shipped'
<2>1. PICK p \in {"again", "flush", "done"} :
        /\ at[f] \in {"off", "again"} /\ at' = [at EXCEPT ![f] = p]
        /\ UNCHANGED <<queue, emitted, unreported, batch, gone, reported, received>>
  BY <1>6 DEF Shipping!ForceFlush, Shipping!Again, Shipping!history
<2>2. at' \in [Shipping!Flushers -> Places]
  BY <1>1, <2>1 DEF Places
<2>3. \A g \in Shipping!Flushers : at'[g] = at[g] \/ batch[g] = << >>
  BY <1>1, <1>2, <2>1
<2> QED
  BY <1>0, <2>1, <2>2, <2>3
<1>7. ASSUME NEW f \in Shipping!Flushers, Shipping!Fail(f) PROVE Shipped'
<2>1. /\ at' = [at EXCEPT ![f] = "return"] /\ received \subseteq received'
      /\ UNCHANGED <<queue, emitted, unreported, batch, gone, reported>>
  BY <1>7 DEF Shipping!Fail
<2>2. at' \in [Shipping!Flushers -> Places]
  BY <1>1, <2>1 DEF Places
<2>3. \A g \in Shipping!Flushers : at'[g] = at[g] \/ at'[g] = "return"
  BY <1>1, <2>1
<2> QED
  BY <1>0, <2>1, <2>2, <2>3
<1>8. ASSUME NEW f \in Shipping!Flushers,
             Shipping!Take(f) \/ Shipping!Deliver(f) \/ Shipping!PutBack(f)
      PROVE  Shipped'
  BY <1>8, TakeIsShipped, DeliverIsShipped, PutBackIsShipped
<1>9. CASE UNCHANGED shippingVars
<2>1. UNCHANGED <<at, queue, emitted, unreported, batch, gone, reported, received>>
  BY <1>9 DEF shippingVars
<2> QED
  BY <1>0, <1>1, <2>1
<1> QED
  BY <1>3, <1>4, <1>5, <1>6, <1>7, <1>8, <1>9 DEF Shipping!Next, Shipping!Proceed

\* From the invariant to what it is for: the three parts of EveryRecordIsAccountedFor.
LEMMA ShippedAccounts == Shipped => Shipping!EveryRecordIsAccountedFor
<1> SUFFICES ASSUME Shipped PROVE Shipping!EveryRecordIsAccountedFor
  OBVIOUS
<1>1. /\ Shipping!ToSet(queue) = Items(queue)
      /\ \A f \in Shipping!Flushers : Shipping!ToSet(batch[f]) = Items(batch[f])
<2>1. queue \in Seq(Nat) /\ \A f \in Shipping!Flushers : batch[f] \in Seq(Nat)
  BY DEF Shipped, ShippingTyped
<2> QED
  BY <2>1, ItemsAreTheSet
<1>2. 1 .. emitted \subseteq Shipping!ToSet(queue) \cup Shipping!InFlight \cup received \cup gone
  BY <1>1 DEF Shipping!InFlight, Shipped, NoneMissing, Held
<1>3. Shipping!Cardinality(gone) = unreported + reported
  BY DEF Shipping!Cardinality, Cardinality, Shipped, GoneIsCounted
<1>4. \A f, g \in Shipping!Flushers :
        f # g => Shipping!ToSet(batch[f]) \cap Shipping!ToSet(batch[g]) = {}
  BY <1>1 DEF Shipped, OncePlaced
<1> QED
  BY <1>2, <1>3, <1>4 DEF Shipping!EveryRecordIsAccountedFor

-----------------------------------------------------------------------------
(* The order of the records                                                *)

\* What has arrived has been emitted; and unless flushes have overlapped, there is one batch,
\* older than what waits, and whoever has left for good is older than both.
InOrder ==
  /\ \A x \in received : x \in 1 .. emitted
  /\ ~overlapped =>
       /\ Rises(queue)
       /\ \A f \in Shipping!Flushers : Rises(batch[f])
       /\ \A f, g \in Shipping!Flushers : f = g \/ batch[f] = << >> \/ batch[g] = << >>
       /\ \A f \in Shipping!Flushers : \A x \in Items(batch[f]), y \in Items(queue) : x < y
       /\ \A x \in received : \A y : Held(y) => x < y \/ Held(x) \/ x \in gone

LEMMA EmitInOrder ==
  ASSUME Shipped, InOrder, Shipping!Emit
  PROVE  InOrder'
<1> DEFINE x == emitted + 1
<1>1. /\ emitted' = x /\ UNCHANGED <<batch, received, overlapped>>
      /\ \/ queue' = Append(queue, x) /\ UNCHANGED gone
         \/ /\ queue # << >> /\ queue' = Append(Tail(queue), x)
            /\ gone' = gone \cup {Head(queue)}
<2>1. queue \in Seq(Nat) /\ (Len(queue) >= MaxQueued => queue # << >>)
  BY ShippingLimitsAssumption DEF Shipped, ShippingTyped, Shipping!ShippingAssumption
<2> QED
  BY <2>1, ShippingLimitsAssumption DEF Shipping!Emit, Shipping!history, Shipping!ShippingAssumption
<1>2. emitted \in Nat /\ x \in Nat /\ \A y \in 1 .. emitted : y < x /\ y \in 1 .. x
  BY DEF Shipped, ShippingTyped
<1> HIDE DEF x
<1>3. queue \in Seq(Nat) /\ Distinct(queue)
  BY DEF Shipped, ShippingTyped, OncePlaced
<1>4. \A y : Held(y) \/ y \in received => y < x /\ y \in 1 .. emitted
  BY <1>2 DEF Shipped, NoneMissing, InOrder
<1>5. x \notin Items(queue)
<2>1. ~(x < x)
  BY <1>2
<2> QED
  BY <1>4, <2>1 DEF Held
<1>6. \A y \in received' : y \in 1 .. emitted'
  BY <1>1, <1>2, <1>4
<1>7. PICK kept \in Seq(Nat) :
        /\ queue' = Append(kept, x) /\ Items(queue') = Items(kept) \cup {x}
        /\ Items(kept) \subseteq Items(queue)
        /\ \A y \in Items(queue) : y \in Items(kept) \/ y \in gone'
        /\ gone \subseteq gone'
        /\ Rises(queue) => Rises(kept)
<2>1. CASE queue' = Append(queue, x) /\ UNCHANGED gone
  BY <1>2, <1>3, <1>5, <2>1, OneMore
<2>2. CASE /\ queue # << >> /\ queue' = Append(Tail(queue), x)
           /\ gone' = gone \cup {Head(queue)}
<3>1. /\ Tail(queue) \in Seq(Nat) /\ Distinct(Tail(queue))
      /\ Items(queue) = {Head(queue)} \cup Items(Tail(queue))
  BY <1>3, <2>2, OneLess
<3>2. Items(queue') = Items(Tail(queue)) \cup {x}
<4>1. x \notin Items(Tail(queue))
  BY <1>5, <3>1
<4>2. ASSUME NEW s \in Seq(Nat), Distinct(s), x \notin Items(s)
      PROVE  Items(Append(s, x)) = Items(s) \cup {x}
  BY <1>2, <4>2, OneMore
<4> QED
  BY <2>2, <3>1, <4>1, <4>2
<3>3. Rises(queue) => Rises(Tail(queue))
  BY <1>3, <2>2, TailRises
<3> QED
  BY <2>2, <3>1, <3>2, <3>3
<2> QED
  BY <1>1, <2>1, <2>2
<1>8. ASSUME ~overlapped'
      PROVE  /\ Rises(queue')
             /\ \A f \in Shipping!Flushers : \A z \in Items(batch'[f]), y \in Items(queue') : z < y
             /\ \A z \in received' : \A y : Held(y)' => z < y \/ Held(z)' \/ z \in gone'
<2>1. Rises(queue')
<3>1. \A y \in Items(kept) : y < x
  BY <1>4, <1>7 DEF Held
<3> QED
  BY <1>1, <1>2, <1>7, <1>8, <3>1, AppendRises DEF InOrder
<2>2. \A f \in Shipping!Flushers : \A z \in Items(batch'[f]), y \in Items(queue') : z < y
  BY <1>1, <1>4, <1>7, <1>8 DEF InOrder, Held
<2>3. \A y : /\ Held(y)' => Held(y) \/ y = x
             /\ Held(y) => Held(y)' \/ y \in gone'
  BY <1>1, <1>7 DEF Held
<2>4. \A z \in received' : \A y : Held(y)' => z < y \/ Held(z)' \/ z \in gone'
  BY <1>1, <1>4, <1>7, <1>8, <2>3 DEF InOrder
<2> QED
  BY <2>1, <2>2, <2>4
<1> QED
  BY <1>1, <1>6, <1>8 DEF InOrder

\* A step that moves no record, but may tell the collector what is under way.
LEMMA StaysInOrder ==
  ASSUME Shipped, InOrder, UNCHANGED <<queue, emitted, batch, gone, overlapped>>,
         received \subseteq received', \A x \in received' : x \in received \/ Held(x)
  PROVE  InOrder'
<1>1. \A x : Held(x)' <=> Held(x)
  BY DEF Held
<1>2. \A x \in received' : x \in 1 .. emitted
  BY DEF InOrder, Shipped, NoneMissing
<1> QED
  BY <1>1, <1>2 DEF InOrder

LEMMA TakeInOrder ==
  ASSUME Shipped, InOrder, NEW f \in Shipping!Flushers, Shipping!Take(f)
  PROVE  InOrder'
<1> DEFINE n == IF Len(queue) < BatchSize THEN Len(queue) ELSE BatchSize
<1>1. /\ UNCHANGED <<emitted, gone, received>>
      /\ \/ UNCHANGED <<queue, batch, overlapped>>
         \/ /\ batch' = [batch EXCEPT ![f] = SubSeq(queue, 1, n)]
            /\ queue' = SubSeq(queue, n + 1, Len(queue))
            /\ overlapped' = (overlapped \/ Shipping!InFlight # {})
  BY DEF Shipping!Take, Shipping!history
<1>2. CASE UNCHANGED <<queue, batch, overlapped>>
  BY <1>1, <1>2, StaysInOrder
<1>3. CASE /\ batch' = [batch EXCEPT ![f] = SubSeq(queue, 1, n)]
           /\ queue' = SubSeq(queue, n + 1, Len(queue))
           /\ overlapped' = (overlapped \/ Shipping!InFlight # {})
<2>1. /\ queue \in Seq(Nat) /\ Distinct(queue) /\ batch \in [Shipping!Flushers -> Seq(Nat)]
      /\ Items(<< >>) = {}
  BY DEF Shipped, ShippingTyped, OncePlaced, Items
<2>2. n \in 0 .. Len(queue)
<3>1. Len(queue) \in Nat /\ BatchSize \in Nat
  BY <2>1, LenProperties, ShippingLimitsAssumption DEF Shipping!ShippingAssumption
<3> QED
  BY <3>1
<2> HIDE DEF n
<2>3. \A x \in received' : x \in 1 .. emitted'
  BY <1>1 DEF InOrder
<2> SUFFICES ASSUME ~overlapped'
             PROVE  /\ Rises(queue')
                    /\ \A g \in Shipping!Flushers : Rises(batch'[g])
                    /\ \A g, h \in Shipping!Flushers : g = h \/ batch'[g] = << >> \/ batch'[h] = << >>
                    /\ \A g \in Shipping!Flushers : \A x \in Items(batch'[g]), y \in Items(queue') : x < y
                    /\ \A x \in received : \A y : Held(y)' => x < y \/ Held(x)' \/ x \in gone
  BY <1>1, <2>3 DEF InOrder
<2>4. ~overlapped /\ \A g \in Shipping!Flushers : batch[g] = << >>
<3>1. ~overlapped /\ Shipping!InFlight = {}
  BY <1>3
<3> SUFFICES ASSUME NEW g \in Shipping!Flushers PROVE batch[g] = << >>
  BY <3>1
<3>2. batch[g] \in Seq(Nat) /\ Shipping!ToSet(batch[g]) = {}
  BY <2>1, <3>1 DEF Shipping!InFlight
<3>3. Items(batch[g]) = {}
  BY <3>2, ItemsAreTheSet
<3>4. Len(batch[g]) \in Nat
  BY <3>2, LenProperties
<3>5. Len(batch[g]) = 0
<4> SUFFICES ASSUME 1 \in 1 .. Len(batch[g]) PROVE FALSE
  BY <3>4
<4>1. batch[g][1] \in Items(batch[g])
  BY DEF Items
<4> QED
  BY <3>3, <4>1
<3> QED
  BY <3>2, <3>5, EmptySeq
<2>5. Rises(queue)
  BY <2>4 DEF InOrder
<2>6. /\ Rises(SubSeq(queue, 1, n)) /\ Rises(queue')
      /\ \A x \in Items(SubSeq(queue, 1, n)), y \in Items(queue') : x < y
  BY <1>3, <2>1, <2>2, <2>5, CutRises
<2>7. Items(SubSeq(queue, 1, n)) \cup Items(queue') = Items(queue)
  BY <1>3, <2>1, <2>2, CutInTwo
<2>8. /\ batch'[f] = SubSeq(queue, 1, n)
      /\ \A g \in Shipping!Flushers \ {f} : batch'[g] = << >>
  BY <1>3, <2>1, <2>4
<2>9. Rises(<< >>)
  BY DEF Rises
<2>10. \A y : Held(y)' <=> Held(y)
  BY <2>1, <2>4, <2>7, <2>8 DEF Held
<2>11. \A x \in received : \A y : Held(y)' => x < y \/ Held(x)' \/ x \in gone
  BY <2>4, <2>10 DEF InOrder
<2>12. \A g \in Shipping!Flushers : Rises(batch'[g])
  BY <2>6, <2>8, <2>9
<2>13. \A g \in Shipping!Flushers : \A x \in Items(batch'[g]), y \in Items(queue') : x < y
  BY <2>1, <2>6, <2>8
<2> QED
  BY <2>6, <2>8, <2>11, <2>12, <2>13
<1> QED
  BY <1>1, <1>2, <1>3

LEMMA DeliverInOrder ==
  ASSUME Shipped, InOrder, NEW f \in Shipping!Flushers, Shipping!Deliver(f)
  PROVE  InOrder'
<1>1. /\ batch' = [batch EXCEPT ![f] = << >>]
      /\ received' = received \cup Shipping!ToSet(batch[f])
      /\ UNCHANGED <<queue, emitted, gone, overlapped>>
  BY DEF Shipping!Deliver
<1>2. batch \in [Shipping!Flushers -> Seq(Nat)] /\ Items(<< >>) = {} /\ Rises(<< >>)
  BY DEF Shipped, ShippingTyped, Items, Rises
<1>3. /\ batch'[f] = << >> /\ \A g \in Shipping!Flushers \ {f} : batch'[g] = batch[g]
  BY <1>1, <1>2
<1>4. received' = received \cup Items(batch[f])
<2>1. batch[f] \in Seq(Nat)
  BY <1>2
<2> QED
  BY <1>1, <2>1, ItemsAreTheSet
<1>5. \A x \in received' : x \in 1 .. emitted'
  BY <1>1, <1>4 DEF InOrder, Shipped, NoneMissing, Held
<1> SUFFICES ASSUME ~overlapped
             PROVE  /\ \A g \in Shipping!Flushers : Rises(batch'[g])
                    /\ \A g, h \in Shipping!Flushers : g = h \/ batch'[g] = << >> \/ batch'[h] = << >>
                    /\ \A g \in Shipping!Flushers : \A x \in Items(batch'[g]), y \in Items(queue) : x < y
                    /\ \A x \in received' : \A y : Held(y)' => x < y \/ Held(x)' \/ x \in gone
  BY <1>1, <1>5 DEF InOrder
<1>6. /\ \A g \in Shipping!Flushers : Rises(batch'[g])
      /\ \A g, h \in Shipping!Flushers : g = h \/ batch'[g] = << >> \/ batch'[h] = << >>
      /\ \A g \in Shipping!Flushers : \A x \in Items(batch'[g]), y \in Items(queue) : x < y
  BY <1>2, <1>3 DEF InOrder
<1>7. ASSUME NEW x \in received', NEW y, Held(y)'
      PROVE  x < y \/ Held(x)' \/ x \in gone
<2>1. Held(y)
  BY <1>1, <1>2, <1>3, <1>7 DEF Held
<2>2. CASE x \in Items(batch[f])
<3>1. \A g \in Shipping!Flushers \ {f} : batch[g] = << >>
  BY <1>2, <2>2 DEF InOrder
<3>2. y \in Items(queue)
  BY <1>1, <1>2, <1>3, <1>7, <3>1 DEF Held
<3> QED
  BY <2>2, <3>2 DEF InOrder
<2>3. CASE x \notin Items(batch[f])
<3>1. x \in received
  BY <1>4, <2>3
<3>2. Held(x) => Held(x)'
  BY <1>1, <1>3, <2>3 DEF Held
<3> QED
  BY <2>1, <3>1, <3>2 DEF InOrder
<2> QED
  BY <2>2, <2>3
<1> QED
  BY <1>6, <1>7

LEMMA PutBackInOrder ==
  ASSUME Shipped, InOrder, NEW f \in Shipping!Flushers, Shipping!PutBack(f)
  PROVE  InOrder'
<1> DEFINE waiting == batch[f] \o queue
           overflow == IF Len(waiting) > MaxQueued THEN Len(waiting) - MaxQueued ELSE 0
           out == SubSeq(waiting, 1, overflow)
<1>1. /\ queue' = SubSeq(waiting, overflow + 1, Len(waiting))
      /\ gone' = gone \cup Shipping!ToSet(out)
      /\ batch' = [batch EXCEPT ![f] = << >>]
      /\ UNCHANGED <<emitted, received, overlapped>>
  BY DEF Shipping!PutBack, Shipping!history
<1>2. batch \in [Shipping!Flushers -> Seq(Nat)] /\ Items(<< >>) = {} /\ Rises(<< >>)
  BY DEF Shipped, ShippingTyped, Items, Rises
<1>3. /\ batch'[f] = << >> /\ \A g \in Shipping!Flushers \ {f} : batch'[g] = batch[g]
  BY <1>1, <1>2
<1>4. batch[f] \in Seq(Nat) /\ queue \in Seq(Nat)
  BY <1>2 DEF Shipped, ShippingTyped
<1>5. /\ waiting \in Seq(Nat) /\ Distinct(waiting)
      /\ Items(waiting) = Items(batch[f]) \cup Items(queue)
<2>1. Distinct(batch[f]) /\ Distinct(queue) /\ Items(batch[f]) \cap Items(queue) = {}
  BY DEF Shipped, OncePlaced
<2> QED
  BY <1>4, <2>1, OneBehindTheOther
<1>6. overflow \in 0 .. Len(waiting)
<2>1. Len(waiting) \in Nat /\ MaxQueued \in Nat
  BY <1>5, LenProperties, ShippingLimitsAssumption DEF Shipping!ShippingAssumption
<2> QED
  BY <2>1
<1>7. ~overlapped => Rises(waiting)
  BY <1>4, JoinRises DEF InOrder
<1> HIDE DEF waiting, overflow
<1>8. /\ out \in Seq(Nat) /\ Items(out) \cup Items(queue') = Items(batch[f]) \cup Items(queue)
  BY <1>1, <1>5, <1>6, CutInTwo
<1>9. ~overlapped => Rises(queue')
  BY <1>1, <1>5, <1>6, <1>7, CutRises
<1> HIDE DEF out
<1>10. gone' = gone \cup Items(out)
  BY <1>1, <1>8, ItemsAreTheSet
<1>11. \A y : /\ Held(y)' => Held(y)
              /\ Held(y) => Held(y)' \/ y \in gone'
  BY <1>2, <1>3, <1>8, <1>10 DEF Held
<1>12. \A x \in received' : x \in 1 .. emitted'
  BY <1>1 DEF InOrder
<1> SUFFICES ASSUME ~overlapped
             PROVE  /\ \A g \in Shipping!Flushers : Rises(batch'[g])
                    /\ \A g, h \in Shipping!Flushers : g = h \/ batch'[g] = << >> \/ batch'[h] = << >>
                    /\ \A g \in Shipping!Flushers : \A x \in Items(batch'[g]), y \in Items(queue') : x < y
                    /\ \A x \in received : \A y : Held(y)' => x < y \/ Held(x)' \/ x \in gone'
  BY <1>1, <1>9, <1>12 DEF InOrder
<1>13. /\ \A g \in Shipping!Flushers : Rises(batch'[g])
       /\ \A g, h \in Shipping!Flushers : g = h \/ batch'[g] = << >> \/ batch'[h] = << >>
  BY <1>2, <1>3 DEF InOrder
<1>14. ASSUME NEW g \in Shipping!Flushers, NEW x \in Items(batch'[g]), NEW y \in Items(queue')
       PROVE  x < y
<2>1. g # f /\ x \in Items(batch[g]) /\ batch[g] # << >>
  BY <1>2, <1>3
<2>2. batch[f] = << >>
  BY <2>1 DEF InOrder
<2>3. y \in Items(queue)
  BY <1>2, <1>8, <2>2
<2> QED
  BY <2>1, <2>3 DEF InOrder
<1>15. \A x \in received : \A y : Held(y)' => x < y \/ Held(x)' \/ x \in gone'
  BY <1>10, <1>11 DEF InOrder
<1> QED
  BY <1>13, <1>14, <1>15

LEMMA StepInOrder == Shipped /\ InOrder /\ [Shipping!Next]_shippingVars => InOrder'
<1> SUFFICES ASSUME Shipped, InOrder, [Shipping!Next]_shippingVars PROVE InOrder'
  OBVIOUS
<1>1. ASSUME UNCHANGED <<queue, emitted, batch, gone, overlapped, received>> PROVE InOrder'
  BY <1>1, StaysInOrder
<1>2. CASE Shipping!Wake \/ Shipping!AskAgain \/ UNCHANGED shippingVars
  BY <1>1, <1>2 DEF Shipping!Wake, Shipping!AskAgain, Shipping!history, shippingVars
<1>3. ASSUME NEW f \in Shipping!Flushers, Shipping!ForceFlush(f) \/ Shipping!Again(f)
      PROVE  InOrder'
  BY <1>1, <1>3 DEF Shipping!ForceFlush, Shipping!Again, Shipping!history
<1>4. ASSUME NEW f \in Shipping!Flushers, Shipping!Fail(f) PROVE InOrder'
<2>1. /\ UNCHANGED <<queue, emitted, batch, gone, overlapped>>
      /\ received' \in {received, received \cup Shipping!ToSet(batch[f])}
  BY <1>4 DEF Shipping!Fail
<2>2. Shipping!ToSet(batch[f]) = Items(batch[f])
<3>1. batch[f] \in Seq(Nat)
  BY DEF Shipped, ShippingTyped
<3> QED
  BY <3>1, ItemsAreTheSet
<2>3. received \subseteq received' /\ \A x \in received' : x \in received \/ Held(x)
  BY <2>1, <2>2 DEF Held
<2> QED
  BY <2>1, <2>3, StaysInOrder
<1>5. ASSUME NEW f \in Shipping!Flushers,
             Shipping!Take(f) \/ Shipping!Deliver(f) \/ Shipping!PutBack(f)
      PROVE  InOrder'
  BY <1>5, TakeInOrder, DeliverInOrder, PutBackInOrder
<1> QED
  BY <1>2, <1>3, <1>4, <1>5, EmitInOrder DEF Shipping!Next, Shipping!Proceed

LEMMA InOrderPreserves == Shipped /\ InOrder => Shipping!OrderIsPreserved
<1> SUFFICES ASSUME Shipped, InOrder, ~overlapped
             PROVE  /\ Shipping!Rising(queue)
                    /\ \A f \in Shipping!Flushers : Shipping!Rising(batch[f])
                    /\ \A x \in Shipping!InFlight, y \in Shipping!ToSet(queue) : x < y
                    /\ \A x \in received \ (gone \cup Shipping!Unsent), y \in Shipping!Unsent : x < y
  BY DEF Shipping!OrderIsPreserved
<1>1. queue \in Seq(Nat) /\ \A f \in Shipping!Flushers : batch[f] \in Seq(Nat)
  BY DEF Shipped, ShippingTyped
<1>2. ASSUME NEW s \in Seq(Nat), Rises(s) PROVE Shipping!Rising(s)
<2>1. DOMAIN s = 1 .. Len(s)
  BY LenProperties
<2> QED
  BY <1>2, <2>1 DEF Rises, Shipping!Rising
<1>3. /\ Shipping!ToSet(queue) = Items(queue)
      /\ \A f \in Shipping!Flushers : Shipping!ToSet(batch[f]) = Items(batch[f])
  BY <1>1, ItemsAreTheSet
<1>4. \A x \in Shipping!InFlight : \E f \in Shipping!Flushers : x \in Items(batch[f])
  BY <1>3 DEF Shipping!InFlight
<1>5. \A x : x \in Shipping!Unsent <=> Held(x)
  BY <1>3 DEF Shipping!InFlight, Shipping!Unsent, Held
<1>6. \A x \in Shipping!InFlight, y \in Shipping!ToSet(queue) : x < y
  BY <1>3, <1>4 DEF InOrder
<1>7. \A x \in received \ (gone \cup Shipping!Unsent), y \in Shipping!Unsent : x < y
  BY <1>5 DEF InOrder
<1> QED
  BY <1>1, <1>2, <1>6, <1>7 DEF InOrder

-----------------------------------------------------------------------------
(* The composition                                                         *)

LEMMA TrailIsAudit == TrailSpec => Spec
<1>1. TrailInit => Init
  BY DEF TrailInit
<1>2. [TrailNext]_<<which, vars, shippingVars>> => [Next]_vars
  BY DEF TrailNext
<1> QED
  BY <1>1, <1>2, PTL DEF TrailSpec, Spec

LEMMA ShippedAlways == TrailSpec => [](Shipped /\ InOrder)
<1>1. TrailInit => Shipped
  BY InitShipped DEF TrailInit
<1>2. TrailInit => InOrder
<2> SUFFICES ASSUME Shipping!Init PROVE InOrder
  BY DEF TrailInit
<2>1. /\ queue = << >> /\ received = {} /\ batch = [f \in Shipping!Flushers |-> << >>]
  BY DEF Shipping!Init
<2>2. Items(<< >>) = {} /\ Rises(<< >>)
  BY DEF Items, Rises
<2> QED
  BY <2>1, <2>2 DEF InOrder
<1>3. [TrailNext]_<<which, vars, shippingVars>> => [Shipping!Next]_shippingVars
  BY DEF TrailNext
<1> QED
  BY <1>1, <1>2, <1>3, StepShipped, StepInOrder, PTL DEF TrailSpec

\* Nothing that a process remembers is lost without a count, for any number of requests and
\* of records, any limits, and however flushes overlap and fail: a request is in the buffer,
\* under way, in the table or counted as dropped (audit.py), and a record waits, is under
\* way, has arrived, or is in the number the next delivery reports; and as long as no two
\* flushes have overlapped, records arrive in the order they were emitted in
\* (log_shipping.py).
THEOREM NothingIsLostOrOvertaken == TrailSpec => []NothingGoesAstray
<1>1. Shipped /\ InOrder => Shipping!EveryRecordIsAccountedFor /\ Shipping!OrderIsPreserved
  BY ShippedAccounts, InOrderPreserves
<1> QED
  BY <1>1, TrailIsAudit, ShutdownWritesEverything, ShippedAlways, PTL DEF NothingGoesAstray

=============================================================================
