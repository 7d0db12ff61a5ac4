------------------------------- MODULE Journal -------------------------------
(***************************************************************************)
(* The tables the product keeps about itself: the event log (events.py,    *)
(* events_api.py, trail.py), the request audit once it is written          *)
(* (audit.py) and the log of outgoing calls (keepup_integration_log). Rows  *)
(* are added by everyone and listed newest first, a page at a time; old     *)
(* ones go, by a sweep (retention.py) or by an administrator.               *)
(*                                                                         *)
(* A behaviour is about one table. A step is one statement. A sweep that    *)
(* outlives its lock (DatabaseLock) runs beside the next: any replicas may  *)
(* sweep at once.                                                           *)
(***************************************************************************)
EXTENDS Integers, FiniteSets, SequencesExt

CONSTANTS
  Replicas,
  Days,        \* EVENTS_RETENTION_DAYS, AUDIT_RETENTION_DAYS
  Asked,       \* the days an administrator may give a purge
  Chunk,       \* EVENTS_DELETE_CHUNK_ROWS, AUDIT_DELETE_CHUNK_ROWS
  Chunks,      \* EVENTS_MAX_CHUNKS_PER_PASS, AUDIT_MAX_CHUNKS_PER_PASS
  PageSize,
  MaxTime, MaxRows  \* bounds

JournalAssumption ==
  /\ {Days, Chunk, Chunks, PageSize} \cup Asked \subseteq Nat \ {0}
  /\ {MaxTime, MaxRows} \subseteq Nat

VARIABLES
  table,   \* which table this is
  now,
  rows,
  made,    \* the last id
  shared,  \* moments at which more rows than one were written
  sweep,   \* what each replica's sweep is doing
  purge,   \* what the administrator's purge is doing
  reader   \* who pages through the table

vars == <<table, now, rows, made, shared, sweep, purge, reader>>

Idle == [pc |-> "idle"]

Init ==
  /\ table \in {"app_events", "incoming_requests", "integration_logs"}
  /\ now = 0 /\ rows = {} /\ made = 0 /\ shared = {}
  /\ sweep = [r \in Replicas |-> Idle] /\ purge = Idle
  /\ reader = [pc |-> "new"]

Tick == now < MaxTime /\ now' = now + 1 /\ UNCHANGED <<table, rows, made, shared, sweep, purge, reader>>

-----------------------------------------------------------------------------
(* Writing                                                                 *)

\* Between a page's count and the page itself.
Counted == table = "app_events" /\ reader.pc = "read"

\* The database stamps the row.
Write ==
  /\ made < MaxRows /\ made' = made + 1
  /\ rows' = rows \cup {[id |-> made + 1, at |-> now]}
  /\ shared' = IF \E row \in rows : row.at = now THEN shared \cup {now} ELSE shared
  /\ reader' = IF Counted THEN [reader EXCEPT !.raced = TRUE] ELSE reader

\* create_event, for emit_event, the trail and the route that writes one by hand
RecordEvent == table = "app_events" /\ Write /\ UNCHANGED <<table, now, sweep, purge>>

\* record, and log_request of the older logger
RecordCall == table = "integration_logs" /\ Write /\ UNCHANGED <<table, now, sweep, purge>>

\* log_external_request, once the call has ended in whatever way: one that is cancelled
\* is recorded as a success, and one nobody can be named for is not recorded.
ExternalCallEnds == RecordCall

\* A flush of the audit's buffer (AuditBuffer) writes its rows.
Flush == table = "incoming_requests" /\ Write /\ UNCHANGED <<table, now, sweep, purge>>

-----------------------------------------------------------------------------
(* The sweep: purge_older_than                                             *)

\* retention_days: what is given, if it is a positive number
Cutoff == now - Days

Older(before) == {row \in rows : row.at < before}

\* Mutant: the other end first.
OldestOf_Newest(S) ==
  {P \in SUBSET S : Cardinality(P) = Min({Chunk, Cardinality(S)}) /\ \A a \in P, b \in S \ P : a.at >= b.at}

\* The rows one chunk may read: the oldest, rows of one moment in any order.
OldestOf(S) ==
  {P \in SUBSET S : Cardinality(P) = Min({Chunk, Cardinality(S)}) /\ \A a \in P, b \in S \ P : a.at <= b.at}

\* A pass that would find nothing is left out.
BeginSweep(r) ==
  /\ table \in {"app_events", "incoming_requests"} /\ sweep[r].pc = "idle" /\ Older(Cutoff) # {}
  /\ sweep' = [sweep EXCEPT ![r] = [pc |-> "read", before |-> Cutoff, left |-> Chunks, ids |-> {}]]
  /\ UNCHANGED <<table, now, rows, made, shared, purge, reader>>

ReadChunk(r) ==
  /\ sweep[r].pc = "read"
  /\ \E chunk \in OldestOf(Older(sweep[r].before)) :
       sweep' = [sweep EXCEPT ![r] =
         IF chunk = {} THEN Idle
         ELSE [sweep[r] EXCEPT !.pc = "delete", !.left = @ - 1, !.ids = {row.id : row \in chunk}]]
  /\ UNCHANGED <<table, now, rows, made, shared, purge, reader>>

DeleteChunk(r) ==
  /\ sweep[r].pc = "delete"
  /\ rows' = {row \in rows : row.id \notin sweep[r].ids}
  /\ sweep' = [sweep EXCEPT ![r] =
       IF Cardinality(@.ids) < Chunk \/ @.left = 0 THEN Idle ELSE [@ EXCEPT !.pc = "read", !.ids = {}]]
  /\ UNCHANGED <<table, now, made, shared, purge, reader>>

\* A statement fails, or the replica stops.
SweepEnds(r) ==
  /\ sweep[r].pc # "idle" /\ sweep' = [sweep EXCEPT ![r] = Idle]
  /\ UNCHANGED <<table, now, rows, made, shared, purge, reader>>

-----------------------------------------------------------------------------
(* The administrator's purge                                               *)

DeleteOlder(days) == rows' = rows \ Older(now - days)

\* cleanup_old_events_endpoint: delete_old_events, and the trail's record of it
PurgeEvents(days) ==
  /\ table = "app_events" /\ purge.pc = "idle"
  /\ DeleteOlder(days) \/ UNCHANGED rows
  /\ purge' = [pc |-> "record"]
  /\ UNCHANGED <<table, now, made, shared, sweep, reader>>

\* The record of a purge that failed is written too, and one that cannot be written is
\* gone (record answers None).
RecordPurge ==
  /\ purge.pc = "record" /\ purge' = Idle
  /\ Write \/ UNCHANGED <<rows, made, shared, reader>>
  /\ UNCHANGED <<table, now, sweep>>

\* cleanup of the log of outgoing calls: what is to go is counted, and later, against a
\* cutoff of its own, deleted.
CountOld(days) ==
  /\ table = "integration_logs" /\ purge.pc = "idle"
  /\ purge' = [pc |-> "delete", days |-> days]
  /\ UNCHANGED <<table, now, rows, made, shared, sweep, reader>>

DeleteCounted ==
  /\ purge.pc = "delete" /\ purge' = Idle
  /\ DeleteOlder(purge.days) \/ UNCHANGED rows
  /\ UNCHANGED <<table, now, made, shared, sweep, reader>>

-----------------------------------------------------------------------------
(* Listing                                                                 *)

\* Mutant: oldest first.
Listings_Ascending(S) ==
  {listing \in SetToSeqs(S) : \A i, j \in DOMAIN listing : i < j => listing[i].at <= listing[j].at}

\* Newest first; rows of one moment in any order, a new one for each statement.
Listings(S) ==
  {listing \in SetToSeqs(S) : \A i, j \in DOMAIN listing : i < j => listing[i].at >= listing[j].at}

PageOf(listing, page) ==
  {listing[i] : i \in {i \in DOMAIN listing : i > (page - 1) * PageSize /\ i <= page * PageSize}}

\* get_events counts and then reads; read of the log of outgoing calls does it in the
\* other order. Nothing lists the audit. A filter makes the table smaller, no more.
Open ==
  /\ table # "incoming_requests" /\ reader.pc = "new"
  /\ reader' = [pc |-> IF table = "app_events" THEN "count" ELSE "read", page |-> 1,
                total |-> 0, seen |-> {}, there |-> {row.id : row \in rows}, raced |-> FALSE]
  /\ UNCHANGED <<table, now, rows, made, shared, sweep, purge>>

\* The answer is there: the reader asks for the next page while there is one.
Turned(answer) ==
  IF answer.page * PageSize < answer.total
  THEN [answer EXCEPT !.page = @ + 1, !.pc = IF table = "app_events" THEN "count" ELSE "read"]
  ELSE [answer EXCEPT !.pc = "done"]

Count ==
  /\ reader.pc = "count"
  /\ LET counted == [reader EXCEPT !.total = Cardinality(rows)]
     IN reader' = IF table = "app_events" THEN [counted EXCEPT !.pc = "read"] ELSE Turned(counted)
  /\ UNCHANGED <<table, now, rows, made, shared, sweep, purge>>

ReadPage ==
  /\ reader.pc = "read"
  /\ \E listing \in Listings(rows) :
       LET read == [reader EXCEPT !.seen = @ \cup {row.id : row \in PageOf(listing, reader.page)}]
       IN reader' = IF table = "app_events" THEN Turned(read) ELSE [read EXCEPT !.pc = "count"]
  /\ UNCHANGED <<table, now, rows, made, shared, sweep, purge>>

-----------------------------------------------------------------------------
Next ==
  \/ Tick \/ RecordEvent \/ RecordCall \/ ExternalCallEnds \/ Flush \/ RecordPurge \/ DeleteCounted \/ Open \/ Count \/ ReadPage
  \/ \E r \in Replicas : BeginSweep(r) \/ ReadChunk(r) \/ DeleteChunk(r) \/ SweepEnds(r)
  \/ \E days \in Asked : PurgeEvents(days) \/ CountOld(days)

Spec == Init /\ [][Next]_vars

-----------------------------------------------------------------------------
(* Properties                                                              *)

\* "oldest first" (purge_older_than): whatever removes rows, and however sweeps overlap,
\* are cut short or are overtaken by a purge, no row is left that is older than one that
\* went: what the table holds is always all there was since some moment.
WhatIsLeftIsTheNewest ==
  [][\A gone \in rows \ rows', kept \in rows' : gone.at <= kept.at]_vars

\* A reader who turns the pages to the end has seen every row that was there when it
\* began and still is, whatever was written and purged meanwhile. But for rows that share
\* their moment, whose order may change from page to page; and for a row that came
\* between a page's count and the page, which pushes the last one off the last page.
PagingMissesNothing ==
  reader.pc = "done" /\ ~reader.raced =>
    \A row \in rows : row.id \in reader.there /\ row.at \notin shared => row.id \in reader.seen

=============================================================================
