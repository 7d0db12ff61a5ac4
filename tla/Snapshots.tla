------------------------------ MODULE Snapshots ------------------------------
(***************************************************************************)
(* The metric snapshots: what each replica's collector writes              *)
(* (collector.py), and the sweep that expires and thins them               *)
(* (retention.py), in a table other modules write to as well.              *)
(*                                                                         *)
(* A sweep runs under a distributed lock, and one that outlives its lock   *)
(* (DatabaseLock) runs beside the next: any replicas may sweep at once. A   *)
(* step is one statement; the clock is one for all.                        *)
(***************************************************************************)
EXTENDS Integers, FiniteSets, FiniteSetsExt, Functions

CONSTANTS
  Replicas,
  Names,        \* SNAPSHOT_METRIC_NAMES
  Excluded,     \* EXCLUDED_METRICS
  Others,       \* names other modules write to the table
  Panel,        \* PANEL_HISTORY_HOURS
  Fresh,        \* FRESH_WINDOW_MINUTES
  Given,        \* METRICS_DETAILED_HOURS
  Retention,    \* METRICS_RETENTION_DAYS
  Interval,     \* thinned_interval_seconds
  Batch,        \* CANDIDATE_BATCH_ROWS
  Chunk,        \* DELETE_CHUNK_ROWS
  Batches,      \* MAX_BATCHES_PER_PASS
  Late,         \* bound: how long a snapshot waits to be saved
  MaxTime, MaxRows  \* bounds

ASSUME SnapshotsAssumption ==
  /\ IsFiniteSet(Names) /\ Names \cap Others = {} /\ Excluded \subseteq Names
  /\ "" \notin Replicas  \* what a row of another module has for a replica
  /\ {Panel, Fresh, Given, Late, MaxTime, MaxRows} \subseteq Nat
  /\ {Retention, Interval, Batch, Chunk, Batches} \subseteq Nat \ {0}
  /\ Fresh <= Panel /\ Panel <= Retention  \* minutes, a day, and a day at least

VARIABLES
  now,
  rows,      \* system_metrics
  made,      \* the last id
  sweep      \* what each replica's sweep is doing

vars == <<now, rows, made, sweep>>

Idle == [pc |-> "idle"]

Init ==
  /\ now = 0 /\ rows = {} /\ made = 0
  /\ sweep = [r \in Replicas |-> Idle]

Tick == now < MaxTime /\ now' = now + 1 /\ UNCHANGED <<rows, made, sweep>>

-----------------------------------------------------------------------------
(* Writing                                                                 *)

\* collect_metrics: what is not excluded
Collected == Names \ Excluded

\* A pass of update_metrics_background: the figures and their moment are taken, and
\* saved some time later in one transaction (save_metrics_to_db). One that fails, or
\* whose replica stops, writes nothing.
Save(r, at) ==
  /\ at \in 0 .. now /\ at >= now - Late /\ made + Cardinality(Collected) <= MaxRows
  /\ \E ids \in Bijection(Collected, made + 1 .. made + Cardinality(Collected)) :
       rows' = rows \cup {[id |-> ids[name], name |-> name, of |-> r, at |-> at] : name \in Collected}
  /\ made' = made + Cardinality(Collected)
  /\ UNCHANGED <<now, sweep>>

\* admin_change_user_password and its like
WriteOther ==
  /\ made < MaxRows
  /\ \E name \in Others : rows' = rows \cup {[id |-> made + 1, name |-> name, of |-> "", at |-> now]}
  /\ made' = made + 1
  /\ UNCHANGED <<now, sweep>>

-----------------------------------------------------------------------------
(* Reading                                                                 *)

Earlier(a, b) == a.at < b.at \/ (a.at = b.at /\ a.id < b.id)

\* history: the points of a metric over the last hours
History(names, hours) == {row \in rows : row.name \in names /\ row.at >= now - hours}

\* get_latest_metric_value: however old it is
LatestValue(of, name) ==
  {row \in rows : row.of = of /\ row.name = name
     /\ \A other \in rows : other.of = of /\ other.name = name => ~Earlier(row, other)}

\* The replicas of the summary: those that wrote lately.
Online == {row.of : row \in {row \in rows : row.at >= now - Fresh /\ row.of \in Replicas}}

Summary == [of \in Online |-> [name \in Names |-> LatestValue(of, name)]]

-----------------------------------------------------------------------------
(* The sweep                                                               *)

\* Mutant: as given.
Detailed_AsGiven == Given

\* RetentionPolicy.__post_init__: never narrower than what the panel shows.
Detailed == IF Given < Panel THEN Panel ELSE Given

\* horizons
DetailedFrom == now - Detailed
ExpiredBefore == now - Retention

Bucket(row) == <<row.name, row.of, row.at \div Interval>>

Begin(r, stage) ==
  sweep' = [sweep EXCEPT ![r] =
    [pc |-> "read", stage |-> stage, from |-> DetailedFrom, before |-> ExpiredBefore,
     left |-> Batches, doomed |-> {}, last |-> FALSE]]

\* A sweep that would find nothing is left out.
BeginSweep(r) ==
  /\ sweep[r].pc = "idle" /\ Begin(r, "purge")
  /\ \E row \in rows : row.name \in Names /\ row.at < DetailedFrom
  /\ UNCHANGED <<now, rows, made>>

Expired(before) == {row \in rows : row.name \in Names /\ row.at < before}

Thinnable(from, before) == {row \in rows : row.name \in Names /\ row.at >= before /\ row.at < from}

\* The rows of S that come first, as many as are read at a time.
Page(S, Before(_, _)) == {row \in S : Cardinality({other \in S : Before(other, row)}) < Batch}

ExpiredPage(before) == Page(Expired(before), Earlier)

\* Newest first: what has just left the detailed window is thought to need it most.
Later(a, b) == Earlier(b, a)
ThinPage(from, before) == Page(Thinnable(from, before), Later)

\* The bucket of a full page's last row may go on beyond the page.
Cut(page) ==
  IF Cardinality(page) < Batch THEN {}
  ELSE {Bucket(row) : row \in {row \in page : \A other \in page : ~Earlier(other, row)}}

\* All but the earliest of each bucket; a cut one is left for the next pass.
Doomed(page) ==
  {row \in page : Bucket(row) \notin Cut(page)
     /\ \E other \in page : Bucket(other) = Bucket(row) /\ Earlier(other, row)}

\* A stage ends: thinning follows purging, whatever became of that (run_sweep).
EndStage(r) ==
  IF sweep[r].stage = "purge" THEN Begin(r, "thin") ELSE sweep' = [sweep EXCEPT ![r] = Idle]

Read(r) ==
  /\ sweep[r].pc = "read"
  /\ LET page == IF sweep[r].stage = "purge" THEN ExpiredPage(sweep[r].before)
                 ELSE ThinPage(sweep[r].from, sweep[r].before)
         doomed == IF sweep[r].stage = "purge" THEN page ELSE Doomed(page)
     IN sweep' = [sweep EXCEPT ![r].pc = "delete", ![r].left = @ - 1, ![r].last = Cardinality(page) < Batch,
                               ![r].doomed = {row.id : row \in doomed}]
  /\ UNCHANGED <<now, rows, made>>

\* _delete_ids: a chunk at a time
DeleteChunk(r) ==
  /\ sweep[r].pc = "delete" /\ sweep[r].doomed # {}
  /\ \E ids \in kSubset(Min({Chunk, Cardinality(sweep[r].doomed)}), sweep[r].doomed) :
       /\ rows' = {row \in rows : row.id \notin ids}
       /\ sweep' = [sweep EXCEPT ![r].doomed = @ \ ids]
  /\ UNCHANGED <<now, made>>

\* The page is done: a short one was the last, or the pass has read its share.
PageDone(r) ==
  /\ sweep[r].pc = "delete" /\ sweep[r].doomed = {}
  /\ IF sweep[r].last \/ sweep[r].left = 0 THEN EndStage(r) ELSE sweep' = [sweep EXCEPT ![r].pc = "read"]
  /\ UNCHANGED <<now, rows, made>>

\* A statement fails: the stage ends where it was.
StageFails(r) ==
  /\ sweep[r].pc # "idle" /\ EndStage(r)
  /\ UNCHANGED <<now, rows, made>>

\* The replica stops in the middle.
Stop(r) ==
  /\ sweep[r].pc # "idle"
  /\ sweep' = [sweep EXCEPT ![r] = Idle]
  /\ UNCHANGED <<now, rows, made>>

Sweep(r) == BeginSweep(r) \/ Read(r) \/ DeleteChunk(r) \/ PageDone(r)

Next ==
  \/ Tick \/ WriteOther
  \/ \E r \in Replicas :
       \/ \E at \in 0 .. MaxTime : Save(r, at)
       \/ Sweep(r) \/ StageFails(r) \/ Stop(r)

Spec == Init /\ [][Next]_vars

-----------------------------------------------------------------------------
(* Properties                                                              *)

\* A sweep changes nothing that is read: neither the day of points the panel draws, nor
\* the summary of the replicas that are there, nor a row of another module. However
\* sweeps overlap, fail midway or are stopped, whatever the given window is.
NothingReadIsSwept ==
  [][sweep' # sweep =>
       /\ History(Names, Panel)' = History(Names, Panel) /\ Summary' = Summary
       /\ \A row \in rows : row.name \in Others => row \in rows']_vars

Deleted == {row \in rows : row \notin rows'}

\* Two measurements of which thinning keeps one.
SamePoint(a, b) == a.name = b.name /\ a.of = b.of /\ a.at \div Interval = b.at \div Interval

\* Thinning leaves a point of every interval it reaches: the earliest row of a bucket
\* goes only when the bucket has begun to expire, whatever sweeps overlap, fail midway or
\* meet a late row.
EarliestStays ==
  [][\A row \in Deleted :
       (\A other \in rows : SamePoint(row, other) => ~Earlier(other, row)) =>
         (row.at \div Interval) * Interval < ExpiredBefore]_vars

\* A sweep takes what is too old or one of several, and nothing else.
SweepsTakeOnlyTheRest == NothingReadIsSwept /\ EarliestStays

=============================================================================
