------------------------------ MODULE MCStored ------------------------------
(* What the tables hold: the measurements and their thinning (Snapshots),    *)
(* the rows of events, calls and integrations with their retention and pages *)
(* (Journal), and the connections that rows are written over                 *)
(* (ConnectionPool).  The three share no variable; a behaviour is one of one *)
(* of them, `which' says whose, and leaves the others' alone.                *)
EXTENDS Snapshots, TLC

CONSTANTS r1, r2, c1, c2
TwoReplicas == {r1, r2}
TwoConnections == {c1, c2}
Symmetry == Permutations(TwoReplicas) \cup Permutations(TwoConnections)

VARIABLES
  which,
  table, hour, journal, written, shared, pass, purge, reader,
  pool, context, block, call, scope, inserted
journalVars == <<table, hour, journal, written, shared, pass, purge, reader>>
poolVars == <<pool, context, block, call, scope, inserted>>

CONSTANTS Days, Asked, Chunks, PageSize, LastHour, MaxEntries
Entries == INSTANCE Journal
  WITH MaxTime <- LastHour, MaxRows <- MaxEntries, now <- hour, rows <- journal, made <- written, sweep <- pass

CONSTANTS Threads, Connections, Engine, MaxInserts
Pool == INSTANCE ConnectionPool WITH MaxRows <- MaxInserts, made <- inserted

ASSUME StoredAssumption == Entries!JournalAssumption /\ Pool!ConnectionPoolAssumption

NoEntries ==
  /\ hour = 0 /\ journal = {} /\ written = 0 /\ shared = {} /\ pass = 0 /\ purge = 0 /\ reader = 0 /\ table = 0
NoConnections ==
  pool = 0 /\ context = 0 /\ block = 0 /\ call = 0 /\ scope = 0 /\ inserted = 0

StoredInit ==
  \/ which = "snapshots" /\ Init /\ NoEntries /\ NoConnections
  \/ which = "journal" /\ Init /\ Entries!Init /\ NoConnections
  \/ which = "pool" /\ Init /\ NoEntries /\ Pool!Init

StoredNext ==
  \/ which = "snapshots" /\ Next /\ UNCHANGED <<which, journalVars, poolVars>>
  \/ which = "journal" /\ Entries!Next /\ UNCHANGED <<which, vars, poolVars>>
  \/ which = "pool" /\ Pool!Next /\ UNCHANGED <<which, vars, journalVars>>

StoredSpec == StoredInit /\ [][StoredNext]_<<which, vars, journalVars, poolVars>>

PagingMissesNothing == which = "journal" => Entries!PagingMissesNothing
WhatIsLeftIsTheNewest == Entries!WhatIsLeftIsTheNewest
CallsAreWhole == which = "pool" => Pool!CallsAreWhole
WaitsEmptyHanded == which = "pool" => Pool!WaitsEmptyHanded
=============================================================================
