\* Two replicas that measure and sweep; two that sweep a table that is purged and paged
\* through; two threads with two connections.
CONSTANTS
  r1 = r1
  r2 = r2
  c1 = c1
  c2 = c2
  Replicas <- TwoReplicas
  Names = {"cpu"}
  Excluded = {}
  Others = {"event"}
  Panel = 1
  Fresh = 1
  Given = 0
  Retention = 2
  Interval = 2
  Batch = 3
  Chunk = 1
  Batches = 2
  Late = 1
  MaxTime = 3
  MaxRows = 4
  Days = 1
  Asked = {1}
  Chunks = 2
  PageSize = 2
  LastHour = 3
  MaxEntries = 3
  Threads <- TwoReplicas
  Connections <- TwoConnections
  Engine = "sqlite"
  MaxInserts = 3
SPECIFICATION StoredSpec
SYMMETRY Symmetry
INVARIANTS PagingMissesNothing CallsAreWhole WaitsEmptyHanded
PROPERTIES SweepsTakeOnlyTheRest WhatIsLeftIsTheNewest
CHECK_DEADLOCK FALSE
