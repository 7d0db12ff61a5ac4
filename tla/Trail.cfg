\* Two requests, a buffer that is full with one, one write that fails; four records, a queue
\* of three, batches of two, two deliveries that fail.
CONSTANTS
  a = a
  b = b
  Requests <- MCRequests
  MaxSize = 1
  HardLimit = 1
  MaxFailures = 1
  MaxQueued = 3
  BatchSize = 2
  Threshold = 2
  MaxAttempts = 2
  MaxRecords = 4
  MaxLost = 2
  MaxBackoffs = 1
SPECIFICATION TrailSpec
INVARIANT NothingGoesAstray
PROPERTIES EveryRecordHasOneFate EveryRequestIsWritten FlushesEnd
\* Requests end, and the process does.
CHECK_DEADLOCK FALSE
