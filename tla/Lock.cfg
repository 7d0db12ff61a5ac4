\* The prompt replicas; the numbers of the faulty ones are in MCDatabaseLock.
\* (MissBudget + 1) beats of Beat + 2*Latency, and 3*Latency, fit into MaxLockTime.
CONSTANTS
  h1 = h1
  h2 = h2
  h3 = h3
  Handles = {h1, h2, h3}
  NoRow = NoRow
  Instance <- Shared
  MaxLockTime = 19
  Latency = 1
  MissBudget = 1
  MaxCrashes = 0
  Faults = {"acquire_error", "renew_error"}
SPECIFICATION LockSpec
PROPERTIES ImplementsMutex LateFinishIsHarmless AbandonedIsCleared LoserLearns
