\* Two contenders and a holder that crashes once.
CONSTANTS
  h1 = h1
  h2 = h2
  h3 = h3
  Handles = {h1, h2, h3}
  NoRow = NoRow
  Instance <- Apart
  MaxLockTime = 7
  Latency = 1
  MissBudget = 0
  MaxCrashes = 1
  Faults = {"crash"}
SPECIFICATION LockSpec
PROPERTY OnlyASilentHolderIsTakenOver
