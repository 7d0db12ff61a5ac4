\* Every deployment of MCWorlds, and every failure a plugin can meet.
CONSTANTS
  db = db
  driver = driver
  store = store
  audit = audit
  http = http
  source_ = source_
  link = link
  trail = trail
  None = None
  Plugins = {db, driver, store, audit, http}
  Services = {source_, link, trail}
  Worlds <- MCWorlds
  Kind <- MCKind
  Index <- MCIndex
  Priority <- MCPriority
  Provides <- MCProvides
  Requires <- MCRequires
  Lazy <- MCLazy
  Faults = {"construct", "register", "initialize", "check", "tables", "decisions", "mount"}
  Declarations <- Some
  Addresses <- Everywhere
  Queries <- Asked
  HasChecker = TRUE
  Lengths = {0, 1, 2, 3, 4, 5}
  Pieces = {1, 2}
  Limits <- SomeLimits
  Default = 3
SPECIFICATION ApplicationSpec
INVARIANTS RunsAsDeclared ServesAsDeclared LimitIsKept
PROPERTY StartsAndStops
CHECK_DEADLOCK FALSE
