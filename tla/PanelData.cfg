\* One call of an administrator and one start, one failure, one broken connection; an
\* earlier release left the section of the file.
CONSTANTS
  r1 = r1
  r2 = r2
  Replicas <- MCReplicas
  Keys = {"theme", "sections"}
  BuiltIn = {1}
  ThemeIds = {1, 2}
  SectionIds = {1, 2}
  DeclaredBy <- MCDeclaredBy
  Declarers = {"metrics"}
  FileGrants = {1}
  TTL = 1
  Latency = 1
  MaxTime = 2
  MaxLoads = 1
  MaxFails = 1
  MaxBreaks = 1
  MaxChanges = 1
  KnownBefore = {{1}}
  ThemesBefore = {{}, {2}, {1, 2}}
  Lists = {{}, {1}, {2}, {1, 2}}
  MaxStarts = 1
SPECIFICATION PanelSpec
SYMMETRY Symmetry
INVARIANTS LifetimeBoundsStaleness StaleIsExplained CallsEndAsMeant
CHECK_DEADLOCK FALSE
