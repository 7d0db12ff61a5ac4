\* One administrator at a time; a may be ended by the host, b cannot restart.
CONSTANTS
  a = a
  b = b
  Replicas <- MCReplicas
  Panels = {1}
  Forces = {TRUE}
  CanRestart = {a}
  Mortal = {a}
  MaxCommands = 2
  MaxEnds = 1
  MaxErrors = 1
  Faults = {"tick", "write_state", "read_member"}
SPECIFICATION FairSpec
INVARIANTS OneOpenCommand ReplicaIsAsReported
PROPERTIES CommandsComeToAnEnd CarriedOutOnce
