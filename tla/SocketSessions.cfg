CONSTANTS
  a = a
  b = b
  Replicas <- MCReplicas
  Sockets = {1, 2}
  Sessions = {1}
  MaxBreaks = 1
  MaxFaults = 2
SPECIFICATION FairSpec
PROPERTY RevokedSocketsClose
