\* Two sessions and two requests, an administrator's one change of the account, which others
\* may unblock; two calls of the sign-in, one password before the throttle, one statement
\* that fails; two sockets in two replicas, one connection that breaks, one failure or death.
CONSTANTS
  s1 = s1
  s2 = s2
  Sids <- TwoSessions
  q1 = q1
  q2 = q2
  Requests <- TwoRequests
  Administrators = {1}
  a = a
  b = b
  Replicas <- TwoReplicas
  Sockets = {1, 2}
  MaxBreaks = 1
  MaxFaults = 1
  Factors = {FALSE}
  Life = 1
  Window = 1
  RememberWindow = 1
  Keep = 1
  Patience = 1
  MaxTime = 3
  MaxChanges = 1
  MaxAttempts = 1
  Lockout = 2
  Recoveries = {101}
  MaxSecrets = 2
  MaxErrors = 1
  LastHour = 3
  MaxLogins = 2
SPECIFICATION SignedInSpec
SYMMETRY Symmetry
INVARIANTS ChangeEndsEarlierSessions SessionLastsAsPromised AttemptsAreLimited CodeLetsInOnce
INVARIANTS RevocationIsNotOverlooked
PROPERTIES IdleSessionStaysOver
CHECK_DEADLOCK FALSE
