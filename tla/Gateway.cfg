\* Two services, one of which may claim a prefix of the other, and two starts;
\* two requests, one change of the registry, one tick.
CONSTANTS
  app1 = app1
  app2 = app2
  shop = shop
  orders = orders
  taken = taken
  call1 = call1
  call2 = call2
  Apps = {app1, app2}
  Prefixes = {shop, orders, taken}
  Calls = {call1, call2}
  NameOf <- MCNameOf
  PlansOf <- MCPlansOf
  Reserved = {taken}
  TTL = 4
  Interval = 1
  MaxHandling = 1
  MaxBoots = 2
  MaxErrors = 1
  Climbs = {"..", "."}
  OwnPrefixes <- MCOwn
  MaxAge = 0
  Requests = {q1, q2}
  Asks <- MCAsks
  Callers = {"ann"}
  Config <- MCConfig
  Local <- MCLocal
  Application = {}
  Registered <- MCRegistered
  Addresses = {1}
  Refresh = 1
  Latency = 1
  MaxTime = 1
  MaxChanges = 1
SPECIFICATION GatewaySpec
INVARIANTS NobodyIsRobbed NothingOldIsOverlooked UnsafeIsSentOnce ServiceKnowsTheCaller
PROPERTY UncontestedIsListed
