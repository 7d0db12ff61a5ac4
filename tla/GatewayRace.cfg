\* Two services that register one prefix at once; nothing fails.
CONSTANTS
  a = a
  b = b
  p = p
  q = q
  r = r
  c1 = c1
  c2 = c2
  Apps = {a, b}
  Prefixes = {p, q, r}
  Calls = {c1, c2}
  NameOf <- MCNameOf
  PlansOf <- MCPlansOf
  Reserved = {r}
  TTL = 4
  Interval = 1
  MaxHandling = 1
  MaxBoots = 2
  MaxErrors = 0
SPECIFICATION Spec
INVARIANT OneServicePerPrefix
