SPECIFICATION Spec
CONSTANTS
  p1 = p1
  p2 = p2
  p3 = p3
  t1 = t1
  t2 = t2
  w1 = w1
  w2 = w2
  r1 = r1
  r2 = r2
  b1 = b1
  s1 = s1
  s2 = s2
  Sellers = {s1, s2}
  Buyers = {}
  Posts = {p1, p2}
  Txns = {t1, t2}
  Workers = {}
  Refs = {r1}
  Windows <- NoWindows
  Moves = {}
  None = None
  Forever = Forever
  Quota = 1
  Lifetime = 1
  Reminder = 1
  BatchSize = 1
  MaxClock = 2
SYMMETRY Symmetry
INVARIANTS QuotaRespected RenewalLedger
CHECK_DEADLOCK FALSE
