SPECIFICATION FairSpec
CONSTANTS
  p1 = p1
  p2 = p2
  p3 = p3
  t1 = t1
  t2 = t2
  w1 = w1
  w2 = w2
  r1 = r1
  r2 = r2
  b1 = b1
  s1 = s1
  s2 = s2
  Sellers = {s1}
  Buyers = {}
  Posts = {p1, p2}
  Txns = {t1}
  Workers = {w1}
  Refs = {}
  Windows <- NoWindows
  Moves = {}
  None = None
  Forever = Forever
  Quota = 2
  Lifetime = 1
  Reminder = 0
  BatchSize = 1
  MaxClock = 1
PROPERTIES OverdueExpires EndOfCycleNotified
CHECK_DEADLOCK FALSE
