SPECIFICATION Spec
CONSTANTS
  p1 = p1
  p2 = p2
  p3 = p3
  t1 = t1
  t2 = t2
  w1 = w1
  w2 = w2
  r1 = r1
  r2 = r2
  b1 = b1
  s1 = s1
  s2 = s2
  Sellers = {s1}
  Buyers = {b1}
  Posts = {p1}
  Txns = {t1}
  Workers = {w1, w2}
  Refs = {}
  Windows <- MCWindows
  Moves = {"open", "locked", "deleted"}
  None = None
  Forever = Forever
  Quota = 1
  Lifetime = 2
  Reminder = 1
  BatchSize = 1
  MaxClock = 3
SYMMETRY Symmetry
INVARIANTS NoticeTruth NoDoublePush SystemInv
PROPERTIES ShopContract AuthorisedActivation DeadlineOnlyByRenewal
CHECK_DEADLOCK FALSE
