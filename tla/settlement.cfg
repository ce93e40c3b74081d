SPECIFICATION SettlementSpec
CONSTANTS
  p1 = p1
  p2 = p2
  t1 = t1
  c1 = c1
  c2 = c2
  w1 = w1
  w2 = w2
  o1 = o1
  o2 = o2
  k1 = k1
  k2 = k2
  s1 = s1
  s2 = s2
  Sellers = {s1}
  Buyers = {}
  Posts = {p1}
  Txns = {}
  Workers = {}
  Refs = {}
  Windows <- NoWindows
  Moves = {}
  None = None
  Forever = Forever
  Quota = 2
  Lifetime = 2
  Reminder = 1
  BatchSize = 1
  MaxClock = 1
  Callers = {c1}
  Servers = {w1}
  Orders = {o1, o2}
  Keys = {k1, k2}
  Packages = {1}
  Boosts <- NoBoosts
  Timeout = 1
  ReviewAge = 1
  Take = 1
  Words = {"success"}
PROPERTIES PaymentSettles
CHECK_DEADLOCK FALSE
