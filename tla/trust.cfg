SPECIFICATION FairSpec
CONSTANTS
  a1 = a1
  a2 = a2
  c1 = c1
  c2 = c2
  i1 = i1
  i2 = i2
  ra = ra
  rb = rb
  rs = rs
  rp = rp
  rq = rq
  None = None
  Sellers <- MCSellers
  Posts <- MCPosts
  SellerOf <- MCSellerOf
  Staff = {a1, a2}
  Clients = {c1, c2}
  Ratings = {1, 5}
  MinReviews = 1
  MaxEdits = 2
  Reports = {ra, rb, rs, rp, rq}
  Target <- MCTarget
  MinimumReviewCount = 1
  LowTenths = 30
  GoodTenths = 40
  ExcellentTenths = 45
  CreatedAt <- MCCreatedAt
  Price <- MCPrice
  Instances = {i1, i2}
  PageLimit = 1
  MaxFailures = 1
  Plans <- MCPlans
INVARIANTS TrustInv ViewsAgree CirclesNeedBans
PROPERTIES DecisionStands WarnedOnce
CHECK_DEADLOCK FALSE
