SPECIFICATION FairSpec
CONSTANTS
  s1 = s1
  s2 = s2
  i1 = i1
  i2 = i2
  u1 = u1
  Socks = {s1, s2}
  Instances = {i1}
  Users = {u1}
  HandshakeTtl = 1
  MaxDelay = 1
  LastExpiry = 2
  MaxClock = 3
INVARIANTS NoneEligibleOnceTold SocketInv
PROPERTIES HandshakeSettles SocketsEnd
CHECK_DEADLOCK FALSE
