SPECIFICATION Spec
CONSTANTS
  u1 = u1
  c1 = c1
  c2 = c2
  None = None
  Users = {u1}
  Clients = {c1, c2}
  Tokens = {1, 2, 3}
  Codes = {1, 2, 3}
  Plans <- MCPlans
  SessionTtl = 1
  MaxEpoch = 1
  Cooldown = 1
  Window = 3
  MailQuota = 2
  OtpTtl = 2
  ResetTtl = 1
  Retention = 3
  MaxAttempts = 2
SYMMETRY Symmetry
PROPERTIES OnlyUnlockUnlocks
CHECK_DEADLOCK FALSE
