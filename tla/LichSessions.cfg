SPECIFICATION Spec
CONSTANTS
  Users = {u1, u2, u3, u4}
  NameLen <- SixLetters
  Ips = {p1}
  MaxSessions = 3
  HsCacheSize = 1
  HsTtlSec = 1
  TokenExpireSec = 1
  CfgDefault <- Default3x1
  CfgVals <- LimitWrites
  Sizes = {}
  CmdLens = {0, 257}
  Seed42Even = FALSE
  MaxDraws = 4
  MaxAge = 2
  Free = Free
  Empty = Empty
VIEW StateView
SYMMETRY UserSymmetry
INVARIANTS TypeOK CountCoversActive SettingsStayUsable OneSessionPerUser
PROPERTIES LoginWithinLimit LiveSessionEndsForCause
