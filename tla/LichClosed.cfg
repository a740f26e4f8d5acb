SPECIFICATION Spec
CONSTANTS
  Users = {u1, u2}
  NameLen <- SixLetters
  Ips = {p1, p2}
  MaxSessions = 2
  HsCacheSize = 2
  HsTtlSec = 1
  TokenExpireSec = 1
  CfgDefault <- Default2x1
  CfgVals <- ClosedWrites
  Sizes = {1, 257}
  CmdLens = {1}
  Seed42Even = TRUE
  MaxDraws = 3
  MaxAge = 2
  Free = Free
  Empty = Empty
VIEW StateView
INVARIANTS SharedTokenNeedsReseed CacheIsTrue ClosedWithoutElevation
PROPERTIES LoginAfterHandshake LiveSessionEndsForCause
