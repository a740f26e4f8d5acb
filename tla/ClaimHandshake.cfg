SPECIFICATION Spec
CONSTANTS
  Users = {u1}
  NameLen <- SixLetters
  Ips = {p1, p2}
  MaxSessions = 1
  HsCacheSize = 2
  HsTtlSec = 1
  TokenExpireSec = 1
  CfgDefault <- Default2x1
  CfgVals <- NoWrites
  Sizes = {}
  CmdLens = {1}
  Seed42Even = FALSE
  MaxDraws = 2
  MaxAge = 2
  Free = Free
  Empty = Empty
VIEW StateView
INVARIANTS HandshakeRemembered
