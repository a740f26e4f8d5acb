SPECIFICATION Spec
CONSTANTS
  Users = {u1, u2}
  NameLen <- SixLetters
  Ips = {p1}
  MaxSessions = 2
  HsCacheSize = 1
  HsTtlSec = 1
  TokenExpireSec = 1
  CfgDefault <- Default2x1
  CfgVals <- PolicyWrites
  Sizes = {}
  CmdLens = {1}
  Seed42Even = FALSE
  MaxDraws = 4
  MaxAge = 3
  Free = Free
  Empty = Empty
VIEW StateView
SYMMETRY UserSymmetry
PROPERTIES ImplementsPolicy PrivilegeIsEarned ConfigChangeIsAuthorised
