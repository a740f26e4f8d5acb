\* A console on which either user logs in, and a flow of the first.
SPECIFICATION ClientSpec
CONSTANTS
  p1 = p1
  u1 = u1
  Users = {u1, u2}
  NameLen <- Letters
  Ips = {p1}
  MaxSessions = 2
  HsCacheSize = 1
  HsTtlSec = 0
  TokenExpireSec = 1
  CfgDefault <- Defaults
  CfgVals <- Writes
  Sizes = {1}
  CmdLens = {1}
  Seed42Even = TRUE
  MaxDraws = 2
  MaxAge = 2
  Free = Free
  Empty = Empty
  Sessions = {"console"}
  Flows = {"flow"}
  FlowUser <- FlowsUser
  IpOf <- OneAddress
  Commands = {"NW_SETCFG"}
  Typed = {"False"}
  NoToken = NoToken
  Idle = Idle
  Backlog = 2
  Slow <- SlowRequests
  MaxPieces = 1
VIEW ClientView
INVARIANTS ClientTypeOK HeldTokenIsOwn CompletedFlowLoggedOut FlowActsElevated
CHECK_DEADLOCK FALSE
PROPERTIES QueuedIsServed
