\* A service session that kills the queries of a user session.
SPECIFICATION SafeSpec
CONSTANTS
  s1 = s1
  s2 = s2
  r1 = r1
  r2 = r2
  p1 = p1
  Sessions <- TwoSessions
  Sqlite <- NoSessions
  Requests <- TwoRequests
  Plugins <- NoPlugins
  SingleServer = FALSE
  KillPairs <- OneKiller
  CloseTask = CloseTask
  NoTask = NoTask
  MaxOpen = 2
  MaxLosses = 0
  MaxReconnects = 0
SYMMETRY RequestSymmetry
INVARIANTS
  SessionInv
  LockedUseIsExclusive
PROPERTIES
  KilledOnlyIfHunted
CHECK_DEADLOCK FALSE
