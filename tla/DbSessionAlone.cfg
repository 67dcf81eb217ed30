\* A MySQL session, or a SQLite session, under everything but kills.
SPECIFICATION Spec
CONSTANTS
  s1 = s1
  s2 = s2
  r1 = r1
  r2 = r2
  p1 = p1
  Sessions <- TwoSessions
  Sqlite <- SecondSession
  Requests <- TwoRequests
  Plugins <- OnePlugin
  SingleServer = TRUE
  KillPairs <- NoPairs
  CloseTask = CloseTask
  NoTask = NoTask
  MaxOpen = 1
  MaxLosses = 1
  MaxReconnects = 1
INVARIANTS
  SessionInv
  LockedUseIsExclusive
  ReconnectExclusive
  TeardownAlone
  LostOnlyBehindClose
PROPERTIES
  KeepsLifecycle
  Answered
  CloseReturns
  ReconnectReturns
CHECK_DEADLOCK FALSE
