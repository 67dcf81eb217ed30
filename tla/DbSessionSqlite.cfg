\* Closing a SQLite session.
SPECIFICATION Spec
CONSTANTS
  s1 = s1
  s2 = s2
  r1 = r1
  r2 = r2
  p1 = p1
  Sessions <- OneSession
  Sqlite <- OneSession
  Requests <- OneRequest
  Plugins <- NoPlugins
  SingleServer = FALSE
  KillPairs <- NoPairs
  CloseTask = CloseTask
  NoTask = NoTask
  MaxOpen = 1
  MaxLosses = 0
  MaxReconnects = 0
PROPERTY
  SqliteCloseReturns
CHECK_DEADLOCK FALSE
