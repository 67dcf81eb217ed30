\* A MySQL session and a plugin that works with its shell session.
SPECIFICATION SafeSpec
CONSTANTS
  s1 = s1
  s2 = s2
  r1 = r1
  r2 = r2
  p1 = p1
  Sessions <- OneSession
  Sqlite <- NoSessions
  Requests <- OneRequest
  Plugins <- OnePlugin
  SingleServer = FALSE
  KillPairs <- NoPairs
  CloseTask = CloseTask
  NoTask = NoTask
  MaxOpen = 1
  MaxLosses = 0
  MaxReconnects = 0
INVARIANT
  PluginUndisturbed
CHECK_DEADLOCK FALSE
