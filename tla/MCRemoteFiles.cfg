SPECIFICATION MCSpec
CONSTANTS
  MaxConnects = 2
  MaxOps = 2
  MaxVersion = 3
  MaxWatches = 3
  MaxExecs = 4
  Sessions = {s1, s2}
  None = None
  MaxReports = 2
  MaxLookups = 2
INVARIANTS SftpSound WatchSound
PROPERTY NeverBackward
CHECK_DEADLOCK FALSE
