SPECIFICATION MCSpec
CONSTANTS
  ScriptCalls = {c1, c2, c3}
  NoRun = NoRun
  MaxFile = 3
  MaxRotated = 1
  MaxAppend = 2
  MaxRetained = 3
  CloseRetries = 1
  ChunkSizes = {1, 2}
  MaxChunks = 5
  MaxFaults = 2
  MaxChain = 2
  MaxGenerations = 3
INVARIANTS NothingLeftBehind TranscriptIntact TerminalHonest
PROPERTIES EveryRunEnds CloseReleases
CHECK_DEADLOCK FALSE
