SPECIFICATION ScriptSpec
CONSTANTS
  ScriptCalls = {c1, c2}
  NoRun = NoRun
PROPERTY StopTagged
CHECK_DEADLOCK FALSE
