CONSTANTS
  MaxStep = 3
  MaxNode = 1
  Programs <- TwoLengths
  Commands = {"start", "stop", "pause", "resume", "cfg", "global", "divcap", "disable", "enable"}
  Panel = FALSE
  Settle = 1
  Hold = 1
SPECIFICATION Spec
INVARIANT CompleteIsMarked
INVARIANT CursorInProgram
