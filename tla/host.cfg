SPECIFICATION Spec
CONSTANTS
  MAX_NODE = 2
  MaxValue = 3
  MAX_STEP = 2
  QUIET = 1
  Scenes <- SomeScenes
CHECK_DEADLOCK FALSE
INVARIANT TypeOK
INVARIANT AnsweredIsKept
INVARIANT SettingsKept
INVARIANT HearsNewPort
PROPERTY SilenceNoticed
