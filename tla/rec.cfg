CONSTANTS
  MaxStep = 3
  Scenes <- SomeScenes
SPECIFICATION Spec
INVARIANT TypeOK
INVARIANT StoppedIsForgotten
INVARIANT NothingSkipped
PROPERTY ProgramSurvives
CHECK_DEADLOCK FALSE
PROPERTY CompletionLasts
