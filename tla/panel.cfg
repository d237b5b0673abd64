CONSTANTS
  MAX_NODE = 2
  Rows = 1
  ValueRows = 1
  StepRows = 5
  PerModulePage = 1
  StepNums = {0, 6}
  Nets = {"old", "new"}
  Limits = {1, 2}
  Scenes <- SomeScenes
  Content <- Sent
  Ack <- Acknowledge
  NoFrame <- Nothing
  MaxPosts = 1
  MaxWire = 2
SPECIFICATION Spec
INVARIANT TypeOK
INVARIANT SavedAsTyped
PROPERTY PageFound
CHECK_DEADLOCK FALSE
