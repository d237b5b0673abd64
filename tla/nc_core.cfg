CONSTANTS
  MaxStep = 3
  MaxNode = 1
  Programs <- ChargeDischarge
  Commands = {"start", "stop", "pause", "resume"}
  Panel = TRUE
  Settle = 1
  Hold = 0
SPECIFICATION Spec
INVARIANT OutputSupervised
INVARIANT RunningOutputMatches
PROPERTY StopRests
PROPERTY FaultEndsCharge
