CONSTANTS
  MaxStep = 2
  MaxNode = 2
  Programs <- ChargeDischarge
  Commands = {"start"}
  Panel = FALSE
  Settle = 0
  Hold = 0
SPECIFICATION HistorySpec
PROPERTY EndValuesHeld
PROPERTY NoStepSkipped
PROPERTY RunsToCompletion
