CONSTANTS
  MaxStep  = 3
  StepNums = {1, 2, 3}
  Types    = {"DCV"}
  Jumps    = {0, 1, 2}
  SubCycs  = {0, 1, 2}
  Cycs     = {1, 2}
  Sections <- OneSection
  Programs <- PlainPrograms
SPECIFICATION TraceSpec
INVARIANT TypeOK
INVARIANT MainCyclesBounded
PROPERTY ImplementsPlan
