CONSTANTS
  Steps <- SomeSteps
  Readings <- SomeReadings
  Protect <- NearProtect
SPECIFICATION PollSpec
INVARIANT UnsafeEnds
INVARIANT RegulatedGoesOn
INVARIANT EndReasonTrue
