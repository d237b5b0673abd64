CONSTANTS
  MaxModule = 2
  Levels = {1}
  OffLimit = 0
  Budgets <- SomeBudgets
SPECIFICATION Spec
INVARIANT CacheTrue
INVARIANT OneFaultAbsorbed
PROPERTY OutputReachesModule
PROPERTY LinkComesBack
