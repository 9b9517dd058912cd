SPECIFICATION Spec
CONSTANTS
  Setups <- OnlyRefill
  WindowSize = 0
  MaxAttempts = 1
  MaxBatch = 9
  MaxInbox = 1
INVARIANT GeneratorGetsItsTurn
