SPECIFICATION Spec
CONSTANTS
  MaxAttempts = 3
  MaxBatch = 4
  MaxFindings = 3
INVARIANT TypeOK
PROPERTIES ShutdownEndsRun DurationEndsRun
