SPECIFICATION Spec
CONSTANTS
  Setups <- QuietPeer
  WindowSize = 0
  MaxAttempts = 1
  MaxBatch = 2
  MaxInbox = 1
INVARIANT BugIdsAreUnique
