SPECIFICATION Spec
CONSTANTS
  NotRunning = NotRunning
  MaxTimer = 2
  MaxStep = 2
  MaxNow = 3
  MaxEdits = 2
  Injectable <- MCInjectable
CONSTRAINT EditsOrTimers
INVARIANTS TypeOK TimersCountDown StopAlwaysIdles
PROPERTIES ExpiryIsOnTime OnlyLegalMoves ClimbsTheLadder
