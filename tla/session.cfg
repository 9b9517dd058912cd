SPECIFICATION Spec
CONSTANTS
  Setups <- AllSetups
  WindowSize = 1
  MaxAttempts = 3
  MaxBatch = 9
  MaxInbox = 1
INVARIANTS
  TypeOK ShadowStaysIdle PendingIsTheMessageSent HistoryIsTheWire
  ScenariosInOrder StatsAccountForExchanges EveryFindingIsFiled
   EscalationIsThreeInARow OnlyUnaskedMisleads
PROPERTY ImplementsRunLoop
