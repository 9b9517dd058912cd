SPECIFICATION Spec
CONSTANTS
  MaxLen = 3
  MaxRetries = 2
INVARIANTS TypeOK TrueOnlyIfTriggered PromptTargetIsConvicted ReplayIsAPrefix
PROPERTY VerifyReturns
CHECK_DEADLOCK FALSE
