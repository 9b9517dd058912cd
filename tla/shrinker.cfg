SPECIFICATION ShrinkSpec
CONSTANTS
  MaxMessages = 6
  Recordings <- MCRecordings
  Needs = {"presence", "values", "attributes", "all but one"}
INVARIANTS ShrinkerTypeOK ResultStillFails GrowsOnlyToMinimal AttributesInOrder BestIsASubsequence NeverEmptied
PROPERTIES VerifiedBeforeKept ImplementsReducer ShrinkEnds
CHECK_DEADLOCK FALSE
