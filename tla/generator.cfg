SPECIFICATION Spec
CONSTANTS
  GrammarMessages <- MCGrammarMessages
  RawSizes = {19, 20, 21, 22, 23, 28, 29, 4096}
  MutatorLists <- MCMutatorLists
INVARIANTS TypeOK LengthFieldsAgree EncodedMessagesRoundTrip CoalescedKeepaliveIsHarmless OnlyBrokenBytesPanic
CHECK_DEADLOCK FALSE
