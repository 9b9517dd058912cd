SPECIFICATION Spec
CONSTANTS
  GrammarMessages <- MCGrammarMessages
  RawSizes = {19}
  MutatorLists <- MCMutatorLists
INVARIANT EveryGrammarMessageDecodes
CHECK_DEADLOCK FALSE
