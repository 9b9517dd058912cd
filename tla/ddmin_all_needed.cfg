SPECIFICATION Spec
CONSTANT MaxMessages = 5
INVARIANT PreservesWhenAllNeeded
