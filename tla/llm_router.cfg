SPECIFICATION FairSpec
CONSTANTS
  MaxCalls = 2
  MaxAttempts = 3
  MaxRestarts = 1
INVARIANTS
  TypeOK
  CallsWithinBudget
  MemoryIsTracked
  SwapsAreRare
PROPERTY InferReturns
