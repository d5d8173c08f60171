\* Blocking and non-blocking callers on a budget that most pairs do not share.
CONSTANTS
  small = small
  tiny = tiny
  wide = wide
  fat = fat
  oversized = oversized
  Callers <- MCCallers
  CpuCost <- MCCpuCost
  MemoryCost <- MCMemoryCost
  CpuUnits = 2
  MemoryBytes = 3
SPECIFICATION Spec
INVARIANT
  IInv
PROPERTIES
  BlockedAcquireIsServed
  ImplementsBudgetPool
\* Every call may be over, and an oversized blocking call waits for ever.
CHECK_DEADLOCK FALSE
