\* Two workers, more cpu units than queue slots: the channel can be full; the
\* memory budget holds any two jobs, not all three.
CONSTANTS
  task = task
  price = price
  huge = huge
  NoJob = NoJob
  Jobs <- MCJobs
  CpuCost <- MCCpuCost
  MemoryCost <- MCMemoryCost
  HoldsEngine <- MCHoldsEngine
  Cooperative <- MCCooperative
  MayPanic <- MCMayPanic
  Workers = {w1, w2}
  queue_capacity = 1
  cpu_units = 3
  memory_budget_bytes = 5
  max_job_memory_bytes = 3
SPECIFICATION Spec
INVARIANT
  IInv
PROPERTIES
  EarlyCancelSuppresses
  EveryCallAnswered
  ImplementsBudgetPool
\* All calls may be over and all threads gone.
CHECK_DEADLOCK FALSE
