\* Two slots; more cpu units than places in the pool and the channel.
CONSTANTS
  price = price
  portfolio = portfolio
  xva = xva
  NoJob = NoJob
  Jobs <- MCJobs
  CpuCost <- MCCpuCost
  MemoryCost <- MCMemoryCost
  HoldsEngine <- MCHoldsEngine
  Cooperative <- MCCooperative
  MayPanic <- MCMayPanic
  Workers = {w1}
  queue_capacity = 1
  cpu_units = 3
  memory_budget_bytes = 4
  max_job_memory_bytes = 2
SPECIFICATION RestSpec
INVARIANTS
  RestIInv
PROPERTIES
  FullOnlyDuringHandover
  AbandonedNeverComputed
  RequestsEnd
  ImplementsScheduler
\* Every request may be over.
CHECK_DEADLOCK FALSE
