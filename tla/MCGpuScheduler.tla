--------------------------- MODULE MCGpuScheduler ---------------------------
(* Two devices and four jobs of zero to three bytes.  Of the configurations *)
(* two are valid, the others are refused for a job larger than the budget   *)
(* and for a queue of no capacity.                                          *)
EXTENDS GpuScheduler, TLC

CONSTANTS none, light, middle, heavy

MCJobs == {none, light, middle, heavy}

MCMemoryBytes == none :> 0 @@ light :> 1 @@ middle :> 2 @@ heavy :> 3

Config(capacity, budget, job) ==
  [queue_capacity |-> capacity, memory_budget_bytes |-> budget,
   max_job_memory_bytes |-> job]

MCConfigs ==
  {Config(3, 4, 3), Config(2, 2, 1), Config(1, 2, 3), Config(0, 3, 3)}

(* The same device registered again as it was. *)
MCOneConfig == {Config(3, 4, 3)}

DeviceSymmetry == Permutations(Devices)
=============================================================================
