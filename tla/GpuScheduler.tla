---------------------------- MODULE GpuScheduler ----------------------------
(***************************************************************************)
(* The per-device queues of quant-engine/src/gpu.rs.  One mutex guards the  *)
(* map of queues, and every call takes it once, so each is an atomic step.  *)
(* Registering a device replaces its queue, counters included, while the    *)
(* permits lent by the old queue are still out; their release is charged to *)
(* the new one.  Nothing lost and nothing gained by that is the question.   *)
(*                                                                          *)
(* A refused call returns an error and changes nothing, so it is no step.   *)
(***************************************************************************)
EXTENDS AdmissionState

CONSTANTS Jobs,        \* callers of try_acquire, one permit each at a time
          MemoryBytes, \* what each job asks for
          Devices,
          Configs,     \* the configurations register_device may be given
          NoDevice     \* of a job without a permit

DeviceConfigs ==
  [queue_capacity : Nat, memory_budget_bytes : Nat, max_job_memory_bytes : Nat]

ASSUME GpuAssumption ==
  /\ IsFiniteSet(Jobs)
  /\ MemoryBytes \in [Jobs -> Nat]
  /\ Configs \subseteq DeviceConfigs
  /\ NoDevice \notin Devices

VARIABLES queues, \* the map: a QueueState for each registered device
          device, \* the device a job's permit is for
          clean   \* history: no permit of the device outlived its queue since
                  \* the device was last idle

vars == <<queues, device, clean>>

Live(d) == {j \in Jobs : device[j] = d}

Fresh(config) == [config |-> config, queued |-> 0, memory_in_use |-> 0]

(* The two early returns of register_device. *)
Valid(config) ==
  /\ config.queue_capacity # 0
  /\ config.memory_budget_bytes # 0
  /\ config.max_job_memory_bytes # 0
  /\ config.max_job_memory_bytes <= config.memory_budget_bytes

\* Mutant: the budget is compared with the job alone.
Admits_IgnoresUse(queue, bytes) ==
  /\ bytes <= queue.config.max_job_memory_bytes
  /\ queue.queued < queue.config.queue_capacity
  /\ bytes <= queue.config.memory_budget_bytes

(* try_acquire passes its three refusals. *)
Admits(queue, bytes) ==
  /\ bytes <= queue.config.max_job_memory_bytes
  /\ queue.queued < queue.config.queue_capacity
  /\ bytes <= SaturatingSub(queue.config.memory_budget_bytes, queue.memory_in_use)

Charged(queue, bytes) ==
  [config |-> queue.config,
   queued |-> queue.queued + 1,
   memory_in_use |-> queue.memory_in_use + bytes]

\* Mutant: the queue slot is freed and the memory is not.
Discharged_SlotOnly(queue, bytes) ==
  [config |-> queue.config,
   queued |-> SaturatingSub(queue.queued, 1),
   memory_in_use |-> queue.memory_in_use]

Discharged(queue, bytes) ==
  [config |-> queue.config,
   queued |-> SaturatingSub(queue.queued, 1),
   memory_in_use |-> SaturatingSub(queue.memory_in_use, bytes)]

Init == /\ queues = [d \in {} |-> NoDevice]
        /\ device = [j \in Jobs |-> NoDevice]
        /\ clean = [d \in Devices |-> TRUE]

(* insert() into the map: an earlier queue of the device is dropped. *)
RegisterDevice(d, config) ==
  /\ Valid(config)
  /\ queues' = [e \in DOMAIN queues \cup {d} |->
                  IF e = d THEN Fresh(config) ELSE queues[e]]
  /\ clean' = [clean EXCEPT ![d] = Live(d) = {}]
  /\ UNCHANGED device

TryAcquire(j, d) ==
  /\ device[j] = NoDevice
  /\ d \in DOMAIN queues
  /\ Admits(queues[d], MemoryBytes[j])
  /\ queues' = [queues EXCEPT ![d] = Charged(@, MemoryBytes[j])]
  /\ device' = [device EXCEPT ![j] = d]
  /\ UNCHANGED clean

(* GpuPermit::release or its Drop, whichever comes first: `released` keeps  *)
(* the second from doing it again.  A device is never unregistered, so the  *)
(* queue is found, but it may be a newer one.                               *)
Release(j) ==
  LET d == device[j] IN
  /\ d # NoDevice
  /\ queues' = [queues EXCEPT ![d] = Discharged(@, MemoryBytes[j])]
  /\ device' = [device EXCEPT ![j] = NoDevice]
  /\ clean' = [clean EXCEPT ![d] = @ \/ Live(d) = {j}]

Next == \/ \E d \in Devices, config \in Configs : RegisterDevice(d, config)
        \/ \E j \in Jobs, d \in Devices : TryAcquire(j, d)
        \/ \E j \in Jobs : Release(j)

Spec == Init /\ [][Next]_vars

-----------------------------------------------------------------------------

TypeOK ==
  /\ DOMAIN queues \subseteq Devices
  /\ queues \in [DOMAIN queues ->
                   [config : DeviceConfigs, queued : Nat, memory_in_use : Nat]]
  /\ device \in [Jobs -> DOMAIN queues \cup {NoDevice}]
  /\ clean \in [Devices -> BOOLEAN]

(* Whatever is registered passed the checks, and its own counters stay      *)
(* within it.                                                               *)
WithinConfig ==
  \A d \in DOMAIN queues : LET q == queues[d] IN
    /\ Valid(q.config)
    /\ q.queued <= q.config.queue_capacity
    /\ q.memory_in_use <= q.config.memory_budget_bytes

(* A device is never charged for more than its permits weigh: stray         *)
(* releases (permits of a replaced queue) can lose charges, never leak one. *)
NeverOvercounts ==
  \A d \in DOMAIN queues :
    /\ queues[d].queued <= Cardinality(Live(d))
    /\ queues[d].memory_in_use <= Weight(Live(d), MemoryBytes)

(* Once idle, or never registered over its own permits, a device has exact  *)
(* counters.                                                                *)
CleanIsExact ==
  \A d \in DOMAIN queues : clean[d] =>
    /\ queues[d].queued = Cardinality(Live(d))
    /\ queues[d].memory_in_use = Weight(Live(d), MemoryBytes)

(* The inductive invariant of the queues: types, configured limits, no      *)
(* leak, and exact books on a clean device.                                 *)
IInv == /\ TypeOK
        /\ WithinConfig
        /\ NeverOvercounts
        /\ CleanIsExact

(* Capacity survives every order of registrations, grants and releases: a   *)
(* device without permits out admits any job its configuration allows, so   *)
(* a full queue always drains back to an empty one (gpu.rs release).        *)
IdleDeviceAdmits ==
  \A d \in DOMAIN queues, j \in Jobs :
    /\ Live(d) = {}
    /\ MemoryBytes[j] <= queues[d].config.max_job_memory_bytes
    => Admits(queues[d], MemoryBytes[j])

Within(d) ==
  /\ Cardinality(Live(d)) <= queues[d].config.queue_capacity
  /\ Weight(Live(d), MemoryBytes) <= queues[d].config.memory_budget_bytes

(* The permits out for a device stay within its capacity and its memory,    *)
(* as long as it is not registered again over permits still out.            *)
CleanDeviceWithinBudget == \A d \in DOMAIN queues : clean[d] => Within(d)

=============================================================================
