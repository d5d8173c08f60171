------------------------- MODULE GpuSchedulerProofs -------------------------
(***************************************************************************)
(* Proofs about GpuScheduler for any jobs, devices and configurations.  The *)
(* heart is ReleaseStep: a saturating subtraction of what a permit weighs   *)
(* keeps a counter at or below the weight of the permits that are left,     *)
(* and at it when it was exact.                                             *)
(***************************************************************************)
EXTENDS GpuScheduler, AdmissionLemmas

QueueStates == [config : DeviceConfigs, queued : Nat, memory_in_use : Nat]

(* What IInv says of one device. *)
Sound(d) ==
  LET q == queues[d] IN
  /\ Valid(q.config)
  /\ q.queued <= q.config.queue_capacity
  /\ q.memory_in_use <= q.config.memory_budget_bytes
  /\ q.queued <= Cardinality(Live(d))
  /\ q.memory_in_use <= Weight(Live(d), MemoryBytes)
  /\ clean[d] => /\ q.queued = Cardinality(Live(d))
                 /\ q.memory_in_use = Weight(Live(d), MemoryBytes)

LEMMA SoundDevices == IInv <=> TypeOK /\ \A d \in DOMAIN queues : Sound(d)
BY DEF IInv, WithinConfig, NeverOvercounts, CleanIsExact, Sound

LEMMA SoundDevicesNext ==
  IInv' <=> TypeOK' /\ \A d \in (DOMAIN queues)' : Sound(d)'
BY DEF IInv, WithinConfig, NeverOvercounts, CleanIsExact, Sound

LEMMA LiveMeasured ==
  ASSUME NEW d
  PROVE  /\ IsFiniteSet(Live(d))
         /\ \A j \in Live(d) : MemoryBytes[j] \in Nat
         /\ Cardinality(Live(d)) \in Nat
         /\ Weight(Live(d), MemoryBytes) \in Nat
<1>1. Live(d) \in SUBSET Jobs
  BY DEF Live
<1>2. IsFiniteSet(Live(d)) /\ \A j \in Live(d) : MemoryBytes[j] \in Nat
  BY <1>1, GpuAssumption, FS_Subset
<1>3. QED
  BY <1>2, UnitsFinite, FS_CardinalityType

LEMMA InitStep == Init => IInv
BY GpuAssumption
DEF Init, IInv, TypeOK, WithinConfig, NeverOvercounts, CleanIsExact

(* A device no step touches stays sound. *)
LEMMA UntouchedDevice ==
  ASSUME NEW d, Sound(d), queues'[d] = queues[d], clean'[d] = clean[d],
         Live(d)' = Live(d)
  PROVE  Sound(d)'
<1>1. Live(d)' = Live(d)
  OBVIOUS
<1>2. QED
  BY <1>1 DEF Sound, Valid, Weight, Units

-----------------------------------------------------------------------------

LEMMA RegisterStep ==
  ASSUME IInv, NEW d \in Devices, NEW config \in Configs,
         RegisterDevice(d, config)
  PROVE  IInv'
<1>1. /\ TypeOK
      /\ \A e \in DOMAIN queues : Sound(e)
  BY SoundDevices
<1>2. /\ DOMAIN queues' = DOMAIN queues \cup {d}
      /\ queues'[d] = Fresh(config)
      /\ \A e \in DOMAIN queues \ {d} : queues'[e] = queues[e]
      /\ device' = device
      /\ clean' = [clean EXCEPT ![d] = Live(d) = {}]
      /\ Valid(config)
  BY DEF RegisterDevice
<1>3. Fresh(config) \in QueueStates
  BY GpuAssumption DEF Fresh, QueueStates
<1>4. TypeOK'
  <2>1. \A e \in DOMAIN queues' : queues'[e] \in QueueStates
    BY <1>1, <1>2, <1>3 DEF TypeOK, QueueStates
  <2>2. queues' = [e \in DOMAIN queues' |-> queues'[e]]
    BY <1>2 DEF RegisterDevice
  <2>3. queues' \in [DOMAIN queues' -> QueueStates]
    BY <2>1, <2>2
  <2>4. device' \in [Jobs -> DOMAIN queues' \cup {NoDevice}]
    BY <1>1, <1>2 DEF TypeOK
  <2>5. clean' \in [Devices -> BOOLEAN]
    BY <1>1, <1>2 DEF TypeOK
  <2>6. DOMAIN queues' \subseteq Devices
    BY <1>1, <1>2 DEF TypeOK
  <2>7. QED
    BY <2>3, <2>4, <2>5, <2>6 DEF TypeOK, QueueStates
<1>5. \A e : Live(e)' = Live(e)
  BY <1>2 DEF Live
<1>6. ASSUME NEW e \in DOMAIN queues'
      PROVE  Sound(e)'
  <2>1. CASE e = d
    <3>1. clean'[d] <=> Live(d) = {}
      BY <1>1, <1>2 DEF TypeOK
    <3>2. Live(d) = {} => Cardinality(Live(d)) = 0 /\ Weight(Live(d), MemoryBytes) = 0
      BY FS_EmptySet, WeightNone
    <3>3. Cardinality(Live(d)) \in Nat /\ Weight(Live(d), MemoryBytes) \in Nat
      BY LiveMeasured
    <3>4. /\ queues'[d].queued = 0
          /\ queues'[d].memory_in_use = 0
          /\ queues'[d].config = config
      BY <1>2 DEF Fresh
    <3>5. config \in DeviceConfigs
      BY GpuAssumption
    <3>6. Valid(queues'[d].config)
      BY <1>2, <3>4
    <3>7. /\ 0 <= config.queue_capacity
          /\ 0 <= config.memory_budget_bytes
      BY <3>5 DEF DeviceConfigs
    <3>8. Live(d)' = Live(d)
      BY <1>5
    <3>9. QED
      BY <2>1, <3>1, <3>2, <3>3, <3>4, <3>6, <3>7, <3>8
      DEF Sound, Valid, Weight, Units
  <2>2. CASE e # d
    <3>1. e \in DOMAIN queues /\ queues'[e] = queues[e] /\ clean'[e] = clean[e]
      BY <1>1, <1>2, <2>2 DEF TypeOK
    <3>2. QED
      BY <1>1, <1>5, <3>1, UntouchedDevice
  <2>3. QED
    BY <2>1, <2>2
<1>7. QED
  BY <1>4, <1>6, SoundDevicesNext

LEMMA AcquireStep ==
  ASSUME IInv, NEW j \in Jobs, NEW d \in Devices, TryAcquire(j, d)
  PROVE  IInv'
<1> DEFINE q == queues[d]
           S == Live(d)
<1>1. /\ TypeOK
      /\ \A e \in DOMAIN queues : Sound(e)
  BY SoundDevices
<1>2. /\ d \in DOMAIN queues
      /\ q \in QueueStates
      /\ MemoryBytes[j] \in Nat
      /\ d # NoDevice
  BY <1>1, GpuAssumption DEF TryAcquire, TypeOK, QueueStates
<1>3. /\ DOMAIN queues' = DOMAIN queues
      /\ queues'[d] = Charged(q, MemoryBytes[j])
      /\ \A e \in DOMAIN queues \ {d} : queues'[e] = queues[e]
      /\ device' = [device EXCEPT ![j] = d]
      /\ clean' = clean
  BY <1>1, <1>2 DEF TryAcquire, TypeOK, QueueStates
<1>4. /\ queues'[d] \in QueueStates
      /\ queues'[d].config = q.config
      /\ queues'[d].queued = q.queued + 1
      /\ queues'[d].memory_in_use = q.memory_in_use + MemoryBytes[j]
  BY <1>2, <1>3 DEF Charged, QueueStates
<1>5. TypeOK'
  <2>1. queues' \in [DOMAIN queues' -> QueueStates]
    BY <1>1, <1>3, <1>4 DEF TypeOK, QueueStates, TryAcquire
  <2>2. device' \in [Jobs -> DOMAIN queues' \cup {NoDevice}]
    BY <1>1, <1>2, <1>3 DEF TypeOK
  <2>3. QED
    BY <1>1, <1>3, <2>1, <2>2 DEF TypeOK, QueueStates
<1>6. /\ Live(d)' = S \cup {j} /\ j \notin S
      /\ \A e \in DOMAIN queues \ {d} : Live(e)' = Live(e)
  BY <1>1, <1>2, <1>3, GpuAssumption DEF Live, TryAcquire, TypeOK
<1>7. Sound(d)'
  <2>1. /\ Cardinality(S \cup {j}) = Cardinality(S) + 1
        /\ Weight(S \cup {j}, MemoryBytes)
             = Weight(S, MemoryBytes) + MemoryBytes[j]
        /\ Cardinality(S) \in Nat
        /\ Weight(S, MemoryBytes) \in Nat
    <3>1. IsFiniteSet(S) /\ \A i \in S : MemoryBytes[i] \in Nat
      BY LiveMeasured
    <3>2. j \notin S
      BY <1>6
    <3> HIDE DEF S
    <3>3. Cardinality(S \cup {j}) = Cardinality(S) + 1
      BY <3>1, <3>2, FS_AddElement
    <3>4. Weight(S \cup {j}, MemoryBytes) = Weight(S, MemoryBytes) + MemoryBytes[j]
      BY <1>2, <3>1, <3>2, WeightAdd
    <3>5. QED
      BY <3>1, <3>3, <3>4, UnitsFinite, FS_CardinalityType
  <2>2. Sound(d) /\ Admits(q, MemoryBytes[j])
    BY <1>1, <1>2 DEF TryAcquire
  <2>3. /\ q.queued + 1 <= q.config.queue_capacity
        /\ q.memory_in_use + MemoryBytes[j] <= q.config.memory_budget_bytes
    BY <1>2, <2>2
    DEF Sound, Admits, SaturatingSub, QueueStates, DeviceConfigs
  <2>4. /\ q.queued + 1 <= Cardinality(Live(d)')
        /\ q.memory_in_use + MemoryBytes[j] <= Weight(Live(d)', MemoryBytes)
        /\ clean[d] =>
             /\ q.queued + 1 = Cardinality(Live(d)')
             /\ q.memory_in_use + MemoryBytes[j] = Weight(Live(d)', MemoryBytes)
    BY <1>2, <1>6, <2>1, <2>2 DEF Sound, QueueStates
  <2>5. QED
    BY <1>3, <1>4, <2>2, <2>3, <2>4 DEF Sound, Valid, Weight, Units
<1>8. ASSUME NEW e \in DOMAIN queues \ {d}
      PROVE  Sound(e)'
  BY <1>1, <1>3, <1>6, UntouchedDevice
<1>9. QED
  BY <1>3, <1>5, <1>7, <1>8, SoundDevicesNext

LEMMA ReleaseStep ==
  ASSUME IInv, NEW j \in Jobs, NEW d, d = device[j], Release(j)
  PROVE  IInv'
<1> DEFINE q == queues[d]
           S == Live(d)
<1>1. /\ TypeOK
      /\ \A e \in DOMAIN queues : Sound(e)
  BY SoundDevices
<1>2. /\ d \in DOMAIN queues
      /\ d \in Devices
      /\ q \in QueueStates
      /\ MemoryBytes[j] \in Nat
      /\ d # NoDevice
  BY <1>1, GpuAssumption DEF Release, TypeOK, QueueStates
<1>3. /\ DOMAIN queues' = DOMAIN queues
      /\ queues'[d] = Discharged(q, MemoryBytes[j])
      /\ \A e \in DOMAIN queues \ {d} : queues'[e] = queues[e]
      /\ device' = [device EXCEPT ![j] = NoDevice]
      /\ clean' = [clean EXCEPT ![d] = @ \/ S = {j}]
  BY <1>1, <1>2 DEF Release, TypeOK, QueueStates
<1>4. /\ queues'[d] \in QueueStates
      /\ queues'[d].config = q.config
      /\ queues'[d].queued = SaturatingSub(q.queued, 1)
      /\ queues'[d].memory_in_use = SaturatingSub(q.memory_in_use, MemoryBytes[j])
  BY <1>2, <1>3 DEF Discharged, QueueStates, SaturatingSub
<1>5. TypeOK'
  <2>1. queues' \in [DOMAIN queues' -> QueueStates]
    BY <1>1, <1>3, <1>4 DEF TypeOK, QueueStates, Release
  <2>2. device' \in [Jobs -> DOMAIN queues' \cup {NoDevice}]
    BY <1>1, <1>2, <1>3 DEF TypeOK
  <2>3. clean' \in [Devices -> BOOLEAN]
    BY <1>1, <1>2, <1>3 DEF TypeOK
  <2>4. QED
    BY <1>1, <1>3, <2>1, <2>2, <2>3 DEF TypeOK, QueueStates
<1>6. /\ Live(d)' = S \ {j} /\ j \in S
      /\ \A e \in DOMAIN queues \ {d} : Live(e)' = Live(e)
  BY <1>1, <1>2, <1>3, GpuAssumption DEF Live, TypeOK
<1>7. Sound(d)'
  <2>1. /\ Cardinality(S \ {j}) = Cardinality(S) - 1
        /\ Weight(S \ {j}, MemoryBytes)
             = Weight(S, MemoryBytes) - MemoryBytes[j]
        /\ MemoryBytes[j] <= Weight(S, MemoryBytes)
        /\ 1 <= Cardinality(S)
        /\ Cardinality(S) \in Nat
        /\ Weight(S, MemoryBytes) \in Nat
    <3>1. IsFiniteSet(S) /\ \A i \in S : MemoryBytes[i] \in Nat
      BY LiveMeasured
    <3>2. j \in S
      BY <1>6
    <3> HIDE DEF S
    <3>3. /\ Cardinality(S \ {j}) = Cardinality(S) - 1
          /\ Cardinality(S) \in Nat
          /\ Cardinality(S \ {j}) \in Nat
      BY <3>1, <3>2, FS_RemoveElement, FS_CardinalityType
    <3>4. /\ Weight(S \ {j}, MemoryBytes) = Weight(S, MemoryBytes) - MemoryBytes[j]
          /\ MemoryBytes[j] <= Weight(S, MemoryBytes)
          /\ Weight(S, MemoryBytes) \in Nat
      BY <3>1, <3>2, WeightRemove, UnitsFinite
    <3>5. QED
      BY <3>3, <3>4
  <2>2. Sound(d)
    BY <1>1, <1>2
  <2>3. /\ SaturatingSub(q.queued, 1) <= q.config.queue_capacity
        /\ SaturatingSub(q.memory_in_use, MemoryBytes[j])
             <= q.config.memory_budget_bytes
    BY <1>2, <2>2 DEF Sound, SaturatingSub, QueueStates, DeviceConfigs
  <2>4. /\ SaturatingSub(q.queued, 1) <= Cardinality(S \ {j})
        /\ SaturatingSub(q.memory_in_use, MemoryBytes[j])
             <= Weight(S \ {j}, MemoryBytes)
    BY <1>2, <2>1, <2>2 DEF Sound, SaturatingSub, QueueStates
  <2>5. clean[d] =>
          /\ SaturatingSub(q.queued, 1) = Cardinality(S \ {j})
          /\ SaturatingSub(q.memory_in_use, MemoryBytes[j])
               = Weight(S \ {j}, MemoryBytes)
    BY <1>2, <2>1, <2>2 DEF Sound, SaturatingSub, QueueStates
  <2>6. S = {j} =>
          /\ SaturatingSub(q.queued, 1) = Cardinality(S \ {j})
          /\ SaturatingSub(q.memory_in_use, MemoryBytes[j])
               = Weight(S \ {j}, MemoryBytes)
    <3>1. S = {j} => Cardinality(S \ {j}) = 0 /\ Weight(S \ {j}, MemoryBytes) = 0
      BY FS_EmptySet, WeightNone
    <3>2. /\ SaturatingSub(q.queued, 1) \in Nat
          /\ SaturatingSub(q.memory_in_use, MemoryBytes[j]) \in Nat
      BY <1>2 DEF SaturatingSub, QueueStates
    <3>3. QED
      BY <2>4, <3>1, <3>2
  <2>7. clean'[d] <=> clean[d] \/ S = {j}
    BY <1>1, <1>2, <1>3 DEF TypeOK
  <2>8. QED
    BY <1>4, <1>6, <2>2, <2>3, <2>4, <2>5, <2>6, <2>7
    DEF Sound, Valid, Weight, Units
<1>8. ASSUME NEW e \in DOMAIN queues \ {d}
      PROVE  Sound(e)'
  <2>1. clean'[e] = clean[e]
    BY <1>1, <1>3 DEF TypeOK
  <2>2. QED
    BY <1>1, <1>3, <1>6, <2>1, UntouchedDevice
<1>9. QED
  BY <1>3, <1>5, <1>7, <1>8, SoundDevicesNext

LEMMA NextStep == IInv /\ [Next]_vars => IInv'
<1> SUFFICES ASSUME IInv, [Next]_vars PROVE IInv'
  OBVIOUS
<1>1. CASE UNCHANGED vars
  <2>1. /\ queues' = queues /\ device' = device /\ clean' = clean
    BY <1>1 DEF vars
  <2>2. \A d : Live(d)' = Live(d)
    BY <2>1 DEF Live
  <2>3. \A d \in DOMAIN queues : Sound(d)'
    BY <2>1, <2>2, SoundDevices, UntouchedDevice
  <2>4. TypeOK'
    BY <2>1 DEF IInv, TypeOK
  <2>5. QED
    BY <2>1, <2>3, <2>4, SoundDevicesNext
<1>2. CASE \E d \in Devices, config \in Configs : RegisterDevice(d, config)
  BY <1>2, RegisterStep
<1>3. CASE \E j \in Jobs, d \in Devices : TryAcquire(j, d)
  BY <1>3, AcquireStep
<1>4. CASE \E j \in Jobs : Release(j)
  BY <1>4, ReleaseStep
<1>5. QED
  BY <1>1, <1>2, <1>3, <1>4 DEF Next

(* The books of every device, whatever the order of registrations, grants   *)
(* and releases (gpu.rs register_device, try_acquire, release).             *)
THEOREM Invariance == Spec => []IInv
BY InitStep, NextStep, PTL DEF Spec

LEMMA InvAdmits == IInv => IdleDeviceAdmits
<1> SUFFICES ASSUME IInv, NEW d \in DOMAIN queues, NEW j \in Jobs,
                    Live(d) = {},
                    MemoryBytes[j] <= queues[d].config.max_job_memory_bytes
             PROVE  Admits(queues[d], MemoryBytes[j])
  BY DEF IdleDeviceAdmits
<1>1. Sound(d) /\ queues[d] \in QueueStates /\ MemoryBytes[j] \in Nat
  BY SoundDevices, GpuAssumption DEF IInv, TypeOK, QueueStates
<1>2. Cardinality(Live(d)) = 0 /\ Weight(Live(d), MemoryBytes) = 0
  BY FS_EmptySet, WeightNone
<1>3. queues[d].queued = 0 /\ queues[d].memory_in_use = 0
  BY <1>1, <1>2 DEF Sound, QueueStates
<1>4. QED
  BY <1>1, <1>3
  DEF Sound, Valid, Admits, SaturatingSub, QueueStates, DeviceConfigs

LEMMA InvWithinBudget == IInv => CleanDeviceWithinBudget
<1> SUFFICES ASSUME IInv, NEW d \in DOMAIN queues, clean[d]
             PROVE  Within(d)
  BY DEF CleanDeviceWithinBudget
<1>1. Sound(d)
  BY SoundDevices
<1>2. QED
  BY <1>1 DEF Sound, Within

(* An idle device admits every job its configuration allows: no order of    *)
(* calls leaks a slot or a byte (gpu.rs release, GpuPermit::drop).          *)
THEOREM NoCapacityLeak == Spec => []IdleDeviceAdmits
BY Invariance, InvAdmits, PTL

(* A device not registered over permits still out stays within its capacity *)
(* and its memory (gpu.rs try_acquire).                                     *)
THEOREM CleanBudgetSafety == Spec => []CleanDeviceWithinBudget
BY Invariance, InvWithinBudget, PTL

=============================================================================
