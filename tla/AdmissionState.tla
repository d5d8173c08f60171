--------------------------- MODULE AdmissionState ---------------------------
(***************************************************************************)
(* The record guarded by the mutex of WeightedAdmission                     *)
(* (quant-engine/src/scheduler.rs) and the three functions that read or     *)
(* change it.  Every caller holds the lock around one of them, so each is   *)
(* one atomic step of the modules that use it.                              *)
(*                                                                          *)
(* The widths (u32 cpu units, u64 bytes) are not modelled: a charge is made *)
(* only when it fits, so no counter passes its limit, which has the width.  *)
(***************************************************************************)
EXTENDS Naturals, FiniteSets

SaturatingSub(a, b) == IF b <= a THEN a - b ELSE 0

(* JobCost::new and AdmissionLimits::new raise a zero to one cpu unit. *)
JobCost(cpu, bytes) ==
  [cpu_units |-> IF cpu = 0 THEN 1 ELSE cpu, estimated_bytes |-> bytes]

AdmissionLimits(cpu, bytes) ==
  [cpu_units |-> IF cpu = 0 THEN 1 ELSE cpu, memory_bytes |-> bytes]

Idle == [cpu_in_use |-> 0, memory_in_use |-> 0, queued |-> 0]

AdmissionRecords == [cpu_in_use : Nat, memory_in_use : Nat, queued : Nat]

\* Mutant: the memory budget is not consulted.
Fits_CpuOnly(limits, state, cost) ==
  cost.cpu_units <= SaturatingSub(limits.cpu_units, state.cpu_in_use)

Fits(limits, state, cost) ==
  /\ cost.cpu_units <= SaturatingSub(limits.cpu_units, state.cpu_in_use)
  /\ cost.estimated_bytes
       <= SaturatingSub(limits.memory_bytes, state.memory_in_use)

(* charge() and the increment of the permit count that follows each call. *)
Charge(state, cost) ==
  [cpu_in_use    |-> state.cpu_in_use + cost.cpu_units,
   memory_in_use |-> state.memory_in_use + cost.estimated_bytes,
   queued        |-> state.queued + 1]

\* Mutant: the memory of a finished job stays charged.
Discharge_KeepsMemory(state, cost) ==
  [cpu_in_use    |-> SaturatingSub(state.cpu_in_use, cost.cpu_units),
   memory_in_use |-> state.memory_in_use,
   queued        |-> SaturatingSub(state.queued, 1)]

\* Mutant: release() and then Drop both run, on wrapping counters.
Discharge_TwiceWrapping(state, cost) ==
  [cpu_in_use    |-> state.cpu_in_use - 2 * cost.cpu_units,
   memory_in_use |-> state.memory_in_use - 2 * cost.estimated_bytes,
   queued        |-> state.queued - 2]

(* WeightedAdmission::release: saturating on every counter. *)
Discharge(state, cost) ==
  [cpu_in_use    |-> SaturatingSub(state.cpu_in_use, cost.cpu_units),
   memory_in_use |-> SaturatingSub(state.memory_in_use, cost.estimated_bytes),
   queued        |-> SaturatingSub(state.queued, 1)]

-----------------------------------------------------------------------------
(* What a set of permits costs, without a sum over a set: a permit p of     *)
(* weight w[p] stands for the units <<p, 1>> .. <<p, w[p]>>.                *)

Units(S, w) == UNION {{p} \X (1 .. w[p]) : p \in S}

Weight(S, w) == Cardinality(Units(S, w))

=============================================================================
