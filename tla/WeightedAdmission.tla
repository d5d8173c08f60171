-------------------------- MODULE WeightedAdmission --------------------------
(***************************************************************************)
(* The weighted semaphore of quant-engine/src/scheduler.rs with its mutex   *)
(* and its condition variable.  Each caller is one thread that makes one    *)
(* call, try_acquire or the blocking acquire, and later drops its permit.   *)
(*                                                                          *)
(* A thread that finds no room in acquire sleeps on the condition variable. *)
(* release wakes every sleeper; a woken thread needs the lock again before  *)
(* it looks, so others may charge the budget in between and it goes back to *)
(* sleep.  A condition variable may also wake a sleeper for no reason.      *)
(***************************************************************************)
EXTENDS AdmissionState

CONSTANTS Callers,
          CpuCost,     \* [Callers -> Nat], the arguments of JobCost::new
          MemoryCost,
          CpuUnits,    \* the arguments of AdmissionLimits::new
          MemoryBytes

ASSUME CallersAssumption ==
  /\ IsFiniteSet(Callers)
  /\ CpuCost \in [Callers -> Nat]
  /\ MemoryCost \in [Callers -> Nat]
  /\ CpuUnits \in Nat
  /\ MemoryBytes \in Nat

VARIABLES state,   \* the counters behind the mutex
          pc       \* where each caller is

vars == <<state, pc>>

limits == AdmissionLimits(CpuUnits, MemoryBytes)
Cost(c) == JobCost(CpuCost[c], MemoryCost[c])

Positions == {"idle", "asleep", "woken", "holding", "shed", "done"}

Holders == {c \in Callers : pc[c] = "holding"}

Init == /\ state = Idle
        /\ pc = [c \in Callers |-> "idle"]

(* The call returns an AdmissionPermit. *)
Grant(c) == /\ Fits(limits, state, Cost(c))
            /\ state' = Charge(state, Cost(c))
            /\ pc' = [pc EXCEPT ![c] = "holding"]

TryAcquire(c) ==
  /\ pc[c] = "idle"
  /\ \/ Grant(c)
     \/ /\ ~Fits(limits, state, Cost(c))
        /\ pc' = [pc EXCEPT ![c] = "shed"]
        /\ UNCHANGED state

(* One turn of the loop in acquire: on entry, or after the lock is regained. *)
Acquire(c) ==
  /\ pc[c] \in {"idle", "woken"}
  /\ \/ Grant(c)
     \/ /\ ~Fits(limits, state, Cost(c))
        /\ pc' = [pc EXCEPT ![c] = "asleep"]
        /\ UNCHANGED state

\* Mutant: notify_one, the wake-up goes to a single sleeper.
Release_NotifyOne(c) ==
  /\ pc[c] = "holding"
  /\ state' = Discharge(state, Cost(c))
  /\ \E one \in Callers :
       /\ pc[one] = "asleep" \/ \A d \in Callers : pc[d] # "asleep"
       /\ pc' = [d \in Callers |-> IF d = c THEN "done"
                                 ELSE IF d = one /\ pc[d] = "asleep"
                                   THEN "woken" ELSE pc[d]]

(* AdmissionPermit::release or its Drop, with the notify_all of release. *)
Release(c) ==
  /\ pc[c] = "holding"
  /\ state' = Discharge(state, Cost(c))
  /\ pc' = [d \in Callers |-> IF d = c THEN "done"
                              ELSE IF pc[d] = "asleep" THEN "woken" ELSE pc[d]]

SpuriousWakeup(c) ==
  /\ pc[c] = "asleep"
  /\ pc' = [pc EXCEPT ![c] = "woken"]
  /\ UNCHANGED state

Next == \E c \in Callers :
          TryAcquire(c) \/ Acquire(c) \/ Release(c) \/ SpuriousWakeup(c)

(* The threads are scheduled: a woken thread gets the lock, and the work    *)
(* done under a permit ends.  Nobody has to call, no spurious wake-up has   *)
(* to come.                                                                 *)
Fairness == \A c \in Callers : /\ WF_vars(pc[c] = "woken" /\ Acquire(c))
                               /\ WF_vars(Release(c))

Spec == Init /\ [][Next]_vars /\ Fairness

-----------------------------------------------------------------------------

TypeOK == /\ state \in AdmissionRecords
          /\ pc \in [Callers -> Positions]

CpuWeights == [c \in Callers |-> Cost(c).cpu_units]
MemoryWeights == [c \in Callers |-> Cost(c).estimated_bytes]

(* The counters are exactly what the live permits cost: nothing is charged  *)
(* twice, nothing is released twice, and the saturating subtractions of     *)
(* release never hide a mismatch.                                           *)
CountersMatchPermits ==
  /\ state.cpu_in_use = Weight(Holders, CpuWeights)
  /\ state.memory_in_use = Weight(Holders, MemoryWeights)
  /\ state.queued = Cardinality(Holders)

(* The live permits stay within both limits.                                *)
WithinBudget == /\ state.cpu_in_use <= limits.cpu_units
                /\ state.memory_in_use <= limits.memory_bytes

(* No lost wake-up: a thread sleeps on the condition variable only while    *)
(* its cost does not fit; as soon as a release makes room, it is awake.     *)
NoLostWakeup == \A c \in Callers : pc[c] = "asleep" => ~Fits(limits, state, Cost(c))

(* The inductive invariant behind the theorems of WeightedAdmissionProofs.  *)
IInv == /\ TypeOK
        /\ CountersMatchPermits
        /\ WithinBudget
        /\ NoLostWakeup

(* A blocked acquire whose cost the limits can hold at all ends with a      *)
(* permit.  (A larger one waits for ever: the loop has no other exit.)      *)
BlockedAcquireIsServed ==
  \A c \in Callers :
    (pc[c] = "asleep" /\ Fits(limits, Idle, Cost(c))) ~> pc[c] = "holding"

(* The semaphore lends budget as the abstract pool does. *)
AffordableCallers(S) == /\ Weight(S, CpuWeights) <= limits.cpu_units
                        /\ Weight(S, MemoryWeights) <= MemoryBytes
Pool == INSTANCE BudgetPool
          WITH Permits <- Callers, Affordable <- AffordableCallers,
               lent <- Holders
ImplementsBudgetPool == Pool!Spec

=============================================================================
