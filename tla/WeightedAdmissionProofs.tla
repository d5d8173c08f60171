----------------------- MODULE WeightedAdmissionProofs -----------------------
(***************************************************************************)
(* Proofs about WeightedAdmission for any callers, costs and limits.  The   *)
(* counters are exact, so a granted permit is affordable; and what others   *)
(* charge only shrinks the room, so a sleeper that did not fit when it      *)
(* looked does not fit until a release, which wakes it.                     *)
(***************************************************************************)
EXTENDS WeightedAdmission, AdmissionLemmas

LEMMA LimitsType ==
  /\ limits.cpu_units \in Nat
  /\ limits.memory_bytes \in Nat
  /\ limits.memory_bytes = MemoryBytes
BY CallersAssumption DEF limits, AdmissionLimits

LEMMA CostType ==
  ASSUME NEW c \in Callers
  PROVE  /\ Cost(c).cpu_units \in Nat
         /\ Cost(c).estimated_bytes \in Nat
         /\ CpuWeights[c] = Cost(c).cpu_units
         /\ MemoryWeights[c] = Cost(c).estimated_bytes
BY CallersAssumption DEF Cost, JobCost, CpuWeights, MemoryWeights

LEMMA HoldersFinite ==
  IsFiniteSet(Holders) /\ \A c \in Holders : CpuWeights[c] \in Nat /\ MemoryWeights[c] \in Nat
<1>1. Holders \in SUBSET Callers
  BY DEF Holders
<1>2. QED
  BY <1>1, CallersAssumption, CostType, FS_Subset

(* The counters and the budget, and how each of the three kinds of step     *)
(* keeps them.                                                              *)
Books == CountersMatchPermits /\ WithinBudget

LEMMA BooksMatch ==
  CountersMatchPermits <=> Matches(state, Holders, CpuWeights, MemoryWeights)
BY DEF CountersMatchPermits, Matches

LEMMA BooksMatchNext ==
  CountersMatchPermits' <=> Matches(state', Holders', CpuWeights, MemoryWeights)
BY DEF CountersMatchPermits, Matches, CpuWeights, MemoryWeights, Cost, JobCost,
       Weight, Units

LEMMA BooksGrant ==
  ASSUME TypeOK, Books, NEW c \in Callers, pc[c] # "holding", Grant(c)
  PROVE  Books'
<1> DEFINE S == Holders
<1>1. S' = S \cup {c} /\ c \notin S
  BY DEF Holders, Grant, TypeOK
<1>2. IsFiniteSet(S) /\ \A d \in S : CpuWeights[d] \in Nat /\ MemoryWeights[d] \in Nat
  BY HoldersFinite
<1>3. Matches(state, S, CpuWeights, MemoryWeights)
  BY BooksMatch DEF Books
<1>4. /\ CpuWeights[c] = Cost(c).cpu_units /\ CpuWeights[c] \in Nat
      /\ MemoryWeights[c] = Cost(c).estimated_bytes /\ MemoryWeights[c] \in Nat
  BY CostType
<1>5. /\ Weight(S, CpuWeights) <= limits.cpu_units
      /\ Weight(S, MemoryWeights) <= limits.memory_bytes
  BY DEF Books, CountersMatchPermits, WithinBudget
<1>6. Fits(limits, state, Cost(c)) /\ state' = Charge(state, Cost(c))
  BY DEF Grant
<1>7. limits.cpu_units \in Nat /\ limits.memory_bytes \in Nat
  BY LimitsType
<1> HIDE DEF S
<1>8. Matches(Charge(state, Cost(c)), S \cup {c}, CpuWeights, MemoryWeights)
  BY <1>1, <1>2, <1>3, <1>4, ChargeMatches
<1>9. /\ Weight(S \cup {c}, CpuWeights) <= limits.cpu_units
      /\ Weight(S \cup {c}, MemoryWeights) <= limits.memory_bytes
  BY <1>1, <1>2, <1>3, <1>4, <1>5, <1>6, <1>7, FitsIsAffordable
<1>10. Matches(state', Holders', CpuWeights, MemoryWeights)
  BY <1>1, <1>6, <1>8 DEF S
<1>11. WithinBudget'
  BY <1>6, <1>8, <1>9 DEF Matches, WithinBudget, limits, AdmissionLimits
<1>12. QED
  BY <1>10, <1>11, BooksMatchNext DEF Books

LEMMA BooksRelease ==
  ASSUME TypeOK, Books, NEW c \in Callers, Release(c)
  PROVE  Books'
<1> DEFINE S == Holders
<1>1. S' = S \ {c} /\ c \in S
  BY DEF Holders, Release, TypeOK
<1>2. IsFiniteSet(S) /\ \A d \in S : CpuWeights[d] \in Nat /\ MemoryWeights[d] \in Nat
  BY HoldersFinite
<1>3. Matches(state, S, CpuWeights, MemoryWeights)
  BY BooksMatch DEF Books
<1>4. /\ CpuWeights[c] = Cost(c).cpu_units
      /\ MemoryWeights[c] = Cost(c).estimated_bytes
      /\ Cost(c).cpu_units \in Nat /\ Cost(c).estimated_bytes \in Nat
  BY CostType
<1>5. state' = Discharge(state, Cost(c))
  BY DEF Release
<1>6. /\ state'.cpu_in_use <= state.cpu_in_use
      /\ state'.memory_in_use <= state.memory_in_use
      /\ state'.cpu_in_use \in Nat /\ state'.memory_in_use \in Nat
  BY <1>4, <1>5 DEF Discharge, SaturatingSub, TypeOK, AdmissionRecords
<1>7. WithinBudget'
  BY <1>6, LimitsType
  DEF Books, WithinBudget, TypeOK, AdmissionRecords, limits, AdmissionLimits
<1> HIDE DEF S
<1>8. Matches(Discharge(state, Cost(c)), S \ {c}, CpuWeights, MemoryWeights)
  BY <1>1, <1>2, <1>3, <1>4, DischargeMatches
<1>9. Matches(state', Holders', CpuWeights, MemoryWeights)
  BY <1>1, <1>5, <1>8 DEF S
<1>10. QED
  BY <1>7, <1>9, BooksMatchNext DEF Books

LEMMA BooksKept ==
  ASSUME Books, state' = state, Holders' = Holders
  PROVE  Books'
BY BooksMatch, BooksMatchNext
DEF Books, WithinBudget, limits, AdmissionLimits

-----------------------------------------------------------------------------

(* What does not fit does not fit once others have charged more.            *)
LEMMA ChargeShrinksRoom ==
  ASSUME state \in AdmissionRecords,
         NEW c \in Callers, NEW d \in Callers, ~Fits(limits, state, Cost(d))
  PROVE  ~Fits(limits, Charge(state, Cost(c)), Cost(d))
<1>1. /\ Cost(c).cpu_units \in Nat /\ Cost(c).estimated_bytes \in Nat
      /\ Cost(d).cpu_units \in Nat /\ Cost(d).estimated_bytes \in Nat
  BY CostType
<1>2. QED
  BY <1>1, LimitsType DEF Fits, Charge, SaturatingSub, AdmissionRecords

(* limits and Cost do not change from state to state. *)
LEMMA NoLostWakeupNext ==
  NoLostWakeup' <=> \A c \in Callers : pc'[c] = "asleep" => ~Fits(limits, state', Cost(c))
BY DEF NoLostWakeup, Fits, limits, AdmissionLimits, Cost, JobCost, SaturatingSub

LEMMA InitStep == Init => IInv
<1> SUFFICES ASSUME Init PROVE IInv
  OBVIOUS
<1>1. Holders = {}
  BY DEF Init, Holders
<1>2. CountersMatchPermits
  BY <1>1, WeightNone, FS_EmptySet DEF Init, Idle, CountersMatchPermits
<1>3. TypeOK /\ WithinBudget /\ NoLostWakeup
  BY LimitsType
  DEF Init, Idle, TypeOK, WithinBudget, NoLostWakeup, AdmissionRecords, Positions
<1>4. QED
  BY <1>2, <1>3 DEF IInv

LEMMA GrantStep ==
  ASSUME IInv, NEW c \in Callers, pc[c] # "holding", Grant(c)
  PROVE  IInv'
<1>1. Books'
  BY BooksGrant DEF IInv, Books
<1>2. TypeOK'
  BY CostType DEF IInv, TypeOK, Grant, Charge, AdmissionRecords, Positions
<1>3. ASSUME NEW d \in Callers, pc'[d] = "asleep"
      PROVE  ~Fits(limits, state', Cost(d))
  <2>1. pc[d] = "asleep"
    BY <1>3 DEF Grant, IInv, TypeOK
  <2>2. ~Fits(limits, state, Cost(d)) /\ state \in AdmissionRecords
    BY <2>1 DEF IInv, NoLostWakeup, TypeOK
  <2>3. QED
    BY <2>2, ChargeShrinksRoom DEF Grant
<1>4. QED
  BY <1>1, <1>2, <1>3, NoLostWakeupNext DEF IInv, Books

LEMMA ReleaseStep ==
  ASSUME IInv, NEW c \in Callers, Release(c)
  PROVE  IInv'
<1>1. Books'
  BY BooksRelease DEF IInv, Books
<1>2. TypeOK'
  BY CostType
  DEF IInv, TypeOK, Release, Discharge, SaturatingSub, AdmissionRecords, Positions
<1>3. \A d \in Callers : pc'[d] # "asleep"
  BY DEF Release, IInv, TypeOK
<1>4. QED
  BY <1>1, <1>2, <1>3, NoLostWakeupNext DEF IInv, Books

(* A caller moves without a permit; it may fall asleep only if it does not  *)
(* fit.                                                                     *)
LEMMA MoveStep ==
  ASSUME IInv, NEW c \in Callers, pc[c] # "holding",
         NEW p \in Positions \ {"holding"}, pc' = [pc EXCEPT ![c] = p],
         p = "asleep" => ~Fits(limits, state, Cost(c)),
         UNCHANGED state
  PROVE  IInv'
<1>1. Holders' = Holders
  BY DEF Holders, IInv, TypeOK
<1>2. Books'
  BY <1>1, BooksKept DEF IInv, Books
<1>3. TypeOK'
  BY DEF IInv, TypeOK
<1>4. \A d \in Callers : pc'[d] = "asleep" => ~Fits(limits, state', Cost(d))
  BY DEF IInv, TypeOK, NoLostWakeup
<1>5. QED
  BY <1>2, <1>3, <1>4, NoLostWakeupNext DEF IInv, Books

LEMMA StutterStep == ASSUME IInv, UNCHANGED vars PROVE IInv'
<1>1. Holders' = Holders /\ state' = state /\ pc' = pc
  BY DEF vars, Holders
<1>2. Books'
  BY <1>1, BooksKept DEF IInv, Books
<1>3. QED
  BY <1>1, <1>2, NoLostWakeupNext DEF IInv, Books, TypeOK, NoLostWakeup

LEMMA NextStep == IInv /\ [Next]_vars => IInv'
<1> SUFFICES ASSUME IInv, [Next]_vars PROVE IInv'
  OBVIOUS
<1>1. ASSUME NEW c \in Callers, TryAcquire(c) PROVE IInv'
  <2>1. pc[c] # "holding" /\ "shed" \in Positions \ {"holding"}
    BY <1>1 DEF TryAcquire, Positions
  <2>2. CASE Grant(c)
    BY <2>1, <2>2, GrantStep
  <2>3. CASE pc' = [pc EXCEPT ![c] = "shed"] /\ UNCHANGED state
    BY <2>1, <2>3, MoveStep
  <2>4. QED
    BY <1>1, <2>2, <2>3 DEF TryAcquire
<1>2. ASSUME NEW c \in Callers, Acquire(c) PROVE IInv'
  <2>1. pc[c] # "holding" /\ "asleep" \in Positions \ {"holding"}
    BY <1>2 DEF Acquire, Positions
  <2>2. CASE Grant(c)
    BY <2>1, <2>2, GrantStep
  <2>3. CASE /\ ~Fits(limits, state, Cost(c))
             /\ pc' = [pc EXCEPT ![c] = "asleep"]
             /\ UNCHANGED state
    BY <2>1, <2>3, MoveStep
  <2>4. QED
    BY <1>2, <2>2, <2>3 DEF Acquire
<1>3. ASSUME NEW c \in Callers, Release(c) PROVE IInv'
  BY <1>3, ReleaseStep
<1>4. ASSUME NEW c \in Callers, SpuriousWakeup(c) PROVE IInv'
  <2>1. pc[c] # "holding" /\ "woken" \in Positions \ {"holding"}
    BY <1>4 DEF SpuriousWakeup, Positions
  <2>2. QED
    BY <1>4, <2>1, MoveStep DEF SpuriousWakeup
<1>5. CASE UNCHANGED vars
  BY <1>5, StutterStep
<1>6. QED
  BY <1>1, <1>2, <1>3, <1>4, <1>5 DEF Next

(* The counters are exact, the budget holds and no sleeper fits, in every   *)
(* reachable state.                                                         *)
THEOREM Invariance == Spec => []IInv
<1>1. QED
  BY InitStep, NextStep, PTL DEF Spec

(* No wake-up is lost: a caller sleeps only while its cost does not fit.    *)
THEOREM WakeupSafety == Spec => []NoLostWakeup
<1>1. IInv => NoLostWakeup
  BY DEF IInv
<1>2. QED
  BY <1>1, Invariance, PTL

-----------------------------------------------------------------------------

(* Which permits are out changes by one at most. *)
LEMMA NextMovesHolders ==
  ASSUME IInv, [Next]_vars
  PROVE  \/ Holders' = Holders
         \/ \E c \in Callers : \/ c \notin Holders /\ Holders' = Holders \cup {c}
                               \/ c \in Holders /\ Holders' = Holders \ {c}
<1>1. pc \in [Callers -> Positions]
  BY DEF IInv, TypeOK
<1>2. ASSUME NEW c \in Callers, TryAcquire(c) \/ Acquire(c)
      PROVE  \/ Holders' = Holders
             \/ c \notin Holders /\ Holders' = Holders \cup {c}
  BY <1>1, <1>2 DEF TryAcquire, Acquire, Grant, Holders
<1>3. ASSUME NEW c \in Callers, Release(c)
      PROVE  c \in Holders /\ Holders' = Holders \ {c}
  BY <1>1, <1>3 DEF Release, Holders
<1>4. ASSUME NEW c \in Callers, SpuriousWakeup(c)
      PROVE  Holders' = Holders
  BY <1>1, <1>4 DEF SpuriousWakeup, Holders
<1>5. CASE UNCHANGED vars
  BY <1>5 DEF vars, Holders
<1>6. QED
  BY <1>2, <1>3, <1>4, <1>5 DEF Next

LEMMA PoolStep ==
  ASSUME IInv, [Next]_vars
  PROVE  [Pool!Next]_Holders
<1>1. Books'
  BY NextStep DEF IInv, Books
<1>2. AffordableCallers(Holders')
  BY <1>1, LimitsType
  DEF Books, CountersMatchPermits, WithinBudget, AffordableCallers, Weight,
      Units, CpuWeights, MemoryWeights, Cost, JobCost, limits, AdmissionLimits
<1>3. ASSUME NEW c \in Callers, c \notin Holders, Holders' = Holders \cup {c}
      PROVE  Pool!Lend(c)
  BY <1>2, <1>3 DEF Pool!Lend
<1>4. ASSUME NEW c \in Callers, c \in Holders, Holders' = Holders \ {c}
      PROVE  Pool!GiveBack(c)
  BY <1>4 DEF Pool!GiveBack
<1>5. QED
  BY <1>3, <1>4, NextMovesHolders DEF Pool!Next

(* The semaphore lends the budget as the abstract pool does: both limits at *)
(* every grant, and every permit returned once.                             *)
THEOREM PoolRefinement == Spec => ImplementsBudgetPool
<1>1. Init => Pool!Init
  BY DEF Init, Pool!Init, Holders
<1>2. IInv /\ [Next]_vars => [Pool!Next]_Holders
  BY PoolStep
<1>3. QED
  BY <1>1, <1>2, Invariance, PTL DEF Spec, Pool!Spec, ImplementsBudgetPool

=============================================================================
