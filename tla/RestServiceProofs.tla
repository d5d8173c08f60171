-------------------------- MODULE RestServiceProofs --------------------------
(***************************************************************************)
(* Proofs about Scheduler and RestService for any jobs, requests, workers,  *)
(* costs and limits.                                                        *)
(*                                                                          *)
(* The pool comes first.  IInv is its inductive invariant.  The counters    *)
(* alone are not inductive: a worker may subtract only because the job it   *)
(* holds is still charged and counted, which needs BusyHoldsJob and         *)
(* ChannelHoldsSent; that no accepted job is lost while a thread lives      *)
(* needs ExitedMeansDrained, which rests on SubmittingNeedsOpen.  This      *)
(* part, PoolIInv, is inductive by itself; JobIInv follows from it and from *)
(* the ways a job can change (JobStep).                                     *)
(*                                                                          *)
(* Every step of the service is a step of the pool or leaves its variables  *)
(* alone, so the pool's theorems hold for the service; on top of them the   *)
(* slots of wait_permits are conserved and no client that still listens is  *)
(* told that its request was cancelled.                                     *)
(***************************************************************************)
EXTENDS RestService, AdmissionLemmas, SequenceTheorems

(* Engine::new leaves at least one cpu unit, and every job costs one. *)
LEMMA LimitsType ==
  /\ limits.cpu_units \in Nat
  /\ limits.memory_bytes = memory_budget_bytes
  /\ memory_budget_bytes \in Nat
<1>1. Threads \in Nat
  BY SchedulerAssumption, FS_CardinalityType DEF Threads
<1>2. QED
  BY <1>1, SchedulerAssumption DEF limits, AdmissionLimits

LEMMA CostType ==
  ASSUME NEW j \in Jobs
  PROVE  /\ Cost(j).cpu_units \in Nat
         /\ Cost(j).estimated_bytes \in Nat
         /\ CpuWeights[j] = Cost(j).cpu_units
         /\ MemoryWeights[j] = Cost(j).estimated_bytes
BY SchedulerAssumption DEF Cost, JobCost, CpuWeights, MemoryWeights

(* Any set of jobs picked by phase is finite. *)
LEMMA InPhaseFinite ==
  ASSUME NEW P
  PROVE  /\ IsFiniteSet(InPhase(P))
         /\ Cardinality(InPhase(P)) \in Nat
         /\ IsFiniteSet(InPhase(P)')
         /\ Cardinality(InPhase(P)') \in Nat
<1>1. InPhase(P) \in SUBSET Jobs /\ InPhase(P)' \in SUBSET Jobs
  BY DEF InPhase
<1>2. QED
  BY <1>1, SchedulerAssumption, FS_Subset, FS_CardinalityType

(* One job changes phase: it enters or leaves the set, the others stay. *)
LEMMA BecomeInPhase ==
  ASSUME NEW j \in Jobs, NEW p, NEW P, phase \in [Jobs -> Phases], Become(j, p)
  PROVE  /\ p \in P    => InPhase(P)' = InPhase(P) \cup {j}
         /\ p \notin P => InPhase(P)' = InPhase(P) \ {j}
BY DEF InPhase, Become

(* A step that neither charges nor discharges and moves the job within the  *)
(* charged phases, or within the others, keeps the admission counters.      *)
Books == CountersMatchPermits /\ WithinBudget

LEMMA BooksSame ==
  ASSUME Books, admission' = admission, InPhase(Charged)' = InPhase(Charged)
  PROVE  Books'
BY DEF Books, CountersMatchPermits, WithinBudget, InPhase, CpuWeights,
       MemoryWeights, Cost, JobCost, Weight, Units, limits, AdmissionLimits

LEMMA BooksCharge ==
  ASSUME Books, NEW j \in Jobs, phase \in [Jobs -> Phases],
         phase[j] \notin Charged, NEW p \in Charged, Become(j, p),
         Fits(limits, admission, Cost(j)), admission' = Charge(admission, Cost(j))
  PROVE  Books'
<1> DEFINE S == InPhase(Charged)
<1>1. S' = S \cup {j} /\ j \notin S /\ IsFiniteSet(S)
  BY BecomeInPhase, InPhaseFinite, ZenonT(60) DEF InPhase
<1>2. \A q \in S : CpuWeights[q] \in Nat /\ MemoryWeights[q] \in Nat
  BY CostType DEF InPhase
<1>3. Matches(admission, S, CpuWeights, MemoryWeights)
  BY DEF Books, CountersMatchPermits, Matches
<1>4. /\ CpuWeights[j] = Cost(j).cpu_units /\ CpuWeights[j] \in Nat
      /\ MemoryWeights[j] = Cost(j).estimated_bytes /\ MemoryWeights[j] \in Nat
  BY CostType
<1>5. /\ Weight(S, CpuWeights) <= limits.cpu_units
      /\ Weight(S, MemoryWeights) <= limits.memory_bytes
  BY LimitsType DEF Books, CountersMatchPermits, WithinBudget
<1>6. limits.cpu_units \in Nat /\ limits.memory_bytes \in Nat
  BY LimitsType
<1> HIDE DEF S
<1>7. Matches(Charge(admission, Cost(j)), S \cup {j}, CpuWeights, MemoryWeights)
  BY <1>1, <1>2, <1>3, <1>4, ChargeMatches
<1>8. /\ Weight(S \cup {j}, CpuWeights) <= limits.cpu_units
      /\ Weight(S \cup {j}, MemoryWeights) <= limits.memory_bytes
  BY <1>1, <1>2, <1>3, <1>4, <1>5, <1>6, FitsIsAffordable
<1>9. Matches(admission', InPhase(Charged)', CpuWeights, MemoryWeights)
  BY <1>1, <1>7 DEF S
<1>10. QED
  BY <1>1, <1>8, <1>9, LimitsType
  DEF Books, CountersMatchPermits, WithinBudget, Matches, S, limits,
      AdmissionLimits, CpuWeights, MemoryWeights, Cost, JobCost, Weight, Units

LEMMA BooksDischarge ==
  ASSUME Books, NEW j \in Jobs, phase \in [Jobs -> Phases],
         phase[j] \in Charged, NEW p, p \notin Charged, Become(j, p),
         admission \in AdmissionRecords,
         admission' = Discharge(admission, Cost(j))
  PROVE  Books'
<1> DEFINE S == InPhase(Charged)
<1>1. S' = S \ {j} /\ j \in S /\ IsFiniteSet(S)
  BY BecomeInPhase, InPhaseFinite, ZenonT(60) DEF InPhase
<1>2. \A q \in S : CpuWeights[q] \in Nat /\ MemoryWeights[q] \in Nat
  BY CostType DEF InPhase
<1>3. Matches(admission, S, CpuWeights, MemoryWeights)
  BY DEF Books, CountersMatchPermits, Matches
<1>4. /\ CpuWeights[j] = Cost(j).cpu_units /\ CpuWeights[j] \in Nat
      /\ MemoryWeights[j] = Cost(j).estimated_bytes /\ MemoryWeights[j] \in Nat
  BY CostType
<1>5. /\ admission'.cpu_in_use <= admission.cpu_in_use
      /\ admission'.memory_in_use <= admission.memory_in_use
      /\ admission'.cpu_in_use \in Nat /\ admission'.memory_in_use \in Nat
  BY <1>4 DEF Discharge, SaturatingSub, AdmissionRecords
<1>6. WithinBudget'
  BY <1>5, LimitsType
  DEF Books, WithinBudget, AdmissionRecords, limits, AdmissionLimits
<1> HIDE DEF S
<1>7. Matches(Discharge(admission, Cost(j)), S \ {j}, CpuWeights, MemoryWeights)
  BY <1>1, <1>2, <1>3, <1>4, DischargeMatches
<1>8. Matches(admission', InPhase(Charged)', CpuWeights, MemoryWeights)
  BY <1>1, <1>7 DEF S
<1>9. QED
  BY <1>6, <1>8
  DEF Books, CountersMatchPermits, Matches,
      CpuWeights, MemoryWeights, Cost, JobCost, Weight, Units

(* A job that moves within the charged phases, or within the others. *)
LEMMA BooksKept ==
  ASSUME Books, NEW j \in Jobs, phase \in [Jobs -> Phases], NEW p,
         Become(j, p), phase[j] \in Charged <=> p \in Charged,
         admission' = admission
  PROVE  Books'
<1>1. InPhase(Charged)' = InPhase(Charged)
  BY BecomeInPhase DEF InPhase
<1>2. QED
  BY <1>1, BooksSame

(* The same three movements for the counter `queued`. *)
LEMMA DepthKept ==
  ASSUME QueueDepthAccounted, NEW j \in Jobs, phase \in [Jobs -> Phases],
         NEW p, Become(j, p), phase[j] \in Counted <=> p \in Counted,
         queued' = queued
  PROVE  QueueDepthAccounted'
<1>1. InPhase(Counted)' = InPhase(Counted)
  BY BecomeInPhase DEF InPhase
<1>2. QED
  BY <1>1 DEF QueueDepthAccounted

LEMMA DepthUp ==
  ASSUME QueueDepthAccounted, NEW j \in Jobs, phase \in [Jobs -> Phases],
         NEW p \in Counted, Become(j, p), phase[j] \notin Counted,
         queued' = queued + 1
  PROVE  QueueDepthAccounted' /\ queued' \in Nat
<1>1. InPhase(Counted)' = InPhase(Counted) \cup {j} /\ j \notin InPhase(Counted)
  BY BecomeInPhase DEF InPhase
<1>2. /\ IsFiniteSet(InPhase(Counted))
      /\ Cardinality(InPhase(Counted)) \in Nat
  BY InPhaseFinite
<1>3. Cardinality(InPhase(Counted)') = Cardinality(InPhase(Counted)) + 1
  BY <1>1, <1>2, FS_AddElement
<1>4. QED
  BY <1>2, <1>3 DEF QueueDepthAccounted

LEMMA DepthDown ==
  ASSUME QueueDepthAccounted, NEW j \in Jobs, phase \in [Jobs -> Phases],
         NEW p, p \notin Counted, Become(j, p), phase[j] \in Counted,
         queued' = queued - 1
  PROVE  QueueDepthAccounted' /\ queued' \in Nat
<1>1. InPhase(Counted)' = InPhase(Counted) \ {j} /\ j \in InPhase(Counted)
  BY BecomeInPhase DEF InPhase
<1>2. /\ IsFiniteSet(InPhase(Counted))
      /\ Cardinality(InPhase(Counted)) \in Nat
      /\ Cardinality(InPhase(Counted)') \in Nat
  BY InPhaseFinite
<1>3. Cardinality(InPhase(Counted)') = Cardinality(InPhase(Counted)) - 1
  BY <1>1, <1>2, FS_RemoveElement
<1>4. QED
  BY <1>2, <1>3 DEF QueueDepthAccounted

(* The part of PoolIInv that relates channel, threads and handle.           *)
Structure == /\ ChannelHoldsSent
             /\ BusyHoldsJob
             /\ SubmittingNeedsOpen
             /\ ExitedMeansDrained
             /\ LostOnlyWithoutWorkers

LEMMA IInvParts == PoolIInv <=> TypeOK /\ Books /\ QueueDepthAccounted /\ Structure
BY DEF PoolIInv, Books, Structure

(* A submitter or a worker moves one job between phases other than "sent",  *)
(* "discarded" and "lost", and touches neither the channel nor the threads. *)
LEMMA StructureKept ==
  ASSUME TypeOK, Structure, NEW j \in Jobs, NEW p, Become(j, p),
         phase[j] # "sent", p \notin {"discarded", "lost"},
         p \in Submitting => open,
         UNCHANGED <<channel, threadVars>>
  PROVE  Structure'
<1>1. ChannelHoldsSent'
  BY DEF TypeOK, Structure, ChannelHoldsSent, Become, threadVars
<1>2. BusyHoldsJob'
  BY DEF Structure, BusyHoldsJob, threadVars
<1>3. SubmittingNeedsOpen'
  BY DEF TypeOK, Structure, SubmittingNeedsOpen, Become, threadVars
<1>4. ExitedMeansDrained'
  BY DEF Structure, ExitedMeansDrained, threadVars
<1>5. LostOnlyWithoutWorkers'
  BY DEF TypeOK, Structure, LostOnlyWithoutWorkers, InPhase, Become, threadVars
<1>6. QED
  BY <1>1, <1>2, <1>3, <1>4, <1>5 DEF Structure

LEMMA AdmissionTypes ==
  ASSUME NEW j \in Jobs, admission \in AdmissionRecords
  PROVE  /\ Charge(admission, Cost(j)) \in AdmissionRecords
         /\ Discharge(admission, Cost(j)) \in AdmissionRecords
BY CostType DEF AdmissionRecords, Charge, Discharge, SaturatingSub

-----------------------------------------------------------------------------
(* One lemma per action: it preserves PoolIInv. *)

LEMMA InitStep == Init => PoolIInv
<1> SUFFICES ASSUME Init PROVE PoolIInv
  OBVIOUS
<1>1. TypeOK
  BY SchedulerAssumption
  DEF Init, TypeOK, Idle, AdmissionRecords, Phases, Outcomes, WorkerStates
<1>2. \A P : "new" \notin P => InPhase(P) = {}
  BY DEF Init, InPhase
<1>3. InPhase(Charged) = {} /\ InPhase(Counted) = {}
  BY <1>2 DEF Charged, Counted
<1>4. Books
  BY <1>3, WeightNone, FS_EmptySet, LimitsType, SchedulerAssumption
  DEF Init, Idle, Books, CountersMatchPermits, WithinBudget
<1>5. QueueDepthAccounted
  BY <1>3, FS_EmptySet DEF Init, QueueDepthAccounted
<1>6. Structure
  BY <1>2 DEF Init, Structure, ChannelHoldsSent, BusyHoldsJob,
              SubmittingNeedsOpen, ExitedMeansDrained, LostOnlyWithoutWorkers
<1>7. QED
  BY <1>1, <1>4, <1>5, <1>6, IInvParts

LEMMA SubmitStep ==
  ASSUME PoolIInv, NEW j \in Jobs, NEW valid \in BOOLEAN, Submit(j, valid)
  PROVE  PoolIInv'
<1>1. TypeOK /\ Books /\ QueueDepthAccounted /\ Structure
  BY IInvParts
<1>2. phase \in [Jobs -> Phases] /\ phase[j] = "new"
  BY <1>1 DEF Submit, TypeOK
<1>3. CASE /\ Become(j, "closed")
           /\ \E o \in Outcomes : Learn(j, o)
           /\ UNCHANGED admission
  <2>1. TypeOK'
    BY <1>1, <1>3
    DEF Submit, TypeOK, Become, Learn, Phases, Outcomes, threadVars
  <2>2. Books'
    BY <1>1, <1>2, <1>3, BooksKept DEF Charged
  <2>3. QueueDepthAccounted'
    BY <1>1, <1>2, <1>3, DepthKept DEF Submit, Counted
  <2>4. Structure'
    BY <1>1, <1>2, <1>3, StructureKept DEF Submit, Submitting
  <2>5. QED
    BY <2>1, <2>2, <2>3, <2>4, IInvParts DEF PoolIInv, Books, Structure
<1>4. CASE /\ Fits(limits, admission, Cost(j))
           /\ admission' = Charge(admission, Cost(j))
           /\ Become(j, "admitted")
           /\ UNCHANGED outcome
  <2>1. TypeOK'
    BY <1>1, <1>4, AdmissionTypes DEF Submit, TypeOK, Become, Phases, threadVars
  <2>2. Books'
    BY <1>1, <1>2, <1>4, BooksCharge DEF Charged
  <2>3. QueueDepthAccounted'
    BY <1>1, <1>2, <1>4, DepthKept DEF Submit, Counted
  <2>4. Structure'
    BY <1>1, <1>2, <1>4, StructureKept DEF Submit, Submitting
  <2>5. QED
    BY <2>1, <2>2, <2>3, <2>4, IInvParts DEF PoolIInv, Books, Structure
<1>5. QED
  BY <1>3, <1>4 DEF Submit, Outcomes

LEMMA CountStep ==
  ASSUME PoolIInv, NEW j \in Jobs, Count(j)
  PROVE  PoolIInv'
<1>1. TypeOK /\ Books /\ QueueDepthAccounted /\ Structure
  BY IInvParts
<1>2. phase \in [Jobs -> Phases] /\ phase[j] = "admitted" /\ open
  BY <1>1 DEF Count, TypeOK, Structure, SubmittingNeedsOpen, Submitting
<1>3. Books'
  BY <1>1, <1>2, BooksKept DEF Count, Charged
<1>4. QueueDepthAccounted' /\ queued' \in Nat
  BY <1>1, <1>2, DepthUp DEF Count, Counted
<1>5. TypeOK'
  BY <1>1, <1>4 DEF Count, TypeOK, Become, Phases, threadVars
<1>6. Structure'
  BY <1>1, <1>2, StructureKept DEF Count
<1>7. QED
  BY <1>3, <1>4, <1>5, <1>6 DEF PoolIInv, Books, Structure

LEMMA TrySendStep ==
  ASSUME PoolIInv, NEW j \in Jobs, TrySend(j)
  PROVE  PoolIInv'
<1>1. TypeOK /\ Books /\ QueueDepthAccounted /\ Structure
  BY IInvParts
<1>2. phase \in [Jobs -> Phases] /\ phase[j] = "counted" /\ open
  BY <1>1 DEF TrySend, TypeOK, Structure, SubmittingNeedsOpen, Submitting
<1>3. PICK p \in {"discarded", "refused", "sent"} : Become(j, p)
  BY DEF TrySend
<1>4. Books'
  BY <1>1, <1>2, <1>3, BooksKept DEF TrySend, Charged
<1>5. QueueDepthAccounted'
  BY <1>1, <1>2, <1>3, DepthKept DEF TrySend, Counted
<1>6. TypeOK'
  <2>1. channel' \in Seq(Jobs)
    BY <1>1 DEF TrySend, TypeOK
  <2>2. phase' \in [Jobs -> Phases]
    BY <1>2, <1>3 DEF Become, Phases
  <2>3. outcome' \in [Jobs -> Outcomes]
    BY <1>1 DEF TrySend, TypeOK, Learn, Outcomes
  <2>4. QED
    BY <1>1, <2>1, <2>2, <2>3 DEF TrySend, TypeOK, threadVars
<1>7. Structure'
  <2>1. CASE Become(j, "refused") /\ UNCHANGED channel
    BY <1>1, <1>2, <2>1, StructureKept DEF TrySend
  <2>2. CASE ~ReceiverAlive /\ Become(j, "discarded") /\ UNCHANGED channel
    <3>1. \A w \in Workers : worker[w] = "dead"
      BY <1>1, <1>2, <2>2 DEF ReceiverAlive, Structure, ExitedMeansDrained
    <3>2. ChannelHoldsSent'
      BY <1>1, <1>2, <2>2, SMTT(20) DEF TypeOK, Structure, ChannelHoldsSent, Become
    <3>3. SubmittingNeedsOpen' /\ BusyHoldsJob' /\ ExitedMeansDrained'
      BY <1>1, <1>2, <2>2
      DEF TrySend, TypeOK, Structure, SubmittingNeedsOpen, BusyHoldsJob,
          ExitedMeansDrained, Become, threadVars
    <3>4. LostOnlyWithoutWorkers'
      BY <3>1 DEF TrySend, LostOnlyWithoutWorkers, threadVars
    <3>5. QED
      BY <3>2, <3>3, <3>4 DEF Structure
  <2>3. CASE channel' = Append(channel, j) /\ Become(j, "sent")
    <3>1. \A i \in 1 .. Len(channel) : channel[i] # j /\ channel[i] \in Jobs
      BY <1>1, <1>2 DEF TypeOK, Structure, ChannelHoldsSent
    <3>2. /\ Len(channel') = Len(channel) + 1
          /\ \A i \in 1 .. Len(channel) : channel'[i] = channel[i]
          /\ channel'[Len(channel) + 1] = j
      BY <1>1, <2>3 DEF TypeOK
    <3>3. ChannelHoldsSent'
      <4>1. Len(channel) \in Nat /\ channel \in Seq(Jobs)
        BY <1>1 DEF TypeOK
      <4>2. /\ phase'[j] = "sent"
            /\ \A k \in Jobs : k # j => phase'[k] = phase[k]
        BY <1>2, <2>3 DEF Become
      <4>3. /\ \A i \in 1 .. Len(channel) : phase[channel[i]] = "sent"
            /\ \A i, k \in 1 .. Len(channel) : channel[i] = channel[k] => i = k
        BY <1>1 DEF Structure, ChannelHoldsSent
      <4>4. \A i \in 1 .. Len(channel) + 1 : i \in 1 .. Len(channel) \/ i = Len(channel) + 1
        BY <4>1
      <4>5. \A i \in 1 .. Len(channel') : phase'[channel'[i]] = "sent"
        BY <3>1, <3>2, <4>2, <4>3, <4>4
      <4>6. ASSUME NEW i \in 1 .. Len(channel'), NEW k \in 1 .. Len(channel'),
                   channel'[i] = channel'[k]
            PROVE  i = k
        BY <3>1, <3>2, <4>3, <4>4, <4>6
      <4>7. QED
        BY <4>5, <4>6 DEF ChannelHoldsSent
    <3>4. SubmittingNeedsOpen' /\ BusyHoldsJob' /\ ExitedMeansDrained'
      BY <1>1, <1>2, <2>3
      DEF TrySend, TypeOK, Structure, SubmittingNeedsOpen, BusyHoldsJob,
          ExitedMeansDrained, Become, threadVars
    <3>5. LostOnlyWithoutWorkers'
      BY <1>1, <1>2, <2>3
      DEF TrySend, TypeOK, Structure, LostOnlyWithoutWorkers, InPhase, Become,
          threadVars
    <3>6. QED
      BY <3>3, <3>4, <3>5 DEF Structure
  <2>4. QED
    BY <2>1, <2>2, <2>3 DEF TrySend
<1>8. QED
  BY <1>4, <1>5, <1>6, <1>7 DEF PoolIInv, Books, Structure

LEMMA UncountRefusedStep ==
  ASSUME PoolIInv, NEW j \in Jobs, UncountRefused(j)
  PROVE  PoolIInv'
<1>1. TypeOK /\ Books /\ QueueDepthAccounted /\ Structure
  BY IInvParts
<1>2. phase \in [Jobs -> Phases] /\ phase[j] = "refused" /\ open
  BY <1>1 DEF UncountRefused, TypeOK, Structure, SubmittingNeedsOpen, Submitting
<1>3. Books'
  BY <1>1, <1>2, BooksKept DEF UncountRefused, Charged
<1>4. QueueDepthAccounted' /\ queued' \in Nat
  BY <1>1, <1>2, DepthDown DEF UncountRefused, Counted
<1>5. TypeOK'
  BY <1>1, <1>4 DEF UncountRefused, TypeOK, Become, Phases, threadVars
<1>6. Structure'
  BY <1>1, <1>2, StructureKept DEF UncountRefused
<1>7. QED
  BY <1>3, <1>4, <1>5, <1>6 DEF PoolIInv, Books, Structure

LEMMA DropRefusedStep ==
  ASSUME PoolIInv, NEW j \in Jobs, DropRefused(j)
  PROVE  PoolIInv'
<1>1. TypeOK /\ Books /\ QueueDepthAccounted /\ Structure
  BY IInvParts
<1>2. /\ phase \in [Jobs -> Phases] /\ phase[j] = "uncounted"
      /\ admission \in AdmissionRecords
  BY <1>1 DEF DropRefused, TypeOK
<1>3. Books'
  BY <1>1, <1>2, BooksDischarge DEF DropRefused, Charged
<1>4. QueueDepthAccounted'
  BY <1>1, <1>2, DepthKept DEF DropRefused, Counted
<1>5. TypeOK'
  BY <1>1, AdmissionTypes
  DEF DropRefused, TypeOK, Become, Learn, Phases, Outcomes, threadVars
<1>6. Structure'
  BY <1>1, <1>2, StructureKept DEF DropRefused, Submitting
<1>7. QED
  BY <1>3, <1>4, <1>5, <1>6 DEF PoolIInv, Books, Structure

LEMMA DropDiscardedStep ==
  ASSUME PoolIInv, NEW j \in Jobs, DropDiscarded(j)
  PROVE  PoolIInv'
<1>1. TypeOK /\ Books /\ QueueDepthAccounted /\ Structure
  BY IInvParts
<1>2. /\ phase \in [Jobs -> Phases] /\ phase[j] = "discarded"
      /\ admission \in AdmissionRecords
  BY <1>1 DEF DropDiscarded, TypeOK
<1>3. Books'
  BY <1>1, <1>2, BooksDischarge DEF DropDiscarded, Charged
<1>4. QueueDepthAccounted'
  BY <1>1, <1>2, DepthKept DEF DropDiscarded, Counted
<1>5. TypeOK'
  BY <1>1, AdmissionTypes
  DEF DropDiscarded, TypeOK, Become, Learn, Phases, Outcomes, threadVars
<1>6. Structure'
  <2>1. \A w \in Workers : worker[w] = "dead"
    BY <1>1, <1>2 DEF Structure, LostOnlyWithoutWorkers, InPhase
  <2>2. LostOnlyWithoutWorkers'
    BY <2>1 DEF DropDiscarded, LostOnlyWithoutWorkers, threadVars
  <2>3. /\ ChannelHoldsSent' /\ BusyHoldsJob'
        /\ SubmittingNeedsOpen' /\ ExitedMeansDrained'
    BY <1>1, <1>2
    DEF DropDiscarded, TypeOK, Structure, ChannelHoldsSent, BusyHoldsJob,
        SubmittingNeedsOpen, Submitting, ExitedMeansDrained, Become, threadVars
  <2>4. QED
    BY <2>2, <2>3 DEF Structure
<1>7. QED
  BY <1>3, <1>4, <1>5, <1>6 DEF PoolIInv, Books, Structure

LEMMA CancelStep ==
  ASSUME PoolIInv, NEW j \in Jobs, Cancel(j)
  PROVE  PoolIInv'
<1>1. TypeOK /\ Books /\ QueueDepthAccounted /\ Structure
  BY IInvParts
<1>2. TypeOK'
  BY <1>1 DEF Cancel, TypeOK, threadVars
<1>3. Books'
  BY <1>1, BooksSame DEF Cancel, InPhase
<1>4. QueueDepthAccounted'
  BY <1>1 DEF Cancel, QueueDepthAccounted, InPhase
<1>5. Structure'
  BY <1>1
  DEF Cancel, Structure, ChannelHoldsSent, BusyHoldsJob, SubmittingNeedsOpen,
      ExitedMeansDrained, LostOnlyWithoutWorkers, InPhase, threadVars
<1>6. QED
  BY <1>2, <1>3, <1>4, <1>5 DEF PoolIInv, Books, Structure

LEMMA ShutdownStep ==
  ASSUME PoolIInv, Shutdown
  PROVE  PoolIInv'
<1>1. TypeOK /\ Books /\ QueueDepthAccounted /\ Structure
  BY IInvParts
<1>2. TypeOK'
  BY <1>1 DEF Shutdown, TypeOK, jobVars
<1>3. Books'
  BY <1>1, BooksSame DEF Shutdown, InPhase, jobVars
<1>4. QueueDepthAccounted'
  BY <1>1 DEF Shutdown, QueueDepthAccounted, InPhase, jobVars
<1>5. Structure'
  BY <1>1
  DEF Shutdown, Structure, ChannelHoldsSent, BusyHoldsJob, SubmittingNeedsOpen,
      ExitedMeansDrained, LostOnlyWithoutWorkers, InPhase, jobVars
<1>6. QED
  BY <1>2, <1>3, <1>4, <1>5 DEF PoolIInv, Books, Structure

-----------------------------------------------------------------------------
(* Workers. *)

LEMMA TakeStep ==
  ASSUME PoolIInv, NEW w \in Workers, Take(w)
  PROVE  PoolIInv'
<1> DEFINE j == Head(channel)
<1>1. TypeOK /\ Books /\ QueueDepthAccounted /\ Structure
  BY IInvParts
<1>2. /\ channel \in Seq(Jobs) /\ channel # <<>>
      /\ Len(channel) \in Nat /\ 1 <= Len(channel)
      /\ j \in Jobs /\ j = channel[1]
  BY <1>1 DEF Take, TypeOK
<1>3. phase \in [Jobs -> Phases] /\ phase[j] = "sent"
  BY <1>1, <1>2 DEF TypeOK, Structure, ChannelHoldsSent
<1>4. Books'
  BY <1>1, <1>2, <1>3, BooksKept DEF Take, Charged
<1>5. QueueDepthAccounted'
  BY <1>1, <1>2, <1>3, DepthKept DEF Take, Counted
<1>6. /\ Tail(channel) \in Seq(Jobs)
      /\ Len(Tail(channel)) = Len(channel) - 1
      /\ \A i \in 1 .. Len(Tail(channel)) : Tail(channel)[i] = channel[i + 1]
  BY <1>2
<1>7. TypeOK'
  BY <1>1, <1>2, <1>6 DEF Take, TypeOK, Become, Phases, WorkerStates
<1>8. ChannelHoldsSent'
  <2>1. ASSUME NEW i \in 1 .. Len(channel')
        PROVE  /\ i + 1 \in 1 .. Len(channel) /\ channel'[i] = channel[i + 1]
               /\ channel[i + 1] \in Jobs /\ channel[i + 1] # j
    BY <1>1, <1>2, <1>6 DEF Take, Structure, ChannelHoldsSent
  <2>2. \A i \in 1 .. Len(channel') : phase'[channel'[i]] = "sent"
    BY <1>1, <1>3, <2>1 DEF Take, Become, Structure, ChannelHoldsSent
  <2>3. \A i, k \in 1 .. Len(channel') : channel'[i] = channel'[k] => i = k
    <3>1. SUFFICES ASSUME NEW i \in 1 .. Len(channel'),
                          NEW k \in 1 .. Len(channel'),
                          channel'[i] = channel'[k]
                   PROVE  i = k
      OBVIOUS
    <3>2. channel[i + 1] = channel[k + 1]
      BY <2>1, <3>1
    <3>3. i + 1 = k + 1
      BY <1>1, <2>1, <3>2 DEF Structure, ChannelHoldsSent
    <3>4. QED
      BY <3>3
  <2>4. QED
    BY <2>2, <2>3 DEF ChannelHoldsSent
<1>9. \A v \in Workers : worker[v] # "exited"
  BY <1>1, <1>2 DEF Structure, ExitedMeansDrained
<1>10. BusyHoldsJob' /\ SubmittingNeedsOpen' /\ ExitedMeansDrained'
  BY <1>1, <1>2, <1>3, <1>9
  DEF Take, TypeOK, Structure, BusyHoldsJob, SubmittingNeedsOpen, Submitting,
      ExitedMeansDrained, Become
<1>11. LostOnlyWithoutWorkers'
  BY <1>1, <1>2, <1>3
  DEF Take, TypeOK, Structure, LostOnlyWithoutWorkers, InPhase, Become
<1>12. QED
  BY <1>4, <1>5, <1>7, <1>8, <1>10, <1>11 DEF PoolIInv, Books, Structure

(* What every step of a worker that holds a job starts from. *)
LEMMA HeldJob ==
  ASSUME PoolIInv, NEW w \in Workers, worker[w] = "busy"
  PROVE  /\ current[w] \in Jobs
         /\ TypeOK /\ Books /\ QueueDepthAccounted /\ Structure
         /\ phase \in [Jobs -> Phases]
         /\ admission \in AdmissionRecords
BY IInvParts DEF Structure, BusyHoldsJob, TypeOK

LEMMA UncountStep ==
  ASSUME PoolIInv, NEW w \in Workers, Uncount(w)
  PROVE  PoolIInv'
<1> DEFINE j == current[w]
<1>1. /\ TypeOK /\ Books /\ QueueDepthAccounted /\ Structure
      /\ j \in Jobs /\ phase \in [Jobs -> Phases] /\ phase[j] = "taken"
  BY HeldJob DEF Uncount
<1>2. Books'
  BY <1>1, BooksKept DEF Uncount, Charged
<1>3. QueueDepthAccounted' /\ queued' \in Nat
  BY <1>1, DepthDown DEF Uncount, Counted
<1>4. TypeOK'
  BY <1>1, <1>3 DEF Uncount, TypeOK, Become, Phases, threadVars
<1>5. Structure'
  BY <1>1, StructureKept DEF Uncount, Submitting
<1>6. QED
  BY <1>2, <1>3, <1>4, <1>5 DEF PoolIInv, Books, Structure

LEMMA StartStep ==
  ASSUME PoolIInv, NEW w \in Workers, Start(w)
  PROVE  PoolIInv'
<1> DEFINE j == current[w]
<1>1. /\ TypeOK /\ Books /\ QueueDepthAccounted /\ Structure
      /\ j \in Jobs /\ phase \in [Jobs -> Phases] /\ phase[j] = "started"
  BY HeldJob DEF Start
<1>2. PICK p \in {"published", "executing"} : Become(j, p)
  BY DEF Start
<1>3. Books'
  BY <1>1, <1>2, BooksKept DEF Start, Charged
<1>4. QueueDepthAccounted'
  BY <1>1, <1>2, DepthKept DEF Start, Counted
<1>5. TypeOK'
  BY <1>1 DEF Start, TypeOK, Become, Learn, Phases, Outcomes, threadVars
<1>6. Structure'
  BY <1>1, <1>2, StructureKept DEF Start, Submitting
<1>7. QED
  BY <1>3, <1>4, <1>5, <1>6 DEF PoolIInv, Books, Structure

LEMMA PublishStep ==
  ASSUME PoolIInv, NEW w \in Workers, Publish(w)
  PROVE  PoolIInv'
<1> DEFINE j == current[w]
<1>1. /\ TypeOK /\ Books /\ QueueDepthAccounted /\ Structure
      /\ j \in Jobs /\ phase \in [Jobs -> Phases] /\ phase[j] = "executing"
  BY HeldJob DEF Publish
<1>2. Books'
  BY <1>1, BooksKept DEF Publish, Charged
<1>3. QueueDepthAccounted'
  BY <1>1, DepthKept DEF Publish, Counted
<1>4. TypeOK'
  BY <1>1 DEF Publish, TypeOK, Become, Learn, Phases, Outcomes, threadVars
<1>5. Structure'
  BY <1>1, StructureKept DEF Publish, Submitting
<1>6. QED
  BY <1>2, <1>3, <1>4, <1>5 DEF PoolIInv, Books, Structure

LEMMA PanicStep ==
  ASSUME PoolIInv, NEW w \in Workers, Panic(w)
  PROVE  PoolIInv'
<1> DEFINE j == current[w]
<1>1. /\ TypeOK /\ Books /\ QueueDepthAccounted /\ Structure
      /\ j \in Jobs /\ phase \in [Jobs -> Phases] /\ phase[j] = "executing"
  BY HeldJob DEF Panic
<1>2. Books'
  BY <1>1, BooksKept DEF Panic, Charged
<1>3. QueueDepthAccounted'
  BY <1>1, DepthKept DEF Panic, Counted
<1>4. TypeOK'
  BY <1>1 DEF Panic, TypeOK, Become, Learn, Phases, Outcomes, threadVars
<1>5. Structure'
  BY <1>1, StructureKept DEF Panic, Submitting
<1>6. QED
  BY <1>2, <1>3, <1>4, <1>5 DEF PoolIInv, Books, Structure

(* The worker drops its job: Finish after a return, Unwind after a panic.   *)
LEMMA DropStep ==
  ASSUME PoolIInv, NEW w \in Workers, Finish(w) \/ Unwind(w)
  PROVE  PoolIInv'
<1> DEFINE j == current[w]
<1>1. worker[w] = "busy"
  BY DEF Finish, Unwind
<1>2. /\ TypeOK /\ Books /\ QueueDepthAccounted /\ Structure
      /\ j \in Jobs /\ phase \in [Jobs -> Phases]
      /\ admission \in AdmissionRecords
  BY <1>1, HeldJob
<1>3. /\ phase[j] \in {"published", "unwinding"} /\ Become(j, "closed")
      /\ admission' = Discharge(admission, Cost(j))
      /\ UNCHANGED <<queued, channel, cancelled, outcome, open>>
  BY DEF Finish, Unwind
<1>4. PICK s \in {"waiting", "dying"} :
        worker' = [worker EXCEPT ![w] = s] /\ current' = [current EXCEPT ![w] = NoJob]
  BY DEF Finish, Unwind
<1>5. Books'
  BY <1>2, <1>3, BooksDischarge DEF Charged
<1>6. QueueDepthAccounted'
  BY <1>2, <1>3, DepthKept DEF Counted
<1>7. TypeOK'
  BY <1>2, <1>3, <1>4, AdmissionTypes DEF TypeOK, Become, Phases, WorkerStates
<1>8. ChannelHoldsSent' /\ SubmittingNeedsOpen'
  BY <1>2, <1>3
  DEF TypeOK, Structure, ChannelHoldsSent, SubmittingNeedsOpen, Submitting, Become
<1>9. BusyHoldsJob' /\ ExitedMeansDrained'
  BY <1>2, <1>3, <1>4 DEF TypeOK, Structure, BusyHoldsJob, ExitedMeansDrained
<1>10. LostOnlyWithoutWorkers'
  BY <1>1, <1>2, <1>3, <1>4
  DEF TypeOK, Structure, LostOnlyWithoutWorkers, InPhase, Become
<1>11. QED
  BY <1>5, <1>6, <1>7, <1>8, <1>9, <1>10 DEF PoolIInv, Books, Structure

(* A thread ends; with the last one the channel is discarded, which moves   *)
(* jobs within the charged and within the counted phases.                   *)
LEMMA LeaveStep ==
  ASSUME PoolIInv, NEW w \in Workers, Die(w) \/ Exit(w)
  PROVE  PoolIInv'
<1>1. TypeOK /\ Books /\ QueueDepthAccounted /\ Structure
  BY IInvParts
<1>2. PICK how \in {"dead", "exited"} :
        /\ Leave(w, how)
        /\ how = "dead" => worker[w] = "dying"
        /\ how = "exited" => worker[w] = "waiting" /\ channel = <<>> /\ ~open
  BY DEF Die, Exit, SenderAlive
<1>3. /\ worker' = [worker EXCEPT ![w] = how]
      /\ UNCHANGED <<admission, queued, cancelled, current, open>>
  BY <1>2 DEF Leave
<1>4. CASE UNCHANGED <<channel, phase, outcome>>
  <2>1. TypeOK'
    BY <1>1, <1>3, <1>4 DEF TypeOK, WorkerStates
  <2>2. Books'
    BY <1>1, <1>3, <1>4, BooksSame DEF InPhase
  <2>3. QueueDepthAccounted'
    BY <1>1, <1>3, <1>4 DEF QueueDepthAccounted, InPhase
  <2>4. Structure'
    BY <1>1, <1>2, <1>3, <1>4
    DEF TypeOK, Structure, ChannelHoldsSent, BusyHoldsJob, SubmittingNeedsOpen,
        ExitedMeansDrained, LostOnlyWithoutWorkers, InPhase
  <2>5. QED
    BY <2>1, <2>2, <2>3, <2>4 DEF PoolIInv, Books, Structure
<1>5. CASE /\ \A v \in Workers \ {w} : worker[v] \in {"dead", "exited"}
           /\ channel' = <<>>
           /\ phase' = [j \in Jobs |-> IF j \in Range(channel) THEN "discarded"
                                                              ELSE phase[j]]
           /\ outcome' = [j \in Jobs |-> IF j \in Range(channel)
                                         THEN "WorkerStopped" ELSE outcome[j]]
  <2>1. \A j \in Range(channel) : phase[j] = "sent"
    BY <1>1 DEF TypeOK, Structure, ChannelHoldsSent, Range
  <2>2. TypeOK'
    BY <1>1, <1>3, <1>5 DEF TypeOK, WorkerStates, Phases, Outcomes
  <2>3. Books'
    <3>1. InPhase(Charged)' = InPhase(Charged)
      BY <1>5, <2>1 DEF InPhase, Charged
    <3>2. QED
      BY <1>1, <1>3, <3>1, BooksSame
  <2>4. QueueDepthAccounted'
    <3>1. InPhase(Counted)' = InPhase(Counted)
      BY <1>5, <2>1 DEF InPhase, Counted
    <3>2. QED
      BY <1>1, <1>3, <3>1 DEF QueueDepthAccounted
  <2>5. ChannelHoldsSent' /\ BusyHoldsJob'
    BY <1>1, <1>2, <1>3, <1>5
    DEF TypeOK, Structure, ChannelHoldsSent, BusyHoldsJob
  <2>6. SubmittingNeedsOpen' /\ ExitedMeansDrained'
    BY <1>1, <1>2, <1>3, <1>5
    DEF TypeOK, Structure, SubmittingNeedsOpen, Submitting, ExitedMeansDrained
  <2>7. LostOnlyWithoutWorkers'
    <3>1. CASE channel = <<>>
      <4>1. Range(channel) = {}
        BY <3>1 DEF Range
      <4>2. QED
        BY <1>1, <1>2, <1>5, <4>1
        DEF TypeOK, Structure, LostOnlyWithoutWorkers, InPhase
    <3>2. CASE channel # <<>>
      <4>1. \A v \in Workers : worker[v] # "exited"
        BY <1>1, <3>2 DEF Structure, ExitedMeansDrained
      <4>2. how = "dead"
        BY <1>2, <3>2
      <4>3. \A v \in Workers : worker'[v] = "dead"
        BY <1>1, <1>3, <1>5, <4>1, <4>2 DEF TypeOK
      <4>4. QED
        BY <4>3 DEF LostOnlyWithoutWorkers
    <3>3. QED
      BY <3>1, <3>2
  <2>8. QED
    BY <2>2, <2>3, <2>4, <2>5, <2>6, <2>7 DEF PoolIInv, Books, Structure
<1>6. QED
  BY <1>2, <1>4, <1>5 DEF Leave, DiscardChannel

LEMMA StutterStep == ASSUME PoolIInv, UNCHANGED vars PROVE PoolIInv'
<1>1. TypeOK /\ Books /\ QueueDepthAccounted /\ Structure
  BY IInvParts
<1>2. Books'
  BY <1>1, BooksSame DEF vars, jobVars, InPhase
<1>3. TypeOK' /\ QueueDepthAccounted'
  BY <1>1 DEF vars, jobVars, threadVars, TypeOK, QueueDepthAccounted, InPhase
<1>4. Structure'
  BY <1>1
  DEF vars, jobVars, threadVars, Structure, ChannelHoldsSent, BusyHoldsJob,
      SubmittingNeedsOpen, ExitedMeansDrained, LostOnlyWithoutWorkers, InPhase
<1>5. QED
  BY <1>2, <1>3, <1>4 DEF PoolIInv, Books, Structure

LEMMA NextStep == PoolIInv /\ [Next]_vars => PoolIInv'
<1> SUFFICES ASSUME PoolIInv, [Next]_vars PROVE PoolIInv'
  OBVIOUS
<1>1. CASE \E j \in Jobs : \/ \E valid \in BOOLEAN : Submit(j, valid)
                           \/ SubmitterStep(j)
                           \/ Cancel(j)
  BY <1>1, SubmitStep, CountStep, TrySendStep, UncountRefusedStep,
     DropRefusedStep, DropDiscardedStep, CancelStep DEF SubmitterStep
<1>2. CASE \E w \in Workers : WorkerStep(w) \/ Panic(w)
  BY <1>2, TakeStep, UncountStep, StartStep, PublishStep, PanicStep, DropStep,
     LeaveStep DEF WorkerStep
<1>3. CASE Shutdown
  BY <1>3, ShutdownStep
<1>4. CASE UNCHANGED vars
  BY <1>4, StutterStep
<1>5. QED
  BY <1>1, <1>2, <1>3, <1>4 DEF Next

-----------------------------------------------------------------------------

LEMMA ChannelIsSent ==
  ASSUME PoolIInv
  PROVE  \A j \in Range(channel) : phase[j] = "sent"
BY DEF PoolIInv, TypeOK, ChannelHoldsSent, Range

LEMMA HeadIsSent ==
  ASSUME PoolIInv, channel # <<>>
  PROVE  Head(channel) \in Jobs /\ phase[Head(channel)] = "sent"
<1>1. channel \in Seq(Jobs) /\ Len(channel) \in Nat /\ 1 <= Len(channel)
  BY DEF PoolIInv, TypeOK
<1>2. Head(channel) = channel[1]
  BY <1>1
<1>3. QED
  BY <1>1, <1>2 DEF PoolIInv, ChannelHoldsSent

(* How one step changes one job.                                            *)

QuietMoves ==
  {<<"new", "admitted">>, <<"admitted", "counted">>, <<"counted", "refused">>,
   <<"counted", "sent">>, <<"refused", "uncounted">>, <<"sent", "taken">>,
   <<"taken", "started">>, <<"started", "executing">>, <<"published", "closed">>,
   <<"unwinding", "closed">>, <<"discarded", "lost">>}

JobMoves(k) ==
  LET move == <<phase[k], phase'[k]>>
  IN  \/ phase'[k] = phase[k] /\ outcome'[k] = outcome[k]
      \/ /\ move \in QuietMoves
         /\ outcome'[k] = outcome[k]
         /\ phase'[k] = "executing" => ~cancelled[k]
      \/ /\ move \in {<<"new", "closed">>, <<"uncounted", "closed">>}
         /\ outcome'[k] \in {"InvalidRequest", "Cancelled", "QueueFull"}
      \/ /\ move \in {<<"counted", "discarded">>, <<"sent", "discarded">>,
                      <<"executing", "unwinding">>}
         /\ outcome'[k] = "WorkerStopped"
      \/ move = <<"started", "published">> /\ outcome'[k] = "Cancelled"
      \/ /\ move = <<"executing", "published">>
         /\ outcome'[k] \in {"Computed", "Cancelled"}

(* A step that moves another job. *)
LEMMA OtherJob ==
  ASSUME TypeOK, NEW j \in Jobs, NEW k \in Jobs, j # k, NEW p, Become(j, p),
         outcome' = outcome \/ \E o : Learn(j, o)
  PROVE  JobMoves(k)
BY DEF TypeOK, Become, Learn, JobMoves

LEMMA JobStep ==
  ASSUME PoolIInv, [Next]_vars, NEW k \in Jobs
  PROVE  JobMoves(k) /\ (cancelled[k] => cancelled'[k])
<1>1. /\ TypeOK /\ phase \in [Jobs -> Phases] /\ outcome \in [Jobs -> Outcomes]
      /\ cancelled \in [Jobs -> BOOLEAN]
  BY DEF PoolIInv, TypeOK
<1>2. CASE phase' = phase /\ outcome' = outcome
           /\ (cancelled[k] => cancelled'[k])
  BY <1>2 DEF JobMoves
<1>3. ASSUME NEW j \in Jobs,
             \/ \E valid \in BOOLEAN : Submit(j, valid)
             \/ SubmitterStep(j)
      PROVE  JobMoves(k) /\ cancelled' = cancelled
  <2>1. cancelled' = cancelled
    BY <1>3 DEF Submit, SubmitterStep, Count, TrySend, UncountRefused,
                DropRefused, DropDiscarded
  <2>2. CASE j # k
    <3>1. \E p : Become(j, p)
      BY <1>3 DEF Submit, SubmitterStep, Count, TrySend, UncountRefused,
                  DropRefused, DropDiscarded
    <3>2. outcome' = outcome \/ \E o : Learn(j, o)
      BY <1>3 DEF Submit, SubmitterStep, Count, TrySend, UncountRefused,
                  DropRefused, DropDiscarded
    <3>3. QED
      BY <1>1, <2>1, <2>2, <3>1, <3>2, OtherJob
  <2>3. CASE j = k
    <3>1. ASSUME NEW valid \in BOOLEAN, Submit(k, valid)
          PROVE  JobMoves(k)
      BY <1>1, <3>1 DEF Submit, Become, Learn, JobMoves, QuietMoves
    <3>2. CASE Count(k) \/ UncountRefused(k) \/ DropDiscarded(k)
      BY <1>1, <3>2
      DEF Count, UncountRefused, DropDiscarded, Become, JobMoves, QuietMoves
    <3>3. CASE TrySend(k)
      BY <1>1, <3>3 DEF TrySend, Become, Learn, JobMoves, QuietMoves
    <3>4. CASE DropRefused(k)
      BY <1>1, <3>4 DEF DropRefused, Become, Learn, JobMoves
    <3>5. QED
      BY <1>3, <2>1, <2>3, <3>1, <3>2, <3>3, <3>4 DEF SubmitterStep
  <2>4. QED
    BY <2>1, <2>2, <2>3
<1>4. ASSUME NEW j \in Jobs, Cancel(j)
      PROVE  JobMoves(k) /\ (cancelled[k] => cancelled'[k])
  BY <1>1, <1>4 DEF Cancel, JobMoves
<1>5. ASSUME NEW w \in Workers, Take(w)
      PROVE  JobMoves(k) /\ cancelled' = cancelled
  <2>1. Head(channel) \in Jobs /\ phase[Head(channel)] = "sent"
    BY <1>5, HeadIsSent DEF Take
  <2>2. CASE k = Head(channel)
    BY <1>1, <1>5, <2>1, <2>2 DEF Take, Become, JobMoves, QuietMoves
  <2>3. CASE k # Head(channel)
    BY <1>1, <1>5, <2>1, <2>3, OtherJob DEF Take
  <2>4. QED
    BY <1>5, <2>2, <2>3 DEF Take
<1>6. ASSUME NEW w \in Workers,
             \/ Uncount(w) \/ Start(w) \/ Publish(w) \/ Finish(w) \/ Unwind(w)
             \/ Panic(w)
      PROVE  JobMoves(k) /\ cancelled' = cancelled
  <2>1. worker[w] = "busy" /\ cancelled' = cancelled
    BY <1>6 DEF Uncount, Start, Publish, Finish, Unwind, Panic
  <2>2. current[w] \in Jobs
    BY <2>1, HeldJob
  <2>3. CASE current[w] # k
    <3>1. \E p : Become(current[w], p)
      BY <1>6 DEF Uncount, Start, Publish, Finish, Unwind, Panic
    <3>2. outcome' = outcome \/ \E o : Learn(current[w], o)
      BY <1>6 DEF Uncount, Start, Publish, Finish, Unwind, Panic
    <3>3. QED
      BY <1>1, <2>1, <2>2, <2>3, <3>1, <3>2, OtherJob
  <2>4. CASE current[w] = k
    <3>1. CASE Uncount(w) \/ Finish(w) \/ Unwind(w)
      BY <1>1, <2>4, <3>1 DEF Uncount, Finish, Unwind, Become, JobMoves, QuietMoves
    <3>2. CASE Start(w)
      BY <1>1, <2>4, <3>2 DEF Start, Become, Learn, JobMoves, QuietMoves
    <3>3. CASE Publish(w) \/ Panic(w)
      BY <1>1, <2>4, <3>3 DEF Publish, Panic, Become, Learn, JobMoves
    <3>4. QED
      BY <1>6, <2>1, <3>1, <3>2, <3>3
  <2>5. QED
    BY <2>1, <2>3, <2>4
<1>7. ASSUME NEW w \in Workers, Die(w) \/ Exit(w)
      PROVE  JobMoves(k) /\ cancelled' = cancelled
  <2>1. cancelled' = cancelled
    BY <1>7 DEF Die, Exit, Leave
  <2>2. CASE DiscardChannel
    <3>1. k \in Range(channel) => phase[k] = "sent"
      BY ChannelIsSent
    <3>2. QED
      BY <2>1, <2>2, <3>1 DEF DiscardChannel, JobMoves
  <2>3. QED
    BY <1>2, <1>7, <2>1, <2>2 DEF Die, Exit, Leave
<1>8. CASE Shutdown \/ UNCHANGED vars
  BY <1>2, <1>8 DEF Shutdown, vars, jobVars
<1>9. QED
  BY <1>3, <1>4, <1>5, <1>6, <1>7, <1>8 DEF Next, WorkerStep

(* The threads and the jobs they hold.                                      *)

LEMMA HeldKept ==
  ASSUME HeldByOne, UNCHANGED <<worker, current>>, TypeOK,
         \A k \in Jobs : phase[k] \in Running => phase'[k] \in Running
  PROVE  HeldByOne'
BY DEF HeldByOne, TypeOK

LEMMA HeldByOneStep ==
  ASSUME PoolIInv, HeldByOne, [Next]_vars
  PROVE  HeldByOne'
<1>1. /\ TypeOK /\ phase \in [Jobs -> Phases]
      /\ current \in [Workers -> Jobs \cup {NoJob}]
      /\ worker \in [Workers -> WorkerStates]
  BY DEF PoolIInv, TypeOK
<1>2. ASSUME NEW j \in Jobs,
             \/ \E valid \in BOOLEAN : Submit(j, valid)
             \/ SubmitterStep(j)
      PROVE  HeldByOne'
  <2>1. UNCHANGED <<worker, current>> /\ phase[j] \notin Running
    BY <1>2 DEF Submit, SubmitterStep, Count, TrySend, UncountRefused,
                DropRefused, DropDiscarded, threadVars, Running
  <2>2. \E p : Become(j, p)
    BY <1>2 DEF Submit, SubmitterStep, Count, TrySend, UncountRefused,
                DropRefused, DropDiscarded
  <2>3. QED
    BY <1>1, <2>1, <2>2, HeldKept DEF Become
<1>3. CASE UNCHANGED <<phase, worker, current>>
  BY <1>1, <1>3, HeldKept
<1>4. ASSUME NEW w \in Workers, Take(w)
      PROVE  HeldByOne'
  <2> DEFINE j == Head(channel)
  <2>1. j \in Jobs /\ phase[j] = "sent"
    BY <1>4, HeadIsSent DEF Take
  <2>2. \A v \in Workers : current[v] # j
    BY <2>1, SchedulerAssumption DEF HeldByOne, Running
  <2>3. /\ worker' = [worker EXCEPT ![w] = "busy"]
        /\ current' = [current EXCEPT ![w] = j]
        /\ phase' = [phase EXCEPT ![j] = "taken"]
    BY <1>4 DEF Take, Become
  <2> HIDE DEF j
  <2>4. QED
    BY <1>1, <2>1, <2>2, <2>3 DEF HeldByOne, Running
<1>5. ASSUME NEW w \in Workers, Uncount(w) \/ Start(w) \/ Publish(w) \/ Panic(w)
      PROVE  HeldByOne'
  <2>1. UNCHANGED <<worker, current>>
    BY <1>5 DEF Uncount, Start, Publish, Panic, threadVars
  <2>2. \E p \in Running : Become(current[w], p)
    BY <1>5 DEF Uncount, Start, Publish, Panic, Running
  <2>3. QED
    BY <1>1, <2>1, <2>2, HeldKept DEF Become
<1>6. ASSUME NEW w \in Workers, Finish(w) \/ Unwind(w)
      PROVE  HeldByOne'
  <2>1. PICK s \in {"waiting", "dying"} :
          /\ worker' = [worker EXCEPT ![w] = s]
          /\ current' = [current EXCEPT ![w] = NoJob]
          /\ Become(current[w], "closed") /\ worker[w] = "busy"
    BY <1>6 DEF Finish, Unwind
  <2>2. current[w] \in Jobs
    BY <2>1, HeldJob
  <2>3. \A v \in Workers \ {w} : current[v] # current[w]
    BY <2>2, SchedulerAssumption DEF HeldByOne
  <2>4. QED
    BY <1>1, <2>1, <2>2, <2>3 DEF HeldByOne, Become
<1>7. ASSUME NEW w \in Workers, Die(w) \/ Exit(w)
      PROVE  HeldByOne'
  <2>1. PICK s : /\ worker[w] # "busy" /\ current' = current
                 /\ worker' = [worker EXCEPT ![w] = s]
    BY <1>7 DEF Die, Exit, Leave
  <2>2. \A k \in Jobs : phase[k] \in Running => phase'[k] = phase[k]
    BY <1>1, <1>7, ChannelIsSent DEF Die, Exit, Leave, DiscardChannel, Running
  <2>3. QED
    BY <1>1, <2>1, <2>2 DEF HeldByOne
<1>8. QED
  BY <1>2, <1>3, <1>4, <1>5, <1>6, <1>7
  DEF Next, WorkerStep, Cancel, Shutdown, vars, jobVars, threadVars

(* A panic leaves its mark: the thread unwinds, then dies, and stays dead.  *)
LEMMA PanicStays ==
  ASSUME PoolIInv, HeldByOne, [Next]_vars, PanicHappened
  PROVE  PanicHappened'
<1>1. /\ TypeOK /\ phase \in [Jobs -> Phases]
      /\ current \in [Workers -> Jobs \cup {NoJob}]
      /\ worker \in [Workers -> WorkerStates]
  BY DEF PoolIInv, TypeOK
<1>2. PICK w \in Workers :
        \/ worker[w] \in {"dying", "dead"}
        \/ worker[w] = "busy" /\ phase[current[w]] = "unwinding"
  BY DEF PanicHappened
<1>3. CASE worker[w] \in {"dying", "dead"}
  <2>1. worker'[w] \in {"dying", "dead"}
    BY <1>1, <1>3
    DEF Next, WorkerStep, Submit, SubmitterStep, Count, TrySend, UncountRefused,
        DropRefused, DropDiscarded, Cancel, Shutdown, Take, Uncount, Start,
        Publish, Panic, Finish, Unwind, Die, Exit, Leave, vars, threadVars
  <2>2. QED
    BY <2>1 DEF PanicHappened
<1>4. CASE worker[w] = "busy" /\ phase[current[w]] = "unwinding"
  <2>1. current[w] \in Jobs
    BY <1>4, HeldJob
  <2>2. JobMoves(current[w])
    BY <2>1, JobStep
  <2>3. phase'[current[w]] \in {"unwinding", "closed"}
    BY <1>4, <2>2 DEF JobMoves, QuietMoves
  <2>4. CASE Unwind(w)
    BY <1>1, <2>4 DEF Unwind, PanicHappened
  <2>5. ASSUME NEW v \in Workers, v # w, Finish(v) \/ Unwind(v)
        PROVE  phase'[current[w]] = phase[current[w]]
    <3>1. Become(current[v], "closed") /\ worker[v] = "busy"
      BY <2>5 DEF Finish, Unwind
    <3>2. current[v] \in Jobs /\ current[v] # current[w]
      BY <2>1, <2>5, <3>1, HeldJob, SchedulerAssumption DEF HeldByOne
    <3>3. QED
      BY <1>1, <2>1, <3>1, <3>2 DEF Become
  <2>6. CASE ~Unwind(w)
    <3>1. worker'[w] = "busy" /\ current'[w] = current[w]
      BY <1>1, <1>4, <2>6
      DEF Next, WorkerStep, Submit, SubmitterStep, Count, TrySend,
          UncountRefused, DropRefused, DropDiscarded, Cancel, Shutdown, Take,
          Uncount, Start, Publish, Panic, Finish, Unwind, Die, Exit, Leave,
          vars, threadVars
    <3>2. phase'[current[w]] # "closed"
      <4>1. ASSUME NEW j \in Jobs,
                   \/ \E valid \in BOOLEAN : Submit(j, valid)
                   \/ SubmitterStep(j)
            PROVE  phase'[current[w]] # "closed"
        <5>1. (\E p : Become(j, p)) /\ phase[j] # "unwinding"
          BY <4>1 DEF Submit, SubmitterStep, Count, TrySend, UncountRefused,
                      DropRefused, DropDiscarded
        <5>2. QED
          BY <1>1, <1>4, <2>1, <5>1 DEF Become
      <4>2. ASSUME NEW v \in Workers,
                   Take(v) \/ Uncount(v) \/ Start(v) \/ Publish(v) \/ Panic(v)
            PROVE  phase'[current[w]] # "closed"
        <5>1. PICK j, p : Become(j, p) /\ p # "closed"
          BY <4>2 DEF Take, Uncount, Start, Publish, Panic
        <5>2. QED
          BY <1>1, <1>4, <2>1, <5>1 DEF Become
      <4>3. ASSUME NEW v \in Workers, Die(v) \/ Exit(v)
            PROVE  phase'[current[w]] # "closed"
        BY <1>1, <1>4, <2>1, <4>3 DEF Die, Exit, Leave, DiscardChannel
      <4>4. CASE phase' = phase
        BY <1>4, <4>4
      <4>5. ASSUME NEW v \in Workers, Finish(v) \/ Unwind(v)
            PROVE  phase'[current[w]] # "closed"
        BY <1>4, <2>5, <2>6, <4>5 DEF Finish, Unwind
      <4>6. QED
        BY <4>1, <4>2, <4>3, <4>4, <4>5
        DEF Next, WorkerStep, Cancel, Shutdown, vars, jobVars
    <3>3. QED
      BY <1>1, <2>3, <3>1, <3>2 DEF PanicHappened
  <2>7. QED
    BY <2>4, <2>6
<1>5. QED
  BY <1>2, <1>3, <1>4

(* Only a panic makes a job unwind. *)
LEMMA UnwindingIsPanic ==
  ASSUME PoolIInv, [Next]_vars, NEW j \in Jobs,
         phase[j] # "unwinding", phase'[j] = "unwinding"
  PROVE  PanicHappened'
<1>1. TypeOK /\ phase \in [Jobs -> Phases]
  BY DEF PoolIInv, TypeOK
<1>2. ASSUME NEW k, NEW p, Become(k, p)
      PROVE  p = "unwinding" /\ k = j
  BY <1>1, <1>2 DEF Become
<1>3. CASE phase' = phase \/ DiscardChannel
  BY <1>3 DEF DiscardChannel
<1>4. ASSUME NEW w \in Workers, Panic(w)
      PROVE  PanicHappened'
  <2>1. current[w] = j /\ worker[w] = "busy" /\ UNCHANGED <<worker, current>>
    BY <1>2, <1>4 DEF Panic, threadVars
  <2>2. QED
    BY <2>1 DEF PanicHappened
<1>5. ASSUME NEW k \in Jobs,
             \/ \E valid \in BOOLEAN : Submit(k, valid)
             \/ SubmitterStep(k)
      PROVE  FALSE
  BY <1>2, <1>5 DEF Submit, SubmitterStep, Count, TrySend, UncountRefused,
                    DropRefused, DropDiscarded
<1>6. ASSUME NEW w \in Workers,
             \/ Take(w) \/ Uncount(w) \/ Start(w) \/ Publish(w) \/ Finish(w)
             \/ Unwind(w)
      PROVE  FALSE
  BY <1>2, <1>6 DEF Take, Uncount, Start, Publish, Finish, Unwind
<1>7. QED
  BY <1>3, <1>4, <1>5, <1>6
  DEF Next, WorkerStep, Die, Exit, Leave, Cancel, Shutdown, vars, jobVars

LEMMA JobIInvStep ==
  ASSUME PoolIInv, JobIInv, [Next]_vars
  PROVE  JobIInv'
<1>1. HeldByOne'
  BY HeldByOneStep DEF JobIInv
<1>2. ComputedIsOver'
  <2>1. SUFFICES ASSUME NEW j \in Jobs, outcome'[j] = "Computed"
                 PROVE  phase'[j] \in {"published", "closed"}
    BY DEF ComputedIsOver
  <2>2. JobMoves(j) /\ (outcome[j] = "Computed" => phase[j] \in {"published", "closed"})
    BY JobStep DEF JobIInv, ComputedIsOver
  <2>3. QED
    BY <2>1, <2>2 DEF JobMoves, QuietMoves
<1>3. StoppedMeansPanic'
  <2>1. SUFFICES ASSUME NEW j \in Jobs, outcome'[j] = "WorkerStopped"
                 PROVE  PanicHappened'
    BY DEF StoppedMeansPanic
  <2>2. CASE outcome[j] = "WorkerStopped"
    BY <2>2, PanicStays DEF JobIInv, StoppedMeansPanic
  <2>3. CASE outcome[j] # "WorkerStopped"
    <3>1. \/ phase'[j] = "discarded"
          \/ phase[j] = "executing" /\ phase'[j] = "unwinding"
      BY <2>1, <2>3, JobStep DEF JobMoves
    <3>2. CASE phase'[j] = "discarded"
      <4>1. LostOnlyWithoutWorkers'
        BY NextStep DEF PoolIInv
      <4>2. QED
        BY <3>2, <4>1, SchedulerAssumption
        DEF LostOnlyWithoutWorkers, InPhase, PanicHappened
    <3>3. QED
      BY <3>1, <3>2, UnwindingIsPanic
  <2>4. QED
    BY <2>2, <2>3
<1>4. QED
  BY <1>1, <1>2, <1>3 DEF JobIInv

LEMMA IInvInit == Init => IInv
BY InitStep DEF Init, IInv, JobIInv, HeldByOne, ComputedIsOver, StoppedMeansPanic

LEMMA IInvNext == IInv /\ [Next]_vars => IInv'
BY NextStep, JobIInvStep DEF IInv

-----------------------------------------------------------------------------

(* The inductive invariant holds in every behaviour, whatever the fairness: *)
(* the budgets and counters are conserved, no job is with two threads, and  *)
(* a caller reads WorkerStopped only after a panic.                         *)
THEOREM Invariance == Spec => []IInv
BY IInvInit, IInvNext, PTL DEF Spec

(* Every variable stays in its type: in particular `queued`, an unsigned    *)
(* atomic, is never decremented below zero by a fast worker or by the       *)
(* refusal path of enqueue.                                                 *)
THEOREM TypeCorrectness == Spec => []TypeOK
<1>1. IInv => TypeOK
  BY DEF IInv, PoolIInv
<1>2. QED
  BY <1>1, Invariance, PTL

(* For any mix of costs, panics, cancellations and shutdown the admission   *)
(* counters are what the live permits cost.                                 *)
THEOREM AdmissionConservation == Spec => []CountersMatchPermits
<1>1. IInv => CountersMatchPermits
  BY DEF IInv, PoolIInv
<1>2. QED
  BY <1>1, Invariance, PTL

(* The jobs queued and executing never exceed the cpu and memory budgets.   *)
THEOREM BudgetSafety == Spec => []WithinBudget
<1>1. IInv => WithinBudget
  BY DEF IInv, PoolIInv
<1>2. QED
  BY <1>1, Invariance, PTL

(* queue_depth() counts the jobs between fetch_add and fetch_sub.           *)
THEOREM QueueDepthConservation == Spec => []QueueDepthAccounted
<1>1. IInv => QueueDepthAccounted
  BY DEF IInv, PoolIInv
<1>2. QED
  BY <1>1, Invariance, PTL

(* No accepted job is dropped unanswered while a worker thread lives, also  *)
(* through shutdown.                                                        *)
THEOREM NoJobLost == Spec => []LostOnlyWithoutWorkers
<1>1. IInv => LostOnlyWithoutWorkers
  BY DEF IInv, PoolIInv
<1>2. QED
  BY <1>1, Invariance, PTL

-----------------------------------------------------------------------------
(* A job whose flag rose before a worker looked at it. *)

Suppressed(j) == /\ cancelled[j]
                 /\ phase[j] \in Phases \ {"new", "executing", "unwinding"}
                 /\ outcome[j] # "Computed"

LEMMA SuppressedStays ==
  ASSUME NEW j \in Jobs
  PROVE  IInv /\ Suppressed(j) /\ [Next]_vars => Suppressed(j)'
<1> SUFFICES ASSUME IInv, Suppressed(j), [Next]_vars
             PROVE  Suppressed(j)'
  OBVIOUS
<1>1. /\ JobMoves(j) /\ cancelled'[j]
      /\ phase[j] \in Phases \ {"new", "executing", "unwinding"}
      /\ outcome[j] # "Computed" /\ cancelled[j]
  BY JobStep DEF IInv, Suppressed
<1>2. /\ phase'[j] \in Phases \ {"new", "executing", "unwinding"}
      /\ outcome'[j] # "Computed"
  BY <1>1 DEF JobMoves, QuietMoves, Phases
<1>3. QED
  BY <1>1, <1>2 DEF Suppressed

LEMMA EarlyCancelForOne ==
  ASSUME NEW j \in Jobs
  PROVE  Init /\ [][Next]_vars =>
           [](/\ cancelled[j]
              /\ phase[j] \in Submitting \cup {"sent", "taken", "started"}
              => [](phase[j] # "executing" /\ outcome[j] # "Computed"))
<1>1. /\ IInv /\ cancelled[j]
      /\ phase[j] \in Submitting \cup {"sent", "taken", "started"}
      => Suppressed(j)
  BY DEF IInv, JobIInv, ComputedIsOver, Suppressed, Submitting, Phases
<1>2. IInv /\ Suppressed(j) /\ [Next]_vars => Suppressed(j)'
  BY SuppressedStays
<1>3. Suppressed(j) => phase[j] # "executing" /\ outcome[j] # "Computed"
  BY DEF Suppressed
<1>4. QED
  BY <1>1, <1>2, <1>3, IInvInit, IInvNext, PTL

(* A cancellation that comes before the worker looks at the flag keeps the  *)
(* computation from ever running, whatever else the threads do.             *)
THEOREM EarlyCancellation == Spec => EarlyCancelSuppresses
<1>1. Spec => Init /\ [][Next]_vars
  BY PTL DEF Spec
<1>2. QED
  BY <1>1, EarlyCancelForOne DEF EarlyCancelSuppresses

-----------------------------------------------------------------------------
(* The pool implements BudgetPool: the permits lent are the charged jobs.   *)

Lent == InPhase(Charged)

(* A job that changes phase is charged, is discharged, or neither. *)
LEMMA BecomeMovesLent ==
  ASSUME NEW j \in Jobs, NEW p, phase \in [Jobs -> Phases], Become(j, p)
  PROVE  \/ Lent' = Lent
         \/ j \notin Lent /\ Lent' = Lent \cup {j}
         \/ j \in Lent /\ Lent' = Lent \ {j}
<1>1. CASE p \in Charged
  BY <1>1, BecomeInPhase DEF Lent
<1>2. CASE p \notin Charged
  BY <1>2, BecomeInPhase DEF Lent
<1>3. QED
  BY <1>1, <1>2

LEMMA NextMovesLent ==
  ASSUME PoolIInv, [Next]_vars
  PROVE  \/ Lent' = Lent
         \/ \E j \in Jobs : \/ j \notin Lent /\ Lent' = Lent \cup {j}
                            \/ j \in Lent /\ Lent' = Lent \ {j}
<1>1. phase \in [Jobs -> Phases] /\ TypeOK /\ Structure
  BY IInvParts DEF TypeOK
<1>2. CASE \E j \in Jobs, p \in Phases : Become(j, p)
  BY <1>1, <1>2, BecomeMovesLent
<1>3. CASE phase' = phase
  BY <1>3 DEF Lent, InPhase
<1>4. ASSUME NEW w \in Workers, Die(w) \/ Exit(w)
      PROVE  Lent' = Lent
  <2>1. \A j \in Range(channel) : phase[j] = "sent"
    BY <1>1 DEF TypeOK, Structure, ChannelHoldsSent, Range
  <2>2. QED
    BY <1>4, <2>1 DEF Die, Exit, Leave, DiscardChannel, Lent, InPhase, Charged
<1>5. CASE \E j \in Jobs : \/ \E valid \in BOOLEAN : Submit(j, valid)
                           \/ SubmitterStep(j)
                           \/ Cancel(j)
  BY <1>2, <1>3, <1>5
  DEF SubmitterStep, Submit, Count, TrySend, UncountRefused, DropRefused,
      DropDiscarded, Cancel, Phases
<1>6. ASSUME NEW w \in Workers, Take(w)
      PROVE  \E j \in Jobs, p \in Phases : Become(j, p)
  <2>1. Head(channel) \in Jobs
    BY <1>1, <1>6 DEF Take, TypeOK
  <2>2. QED
    BY <1>6, <2>1 DEF Take, Phases
<1>7. ASSUME NEW w \in Workers,
             \/ Uncount(w) \/ Start(w) \/ Publish(w) \/ Finish(w)
             \/ Unwind(w) \/ Panic(w)
      PROVE  \E j \in Jobs, p \in Phases : Become(j, p)
  <2>1. worker[w] = "busy"
    BY <1>7 DEF Uncount, Start, Publish, Finish, Unwind, Panic
  <2>2. current[w] \in Jobs
    BY <2>1, HeldJob
  <2>3. QED
    BY <1>7, <2>2 DEF Uncount, Start, Publish, Finish, Unwind, Panic, Phases
<1>8. CASE \E w \in Workers : WorkerStep(w) \/ Panic(w)
  BY <1>2, <1>4, <1>6, <1>7, <1>8 DEF WorkerStep
<1>9. CASE Shutdown \/ UNCHANGED vars
  BY <1>3, <1>9 DEF Shutdown, vars, jobVars
<1>10. QED
  BY <1>5, <1>8, <1>9 DEF Next

LEMMA PoolStep ==
  ASSUME PoolIInv, [Next]_vars
  PROVE  [Pool!Next]_Lent
<1>1. Books'
  BY NextStep DEF PoolIInv, Books
<1>2. AffordableJobs(Lent')
  BY <1>1, LimitsType
  DEF Books, CountersMatchPermits, WithinBudget, AffordableJobs, Weight, Units,
      Lent, InPhase, CpuWeights, MemoryWeights, Cost, JobCost, limits,
      AdmissionLimits
<1>3. ASSUME NEW j \in Jobs, j \notin Lent, Lent' = Lent \cup {j}
      PROVE  Pool!Lend(j)
  BY <1>2, <1>3 DEF Pool!Lend, Lent
<1>4. ASSUME NEW j \in Jobs, j \in Lent, Lent' = Lent \ {j}
      PROVE  Pool!GiveBack(j)
  BY <1>4 DEF Pool!GiveBack, Lent
<1>5. QED
  BY <1>3, <1>4, NextMovesLent DEF Pool!Next

(* Whatever a client could observe of the budget is a behaviour of the      *)
(* abstract pool: every charge was affordable at that moment, and every     *)
(* permit comes back once.                                                  *)
THEOREM PoolRefinement == Spec => ImplementsBudgetPool
<1>1. Init => Pool!Init
  BY DEF Init, Pool!Init, InPhase, Charged
<1>2. IInv /\ [Next]_vars => [Pool!Next]_Lent
  BY PoolStep DEF IInv
<1>3. QED
  BY <1>1, <1>2, Invariance, PTL DEF Spec, Pool!Spec, ImplementsBudgetPool, Lent

-----------------------------------------------------------------------------
(* The REST service on top of the pool. *)

(* A handler's guard sets the flag, or finds it set. *)
LEMMA DropGuardIsCancel ==
  ASSUME NEW j \in Jobs, TypeOK, DropGuard(j)
  PROVE  Cancel(j) \/ UNCHANGED vars
<1>1. CASE ~cancelled[j]
  BY <1>1 DEF DropGuard, Cancel
<1>2. CASE cancelled[j]
  <2>1. cancelled' = cancelled
    BY <1>2 DEF DropGuard, TypeOK
  <2>2. QED
    BY <2>1 DEF DropGuard, vars, jobVars
<1>3. QED
  BY <1>1, <1>2

(* Each action of the service is an action of the pool or invisible to it.  *)
LEMMA RestStep ==
  ASSUME TypeOK, [RestNext]_allVars
  PROVE  [Next]_vars
<1>1. ASSUME NEW j \in Jobs, NEW a \in BOOLEAN, Arrive(j, a)
      PROVE  UNCHANGED vars
  BY <1>1 DEF Arrive
<1>2. ASSUME NEW j \in Jobs, NEW valid \in BOOLEAN, CallEngine(j, valid)
      PROVE  Next
  BY <1>2 DEF CallEngine, Next
<1>3. ASSUME NEW j \in Jobs, Enqueue(j) \/ Discarded(j)
      PROVE  Next
  <2>1. SubmitterStep(j)
    BY <1>3 DEF Enqueue, Discarded, SubmitterStep
  <2>2. QED
    BY <2>1 DEF Next
<1>4. ASSUME NEW j \in Jobs, Answer(j) \/ Disconnect(j)
      PROVE  [Next]_vars
  <2>1. DropGuard(j)
    BY <1>4 DEF Answer, Disconnect
  <2>2. QED
    BY <2>1, DropGuardIsCancel DEF Next
<1>5. ASSUME NEW j \in Jobs, ReturnSlot(j)
      PROVE  UNCHANGED vars
  BY <1>5 DEF ReturnSlot
<1>6. ASSUME NEW w \in Workers, Work(w)
      PROVE  Next
  <2>1. WorkerStep(w) \/ Panic(w)
    BY <1>6 DEF Work, WorkerStep
  <2>2. QED
    BY <2>1 DEF Next
<1>7. CASE UNCHANGED allVars
  BY <1>7 DEF allVars
<1>8. QED
  BY <1>1, <1>2, <1>3, <1>4, <1>5, <1>6, <1>7 DEF RestNext, RequestStep

(* The service uses the pool as any caller of Engine may: the safety part   *)
(* of the pool's specification holds of it.                                 *)
THEOREM ServiceUsesPool == RestSpec => Init /\ [][Next]_vars
<1>1. RestInit => Init
  BY DEF RestInit
<1>2. IInv /\ [RestNext]_allVars => IInv' /\ [Next]_vars
  BY RestStep, IInvNext DEF IInv, PoolIInv
<1>3. Init => IInv
  BY IInvInit
<1>4. QED
  BY <1>1, <1>2, <1>3, PTL DEF RestSpec

(* The pool's invariant in the service: budgets and counters are conserved  *)
(* whatever the clients do.                                                 *)
THEOREM ServiceInvariance == RestSpec => []IInv
BY ServiceUsesPool, IInvInit, IInvNext, PTL

-----------------------------------------------------------------------------
(* What a step of the pool does to outcomes and flags. *)

LEMMA OutcomeStays ==
  ASSUME PoolIInv, [Next]_vars, NEW j \in Jobs, outcome[j] # "none"
  PROVE  outcome'[j] # "none"
<1>1. TypeOK /\ outcome \in [Jobs -> Outcomes]
  BY DEF PoolIInv, TypeOK
<1>2. ASSUME NEW k, NEW o \in Outcomes \ {"none"}, Learn(k, o)
      PROVE  outcome'[j] # "none"
  BY <1>1, <1>2 DEF Learn
<1>3. ASSUME NEW k \in Jobs, NEW valid \in BOOLEAN, Submit(k, valid)
      PROVE  outcome'[j] # "none"
  <2>1. \/ \E o \in Outcomes \ {"none"} : Learn(k, o)
        \/ outcome' = outcome
    BY <1>3 DEF Submit, Outcomes
  <2>2. QED
    BY <1>2, <2>1
<1>4. ASSUME NEW k \in Jobs, SubmitterStep(k) \/ Cancel(k)
      PROVE  outcome'[j] # "none"
  <2>1. \/ \E o \in Outcomes \ {"none"} : Learn(k, o)
        \/ outcome' = outcome
    BY <1>4
    DEF SubmitterStep, Count, TrySend, UncountRefused, DropRefused,
        DropDiscarded, Cancel, Outcomes
  <2>2. QED
    BY <1>2, <2>1
<1>5. ASSUME NEW w \in Workers, WorkerStep(w) \/ Panic(w)
      PROVE  outcome'[j] # "none"
  <2>1. CASE \E o \in Outcomes \ {"none"} : Learn(current[w], o)
    BY <1>2, <2>1
  <2>2. CASE outcome' = outcome
    BY <2>2
  <2>3. CASE DiscardChannel
    BY <1>1, <2>3 DEF DiscardChannel
  <2>4. QED
    BY <1>5, <2>1, <2>2, <2>3
    DEF WorkerStep, Take, Uncount, Start, Publish, Finish, Unwind, Panic, Die,
        Exit, Leave, Outcomes
<1>6. CASE Shutdown \/ UNCHANGED vars
  BY <1>6 DEF Shutdown, vars, jobVars
<1>7. QED
  BY <1>3, <1>4, <1>5, <1>6 DEF Next

(* The engine reports Cancelled only for a flag that is up.                 *)
LEMMA CancelledHasFlagStep ==
  ASSUME PoolIInv, CancelledHasFlag, [Next]_vars
  PROVE  CancelledHasFlag'
<1>1. /\ TypeOK /\ outcome \in [Jobs -> Outcomes]
      /\ cancelled \in [Jobs -> BOOLEAN]
  BY DEF PoolIInv, TypeOK
<1>2. ASSUME NEW k, NEW o, Learn(k, o), UNCHANGED cancelled,
             k \in Jobs /\ o = "Cancelled" => cancelled[k]
      PROVE  CancelledHasFlag'
  BY <1>1, <1>2 DEF Learn, CancelledHasFlag
<1>3. CASE outcome' = outcome /\ UNCHANGED cancelled
  BY <1>3 DEF CancelledHasFlag
<1>4. ASSUME NEW k \in Jobs, NEW valid \in BOOLEAN, Submit(k, valid)
      PROVE  CancelledHasFlag'
  BY <1>2, <1>3, <1>4 DEF Submit
<1>5. ASSUME NEW k \in Jobs, SubmitterStep(k)
      PROVE  CancelledHasFlag'
  BY <1>2, <1>3, <1>5
  DEF SubmitterStep, Count, TrySend, UncountRefused, DropRefused, DropDiscarded
<1>6. ASSUME NEW k \in Jobs, Cancel(k)
      PROVE  CancelledHasFlag'
  BY <1>1, <1>6 DEF Cancel, CancelledHasFlag
<1>7. ASSUME NEW w \in Workers, WorkerStep(w) \/ Panic(w)
      PROVE  CancelledHasFlag'
  <2>1. CASE Start(w) \/ Publish(w) \/ Panic(w)
    BY <1>2, <1>3, <2>1 DEF Start, Publish, Panic
  <2>2. CASE Die(w) \/ Exit(w)
    <3>1. CASE DiscardChannel /\ UNCHANGED cancelled
      BY <1>1, <3>1 DEF DiscardChannel, CancelledHasFlag
    <3>2. QED
      BY <1>3, <2>2, <3>1 DEF Die, Exit, Leave
  <2>3. CASE Take(w) \/ Uncount(w) \/ Finish(w) \/ Unwind(w)
    BY <1>3, <2>3 DEF Take, Uncount, Finish, Unwind
  <2>4. QED
    BY <1>7, <2>1, <2>2, <2>3 DEF WorkerStep
<1>8. CASE Shutdown \/ UNCHANGED vars
  BY <1>3, <1>8 DEF Shutdown, vars, jobVars
<1>9. QED
  BY <1>4, <1>5, <1>6, <1>7, <1>8 DEF Next

-----------------------------------------------------------------------------
(* The service's own invariant: the books, then who has a slot and a flag. *)
ServiceInv == /\ RestTypeOK
              /\ SlotsConserved
              /\ ConnectedNotCancelled
              /\ IdleIsFresh
              /\ RefusedHasReason
              /\ CancelledHasFlag

ClosureInv == GoneHasFlag /\ UnfinishedHasSlot /\ UnavailableMeansPanic

LEMMA RestIInvParts ==
  RestIInv <=> ServiceInv /\ SubmittingIsHandled /\ ClosureInv
BY DEF RestIInv, ServiceInv, ClosureInv

LEMMA HoldersFinite ==
  /\ IsFiniteSet(Holders) /\ Cardinality(Holders) \in Nat
  /\ IsFiniteSet(Holders') /\ Cardinality(Holders') \in Nat
<1>1. Holders \in SUBSET Jobs /\ Holders' \in SUBSET Jobs
  BY DEF Holders
<1>2. QED
  BY <1>1, SchedulerAssumption, FS_Subset, FS_CardinalityType

LEMMA SlotLimitType == SlotLimit \in Nat
BY SchedulerAssumption, FS_CardinalityType DEF SlotLimit, Threads

LEMMA RestInitStep == RestInit => ServiceInv
<1> SUFFICES ASSUME RestInit PROVE ServiceInv
  OBVIOUS
<1>1. Holders = {}
  BY DEF RestInit, Holders
<1>2. RestTypeOK /\ SlotsConserved
  BY <1>1, SlotLimitType, FS_EmptySet
  DEF RestInit, RestTypeOK, SlotsConserved, HandlerStates, NoStatus
<1>3. QED
  BY <1>2
  DEF RestInit, Init, ServiceInv, ConnectedNotCancelled, IdleIsFresh,
      RefusedHasReason, CancelledHasFlag, NoStatus

(* A slot is taken, returned, or stays where it is. *)
LEMMA SlotTaken ==
  ASSUME RestTypeOK, SlotsConserved, NEW j \in Jobs, ~holding[j],
         wait_permits > 0, wait_permits' = wait_permits - 1,
         holding' = [holding EXCEPT ![j] = TRUE]
  PROVE  SlotsConserved' /\ wait_permits' \in 0 .. SlotLimit
<1>1. Holders' = Holders \cup {j} /\ j \notin Holders
  BY DEF RestTypeOK, Holders
<1>2. Cardinality(Holders') = Cardinality(Holders) + 1
  BY <1>1, HoldersFinite, FS_AddElement
<1>3. QED
  BY <1>2, HoldersFinite, SlotLimitType
  DEF RestTypeOK, SlotsConserved, SlotLimit, Threads

LEMMA SlotReturned ==
  ASSUME RestTypeOK, SlotsConserved, NEW j \in Jobs, holding[j],
         wait_permits' = wait_permits + 1,
         holding' = [holding EXCEPT ![j] = FALSE]
  PROVE  SlotsConserved' /\ wait_permits' \in 0 .. SlotLimit
<1>1. Holders' = Holders \ {j} /\ j \in Holders
  BY DEF RestTypeOK, Holders
<1>2. Cardinality(Holders') = Cardinality(Holders) - 1
  BY <1>1, HoldersFinite, FS_RemoveElement
<1>3. QED
  BY <1>2, HoldersFinite, SlotLimitType
  DEF RestTypeOK, SlotsConserved, SlotLimit, Threads

LEMMA SlotsKept ==
  ASSUME RestTypeOK, SlotsConserved, UNCHANGED <<wait_permits, holding>>
  PROVE  /\ SlotsConserved'
         /\ wait_permits' \in 0 .. SlotLimit
         /\ holding' \in [Jobs -> BOOLEAN]
BY DEF RestTypeOK, SlotsConserved, Holders, SlotLimit, Threads

LEMMA StatusType ==
  ASSUME NEW o \in Outcomes \ {"none"}
  PROVE  Status(o) \in Statuses /\ (Status(o) = 409 => o = "Cancelled")
BY DEF Outcomes, Status, Statuses

LEMMA ArriveStep ==
  ASSUME ServiceInv, NEW j \in Jobs, NEW acceptable \in BOOLEAN,
         Arrive(j, acceptable)
  PROVE  ServiceInv'
<1>1. /\ RestTypeOK /\ SlotsConserved
      /\ ~holding[j] /\ http[j] = "idle" /\ ~cancelled[j]
  BY DEF ServiceInv, IdleIsFresh, Arrive
<1>2. cancelled' = cancelled /\ outcome' = outcome
  BY DEF Arrive, vars, jobVars
<1>3. CASE /\ UNCHANGED <<wait_permits, holding>>
           /\ Respond(j, 400) \/ Respond(j, 429)
  <2>1. RestTypeOK' /\ SlotsConserved'
    BY <1>1, <1>3, SlotsKept
    DEF RestTypeOK, Respond, Handle, HandlerStates, Statuses
  <2>2. QED
    BY <1>1, <1>2, <1>3, <2>1
    DEF ServiceInv, RestTypeOK, Respond, Handle, ConnectedNotCancelled,
        IdleIsFresh, RefusedHasReason, CancelledHasFlag
<1>4. CASE /\ wait_permits > 0
           /\ wait_permits' = wait_permits - 1
           /\ holding' = [holding EXCEPT ![j] = TRUE]
           /\ Handle(j, "submitting")
           /\ UNCHANGED response
  <2>1. RestTypeOK' /\ SlotsConserved'
    BY <1>1, <1>4, SlotTaken DEF RestTypeOK, Handle, HandlerStates
  <2>2. QED
    BY <1>1, <1>2, <1>4, <2>1
    DEF ServiceInv, RestTypeOK, Handle, ConnectedNotCancelled,
        IdleIsFresh, RefusedHasReason, CancelledHasFlag
<1>5. QED
  BY <1>3, <1>4 DEF Arrive

(* The steps of the pool in the service: they move no slot. *)
LEMMA PoolMoveStep ==
  ASSUME PoolIInv, ServiceInv, [Next]_vars, NEW j \in Jobs,
         UNCHANGED <<response, wait_permits, holding>>, cancelled' = cancelled,
         \/ http' = http
         \/ /\ http[j] # "idle" /\ http[j] # "answered"
            /\ \/ Handle(j, "awaiting") /\ ~cancelled[j]
               \/ Handle(j, "refused") /\ ~cancelled[j] /\ outcome'[j] # "none"
  PROVE  ServiceInv'
<1>1. RestTypeOK /\ SlotsConserved
  BY DEF ServiceInv
<1>2. RestTypeOK' /\ SlotsConserved'
  BY <1>1, SlotsKept DEF RestTypeOK, Handle, HandlerStates
<1>3. ConnectedNotCancelled' /\ IdleIsFresh'
  BY <1>1 DEF ServiceInv, RestTypeOK, ConnectedNotCancelled, IdleIsFresh, Handle
<1>4. RefusedHasReason'
  <2>1. SUFFICES ASSUME NEW k \in Jobs, http'[k] = "refused"
                 PROVE  outcome'[k] # "none"
    BY DEF RefusedHasReason
  <2>2. CASE http[k] = "refused"
    BY <2>2, OutcomeStays DEF ServiceInv, RefusedHasReason
  <2>3. CASE http[k] # "refused"
    BY <1>1, <2>1, <2>3 DEF RestTypeOK, Handle
  <2>4. QED
    BY <2>2, <2>3
<1>5. CancelledHasFlag'
  BY CancelledHasFlagStep DEF ServiceInv
<1>6. QED
  BY <1>2, <1>3, <1>4, <1>5 DEF ServiceInv

LEMMA CallEngineStep ==
  ASSUME PoolIInv, ServiceInv, [Next]_vars, NEW j \in Jobs, NEW valid \in BOOLEAN,
         CallEngine(j, valid)
  PROVE  ServiceInv'
<1>1. /\ http[j] = "submitting" /\ cancelled' = cancelled
      /\ UNCHANGED <<response, wait_permits, holding>>
  BY DEF CallEngine, Submit
<1>2. ~cancelled[j]
  BY <1>1 DEF ServiceInv, ConnectedNotCancelled
<1>3. TypeOK
  BY DEF PoolIInv
<1>4. CASE phase'[j] = "closed"
  <2>1. \E o \in Outcomes \ {"none"} : Learn(j, o)
    BY <1>3, <1>4 DEF CallEngine, Submit, TypeOK, Become, Outcomes
  <2>2. outcome'[j] # "none"
    BY <1>3, <2>1 DEF Learn, TypeOK
  <2>3. Handle(j, "refused")
    BY <1>4 DEF CallEngine
  <2>4. QED
    BY <1>1, <1>2, <2>2, <2>3, PoolMoveStep
<1>5. CASE phase'[j] # "closed"
  BY <1>1, <1>5, PoolMoveStep DEF CallEngine
<1>6. QED
  BY <1>4, <1>5

LEMMA ReturnSlotStep ==
  ASSUME ServiceInv, NEW j \in Jobs, ReturnSlot(j)
  PROVE  ServiceInv'
<1>1. RestTypeOK /\ SlotsConserved /\ holding[j]
  BY DEF ServiceInv, ReturnSlot
<1>2. /\ SlotsConserved' /\ wait_permits' \in 0 .. SlotLimit
      /\ holding' = [holding EXCEPT ![j] = FALSE]
      /\ UNCHANGED <<http, response, cancelled, outcome>>
  BY <1>1, SlotReturned DEF ReturnSlot, vars, jobVars
<1>3. QED
  BY <1>1, <1>2
  DEF ServiceInv, RestTypeOK, ConnectedNotCancelled, IdleIsFresh,
      RefusedHasReason, CancelledHasFlag, SlotLimit, Threads

LEMMA WorkStep ==
  ASSUME PoolIInv, ServiceInv, [Next]_vars, NEW w \in Workers, Work(w)
  PROVE  ServiceInv'
<1>1. cancelled' = cancelled
  BY DEF Work, Take, Uncount, Start, Publish, Panic, Finish, Unwind, Die, Leave
<1>2. UNCHANGED <<http, response, wait_permits, holding>>
  BY DEF Work, restVars
<1>3. CASE Jobs # {}
  BY <1>1, <1>2, <1>3, PoolMoveStep
<1>4. CASE Jobs = {}
  BY <1>2, <1>4, SlotsKept
  DEF ServiceInv, RestTypeOK, ConnectedNotCancelled, IdleIsFresh,
      RefusedHasReason, CancelledHasFlag
<1>5. QED
  BY <1>3, <1>4

(* The handler ends, with or without a response. *)
LEMMA HandlerEndStep ==
  ASSUME PoolIInv, ServiceInv, [Next]_vars, NEW j \in Jobs, Answer(j) \/ Disconnect(j)
  PROVE  ServiceInv'
<1>1. RestTypeOK /\ SlotsConserved /\ TypeOK
  BY DEF ServiceInv, PoolIInv
<1>2. /\ cancelled' = [cancelled EXCEPT ![j] = TRUE] /\ outcome' = outcome
      /\ UNCHANGED <<wait_permits, holding>>
  BY DEF Answer, Disconnect, DropGuard
<1>3. SlotsConserved' /\ CancelledHasFlag'
  BY <1>1, <1>2, SlotsKept, CancelledHasFlagStep DEF ServiceInv
<1>4. \A k \in Jobs : k # j => cancelled'[k] = cancelled[k]
  BY <1>1, <1>2 DEF TypeOK
<1>5. CASE Disconnect(j)
  BY <1>1, <1>2, <1>3, <1>4, <1>5, SlotsKept
  DEF Disconnect, Handle, ServiceInv, RestTypeOK, HandlerStates,
      ConnectedNotCancelled, IdleIsFresh, RefusedHasReason
<1>6. CASE Answer(j)
  <2>1. http[j] \in {"refused", "awaiting"} /\ outcome[j] # "none"
    BY <1>6 DEF Answer, ServiceInv, RefusedHasReason
  <2>2. outcome[j] # "Cancelled" /\ outcome[j] \in Outcomes \ {"none"}
    BY <1>1, <2>1 DEF ServiceInv, ConnectedNotCancelled, CancelledHasFlag, TypeOK
  <2>3. PICK s \in Statuses : s = Status(outcome[j]) /\ s # 409
    BY <2>2, StatusType
  <2>4. Respond(j, s)
    BY <1>6, <2>3 DEF Answer
  <2>5. QED
    BY <1>1, <1>2, <1>3, <1>4, <2>3, <2>4, SlotsKept
    DEF Respond, Handle, ServiceInv, RestTypeOK, HandlerStates,
        ConnectedNotCancelled, IdleIsFresh, RefusedHasReason
<1>7. QED
  BY <1>5, <1>6

LEMMA EnqueueStep ==
  ASSUME PoolIInv, ServiceInv, SubmittingIsHandled, [Next]_vars,
         NEW j \in Jobs, Enqueue(j)
  PROVE  ServiceInv'
<1>1. /\ cancelled' = cancelled
      /\ UNCHANGED <<response, wait_permits, holding>>
  BY DEF Enqueue, Count, TrySend, UncountRefused, DropRefused
<1>2. http[j] = "submitting"
  BY DEF Enqueue, Count, TrySend, UncountRefused, DropRefused,
         SubmittingIsHandled, Submitting
<1>3. ~cancelled[j]
  BY <1>2 DEF ServiceInv, ConnectedNotCancelled
<1>4. CASE http' = http
  BY <1>1, <1>4, PoolMoveStep
<1>5. CASE Handle(j, "awaiting")
  BY <1>1, <1>2, <1>3, <1>5, PoolMoveStep
<1>6. CASE DropRefused(j) /\ Handle(j, "refused")
  <2>1. outcome'[j] # "none"
    BY <1>6 DEF DropRefused, Learn, PoolIInv, TypeOK
  <2>2. QED
    BY <1>1, <1>2, <1>3, <1>6, <2>1, PoolMoveStep
<1>7. QED
  BY <1>4, <1>5, <1>6 DEF Enqueue

LEMMA DiscardedStep ==
  ASSUME PoolIInv, ServiceInv, [Next]_vars, NEW j \in Jobs, Discarded(j)
  PROVE  ServiceInv'
<1>1. /\ cancelled' = cancelled /\ http' = http
      /\ UNCHANGED <<response, wait_permits, holding>>
  BY DEF Discarded, DropDiscarded, restVars
<1>2. QED
  BY <1>1, PoolMoveStep

LEMMA ServiceStutter ==
  ASSUME ServiceInv, UNCHANGED allVars
  PROVE  ServiceInv'
BY SlotsKept
DEF ServiceInv, allVars, vars, jobVars, restVars, RestTypeOK,
    ConnectedNotCancelled, IdleIsFresh, RefusedHasReason, CancelledHasFlag

LEMMA ServiceStep ==
  PoolIInv /\ RestIInv /\ [RestNext]_allVars => ServiceInv'
<1> SUFFICES ASSUME PoolIInv, RestIInv, [RestNext]_allVars PROVE ServiceInv'
  OBVIOUS
<1>1. [Next]_vars /\ ServiceInv /\ SubmittingIsHandled
  BY RestStep, RestIInvParts DEF PoolIInv
<1>2. CASE \E j \in Jobs : \/ \E a \in BOOLEAN : Arrive(j, a)
                           \/ RequestStep(j)
                           \/ Disconnect(j)
  BY <1>1, <1>2, ArriveStep, CallEngineStep, EnqueueStep, HandlerEndStep,
     ReturnSlotStep, DiscardedStep DEF RequestStep
<1>3. CASE \E w \in Workers : Work(w)
  BY <1>1, <1>3, WorkStep
<1>4. CASE UNCHANGED allVars
  BY <1>1, <1>4, ServiceStutter
<1>5. QED
  BY <1>2, <1>3, <1>4 DEF RestNext

-----------------------------------------------------------------------------
(* A call of submit belongs to a handler that is in it. *)

LEMMA SubmittingKept ==
  ASSUME SubmittingIsHandled, http' = http,
         \A k \in Jobs : phase'[k] \in Submitting => phase[k] \in Submitting
  PROVE  SubmittingIsHandled'
BY DEF SubmittingIsHandled

LEMMA WorkersDoNotSubmit ==
  ASSUME PoolIInv, NEW w \in Workers, Work(w), NEW k \in Jobs,
         phase'[k] \in Submitting
  PROVE  phase[k] \in Submitting
<1>1. phase \in [Jobs -> Phases]
  BY DEF PoolIInv, TypeOK
<1>2. ASSUME NEW j, NEW p, p \notin Submitting, Become(j, p)
      PROVE  phase[k] \in Submitting
  BY <1>1, <1>2 DEF Become
<1>3. CASE phase' = phase
  BY <1>3
<1>4. CASE DiscardChannel
  BY <1>1, <1>4 DEF DiscardChannel, Submitting
<1>5. QED
  BY <1>2, <1>3, <1>4
  DEF Work, Take, Uncount, Start, Publish, Panic, Finish, Unwind, Die, Leave,
      Submitting

LEMMA SubmittingStep ==
  PoolIInv /\ RestIInv /\ [RestNext]_allVars => SubmittingIsHandled'
<1> SUFFICES ASSUME PoolIInv, RestIInv, [RestNext]_allVars
             PROVE  SubmittingIsHandled'
  OBVIOUS
<1>1. /\ phase \in [Jobs -> Phases] /\ http \in [Jobs -> HandlerStates]
      /\ SubmittingIsHandled
  BY DEF PoolIInv, TypeOK, RestIInv, RestTypeOK
<1>2. ASSUME NEW j \in Jobs, NEW a \in BOOLEAN, Arrive(j, a)
      PROVE  SubmittingIsHandled'
  BY <1>1, <1>2
  DEF Arrive, vars, jobVars, SubmittingIsHandled, Handle, Respond
<1>3. ASSUME NEW j \in Jobs, NEW valid \in BOOLEAN, CallEngine(j, valid)
      PROVE  SubmittingIsHandled'
  <2>1. CASE Become(j, "closed") /\ Handle(j, "refused")
    BY <1>1, <2>1 DEF Become, Handle, SubmittingIsHandled, Submitting
  <2>2. CASE Become(j, "admitted") /\ http' = http
    BY <1>1, <1>3, <2>2 DEF CallEngine, Become, SubmittingIsHandled
  <2>3. QED
    BY <1>1, <1>3, <2>1, <2>2 DEF CallEngine, Submit, Become
<1>4. ASSUME NEW j \in Jobs, Enqueue(j)
      PROVE  SubmittingIsHandled'
  <2>1. CASE http' = http
    <3>1. phase[j] \in Submitting
      BY <1>4, <2>1
      DEF Enqueue, Count, TrySend, UncountRefused, DropRefused, Submitting
    <3>2. \A k \in Jobs : k # j => phase'[k] = phase[k]
      BY <1>1, <1>4
      DEF Enqueue, Count, TrySend, UncountRefused, DropRefused, Become
    <3>3. QED
      BY <2>1, <3>1, <3>2, <1>1, SubmittingKept
  <2>2. CASE \E p \in {"sent", "discarded", "closed"}, h \in HandlerStates :
               Become(j, p) /\ Handle(j, h)
    BY <1>1, <2>2 DEF Become, Handle, SubmittingIsHandled, Submitting
  <2>3. QED
    BY <1>1, <1>4, <2>1, <2>2
    DEF Enqueue, TrySend, DropRefused, Become, HandlerStates
<1>5. ASSUME NEW j \in Jobs, Answer(j) \/ Disconnect(j)
      PROVE  SubmittingIsHandled'
  <2>1. http[j] # "submitting" /\ phase' = phase
    BY <1>5 DEF Answer, Disconnect, DropGuard
  <2>2. \E h \in HandlerStates : Handle(j, h)
    BY <1>5 DEF Answer, Disconnect, Respond, HandlerStates
  <2>3. QED
    BY <1>1, <2>1, <2>2 DEF Handle, SubmittingIsHandled
<1>6. ASSUME NEW j \in Jobs, ReturnSlot(j)
      PROVE  SubmittingIsHandled'
  BY <1>1, <1>6, SubmittingKept DEF ReturnSlot, vars, jobVars
<1>7. ASSUME NEW j \in Jobs, Discarded(j)
      PROVE  SubmittingIsHandled'
  BY <1>1, <1>7, SubmittingKept
  DEF Discarded, DropDiscarded, Become, restVars, Submitting
<1>8. ASSUME NEW w \in Workers, Work(w)
      PROVE  SubmittingIsHandled'
  <2>1. http' = http
    BY <1>8 DEF Work, restVars
  <2>2. QED
    BY <1>1, <1>8, <2>1, WorkersDoNotSubmit, SubmittingKept
<1>9. CASE UNCHANGED allVars
  BY <1>1, <1>9, SubmittingKept DEF allVars, vars, jobVars, restVars
<1>10. QED
  BY <1>2, <1>3, <1>4, <1>5, <1>6, <1>7, <1>8, <1>9 DEF RestNext, RequestStep

-----------------------------------------------------------------------------
(* How one step of the service changes one request. *)

HandlerMoves(k) ==
  \/ http'[k] = http[k]
  \/ http[k] = "idle" /\ http'[k] = "answered"
  \/ http[k] = "idle" /\ http'[k] = "submitting" /\ holding'[k]
  \/ http[k] = "submitting" /\ http'[k] \in {"refused", "awaiting"}
  \/ http[k] \in {"refused", "awaiting"} /\ http'[k] = "answered"
  \/ http[k] = "awaiting" /\ http'[k] = "gone" /\ cancelled'[k]

SlotMoves(k) ==
  \/ holding'[k] = holding[k]
  \/ holding'[k]
  \/ ClosureOver(k) /\ phase'[k] = phase[k]

ResponseMoves(k) ==
  \/ response'[k] = response[k]
  \/ response'[k] \in {400, 429}
  \/ outcome[k] # "none" /\ response'[k] = Status(outcome[k])

RequestMoves(k) ==
  /\ HandlerMoves(k) /\ SlotMoves(k) /\ ResponseMoves(k)
  /\ phase[k] = "new" /\ phase'[k] = "admitted" => http[k] = "submitting"

(* A step that leaves handlers, slots and responses alone and submits       *)
(* nothing.                                                                 *)
LEMMA QuietRequest ==
  ASSUME NEW k \in Jobs, UNCHANGED <<http, holding, response>>,
         phase[k] = "new" => phase'[k] # "admitted"
  PROVE  RequestMoves(k)
BY DEF RequestMoves, HandlerMoves, SlotMoves, ResponseMoves

LEMMA RequestStepMoves ==
  ASSUME PoolIInv, RestIInv, [RestNext]_allVars, NEW k \in Jobs
  PROVE  RequestMoves(k)
<1>1. /\ phase \in [Jobs -> Phases] /\ cancelled \in [Jobs -> BOOLEAN]
      /\ http \in [Jobs -> HandlerStates] /\ holding \in [Jobs -> BOOLEAN]
      /\ response \in [Jobs -> Statuses \cup {NoStatus}]
      /\ RefusedHasReason /\ SubmittingIsHandled
  BY DEF PoolIInv, TypeOK, RestIInv, RestTypeOK
<1>2. ASSUME NEW j \in Jobs, NEW a \in BOOLEAN, Arrive(j, a)
      PROVE  RequestMoves(k)
  <2>1. phase' = phase
    BY <1>2 DEF Arrive, vars, jobVars
  <2>2. CASE Respond(j, 400) \/ Respond(j, 429)
    BY <1>1, <1>2, <2>1, <2>2
    DEF Arrive, Respond, Handle, RequestMoves, HandlerMoves, SlotMoves,
        ResponseMoves
  <2>3. CASE /\ holding' = [holding EXCEPT ![j] = TRUE]
             /\ Handle(j, "submitting") /\ response' = response
    BY <1>1, <1>2, <2>1, <2>3
    DEF Arrive, Handle, RequestMoves, HandlerMoves, SlotMoves, ResponseMoves
  <2>4. QED
    BY <1>2, <2>2, <2>3 DEF Arrive
<1>3. ASSUME NEW j \in Jobs, NEW valid \in BOOLEAN, CallEngine(j, valid)
      PROVE  RequestMoves(k)
  <2>1. /\ http[j] = "submitting" /\ UNCHANGED <<holding, response>>
        /\ http' = http \/ Handle(j, "refused")
    BY <1>3 DEF CallEngine
  <2>2. k # j => phase'[k] = phase[k]
    BY <1>1, <1>3 DEF CallEngine, Submit, Become
  <2>3. QED
    BY <1>1, <2>1, <2>2
    DEF Handle, RequestMoves, HandlerMoves, SlotMoves, ResponseMoves
<1>4. ASSUME NEW j \in Jobs, Enqueue(j)
      PROVE  RequestMoves(k)
  <2>1. /\ UNCHANGED <<holding, response>>
        /\ http' = http \/ Handle(j, "refused") \/ Handle(j, "awaiting")
    BY <1>4 DEF Enqueue
  <2>2. phase[j] \in Submitting /\ \E p : Become(j, p)
    BY <1>4
    DEF Enqueue, Count, TrySend, UncountRefused, DropRefused, Submitting
  <2>3. http[j] = "submitting"
    BY <1>1, <2>2 DEF SubmittingIsHandled
  <2>4. phase[k] = "new" => phase'[k] = phase[k]
    BY <1>1, <2>2 DEF Become, Submitting
  <2>5. QED
    BY <1>1, <2>1, <2>3, <2>4
    DEF Handle, RequestMoves, HandlerMoves, SlotMoves, ResponseMoves
<1>5. ASSUME NEW j \in Jobs, Disconnect(j)
      PROVE  RequestMoves(k)
  BY <1>1, <1>5
  DEF Disconnect, DropGuard, Handle, RequestMoves, HandlerMoves, SlotMoves,
      ResponseMoves
<1>6. ASSUME NEW j \in Jobs, Answer(j)
      PROVE  RequestMoves(k)
  <2>1. http[j] \in {"refused", "awaiting"} /\ outcome[j] # "none"
    BY <1>1, <1>6 DEF Answer, RefusedHasReason
  <2>2. phase' = phase /\ holding' = holding
    BY <1>6 DEF Answer, DropGuard
  <2>3. PICK s : s = Status(outcome[j])
    OBVIOUS
  <2>4. Respond(j, s)
    BY <1>6, <2>3 DEF Answer
  <2>5. QED
    BY <1>1, <2>1, <2>2, <2>3, <2>4
    DEF Respond, Handle, RequestMoves, HandlerMoves, SlotMoves, ResponseMoves
<1>7. ASSUME NEW j \in Jobs, ReturnSlot(j)
      PROVE  RequestMoves(k)
  <2>1. /\ UNCHANGED <<phase, http, response>> /\ ClosureOver(j)
        /\ holding' = [holding EXCEPT ![j] = FALSE]
    BY <1>7 DEF ReturnSlot, vars, jobVars
  <2>2. QED
    BY <1>1, <2>1 DEF RequestMoves, HandlerMoves, SlotMoves, ResponseMoves
<1>8. ASSUME NEW j \in Jobs, Discarded(j)
      PROVE  RequestMoves(k)
  BY <1>1, <1>8, QuietRequest DEF Discarded, DropDiscarded, restVars, Become
<1>9. ASSUME NEW w \in Workers, Work(w)
      PROVE  RequestMoves(k)
  <2>1. UNCHANGED <<http, holding, response>>
    BY <1>9 DEF Work, restVars
  <2>2. phase'[k] = "admitted" => phase[k] \in Submitting
    BY <1>9, WorkersDoNotSubmit DEF Submitting
  <2>3. QED
    BY <2>1, <2>2, QuietRequest DEF Submitting
<1>10. CASE UNCHANGED allVars
  BY <1>10, QuietRequest DEF allVars, vars, jobVars, restVars
<1>11. QED
  BY <1>2, <1>3, <1>4, <1>5, <1>6, <1>7, <1>8, <1>9, <1>10
  DEF RestNext, RequestStep

(* The flag of an abandoned request is up, a closure that may still run has *)
(* its slot, and 503 means a panic.                                         *)
LEMMA ClosureStep ==
  IInv /\ RestIInv /\ [RestNext]_allVars => ClosureInv'
<1> SUFFICES ASSUME IInv, RestIInv, [RestNext]_allVars PROVE ClosureInv'
  OBVIOUS
<1>1. /\ PoolIInv /\ JobIInv /\ ClosureInv /\ TypeOK
      /\ holding \in [Jobs -> BOOLEAN]
  BY RestIInvParts DEF IInv, PoolIInv, ServiceInv, RestTypeOK
<1>2. [Next]_vars
  BY <1>1, RestStep
<1>3. GoneHasFlag'
  <2>1. SUFFICES ASSUME NEW k \in Jobs, http'[k] = "gone"
                 PROVE  cancelled'[k]
    BY DEF GoneHasFlag
  <2>2. HandlerMoves(k) /\ (cancelled[k] => cancelled'[k])
    BY <1>1, <1>2, RequestStepMoves, JobStep DEF RequestMoves
  <2>3. QED
    BY <1>1, <2>1, <2>2 DEF HandlerMoves, ClosureInv, GoneHasFlag
<1>4. UnfinishedHasSlot'
  <2>1. SUFFICES ASSUME NEW k \in Jobs,
                        \/ phase'[k] \in Unfinished
                        \/ phase'[k] = "new" /\ http'[k] = "submitting"
                 PROVE  holding'[k]
    BY DEF UnfinishedHasSlot
  <2>2. JobMoves(k) /\ RequestMoves(k)
    BY <1>1, <1>2, RequestStepMoves, JobStep
  <2>3. \/ phase[k] \in Unfinished
        \/ phase[k] = "new" /\ http[k] = "submitting"
        \/ phase[k] = "new" /\ holding'[k]
    BY <2>1, <2>2
    DEF JobMoves, QuietMoves, RequestMoves, HandlerMoves, Unfinished
  <2>4. CASE phase[k] \in Unfinished \/ (phase[k] = "new" /\ http[k] = "submitting")
    <3>1. holding[k] /\ ~ClosureOver(k)
      BY <1>1, <2>4
      DEF ClosureInv, UnfinishedHasSlot, ClosureOver, Unfinished
    <3>2. QED
      BY <2>2, <3>1 DEF RequestMoves, SlotMoves
  <2>5. QED
    BY <2>3, <2>4
<1>5. UnavailableMeansPanic'
  <2>1. SUFFICES ASSUME NEW k \in Jobs, response'[k] = 503
                 PROVE  PanicHappened
    BY <1>1, <1>2, PanicStays DEF UnavailableMeansPanic, JobIInv
  <2>2. ResponseMoves(k)
    BY <1>1, RequestStepMoves DEF RequestMoves
  <2>3. CASE response[k] = 503
    BY <1>1, <2>3 DEF ClosureInv, UnavailableMeansPanic
  <2>4. CASE outcome[k] # "none" /\ Status(outcome[k]) = 503
    <3>1. outcome[k] = "WorkerStopped"
      BY <1>1, <2>4 DEF TypeOK, Outcomes, Status
    <3>2. QED
      BY <1>1, <3>1 DEF JobIInv, StoppedMeansPanic
  <2>5. QED
    BY <2>1, <2>2, <2>3, <2>4 DEF ResponseMoves
<1>6. QED
  BY <1>3, <1>4, <1>5 DEF ClosureInv

-----------------------------------------------------------------------------

(* The inductive invariant of the service, whatever the clients, the        *)
(* workers and the limits.                                                  *)
THEOREM RestInvariance == RestSpec => []RestIInv
<1>1. RestInit => RestIInv
  <2>1. RestInit => SubmittingIsHandled
    BY DEF RestInit, Init, SubmittingIsHandled, Submitting
  <2>2. RestInit => ClosureInv
    BY DEF RestInit, Init, ClosureInv, GoneHasFlag, UnfinishedHasSlot,
           UnavailableMeansPanic, Unfinished, NoStatus
  <2>3. QED
    BY <2>1, <2>2, RestInitStep, RestIInvParts
<1>2. IInv /\ RestIInv /\ [RestNext]_allVars => RestIInv'
  <2> SUFFICES ASSUME IInv, RestIInv, [RestNext]_allVars PROVE RestIInv'
    OBVIOUS
  <2>1. ServiceInv' /\ SubmittingIsHandled' /\ ClosureInv'
    BY ServiceStep, SubmittingStep, ClosureStep DEF IInv
  <2>2. QED
    BY <2>1
    DEF RestIInv, ServiceInv, ClosureInv
<1>3. QED
  BY <1>1, <1>2, ServiceInvariance, PTL DEF RestSpec

(* Every way a request can end gives its slot back once, for any number of  *)
(* requests, workers and queue places.                                      *)
THEOREM SlotConservation == RestSpec => []SlotsConserved
<1>1. RestIInv => SlotsConserved
  BY DEF RestIInv
<1>2. QED
  BY <1>1, RestInvariance, PTL

(* No client that still listens is told 409: only the end of its own        *)
(* handler cancels a request.                                               *)
THEOREM ListenersNotCancelled == RestSpec => []ConnectedNotCancelled
<1>1. RestIInv => ConnectedNotCancelled
  BY DEF RestIInv
<1>2. QED
  BY <1>1, RestInvariance, PTL

(* 503 "worker_stopped" reaches a client only after a computation panicked: *)
(* neither load, nor cancellation, nor other clients leaving produce it.    *)
THEOREM UnavailableOnlyAfterPanic == RestSpec => []UnavailableMeansPanic
<1>1. RestIInv => UnavailableMeansPanic
  BY DEF RestIInv
<1>2. QED
  BY <1>1, RestInvariance, PTL

-----------------------------------------------------------------------------
(* A request that is refused by the channel. *)

(* Only try_send on a full channel refuses a job. *)
LEMMA RefusedByFullChannel ==
  ASSUME PoolIInv, [RestNext]_allVars, NEW j \in Jobs,
         phase[j] = "counted", phase'[j] = "refused"
  PROVE  Len(channel) >= queue_capacity
<1>1. phase \in [Jobs -> Phases] /\ [Next]_vars /\ TypeOK
  BY RestStep DEF PoolIInv, TypeOK
<1>2. ASSUME NEW k, NEW p, Become(k, p)
      PROVE  p = "refused" /\ k = j
  BY <1>1, <1>2 DEF Become
<1>3. ASSUME NEW k \in Jobs, SubmitterStep(k)
      PROVE  Len(channel) >= queue_capacity
  BY <1>2, <1>3
  DEF SubmitterStep, Count, TrySend, UncountRefused, DropRefused, DropDiscarded
<1>4. ASSUME NEW k \in Jobs, NEW valid \in BOOLEAN, Submit(k, valid)
      PROVE  FALSE
  BY <1>2, <1>4 DEF Submit
<1>5. ASSUME NEW w \in Workers,
             \/ Take(w) \/ Uncount(w) \/ Start(w) \/ Publish(w) \/ Finish(w)
             \/ Unwind(w) \/ Panic(w)
      PROVE  FALSE
  BY <1>2, <1>5 DEF Take, Uncount, Start, Publish, Finish, Unwind, Panic
<1>6. CASE phase' = phase \/ DiscardChannel
  BY <1>6 DEF DiscardChannel
<1>7. QED
  BY <1>1, <1>3, <1>4, <1>5, <1>6
  DEF Next, WorkerStep, Die, Exit, Leave, Cancel, Shutdown, vars, jobVars

(* The jobs in the channel and the jobs with the threads are as many as     *)
(* there are places and threads.                                            *)
LEMMA ChannelJobs ==
  ASSUME PoolIInv
  PROVE  /\ IsFiniteSet(Range(channel))
         /\ Len(channel) <= Cardinality(Range(channel))
<1>1. channel \in Seq(Jobs) /\ ChannelHoldsSent
  BY DEF PoolIInv, TypeOK
<1>2. Range(channel) \in SUBSET Jobs
  BY <1>1 DEF Range
<1>3. IsFiniteSet(Range(channel))
  BY <1>2, SchedulerAssumption, FS_Subset
<1>4. /\ Len(channel) \in Nat
      /\ channel \in Injection(1 .. Len(channel), Range(channel))
  BY <1>1 DEF ChannelHoldsSent, Injection, IsInjective, Range
<1>5. Cardinality(1 .. Len(channel)) = Len(channel)
  <2>1. PICK n \in Nat : n = Len(channel)
    BY <1>4
  <2>2. Cardinality(1 .. n) = IF 1 > n THEN 0 ELSE n - 1 + 1
    BY FS_Interval
  <2>3. QED
    BY <2>1, <2>2
<1>6. QED
  BY <1>3, <1>4, <1>5, FS_Injection

HeldJobs == {current[w] : w \in Workers}

LEMMA ThreadsJobs ==
  ASSUME PoolIInv, HeldByOne, \A w \in Workers : current[w] # NoJob
  PROVE  /\ HeldJobs \in SUBSET Jobs
         /\ \A j \in HeldJobs : phase[j] \in Running
         /\ IsFiniteSet(HeldJobs) /\ Threads <= Cardinality(HeldJobs)
<1>1. current \in [Workers -> Jobs \cup {NoJob}]
  BY DEF PoolIInv, TypeOK
<1>2. HeldJobs \in SUBSET Jobs /\ \A j \in HeldJobs : phase[j] \in Running
  BY <1>1 DEF HeldJobs, HeldByOne
<1>3. IsFiniteSet(HeldJobs)
  BY <1>2, SchedulerAssumption, FS_Subset
<1>4. current \in Injection(Workers, HeldJobs)
  BY <1>1 DEF HeldByOne, Injection, IsInjective, HeldJobs
<1>5. QED
  BY <1>2, <1>3, <1>4, FS_Injection DEF Threads

(* With a slot behind every thread, the jobs of a full channel, of the      *)
(* threads and the refused one would need more slots than there are.        *)
LEMMA FullStep ==
  IInv /\ RestIInv /\ [RestNext]_allVars =>
    [\A j \in Jobs :
       phase[j] = "counted" /\ phase'[j] = "refused" =>
         \E w \in Workers : current[w] = NoJob \/ ~holding[current[w]]]_allVars
<1> SUFFICES ASSUME IInv, RestIInv, [RestNext]_allVars, NEW j \in Jobs,
                    phase[j] = "counted", phase'[j] = "refused",
                    \A w \in Workers : current[w] # NoJob /\ holding[current[w]]
             PROVE  FALSE
  OBVIOUS
<1>1. /\ PoolIInv /\ HeldByOne /\ RestTypeOK /\ SlotsConserved
      /\ UnfinishedHasSlot
  BY DEF IInv, JobIInv, RestIInv
<1>2. /\ IsFiniteSet(Range(channel))
      /\ queue_capacity <= Cardinality(Range(channel))
  <2>1. Len(channel) >= queue_capacity
    BY <1>1, RefusedByFullChannel
  <2>2. /\ IsFiniteSet(Range(channel))
        /\ Len(channel) <= Cardinality(Range(channel))
    BY <1>1, ChannelJobs
  <2>3. Len(channel) \in Nat /\ Cardinality(Range(channel)) \in Nat
    BY <1>1, <2>2, FS_CardinalityType DEF PoolIInv, TypeOK
  <2>4. QED
    BY <2>1, <2>2, <2>3, SchedulerAssumption
<1>3. /\ \A k \in HeldJobs : phase[k] \in Running
      /\ HeldJobs \in SUBSET Jobs
      /\ IsFiniteSet(HeldJobs) /\ Threads <= Cardinality(HeldJobs)
  BY <1>1, ThreadsJobs
<1>4. \A k \in Range(channel) : phase[k] = "sent" /\ k \in Jobs
  <2>1. channel \in Seq(Jobs)
    BY <1>1 DEF PoolIInv, TypeOK
  <2>2. QED
    BY <1>1, <2>1, ChannelIsSent DEF Range
<1> DEFINE Two == Range(channel) \cup HeldJobs
           Three == Two \cup {j}
<1>5. IsFiniteSet(Two)
      /\ Cardinality(Two) = Cardinality(Range(channel)) + Cardinality(HeldJobs)
  <2>1. Range(channel) \cap HeldJobs = {}
    BY <1>3, <1>4 DEF Running
  <2>2. Cardinality(Range(channel)) \in Nat /\ Cardinality(HeldJobs) \in Nat
    BY <1>2, <1>3, FS_CardinalityType
  <2>3. /\ IsFiniteSet(Two)
        /\ Cardinality(Two) = Cardinality(Range(channel)) + Cardinality(HeldJobs)
                                - Cardinality(Range(channel) \cap HeldJobs)
    BY <1>2, <1>3, FS_Union
  <2>4. Cardinality(Range(channel) \cap HeldJobs) = 0
    BY <2>1, FS_EmptySet
  <2> HIDE DEF Two
  <2>5. QED
    BY <2>2, <2>3, <2>4
<1>6. IsFiniteSet(Three) /\ Cardinality(Three) = Cardinality(Two) + 1
  <2>1. j \notin Two
    BY <1>3, <1>4 DEF Running
  <2> HIDE DEF Two
  <2>2. QED
    BY <1>5, <2>1, FS_AddElement
<1>7. Three \in SUBSET Holders
  <2>1. Range(channel) \subseteq Holders /\ j \in Holders
    BY <1>1, <1>4 DEF UnfinishedHasSlot, Unfinished, Holders
  <2>2. HeldJobs \subseteq Holders
    BY <1>3 DEF HeldJobs, Holders
  <2>3. QED
    BY <2>1, <2>2
<1>8. Cardinality(Three) <= Cardinality(Holders)
  <2> HIDE DEF Three
  <2>1. QED
    BY <1>7, HoldersFinite, FS_Subset
<1>9. Cardinality(Holders) <= SlotLimit
  BY <1>1, HoldersFinite, SlotLimitType DEF SlotsConserved, RestTypeOK
<1>10. /\ Threads \in Nat /\ Cardinality(HeldJobs) \in Nat
       /\ Cardinality(Range(channel)) \in Nat /\ Cardinality(Holders) \in Nat
  BY <1>2, <1>3, HoldersFinite, SchedulerAssumption, FS_CardinalityType DEF Threads
<1> HIDE DEF Two, Three
<1>11. QED
  BY <1>2, <1>3, <1>5, <1>6, <1>8, <1>9, <1>10, SchedulerAssumption DEF SlotLimit

(* A request that has a slot finds the channel full only while some worker  *)
(* has given the slot of its last closure up and is not back at the channel *)
(* yet, whatever the number of workers and places.                          *)
THEOREM FullMeansHandover == RestSpec => FullOnlyDuringHandover
BY FullStep, RestInvariance, ServiceInvariance, PTL
DEF RestSpec, FullOnlyDuringHandover

-----------------------------------------------------------------------------
(* What the pool does with a flag that rose in time, the service does with  *)
(* a client that left in time.                                              *)
LEMMA AbandonedForOne ==
  ASSUME NEW j \in Jobs
  PROVE  RestSpec => [](/\ http[j] = "gone"
                        /\ phase[j] \in {"sent", "taken", "started"}
                        => []~(phase[j] = "executing"))
<1>1. RestIInv /\ http[j] = "gone" => cancelled[j]
  BY DEF RestIInv, GoneHasFlag
<1>2. phase[j] \in {"sent", "taken", "started"}
        => phase[j] \in Submitting \cup {"sent", "taken", "started"}
  OBVIOUS
<1>3. RestSpec =>
        [](/\ cancelled[j]
           /\ phase[j] \in Submitting \cup {"sent", "taken", "started"}
           => [](phase[j] # "executing" /\ outcome[j] # "Computed"))
  BY ServiceUsesPool, EarlyCancelForOne, PTL
<1>4. phase[j] # "executing" => ~(phase[j] = "executing")
  OBVIOUS
<1>5. QED
  BY <1>1, <1>2, <1>3, <1>4, RestInvariance, PTL

(* The work of a client that has left before a worker reached it is never   *)
(* done.                                                                    *)
THEOREM AbandonedIsSuppressed == RestSpec => AbandonedNeverComputed
BY AbandonedForOne DEF AbandonedNeverComputed

=============================================================================
