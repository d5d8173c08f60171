------------------------------ MODULE Scheduler ------------------------------
(***************************************************************************)
(* The CPU job pool of quant-engine/src/lib.rs: Engine::new starts a fixed  *)
(* set of worker threads behind one bounded channel; the submit functions   *)
(* charge the admission budget, count the job and try to send it; a worker  *)
(* receives a job, uncounts it, runs it and drops it, which gives the       *)
(* budget back.                                                             *)
(*                                                                          *)
(* A job is one call of a submit function.  Its submitter and the workers   *)
(* run concurrently: the atomic counter `queued`, the channel and the       *)
(* mutex of the admission budget are touched in separate steps.  A job may  *)
(* panic, which unwinds and ends its worker; the Receiver is dropped with   *)
(* the last worker and what the channel still holds is dropped with it.     *)
(***************************************************************************)
EXTENDS AdmissionState, Sequences, Functions

CONSTANTS Jobs,            \* the calls of the submit functions
          Workers,         \* the threads quant-compute-<index>
          NoJob,           \* a worker that holds no job
          CpuCost,         \* [Jobs -> Nat], the JobCost each call asks for
          MemoryCost,
          HoldsEngine,     \* jobs whose closure captured a clone of Engine
          Cooperative,     \* jobs whose computation polls ExecutionControl
          MayPanic,        \* jobs whose computation can panic
          \* EngineConfig
          queue_capacity,
          cpu_units,
          memory_budget_bytes,
          max_job_memory_bytes

(* What Engine::new insists on, and what the rest needs to make sense.      *)
ASSUME SchedulerAssumption ==
  /\ IsFiniteSet(Jobs)
  /\ NoJob \notin Jobs
  /\ IsFiniteSet(Workers) /\ Workers # {}
  /\ CpuCost \in [Jobs -> Nat]
  /\ MemoryCost \in [Jobs -> Nat]
  /\ HoldsEngine \subseteq Jobs
  /\ Cooperative \subseteq Jobs
  /\ MayPanic \subseteq Jobs
  /\ queue_capacity \in Nat \ {0}
  /\ cpu_units \in Nat
  /\ memory_budget_bytes \in Nat \ {0}
  /\ max_job_memory_bytes \in 1 .. memory_budget_bytes

VARIABLES admission,   \* the counters of WeightedAdmission
          queued,      \* Engine.queued
          channel,     \* jobs in the sync_channel
          phase,       \* how far each job has come
          cancelled,   \* the cancellation flag of each job
          outcome,     \* what the caller of each job has learned
          worker,      \* the state of each thread
          current,     \* the job each thread holds
          open         \* an Engine handle outside the jobs is alive

jobVars == <<phase, cancelled, outcome>>
threadVars == <<worker, current, open>>
vars == <<admission, queued, channel, jobVars, threadVars>>

Phases ==
  {"new",        \* not submitted
   "admitted",   \* budget charged
   "counted",    \* queued incremented, about to try_send
   "refused",    \* try_send found the channel full
   "uncounted",  \* refused, and queued decremented again
   "sent",       \* in the channel
   "taken",      \* received by a worker, still counted
   "started",    \* uncounted by its worker
   "executing",  \* the computation runs
   "published",  \* the result is sent, the closure is about to return
   "unwinding",  \* the computation panicked
   "discarded",  \* dropped because the Receiver is gone, still charged
   "lost",       \* discarded and its budget returned
   "closed"}     \* over

Outcomes == {"none", "InvalidRequest", "Cancelled", "QueueFull",
             "WorkerStopped", "Computed"}

WorkerStates == {"waiting", "busy", "dying", "dead", "exited"}

-----------------------------------------------------------------------------
(* Engine::new: cpu_units is at least one per worker. *)

Threads == Cardinality(Workers)

limits ==
  AdmissionLimits(IF cpu_units < Threads THEN Threads ELSE cpu_units,
                  memory_budget_bytes)

Cost(j) == JobCost(CpuCost[j], MemoryCost[j])

(* The phases in which a job owns its AdmissionPermit. *)
Charged == {"admitted", "counted", "refused", "uncounted", "sent", "taken",
            "started", "executing", "published", "unwinding", "discarded"}

(* The phases in which a job is included in `queued`; a discarded job is    *)
(* never subtracted.                                                        *)
Counted == {"counted", "refused", "sent", "taken", "discarded", "lost"}

(* The phases of a call that is still inside a submit function. *)
Submitting == {"admitted", "counted", "refused", "uncounted"}

(* A SyncSender is alive: in a handle, or in the closure of a live job. *)
SenderAlive ==
  \/ open
  \/ \E j \in HoldsEngine :
       phase[j] \in {"sent", "taken", "started", "executing", "published",
                     "discarded"}

(* The Receiver lives in the threads. *)
ReceiverAlive == \E w \in Workers : worker[w] \notin {"dead", "exited"}

IsReady == /\ queued < queue_capacity
           /\ admission.cpu_in_use < limits.cpu_units

Init == /\ admission = Idle
        /\ queued = 0
        /\ channel = <<>>
        /\ phase = [j \in Jobs |-> "new"]
        /\ cancelled = [j \in Jobs |-> FALSE]
        /\ outcome = [j \in Jobs |-> "none"]
        /\ worker = [w \in Workers |-> "waiting"]
        /\ current = [w \in Workers |-> NoJob]
        /\ open = TRUE

Become(j, p) == phase' = [phase EXCEPT ![j] = p]
Learn(j, o) == outcome' = [outcome EXCEPT ![j] = o]

-----------------------------------------------------------------------------
(* The submitting side. *)

(* submit_price, submit_price_callback and submit_task up to try_acquire;   *)
(* `valid` is the verdict of validate_request on the call's arguments.      *)
Submit(j, valid) ==
  /\ open
  /\ phase[j] = "new"
  /\ LET reject(o) == /\ Become(j, "closed")
                      /\ Learn(j, o)
                      /\ UNCHANGED admission
     IN  \/ /\ ~valid
            /\ reject("InvalidRequest")
         \/ /\ valid
            /\ cancelled[j]
            /\ reject("Cancelled")
         \/ /\ valid /\ ~cancelled[j]
            /\ Cost(j).estimated_bytes > max_job_memory_bytes
            /\ reject("InvalidRequest")
         \/ /\ valid /\ ~cancelled[j]
            /\ Cost(j).estimated_bytes <= max_job_memory_bytes
            /\ ~Fits(limits, admission, Cost(j))
            /\ reject("QueueFull")
         \/ /\ valid /\ ~cancelled[j]
            /\ Cost(j).estimated_bytes <= max_job_memory_bytes
            /\ Fits(limits, admission, Cost(j))
            /\ admission' = Charge(admission, Cost(j))
            /\ Become(j, "admitted")
            /\ UNCHANGED outcome
  /\ UNCHANGED <<queued, channel, cancelled, threadVars>>

\* Mutant: the job is not counted before it is sent.
Count_Skipped(j) ==
  /\ phase[j] = "admitted"
  /\ Become(j, "counted")
  /\ UNCHANGED <<admission, queued, channel, cancelled, outcome, threadVars>>

(* enqueue: fetch_add comes before try_send. *)
Count(j) ==
  /\ phase[j] = "admitted"
  /\ queued' = queued + 1
  /\ Become(j, "counted")
  /\ UNCHANGED <<admission, channel, cancelled, outcome, threadVars>>

(* enqueue: try_send.  The Disconnected error falls through to Ok(()), and  *)
(* the job it carries is dropped: first its closure, so that its result     *)
(* channel closes, then its permit.                                         *)
TrySend(j) ==
  /\ phase[j] = "counted"
  /\ \/ /\ ~ReceiverAlive
        /\ Become(j, "discarded")
        /\ Learn(j, "WorkerStopped")
        /\ UNCHANGED channel
     \/ /\ ReceiverAlive
        /\ Len(channel) >= queue_capacity
        /\ Become(j, "refused")
        /\ UNCHANGED <<channel, outcome>>
     \/ /\ ReceiverAlive
        /\ Len(channel) < queue_capacity
        /\ channel' = Append(channel, j)
        /\ Become(j, "sent")
        /\ UNCHANGED outcome
  /\ UNCHANGED <<admission, queued, cancelled, threadVars>>

\* Mutant: the early return of enqueue forgets fetch_sub.
UncountRefused_Forgotten(j) ==
  /\ phase[j] = "refused"
  /\ Become(j, "uncounted")
  /\ UNCHANGED <<admission, queued, channel, cancelled, outcome, threadVars>>

(* enqueue after Full: fetch_sub, then the rejected job is dropped with its *)
(* permit as the error leaves the function.                                 *)
UncountRefused(j) ==
  /\ phase[j] = "refused"
  /\ queued' = queued - 1
  /\ Become(j, "uncounted")
  /\ UNCHANGED <<admission, channel, cancelled, outcome, threadVars>>

DropRefused(j) ==
  /\ phase[j] = "uncounted"
  /\ admission' = Discharge(admission, Cost(j))
  /\ Become(j, "closed")
  /\ Learn(j, "QueueFull")
  /\ UNCHANGED <<queued, channel, cancelled, threadVars>>

(* The permit of a job that nobody can receive any more is dropped. *)
DropDiscarded(j) ==
  /\ phase[j] = "discarded"
  /\ admission' = Discharge(admission, Cost(j))
  /\ Become(j, "lost")
  /\ UNCHANGED <<queued, channel, cancelled, outcome, threadVars>>

(* JobHandle::cancel, ExecutionControl::cancel. *)
Cancel(j) ==
  /\ ~cancelled[j]
  /\ cancelled' = [cancelled EXCEPT ![j] = TRUE]
  /\ UNCHANGED <<admission, queued, channel, phase, outcome, threadVars>>

(* Engine::shutdown on the last handle; a submit call borrows the handle.   *)
Shutdown ==
  /\ open
  /\ \A j \in Jobs : phase[j] \notin Submitting
  /\ open' = FALSE
  /\ UNCHANGED <<admission, queued, channel, jobVars, worker, current>>

-----------------------------------------------------------------------------
(* The worker loop. *)

Take(w) ==
  /\ worker[w] = "waiting"
  /\ channel # <<>>
  /\ channel' = Tail(channel)
  /\ Become(Head(channel), "taken")
  /\ worker' = [worker EXCEPT ![w] = "busy"]
  /\ current' = [current EXCEPT ![w] = Head(channel)]
  /\ UNCHANGED <<admission, queued, cancelled, outcome, open>>

Uncount(w) ==
  LET j == current[w]
  IN  /\ worker[w] = "busy"
      /\ phase[j] = "taken"
      /\ queued' = queued - 1
      /\ Become(j, "started")
      /\ UNCHANGED <<admission, channel, cancelled, outcome, threadVars>>

\* Mutant: a worker computes whatever it receives.
Start_IgnoresFlag(w) ==
  LET j == current[w]
  IN  /\ worker[w] = "busy"
      /\ phase[j] = "started"
      /\ Become(j, "executing")
      /\ UNCHANGED <<admission, queued, channel, cancelled, outcome, threadVars>>

(* The closure looks at the flag first and reports Cancelled without        *)
(* computing.                                                               *)
Start(w) ==
  LET j == current[w]
  IN  /\ worker[w] = "busy"
      /\ phase[j] = "started"
      /\ \/ /\ cancelled[j]
            /\ Become(j, "published")
            /\ Learn(j, "Cancelled")
         \/ /\ ~cancelled[j]
            /\ Become(j, "executing")
            /\ UNCHANGED outcome
      /\ UNCHANGED <<admission, queued, channel, cancelled, threadVars>>

(* The computation ends and the closure sends its result: a value or a      *)
(* pricing error ("Computed"), or Cancelled when the computation polls the  *)
(* flag between its chunks.                                                 *)
Publish(w) ==
  LET j == current[w]
  IN  /\ worker[w] = "busy"
      /\ phase[j] = "executing"
      /\ Become(j, "published")
      /\ \/ Learn(j, "Computed")
         \/ /\ cancelled[j]
            /\ j \in Cooperative
            /\ Learn(j, "Cancelled")
      /\ UNCHANGED <<admission, queued, channel, cancelled, threadVars>>

(* The closure has returned; the end of the loop body drops the job. *)
Finish(w) ==
  LET j == current[w]
  IN  /\ worker[w] = "busy"
      /\ phase[j] = "published"
      /\ admission' = Discharge(admission, Cost(j))
      /\ Become(j, "closed")
      /\ worker' = [worker EXCEPT ![w] = "waiting"]
      /\ current' = [current EXCEPT ![w] = NoJob]
      /\ UNCHANGED <<queued, channel, cancelled, outcome, open>>

(* A panic unwinds through the closure (its result sender is dropped, the   *)
(* caller reads WorkerStopped), ...                                         *)
Panic(w) ==
  LET j == current[w]
  IN  /\ worker[w] = "busy"
      /\ phase[j] = "executing"
      /\ j \in MayPanic
      /\ Become(j, "unwinding")
      /\ Learn(j, "WorkerStopped")
      /\ UNCHANGED <<admission, queued, channel, cancelled, threadVars>>

\* Mutant: the permit is released after execute, not by Drop.
Unwind_KeepsPermit(w) ==
  LET j == current[w]
  IN  /\ worker[w] = "busy"
      /\ phase[j] = "unwinding"
      /\ Become(j, "closed")
      /\ worker' = [worker EXCEPT ![w] = "dying"]
      /\ current' = [current EXCEPT ![w] = NoJob]
      /\ UNCHANGED <<admission, queued, channel, cancelled, outcome, open>>

(* ... then through the loop body, which drops the permit, ... *)
Unwind(w) ==
  LET j == current[w]
  IN  /\ worker[w] = "busy"
      /\ phase[j] = "unwinding"
      /\ admission' = Discharge(admission, Cost(j))
      /\ Become(j, "closed")
      /\ worker' = [worker EXCEPT ![w] = "dying"]
      /\ current' = [current EXCEPT ![w] = NoJob]
      /\ UNCHANGED <<queued, channel, cancelled, outcome, open>>

\* Mutant: the Engine keeps the Receiver alive beside the workers.
Leave_KeepsReceiver(w, how) ==
  /\ worker' = [worker EXCEPT ![w] = how]
  /\ UNCHANGED <<admission, queued, channel, jobVars, current, open>>

(* Drop of the Receiver: the jobs still in the channel are dropped, their   *)
(* result channels close.                                                   *)
DiscardChannel ==
  /\ channel' = <<>>
  /\ phase' = [j \in Jobs |-> IF j \in Range(channel) THEN "discarded"
                                                      ELSE phase[j]]
  /\ outcome' = [j \in Jobs |-> IF j \in Range(channel) THEN "WorkerStopped"
                                                        ELSE outcome[j]]

\* Mutant: a panic poisons the channel for every worker.
Leave_DropsChannel(w, how) ==
  /\ worker' = [worker EXCEPT ![w] = how]
  /\ DiscardChannel
  /\ UNCHANGED <<admission, queued, cancelled, current, open>>

(* ... and ends the thread.  The last thread to go drops the Receiver.      *)
Leave(w, how) ==
  /\ worker' = [worker EXCEPT ![w] = how]
  /\ IF \E v \in Workers \ {w} : worker[v] \notin {"dead", "exited"}
     THEN UNCHANGED <<channel, phase, outcome>>
     ELSE DiscardChannel
  /\ UNCHANGED <<admission, queued, cancelled, current, open>>

Die(w) == worker[w] = "dying" /\ Leave(w, "dead")

(* recv fails only when the channel is empty and no sender is left. *)
Exit(w) == /\ worker[w] = "waiting"
           /\ channel = <<>>
           /\ ~SenderAlive
           /\ Leave(w, "exited")

-----------------------------------------------------------------------------

WorkerStep(w) == \/ Take(w) \/ Uncount(w) \/ Start(w) \/ Publish(w)
                 \/ Finish(w) \/ Unwind(w) \/ Die(w) \/ Exit(w)

(* The steps a submitter takes once it has its permit. *)
SubmitterStep(j) == \/ Count(j) \/ TrySend(j) \/ UncountRefused(j)
                    \/ DropRefused(j) \/ DropDiscarded(j)

Next == \/ \E j \in Jobs : \/ \E valid \in BOOLEAN : Submit(j, valid)
                           \/ SubmitterStep(j)
                           \/ Cancel(j)
        \/ \E w \in Workers : WorkerStep(w) \/ Panic(w)
        \/ Shutdown

(* Threads are scheduled and a computation ends, by returning or by a       *)
(* panic.  Nobody has to submit, cancel or shut down.                       *)
Fairness == /\ \A j \in Jobs : WF_vars(SubmitterStep(j))
            /\ \A w \in Workers : WF_vars(WorkerStep(w))

Spec == Init /\ [][Next]_vars /\ Fairness

-----------------------------------------------------------------------------

TypeOK == /\ admission \in AdmissionRecords
          /\ queued \in Nat
          /\ channel \in Seq(Jobs)
          /\ phase \in [Jobs -> Phases]
          /\ cancelled \in [Jobs -> BOOLEAN]
          /\ outcome \in [Jobs -> Outcomes]
          /\ worker \in [Workers -> WorkerStates]
          /\ current \in [Workers -> Jobs \cup {NoJob}]
          /\ open \in BOOLEAN

InPhase(P) == {j \in Jobs : phase[j] \in P}

CpuWeights == [j \in Jobs |-> Cost(j).cpu_units]
MemoryWeights == [j \in Jobs |-> Cost(j).estimated_bytes]

(* Across refusals, panics, a dead pool and shutdown, the admission         *)
(* counters are what the jobs that still own a permit cost: no path drops   *)
(* a permit twice or never, so no budget leaks away from later requests.    *)
CountersMatchPermits ==
  /\ admission.cpu_in_use = Weight(InPhase(Charged), CpuWeights)
  /\ admission.memory_in_use = Weight(InPhase(Charged), MemoryWeights)
  /\ admission.queued = Cardinality(InPhase(Charged))

(* The jobs queued and executing stay within both budgets of EngineConfig. *)
WithinBudget == /\ admission.cpu_in_use <= limits.cpu_units
                /\ admission.memory_in_use <= memory_budget_bytes

(* queue_depth() is the number of jobs between their fetch_add and their    *)
(* fetch_sub, plus one for ever for each job dropped with the Receiver; so  *)
(* it cannot wrap below zero, however fast a worker receives a job.         *)
QueueDepthAccounted == queued = Cardinality(InPhase(Counted))

(* A job is dropped unanswered by a worker only after a panic has ended     *)
(* every thread of the pool; shutdown never loses an accepted job.          *)
LostOnlyWithoutWorkers ==
  InPhase({"discarded", "lost"}) # {} => \A w \in Workers : worker[w] = "dead"

(* A cancellation that comes before the worker looks at the flag keeps the  *)
(* computation from ever running.                                           *)
EarlyCancelSuppresses ==
  \A j \in Jobs :
    [](/\ cancelled[j]
       /\ phase[j] \in Submitting \cup {"sent", "taken", "started"}
       => [](phase[j] # "executing" /\ outcome[j] # "Computed"))

(* Every call that was admitted is answered and gives its budget back, even *)
(* when every worker dies or the engine is shut down on the way.            *)
EveryCallAnswered ==
  \A j \in Jobs :
    phase[j] = "admitted" ~> (outcome[j] # "none" /\ phase[j] \notin Charged)

(* The channel holds each sent job once; a busy thread holds a job; a call  *)
(* borrows the handle; a thread exits only from a drained, closed pool.     *)
ChannelHoldsSent ==
  /\ \A i \in 1 .. Len(channel) : phase[channel[i]] = "sent"
  /\ \A i, k \in 1 .. Len(channel) : channel[i] = channel[k] => i = k
BusyHoldsJob == \A w \in Workers : worker[w] = "busy" => current[w] \in Jobs
SubmittingNeedsOpen == ~open => \A j \in Jobs : phase[j] \notin Submitting
ExitedMeansDrained ==
  (\E w \in Workers : worker[w] = "exited") => ~open /\ channel = <<>>

(* The budgets and counters, and what the steps that move them start from.  *)
PoolIInv == /\ TypeOK
            /\ CountersMatchPermits
            /\ WithinBudget
            /\ QueueDepthAccounted
            /\ ChannelHoldsSent
            /\ BusyHoldsJob
            /\ SubmittingNeedsOpen
            /\ ExitedMeansDrained
            /\ LostOnlyWithoutWorkers

(* A job is with one thread at most, which is busy with it; a value is sent *)
(* at the end of a computation; and a caller reads WorkerStopped only after *)
(* a panic.                                                                 *)
Running == {"taken", "started", "executing", "published", "unwinding"}
HeldByOne ==
  /\ \A w \in Workers :
       current[w] # NoJob => worker[w] = "busy" /\ phase[current[w]] \in Running
  /\ \A v, w \in Workers : current[v] = current[w] /\ current[v] # NoJob => v = w
ComputedIsOver ==
  \A j \in Jobs : outcome[j] = "Computed" => phase[j] \in {"published", "closed"}
PanicHappened ==
  \E w \in Workers : \/ worker[w] \in {"dying", "dead"}
                     \/ worker[w] = "busy" /\ phase[current[w]] = "unwinding"
StoppedMeansPanic == \A j \in Jobs : outcome[j] = "WorkerStopped" => PanicHappened
JobIInv == HeldByOne /\ ComputedIsOver /\ StoppedMeansPanic

(* The inductive invariant behind the theorems of RestServiceProofs.        *)
IInv == PoolIInv /\ JobIInv

(* The pool lends budget as the abstract one does. *)
AffordableJobs(S) == /\ Weight(S, CpuWeights) <= limits.cpu_units
                     /\ Weight(S, MemoryWeights) <= memory_budget_bytes
Pool == INSTANCE BudgetPool
          WITH Permits <- Jobs, Affordable <- AffordableJobs,
               lent <- InPhase(Charged)
ImplementsBudgetPool == Pool!Spec

=============================================================================
