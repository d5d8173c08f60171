---------------------------- MODULE MCScheduler ----------------------------
(* Three calls: `task` is a REST task (its closure owns an Engine clone and  *)
(* polls the flag), `price` is a price call that can panic and weighs two    *)
(* units of memory, `huge` asks for the most a job may ask for.              *)
EXTENDS Scheduler, TLC

CONSTANTS task, price, huge

MCJobs == {task, price, huge}
MCCpuCost == task :> 1 @@ price :> 0 @@ huge :> 1
MCMemoryCost == task :> 1 @@ price :> 2 @@ huge :> 3
MCHoldsEngine == {task}
MCCooperative == {task, huge}
MCMayPanic == {price, huge}
=============================================================================
