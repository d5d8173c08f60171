---------------------------- MODULE MCRestService ----------------------------
(* Three requests on one worker and a queue of one, that is, on two slots:  *)
(* a price request that can panic and two task requests.                    *)
EXTENDS RestService, TLC

CONSTANTS price, portfolio, xva

MCJobs == {price, portfolio, xva}
MCCpuCost == price :> 1 @@ portfolio :> 1 @@ xva :> 1
MCMemoryCost == price :> 1 @@ portfolio :> 1 @@ xva :> 2
MCHoldsEngine == {portfolio, xva}
MCCooperative == {portfolio, xva}
MCMayPanic == {price}
=============================================================================
