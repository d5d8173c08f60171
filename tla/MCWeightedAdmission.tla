------------------------- MODULE MCWeightedAdmission -------------------------
(* Five callers on two cpu units and three units of memory: two requests of *)
(* no cpu (raised to one), one for the whole cpu, one that is heavy in      *)
(* memory only, and one that can never fit.                                 *)
EXTENDS WeightedAdmission, TLC

CONSTANTS small, tiny, wide, fat, oversized

MCCallers == {small, tiny, wide, fat, oversized}

MCCpuCost ==
  small :> 0 @@ tiny :> 0 @@ wide :> 2 @@ fat :> 1 @@ oversized :> 3

MCMemoryCost ==
  small :> 1 @@ tiny :> 0 @@ wide :> 1 @@ fat :> 3 @@ oversized :> 1
=============================================================================
