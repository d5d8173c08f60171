---------------------------- MODULE MCScenarioRun ----------------------------
(* Up to MaxScenarios scenarios over every portfolio of at most MaxTrades   *)
(* trades of two products with different layouts.                           *)
EXTENDS ScenarioRun

CONSTANTS swap, option, irs, fx, MaxTrades

MCProducts == {swap, option}
MCLayout == swap :> irs @@ option :> fx
MCPortfolios ==
  UNION {[1 .. n -> MCProducts \cup {NotEmbedded}] : n \in 0 .. MaxTrades}
=============================================================================
