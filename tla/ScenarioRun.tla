---------------------------- MODULE ScenarioRun ----------------------------
(***************************************************************************)
(* run_scenarios_with_control of quant-engine/src/lib.rs: the portfolio of  *)
(* PortfolioPricing is priced once under each scenario, one after the       *)
(* other, with one ExecutionControl for all.  A scenario is its position    *)
(* in the request's list; the market of a call is the request's market with *)
(* the shocks of its scenario on it.                                        *)
(*                                                                          *)
(* The chunks of chunk_size scenarios only nest the loop: nothing happens   *)
(* between two chunks.  The loop is modelled flat.                          *)
(***************************************************************************)
EXTENDS PortfolioPricing

CONSTANTS MaxScenarios,    \* bounds the length of the scenario list
          NoChunkSize      \* the request names no chunk_size

ASSUME RunAssumption == MaxScenarios \in Nat /\ NoChunkSize \notin Nat

VARIABLES count,           \* the number of scenarios in the request
          wanted_chunk,    \* chunk_size of the request
          chunk_size,      \* the one used
          run,             \* where the outer loop is
          position,        \* the scenario at hand
          rows,            \* per finished scenario, its result and market
          run_failures,    \* <<scenario, index>>
          run_chunks

outer == <<count, wanted_chunk, chunk_size, run, position, rows, run_failures,
           run_chunks>>
runVars == <<vars, outer>>

RunStates == {"idle", "looping", "pricing", "Ok", "Cancelled", "InvalidRequest"}

(* What the request asks for is the first two; the rest is local. *)
RunInit == /\ Init
           /\ count \in 0 .. MaxScenarios
           /\ wanted_chunk \in {NoChunkSize, 0, 1}
           /\ chunk_size = 0
           /\ run = "idle"
           /\ position = 0
           /\ rows = <<>>
           /\ run_failures = <<>>
           /\ run_chunks = 0

ChunkSize(wanted) ==
  AtLeastOne(IF wanted = NoChunkSize THEN max_batch_items ELSE wanted)

(* An error of the loop, or of a call in it, is the answer of the run. *)
Abort(why) == /\ run' = why
              /\ UNCHANGED <<count, wanted_chunk, chunk_size, position, rows,
                             run_failures, run_chunks>>

-----------------------------------------------------------------------------

StartRun ==
  /\ run = "idle"
  /\ IF cancelled
     THEN Abort("Cancelled") /\ UNCHANGED vars
     ELSE /\ run' = "looping"
          /\ chunk_size' = ChunkSize(wanted_chunk)
          /\ total_chunks' =
               count * CeilDiv(Len(portfolio), AtLeastOne(max_batch_items))
          /\ UNCHANGED <<request, cancelled, processed_chunks, pc, waiting, plan,
                         books, answer, result, count, wanted_chunk, position,
                         rows, run_failures, run_chunks>>

(* The check at the head of the loop. *)
NextScenario ==
  /\ run = "looping"
  /\ position < count
  /\ IF cancelled
     THEN Abort("Cancelled") /\ UNCHANGED vars
     ELSE /\ run' = "pricing"
          /\ position' = position + 1
          /\ UNCHANGED <<vars, count, wanted_chunk, chunk_size, rows,
                         run_failures, run_chunks>>

\* Mutant: the shocks of the scenarios before are still applied.
ScenarioMarket_Accumulates == Append(market, position)

(* scenario_market shocks a copy of the market of the request. *)
ScenarioMarket == <<position>>

(* The call of price_portfolio_with_control runs. *)
PriceScenario ==
  /\ run = "pricing"
  /\ Begin(ScenarioMarket) \/ Pricing
  /\ UNCHANGED outer

(* The call has returned. *)
CollectRow ==
  /\ run = "pricing"
  /\ pc = "done"
  /\ pc' = "idle"
  /\ answer' = "none"
  /\ UNCHANGED <<request, control, waiting, plan, books, result>>
  /\ IF answer # "Ok"
     THEN Abort(answer)
     ELSE /\ run' = "looping"
          /\ rows' = Append(rows, [scenario |-> position, priced |-> result])
          /\ run_failures' =
               run_failures \o [k \in DOMAIN result.failures |->
                                  <<position, result.failures[k]>>]
          /\ run_chunks' = run_chunks + AtLeastOne(result.chunks)
          /\ UNCHANGED <<count, wanted_chunk, chunk_size, position>>

FinishRun ==
  /\ run = "looping"
  /\ position = count
  /\ run' = "Ok"
  /\ UNCHANGED <<vars, count, wanted_chunk, chunk_size, position, rows,
                 run_failures, run_chunks>>

RunStep == StartRun \/ NextScenario \/ PriceScenario \/ CollectRow \/ FinishRun

RunNext == (Cancel /\ UNCHANGED outer) \/ RunStep

(* The thread that runs the closure is scheduled; kernels return. *)
RunSpec == RunInit /\ [][RunNext]_runVars /\ WF_runVars(RunStep)

-----------------------------------------------------------------------------

(* Every row is the result of its own scenario: the k-th row is the k-th    *)
(* scenario, priced under its shocks alone, and names every trade once,     *)
(* whatever failed in the scenarios before.  The failures at the top level  *)
(* are those of the rows, scenario by scenario in their order.  A run that  *)
(* returns its rows has one for each scenario.                              *)
Earlier(a, b) == a[1] < b[1] \/ (a[1] = b[1] /\ a[2] < b[2])
RowFaithful(k) == /\ rows[k].scenario = k
                  /\ NamesEachTrade(rows[k].priced)
                  /\ PricedIn(<<k>>, rows[k].priced)
RepeatsFailures ==
  /\ ToSet(run_failures) =
       UNION {{k} \X ToSet(rows[k].priced.failures) : k \in DOMAIN rows}
  /\ \A n, m \in DOMAIN run_failures :
       n < m => Earlier(run_failures[n], run_failures[m])
RowsFaithful ==
  /\ \A k \in DOMAIN rows : RowFaithful(k)
  /\ RepeatsFailures
  /\ run = "Ok" => Len(rows) = count

(* The inductive invariant behind the theorem about the run: a call is made *)
(* only while the loop prices, in the market of the scenario at hand.       *)
RunTypeOK == /\ count \in 0 .. MaxScenarios
             /\ wanted_chunk \in Nat \cup {NoChunkSize}
             /\ chunk_size \in Nat
             /\ run \in RunStates
             /\ position \in 0 .. count
             /\ rows \in Seq([scenario : Nat, priced : Results])
             /\ run_failures \in Seq(Nat \X DOMAIN portfolio)
             /\ run_chunks \in Nat
CallsFollow == /\ run # "pricing" => pc = "idle"
               /\ run = "pricing" =>
                    /\ Len(rows) + 1 = position
                    /\ InFlight \/ answer = "Ok" => market = <<position>>
               /\ run \in {"idle", "looping", "Ok"} => Len(rows) = position
               /\ run = "Ok" => position = count
RunIInv == IInv /\ RunTypeOK /\ CallsFollow /\ RowsFaithful

(* A run that has begun ends, cancelled or not. *)
RunEnds == run = "looping" ~> run \in {"Ok", "Cancelled", "InvalidRequest"}

=============================================================================
