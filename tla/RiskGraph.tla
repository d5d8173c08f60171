------------------------------ MODULE RiskGraph ------------------------------
(***************************************************************************)
(* calculate_risk of quant-engine/src/risk.rs: the dense matrix of measures *)
(* and factors over a portfolio, with base values, AAD tapes and bumps kept *)
(* per product for the whole request.                                       *)
(*                                                                          *)
(* What engine-core computes is given by Npv, and by Greek for its          *)
(* derivatives.  A weight of one is Unit, so a curve bucket of n gets       *)
(* Unit \div n.                                                             *)
(***************************************************************************)
EXTENDS IrsInputs

CONSTANTS Npv(_),              \* irs_hull_white_npv at a fixed coupon
          Greek(_, _),         \* irs_hull_white_npv_all_greeks
          Unit,
          PV01_SCALE,
          DEFAULT_BUMP

RiskErrors == {"InvalidRequest", "Domain", "Incompatible", "UnsupportedMeasure"}
Methods == {"aad", "bump_and_revalue", "mixed", "base_valuation"}

ASSUME RiskAssumption == /\ Unit \in Nat \ {0}
                         /\ DEFAULT_BUMP \in Nat \ {0}
                         /\ Absent \notin RiskErrors \cup Methods

-----------------------------------------------------------------------------
(* Measures and factors. *)

ExpandMeasures(measures) ==
  LET source == IF measures = <<>> THEN <<"all_greeks">> ELSE measures
  IN  FlattenSeq([i \in DOMAIN source |->
        IF source[i] = "all_greeks" THEN <<"pv01", "delta", "rho", "vega">>
        ELSE <<source[i]>>])

Parameter(name) == [kind |-> "model", name |-> name]

(* The factors of one row; Absent is the one of the value itself. *)
FactorsFor(measure, requested) ==
  IF measure = "pv" THEN <<Absent>>
  ELSE IF requested # <<>> THEN requested
  ELSE <<Parameter(IF measure = "vega" THEN "sigma" ELSE "r0")>>

OfCurve(factor) == factor.kind \in {"bucket", "pillar"}

(* A pillar is a bucket under another name. *)
Key(factor) ==
  IF factor = Absent THEN <<"none">>
  ELSE IF OfCurve(factor) THEN <<"curve", factor.name, "bucket", factor.bucket>>
  ELSE <<factor.kind, factor.name>>

(* The parameter that a factor moves; curves move the short rate. *)
Target(factor) ==
  IF factor.kind \in {"parallel", "bucket", "pillar"} THEN "r0"
  ELSE IF factor.kind # "model" THEN "unsupported"
  ELSE IF factor.name \in {"r0", "rate", "spot", "discount_rate"} THEN "r0"
  ELSE IF factor.name \in {"a", "b"} THEN factor.name
  ELSE IF factor.name \in {"sigma", "vol", "volatility"} THEN "sigma"
  ELSE "unsupported"

Indexed(index, key) == IF key \in ToSet(index) THEN index ELSE Append(index, key)

FactorIndex(rows) ==
  LET keys == [i \in DOMAIN rows |-> [k \in DOMAIN rows[i] |-> Key(rows[i][k])]]
  IN  FoldLeft(Indexed, <<>>, FlattenSeq(keys))

(* The share of a product in a bucket of the curve. *)
BucketWeight(input, factor) ==
  IF ~OfCurve(factor) THEN Unit
  ELSE IF factor.bucket < Len(input.times) THEN Unit \div Len(input.times)
  ELSE 0

-----------------------------------------------------------------------------
(* The value of one product, and its derivatives.                           *)

At(input, coupon) == [input EXCEPT !.fixed_rate = coupon, !.use_par_rate = FALSE]

(* fixed_coupon: the par rate at the base point, or Absent for no annuity.  *)
FixedCoupon(input) ==
  LET zero == Npv(At(input, 0))
      annuity == zero - Npv(At(input, 1))
  IN  IF ~input.use_par_rate THEN input.fixed_rate
      ELSE IF annuity = 0 THEN Absent
      ELSE zero \div annuity

(* bump_value, for a supported target. *)
BumpValue(base, input, target, h, scheme) ==
  LET Shifted(by) == Npv([input EXCEPT ![target] = @ + by])
  IN  IF scheme = "one_sided" THEN (Shifted(h) - base) \div h
      ELSE (Shifted(h) - Shifted(-h)) \div (2 * h)

(* When aad_value_for has an answer. *)
HasTape(factor, scheme) ==
  /\ scheme = "central"
  /\ Target(factor) # "unsupported"
  /\ ~OfCurve(factor)

-----------------------------------------------------------------------------
(* The graph: what is kept, and what was done for it.                       *)

EmptyGraph == [base |-> NoEntries, tapes |-> {}, bumps |-> NoEntries,
               valuation_calls |-> 0, aad_passes |-> 0,
               values |-> <<>>, methods |-> NoEntries, error |-> Absent]

WithError(graph, why) == [graph EXCEPT !.error = why]

(* The pass over the trades; a trade is its product, input and quantity. *)
BaseValue(graph, trade) ==
  IF graph.error # Absent THEN graph
  ELSE IF trade.input = Absent THEN WithError(graph, "InvalidRequest")
  ELSE IF FixedCoupon(trade.input) = Absent THEN WithError(graph, "InvalidRequest")
  ELSE IF trade.product \in DOMAIN graph.base THEN graph
  ELSE [graph EXCEPT
          !.valuation_calls = @ + 1,
          !.base = Insert(@, trade.product,
                          Npv(At(trade.input, FixedCoupon(trade.input))))]

Tape(graph, product) ==
  IF product \in graph.tapes THEN graph
  ELSE [graph EXCEPT !.tapes = @ \cup {product}, !.aad_passes = @ + 1]

\* Mutant: the key of a bump leaves the factor out.
BumpKey_Product(product, factor) == <<product>>

(* Scheme and size are the same for the whole request. *)
BumpKey(product, factor) == <<product, Key(factor)>>

Bump(graph, trade, factor, h, scheme) ==
  LET key == BumpKey(trade.product, factor)
      point == At(trade.input, FixedCoupon(trade.input))
  IN  IF key \in DOMAIN graph.bumps THEN graph
      ELSE IF Target(factor) = "unsupported"
      THEN WithError(graph, "UnsupportedMeasure")
      ELSE [graph EXCEPT
              !.valuation_calls = @ + IF scheme = "central" THEN 2 ELSE 1,
              !.bumps = Insert(@, key, BumpValue(graph.base[trade.product], point,
                                                 Target(factor), h, scheme))]

(* One trade in one cell: the total so far, and whether it was bumped. *)
AddTrade(cell, trade, factor, h, scheme) ==
  LET tape == HasTape(factor, scheme)
      graph == IF tape THEN Tape(cell.graph, trade.product)
               ELSE Bump(cell.graph, trade, factor, h, scheme)
      derivative ==
        IF tape THEN Greek(At(trade.input, FixedCoupon(trade.input)), Target(factor))
        ELSE graph.bumps[BumpKey(trade.product, factor)]
  IN  IF cell.graph.error # Absent THEN cell
      ELSE IF graph.error # Absent THEN [cell EXCEPT !.graph = graph]
      ELSE [graph |-> graph,
            bumped |-> cell.bumped \/ ~tape,
            total |-> cell.total
                        + derivative * trade.quantity * BucketWeight(trade.input, factor)]

\* Mutant: the method of a measure is that of its first cell.
Method_First(known, bumped) ==
  IF known # Absent THEN known ELSE IF bumped THEN "bump_and_revalue" ELSE "aad"

(* The method of a measure, cell by cell. *)
Method(known, bumped) ==
  IF known = Absent THEN IF bumped THEN "bump_and_revalue" ELSE "aad"
  ELSE IF bumped /\ known = "aad" THEN "mixed"
  ELSE known

Cell(row, column) == <<row, column>>

(* One measure and one of its factors. *)
AddCell(graph, row, measure, factor, index, trades, h, scheme) ==
  LET Add1(cell, trade) == AddTrade(cell, trade, factor, h, scheme)
      cell == FoldLeft(Add1, [graph |-> graph, bumped |-> FALSE, total |-> 0], trades)
      column == CHOOSE k \in DOMAIN index : index[k] = Key(factor)
      value == IF measure = "pv01" THEN cell.total * PV01_SCALE ELSE cell.total
  IN  IF graph.error # Absent THEN graph
      ELSE IF cell.graph.error # Absent THEN cell.graph
      ELSE [cell.graph EXCEPT
              !.values = Insert(@, Cell(row, column), value),
              !.methods = Insert(@, measure,
                                 Method(Get(@, measure, Absent), cell.bumped))]

AddValue(graph, row, index, total) ==
  LET column == CHOOSE k \in DOMAIN index : index[k] = <<"none">>
  IN  IF graph.error # Absent THEN graph
      ELSE [graph EXCEPT
              !.values = Insert(@, Cell(row, column), total * Unit),
              !.methods = Insert(@, "pv", "base_valuation")]

-----------------------------------------------------------------------------
(* calculate_risk. *)

(* A reference without a hash is taken as it is. *)
Compatible(reference, handle) ==
  reference.hash = Absent \/ reference.hash = handle.hash

TradesOf(portfolio, model, market) ==
  [k \in DOMAIN portfolio |->
     [product  |-> portfolio[k].product,
      quantity |-> portfolio[k].quantity,
      input    |-> IF portfolio[k].product = Absent THEN Absent
                   ELSE RiskInput(market.spec, model.spec, portfolio[k].product)]]

BumpSize(ask) == IF ask.bump_size = Absent THEN DEFAULT_BUMP ELSE ask.bump_size

Rows(ask) == LET measures == ExpandMeasures(ask.measures)
             IN  [i \in DOMAIN measures |-> FactorsFor(measures[i], ask.factors)]

(* The cells that are computed, row by row; the others of the matrix are 0. *)
Cells(rows) ==
  FlattenSeq([i \in DOMAIN rows |->
    [k \in DOMAIN rows[i] |-> [row |-> i, factor |-> rows[i][k]]]])

FillCell(graph, at, ask, trades, total) ==
  LET index == FactorIndex(Rows(ask))
  IN  IF at.factor = Absent THEN AddValue(graph, at.row, index, total)
      ELSE AddCell(graph, at.row, ExpandMeasures(ask.measures)[at.row], at.factor, index,
                   trades, BumpSize(ask), ask.bump_scheme)

Sensitivities(ask, trades) ==
  LET measures == ExpandMeasures(ask.measures)
      index == FactorIndex(Rows(ask))
      based == FoldLeft(BaseValue, EmptyGraph, trades)
      total == FoldLeft(LAMBDA sum, t : sum + based.base[t.product] * t.quantity,
                        0, trades)
      done == FoldLeft(LAMBDA graph, at : FillCell(graph, at, ask, trades, total),
                       based, Cells(Rows(ask)))
      Entry(i, k) == Get(done.values, Cell(i, k), 0)
  IN  IF done.error # Absent THEN [error |-> done.error]
      ELSE [error |-> Absent, measures |-> measures, index |-> index,
            values |-> [i \in DOMAIN measures |-> [k \in DOMAIN index |-> Entry(i, k)]],
            methods |-> done.methods,
            valuation_calls |-> done.valuation_calls,
            aad_passes |-> done.aad_passes]

CalculateRisk(ask) ==
  LET portfolio == Portfolio(ask.context, ask.portfolio_id)
      market == MarketHandle(ask.context, ask.market.id)
      model == ModelHandle(ask.context, ask.model.id)
  IN  IF ask.operation_id = "" \/ ~HashAccepted(ask.context)
      THEN [error |-> "InvalidRequest"]
      ELSE IF Absent \in {portfolio, market, model} THEN [error |-> "Domain"]
      ELSE IF ~Compatible(ask.market, market) \/ ~Compatible(ask.model, model)
      THEN [error |-> "Incompatible"]
      ELSE Sensitivities(ask, TradesOf(portfolio, model, market))

=============================================================================
