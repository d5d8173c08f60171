------------------------------ MODULE IrsInputs ------------------------------
(***************************************************************************)
(* How a swap of a context becomes the arguments of irs_hull_white_npv, in  *)
(* the three places that do it: price_owned (quant-engine/src/lib.rs), the  *)
(* request of the Rust kernel (planner.rs) and the risk graph (risk.rs).    *)
(*                                                                          *)
(* Rates are integers, in hundredths, and notionals in millions.  Among the *)
(* JSON values only NotANumber is none.                                     *)
(***************************************************************************)
EXTENDS QuantContext, Integers

CONSTANTS NotANumber,
          IdOrder,             \* the ids in the order of a BTreeMap
          max_payment_periods  \* EngineConfig

ASSUME InputsAssumption == max_payment_periods \in Nat

(* The values taken for parameters that are not there. *)
Default == [a |-> 10, b |-> 3, sigma |-> 1, r0 |-> 2, notional |-> 1,
            fixed_rate |-> 0, start |-> 0, use_par_rate |-> FALSE]

Parameters(model, market, product, Read(_, _), times, accruals) ==
  [a |-> Read(model, "a"), b |-> Read(model, "b"), sigma |-> Read(model, "sigma"),
   r0 |-> Read(market, "r0"),
   notional |-> Read(product, "notional"), fixed_rate |-> Read(product, "fixed_rate"),
   use_par_rate |-> Read(product, "use_par_rate"), start |-> Read(product, "start"),
   times |-> times, accruals |-> accruals]

(* as_f64 or as_bool, and the default for what is no number. *)
Lenient(params, key) ==
  IF Get(params, key, Absent) \in {Absent, NotANumber} THEN Default[key]
  ELSE params[key]

HasSchedule(params) ==
  /\ {"payment_times", "accruals"} \subseteq DOMAIN params
  /\ NotANumber \notin ToSet(params.payment_times) \cup ToSet(params.accruals)

-----------------------------------------------------------------------------
(* price_owned *)

(* lookup_resource: without a reference, the first entry. *)
First(map) == map[IdOrder[Min({i \in DOMAIN IdOrder : IdOrder[i] \in DOMAIN map})]]
LookupResource(map, reference) ==
  IF reference # Absent THEN Get(map, reference.id, Absent)
  ELSE IF DOMAIN map = {} THEN Absent ELSE First(map)

(* unwrap_params: the content of the tag, where there is one. *)
UnwrapParams(value) == IF value = Null THEN NoEntries ELSE Get(value, "params", value)

(* value_f64 and value_bool refuse what is no number. *)
Mistyped(params, keys) == \E key \in keys : Get(params, key, Absent) = NotANumber

(* The check of the schedule, which only this path makes. *)
ProperSchedule(times, accruals) ==
  /\ times # <<>>
  /\ Len(times) = Len(accruals)
  /\ Len(times) <= max_payment_periods
  /\ \A i \in DOMAIN times : times[i] > 0 /\ accruals[i] > 0
  /\ \A i \in 2 .. Len(times) : times[i] > times[i - 1]

PriceOwned(context, market_ref, model_ref, product_refs) ==
  LET stored == [market  |-> LookupResource(context.resources.market, market_ref),
                 model   |-> LookupResource(context.resources.model, model_ref),
                 product |-> LookupResource(context.resources.product,
                               IF product_refs = <<>> THEN Absent
                               ELSE Head(product_refs))]
      market == UnwrapParams(stored.market)
      model == UnwrapParams(stored.model)
      product == UnwrapParams(stored.product)
      rates == Insert(market, "r0", Get(market, "r0", Lenient(model, "r0")))
  IN  IF \/ Absent \in {stored.market, stored.model, stored.product}
         \/ ~HasSchedule(product)
         \/ ~ProperSchedule(product.payment_times, product.accruals)
         \/ Mistyped(model, {"a", "b", "sigma", "r0"})
         \/ Mistyped(market, {"r0"})
         \/ Mistyped(product, {"notional", "fixed_rate", "use_par_rate", "start"})
      THEN Absent
      ELSE Parameters(model, rates, product, Lenient, product.payment_times,
                      product.accruals)

(* validate_request *)
Valid(ask, max_products) ==
  /\ ask.operation_id # ""
  /\ ask.context.schema = CONTEXT_SCHEMA
  /\ HashAccepted(ask.context)
  /\ Len(ask.products) <= max_products
  /\ ask.measures # <<>>
  /\ \A i \in DOMAIN ask.measures : ask.measures[i] \in {"pv", "present_value"}

-----------------------------------------------------------------------------
(* numeric_input, for the kernel of hull_white_1f and ir_swap. *)

\* Mutant: the kernel's request takes another volatility for a missing one.
NumericInput_Sigma(market, model, product) ==
  LET Read(params, key) == IF key = "sigma" /\ key \notin DOMAIN params THEN 0
                           ELSE Lenient(params, key)
  IN  IF ~HasSchedule(product.params) THEN Absent
      ELSE Parameters(model.params, market.params, product.params, Read,
                      product.params.payment_times, product.params.accruals)

NumericInput(market, model, product) ==
  IF \/ model.variant # "hull_white_1f"
     \/ product.variant # "ir_swap"
     \/ Get(market.params, "r0", Absent) = NotANumber
     \/ ~HasSchedule(product.params)
  THEN Absent
  ELSE Parameters(model.params, market.params, product.params, Lenient,
                  product.params.payment_times, product.params.accruals)

-----------------------------------------------------------------------------
(* irs_inputs of the risk graph. *)

RiskInput(market, model, product) ==
  IF \/ model.variant # "hull_white_1f"
     \/ product.variant # "ir_swap"
     \/ ~HasSchedule(product.params)
     \/ product.params.payment_times = <<>>
     \/ Len(product.params.payment_times) # Len(product.params.accruals)
  THEN Absent
  ELSE Parameters(model.params, market.params, product.params, Lenient,
                  product.params.payment_times, product.params.accruals)

=============================================================================
