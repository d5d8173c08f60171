------------------------------ MODULE PayoffDual ------------------------------
(***************************************************************************)
(* Pathwise sensitivities: the compiled program evaluated on dual numbers,  *)
(* a value with its derivative in one parameter of the model (dual.rs,      *)
(* sensitivity.rs).  It is a second interpreter next to that of eval.rs.    *)
(* What the path decides, the events and the branch of an "if", is decided  *)
(* on the plain path and stays as it is.                                    *)
(***************************************************************************)
EXTENDS PayoffProgram

CONSTANT Brownian(_, _)      \* w - sigma t, recovered from the value at t

Dual(re, deriv) == [re |-> re, deriv |-> deriv]
Constant(x) == Dual(x, 0)

DualAdd(a, b) == Dual(a.re + b.re, a.deriv + b.deriv)
DualNeg(a) == Dual(-a.re, -a.deriv)
DualMul(a, b) == Dual(a.re * b.re, a.deriv * b.re + a.re * b.deriv)
DualDiv(a, b) ==
  Dual(a.re \div b.re, (a.deriv * b.re - a.re * b.deriv) \div (b.re * b.re))

(* min and max take the derivative of the one that they take. *)
DualMin(a, b) == IF a.re <= b.re THEN a ELSE b
DualMax(a, b) == IF a.re >= b.re THEN a ELSE b

DualArithmetical(f, x) ==
  CASE f = "add" -> DualAdd(x[1], x[2])
    [] f = "sub" -> DualAdd(x[1], DualNeg(x[2]))
    [] f = "mul" -> DualMul(x[1], x[2])
    [] f = "div" -> IF x[2].re = 0 THEN Panic ELSE DualDiv(x[1], x[2])
    [] f = "min" -> DualMin(x[1], x[2])
    [] f = "max" -> DualMax(x[1], x[2])
    [] f = "neg" -> DualNeg(x[1])
    [] f = "abs" -> IF x[1].re >= 0 THEN x[1] ELSE DualNeg(x[1])
    [] f = "clamp" -> DualMin(DualMax(x[1], x[2]), x[3])

(* GbmGreek and GbmPGreek *)
Parameters(under) == IF under = "Q" THEN {"spot", "rate", "dividend_yield", "volatility"}
                     ELSE {"spot", "mu", "volatility"}

(* GbmDualPath: on a given realization of the Brownian motion, S_t is       *)
(* s0 exp((r - q - sigma^2 / 2) t + sigma w), so that its derivative is S_t *)
(* times this; that in the spot is in units of 1 / s0.                      *)
Growth(greek, t, x) == CASE greek = "spot" -> 1
                         [] greek \in {"rate", "mu"} -> t
                         [] greek = "dividend_yield" -> -t
                         [] greek = "volatility" -> Brownian(t, x)
DualPath(path, greek) ==
  [o \in DOMAIN path |->
     [t \in DOMAIN path[o] |->
        Dual(path[o][t], path[o][t] * Growth(greek, t, path[o][t]))]]

DualExtremum(type, fixings, times) ==
  LET values == [k \in 1 .. Cardinality(times) |-> fixings[SetToSortSeq(times, <)[k]]]
  IN  IF values = <<>> THEN Panic
      ELSE IF type = "running_min" THEN FoldLeft(DualMin, Head(values), Tail(values))
      ELSE FoldLeft(DualMax, Head(values), Tail(values))

\* Mutant: the captured number is a constant.
EventValueDual_Frozen(fixings, state) ==
  IF state.occurred THEN Constant(fixings[state.first_hit_time].re) ELSE Panic

(* event_value reads the path again, where the event was hit. *)
EventValueDual(fixings, state) ==
  IF state.occurred THEN fixings[state.first_hit_time] ELSE Panic

RECURSIVE DualScalar(_, _, _, _, _)
DualScalar(compiled, idx, cursor, duals, events) ==
  LET op == compiled.scalars[idx]
      kids == [k \in DOMAIN op.kids |->
                 DualScalar(compiled, op.kids[k], cursor, duals, events)]
      fixings == Fixings(op, duals)
      Weighted(sum, k) ==
        DualAdd(sum, DualMul(Constant(op.weights[k]), fixings[op.schedule[k]]))
  IN  CASE op.type = "constant" -> Constant(op.value)
        [] op.type = "fixing" -> fixings[op.time]
        [] op.type = "current" -> IF cursor = None THEN Panic ELSE fixings[cursor]
        [] op.type = "average" -> FoldLeftDomain(Weighted, Constant(0), op.schedule)
        [] op.type \in Running ->
             IF cursor = None THEN Panic
             ELSE DualExtremum(op.type, fixings,
                               {t \in RequiredTimes(compiled) : t <= cursor})
        [] op.type = "event_value" -> EventValueDual(fixings, StateOf(op, events))
        [] OTHER -> IF Panic \in ToSet(kids) THEN Panic ELSE DualArithmetical(op.type, kids)

DualTimes(factor, ledger) ==
  [k \in DOMAIN ledger |-> IF ledger[k] = Panic THEN Panic
                           ELSE [ledger[k] EXCEPT !.amount = DualMul(@, factor)]]

(* market has the dual path and the plain one. *)
RECURSIVE DualContract(_, _, _, _, _)
DualContract(compiled, idx, cursor, market, events) ==
  LET op == compiled.contracts[idx]
      state == StateOf(op, events)
      Child(k, at) == DualContract(compiled, op.kids[k], at, market, events)
      Amount(at) == DualScalar(compiled, op.kids[1], at, market.duals, events)
      Flow(at) == IF at = None THEN Spoiled
                  ELSE IF Amount(at) = Panic THEN Spoiled
                  ELSE <<[time |-> at, amount |-> Amount(at)]>>
      Holds == EvalPredicate(compiled, op.kids[1], cursor, market.plain, events)
  IN  CASE op.type = "zero" -> <<>>
        [] op.type = "cashflow" -> Flow(cursor)
        [] op.type = "give" -> DualTimes(Constant(-1), Child(1, cursor))
        [] op.type = "both" -> FlattenSeq([k \in DOMAIN op.kids |-> Child(k, cursor)])
        [] op.type = "scale" -> IF Amount(cursor) = Panic THEN Spoiled
                                ELSE DualTimes(Amount(cursor), Child(2, cursor))
        [] op.type = "if" -> IF Holds = Panic THEN Spoiled
                             ELSE Child(IF Holds THEN 2 ELSE 3, cursor)
        [] op.type = "when" -> Child(1, op.time)
        [] op.type = "trigger" ->
             IF ~state.occurred THEN Child(3, cursor)
             ELSE Child(2, IF op.settlement = "at_hit" THEN state.first_hit_time
                           ELSE cursor)
        [] op.type = "exercise" ->
             IF state.occurred THEN Flow(state.first_hit_time) ELSE Child(2, cursor)

(* evaluate_dual *)
EvaluateDual(compiled, path, greek, events) ==
  DualContract(compiled, compiled.root, None,
               [duals |-> DualPath(path, greek), plain |-> path], events)

-----------------------------------------------------------------------------
(* What is computed from the ledgers of a payoff's paths (payoff/api.rs,    *)
(* payoff/api_p.rs, payoff/lrm.rs).  The rate is zero, so that a discount   *)
(* factor is one and what is left of it is its derivative, minus the time.  *)
(* Sums stand for means, and the weights of the likelihood ratio are one.   *)

Sum(numbers) == FoldLeft(LAMBDA sum, x : sum + x, 0, numbers)
Ascending(numbers) == SortSeq(numbers, <)

PresentValue(ledger) == Sum([k \in DOMAIN ledger |-> ledger[k].amount])

(* The derivative of the discounted amounts: rho counts the factor too. *)
PresentDerivative(ledger, greek) ==
  Sum([k \in DOMAIN ledger |->
         ledger[k].amount.deriv
           - IF greek = "rate" THEN ledger[k].time * ledger[k].amount.re ELSE 0])

(* Cross derivatives by likelihood ratio are those of spot and volatility. *)
CrossPair == {<<"spot", "volatility">>, <<"volatility", "spot">>}

(* lrm::single_terminal_time *)
SingleTerminal(compiled) == Cardinality(RequiredTimes(compiled)) = 1

\* Mutant: what is paid at t is not exposed at t.
Remaining_After(ledger, t) ==
  Sum([k \in DOMAIN ledger |-> IF ledger[k].time > t THEN ledger[k].amount ELSE 0])

(* What the path still pays from t on. *)
Remaining(ledger, t) ==
  Sum([k \in DOMAIN ledger |-> IF ledger[k].time >= t THEN ledger[k].amount ELSE 0])

(* payoff_exposure_profile_gbm_q: per date, the exposures of the paths, the *)
(* sum of them, and the 95th percentile.                                    *)
ExposureProfile(ledgers, times) ==
  LET At(t) == [i \in DOMAIN ledgers |-> Max({Remaining(ledgers[i], t), 0})]
      Rank95 == (95 * Len(ledgers) + 99) \div 100
  IN  [k \in DOMAIN times |->
         [exposures |-> At(times[k]), ee |-> Sum(At(times[k])),
          pfe_95 |-> Ascending(At(times[k]))[Rank95]]]

(* The number of the worst outcomes: (1 - confidence) n rounded up, one     *)
(* more where the product is whole and its floating point value is above.   *)
TailLengths(n, confidence) ==
  LET share == (100 - confidence) * n
      exact == (share + 99) \div 100
      above == IF share % 100 = 0 THEN {exact + 1} ELSE {}
  IN  {Min({Max({len, 1}), n}) : len \in {exact} \cup above}

(* pnl_distribution_gbm_p, as losses. *)
PnlDistribution(outcomes, tail) ==
  LET worst == SubSeq(Ascending(outcomes), 1, tail)
  IN  [mean |-> Sum(outcomes), var |-> -Last(worst), es |-> -Sum(worst), tail |-> tail]

=============================================================================
