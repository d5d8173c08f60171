--------------------------------- MODULE Hedge ---------------------------------
(***************************************************************************)
(* Synthesis of a hedge (payoff/hedge.rs): the target and the instruments  *)
(* are priced on the same simulated paths, and weights are sought that     *)
(* cancel the target on every path.                                        *)
(*                                                                         *)
(* Floating point numbers are integers here, and weights, residuals and    *)
(* notionals are integers in units of 1/Unit: quotients are rounded        *)
(* towards zero.  Universes of one or two instruments; the Cholesky factor *)
(* of their normal matrix is replaced by its pivots and Cramer's rule.     *)
(* The lognormal model is replaced by a walk that depends on the same      *)
(* parameters, and a payoff pays once, an amount that depends on the spot  *)
(* of its date.                                                            *)
(***************************************************************************)
EXTENDS Integers, Sequences, FiniteSets, SequencesExt, FiniteSetsExt

CONSTANTS Unit,              \* the resolution of a weight
          DiscountUnit,      \* what one unit of money is worth today
          MaxDescents,       \* the iterations of the projected gradient
          WalkShock(_, _)    \* the shock of a draw on a path: -1, 0 or 1

LOCAL Total(f) == FoldLeft(LAMBDA sum, x : sum + x, 0, f)
LOCAL Magnitude(x) == IF x < 0 THEN -x ELSE x
LOCAL Quotient(x, y) == IF x < 0 THEN -((-x) \div y) ELSE x \div y
LOCAL Inner(u, v) == Total([i \in DOMAIN u |-> u[i] * v[i]])

-----------------------------------------------------------------------------
(* The request: h has target and instruments (payoffs), observable,        *)
(* prices, lower, upper, max_gross, ridge, s0, r, q, sigma, n_paths, seed  *)
(* and greeks.                                                             *)

\* The options of the bridge: an empty list or a negative limit is no option.
HasPrices(h) == h.prices # <<>>
HasBounds(h) == h.lower # <<>> \/ h.upper # <<>>
HasMaxGross(h) == h.max_gross >= 0

\* synthesize_hedge_gbm_q before anything is simulated; the bridge refuses unequal bounds.
HedgeRefused(h) ==
    \/ Len(h.lower) # Len(h.upper)
    \/ h.instruments = <<>>
    \/ h.n_paths = 0
    \/ \E payoff \in {h.target} \cup Range(h.instruments) : payoff.observable # h.observable

Payoffs(h) == <<h.target>> \o h.instruments

\* The union of the required times, each once.
SimulationTimes(h) == SetToSortSeq({payoff.time : payoff \in Range(Payoffs(h))}, <)

\* The checks of solve_hedge_with_constraints and of the solver it calls.
ConstraintsRefused(h) ==
    \/ HasPrices(h) /\ Len(h.prices) # Len(h.instruments)
    \/ HasBounds(h) /\ Len(h.lower) # Len(h.instruments)
    \/ HasBounds(h) /\ \E i \in DOMAIN h.lower : h.lower[i] > h.upper[i]
    \/ HasMaxGross(h) /\ ~HasPrices(h)
    \/ h.ridge < 0

-----------------------------------------------------------------------------
(* evaluate_hedge_scenario: one present value per path, of the target and  *)
(* of each instrument.                                                     *)

Spot(h, times, draws, path, t) ==
    LET Elapsed == {k \in DOMAIN times : times[k] <= t}
    IN  h.s0 + (h.r - h.q) * t
             + h.sigma * Total([k \in 1 .. Cardinality(Elapsed) |-> WalkShock(draws[k], path)])

Amount(payoff, spot) ==
    CASE payoff.kind = "forward" -> spot - payoff.strike
      [] payoff.kind = "call" -> Max({spot - payoff.strike, 0})
      [] payoff.kind = "digital" -> IF spot > payoff.strike THEN payoff.strike ELSE 0

HedgeScenario(h, draws) ==
    LET times == SimulationTimes(h)
        Pv(payoff, path) == Amount(payoff, Spot(h, times, draws, path, payoff.time))
                                * (DiscountUnit - h.r * payoff.time)
    IN  [target_pv |-> [path \in 1 .. h.n_paths |-> Pv(h.target, path)],
         design |-> [path \in 1 .. h.n_paths |->
                        [i \in DOMAIN h.instruments |-> Pv(h.instruments[i], path)]]]

-----------------------------------------------------------------------------
(* The solvers: weights w that bring design . w close to a goal.           *)

Column(design, i) == [s \in DOMAIN design |-> design[s][i]]

\* mat_at_a with the ridge on the diagonal, and mat_at_b
NormalMatrix(design, ridge) ==
    [i \in DOMAIN design[1] |-> [j \in DOMAIN design[1] |->
        Inner(Column(design, i), Column(design, j)) + IF i = j THEN ridge ELSE 0]]
NormalVector(design, goal) == [i \in DOMAIN design[1] |-> Inner(Column(design, i), goal)]

\* The pivots cholesky_decompose divides by are positive.
PositiveDefinite(a) ==
    /\ a[1][1] > 0
    /\ Len(a) = 2 => a[1][1] * a[2][2] > a[1][2] * a[1][2]

\* solve_least_squares_normal_equations, once the matrix is positive definite.
NormalEquations(a, b) ==
    IF Len(a) = 1 THEN <<Quotient(Unit * b[1], a[1][1])>>
    ELSE LET det == a[1][1] * a[2][2] - a[1][2] * a[1][2]
         IN  <<Quotient(Unit * (b[1] * a[2][2] - b[2] * a[1][2]), det),
               Quotient(Unit * (b[2] * a[1][1] - b[1] * a[1][2]), det)>>

\* Appending nothing makes TLC evaluate the weights here, and not again wherever they are used.
Clamped(h, w) ==
    [i \in DOMAIN w |-> Min({Max({w[i], Unit * h.lower[i]}), Unit * h.upper[i]})] \o <<>>

\* solve_least_squares_box_constrained: projected gradient from the clamped solution without
\* bounds, or from zero.  A step that moves nothing is the last one.
BoxConstrained(h, design, a, goal) ==
    LET start == IF PositiveDefinite(a) THEN NormalEquations(a, NormalVector(design, goal))
                 ELSE [i \in DOMAIN design[1] |-> 0]
        lipschitz == 2 * (Total([s \in DOMAIN design |-> Inner(design[s], design[s])]) + h.ridge)
        Descended(w) ==
            LET residual == [s \in DOMAIN design |-> Inner(design[s], w) - Unit * goal[s]]
                grad == [i \in DOMAIN w |-> 2 * (Inner(Column(design, i), residual) + h.ridge * w[i])]
            IN  Clamped(h, [i \in DOMAIN w |-> w[i] - Quotient(grad[i], lipschitz)])
    IN  IF lipschitz <= 0 THEN Clamped(h, start)
        ELSE FoldLeft(LAMBDA w, k : Descended(w), Clamped(h, start), [k \in 1 .. MaxDescents |-> k])

-----------------------------------------------------------------------------
(* solve_hedge_with_constraints                                            *)

GrossNotional(h, w) == Total([i \in DOMAIN w |-> Magnitude(w[i]) * h.prices[i]])

WithinBounds(h, w) ==
    HasBounds(h) => \A i \in DOMAIN w : Unit * h.lower[i] <= w[i] /\ w[i] <= Unit * h.upper[i]

\* The weights that bring design . w closest to a goal; none without a Cholesky factor.
LOCAL Closest(h, design, a, goal) ==
    IF HasBounds(h) THEN BoxConstrained(h, design, a, goal)
    ELSE IF PositiveDefinite(a) THEN NormalEquations(a, NormalVector(design, goal))
    ELSE <<>>

\* Mutant: the weights follow the target instead of offsetting it.
LeastSquaresWeights_SameSign(h, scenario) ==
    Closest(h, scenario.design, NormalMatrix(scenario.design, h.ridge), scenario.target_pv)

\* The weights of the least squares problem, before liquidity.
LeastSquaresWeights(h, scenario) ==
    Closest(h, scenario.design, NormalMatrix(scenario.design, h.ridge),
            [s \in DOMAIN scenario.target_pv |-> -scenario.target_pv[s]])

\* All weights are scaled down together when their gross notional exceeds the limit.
Liquid(h, w) ==
    LET gross == GrossNotional(h, w)
        limit == Unit * h.max_gross
    IN  IF HasMaxGross(h) /\ gross > limit /\ gross > 0
        THEN [i \in DOMAIN w |-> Quotient(w[i] * limit, gross)]
        ELSE w

\* No hedge: a constraint is refused, the universe is redundant, or scaling leaves the box.
HedgeFails(h, scenario) ==
    \/ ConstraintsRefused(h)
    \/ LET w == LeastSquaresWeights(h, scenario) IN w = <<>> \/ ~WithinBounds(h, Liquid(h, w))

Hedged(scenario, w) ==
    [s \in DOMAIN scenario.target_pv |-> Unit * scenario.target_pv[s] + Inner(scenario.design[s], w)]

LOCAL Summary(h, w, residuals) ==
    LET n == Len(residuals)
    IN  [weights |-> w,
         residuals |-> residuals,
         residual_mean |-> Total(residuals),
         residual_spread |-> Total([s \in 1 .. n |-> (n * residuals[s] - Total(residuals)) ^ 2]),
         residual_max_abs |-> Max({Magnitude(r) : r \in Range(residuals)}),
         cost |-> IF HasPrices(h) THEN GrossNotional(h, w) ELSE -1]
LOCAL ResultOf(h, scenario, w) == Summary(h, w, Hedged(scenario, w))

\* HedgeResult: the sums stand for the means, cost and gross notional are the same number.
HedgeResult(h, scenario) == ResultOf(h, scenario, Liquid(h, LeastSquaresWeights(h, scenario)))

-----------------------------------------------------------------------------
(* hedge_residual_greeks_on: eight more scenarios, each with one parameter *)
(* moved by one and the same seed, and the weights left as they are.       *)

BumpedParameters == <<"s0", "r", "q", "sigma">>

\* The request of the k-th of the eight scenarios: up, then down, parameter by parameter.
BumpedRequest(h, k) ==
    [h EXCEPT ![BumpedParameters[(k + 1) \div 2]] = IF k % 2 = 1 THEN @ + 1 ELSE @ - 1]

\* portfolio_mean_pv
PortfolioPv(scenario, w) == Total(Hedged(scenario, w))

\* Twice the sensitivities, from the draws of the eight scenarios.
ResidualGreeks(h, w, draws) ==
    LET pv == [k \in 1 .. 8 |-> PortfolioPv(HedgeScenario(BumpedRequest(h, k), draws[k]), w)]
    IN  [i \in 1 .. 4 |-> pv[2 * i - 1] - pv[2 * i]]

=============================================================================
