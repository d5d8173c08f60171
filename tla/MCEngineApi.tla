------------------------------ MODULE MCEngineApi ------------------------------
(***************************************************************************)
(* Instances of EngineApi for TLC: numbers modulo 97, with powers of the   *)
(* primitive root 5 as the exponential.                                    *)
(***************************************************************************)
EXTENDS EngineApi, TLC

CONSTANTS c1, c2

MCCallers == {c1, c2}

Powers[x \in 0 .. 96] == IF x = 0 THEN 1 ELSE (5 * Powers[x - 1]) % 97
MCExpOf == [x \in 0 .. 96 |-> Powers[x]]
MCLogOf == [y \in 0 .. 96 |-> IF y = 0 THEN 0 ELSE CHOOSE x \in 0 .. 95 : MCExpOf[x] = y]
MCRootOf == [x \in 0 .. 96 |-> (x * x * x + 11 * x + 7) % 97]
MCNormal(d, path) == (d * 31 + path * 17 + d * d * path * 5 + 3) % 97
MCWalkShock(d, path) == ((7 * d + 3 * path * path + d * path) % 3) - 1
MCCoordinates == {3, 20, 41, 77}

-----------------------------------------------------------------------------
OneFactor == [kind |-> "1F", a |-> MCExpOf[41], b |-> 20, sigma |-> 11, r0 |-> 4]
TwoFactors == [kind |-> "2F", a |-> MCExpOf[41], b |-> MCExpOf[20], sigma |-> 11, eta |-> 13, r0 |-> 4,
               rho |-> -2]
Markets == {OneFactor, TwoFactors, [OneFactor EXCEPT !.a = 40, !.r0 = 77],
            [TwoFactors EXCEPT !.b = 29, !.rho = 0]}

Swap == [op |-> "valuation", backend |-> "cpu", notional |-> 7, fixed_rate |-> 9, use_par_rate |-> FALSE,
         start |-> 1, payment_times |-> <<2, 3>>, accruals |-> <<1, 1>>,
         notionals |-> <<50, 7>>, fixed_rates |-> <<8, 9>>]
Swaps == {Swap, [Swap EXCEPT !.use_par_rate = TRUE],
          [Swap EXCEPT !.start = 0, !.payment_times = <<1, 3, 4>>, !.accruals = <<1, 2, 1>>]}

Of(q, more) == more @@ q

Valuations == {Of(q, [m |-> m, measure |-> measure]) :
                  q \in Swaps, m \in Markets,
                  measure \in {"npv", "delta_r0", "greeks", "hessian", "npv_batch", "delta_r0_batch"}}
                  \cup {Of(Swap, [m |-> m, measure |-> "bond_delta_r0"]) : m \in {n \in Markets : n.kind = "1F"}}

AbortingValuations ==
    {Of([Swap EXCEPT !.payment_times = <<>>, !.accruals = <<>>], [m |-> OneFactor, measure |-> "npv"]),
     Of([Swap EXCEPT !.notionals = <<50>>], [m |-> OneFactor, measure |-> "npv_batch"])}

-----------------------------------------------------------------------------
Exposure(m, batch, seed) ==
    Of(Swap, [op |-> "exposure", m |-> m, batch |-> batch, seed |-> seed, n_steps |-> 2, n_paths |-> 3,
              hazard_rate |-> 2, recovery_rate |-> 40])
Exposures == {Exposure(OneFactor, FALSE, 1), Exposure(OneFactor, TRUE, 2),
              [Exposure(TwoFactors, FALSE, 3) EXCEPT !.use_par_rate = TRUE],
              [Exposure(TwoFactors, TRUE, 4) EXCEPT !.backend = "tpu"],
              [Exposure(OneFactor, FALSE, 5) EXCEPT !.start = 0, !.use_par_rate = TRUE],
              [Exposure(OneFactor, TRUE, 6) EXCEPT !.start = 0, !.backend = "gpu"],
              [Exposure(TwoFactors, TRUE, 7) EXCEPT !.start = 0, !.payment_times = <<2>>, !.accruals = <<1>>]}
AbortingExposures == {[Exposure(OneFactor, TRUE, 1) EXCEPT !.n_steps = 0],
                      [Exposure(OneFactor, TRUE, 1) EXCEPT !.fixed_rates = <<>>],
                      [Exposure(TwoFactors, FALSE, 1) EXCEPT !.start = 0, !.payment_times = <<0, 1>>]}

Paths(assets, basket, seed) ==
    [op |-> "paths", backend |-> "cpu", basket |-> basket, seed |-> seed, n_steps |-> 2, n_paths |-> 2,
     maturity |-> 2, s0 |-> SubSeq(<<40, 50>>, 1, assets), sigma |-> SubSeq(<<2, 3>>, 1, assets),
     drift |-> SubSeq(<<1, 4>>, 1, assets), correlation |-> IF assets = 1 THEN <<10>> ELSE <<10, 2, 2, 10>>]
AllPaths == {Paths(1, FALSE, 1), [Paths(1, FALSE, 3) EXCEPT !.backend = "gpu"], Paths(2, TRUE, 2),
             [Paths(2, TRUE, 1) EXCEPT !.correlation = <<10, 10, 10, 10>>]}
RefusedPaths == {[Paths(1, FALSE, 1) EXCEPT !.n_paths = 0], [Paths(1, FALSE, 1) EXCEPT !.n_steps = 9],
                 [Paths(2, TRUE, 1) EXCEPT !.correlation = <<10, 2>>],
                 [Paths(2, TRUE, 1) EXCEPT !.s0 = <<>>, !.correlation = <<>>]}

-----------------------------------------------------------------------------
Payoff(kind, strike, time) == [kind |-> kind, strike |-> strike, time |-> time, observable |-> "S"]
HedgeOf(target, instruments) ==
    [op |-> "hedge", backend |-> "cpu", observable |-> "S", target |-> target, instruments |-> instruments,
     prices |-> <<>>, lower |-> <<>>, upper |-> <<>>, max_gross |-> -1, ridge |-> 0,
     s0 |-> 5, r |-> 0, q |-> 0, sigma |-> 2, n_paths |-> 3, seed |-> 1, greeks |-> FALSE]
Targets == {Payoff("call", 4, 1), Payoff("call", 5, 2), Payoff("digital", 3, 2)}
Universes == {<<Payoff("forward", 4, 1)>>, <<Payoff("forward", 3, 2), Payoff("call", 6, 1)>>,
              <<Payoff("forward", 5, 2), Payoff("forward", 5, 2)>>}
Constrained(h) ==
    LET n == Len(h.instruments)
        Each(x) == [i \in 1 .. n |-> x]
    IN  {h, [h EXCEPT !.ridge = 3, !.r = 1, !.prices = Each(2)],
         [h EXCEPT !.prices = Each(2), !.max_gross = 1],
         [h EXCEPT !.lower = Each(-1), !.upper = Each(1)],
         [h EXCEPT !.lower = Each(-2), !.upper = Each(0), !.prices = Each(3), !.max_gross = 1],
         [h EXCEPT !.lower = Each(1), !.upper = Each(2), !.prices = Each(3), !.max_gross = 1],
         [h EXCEPT !.lower = Each(1), !.upper = Each(0)],
         [h EXCEPT !.max_gross = 1],
         [h EXCEPT !.lower = Each(1)]}
Hedges == UNION {Constrained(HedgeOf(t, u)) : t \in Targets, u \in Universes}
             \cup {HedgeOf(Payoff("call", 4, 1), <<>>)}
HedgesWithGreeks == {[HedgeOf(Payoff("call", 4, 1), <<Payoff("forward", 3, 2)>>) EXCEPT !.greeks = TRUE],
                     [HedgeOf(Payoff("call", 4, 1), <<Payoff("forward", 8, 1), Payoff("forward", 8, 1)>>)
                         EXCEPT !.greeks = TRUE]}

-----------------------------------------------------------------------------
Calibration(m, curve) == [op |-> "calibration", backend |-> "cpu", m |-> m, curve |-> curve]
MarketCurve(m) == SyntheticCurve(m, <<1, 2, 4>>)
Guess(m) == [m EXCEPT !.a = MCExpOf[3]]
Calibrations == {Calibration(Guess(m), MarketCurve(m)) : m \in {OneFactor, TwoFactors}}
                    \cup {Calibration(OneFactor, MarketCurve(OneFactor)),
                          Calibration(TwoFactors, [pillars |-> <<2, 3>>, zero_rates |-> <<5, 90>>])}
AbortingCalibrations ==
    {Calibration([OneFactor EXCEPT !.a = 0], MarketCurve(OneFactor)),
     Calibration([TwoFactors EXCEPT !.b = -1], MarketCurve(TwoFactors)),
     Calibration(OneFactor, [pillars |-> <<2, 2>>, zero_rates |-> <<5, 9>>])}

-----------------------------------------------------------------------------
Idle == Paths(1, FALSE, 8)
Pairs(s, t) == {(c1 :> q) @@ (c2 :> p) : q \in s, p \in t}
MCWorkloads ==
    Pairs(Exposures, {Exposure(OneFactor, FALSE, 1), Idle})
        \cup Pairs(AllPaths, AllPaths)
        \cup Pairs(HedgesWithGreeks, {Idle})
        \cup Pairs(Valuations \cup AbortingValuations \cup AbortingExposures \cup RefusedPaths
                      \cup AbortingCalibrations, {[Idle EXCEPT !.n_steps = 1]})
        \cup Pairs(Hedges \cup Calibrations, {Of(Swap, [m |-> OneFactor, measure |-> "npv"])})

=============================================================================
