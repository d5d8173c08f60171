------------------------------ MODULE Calibration ------------------------------
(***************************************************************************)
(* Calibration of the two speeds (of the speed and the level) of a short   *)
(* rate model to a curve (curve.rs, calibration.rs): the damped            *)
(* Gauss-Newton loop.  How a candidate is computed from the Jacobian and   *)
(* the damping factor is left out: it is any point, or there is none when  *)
(* the damped system is singular.  A sum of squares stands for the root    *)
(* mean square.  A fit record is the local state of the loop.              *)
(***************************************************************************)
EXTENDS SwapExposure

CONSTANTS Coordinates,        \* the values an optimised coordinate can take
          MaxIterations, MaxDampingTries, Tolerance

ASSUME LimitsTyped == MaxIterations \in Nat

-----------------------------------------------------------------------------
(* The market: a curve has pillars and zero_rates.                         *)

\* The asserts of Curve::new.
CurveAborts(curve) ==
    \/ Len(curve.pillars) # Len(curve.zero_rates)
    \/ curve.pillars = <<>>
    \/ \E i \in 1 .. Len(curve.pillars) - 1 : curve.pillars[i + 1] <= curve.pillars[i]

\* zero_rate: linear between pillars, flat outside of them.
ZeroRate(curve, t) ==
    LET pillars == curve.pillars
        i == Max({Cardinality({k \in DOMAIN pillars : pillars[k] <= t}), 1})
        w == PlainLift(t - pillars[i]) // PlainLift(pillars[i + 1] - pillars[i])
    IN  IF t <= Head(pillars) THEN Head(curve.zero_rates)
        ELSE IF t >= Last(pillars) THEN Last(curve.zero_rates)
        ELSE curve.zero_rates[i] ++ (w ** (curve.zero_rates[i + 1] -- curve.zero_rates[i]))

DiscountFactor(curve, t) == ExpOf[PlainLift(-ZeroRate(curve, t)) ** PlainLift(t)]

\* synthetic_from_hull_white and its two-factor version: the curve a model would have produced.
SyntheticCurve(m, pillars) ==
    LET Price(t) == Plain!ZeroCouponBond(m, InitialState(m), 0, t)
    IN  [pillars |-> pillars,
         zero_rates |-> [k \in DOMAIN pillars |->
                            IF pillars[k] > 0 THEN PlainLift(-LogOf[Price(pillars[k])]) // pillars[k]
                                              ELSE 0]]

-----------------------------------------------------------------------------
(* What is optimised: a and b, each through its logarithm when it has to   *)
(* stay positive.  With one factor b is a level and is left as it is.      *)

GuessAborts(m) == m.a <= 0 \/ (m.kind = "2F" /\ m.b <= 0)

InitialPoint(m) == <<LogOf[m.a], IF m.kind = "1F" THEN m.b ELSE LogOf[m.b]>>

Calibrated(m, p) == [m EXCEPT !.a = ExpOf[p[1]], !.b = IF m.kind = "1F" THEN p[2] ELSE ExpOf[p[2]]]

\* discount_factors, discount_factors_2f and the residuals against the market, as plain numbers
SquaredError(m, state, curve) ==
    LET Residual(t) == Plain!ZeroCouponBond(m, state, 0, t) -- DiscountFactor(curve, t)
    IN  FoldLeft(LAMBDA sum, t : sum + Residual(t) * Residual(t), 0, curve.pillars)

Cost(m, curve, p) == SquaredError(Calibrated(m, p), InitialState(m), curve)

-----------------------------------------------------------------------------
(* levenberg_marquardt_2p                                                  *)

Fit(p, cost, iterations, tries, phase) ==
    [p |-> p, cost |-> cost, iterations |-> iterations, tries |-> tries, phase |-> phase]

NoFit == Fit(<<>>, 0, 0, 0, "none")

Converged(fit) == fit.cost < Tolerance

FitStarted(m, curve) == Fit(InitialPoint(m), Cost(m, curve, InitialPoint(m)), 0, 0, "loop")

\* The head of the while loop.
FitIterates(fit) ==
    IF ~Converged(fit) /\ fit.iterations < MaxIterations
    THEN Fit(fit.p, fit.cost, fit.iterations + 1, 0, "damping")
    ELSE Fit(fit.p, fit.cost, fit.iterations, 0, "done")

\* Mutant: any candidate is as good as the point we have.
FitDamps_AnyCandidate(m, curve, fit, candidate) ==
    IF candidate # <<>>
    THEN Fit(candidate, Cost(m, curve, candidate), fit.iterations, 0, "loop")
    ELSE fit

\* One damping try with a candidate point, <<>> when the system is singular.
FitDamps(m, curve, fit, candidate) ==
    IF candidate # <<>> /\ Cost(m, curve, candidate) < fit.cost
    THEN Fit(candidate, Cost(m, curve, candidate), fit.iterations, 0, "loop")
    ELSE Fit(fit.p, fit.cost, fit.iterations, fit.tries + 1,
             IF fit.tries + 1 = MaxDampingTries THEN "done" ELSE "damping")

Candidates == (Coordinates \X Coordinates) \cup {<<>>}

\* Where a fit can stand.
Points(m) == (Candidates \ {<<>>}) \cup {InitialPoint(m)}

\* What is optimised stays a number, and the logarithm of a positive speed gives it back.
CalibrationTyped(m, curve) ==
    /\ {"kind", "a", "b", "r0"} \subseteq DOMAIN m
    /\ m = [p \in DOMAIN m |-> m[p]]
    /\ ~GuessAborts(m) => Calibrated(m, InitialPoint(m)) = m
    /\ ~GuessAborts(m) /\ ~CurveAborts(curve) =>
           \A p \in Points(m) : Cost(m, curve, p) \in Int

\* HullWhiteCalibrationResult, HullWhite2FCalibrationResult
CalibrationResult(m, fit) == [m |-> Calibrated(m, fit.p), cost |-> fit.cost,
                              iterations |-> fit.iterations, converged |-> Converged(fit)]

=============================================================================
