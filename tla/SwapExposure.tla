------------------------------ MODULE SwapExposure ------------------------------
(***************************************************************************)
(* Exposure profiles of a swap by simulation (exposure.rs, the simulations *)
(* of models/ and kernel.rs, the schedule of products/irs.rs), and the     *)
(* simulated paths handed out for inspection (the end of api.rs).          *)
(*                                                                         *)
(* A tensor over paths is a sequence with one entry per path, or a single  *)
(* entry that is broadcast.  What is drawn from the generator is a         *)
(* sequence of draws; Normal(draw, path) is the shock a draw gives a path. *)
(* Numbers are those of HullWhiteDual; their order, which decides          *)
(* positive parts and quantiles, is the order of the representatives, one  *)
(* total order among others.  Times are whole years; the tolerance in      *)
(* their comparison is left out.                                           *)
(***************************************************************************)
EXTENDS HullWhiteDual, FiniteSets, SequencesExt, FiniteSetsExt

CONSTANTS RootOf,         \* the square root, a function on the numbers
          LogOf,          \* the logarithm, a function on the numbers
          Normal(_, _)    \* the shock of a draw on a path

PositivePart(x) == IF 2 * x < Prime THEN x ELSE 0

-----------------------------------------------------------------------------
(* The schedule of a swap.                                                 *)

\* C++ measure.cpp reset_dates: what every exposure is monitored on.
ResetDates(q) == <<q.start>> \o Front(q.payment_times)

\* IrSwap::is_reset_date
IsResetDate(q, t) == t = q.start \/ t \in Range(Front(q.payment_times))

\* IrSwap::remaining_from: the periods that begin at t or later.
RemainingFrom(swap, t) ==
    LET Begins(i) == IF i = 1 THEN swap.start ELSE swap.payment_times[i - 1]
        kept == SetToSortSeq({i \in DOMAIN swap.payment_times : Begins(i) >= t}, <)
    IN  [swap EXCEPT !.start = t,
                     !.payment_times = [k \in DOMAIN kept |-> swap.payment_times[kept[k]]],
                     !.accruals = [k \in DOMAIN kept |-> swap.accruals[kept[k]]]]

-----------------------------------------------------------------------------
(* Simulation of the short rate, one trajectory per path.                  *)

EulerStep(x, drift, diffusion, dt, shock) ==
    (x ++ (drift ** dt)) ++ (diffusion ** (shock ** RootOf[dt]))

\* HullWhite1F::simulate_path
Trajectory1F(m, dt, draws, path) ==
    FoldLeft(LAMBDA rs, d : Append(rs, <<EulerStep(Last(rs)[1], m.a ** (m.b -- Last(rs)[1]), m.sigma, dt,
                                                   Normal(d, path))>>),
             << <<m.r0>> >>, draws)

\* HullWhite2F::simulate_path; all draws of the first factor come before those of the second.
Trajectory2F(m, dt, draws, path) ==
    LET n == Len(draws) \div 2
        rho == PlainLift(m.rho)
        Step(xy, i) ==
            LET zx == Normal(draws[i], path)
                zy == (Normal(draws[n + i], path) ** RootOf[1 -- (rho ** rho)]) ++ (zx ** rho)
            IN  <<EulerStep(xy[1], PlainLift(-m.a) ** xy[1], m.sigma, dt, zx),
                  EulerStep(xy[2], PlainLift(-m.b) ** xy[2], m.eta, dt, zy)>>
    IN  FoldLeft(LAMBDA xys, i : Append(xys, Step(Last(xys), i)), << <<0, 0>> >>, [i \in 1 .. n |-> i])

\* The tensor of states at a grid index: the initial rate of one factor is not broadcast.
States1F(m, dt, draws, index, n_paths) ==
    [p \in 1 .. (IF index = 0 THEN 1 ELSE n_paths) |-> Trajectory1F(m, dt, draws, p)[index + 1]]
States2F(m, dt, draws, index, n_paths) ==
    [p \in 1 .. n_paths |-> Trajectory2F(m, dt, draws, p)[index + 1]]

-----------------------------------------------------------------------------
(* Exposure profiles.  A request q has the market m, a swap (or, in a      *)
(* batch, notionals and fixed rates over one schedule), the grid and the   *)
(* seed.                                                                   *)

Horizon(q) == Max(Range(ResetDates(q)))

\* The draws a profile takes: none at all when every date is today.
ExposureDraws(q) ==
    IF Horizon(q) <= 0 THEN 0 ELSE IF q.m.kind = "1F" THEN q.n_steps ELSE 2 * q.n_steps

\* The asserts at the head of expected_exposure_profile and its variants, and what the
\* schedule functions index or unwrap without a check.
ExposureAborts(q) ==
    \/ q.payment_times = <<>>
    \/ q.n_steps < 1
    \/ \E t \in Range(ResetDates(q)) : ~IsResetDate(q, t)

\* (t / dt).round(), in whole numbers
GridIndex(q, t) == (2 * t * q.n_steps + Horizon(q)) \div (2 * Horizon(q))

\* ee_pfe: the mean and the 95 % quantile
EePfe(exposures) ==
    LET n == Len(exposures)
        rank == Min({Max({(19 * n + 19) \div 20, 1}), n})
    IN  <<FoldLeft(LAMBDA x, y : x ++ y, 0, exposures) // PlainLift(n), SortSeq(exposures, <)[rank]>>

StepLength(q) == PlainLift(Horizon(q)) // PlainLift(q.n_steps)

\* The positive parts of a swap's values over the states of a date.
ExposuresOn(q, t, states) ==
    [p \in DOMAIN states |->
        PositivePart(Plain!Npv(RemainingFrom(BuildSwap(q.m, q), t), states[p], t, q.m))]

\* A profile has the mean and the quantile of every date in at.
ProfileOf(times, at) ==
    [times |-> times, ee |-> [k \in DOMAIN at |-> at[k][1]], pfe_95 |-> [k \in DOMAIN at |-> at[k][2]]]

\* Today's exposure alone, or every date.
Profile(q, StatesOn(_)) ==
    LET times == ResetDates(q)
    IN  ProfileOf(times,
                  IF Horizon(q) <= 0
                  THEN << EePfe(ExposuresOn(q, times[1], <<InitialState(q.m)>>)) >>
                  ELSE [k \in DOMAIN times |-> EePfe(ExposuresOn(q, times[k], StatesOn(times[k])))])

\* expected_exposure_profile
ExposureProfile1F(q, draws) ==
    Profile(q, LAMBDA t : States1F(q.m, StepLength(q), draws, GridIndex(q, t), q.n_paths))

\* expected_exposure_profile_2f
ExposureProfile2F(q, draws) ==
    Profile(q, LAMBDA t : States2F(q.m, StepLength(q), draws, GridIndex(q, t), q.n_paths))

\* build_irs_swap_batch and IrSwap::npv_batch_over_paths: one row per path, one column per
\* trade, flattened row by row.
FlatNpvs(q, t, states) ==
    LET trades == Len(q.notionals)
        swap(j) == [notional |-> q.notionals[j], fixed_rate |-> q.fixed_rates[j], start |-> q.start,
                    payment_times |-> q.payment_times, accruals |-> q.accruals]
        Row(k) == ((k - 1) \div trades) + 1
        Column(k) == ((k - 1) % trades) + 1
    IN  [k \in 1 .. (Len(states) * trades) |->
            Plain!Npv(RemainingFrom(swap(Column(k)), t), states[Row(k)], t, q.m)]

\* Mutant: the flattened values are read trade by trade.
EePfePerTrade_ByTrade(flat, trades) ==
    LET rows == Len(flat) \div trades
    IN  [j \in 1 .. trades |-> EePfe([p \in 1 .. rows |-> PositivePart(flat[(j - 1) * rows + p])])]

\* ee_pfe_per_trade: the number of rows is read off the length.
EePfePerTrade(flat, trades) ==
    LET rows == Len(flat) \div trades
    IN  [j \in 1 .. trades |-> EePfe([p \in 1 .. rows |-> PositivePart(flat[(p - 1) * trades + j])])]

ProfilesOf(times, trades, at) ==
    [j \in 1 .. trades |-> ProfileOf(times, [k \in DOMAIN at |-> at[k][j]])]

BatchProfiles(q, StatesOn(_)) ==
    LET times == ResetDates(q)
        trades == Len(q.notionals)
    IN  ProfilesOf(times, trades,
                   IF Horizon(q) <= 0
                   THEN << EePfePerTrade(FlatNpvs(q, times[1], <<InitialState(q.m)>>), trades) >>
                   ELSE [k \in DOMAIN times |->
                            EePfePerTrade(FlatNpvs(q, times[k], StatesOn(times[k])), trades)])

\* expected_exposure_profile_batch
ExposureProfileBatch1F(q, draws) ==
    BatchProfiles(q, LAMBDA t : States1F(q.m, StepLength(q), draws, GridIndex(q, t), q.n_paths))

\* expected_exposure_profile_2f_batch
ExposureProfileBatch2F(q, draws) ==
    BatchProfiles(q, LAMBDA t : States2F(q.m, StepLength(q), draws, GridIndex(q, t), q.n_paths))

\* unilateral_cva_with_discount indexes the exposures by the dates, and a profile of today has
\* only one exposure.
CvaAborts(q) == Horizon(q) <= 0 /\ Len(ResetDates(q)) > 1

\* discounts[i] is the price today of the bond that matures on the i-th date.
CvaWithDiscount(profile, discounts, hazard_rate, recovery_rate) ==
    LET Survival(i) == IF i = 0 THEN 1 ELSE ExpOf[PlainLift(-hazard_rate * profile.times[i])]
        Term(i) == (((1 -- recovery_rate) ** profile.ee[i]) ** (Survival(i - 1) -- Survival(i)))
                       ** discounts[i]
    IN  FoldLeft(LAMBDA cva, i : cva ++ Term(i), 0, [i \in DOMAIN profile.times |-> i])

\* unilateral_cva and unilateral_cva_batch, unilateral_cva_2f and unilateral_cva_2f_batch
UnilateralCva1F(m, profile, hazard_rate, recovery_rate) ==
    CvaWithDiscount(profile, [i \in DOMAIN profile.times |-> Plain!ZeroCouponBond1F(m, m.r0, profile.times[i])],
                    hazard_rate, recovery_rate)
UnilateralCva2F(m, profile, hazard_rate, recovery_rate) ==
    CvaWithDiscount(profile, [i \in DOMAIN profile.times |-> Plain!ZeroCouponBond2F(m, 0, 0, profile.times[i])],
                    hazard_rate, recovery_rate)

-----------------------------------------------------------------------------
(* Simulated paths of an asset, or of a basket of correlated ones, for     *)
(* inspection.  The maximal sizes are constants of the code; here they are *)
(* a parameter of the instance.                                            *)

CONSTANTS MaxPaths, MaxSteps

\* check_simulate_paths_limits
PathLimits(q) == q.n_paths \in 1 .. MaxPaths /\ q.n_steps \in 1 .. MaxSteps /\ q.maturity > 0

\* simulate_paths_gbm_basket_q: one correlation per pair of assets, or an error
BasketShape(q) ==
    /\ Len(q.s0) > 0
    /\ Len(q.correlation) = Len(q.s0) * Len(q.s0)

\* GbmBasket::new refuses parameters of other lengths, and a correlation (in tenths) without a
\* Cholesky factor.  Baskets of one or two assets, with ones on the diagonal.
BasketBuilds(q) ==
    /\ Len(q.drift) = Len(q.s0) /\ Len(q.sigma) = Len(q.s0)
    /\ q.correlation[1] > 0
    /\ Len(q.s0) = 2 => q.correlation[1] * q.correlation[4] > q.correlation[3] * q.correlation[3]

CholeskyOfPair(q) ==
    LET rho == PlainLift(q.correlation[3]) // 10
    IN  << <<1, 0>>, <<rho, RootOf[1 -- (rho ** rho)]>> >>

\* The drift of the logarithm: Gbm (r - q), GbmP (mu), less half the variance.
LogDrift(drift, sigma) == PlainLift(drift) -- ((PlainLift(sigma) ** PlainLift(sigma)) // 2)

\* Gbm::simulate_at_times, GbmP::simulate_at_times (one asset) and
\* GbmBasket::simulate_at_times: the spots of a path, [step][asset].
SpotTrajectory(q, draws, path) ==
    LET n == Len(q.s0)
        dt == PlainLift(q.maturity) // PlainLift(q.n_steps)
        lower == IF n = 1 THEN << <<1>> >> ELSE CholeskyOfPair(q)
        Correlated(step, j) ==
            FoldLeft(LAMBDA z, k : z ++ (Normal(draws[(step - 1) * n + k], path) ** lower[j][k]),
                     0, [k \in 1 .. n |-> k])
        Step(logs, step) ==
            [j \in 1 .. n |-> (logs[j] ++ (LogDrift(q.drift[j], q.sigma[j]) ** dt))
                                  ++ ((PlainLift(q.sigma[j]) ** RootOf[dt]) ** Correlated(step, j))]
        logs == FoldLeft(LAMBDA ls, step : Append(ls, Step(Last(ls), step)),
                         << [j \in 1 .. n |-> LogOf[q.s0[j]]] >>, [step \in 1 .. q.n_steps |-> step])
    IN  [step \in 1 .. q.n_steps |-> [j \in 1 .. n |-> ExpOf[logs[step + 1][j]]]]

PathDraws(q) == q.n_steps * Len(q.s0)

\* flatten_paths, flatten_basket_paths: by path, then by step, then by asset; today comes first.
FlattenPaths(q, draws) ==
    LET n == Len(q.s0)
        cols == q.n_steps + 1
        Path(k) == ((k - 1) \div (cols * n)) + 1
        Step(k) == ((k - 1) \div n) % cols
        Asset(k) == ((k - 1) % n) + 1
        spots == [p \in 1 .. q.n_paths |-> SpotTrajectory(q, draws, p)]
    IN  [k \in 1 .. (q.n_paths * cols * n) |->
            IF Step(k) = 0 THEN q.s0[Asset(k)] ELSE spots[Path(k)][Step(k)][Asset(k)]]

=============================================================================
