------------------------------- MODULE EngineApi -------------------------------
(***************************************************************************)
(* The functions engine-core offers to C++ (api.rs, payoff/hedge.rs, the   *)
(* calibrators), called from several threads of one process.               *)
(*                                                                         *)
(* A simulation first seeds the random generator of its backend and then   *)
(* draws from it, one tensor at a time.  The generator is global to the    *)
(* process (a Mutex of the tensor library, held for one call at a time),   *)
(* so that the calls of another thread fall between.                       *)
(*                                                                         *)
(* A panic cannot cross the bridge to C++: it aborts the process.          *)
(***************************************************************************)
EXTENDS Calibration, Hedge

CONSTANTS Callers,
          Workloads,    \* what the callers ask for: functions from Callers to requests
          GpuBuilt      \* the crate was built with its gpu feature

\* What the bridge hands over: seeds, sizes and lists of numbers.
ExposureFields == {"op", "m", "batch", "notional", "fixed_rate", "use_par_rate", "notionals", "fixed_rates",
                   "start", "payment_times", "accruals", "n_steps", "n_paths", "hazard_rate", "recovery_rate"}

ExposureTyped(q) ==
    /\ ExposureFields \subseteq DOMAIN q
    /\ q.batch \in BOOLEAN
    /\ q.notionals \in Seq(Int)
    /\ {q.n_paths, q.n_steps} \subseteq Nat

RequestTyped(q) ==
    /\ q = [field \in DOMAIN q |-> q[field]]
    /\ q.op \in {"paths", "exposure", "hedge"} => q.seed \in Nat
    /\ q.op = "exposure" => ExposureTyped(q)
    /\ q.op = "calibration" => CalibrationTyped(q.m, q.curve)

ASSUME RequestsTyped == \A work \in Workloads : \A c \in Callers : RequestTyped(work[c])

VARIABLES generator,    \* per backend: the last seed, and how many tensors were drawn since
          calls,        \* per caller: its call
          undisturbed   \* per caller (history): no other call touched the generator while this
                        \* one was between a seed and the last draw that belongs to it

vars == <<generator, calls, undisturbed>>

-----------------------------------------------------------------------------
(* Backends.                                                               *)

Backends == {"cpu", "gpu"}

\* parse_backend_name, is_available and resolve_backend: anything else runs on the CPU.
ResolvedBackend(name) == IF name = "gpu" /\ GpuBuilt THEN "gpu" ELSE "cpu"

\* The draw number k after seeding with a seed.
Tensor(seed, k) == 100 * seed + k

-----------------------------------------------------------------------------
(* What a request q runs into before anything else: an error is a value,   *)
(* an abort is the end of the process.                                     *)

Refuses(q) ==
    \/ q.op = "paths" /\ (~PathLimits(q) \/ (q.basket /\ ~BasketShape(q)))
    \/ q.op = "hedge" /\ HedgeRefused(q)

UnequalBatch(q) == Len(q.notionals) # Len(q.fixed_rates)

Aborts(q) ==
    \/ q.op = "exposure" /\ (ExposureAborts(q) \/ CvaAborts(q) \/ (q.batch /\ UnequalBatch(q)))
    \/ q.op = "valuation" /\ (q.payment_times = <<>> \/ (q.measure \in {"npv_batch", "delta_r0_batch"}
                                                         /\ UnequalBatch(q)))
    \/ q.op = "calibration" /\ (CurveAborts(q.curve) \/ GuessAborts(q.m))

\* How often a request seeds the generator, and how many tensors it draws each time.
Rounds(q) == CASE q.op = "exposure" -> IF ExposureDraws(q) = 0 THEN 0 ELSE 1
               [] q.op = "paths" -> 1
               [] q.op = "hedge" -> IF q.greeks THEN 9 ELSE 1
               [] OTHER -> 0

RoundDraws(q) == CASE q.op = "exposure" -> ExposureDraws(q)
                   [] q.op = "paths" -> IF q.basket /\ ~BasketBuilds(q) THEN 0 ELSE PathDraws(q)
                   [] q.op = "hedge" -> Len(SimulationTimes(q))

-----------------------------------------------------------------------------
(* Answers.                                                                *)

Refusal == [status |-> "refused"]
Ok(value) == [status |-> "ok", value |-> value]

\* irs_hull_white_exposure_profile and its batch, irs_hull_white_2f_...
HullWhiteExposures(q, draws) ==
    IF q.batch THEN ExposureProfileBatch1F(q, draws) ELSE <<ExposureProfile1F(q, draws)>>
HullWhite2FExposures(q, draws) ==
    IF q.batch THEN ExposureProfileBatch2F(q, draws) ELSE <<ExposureProfile2F(q, draws)>>

\* unilateral_cva_from_exposure and its batch, unilateral_cva_from_exposure_2f and its batch
CvaFromExposure1F(q, profiles) ==
    [j \in DOMAIN profiles |-> UnilateralCva1F(q.m, profiles[j], q.hazard_rate, q.recovery_rate)]
CvaFromExposure2F(q, profiles) ==
    [j \in DOMAIN profiles |-> UnilateralCva2F(q.m, profiles[j], q.hazard_rate, q.recovery_rate)]

WithCva1F(q, profiles) == [profiles |-> profiles, cva |-> CvaFromExposure1F(q, profiles)]
WithCva2F(q, profiles) == [profiles |-> profiles, cva |-> CvaFromExposure2F(q, profiles)]

ExposureAnswer(q, draws) ==
    Ok(IF q.m.kind = "1F" THEN WithCva1F(q, HullWhiteExposures(q, draws))
                          ELSE WithCva2F(q, HullWhite2FExposures(q, draws)))

\* simulate_paths_gbm_q and simulate_paths_gbm_p; simulate_paths_gbm_basket_q
PathsAnswer(q, draws) ==
    IF q.basket /\ ~BasketBuilds(q) THEN Refusal ELSE Ok(FlattenPaths(q, draws))

WithGreeks(q, result, draws) ==
    [result |-> result,
     residual_greeks |-> IF q.greeks THEN ResidualGreeks(q, result.weights, draws) ELSE <<>>]

\* synthesize_hedge_gbm_q, once the draws of all its rounds are there.
HedgeAnswer(q, rounds) ==
    LET scenario == HedgeScenario(q, rounds[1])
    IN  IF HedgeFails(q, scenario) THEN Refusal
        ELSE Ok(WithGreeks(q, HedgeResult(q, scenario), Tail(rounds)))

SimulationAnswer(q, rounds) ==
    CASE q.op = "exposure" -> ExposureAnswer(q, IF rounds = <<>> THEN <<>> ELSE rounds[1])
      [] q.op = "paths" -> PathsAnswer(q, rounds[1])
      [] q.op = "hedge" -> HedgeAnswer(q, rounds)

\* One trade of a batch as a request of its own.
Trade(q, j) == [q EXCEPT !.notional = q.notionals[j], !.fixed_rate = q.fixed_rates[j],
                         !.use_par_rate = FALSE]

\* irs_hull_white_npv_batch, irs_hull_white_2f_npv_batch: one pass over columns
NpvBatch1F(q) == [j \in DOMAIN q.notionals |-> IrsNpv1F(q.m, Trade(q, j))]
NpvBatch2F(q) == [j \in DOMAIN q.notionals |-> IrsNpv2F(q.m, Trade(q, j))]

\* irs_hull_white_npv_delta_r0_batch, irs_hull_white_2f_npv_delta_r0_batch: one backward pass
\* per trade
DeltaR0Batch1F(q) == [j \in DOMAIN q.notionals |-> DeltaR01F(q.m, Trade(q, j))]
DeltaR0Batch2F(q) == [j \in DOMAIN q.notionals |-> DeltaR02F(q.m, Trade(q, j))]

OneFactorValue(q) ==
    CASE q.measure = "npv" -> IrsNpv1F(q.m, q)
      [] q.measure = "delta_r0" -> DeltaR01F(q.m, q)
      [] q.measure = "greeks" -> AllGreeks1F(q.m, q)
      [] q.measure = "hessian" -> Hessian1F(q.m, q)
      [] q.measure = "npv_batch" -> NpvBatch1F(q)
      [] q.measure = "delta_r0_batch" -> DeltaR0Batch1F(q)
      [] q.measure = "bond_delta_r0" -> BondDeltaR0(q.m, q.start, Last(q.payment_times))

TwoFactorValue(q) ==
    CASE q.measure = "npv" -> IrsNpv2F(q.m, q)
      [] q.measure = "delta_r0" -> DeltaR02F(q.m, q)
      [] q.measure = "greeks" -> AllGreeks2F(q.m, q)
      [] q.measure = "hessian" -> Hessian2F(q.m, q)
      [] q.measure = "npv_batch" -> NpvBatch2F(q)
      [] q.measure = "delta_r0_batch" -> DeltaR0Batch2F(q)

ValuationAnswer(q) == Ok(IF q.m.kind = "1F" THEN OneFactorValue(q) ELSE TwoFactorValue(q))

-----------------------------------------------------------------------------
(* The calls.                                                              *)

Call(request, pc, rounds, fit, answer) ==
    [request |-> request, pc |-> pc, rounds |-> rounds, fit |-> fit, answer |-> answer]

NoAnswer == [status |-> "none"]

Init ==
    /\ generator = [backend \in Backends |-> [seed |-> 0, drawn |-> 0]]
    /\ \E work \in Workloads :
           calls = [c \in Callers |-> Call(work[c], "called", <<>>, NoFit, NoAnswer)]
    /\ undisturbed = [c \in Callers |-> TRUE]

BackendOf(c) == ResolvedBackend(calls[c].request.backend)

RoundFinished(c) ==
    /\ calls[c].rounds # <<>>
    /\ Len(Last(calls[c].rounds)) = RoundDraws(calls[c].request)

\* Caller c is between seeding and the last draw that the seed is for.
MidRound(c) == calls[c].pc = "sampling" /\ ~RoundFinished(c)

\* Caller c uses the generator of its backend: the others in the middle of a round notice.
Touches(c) ==
    undisturbed' = [d \in Callers |->
                       undisturbed[d] /\ (d = c \/ BackendOf(d) # BackendOf(c) \/ ~MidRound(d))]

Ends(c, answer) ==
    calls' = [calls EXCEPT ![c] = Call(@.request, "ended", @.rounds, @.fit, answer)]

Refuse(c) ==
    /\ calls[c].pc = "called"
    /\ Refuses(calls[c].request)
    /\ Ends(c, Refusal)
    /\ UNCHANGED <<generator, undisturbed>>

Abort(c) ==
    /\ calls[c].pc = "called"
    /\ Aborts(calls[c].request)
    /\ calls' = [calls EXCEPT ![c].pc = "aborted"]
    /\ UNCHANGED <<generator, undisturbed>>

Accepted(c) == ~Refuses(calls[c].request) /\ ~Aborts(calls[c].request)

\* A function without a simulation.
Value(c) ==
    /\ calls[c].pc = "called"
    /\ calls[c].request.op = "valuation"
    /\ Accepted(c)
    /\ Ends(c, ValuationAnswer(calls[c].request))
    /\ UNCHANGED <<generator, undisturbed>>

\* The weights could not be found in the first round: nothing else is simulated.
HedgeGivenUp(c) ==
    /\ calls[c].request.op = "hedge"
    /\ HedgeFails(calls[c].request, HedgeScenario(calls[c].request, calls[c].rounds[1]))

\* B::seed at the start of a round.
Seed(c) ==
    LET q == calls[c].request
    IN  /\ \/ calls[c].pc = "called" /\ Accepted(c)
           \/ calls[c].pc = "sampling" /\ RoundFinished(c) /\ ~HedgeGivenUp(c)
        /\ Len(calls[c].rounds) < Rounds(q)
        /\ generator' = [generator EXCEPT ![BackendOf(c)] = [seed |-> q.seed, drawn |-> 0]]
        /\ calls' = [calls EXCEPT ![c] = Call(q, "sampling", Append(@.rounds, <<>>), @.fit, @.answer)]
        /\ Touches(c)

\* Tensor::random: one tensor, from wherever the generator is.
Draw(c) ==
    LET rng == generator[BackendOf(c)]
        Drawn(rounds) == Front(rounds) \o <<Append(Last(rounds), Tensor(rng.seed, rng.drawn + 1))>>
    IN  /\ MidRound(c)
        /\ generator' = [generator EXCEPT ![BackendOf(c)].drawn = @ + 1]
        /\ calls' = [calls EXCEPT ![c] = Call(@.request, @.pc, Drawn(@.rounds), @.fit, @.answer)]
        /\ Touches(c)

\* All rounds are drawn, or there is none to draw: what is left is a function of the draws.
Simulated(c) ==
    LET q == calls[c].request
    IN  /\ \/ /\ calls[c].pc = "called" /\ Accepted(c)
              /\ q.op = "exposure" /\ Rounds(q) = 0
           \/ /\ calls[c].pc = "sampling" /\ RoundFinished(c)
              /\ Len(calls[c].rounds) = Rounds(q) \/ HedgeGivenUp(c)
        /\ Ends(c, SimulationAnswer(q, calls[c].rounds))
        /\ UNCHANGED <<generator, undisturbed>>

-----------------------------------------------------------------------------
(* The calibrators: a loop of their own.                                   *)

FitOf(c, fit) == calls' = [calls EXCEPT ![c] = Call(@.request, "fitting", @.rounds, fit, @.answer)]

Calibrate(c) ==
    LET q == calls[c].request
    IN  /\ calls[c].pc = "called" /\ q.op = "calibration" /\ Accepted(c)
        /\ FitOf(c, FitStarted(q.m, q.curve))
        /\ UNCHANGED <<generator, undisturbed>>

Iterate(c) ==
    /\ calls[c].pc = "fitting" /\ calls[c].fit.phase = "loop"
    /\ FitOf(c, FitIterates(calls[c].fit))
    /\ UNCHANGED <<generator, undisturbed>>

Damp(c) ==
    LET q == calls[c].request
    IN  /\ calls[c].pc = "fitting" /\ calls[c].fit.phase = "damping"
        /\ \E candidate \in Candidates : FitOf(c, FitDamps(q.m, q.curve, calls[c].fit, candidate))
        /\ UNCHANGED <<generator, undisturbed>>

Fitted(c) ==
    /\ calls[c].pc = "fitting" /\ calls[c].fit.phase = "done"
    /\ Ends(c, Ok(CalibrationResult(calls[c].request.m, calls[c].fit)))
    /\ UNCHANGED <<generator, undisturbed>>

-----------------------------------------------------------------------------
Alive == \A c \in Callers : calls[c].pc # "aborted"

Step(c) == \/ Refuse(c) \/ Abort(c) \/ Value(c) \/ Seed(c) \/ Draw(c) \/ Simulated(c)
           \/ Calibrate(c) \/ Iterate(c) \/ Damp(c) \/ Fitted(c)

Next == Alive /\ \E c \in Callers : Step(c)

Spec == Init /\ [][Next]_vars

-----------------------------------------------------------------------------
(* Properties.                                                             *)

TypeInv ==
    /\ generator \in [Backends -> [seed : Nat, drawn : Nat]]
    /\ undisturbed \in [Callers -> BOOLEAN]
    /\ DOMAIN calls = Callers
    /\ \E work \in Workloads : \A c \in Callers : calls[c].request = work[c]
    /\ \A c \in Callers :
           /\ calls[c] = Call(calls[c].request, calls[c].pc, calls[c].rounds, calls[c].fit, calls[c].answer)
           /\ calls[c].rounds \in Seq(Seq(Nat))

\* Only the simulations have rounds, and only the calibrators a loop.
PhasesFit(c) ==
    /\ calls[c].pc = "called" => calls[c].rounds = <<>>
    /\ calls[c].pc = "sampling" => calls[c].rounds # <<>> /\ Rounds(calls[c].request) > 0
    /\ calls[c].pc = "fitting" => calls[c].request.op = "calibration"

Answered(c, op) == calls[c].request.op = op /\ calls[c].answer.status = "ok"

\* The answer a request would have had in a process of its own.  Every trade of a batch is
\* taken alone: a trade is a batch of one in the batch functions, and the other way round.
FirstDraws(q, n) == [k \in 1 .. n |-> Tensor(q.seed, k)]
Stream(q) == [r \in 1 .. Rounds(q) |-> FirstDraws(q, RoundDraws(q))]

AsBatchOfOne(q) == [q EXCEPT !.batch = TRUE, !.notionals = <<q.notional>>,
                             !.fixed_rates = <<BuildSwap(q.m, q).fixed_rate>>]

OneByOne(q) == IF q.op # "exposure" THEN <<q>>
               ELSE IF ~q.batch THEN <<AsBatchOfOne(q)>>
               ELSE [j \in DOMAIN q.notionals |-> [Trade(q, j) EXCEPT !.batch = FALSE]]

Together(q, answers) ==
    IF q.op # "exposure" THEN Head(answers)
    ELSE Ok([profiles |-> [j \in DOMAIN answers |-> answers[j].value.profiles[1]],
             cva |-> [j \in DOMAIN answers |-> answers[j].value.cva[1]]])

Reference(q) ==
    Together(q, [j \in DOMAIN OneByOne(q) |-> SimulationAnswer(OneByOne(q)[j], Stream(q))])

Simulations == {q \in {work[c] : work \in Workloads, c \in Callers} :
                   q.op \in {"exposure", "paths", "hedge"} /\ ~Refuses(q) /\ ~Aborts(q)}
References == [q \in Simulations |-> Reference(q)]

IsSimulation(c) == calls[c].pc = "ended" /\ calls[c].request \in Simulations
Matches(c) == calls[c].answer = References[calls[c].request]

\* Every round of a caller begins where its seed begins and only the last one is open; between
\* two draws of it the generator stands where the caller left it.
FollowsSeed(c) ==
    LET q == calls[c].request
        rounds == calls[c].rounds
    IN  /\ \A r \in DOMAIN rounds : rounds[r] = FirstDraws(q, Len(rounds[r]))
        /\ \A r \in 1 .. Len(rounds) - 1 : Len(rounds[r]) = RoundDraws(q)
        /\ MidRound(c) => generator[BackendOf(c)] = [seed |-> q.seed, drawn |-> Len(Last(rounds))]

\* A simulation nobody disturbed draws what its seed determines and answers what that
\* determines, and a batch answers what its trades answer one by one: profiles, quantiles, CVA,
\* paths, hedge weights and residual Greeks.
AloneIsReproducible ==
    \A c \in Callers : undisturbed[c] => FollowsSeed(c) /\ (IsSimulation(c) => Matches(c))

\* The inductive invariant behind AloneIsReproducible.
IInv == TypeInv /\ (\A c \in Callers : PhasesFit(c)) /\ AloneIsReproducible

\* What the code documents of every simulation: the model and simulation parameters of a call
\* determine its answer, whatever the other threads of the process do.
DeterminedBySeed == \A c \in Callers : IsSimulation(c) => Matches(c)

\* What the jet of the tensor pricer says of a valuation.
ExpectedValuation(q) ==
    LET Jet2(p) == ReferenceHessian(q.m, p)
    IN  CASE q.measure = "npv" -> Jet2(q).value
          [] q.measure = "delta_r0" -> Jet2(q).first["r0"]
          [] q.measure = "greeks" -> Jet2(q).first
          [] q.measure = "hessian" -> Jet2(q)
          [] q.measure = "bond_delta_r0" ->
                 OfDual2!DualBond1F(Seeded(q.m, LAMBDA x, p : IF p = "r0" THEN Dual2Variable(x)
                                                                          ELSE Dual2Constant(x)),
                                    Last(q.payment_times) - q.start).d1
          [] q.measure = "npv_batch" -> [j \in DOMAIN q.notionals |-> Jet2(Trade(q, j)).value]
          [] q.measure = "delta_r0_batch" -> [j \in DOMAIN q.notionals |-> Jet2(Trade(q, j)).first["r0"]]

\* The closed forms agree with the calculus: values, first derivatives by autodiff or by dual
\* numbers, and all second derivatives are those of the jet of the tensor pricer.
GreeksAreTheJet ==
    \A c \in Callers :
        Answered(c, "valuation") => calls[c].answer.value = ExpectedValuation(calls[c].request)

\* A calibration that returns is never worse than its guess, reports the distance of the
\* parameters it returns, calls itself converged exactly when that distance is nil, and moves
\* nothing but the two parameters it calibrates.
ImprovesOn(q, result) ==
    LET Distance(m) == SquaredError(m, InitialState(m), q.curve)
    IN  /\ result.cost = Distance(result.m)
        /\ result.cost <= Distance(q.m)
        /\ result.converged <=> result.cost < Tolerance
        /\ result.iterations <= MaxIterations
        /\ \A p \in DOMAIN q.m \ {"a", "b"} : result.m[p] = q.m[p]

CalibrationImproves ==
    \A c \in Callers :
        Answered(c, "calibration") => ImprovesOn(calls[c].request, calls[c].answer.value)

\* What makes CalibrationImproves inductive: the loop stands at a point it has seen, with the
\* cost of that point, and no higher than it began.
SoundFit(q, fit) ==
    /\ ~GuessAborts(q.m) /\ ~CurveAborts(q.curve)
    /\ fit.p \in Points(q.m)
    /\ fit.cost = Cost(q.m, q.curve, fit.p)
    /\ fit.cost <= Cost(q.m, q.curve, InitialPoint(q.m))
    /\ fit.iterations \in 0 .. MaxIterations

FitInv ==
    /\ IInv
    /\ \A c \in Callers : calls[c].pc = "fitting" => SoundFit(calls[c].request, calls[c].fit)
    /\ CalibrationImproves

\* A hedge stays within its bounds and below its notional limit, and holding it is never a
\* larger second moment than holding the target alone, when doing nothing was allowed.
HedgeSound ==
    \A c \in Callers : Answered(c, "hedge") =>
        LET q == calls[c].request
            result == calls[c].answer.value.result
            SquaresOf(s) == FoldLeft(LAMBDA sum, x : sum + x * x, 0, s)
            target == HedgeScenario(q, calls[c].rounds[1]).target_pv
        IN  /\ WithinBounds(q, result.weights)
            /\ HasMaxGross(q) => result.cost <= Unit * q.max_gross
            /\ WithinBounds(q, [i \in DOMAIN result.weights |-> 0])
                   => SquaresOf(result.residuals) <= Unit * Unit * SquaresOf(target)

=============================================================================
