# TLA+ specifications of engine_quant

engine_quant prices derivatives. A C++ engine and a Rust engine share the
numerics, a payoff language has an interpreter in each of them, and
`quant-engine` / `quant-api` turn the Rust side into a stateless REST service on
a fixed pool of threads. Paths below are relative to `src/`; "engine" is
`rust/crates/quant-engine/src/lib.rs`, "api" is
`rust/crates/quant-api/src/lib.rs`, "core" is `rust/crates/engine-core/src/`.

## 1. Inventory

| Component | State | Operations | What is hard | What makes it correct |
|---|---|---|---|---|
| Admission budget (`quant-engine/src/scheduler.rs`) | mutex with cpu units, bytes and permits in use; condition variable | `try_acquire`, blocking `acquire`, `release`, drop of a permit | wake-ups, saturating counters, permits dropped by unwinding | counters = cost of live permits; budget never exceeded; no sleeper beside room |
| CPU job pool (engine l.303-499) | atomic `queued`, bounded channel, threads, a cancel flag and a result channel per job | three submit functions, `enqueue`, worker loop, `cancel`, `shutdown` | counter, channel and budget change in separate steps; a panic ends a thread; the last thread drops the channel | every call answered once; no budget or count leaks; cancellation suppresses work |
| REST handlers (api l.33-466) | slot semaphore, one oneshot and one guard per request | `price`, `price_portfolio`, `run_scenarios`, `calculate_risk`, `calculate_xva` | client disconnects at the await; the slot travels inside the closure | slots conserved; a status tells the truth; abandoned work is not started |
| Portfolio, scenario and XVA execution (engine l.561-897) | values, failures, chunk progress, totals per netting set | `price_portfolio_with_control`, `run_scenarios_with_control`, `calculate_xva_with_control` | partial failure of trades, groups, batches; cancellation between chunks; netting with failed trades | each trade valued or failed, in order; sets reduced apart |
| XVA reduction (`xva.rs`) | none | `calculate` on exposure cubes | short survival curves, collateral, admission of cubes | a default is counted once; twice at most where a given curve ends before the grid |
| Plan compiler and cache (`planner.rs`) | cache shared by clones, kernels not shared | `register`, `compile_plan_bounded`, `execute` | look-up, unlock, compile, insert | a cached plan is the one that would be compiled |
| GPU queue and router (`gpu.rs`) | a queue per device behind a mutex | `register_device`, `try_acquire`, permit drop, `route` | re-registration under outstanding permits | per-device limits; reason of a decision |
| Quant context (`quant-domain/src/lib.rs`, `phase2.rs`) | a document the client owns: resources, revision, parent, lineage, hash | `new`, `apply`, `fork`, `apply_typed`, references | long sequences; a client edits or sends stale documents | all-or-nothing; ancestry; one reading of a resource |
| Risk graph (`risk.rs`) | artifacts of one call | `calculate_risk` | base values, tapes and bumps shared under string keys | each cell is its own derivative; work is shared and reported |
| Payoff language (`core/payoff`, `cpp/engine/src/payoff`) | compiled tables; per path event states, decisions, ledgers | validate, compile, evaluate, price, exercise, differentiate, expose, forecast | order of triggers on a date, latches, bridge, exercise decided backwards, two interpreters and a dual one | both languages agree; no foresight; the derivative is that of the price |
| Short-rate numerics (`core/models`, `exposure.rs`, `curve.rs`, `calibration.rs`, `api.rs`) | a random generator global to the process | values, Greeks, Hessians, exposure profiles, CVA, paths, calibration | seed and draws of two threads; formulas written twice; batches flattened by position | same seed, same answer; closed forms are derivatives; a fit never gets worse |
| Hedge synthesis (`core/payoff/hedge.rs`) | none | `synthesize_hedge_gbm_q` | bounds, ridge, liquidity after the fit | constraints hold; risk is not added |
| C ABI, Excel client | handles owned by callers; last error per thread | create, price, free; `clear` | free in any order; cells that name dropped handles | no operation on a freed handle |
| Server binary, SIMD, installers, benches, notebooks | none | start-up, kernels | I/O and floating point | - |

How they meet: a handler takes a slot, calls a submit function of `Engine`,
which charges the budget and enqueues a closure; the closure owns the slot, the
sender of the handler's oneshot and, for all handlers but `price`, a clone of
the `Engine`. A worker runs the closure, which may call the portfolio code, the
plan cache, the risk graph or a kernel, and these the numerics. The numerics are
also called from C++ through `engine-ffi`, by any number of threads. Contexts
travel with requests; nothing is persisted, so there is no recovery to model.

## 2. Modules

Service and pool:

- `AdmissionState` - the record behind the admission mutex and the functions
  that read or change it (`Fits`, `Charge`, `Discharge`), and `Weight`, the cost
  of a set of permits as a cardinality. No state of its own.
- `BudgetPool` - the abstract promise: a set of permits is lent only while it is
  affordable, and each permit is given back once.
- `WeightedAdmission` - the semaphore with its callers as threads. `Acquire` is
  one turn of the loop in `acquire`; `Release` is `release` with its
  `notify_all`; a sleeper may wake for no reason (`SpuriousWakeup`), as the
  platform's condition variables allow.
- `Scheduler` - the job pool. A job is one call of a submit function.

  | Action | Code (engine) |
  |---|---|
  | `Submit` | the submit functions up to `try_acquire` (l.388-483), every early return |
  | `Count`, `TrySend`, `UncountRefused`, `DropRefused` | `enqueue`, one step per shared access (l.485-499) |
  | `DropDiscarded` | the permit of a job whose channel is gone |
  | `Take`, `Uncount`, `Start`, `Publish`, `Finish` | the worker loop and the closure (l.332-348, 400-416) |
  | `Panic`, `Unwind`, `Die` | unwinding through closure, loop body and thread |
  | `Exit` | `recv` fails: channel empty and no sender left |
  | `Leave`, `DiscardChannel` | the end of a thread; the last one drops the receiver and with it the queued jobs |
  | `Cancel`, `Shutdown` | `JobHandle::cancel` / `ExecutionControl::cancel`; `Engine::shutdown` of the last handle |

  `phase` says how far a job has come and stands for the program counters of
  its submitter and its worker, the ownership of its permit (`Charged`) and its
  share in `queued` (`Counted`). `outcome` is what the caller has learned.
- `RestService` - extends `Scheduler` with the handlers: `Arrive` (up to the
  slot), `CallEngine`, `Enqueue`, `Answer`, `Disconnect`, and the closure's end
  (`ReturnSlot`), which comes after the result is sent and before the job's
  permit is dropped. A handler is dropped only at its await, so `Disconnect`
  needs `awaiting`.
- `Settlement` - the abstract promise of portfolio pricing: each trade is
  settled once, by a value or a failure, and a result is returned only when all
  are, unless the run is stopped.
- `PortfolioPricing` - `price_portfolio_with_control` with the plan of a group.
  One thread runs it, the client may raise the flag between any two steps.

  | Action | Code (engine) |
  |---|---|
  | `Begin` | the checks, the total and the first pass over the trades (l.569-607) |
  | `TakeGroup` | check, `plan_request`, `compile_plan_bounded`, the failure of a whole group (l.608-633) |
  | `TakeBatch`, `ExecuteBatch` | check and kernel call; the flag may rise in between (l.634-662) |
  | `GroupDone`, `Report` | the end of the loops and the last pass (l.664-685) |
  | `Cancel` | `ExecutionControl::cancel` |

  `members` and `cursor` are the code's; `batches` is the rest of
  `plan.batches`; `waiting` replaces the vector of groups, whose order is that
  of the first members.
- `ScenarioRun` - `run_scenarios_with_control` around it: `StartRun`,
  `NextScenario`, `PriceScenario` (the steps of the call), `CollectRow`,
  `FinishRun`.
- `ExposureReduction` - `xva.rs` as a function of the request and its cubes:
  admission, EE and PFE, collateral, CVA, DVA, FVA, MVA, KVA.
- `XvaRun` - `calculate_xva_with_control` around both: `StartXva`, `PriceBook`
  (the steps of the pricing call), `NetBook` (totals per netting set and the
  cubes made of them), `ReduceCube`.
- `GpuScheduler` - the per-device queues: `RegisterDevice` (which replaces a
  queue under permits still out), `TryAcquire`, `Release`. Refusals change
  nothing and are no steps. `clean` is a history variable: no permit of the
  device outlived its queue since the device was last idle.
- `PlanCache` - clones of a registry around one cache: `Clone`, `DropClone`,
  `Register`, `ClearCache`, and a call of `compile_plan` in two steps, before
  and after the lock is released (`Hit`, `Miss`; `Insert`, `Reject`), then
  `Execute`. Rust's borrows are guards: `Register` takes `&mut self`, so no call
  on that clone is in flight, while calls on others are. `diverged` and
  `trusted` are history variables.

Documents and risk:

- `QuantContext` - the document and its operators: `New`, `Apply` (a list of
  commands on a copy), `Fork`, `ApplyTyped`, the typed specs and handles.
- `IrsInputs` - the three places that turn resources into the arguments of the
  swap pricer, and what each of them takes for a missing field.
- `RiskGraph` - `calculate_risk`: trades, factors, keys of artifacts, central
  and one-sided bumps, tapes, curve buckets, the dense matrix and its report.
- `QuantSession` - a client that keeps a document and the references it was
  given. The server keeps nothing, so a request is one step: `ApplyContext`,
  `ApplyMutations`, `Price`, `RiskByName`, `RiskByReference` (with what
  `context:apply` returned or with what the Python client's `_ref` computes).
  In between the client works on its document as `clients/python` lets it:
  `WithRun` (`with_run`: the old hash becomes the parent, the revision rises, a
  run is appended, the document is hashed anew; the lineage stays), `DropHash`,
  `EditByHand` (other resources under the hash it had) and `Rehash`
  (`with_hash`). `edited` is a history variable: the resources were edited by
  hand and the server has not derived a document since. A client that rewrites
  revision, branch, parent or lineage by hand is not modelled: nothing holds of
  the ancestors such a document names.

Payoffs:

- `PayoffExpr` - nodes of the language and what each is worth once its children
  are; what both interpreters share.
- `ScenarioEvaluator` - the C++ side: what is accepted, and
  the evaluation of the tree itself on one path.
- `PayoffProgram` - the Rust side: compilation to tables with common
  subexpressions merged, and their evaluation.
- `PayoffDual` - the second Rust interpreter, on values with a derivative; and
  what is computed from ledgers: prices, pathwise and likelihood-ratio
  sensitivities, exposures, forecasts, hitting probabilities.
- `PayoffRun` - the walk over each simulated path: monitoring dates, triggers by
  priority, the Brownian bridge (either outcome).
- `PayoffPricing` - the entry points around it: `Preflight`, `Simulate`, `Walk`,
  `BeginExercise`, `DecideDate` (Longstaff-Schwartz, from the last date back),
  `EvaluatePath`, `LowerPrice`, `Answer`.

Short rates, simulation, hedges:

- `ShortRateModels` - Hull-White with one and two factors and the swap, written
  once per copy that the code has (tensors, dual numbers), over any arithmetic.
- `HullWhiteDual` - four arithmetics to instantiate it with: plain numbers,
  `Dual2`, `HyperDual`, and full jets as the reference.
- `SwapExposure` - schedules, Euler trajectories, exposure profiles one by one
  and in batches, CVA, simulated spot paths and how they are flattened.
- `Calibration` - curves and the damped Gauss-Newton loop.
- `Hedge` - scenario, constraints, normal equations, projected gradient,
  liquidity, residual Greeks.
- `EngineApi` - the calls themselves, by several threads of a process that share
  the generator: `Refuse`, `Abort` (a panic ends the process), `Value`, `Seed`,
  `Draw` (one tensor), `Simulated`, `Calibrate`, `Iterate`, `Damp`, `Fitted`.

`AdmissionLemmas`, `WeightedAdmissionProofs`, `RestServiceProofs` (of
`Scheduler` and `RestService`), `GpuSchedulerProofs`, `PlanCacheProofs`,
`XvaProofs` (of `PortfolioPricing`, `ScenarioRun`, `ExposureReduction` and
`XvaRun`), `QuantSessionProofs` (of `RiskGraph` too) and `EngineApiProofs` (of
`SwapExposure` and `Calibration` too) hold the proofs; `MC...` are instances for
TLC.

`WeightedAdmission` and `Scheduler` implement `BudgetPool`; `PortfolioPricing`
implements `Settlement`, alone and inside `XvaRun`; `RestService` implements
`Scheduler`, which is stated by its own `Spec`, fairness included.
Definitions whose comment starts with "Mutant" are deliberately wrong variants
of the definition after them; no specification uses them. They document which
mistake each property would notice.

## 3. Abstractions

Service:

- The result of `validate_request` is any Boolean. Costs are constants of the
  jobs; prices, contexts and messages have no content.
- `Outcomes` folds all results of a computation that ran, good or bad, into
  `Computed`; `Status` therefore has one 200 for what may also be 400, 404 or
  502.
- Integer widths are left out: a charge is made only if it fits, so counters
  stay below limits of the same width; the theorem `BudgetSafety` says so.
- A computation ends, by returning or by a panic. Memory is sequentially
  consistent: the flags and counters are read and written with acquire and
  release orderings, and no property relates two of them without a lock or the
  channel in between.
- What a kernel computes for a product is the pair of market and product (in
  `XvaRun` a number, `Worth`); the trade's quantity is applied to the same member
  and left out. The plan cache is left out of `PortfolioPricing`:
  `PlanCacheProofs!Transparency` says that on a registry that is not cloned a hit
  returns what compilation would. `Sorted` and `InOrder` count instead of
  sorting, so that the prover can follow them; `MCXvaRun` checks that they are the
  sorts of the library.
- A request of `PlanCache` is what the cache key covers. The key leaves the
  product ids out, so a cached plan carries those of an earlier request with the
  same contents; `execute` does not read them. A kernel is its id: `execute`
  finds it by id alone (`planner.rs:435`) and `register` does not refuse a second
  kernel with the id of another, so that ids are unique is assumed. Ranks of kernels are distinct:
  `descriptor_order` compares ids last.
- The result channel is dropped at the same step in which the job that owns it
  is dropped, the permit in a later one: the fields of `Job` are dropped in
  order.

XVA and documents:

- Amounts are integers, probabilities and recoveries integers in units of
  1/`Unit`, and exp(-ht) a decreasing table. A time step of a derived cube is one
  unit of time.
- A JSON object is a record, a hash a constructor (SHA-256 does not collide).
  `Npv` and its derivatives in `RiskGraph` are a quadratic function, so that
  central differences are exact.

Payoffs:

- Values are integers and the rate is zero: discount factors are one and only
  their derivative is left. Sums stand for means and the weights of the
  likelihood ratio are one. The derivative of a spot is in units of 1/s0; the
  sensitivity of a path to volatility is any function of its value (`Brownian`).
  The uniform draw against a bridge probability goes either way. There is
  no fit when fewer than three paths are in the money; otherwise the fitted
  polynomial is any function of the spot with values in `Estimates`, or there is
  none (equal spots or unlucky pivots make the normal equations singular).
- A panic and an `EvaluationError` are the value `Panic`.

Short rates and hedges:

- A number is an element of the field of `Prime` elements. An identity between
  rational expressions that holds for real numbers holds there, exactly; the
  exponential, the root and the logarithm are arbitrary tables, so no identity
  of theirs can help a wrong formula. What needs an order (positive parts,
  quantiles) uses the order of representatives, one total order among others.
  The step of a number is thereby lost: nothing is said about rounding.
- A tensor over paths is a sequence; a draw is a value that depends on the seed
  and on how many tensors were drawn since (`Tensor`), and `Normal` turns it into
  the shock of a path.
- In `Calibration` the Jacobian and the damping factor are left out: a candidate
  is any point of a small grid, or there is none (a singular system). A sum of
  squares stands for its root mean.
- In `Hedge` weights are integers in units of 1/`Unit`, with quotients rounded
  to zero; paths are an arithmetic walk with the same parameters; bumps are of
  one instead of one percent. Universes have one or two instruments, and baskets
  one or two assets with ones on the diagonal, so the Cholesky factor is replaced
  by its pivots.

## 4. Runs

| Run | Instance | What it shows |
|---|---|---|
| `weighted` | 5 callers: two free of cpu (raised to one), one as wide as the budget, one heavy in memory, one that can never fit; 2 units, 3 bytes | counters are exact, no wake-up is lost, blocked callers that can fit are served, the budget is lent as `BudgetPool` says |
| `scheduler` | 3 jobs, 2 workers, queue of 1, 3 units: more units than places, so the channel can be full | the pool's inductive invariant and its liveness, with panics of both workers, refusals, cancellations and shutdown |
| `rest` | 3 requests, 1 worker, queue of 1, so 2 slots | the handlers' invariants and liveness, and that the composition is a behaviour of `Scheduler` |
| `scenarios` | up to 2 scenarios, portfolios of up to 4 trades (one more than `max_products`) over 2 products of 2 layouts; batches of 2 | rows belong to their scenarios whichever groups and batches fail; the run ends |
| `gpu` | 2 devices, 4 jobs of 0 to 3 bytes, two valid configurations and two that registration refuses | no order of registrations, grants and releases leaks capacity; budgets hold unless a device is registered over permits still out |
| `plans` | 2 clones, 2 threads, 3 kernels of which two compete, 2 requests | a hit is what compiling now would give until clones diverge; what a caller holds stays executable |
| `xva` | portfolios of up to 5 trades, 2 netting sets and trades without one, 3 products of which one is worth less than nothing; 8 cubes of the pricing measure and 4 of the physical one, 11 variations of the request; 212 070 states | trades are settled in order and the figures follow from them (`XvaIInv`), sets without a physical cube are reduced each by itself, losses are bounded by the cube, pricing implements `Settlement` |
| `session` | one market, one model, two swaps, revisions up to 2 on two branches, 10 lists of commands, 3 typed mutations; runs recorded locally, products edited by hand; 664 121 states | `apply` is all or nothing, ancestry is unbroken, the three readers agree, the matrix is what one computation per cell gives, work is shared as reported |
| `payoff` | about 25 programs, 98 requests, every path of three values (10, 30, 50) per date, batches of 4 paths for rights of exercise; 74 598 states | the two languages agree, first hit wins, the bridge only adds, exercise without foresight, the derivative is that of the price, portfolios net |
| `engine` | 2 threads, numbers modulo 97; 4 models, 3 swaps, 7 exposure requests, 4 simulations, 84 hedge requests, 4 calibrations (3 iterations of 2 tries over 4 values per coordinate), and what each of them refuses or aborts on; 51 857 states | simulations that are left alone are reproducible and batches agree with their members; Greeks and Hessians are the jet; calibrations improve; hedges are sound |
| `payoff_undecided`, `seed_shared` | as `payoff`, `engine` | violations: see findings |

Why these bounds are enough. With three jobs, one can run, one can wait in a
channel of one and one can find it full; with two workers one can die while the
other continues, and both can die with a job queued. The `rest` run has a third
request for two slots. The memory weights (1, 2, 3) make pairs that fit and
pairs that do not. A job is submitted once: a retry is another job.

For the portfolio, two layouts of which one holds two products give groups of
several products; four trades in one group make two full batches, three a full
and a short one, so a failed batch can be followed by another; two scenarios are
enough for one to leave something behind for the next. `max_batch_items = 0`,
which makes every group fail, is in the model and in no run. Two netting sets
with trades of either sign are enough for one to hide the other.

Two clones and two threads are enough for one clone to be extended while the
other compiles, and for a late insert after a clear. Four jobs overfill both
configurations of a device; a device can be registered any number of times.

Two revisions and a fork give a document a grandparent, a sibling and a chance
to be stale; `MaxRevision` bounds `WithRun` too, so a document can be derived by
a run and then by a batch, or the other way round. `HandEdits` has one kind of
resource: the ancestry does not tell kinds apart. Payoff programs have at most three dates and two events: enough for
a trigger to latch, to be seen by a later one of the same date and by one of a
later date, for an average to mix dates, and for a right to be exercised early,
late or never. Four paths are the fewest on which a regression has three distinct
spots and one to disagree.

A rational identity that fails over the reals fails modulo 97 at most points;
the markets and swaps give several points for each formula. Two threads suffice
for a seed to fall between another's seed and draw. In `Calibration` two tries
and three iterations let the loop succeed, give up and run out.

Deadlock checking is off where the system comes to rest (when all calls are over
and no client comes, or an abort ended the process), and on in `gpu`, `plans`
and `session`.

Fairness. A thread that prices scenarios is scheduled and kernels return
(`RunSpec`). Threads are scheduled, so each step of a worker and each step of a
submitter that holds a permit is weakly fair; Tokio polls the handlers it has.
Nothing forces a client to call, to cancel or to leave, a handle to be shut
down, or a computation to panic. `BlockedAcquireIsServed` needs weak fairness
only, because callers make one call each; with an endless supply of small calls
the semaphore has no queue and a wide caller can starve. The other
specifications state safety only and assume no fairness.

The properties to read first:

- `Scheduler!IInv`: through every path a job can take, both books balance. The
  count is exact about the one residue the code leaves: a job discarded with the
  channel stays in `queued` for ever.
- `EveryCallAnswered`: also when `enqueue` returns `Ok` to a pool without
  workers, the caller is answered.
- `EarlyCancelSuppresses`, `AbandonedNeverComputed`: a flag raised before the
  worker looks keeps the computation from running.
- `FullOnlyDuringHandover`: the semaphore has as many slots as the pool and the
  channel have places and still a request with a slot can be refused with 429;
  the property says exactly when.
- `RunIInv` (its part `RowsFaithful`), `XvaIInv` (its part `SettledInOrder`): the
  cursor into a group and the plan's batches stay together through failures, and a scenario's shocks end with it.
- `SetsApartWithoutP`: what holds of netting sets, and under which condition.
- `PlanCache!IInv` (its part `CacheTransparent`): the look-up, the compilation and
  the insertion are not one critical section, and what saves them is who may call `register`.
- `SessionIInv` (its part `LineageUnbroken`): in whatever order a client applies,
  forks, records runs, edits resources and hashes, the lineage is a chain of real
  ancestors, a document is one revision after its parent, and the parent is in
  the lineage wherever the server changed resources. It does not say that every
  parent is: `with_run` leaves its own out.
- `LossBounded`: telescoping increments bound CVA, and where a given curve is
  shorter than the grid the bound is twice as high (with the lower one the run
  fails).
- `MatrixFaithful`, `WorkShared`: sharing between trades, measures and factors
  changes the work and not the values.
- `AgreesWithReference`: common subexpressions, slots and tables do not change
  what the tree says, in either language.
- `NoLookAhead`, `PolicyHolds`: exercise is decided from the last date back, and
  paths that agree up to a date exercise alike on it.
- `GreekOfThePrice`: where no decision flips, the derivative is the slope of a
  second and independent evaluation on the moved path.
- `GreeksAreTheJet`: the hand-written second-order arithmetics on the second
  copy of the formulas give the Hessian of the first copy.
- `AloneIsReproducible`: what a fixed seed means when nobody interferes, from one
  draw to the next (`FollowsSeed`), and that a batch of trades is its trades.
- `HedgeSound`: scaling for liquidity after fitting to bounds leaves a hedge that
  satisfies both and is never worse than none.

## 5. Findings

Two runs show a disagreement between the code and what is said of it.

`payoff_undecided`. Gamma and Vanna by likelihood ratio are for contracts with
one required date; `single_terminal_time` (`core/payoff/lrm.rs:42`) does not look
at rights of exercise, although its comment says that such contracts are
rejected. A European right is evaluated on every path with its event blank, as if
never exercised.

`seed_shared`. Every simulation calls `B::seed` and then draws tensor by tensor
from a generator that is global to the process (`core/lib.rs:27` documents it, for
the tests). Two threads of a C++ program, or two jobs of the pool, take draws
from each other: neither result belongs to its seed, although the API says that
its calls are reproducible (`core/exposure.rs:14`).

Disagreements found in the same way that no run keeps, because the number of runs
is small and each is plain once seen:

- `Engine::shutdown` says "Stop accepting work and let fixed workers exit after
  their current job" (engine l.375). It drops one sender; jobs queued before are
  still received and computed. That jobs are not lost is arguably better, and the
  test `shutdown_closes_fixed_workers_after_queued_task` expects it.
- `ScenarioSet::chunk_size`: "Zero means engine default."
  (`rust/crates/quant-domain/src/phase4.rs:151`); engine l.852 raises zero to one.
- `docs/deployment-phase8.md:25` says budgets of a device are enforced;
  `register_device` (`gpu.rs:479`) replaces the queue of a device under permits
  that are out. `CleanDeviceWithinBudget` is what does hold.
- `docs/api/portfolio-scenarios.md:10` says the plan cache only accelerates;
  clones of a `KernelRegistry` share the cache but not the kernels
  (`planner.rs:322`), so one can be handed a plan it cannot execute. `Engine`
  never clones its registry.
- `calculate_risk` refuses the references that `context:apply` returned
  (`risk.rs:438`): it compares a hash of the JSON as sent with one of the
  normalised resource.
- A physical cube in an XVA request makes netting sets net against each other
  (engine l.757), against the comment at l.732 (`SetsReducedApart` says what
  would have to hold).

Behaviour worth knowing that contradicts no text: `price_owned` falls back to the
rate of the model (engine l.1064); `numeric_input` does not validate a schedule
(`planner.rs:499`); `valuation_calls` omits the evaluations for par coupons
(`risk.rs:571`); the cube reported for several sets describes the first (engine
l.799) and its memory budget is not checked (l.812); equal trade ids read the same
row (l.740); an independent amount above the threshold flips the sign of the
exposure (`xva.rs:60`); a survival curve shorter than the grid continues with the
hazard rate from the date of its end, as if nothing had defaulted, and so counts a
default up to twice; `is_ready` does not know of dead workers; `with_run` of the
Python client names a parent and raises the revision without extending the
lineage, so a lineage skips the runs recorded locally; resources edited by hand
and hashed anew are recorded nowhere; two kernels of one id are told apart by
the choice of a kernel and not by `execute`. Payoffs: repeated event ids
are refused in C++ and accepted in Rust; a right inside a `when` or a trigger's
branch passes validation and panics (`lsm.rs:173`); an exercise value that reads
a later fixing looks ahead; a trigger conditioned on an exercise event sees it as
never occurred; physical measures, exposures and baskets do not check that times
are positive; a digital has pathwise delta zero; in a portfolio, running extrema
see the dates of all trades; `std::clamp` with crossed limits is undefined in C++.
Numerics: an empty schedule, unequal batches, a guess that is not positive or a
curve that does not increase are not checked in C++ and end the process with a
Rust panic; a basket call that fails still reseeds the generator; the hedge
bridge always uses the cpu; the keys of `PartitionedRng::counter` in `mc.rs`
collide, and nothing uses the type.

## 6. Proofs

TLAPS proves what follows for every value of the constants that the named
assumptions allow: any finite set of callers, of jobs and workers, of devices,
clones or threads, any portfolio, layout and batch size, any lists of commands.

The budget and the pool:

- `WeightedAdmissionProofs!Invariance`: `IInv` of the semaphore. The counters are
  exactly the weight of the holders' permits, which makes a grant affordable
  (`WithinBudget`) and a release free of saturation. What others charge only
  shrinks the room (`ChargeShrinksRoom`), so a sleeper that did not fit when it
  looked still does not until a release, and a release leaves nobody asleep: that
  is `WakeupSafety`. `PoolRefinement`: every grant and release is a step of
  `BudgetPool`, everything else a stutter.
- `RestServiceProofs!Invariance`: `IInv`, which is `PoolIInv` (the books, the
  channel and the threads) and `JobIInv` (a job is with one thread at most, a
  value is sent only at the end of a computation, and a caller reads
  `WorkerStopped` only after a panic). The two books are not inductive alone. A step that takes
  a job from the channel must know that the job is `sent` and is in the channel
  once (`ChannelHoldsSent`); a worker's step must know it holds a job
  (`BusyHoldsJob`); discarding the channel as the last worker exits must find it
  empty, which follows from exiting only when closed (`ExitedMeansDrained`,
  `SubmittingNeedsOpen`). From it follow `TypeCorrectness`,
  `AdmissionConservation`, `BudgetSafety`, `QueueDepthConservation` and
  `NoJobLost`. `EarlyCancellation` is a temporal one: a raised flag stays up, and
  a phase before the worker's look is left for `executing` only without it.
- `PoolRefinement`: the pool implements `BudgetPool`. The key
  lemma is `AdmissionLemmas!FitsIsAffordable`: when the counters are exact, the
  code's test on counters is the abstract test on sets.

The service:

- `ServiceUsesPool`: every step of the service is a step of
  the pool or leaves it alone, so the theorems above carry over
  (`ServiceInvariance`).
- `RestInvariance`: `RestIInv`, which adds that a request has no slot and no
  raised flag before it arrives, that a refused request has its reason, that
  only a live handler is inside a submit function, and that whatever may still
  run has a slot. From it follow `SlotConservation`, `ListenersNotCancelled`,
  `UnavailableOnlyAfterPanic` and `AbandonedIsSuppressed`.
- `FullMeansHandover`: a request with a slot finds the channel full only while
  some worker has no slot behind what it does. Slots are counted against workers
  and places: the requests in the channel, those with a worker, and the one that
  is refused hold different slots, and there are as many as places and workers.

Portfolios and scenarios:

- `XvaProofs!Invariance`: `IInv` of `PortfolioPricing`. A trade is in one
  place (valued, failed, waiting for its group, or in the group at hand), the
  cursor and the batches ahead are the chunks of what is left of the group, so
  that the next kernel call gets the products of the members at the cursor. That
  chunks of a sequence are the first chunk and the chunks of the rest
  (`ChunksStep`), and that a set of trades has the order `Before` the report
  needs (`Ranks`), are lemmas.
- `SettlesInOrder`, `SettlementRefinement`: from it, the order and completeness of
  a result, and every step as a step of `Settlement`, action by action.
- `RunInvariance`, `RowsAreFaithful`: `RunIInv` of `ScenarioRun`, which repeats
  `IInv` for the call in flight under the market of its scenario.

XVA:

- `XvaInvariance`: `XvaIInv`, which adds to `IInv` that a result has a row
  for every priced trade (`RowsComplete`), that a cube to reduce is that of the
  request or the flat one of the totals (`CubeFollows`), and that the figures of a
  request that ended are the reduction of that cube or the sum over the sets
  (`FiguresFollow`). Nothing priced changes once the call has returned, so the
  totals can be recomputed in any later state. `XvaSettles`: pricing inside an XVA
  request implements `Settlement`, which follows from `SettlementRefinement`.
- `SetsAreApart`: with distinct ids each priced trade finds its own row
  (`FindsOwnRow`), so a total is the sum of the set's own values (`NettingFacts`);
  with one set, or with the sum over all of them, the exposure on a date is that
  of the netting sets, once trades without a set are renamed to the default
  (`ExposureOfGroups`). The renaming is one to one because no set is declared
  under the default's name (`XvaAssumption`): in the code a declared
  `__default__` shares the default's total.
- `CvaIsBounded`: `LossBounded`, for every decreasing curve. The increments of a
  default curve are never negative and telescope, so that a sum weighted by them
  stays below its largest term: those of a flat curve or of one that covers the
  grid to one at most; those of a curve that ends before the grid in two parts,
  given and flat, each to one at most. For several sets the bounds add up.

Means, totals and adjustments are sums over functions, `SumFunction` of the
library. `XvaProofs` proves what it needs of them by induction over finite sets
(`SubsetInduction`): such a sum exists, takes its elements in any order, is
monotone, telescopes and survives renaming. What is assumed of a request is that
its fields have their types and that its hazard rate has a survival probability
at the times of its cube; of `Survival`, that it starts at one, does not rise and
stays between zero and one, as `exp(-h t)` does for the rates that
`default_increment` cuts off at zero.

Devices and plans:

- `GpuSchedulerProofs!Invariance`, `NoCapacityLeak`, `CleanBudgetSafety`: a
  counter never exceeds the weight of the permits out, because a saturating
  subtraction of one permit's weight keeps it at or below the weight of the rest;
  so an idle device has empty counters, and is exact again from there.
- `PlanCacheProofs!Transparency`, `HeldPlansExecutable`: a sole registry that
  registers has no call in flight, so nobody inserts an old plan after the clear;
  clones agree with it until one is extended. That a supported family has a best
  kernel comes from the well-foundedness of `<` on ranks, not from finiteness.

Documents and risk:

- `QuantSessionProofs!SessionInvariance`, `UnbrokenLineage`: `SessionIInv` has two
  parts. `DocumentIInv` adds to `LineageUnbroken` that the document has its fields
  and a lineage that is a sequence, and `HashOfAncestry`: its hash, even a stale
  one, is that of a document with the same revision, branch and lineage. So
  whatever hash becomes a parent, in `apply`, where it was accepted, or in
  `with_run`, which does not look at it, is the digest of what came before. The
  last clause, that resources changed without a trace only by hand, needs that a
  hash covers the resources too unless `edited`. `RiskIInv` says that every stored
  portfolio is a list, which each command keeps (`PerformLists`), and that a
  result is that of the document it is read with.
- `ListsAreTransactional`: the loop of `apply` and the requests one by one are two
  folds over the same list. Both are shown to be chains, one link for each command
  (`FoldExists`, `FoldIsChain`), and the chains agree link by link (`AgreeStep`):
  one command sent alone does to a document what it does to the copy in the loop.
- `ReadersAgree`: needs no invariant; the three readers are compared field by
  field.
- `MatrixIsFaithful`: the three loops of `calculate_risk` (trades for their base
  values, cells, trades of a cell) are folds over a graph that they share, and
  each is unrolled into a chain. Between two trades `Kept` holds: what the graph
  has under a product or under a product and a factor is what computing it then
  and there would give. That needs that equal products are read alike
  (`Book`), that factors with the same key move the same parameter by the same
  weight, and that inserting never touches another key. Over the cells, `FillPass`
  says that the places written so far hold the values of their cells, taken by
  themselves (`CellValue`); two cells with the same place have the same value
  (`SamePlace`), so one that is written twice does no harm; and the columns are
  the keys, each once (`IndexListed`), so that every cell of the matrix is either
  written or was not asked for.
- `WorkIsShared`: along the same chains, the bumps kept are exactly the distinct
  products times the distinct keys of bumped factors (`BumpsOfAResult`), the
  tapes are those products or none, each counted when it is inserted and never
  again; and the label of a measure is what its cells so far were
  (`MethodsDone`). With no trades nothing is bumped and the label is "aad"
  whatever the factors, which is why the property asks for a product.

  Both hold for any `Npv` and `Greek` at all. `AskAssumption` says what the types
  of the code say: measures, factors and portfolios are vectors, no factor is
  `None`, a mutation is a command or a fork. `RiskAssumption` keeps errors and
  labels apart from `Absent`.

The shared generator and the numerics:

- `EngineApiProofs!EngineInvariance`: `IInv` of `EngineApi`. A caller is undisturbed
  as long as no other one seeds or draws while it is in a round; then each
  of its rounds is a prefix of what its seed determines, only the last is open,
  and the generator stands where that one ends (`FollowsSeed`). Without the last
  clause the next draw could be anything. What a step does to the others is in
  one lemma (`OthersStayGood`): a seed or a draw disturbs whoever is in a round on
  the same backend (`TouchesOthers`), and nothing else moves the generator.
- `AnswersAreReproducible`: when the rounds are complete they are the stream of the
  seed (`CompleteRounds`), so the answer is the reference.
- `BatchIsOneByOne`: for any draws, arithmetic, tables and schedule. A batch of
  trades is valued as one matrix of paths and trades, flattened row by row and
  read column by column; the column of a trade is what the trade alone would see
  (`Flattened`, `ColumnIsTrade`), on every date, or today alone when there is
  nothing to simulate.
- `CalibrationsImprove`: the invariant is `FitInv`, which adds to `IInv` that the loop
  stands at a point it has seen, with the cost of that point, and no higher than
  it began (`SoundFit`). The result then has the cost of the parameters it
  returns.

  Assumed of a request (`RequestsTyped`) is that seeds and sizes are natural
  numbers and a list is a list; of a calibration, that the cost of a point is a
  number and that the exponential takes the logarithm of the guess back to it. The
  first fails in the code only where an overflow gives NaN or infinity, the
  second by a rounding error: both are outside this model.

`Weight` is a cardinality of a set of pairs, which spares the budget's proofs an
induction over a set; `AdmissionLemmas` proves that it adds and subtracts as a sum does.
Where an induction could not be avoided it is done with a set: `SetInduction` (in
`QuantSessionProofs` and in `XvaProofs`) says that a set with 0 and all successors
holds every number, which comes from the well-foundedness of `<`.

Some theorems state properties that no run lists, because the inductive invariant
of the run implies them: `IdleDeviceAdmits`, `TrustedPlansExecutable`,
`CountersMatchPermits`, `QueueDepthAccounted`, `NoLostWakeup`,
`LostOnlyWithoutWorkers`, `ConnectedNotCancelled`, `SettledInOrder`,
`RowsFaithful`, `LineageUnbroken`, `CacheTransparent`, `UnavailableMeansPanic`.

Only model-checked:

- all liveness properties (`EveryCallAnswered`, `BlockedAcquireIsServed`,
  `RequestsEnd`, `RunEnds`) and the fairness part of `ImplementsScheduler`:
  liveness is beyond the proof system;
- the payoff properties: the language is recursive over programs (`RECURSIVE`),
  which the provers cannot follow, and what an interpreter does with every
  program is an induction over data;
- `GreeksAreTheJet`: an identity between rational expressions in a finite field,
  beyond the solver's arithmetic, and checked at the points of the instance;
- `HedgeSound`: that a rounded solution of the normal equations, clipped and
  scaled, is no worse than none is a statement about the numbers of a universe,
  and it is checked on those of the instance.

TLC checked the invariants that are proved before they were: each is an
invariant of a run, or implies those of its run, except for `IInv` and `FitInv` of
`EngineApi`, which add `TypeInv`, `PhasesFit` and `SoundFit` to what `engine` checks;
adding `INVARIANT FitInv` to `MCEngineApi.cfg` checks them too.

## 7. Not modelled

- Rounding. All numerics are exact here; convergence, Monte Carlo error and the
  tolerances in comparisons of times (`tail_len`, `GridIndex`) are left out, as
  is the difference between C++, which compares times with a tolerance, and Rust.
- Payoff nodes exp, log, pow, event times, discount factors, FX, before and
  after. `compile.rs:176` accepts the first three. On the logarithm of
  what is not positive C++ throws and Rust goes on with minus infinity or NaN: there
  the languages disagree, and what comparisons, latches and payments make of such
  a value afterwards is not modelled. `ScenarioEvaluator` refuses continuous monitoring and exercise, so the
  two interpreters are compared without them (`Comparable`).
- Discounting at a bumped rate: with the rate at zero only the derivative of the
  discount factor is there.
- `irs_unilateral_cva_5y` and the other demonstrations of `smoke.rs`,
  `path_discount_factor`, the aggregation of `mc.rs`, the functions abs, min, max
  and ln of the dual numbers, baskets of three assets or more.
- The generated glue of the bridges, SIMD kernels, Excel and Python bindings,
  start-up, installers, benches, notebooks. `health_live`, `version`, the body
  limit and `apply_context` keep no state and do not touch the pool.
- The GPU router, deduplication of a batch by payoff fingerprint
  (`cpp/engine/src/price.cpp:368`), handles of the C ABI and of the Excel client,
  the C++ Greeks and calibration wrappers: planned, below.

## 8. Plan

Written, in the order of the plan: the budget, the pool, the REST handlers,
portfolio and scenario execution, the GPU queues and the plan cache; XVA and
netting; documents and the risk graph; the payoff language in both engines; the
short-rate numerics, the hedge and the shared generator.

Proved, in the same order, up to what section 6 lists as only model-checked.

What is left to model: `BatchDedup`, `AbiHandles`, `ExcelHandles`,
`GpuRouter`.
