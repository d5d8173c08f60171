---------------------------- MODULE PayoffPricing ----------------------------
(***************************************************************************)
(* A Monte Carlo price of a payoff: what is checked before anything is      *)
(* simulated, the walk over each path, and the ledgers that are discounted  *)
(* and averaged (payoff/api.rs, payoff/basket_api.rs, measures.cpp).        *)
(*                                                                          *)
(* PayoffPriceQ evaluates every path on its own.  PayoffExerciseQ resolves  *)
(* the triggers of all the paths, then decides where each path exercises,   *)
(* going back in time over the whole batch (Longstaff-Schwartz, lsm.rs),    *)
(* and evaluates the paths on these decisions.  The fitted polynomial is    *)
(* any function of the spot, or there is none.                              *)
(***************************************************************************)
EXTENDS PayoffRun

CONSTANTS Requests,          \* of measures, with what any of them is given
          Batch(_, _, _),    \* the simulations of observables at times for a request
          Estimates,         \* values of the fitted polynomial
          Bump               \* a parameter is moved by one part in so many

VARIABLES drawn,             \* the simulation, before any bump
          coming,            \* exercise dates to decide, the latest one first
          realized,          \* per path, what it receives as far as decided
          decisions,         \* per path, the date of its exercise or None
          diagnostics,       \* what was done on each date
          ledgers,           \* of the paths evaluated
          measured           \* what is answered, and the upper price of a bump

policy == <<coming, realized, decisions, diagnostics>>
vars == <<request, payoff, drawn, paths, resolved, walk, policy, ledgers, measured,
          answer>>

Init == /\ request \in Requests
        /\ payoff = None /\ answer = None
        /\ drawn = <<>> /\ paths = <<>> /\ resolved = <<>> /\ ledgers = <<>>
        /\ measured = None
        /\ states = None /\ now = None /\ dates = <<>> /\ active = <<>>
        /\ coming = <<>> /\ realized = <<>> /\ decisions = <<>> /\ diagnostics = <<>>

-----------------------------------------------------------------------------

(* find_single_exercise_node; contains_exercise *)
Exercises(compiled) ==
  {i \in DOMAIN compiled.contracts : compiled.contracts[i].type = "exercise"}
Node == payoff.contracts[CHOOSE i \in Exercises(payoff) : TRUE]

(* A greek of a right is a difference of two prices of the right. *)
Bumped == /\ request.measure = "greek" /\ request.under = "Q"
          /\ payoff # None /\ Exercises(payoff) # {}
WithExercise == request.measure = "exercise" \/ Bumped
Pathwise == request.measure = "greek" /\ ~Bumped

(* The derivatives of second order, by likelihood ratio. *)
SecondOrder == {"gamma", "cross", "hessian"}

(* The price of a payoff, and what reuses its simulation, is as of today;   *)
(* an exposure is simulated on the dates where it is wanted as well.        *)
AsOfToday == /\ request.under = "Q"
             /\ request.measure \notin {"exposure", "basket"}
SimulationTimes(compiled) ==
  RequiredTimes(compiled)
    \cup IF request.measure = "exposure"
         THEN {t \in ToSet(request.exposure_times) : t > 0} ELSE {}

Unsupported(compiled) ==
  CASE request.measure = "exercise" -> Cardinality(Exercises(compiled)) # 1
    [] request.measure = "greek" ->
         \/ request.greek \notin Parameters(request.under)
         \/ Cardinality(Exercises(compiled)) > (IF request.under = "Q" THEN 1 ELSE 0)
    [] request.measure = "gamma" -> ~SingleTerminal(compiled) \/ request.greek # "spot"
    [] request.measure = "cross" ->
         ~SingleTerminal(compiled) \/ <<request.greek, request.other>> \notin CrossPair
    [] request.measure = "hessian" -> ~SingleTerminal(compiled)
    [] request.measure = "hit" -> request.event \notin ToSet(compiled.events)
    [] request.measure = "exposure" ->
         \/ request.exposure_times = <<>>
         \/ \E t \in ToSet(request.exposure_times) : t < 0
    [] request.measure = "pnl" -> request.confidence \notin 0 .. 99
    [] OTHER -> FALSE

(* preflight_gbm_capabilities: the model of the physical measure decides no *)
(* exercise, and that of several observables has no bridge either.          *)
Incapable(compiled) ==
  \/ Exercises(compiled) # {} /\ (request.under = "P" \/ request.measure = "basket")
  \/ /\ request.measure = "basket"
     /\ \E i \in DOMAIN compiled.contracts :
          /\ compiled.contracts[i].type = "trigger"
          /\ compiled.contracts[i].monitoring = "continuous_approximation"

(* PayoffProduct, the capabilities, and what the measure refuses. *)
Refused(compiled) ==
  \/ ~Reference!Validated(program)
  \/ compiled.error # None
  \/ request.n_paths = 0
  \/ request.observables = {}
  \/ ~(ToSet(compiled.observables) \subseteq request.observables)
  \/ request.measure # "basket" /\ Cardinality(request.observables) > 1
  \/ Incapable(compiled)
  \/ Unsupported(compiled)
  \/ SimulationTimes(compiled) = {}
  \/ AsOfToday /\ \E t \in RequiredTimes(compiled) : t <= request.today

Preflight ==
  /\ payoff = None /\ answer = None
  /\ LET compiled == Compile(program)
     IN  IF Refused(compiled)
         THEN /\ answer' = "refused"
              /\ UNCHANGED payoff
         ELSE /\ payoff' = compiled
              /\ UNCHANGED answer
  /\ UNCHANGED <<request, drawn, paths, resolved, walk, policy, ledgers, measured>>

(* The path with the parameter moved by 1 / Bump, on the same realization.  *)
Move(x, by) == x + (x * by) \div Bump
Moved(one, sign) ==
  [o \in DOMAIN one |->
     [t \in DOMAIN one[o] |->
        Move(one[o][t], sign * Growth(request.greek, t, one[o][t]))]]

(* simulate_gbm_columns_at: the model asserts that its instants are later   *)
(* than the present.  A bump starts with the upper price.                   *)
Simulate ==
  /\ payoff # None /\ paths = <<>> /\ answer = None
  /\ IF \E t \in SimulationTimes(payoff) : t <= request.today
     THEN /\ answer' = Panic
          /\ UNCHANGED <<drawn, paths>>
     ELSE /\ drawn' \in Batch(DOMAIN payoff.observables, SimulationTimes(payoff), request)
          /\ paths' = IF Bumped THEN [i \in DOMAIN drawn' |-> Moved(drawn'[i], 1)]
                      ELSE drawn'
          /\ UNCHANGED answer
  /\ UNCHANGED <<request, payoff, resolved, walk, policy, ledgers, measured>>

(* eval.rs on one path; the ledgers of earlier paths are there already      *)
(* unless all the paths wait for the exercise.                              *)
Walk ==
  /\ WithExercise \/ Len(ledgers) = Len(resolved)
  /\ StartPath \/ NextDate \/ ResolveTrigger \/ PathResolved
  /\ UNCHANGED <<drawn, policy, ledgers, measured>>

-----------------------------------------------------------------------------
(* resolve_exercise_decisions *)

AllResolved == Len(resolved) = Len(paths) /\ paths # <<>>

(* "nunca ejercer": the continuation on its own, evaluated without cursor. *)
Unexercised(i) == EvalContract(payoff, Node.kids[2], None, paths[i], resolved[i])

BeginExercise ==
  /\ answer = None /\ WithExercise /\ AllResolved /\ decisions = <<>>
  /\ realized' = [i \in DOMAIN paths |-> Unexercised(i)]
  /\ decisions' = [i \in DOMAIN paths |-> None]
  /\ coming' = Reverse(Node.times)
  /\ answer' = IF \E i \in DOMAIN paths : Panic \in ToSet(Unexercised(i))
               THEN Panic ELSE None
  /\ UNCHANGED <<request, payoff, drawn, paths, resolved, walk, diagnostics, ledgers,
                 measured>>

ExerciseValue(i, t) == EvalScalar(payoff, Node.kids[1], t, paths[i], resolved[i])
Underlying(i, t) == paths[i][1][t]
InTheMoney(t) == {i \in DOMAIN paths : ExerciseValue(i, t) > 0}

(* fit_quadratic asks for three paths.  Its system may be singular; fewer   *)
(* than three different spots make it so, but for the rounding of pivots.   *)
Fits(t) ==
  LET spots == {Underlying(i, t) : i \in InTheMoney(t)}
  IN  IF Cardinality(InTheMoney(t)) < 3 THEN {None}
      ELSE [spots -> Estimates] \cup {None}

\* Mutant: a path compares with what it will in fact receive.
Exercised_Foresight(t, fit) ==
  {i \in InTheMoney(t) :
     /\ fit # None
     /\ \A k \in DOMAIN realized[i] : ExerciseValue(i, t) >= realized[i][k].amount}

Exercised(t, fit) ==
  {i \in InTheMoney(t) : fit # None /\ ExerciseValue(i, t) >= fit[Underlying(i, t)]}

\* Mutant: a date already decided is kept.
Decided_Kept(i, t) == IF decisions[i] = None THEN t ELSE decisions[i]
DecidedOn(i, t) == t

DecideDate ==
  /\ answer = None /\ coming # <<>>
  /\ LET t == Head(coming)
     IN  \/ /\ \E i \in DOMAIN paths : ExerciseValue(i, t) = Panic
            /\ answer' = Panic
            /\ UNCHANGED <<realized, decisions, diagnostics>>
         \/ /\ \A i \in DOMAIN paths : ExerciseValue(i, t) # Panic
            /\ \E fit \in Fits(t) :
                 /\ realized' = [i \in DOMAIN paths |->
                      IF i \in Exercised(t, fit)
                      THEN <<[time |-> t, amount |-> ExerciseValue(i, t)]>>
                      ELSE realized[i]]
                 /\ decisions' = [i \in DOMAIN paths |->
                      IF i \in Exercised(t, fit) THEN DecidedOn(i, t) ELSE decisions[i]]
                 /\ diagnostics' = <<[date |-> t, in_the_money |-> InTheMoney(t),
                                      fit |-> fit]>> \o diagnostics
            /\ UNCHANGED answer
  /\ coming' = Tail(coming)
  /\ UNCHANGED <<request, payoff, drawn, paths, resolved, walk, ledgers, measured>>

-----------------------------------------------------------------------------

\* Mutant: the decision is not put among the events.
FinalStates_Blank(i) == resolved[i]

(* What the path is evaluated on: its events, and the decision as one. *)
FinalStates(i) ==
  IF WithExercise
  THEN [resolved[i] EXCEPT ![Node.event].occurred = decisions[i] # None,
                           ![Node.event].first_hit_time = decisions[i]]
  ELSE resolved[i]

Ledger(i) ==
  IF Pathwise THEN EvaluateDual(payoff, paths[i], request.greek, FinalStates(i))
  ELSE EvalContract(payoff, payoff.root, None, paths[i], FinalStates(i))

EvaluatePath ==
  /\ answer = None /\ Len(ledgers) < Len(resolved)
  /\ WithExercise => AllResolved /\ decisions # <<>> /\ coming = <<>>
  /\ LET ledger == Ledger(Len(ledgers) + 1)
     IN  IF Panic \in ToSet(ledger)
         THEN /\ answer' = Panic
              /\ UNCHANGED ledgers
         ELSE /\ ledgers' = Append(ledgers, ledger)
              /\ UNCHANGED answer
  /\ UNCHANGED <<request, payoff, drawn, paths, resolved, walk, policy, measured>>

Evaluated == answer = None /\ paths # <<>> /\ Len(ledgers) = Len(paths)
Outcomes == [i \in DOMAIN ledgers |-> PresentValue(ledgers[i])]

(* payoff_sensitivity_bump_and_reval: the lower price, with a policy of its *)
(* own, on the same seed.                                                   *)
LowerPrice ==
  /\ Evaluated /\ Bumped /\ measured = None
  /\ measured' = Sum(Outcomes)
  /\ paths' = [i \in DOMAIN drawn |-> Moved(drawn[i], -1)]
  /\ resolved' = <<>> /\ ledgers' = <<>>
  /\ coming' = <<>> /\ realized' = <<>> /\ decisions' = <<>> /\ diagnostics' = <<>>
  /\ UNCHANGED <<request, payoff, drawn, walk, answer>>

(* The price of each path once more, times the weight of its likelihood     *)
(* ratio; one simulation for the three of a local Hessian.                  *)
LikelihoodRatio == Outcomes

Hits == {i \in DOMAIN resolved : resolved[i][IndexOf(payoff.events, request.event)].occurred}

(* mc::aggregate, and what the measure makes of the paths. *)
Measures ==
  CASE Bumped -> {measured - Sum(Outcomes)}
    [] Pathwise ->
         {[i \in DOMAIN ledgers |-> PresentDerivative(ledgers[i], request.greek)]}
    [] request.measure \in SecondOrder -> {LikelihoodRatio}
    [] request.measure = "hit" -> {Cardinality(Hits)}
    [] request.measure = "exposure" ->
         {ExposureProfile(ledgers, request.exposure_times)}
    [] request.measure = "pnl" ->
         {PnlDistribution(Outcomes, tail) :
            tail \in TailLengths(Len(ledgers), request.confidence)}
    [] OTHER -> {Sum(Outcomes)}

Answer ==
  /\ Evaluated /\ (Bumped => measured # None)
  /\ measured' \in Measures
  /\ answer' = "answered"
  /\ UNCHANGED <<request, payoff, drawn, paths, resolved, walk, policy, ledgers>>

Next == \/ Preflight \/ Simulate \/ Walk
        \/ BeginExercise \/ DecideDate \/ EvaluatePath \/ LowerPrice \/ Answer

Spec == Init /\ [][Next]_vars

-----------------------------------------------------------------------------

Named(i) ==
  LET times == RequiredTimes(payoff)
  IN  [o \in ToSet(payoff.observables) |->
         Restrict(paths[i][IndexOf(payoff.observables, o)], times)]
Comparable ==
  /\ payoff # None
  /\ \A i \in DOMAIN payoff.contracts :
       /\ Trigger(i).type = "trigger" => Trigger(i).monitoring = "discrete"
       /\ Trigger(i).type # "exercise"
SameEvents(there, here) ==
  \A e \in DOMAIN payoff.events :
    LET event == there[payoff.events[e]]
    IN  /\ here[e].occurred = event.occurred
        /\ here[e].first_hit_time = event.first_hit_time
        /\ \A o \in DOMAIN here[e].captured :
             here[e].captured[o] = event.captured[payoff.observables[o]]
Agrees(i, reference) ==
  /\ reference # Panic
  /\ Pathwise \/ ledgers[i] = reference.ledger
  /\ SameEvents(reference.states, resolved[i])

(* eval.rs: "Equivalente Rust, sobre el IR compilado, de                    *)
(* ScenarioEvaluator::evaluate": on every path the compiled program and the *)
(* tree give the same cashflows in the same order and the same events, and  *)
(* the one fails where the other does.  The C++ side has no bridge and no   *)
(* exercise.  Every path is once the last one that was evaluated.           *)
AgreesWithReference ==
  Comparable =>
    /\ \A i \in {Len(ledgers)} \ {0} :
         Agrees(i, Reference!Evaluate(program, Named(i)))
    /\ answer = Panic /\ paths # <<>> =>
         Reference!Evaluate(program, Named(Len(ledgers) + 1)) = Panic

(* Continuous monitoring only ever finds more: a latched barrier that the   *)
(* dates alone show was hit has been hit, no later than they show.          *)
Discretely == [program EXCEPT !.monitoring = "discrete"]
BridgeOnlyAdds ==
  payoff # None /\ program.type = "trigger" /\ program.latch =>
    \A i \in DOMAIN resolved :
      LET there == Reference!EventStates(Discretely, Named(i))[program.event]
          here == resolved[i][IndexOf(payoff.events, program.event)]
      IN  there.occurred => here.occurred /\ here.first_hit_time <= there.first_hit_time

(* What the validation is for: a contract that PayoffProduct accepts never  *)
(* lacks an instant or a fixing, so that it is priced unless it divides by  *)
(* zero or asks for the value of an event that has not occurred.  There are *)
(* two exceptions.  An exercise right inside of a "when" or of the branch   *)
(* of a trigger: its continuation is evaluated without the instant that the *)
(* validation saw.  And a measure that does not look at the date of today   *)
(* on a contract that asks for a fixing of the past.                        *)
Exposed(node) == node.type \in {"div", "event_value"}
RightAtTop(root) ==
  \A n \in Reference!Nodes(root) :
    n.type \in {"when", "trigger"} =>
      \A m \in Reference!Nodes(n) \ {n} : m.type # "exercise"
ValidatedIsPriced ==
  answer = Panic =>
    \/ \E n \in Reference!Nodes(program) : Exposed(n)
    \/ ~RightAtTop(program)
    \/ ~AsOfToday /\ \E t \in RequiredTimes(payoff) : t <= request.today

(* The decision of a path is the first date, in time, at which it is in the *)
(* money and exercising is worth at least the estimate, although the dates  *)
(* are decided from the last one back.                                      *)
Stops(i, k) == /\ i \in diagnostics[k].in_the_money
               /\ diagnostics[k].fit # None
               /\ ExerciseValue(i, diagnostics[k].date)
                    >= diagnostics[k].fit[Underlying(i, diagnostics[k].date)]
StopsFirst ==
  \A i \in DOMAIN decisions :
    LET stops == {diagnostics[k].date : k \in {j \in DOMAIN diagnostics : Stops(i, j)}}
    IN  decisions[i] = IF stops = {} THEN None ELSE Min(stops)

(* lsm.rs, "Sin look-ahead": paths that cannot be told apart up to a date   *)
(* exercise on it alike, if the value of exercising is that of the date,    *)
(* and so whatever the paths do later.                                      *)
Adapted == \A n \in Reference!Nodes(program) :
             n.type = "exercise" =>
               \A m \in Reference!Nodes(n.kids[1]) :
                 m.type \notin {"fixing", "average", "event_value"}
SameUntil(i, j, t) ==
  \A o \in DOMAIN paths[i] : \A u \in DOMAIN paths[i][o] :
    u <= t => paths[i][o][u] = paths[j][o][u]
NoLookAhead ==
  Adapted =>
    \A i, j \in DOMAIN decisions :
      decisions[i] # None /\ SameUntil(i, j, decisions[i]) => decisions[j] = decisions[i]

(* The second pass applies the decisions and does not take them again: a    *)
(* path is paid exactly what the first one supposed when it estimated.      *)
PaidAsDecided ==
  WithExercise /\ payoff # None /\ program.type = "exercise" =>
    \A i \in DOMAIN ledgers : ledgers[i] = realized[i]

(* The policy that is reported is the one that is paid. *)
PolicyHolds == StopsFirst /\ PaidAsDecided

Worth(one) == Reference!Evaluate(program, one)
SameFlows(here, there) ==
  /\ Len(here) = Len(there)
  /\ \A k \in DOMAIN here : here[k].time = there[k].time
Slope(from, to, k) == Bump * (to[k].amount - from[k].amount)
OfTheDiscount(ledger) ==
  IF request.greek = "rate"
  THEN -Sum([k \in DOMAIN ledger |-> ledger[k].time * ledger[k].amount]) ELSE 0
IsDerivative(i, here, up, down) ==
  /\ SameFlows(here, ledgers[i])
  /\ SameFlows(here, up) /\ SameFlows(here, down) =>
       \A k \in DOMAIN here :
         Slope(here, up, k) = Slope(down, here, k) =>
           ledgers[i][k].amount = Dual(here[k].amount, Slope(here, up, k))
  /\ measured[i] = OfTheDiscount(here)
        + Sum([k \in DOMAIN here |-> ledgers[i][k].amount.deriv])

(* "la derivada pathwise EXACTA": a cashflow that moving the parameter up   *)
(* and down changes alike, so that no decision flips and no kink is         *)
(* crossed, has that slope as its derivative, and the sample of the path is *)
(* their sum, with the derivative of the discount factors if the parameter  *)
(* is the rate.  The slope is that of the reference, which resolves the     *)
(* events of the moved path again.                                          *)
GreekOfThePrice ==
  Comparable /\ Pathwise /\ answer = "answered" =>
    \A i \in DOMAIN ledgers :
      IsDerivative(i, Worth(Named(i)).ledger,
                   Worth(Moved(Named(i), 1)).ledger, Worth(Moved(Named(i), -1)).ledger)

(* "netting explicito": the exposure of a path to a portfolio whose trades  *)
(* do not share events is the positive part of what its trades, each of     *)
(* them evaluated on its own, still pay from the date on.  A running        *)
(* extremum is left out: it looks at the dates of all the trades.           *)
EventsOf(node) == {n.event : n \in {m \in Reference!Nodes(node) : "event" \in DOMAIN m}}
Separate(trades) ==
  /\ \A j, k \in DOMAIN trades : j # k => EventsOf(trades[j]) \cap EventsOf(trades[k]) = {}
  /\ \A n \in Reference!Nodes(program) : n.type \notin Running
StillPaid(trade, one, t) ==
  LET ledger == Reference!Evaluate(trade, one).ledger
      from == SelectSeq(ledger, LAMBDA flow : flow.time >= t)
  IN  PresentValue(from)
PortfolioNets ==
  /\ Comparable /\ request.measure = "exposure" /\ answer = "answered"
  /\ program.type = "both" /\ Separate(program.kids)
  => \A k \in DOMAIN request.exposure_times : \A i \in DOMAIN ledgers :
       LET net == Sum([j \in DOMAIN program.kids |->
                         StillPaid(program.kids[j], Named(i),
                                   request.exposure_times[k])])
       IN  measured[k].exposures[i] = Max({net, 0})

(* lrm.rs: a contract "con ContractOp::Exercise se rechaza explicito", and  *)
(* eval.rs: "crate::payoff::api nunca llame a evaluate/evaluate_with_events *)
(* sobre un programa con Exercise": what is evaluated with a right in it    *)
(* has been decided.                                                        *)
ExerciseIsDecided ==
  payoff # None /\ Exercises(payoff) # {} /\ ledgers # <<>> => decisions # <<>>
=============================================================================
