-------------------------- MODULE MCPayoffPricing --------------------------
(* Two observables, dates 1 to 3, values around the barriers 20 and 40; the *)
(* exercise right is a put struck at 40 on two dates and four paths, three  *)
(* of which are in the money with different spots on the first date.        *)
(* Values are multiples of ten, so that a tenth of them is whole.           *)
EXTENDS PayoffPricing

Term(type, kids) == [type |-> type, kids |-> kids]
Num(n) == [type |-> "constant", value |-> 10 * n, kids |-> <<>>]
Fix(o, t) == [type |-> "fixing", observable |-> o, time |-> t, kids |-> <<>>]
Spot(o) == [type |-> "current", observable |-> o, kids |-> <<>>]
Run(type, o) == [type |-> type, observable |-> o, kids |-> <<>>]
Avg(o, schedule, weights) ==
  [type |-> "average", observable |-> o, schedule |-> schedule, weights |-> weights,
   kids |-> <<>>]
Captured(e, o) == [type |-> "event_value", event |-> e, observable |-> o, kids |-> <<>>]
Occurred(e) == [type |-> "event_occurred", event |-> e, kids |-> <<>>]
Pay(amount) == [type |-> "cashflow", currency |-> "USD", kids |-> <<amount>>]
When(t, child) == [type |-> "when", time |-> t, kids |-> <<child>>]
Above(x, y) == Term("greater_equal", <<x, y>>)
Below(x, y) == Term("less_equal", <<x, y>>)
Monitored(e, times, condition, hit, miss) ==
  [type |-> "trigger", event |-> e, times |-> times, monitoring |-> "discrete",
   settlement |-> "at_hit", priority |-> 10, latch |-> TRUE,
   kids |-> <<condition, hit, miss>>]

\* The up-and-in call of docs/schema, with a rebate.
UpAndIn ==
  [Monitored("UI", <<1, 2, 3>>, Above(Spot("X"), Num(4)),
             When(3, Pay(Term("max", <<Term("sub", <<Fix("X", 3), Num(2)>>), Num(0)>>))),
             When(3, Pay(Num(1))))
     EXCEPT !.settlement = "at_scheduled_payment"]

Guarded(e, other, condition) == Term("all", <<condition, Term("not", <<Occurred(other)>>)>>)
\* Take profit on X and stop loss on Y, so that both may hold at one date.
TpSl(tp, sl) ==
  LET rule(e, other, o, condition, priority) ==
        [Monitored(e, <<1, 2>>, Guarded(e, other, condition), Pay(Captured(e, o)),
                   Term("zero", <<>>)) EXCEPT !.priority = priority]
  IN  Term("both", <<rule("TP", "SL", "X", Above(Spot("X"), Num(4)), tp),
                     rule("SL", "TP", "Y", Below(Spot("Y"), Num(2)), sl)>>)

\* An event that follows the spot, with a second one that reads its value.
Follower ==
  LET follows == [Monitored("F", <<1, 2>>, Above(Spot("X"), Spot("Y")),
                        Pay(Captured("F", "Y")), Term("zero", <<>>))
                EXCEPT !.latch = FALSE, !.priority = 5]
      reads == Monitored("G", <<2>>,
                Term("all", <<Occurred("F"), Above(Captured("F", "X"), Num(4))>>),
                Term("scale", <<Spot("Y"), Pay(Num(2))>>), When(2, Pay(Num(0))))
  IN  Term("give", <<Term("both", <<follows, reads>>)>>)

\* Not guarded: the value is wanted although the event may not have occurred.
Careless ==
  Term("both",
       <<Monitored("A", <<1, 2>>, Term("any", <<Above(Captured("B", "X"), Num(4)),
                                              Occurred("B")>>),
                   Pay(Num(1)), Term("zero", <<>>)),
         [Monitored("B", <<1>>, Above(Spot("X"), Num(4)), Pay(Num(2)), Pay(Num(3)))
            EXCEPT !.priority = 1]>>)

\* An Asian option, a lookback and a spread, with what they share.
Basket ==
  LET spread == Term("sub", <<Fix("X", 2), Fix("Y", 2)>>)
      asian == Avg("X", <<1, 2>>, <<1, 2>>)
      look == Term("sub", <<Run("running_max", "X"), Run("running_min", "X")>>)
  IN  Term("both",
        <<When(1, Term("scale", <<look, Pay(asian)>>)),
          When(2, Term("if", <<Term("between", <<spread, Num(-2), Num(2)>>)
                                 @@ [low_inclusive |-> TRUE, high_inclusive |-> FALSE],
                               Pay(Term("clamp", <<spread, Num(-1), Num(1)>>)),
                               Term("give", <<Pay(look)>>)>>)),
          Term("give", <<When(2, Pay(Term("abs", <<spread>>)))>>)>>)

Continuous(direction) ==
  [Monitored("K", <<1, 2, 3>>, Term(direction, <<Spot("X"), Num(3)>>),
             Pay(Num(1)), Term("zero", <<>>))
     EXCEPT !.monitoring = "continuous_approximation"]

Unsound == {[Monitored("U", <<1>>, Above(Spot("X"), Num(4)), Pay(Num(1)), Term("zero", <<>>))
              EXCEPT !.settlement = "at_scheduled_payment"],
            Pay(Num(1)), Term("zero", <<>>),
            When(1, Pay(Avg("X", <<2, 1>>, <<1, 1>>))),
            [Continuous("less_equal") EXCEPT
               !.kids[1] = Term("less_equal", <<Num(3), Spot("X")>>)],
            Term("both", <<When(1, Pay(Num(1))),
                           When(1, [Pay(Num(1)) EXCEPT !.currency = "EUR"])>>)}

\* One observable: what is paid at a hit, and every kind of amount.
Touch == Monitored("T", <<1, 2>>, Above(Spot("X"), Num(4)),
                   Pay(Captured("T", "X")), When(3, Pay(Fix("X", 1))))
Mixed ==
  Term("both",
    <<When(1, Pay(Term("abs", <<Term("sub", <<Spot("X"), Num(3)>>)>>))),
      Term("give", <<When(3, Pay(Term("sub", <<Run("running_max", "X"),
                                               Run("running_min", "X")>>)))>>),
      When(2, Term("if", <<Term("less", <<Spot("X"), Num(4)>>),
                           Pay(Term("clamp", <<Avg("X", <<1, 2>>, <<1, 1>>), Num(3), Num(7)>>)),
                           Term("scale", <<Num(1), Pay(Term("neg", <<Spot("X")>>))>>)>>)),
      When(3, Pay(Term("min", <<Term("mul", <<Spot("X"), Num(1)>>),
                                Term("mul", <<Num(2), Fix("X", 2)>>)>>)))>>)
Forward(t) == When(t, Pay(Term("sub", <<Spot("X"), Num(3)>>)))
Trades == Term("both", <<UpAndIn, Term("give", <<Forward(1)>>), Touch, Forward(2)>>)

Put(t) == Term("sub", <<Num(4), t>>)
Right(event, value, continuation) ==
  [type |-> "exercise", event |-> event, times |-> <<1, 2>>, kids |-> <<value, continuation>>]
Bermudan == Right("EX", Put(Spot("X")), When(2, Pay(Num(2))))
European == [Right("EX", Put(Spot("X")), When(1, Pay(Num(2)))) EXCEPT !.times = <<1>>]
\* It continues with a knock-out, and the counterparty holds it.
Knocked ==
  Term("give", <<Right("EX", Put(Spot("X")),
                       Monitored("KO", <<1, 2>>, Below(Spot("X"), Num(1)),
                                 Term("zero", <<>>), When(2, Pay(Num(1)))))>>)
Inside == When(2, Right("EX", Put(Spot("X")), Pay(Num(1))))

Asked(measure, under, contract) ==
  [program |-> contract, measure |-> measure, under |-> under, observables |-> {"X"},
   today |-> 0, n_paths |-> 1, greek |-> "spot", other |-> "volatility", event |-> "UI",
   confidence |-> 75, exposure_times |-> <<0, 2, 4>>]
Batched(ask) == [ask EXCEPT !.n_paths = 4]

Plain ==
  {UpAndIn, TpSl(10, 20), TpSl(20, 20), TpSl(20, 10), Follower, Careless, Basket} \cup Unsound
Priced ==
  {[Asked("basket", "Q", contract) EXCEPT !.observables = {"X", "Y"}] : contract \in Plain}
    \cup {Asked("price", "Q", Continuous(direction)) :
            direction \in {"greater_equal", "less_equal"}}
    \cup {[Asked("price", "Q", UpAndIn) EXCEPT !.today = 1],
          [Asked("price", "Q", UpAndIn) EXCEPT !.n_paths = 0],
          [Asked("price", "Q", UpAndIn) EXCEPT !.observables = {"Y"}],
          [Asked("price", "Q", UpAndIn) EXCEPT !.observables = {"X", "Y"}],
          [Asked("basket", "Q", UpAndIn) EXCEPT !.observables = {}],
          Asked("basket", "Q", Continuous("less_equal")), Asked("forecast", "P", Bermudan)}
Rights ==
  {Batched(Asked("exercise", "Q", contract)) : contract \in {Bermudan, Knocked, Inside, UpAndIn}}
    \cup {Batched(Asked("greek", "Q", European)), Asked("greek", "P", European)}
Derived ==
  {[Asked("greek", under, contract) EXCEPT !.greek = greek] :
     under \in {"Q", "P"}, contract \in {UpAndIn, Touch, Mixed},
     greek \in {"spot", "rate", "mu", "dividend_yield", "volatility"}}
    \cup {[Asked(measure, under, contract) EXCEPT !.greek = greek] :
            measure \in SecondOrder, under \in {"Q", "P"}, greek \in {"spot", "rate"},
            contract \in {Forward(1), UpAndIn}}
Exposures ==
  {Asked("exposure", "Q", Trades), Batched(Asked("exposure", "Q", Mixed)),
   [Asked("exposure", "Q", Forward(1)) EXCEPT !.exposure_times = <<>>],
   [Asked("exposure", "Q", Forward(1)) EXCEPT !.exposure_times = <<-1>>]}
Predicted ==
  {Batched(Asked(measure, "P", contract)) :
     measure \in {"forecast", "pnl", "hit"}, contract \in {UpAndIn, Touch, Forward(0)}}
    \cup {Batched(Asked("hit", "Q", UpAndIn)),
          [Batched(Asked("pnl", "P", UpAndIn)) EXCEPT !.confidence = 100],
          [Batched(Asked("pnl", "P", UpAndIn)) EXCEPT !.confidence = 90]}
MCRequests == Priced \cup Rights \cup Derived \cup Exposures \cup Predicted
UndecidedRights == {Asked("gamma", "Q", European)}

\* Every path alone; four paths that differ first in the fourth, and then on date 2.
MCBatch(slots, times, ask) ==
  IF ask.n_paths = 1
  THEN {<<one>> : one \in [slots -> [times -> {10, 30, 50}]]}
  ELSE {[i \in 1 .. 4 |-> [o \in slots |-> [t \in times |->
          CASE t = 1 -> 10 * first[i] [] t = 2 -> 10 * second[i] [] OTHER -> 30]]] :
          first \in {<<1, 2, 3, x>> : x \in IF ask.measure = "exercise" THEN {1, 3, 5} ELSE {5}},
          second \in {<<1, 2, 3, 1>>, <<3, 2, 1, 5>>, <<5, 5, 2, 2>>, <<1, 1, 1, 1>>}}
MCBrownian(t, x) == x \div 10 - 2 + t
MCEventOrder == <<"A", "B", "EX", "F", "G", "K", "KO", "SL", "T", "TP", "U", "UI">>
=============================================================================
