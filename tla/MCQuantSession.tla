--------------------------- MODULE MCQuantSession ---------------------------
(* One market "m", one model "hw", a swap "irs" in the document and one that *)
(* a trade brings; up to MaxRevision commands lists on each of two branches. *)
(* The value of a swap is quadratic in its parameters, so that differences  *)
(* are exact.                                                               *)
EXTENDS QuantSession

MCNpv(x) ==
  x.notional * ((x.r0 * x.r0 + 2 * x.r0 * x.a + x.b + x.sigma * x.sigma)
                  * Len(x.times) - 2 * x.fixed_rate)
MCGreek(x, target) ==
  x.notional * Len(x.times) *
    (CASE target = "r0" -> 2 * x.r0 + 2 * x.a
       [] target = "a" -> 2 * x.r0
       [] target = "b" -> 1
       [] target = "sigma" -> 2 * x.sigma)

MCIdOrder == <<"book", "hw", "irs", "m">>

FlatMarket == [r0 |-> 3]
FlatModel == [a |-> 2, b |-> 1, sigma |-> 2]
FlatSwap == [notional |-> 2, fixed_rate |-> 1, payment_times |-> <<1, 2>>,
             accruals |-> <<1, 1>>]
ParSwap == [payment_times |-> <<2>>, accruals |-> <<1>>, use_par_rate |-> TRUE]

Trade(product, quantity) ==
  [trade_id |-> "t", product_id |-> "irs", product |-> product, quantity |-> quantity]
Book == <<Trade(Absent, 1), Trade(ProductSpecOf(ParSwap), -2), Trade(Absent, 3)>>

Setup == <<Add("market", "m", FlatMarket), Add("product", "irs", FlatSwap),
           Add("portfolio", "book", Book), Add("model", "hw", FlatModel)>>

MCBatches ==
  {Setup, <<>>,
   <<Add("market", "m", [kind |-> "flat"]), Add("model", "hw", [r0 |-> 5] @@ FlatModel)>>,
   <<Add("market", "m", MarketToValue(MarketSpecOf(FlatMarket)))>>,
   <<Add("model", "hw", ToValue(ModelSpecOf(FlatModel)))>>,
   <<Add("product", "irs", ParSwap), RecordRun("op", Null), RemoveResource("portfolio", "book"),
     Add("portfolio", "book", Tail(Book))>>,
   <<Add("model", "hw", [kind |-> "hull_white", a |-> NotANumber]),
     RemoveResource("model", "hw"), RemoveResource("model", "hw")>>,
   <<Add("product", "irs", Null), RecordRun("", Null)>>,
   <<RemoveResource("market", "m"), Add("market", "m", [r0 |-> NotANumber])>>,
   <<Add("model", "hw", [model |-> "hull_white", a |-> 4])>>}

MCMutations ==
  {<<[op |-> "fork", branch_id |-> "what-if"]>>,
   <<Add("market", "m", MarketToValue([kind |-> "", params |-> [r0 |-> 7]])),
     [op |-> "fork", branch_id |-> "shock"]>>,
   <<Add("product", "irs", ToValue(ProductSpecOf(FlatSwap)))>>}

Curve(kind, n) == [kind |-> kind, name |-> "discount", bucket |-> n]
Ask == [operation_id |-> "risk", portfolio_id |-> "book", context |-> Absent,
        market |-> Absent, model |-> Absent, measures |-> <<>>, factors |-> <<>>,
        bump_scheme |-> "central", bump_size |-> Absent]
MCRiskAsks ==
  {Ask, [Ask EXCEPT !.bump_scheme = "one_sided", !.bump_size = 2],
   [Ask EXCEPT !.operation_id = ""],
   [Ask EXCEPT !.portfolio_id = "none"],
   [Ask EXCEPT !.measures = <<"pv", "delta">>,
               !.factors = <<Parameter("r0"), Curve("bucket", 0), Curve("pillar", 0),
                             Curve("bucket", 1), Parameter("a")>>],
   [Ask EXCEPT !.measures = <<"rho", "pv01", "rho">>,
               !.factors = <<Curve("pillar", 1), [kind |-> "parallel", name |-> "eur"],
                             Parameter("vol"), Parameter("b")>>],
   [Ask EXCEPT !.measures = <<"vega">>, !.factors = <<Parameter("theta")>>],
   [Ask EXCEPT !.measures = <<"delta">>, !.factors = <<[kind |-> "time", name |-> "1d"]>>,
               !.bump_scheme = "one_sided"]}
=============================================================================
