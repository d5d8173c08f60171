------------------------------ MODULE MCXvaRun ------------------------------
(* Requests: one base request and its variations, one thing at a time, with *)
(* and without cubes.  Portfolios: every one of at most two trades, in all  *)
(* netting sets, with distinct or with equal ids; three trades in three     *)
(* sets; and, for the pricing call alone, longer ones.                      *)
EXTENDS XvaRun

CONSTANTS swap5y, swap10y, option, irs, fx, MaxTrades

MCProducts == {swap5y, swap10y, option}
MCLayout == swap5y :> irs @@ swap10y :> irs @@ option :> fx
(* The sorting helpers are those of the library. *)
ASSUME \A n \in 0 .. 4 : \A s \in [1 .. n -> 1 .. 3] :
         /\ Sorted(s) = SortSeq(s, <)
         /\ InOrder(ToSet(s)) = SetToSortSeq(ToSet(s), <)

MCWorth == swap5y :> 4 @@ swap10y :> -6 @@ option :> 2
MCPortfolios ==
  UNION {[1 .. n -> MCProducts \cup {NotEmbedded}] : n \in 0 .. MaxTrades}

MCSurvival == [h \in 0 .. 1 |-> IF h = 0 THEN [t \in 0 .. 3 |-> 4]
                                ELSE 0 :> 4 @@ 1 :> 3 @@ 2 :> 1 @@ 3 :> 1]

QCube == [measure |-> "Q", times |-> <<1, 3>>, paths |-> <<<<4, -4>>, <<8, -2>>>>,
          discount_factors |-> <<3, 1>>, source_hash |-> Absent]
PCube == [QCube EXCEPT !.measure = "P", !.paths = <<<<2>>, <<4>>>>,
                       !.discount_factors = <<>>]
QCubes == {QCube,
           [QCube EXCEPT !.discount_factors = <<>>, !.source_hash = "h2"],
           [QCube EXCEPT !.paths = <<<<-4, -2>>, <<2, 6>>>>],
           [QCube EXCEPT !.times = <<0, 1>>],
           [QCube EXCEPT !.times = <<2, 2>>],
           [QCube EXCEPT !.paths = <<<<4>>, <<4, 8>>>>],
           [QCube EXCEPT !.discount_factors = <<1>>],
           PCube}
PCubes == {PCube, [PCube EXCEPT !.paths = <<<<-2, 4>>, <<2, -6>>>>],
           [PCube EXCEPT !.times = <<1, 2>>], [PCube EXCEPT !.measure = "Q"]}

Margin == [variation_margin |-> TRUE, threshold |-> 2, minimum_transfer |-> 2,
           independent_amount |-> 0, initial_margin |-> 2]
Margins == {Margin, [Margin EXCEPT !.minimum_transfer = 6],
            [Margin EXCEPT !.variation_margin = FALSE, !.initial_margin = -2],
            [Margin EXCEPT !.threshold = 1, !.independent_amount = 2]}

Base == [operation_id |-> "run", hash_verifies |-> TRUE, resolves |-> TRUE,
         q_exposure |-> Absent, p_exposure |-> Absent,
         collateral_agreements |-> <<>>,
         counterparty |-> [hazard |-> 1, recovery |-> 1, survival |-> <<>>],
         own |-> [hazard |-> 1, recovery |-> 2, survival |-> <<>>],
         funding |-> [spread |-> 1, borrowing |-> 2, capital |-> 1],
         confidence_level |-> 3, context_hash |-> "h1",
         n_steps |-> 2, n_paths |-> 2, memory_budget |-> Absent]

(* One thing changed. *)
Varied(ask) ==
  {ask}
    \cup {[ask EXCEPT !.collateral_agreements = <<m>>] : m \in Margins}
    \cup {[ask EXCEPT !.collateral_agreements = <<Margin, Margin>>],
          [ask EXCEPT !.confidence_level = 5],
          [ask EXCEPT !.memory_budget = 3],
          [ask EXCEPT !.counterparty.survival = <<0>>],
          [ask EXCEPT !.counterparty.survival = <<1, 0, 0>>],
          [ask EXCEPT !.counterparty.recovery = 5]}

(* Requests that bring their cubes. *)
WithCubes ==
  UNION {Varied([Base EXCEPT !.q_exposure = q, !.p_exposure = p]) :
           q \in QCubes, p \in PCubes \cup {Absent}}

(* Requests whose cube comes from the portfolio. *)
Derives ==
  Varied(Base)
    \cup {[Base EXCEPT !.n_steps = 0, !.n_paths = 9],
          [Base EXCEPT !.resolves = FALSE],
          [Base EXCEPT !.hash_verifies = FALSE],
          [Base EXCEPT !.operation_id = ""],
          [Base EXCEPT !.p_exposure = [PCube EXCEPT !.times = <<1, 2>>]]}

MCXvaRequests == WithCubes \cup Derives

Input(trades, ask, sets, ids) == /\ portfolio = trades
                                 /\ xva = ask
                                 /\ netting_set = sets
                                 /\ trade_id = ids

MCInit ==
  /\ \/ \E ask \in MCXvaRequests : Input(<<>>, ask, <<>>, <<>>)
     \/ \E trades \in {p \in MCPortfolios : Len(p) \in 1 .. 2}
                          \cup {<<swap5y, option, swap10y>>} :
          \E sets \in [DOMAIN trades -> NettingSets \cup {Absent}] :
            \/ \E ask \in Derives :
                 Input(trades, ask, sets, [i \in DOMAIN trades |-> i])
            \/ Input(trades, Base, sets, [i \in DOMAIN trades |-> 1])
     \/ \E trades \in {p \in MCPortfolios : Len(p) > 2} :
          Input(trades, Base, [i \in DOMAIN trades |-> Absent],
                [i \in DOMAIN trades |-> i])
  /\ XvaInit

MCSpec == MCInit /\ [][XvaNext]_xvaVars
=============================================================================
