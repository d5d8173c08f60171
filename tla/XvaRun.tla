------------------------------- MODULE XvaRun -------------------------------
(***************************************************************************)
(* calculate_xva_with_control of quant-engine/src/lib.rs: a cube of the     *)
(* request is reduced as it is; without one, the portfolio is priced (the   *)
(* call of PortfolioPricing), its values are netted by netting set, and one *)
(* flat cube is built from the totals, or one for each set.                 *)
(*                                                                          *)
(* A time step of a derived cube is one unit of time.                       *)
(***************************************************************************)
EXTENDS PortfolioPricing, ExposureReduction, FiniteSetsExt

CONSTANTS Worth,               \* what the kernels compute for each product
          XvaRequests,
          NettingSets,
          DefaultSet,          \* "__default__"
          TradeIds,
          max_derived_paths    \* 1_000 in the code

(* What the deserialised requests are made of, and the times that a CVA     *)
(* looks up in Survival: those of its Q cube, or of a cube to be derived.   *)
TypedCube(cube) == /\ cube.times \in Seq(Int)
                   /\ cube.paths \in Seq(Seq(Int))
                   /\ cube.discount_factors \in Seq(Int)
Agreements == [variation_margin : BOOLEAN, threshold : Int, minimum_transfer : Int,
               independent_amount : Int, initial_margin : Int]
Steps(ask) == IF ask.n_steps = 0 THEN 1 ELSE ask.n_steps
TimesOf(ask) == IF ask.q_exposure = Absent THEN 1 .. Steps(ask)
                ELSE ToSet(ask.q_exposure.times) \cap Nat
TypedRequest(ask) ==
  /\ ask.q_exposure # Absent => TypedCube(ask.q_exposure)
  /\ ask.collateral_agreements \in Seq(Agreements)
  /\ ask.counterparty.recovery \in Int
  /\ ask.counterparty.survival \in Seq(Int)
  /\ ask.counterparty.hazard \in DOMAIN Survival
  /\ TimesOf(ask) \subseteq DOMAIN Survival[ask.counterparty.hazard]
  /\ ask.n_steps \in Nat
  /\ ask.n_paths \in Nat

ASSUME XvaAssumption == /\ Worth \in [Products -> Int]
                        /\ \A ask \in XvaRequests : TypedRequest(ask)
                        /\ DefaultSet \notin NettingSets
                        /\ max_derived_paths \in Nat \ {0}

VARIABLES xva,                 \* the request
          netting_set,         \* per trade, its netting set or Absent
          trade_id,            \* per trade
          stage,               \* where the handler is
          q_cube,              \* the cube to reduce
          xva_result

xvaInputs == <<xva, netting_set, trade_id>>
xvaVars == <<vars, xvaInputs, stage, q_cube, xva_result>>

Stages == {"idle", "pricing", "reducing", "Ok", "Cancelled", "InvalidRequest",
           "Domain"}

XvaInit == /\ Init
           /\ xva \in XvaRequests
           /\ netting_set \in [DOMAIN portfolio -> NettingSets \cup {Absent}]
           /\ trade_id \in [DOMAIN portfolio -> TradeIds]
           /\ stage = "idle"
           /\ q_cube = Absent
           /\ xva_result = Absent

(* The handler returns. *)
Return(how, what) == /\ stage' = how
                     /\ xva_result' = what
                     /\ UNCHANGED <<xvaInputs, q_cube>>

-----------------------------------------------------------------------------

(* Up to the choice of the cube. *)
StartXva ==
  /\ stage = "idle"
  /\ UNCHANGED vars
  /\ IF cancelled
     THEN Return("Cancelled", Absent)
     ELSE IF xva.operation_id = "" \/ ~xva.hash_verifies
     THEN Return("InvalidRequest", Absent)
     ELSE IF xva.q_exposure # Absent
     THEN /\ q_cube' = xva.q_exposure
          /\ stage' = "reducing"
          /\ UNCHANGED <<xvaInputs, xva_result>>
     ELSE IF ~xva.resolves
     THEN Return("Domain", Absent)
     ELSE Return("pricing", Absent)

(* The call of price_portfolio_with_control runs. *)
PriceBook == /\ stage = "pricing"
             /\ Begin(<<>>) \/ Pricing
             /\ UNCHANGED <<xvaInputs, stage, q_cube, xva_result>>

(* The row that find gives for a trade: the first one with its id. *)
RowsOf(i) == {k \in DOMAIN result.trades :
                trade_id[result.trades[k].index] = trade_id[i]}
ValueFound(i) == LET row == result.trades[Min(RowsOf(i))]
                 IN  Worth[row.value[2]]

SetOf(i) == IF netting_set[i] = Absent THEN DefaultSet ELSE netting_set[i]

(* The BTreeMap of totals. *)
Grouped ==
  LET found == {i \in DOMAIN portfolio : RowsOf(i) # {}}
  IN  [s \in {SetOf(i) : i \in found} |->
         SumFunction([i \in {k \in found : SetOf(k) = s} |-> ValueFound(i)])]

(* A cube with one value on every date and path. *)
FlatCube(value) ==
  [measure |-> "Q",
   times |-> [i \in 1 .. Steps(xva) |-> i],
   paths |-> [i \in 1 .. Steps(xva) |->
                [k \in 1 .. Clamp(xva.n_paths, 1, max_derived_paths) |-> value]],
   discount_factors |-> <<>>,
   source_hash |-> xva.context_hash]

(* The partial results of the sets, added up. *)
Aggregate(totals) ==
  LET sets == DOMAIN totals
      partial == [s \in sets |-> Reduction(xva, FlatCube(totals[s]), xva.p_exposure)]
      steps == 1 .. Steps(xva)
  IN  [ee  |-> [i \in steps |-> SumFunction([s \in sets |-> partial[s].ee[i]])],
       pfe |-> [i \in steps |-> SumFunction([s \in sets |-> partial[s].pfe[i]])],
       cva |-> SumFunction([s \in sets |-> partial[s].cva]),
       dva |-> SumFunction([s \in sets |-> partial[s].dva]),
       fva |-> SumFunction([s \in sets |-> partial[s].fva]),
       mva |-> SumFunction([s \in sets |-> partial[s].mva]),
       kva |-> SumFunction([s \in sets |-> partial[s].kva]),
       cubes |-> SumFunction([s \in sets |-> partial[s].cubes]),
       approximations |->
         UNION {partial[s].approximations : s \in sets} \cup {"SetsApart"}]

\* Mutant: two sets are still netted together.
NettedTogether_Two(totals) ==
  Cardinality(DOMAIN totals) <= 2 \/ xva.p_exposure # Absent

(* When the totals of all sets go into one cube. *)
NettedTogether(totals) ==
  Cardinality(DOMAIN totals) <= 1 \/ xva.p_exposure # Absent

(* The portfolio is priced: netting, and the cube or the sum over the sets. *)
NetBook ==
  /\ stage = "pricing"
  /\ pc = "done"
  /\ UNCHANGED vars
  /\ IF answer # "Ok"
     THEN Return(answer, Absent)
     ELSE IF NettedTogether(Grouped)
     THEN /\ q_cube' = FlatCube(SumFunction(Grouped))
          /\ stage' = "reducing"
          /\ UNCHANGED <<xvaInputs, xva_result>>
     ELSE IF \A s \in DOMAIN Grouped :
               Admissible(xva, FlatCube(Grouped[s]), xva.p_exposure)
     THEN Return("Ok", Aggregate(Grouped))
     ELSE Return("InvalidRequest", Absent)

(* estimate_memory_bytes, in f64s. *)
Size(cube) == SumFunction([i \in DOMAIN cube.paths |-> Len(cube.paths[i])])

(* The budget, and the reduction of one cube. *)
ReduceCube ==
  /\ stage = "reducing"
  /\ UNCHANGED vars
  /\ IF \/ xva.memory_budget # Absent /\ Size(q_cube) > xva.memory_budget
        \/ ~Admissible(xva, q_cube, xva.p_exposure)
     THEN Return("InvalidRequest", Absent)
     ELSE Return("Ok", Reduction(xva, q_cube, xva.p_exposure))

XvaStep == StartXva \/ PriceBook \/ NetBook \/ ReduceCube

XvaNext == \/ Cancel /\ UNCHANGED <<xvaInputs, stage, q_cube, xva_result>>
           \/ XvaStep

XvaSpec == XvaInit /\ [][XvaNext]_xvaVars

-----------------------------------------------------------------------------

(* What netting owes the portfolio, from the values of its trades: a set is *)
(* exposed on its own total, and the sets' exposures add up.                *)
Derived == stage = "Ok" /\ xva.q_exposure = Absent
DistinctIds == \A i, k \in DOMAIN trade_id : trade_id[i] = trade_id[k] => i = k
OwnTotal(s) ==
  SumFunction([i \in {k \in Priced : netting_set[k] = s} |-> Worth[portfolio[i]]])
ExposureOfSets ==
  SumFunction([s \in {netting_set[i] : i \in Priced} |->
    PositivePart(CollateralAdjust(OwnTotal(s), xva.collateral_agreements))])

(* The comment in calculate_xva_with_control: "Each declared/default set is *)
(* reduced independently, then the resulting XVAs are added; this avoids    *)
(* the incorrect shortcut of netting unrelated counterparties together."    *)
SetsReducedApart ==
  Derived /\ DistinctIds =>
    \A i \in DOMAIN xva_result.ee : xva_result.ee[i] = ExposureOfSets

(* The same for the requests without a P cube and for portfolios in which   *)
(* something was priced: whatever failed in pricing, and however the trades *)
(* of the sets are mixed in the portfolio, no exposure crosses a set.       *)
SetsApartWithoutP ==
  xva.p_exposure = Absent /\ Priced # {}
    => SetsReducedApart

(* The increments of a decreasing default curve add up to no more than one, *)
(* so CVA stays below the loss on the largest discounted exposure; on any   *)
(* grid, with one cube or with one for each set.  A given curve that ends   *)
(* before the grid goes on with the hazard rate from the date of its end,   *)
(* as if nothing had defaulted: it counts a default up to twice.            *)
Decreasing(spec) ==
  /\ \A i \in DOMAIN spec.survival : spec.survival[i] \in 0 .. Unit
  /\ \A i \in 2 .. Len(spec.survival) : spec.survival[i] <= spec.survival[i - 1]
DefaultsCounted(spec, steps) ==
  IF spec.survival = <<>> \/ Len(spec.survival) >= steps THEN Unit ELSE 2 * Unit
DiscountAt(i) == IF xva.q_exposure = Absent THEN 1 ELSE Discount(xva.q_exposure, i)
LossBounded ==
  stage = "Ok" /\ Decreasing(xva.counterparty) =>
    \E i \in DOMAIN xva_result.ee :
      xva_result.cva <= DiscountAt(i) * xva_result.ee[i]
                          * LossGivenDefault(xva.counterparty)
                          * DefaultsCounted(xva.counterparty, Len(xva_result.ee))

(* The inductive invariant behind the theorems of XvaProofs: the portfolio  *)
(* is settled as in the call on its own, the rows that netting looks up are *)
(* those of all priced trades, and the cube and the figures are those of    *)
(* the request or of what was priced, which nothing changes any more.       *)
XvaTypeOK == /\ xva \in XvaRequests
             /\ netting_set \in [DOMAIN portfolio -> NettingSets \cup {Absent}]
             /\ DOMAIN trade_id = DOMAIN portfolio
             /\ stage \in Stages
RowsComplete ==
  answer = "Ok" => {result.trades[k].index : k \in DOMAIN result.trades} = Priced
Book == FlatCube(SumFunction(Grouped))
BookFollows(q) == /\ xva.q_exposure = Absent
                  /\ answer = "Ok"
                  /\ NettedTogether(Grouped)
                  /\ q = Book
CubeFollows ==
  /\ stage = "pricing" => xva.q_exposure = Absent
  /\ stage = "reducing" => \/ xva.q_exposure # Absent /\ q_cube = xva.q_exposure
                           \/ BookFollows(q_cube)
Figures(q) == /\ Admissible(xva, q, xva.p_exposure)
              /\ xva_result = Reduction(xva, q, xva.p_exposure)
FiguresFollow ==
  stage = "Ok" =>
    \/ xva.q_exposure # Absent /\ Figures(xva.q_exposure)
    \/ BookFollows(Book) /\ Figures(Book)
    \/ /\ xva.q_exposure = Absent
       /\ answer = "Ok"
       /\ ~NettedTogether(Grouped)
       /\ xva_result = Aggregate(Grouped)
XvaIInv == IInv /\ XvaTypeOK /\ RowsComplete /\ CubeFollows /\ FiguresFollow
=============================================================================
