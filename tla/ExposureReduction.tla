------------------------- MODULE ExposureReduction -------------------------
(***************************************************************************)
(* quant-engine/src/xva.rs: the reduction of an exposure cube to EE, PFE    *)
(* and the valuation adjustments.  A pure function of the request and of    *)
(* the cubes.                                                               *)
(*                                                                          *)
(* Amounts, times, discount factors and spreads are integers.  A            *)
(* probability, recovery or confidence is a number of Units, Unit being     *)
(* one, so that CVA and DVA come out in Unit * Unit.  Means are exact for   *)
(* the cubes that the models use: their rows have one path, equal paths or  *)
(* even amounts on two paths.  exp(-h t) is the constant Survival.          *)
(***************************************************************************)
EXTENDS Integers, Sequences, SequencesExt

CONSTANTS Unit,
          Survival,        \* Survival[h][t], in Units, for a hazard rate h
                           \* and the times t that the models use
          Absent           \* an optional field that is not there

ASSUME ReductionAssumption ==
  /\ Unit \in Nat \ {0}
  /\ \A h \in DOMAIN Survival :
       /\ DOMAIN Survival[h] \subseteq Nat
       /\ 0 \in DOMAIN Survival[h] /\ Survival[h][0] = Unit
       /\ \A t, u \in DOMAIN Survival[h] :
            /\ Survival[h][t] \in 0 .. Unit
            /\ t <= u => Survival[h][u] <= Survival[h][t]

-----------------------------------------------------------------------------

PositivePart(v) == IF v > 0 THEN v ELSE 0
Magnitude(v) == IF v < 0 THEN -v ELSE v
Clamp(v, low, high) == IF v < low THEN low ELSE IF v > high THEN high ELSE v

Mean(row) == SumFunction(row) \div Len(row)

(* ExposureCubeInput::validate *)
ValidCube(cube) ==
  /\ cube.times # <<>>
  /\ Len(cube.paths) = Len(cube.times)
  /\ cube.times[1] >= 0
  /\ \A i \in 2 .. Len(cube.times) : cube.times[i] > cube.times[i - 1]
  /\ cube.paths[1] # <<>>
  /\ \A i \in DOMAIN cube.paths : Len(cube.paths[i]) = Len(cube.paths[1])
  /\ \/ cube.discount_factors = <<>>
     \/ /\ Len(cube.discount_factors) = Len(cube.times)
        /\ \A i \in DOMAIN cube.times : cube.discount_factors[i] >= 0

(* A hash that is not given matches any other. *)
SameSource(cube, context_hash) ==
  \/ Absent \in {cube.source_hash, context_hash}
  \/ cube.source_hash = context_hash

(* The checks at the head of calculate. *)
Admissible(ask, q, p) ==
  /\ ValidCube(q)
  /\ q.measure = "Q"
  /\ SameSource(q, ask.context_hash)
  /\ p # Absent => /\ ValidCube(p)
                   /\ p.measure = "P"
                   /\ p.times = q.times
                   /\ SameSource(p, ask.context_hash)
  /\ ask.confidence_level \in 0 .. Unit

-----------------------------------------------------------------------------

YearFraction(times, i) ==
  IF i = 1 THEN PositivePart(times[1]) ELSE PositivePart(times[i] - times[i - 1])

Discount(cube, i) ==
  IF i \in DOMAIN cube.discount_factors THEN cube.discount_factors[i] ELSE 1

\* Mutant: each date counts the defaults from the start on.
DefaultIncrement_FromStart(spec, times, i) ==
  IF i \in DOMAIN spec.survival
  THEN PositivePart(Unit - spec.survival[i])
  ELSE Unit - Survival[spec.hazard][times[i]]

(* default_increment: the survival curve where it is given, the hazard rate *)
(* from there on.                                                           *)
DefaultIncrement(spec, times, i) ==
  IF i \in DOMAIN spec.survival
  THEN PositivePart((IF i = 1 THEN Unit ELSE spec.survival[i - 1]) - spec.survival[i])
  ELSE LET start == IF i = 1 THEN 0 ELSE times[i - 1]
           end   == IF times[i] > start THEN times[i] ELSE start
       IN  Survival[spec.hazard][start] - Survival[spec.hazard][end]

LossGivenDefault(spec) == Unit - Clamp(spec.recovery, 0, Unit)

(* collateral_adjust: variation margin under the first agreement. *)
CollateralAdjust(v, agreements) ==
  IF agreements = <<>> \/ ~Head(agreements).variation_margin
  THEN v
  ELSE LET csa == Head(agreements)
           collateral == PositivePart(Magnitude(v) - PositivePart(csa.threshold))
           moved == collateral + PositivePart(csa.independent_amount)
       IN  IF collateral < PositivePart(csa.minimum_transfer) THEN v
           ELSE IF v >= 0 THEN v - moved ELSE v + moved

(* quantile: the index is rounded, halves up. *)
Quantile(row, level) ==
  SortSeq(row, <)[1 + ((2 * (Len(row) - 1) * Clamp(level, 0, Unit) + Unit)
                          \div (2 * Unit))]

Positives(cube, i, agreements) ==
  [k \in DOMAIN cube.paths[i] |->
     PositivePart(CollateralAdjust(cube.paths[i][k], agreements))]
Negatives(cube, i, agreements) ==
  [k \in DOMAIN cube.paths[i] |->
     PositivePart(-CollateralAdjust(cube.paths[i][k], agreements))]

\* Mutant: DVA is taken from the Q cube although a P cube is there.
DvaCube_Q(q, p) == q

(* The cube that drives DVA. *)
DvaCube(q, p) == IF p = Absent THEN q ELSE p

(* calculate, for admissible cubes. *)
Reduction(ask, q, p) ==
  LET csas == ask.collateral_agreements
      dates == DOMAIN q.times
      ee == [i \in dates |-> Mean(Positives(q, i, csas))]
      ene == [i \in dates |-> Mean(Negatives(DvaCube(q, p), i, csas))]
      year == [i \in dates |-> YearFraction(q.times, i)]
      Discounted(term) == SumFunction([i \in dates |-> Discount(q, i) * term[i]])
      Loss(exposure, spec) ==
        Discounted([i \in dates |-> exposure[i] * LossGivenDefault(spec)
                                      * DefaultIncrement(spec, q.times, i)])
  IN  [ee  |-> ee,
       pfe |-> [i \in dates |-> Quantile(Positives(q, i, csas), ask.confidence_level)],
       cva |-> Loss(ee, ask.counterparty),
       dva |-> Loss(ene, ask.own),
       fva |-> Discounted([i \in dates |-> ee[i] * year[i] * ask.funding.spread]),
       mva |-> Discounted([i \in dates |-> year[i] * ask.funding.borrowing
                 * SumFunction([k \in DOMAIN csas |-> PositivePart(csas[k].initial_margin)])]),
       kva |-> Discounted([i \in dates |->
                 ee[i] * year[i] * PositivePart(ask.funding.capital)]),
       cubes |-> 1,
       approximations |->
         (IF p = Absent THEN {"DvaFromQ"} ELSE {})
           \cup (IF csas # <<>> THEN {"FirstAgreement"} ELSE {})]

=============================================================================
