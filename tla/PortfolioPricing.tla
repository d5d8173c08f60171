-------------------------- MODULE PortfolioPricing --------------------------
(***************************************************************************)
(* price_portfolio_with_control of quant-engine/src/lib.rs with the part of *)
(* KernelRegistry it uses (planner.rs).  One thread runs it, while the      *)
(* client may raise the cancellation flag at any moment; the flag is read   *)
(* at the start, before each group and before each batch.                   *)
(*                                                                          *)
(* A trade is its product, or NotEmbedded.  Trades whose products have the  *)
(* same layout form a group; a group is compiled as a whole and executed in *)
(* batches.  What a kernel computes is named by the market and the product; *)
(* the multiplication by the trade's quantity is left out.  The plan cache  *)
(* is left out too: its key covers all that the numbers depend on.          *)
(***************************************************************************)
EXTENDS Naturals, Sequences, FiniteSets, SequencesExt

CONSTANTS Products,
          NotEmbedded,     \* a trade without a product
          NoValue,
          Layout,          \* compatibility_layout_key of each product
          Portfolios,      \* the portfolios a client may send
          \* EngineConfig
          max_products,
          max_batch_items

ASSUME PortfolioAssumption ==
  /\ NotEmbedded \notin Products
  /\ Products \subseteq DOMAIN Layout
  /\ Portfolios \subseteq Seq(Products \cup {NotEmbedded})
  /\ NoValue \notin Seq(Nat) \X Products
  /\ max_products \in Nat
  /\ max_batch_items \in Nat

VARIABLES portfolio,         \* the request
          market,            \* the shocks applied to the request's market
          cancelled,         \* ExecutionControl
          processed_chunks,
          total_chunks,
          pc,                \* where the thread is
          waiting,           \* the layouts of the groups not yet taken
          members,           \* the group at hand: indices into the portfolio
          batches,           \* the rest of its plan
          cursor,            \* members already executed
          values,            \* per index, a price or NoValue
          failures,          \* indices, in the order they failed
          chunks,
          answer,            \* how the call returned
          result

request == <<portfolio, market>>
control == <<cancelled, processed_chunks, total_chunks>>
plan == <<members, batches, cursor>>
books == <<values, failures, chunks>>
vars == <<request, control, pc, waiting, plan, books, answer, result>>

Positions == {"idle", "groups", "batches", "executing", "done"}
Answers == {"none", "Ok", "Cancelled", "InvalidRequest"}

-----------------------------------------------------------------------------

Price(m, product) == <<m, product>>
Prices == Seq(Nat) \X Products

AtLeastOne(n) == IF n = 0 THEN 1 ELSE n
CeilDiv(n, d) == (n + d - 1) \div d

(* slice::chunks *)
Chunks(s, n) ==
  [k \in 1 .. CeilDiv(Len(s), n) |->
     SubSeq(s, (k - 1) * n + 1, IF k * n < Len(s) THEN k * n ELSE Len(s))]

(* sort_by_key, which is stable: each element goes to the place that the    *)
(* smaller ones, and the equal ones before it, leave to it.  (Equal to      *)
(* SortSeq(s, <) of the library, which the prover cannot expand.)           *)
Before(s, k, i) == s[k] < s[i] \/ (s[k] = s[i] /\ k <= i)
Place(s, i) == Cardinality({k \in DOMAIN s : Before(s, k, i)})
Sorted(s) == [n \in DOMAIN s |-> s[CHOOSE i \in DOMAIN s : Place(s, i) = n]]

(* The indices that a pass over the portfolio collects. *)
InOrder(S) == [n \in 1 .. Cardinality(S) |->
                 CHOOSE i \in S : Cardinality({k \in S : k <= i}) = n]

(* The first pass over the trades. *)
Missing == InOrder({i \in DOMAIN portfolio : portfolio[i] = NotEmbedded})
Layouts == {Layout[p] : p \in ToSet(portfolio) \ {NotEmbedded}}
OfLayout(l) == {i \in DOMAIN portfolio : /\ portfolio[i] # NotEmbedded
                                         /\ Layout[portfolio[i]] = l}
Members(l) == InOrder(OfLayout(l))

(* Groups are taken in the order in which their layouts first appear. *)
NextLayout == CHOOSE l \in waiting :
                \A k \in waiting : Head(Members(l)) <= Head(Members(k))

(* The products of a group. *)
ProductsOf(group) == [k \in DOMAIN group |-> portfolio[group[k]]]

(* compile_plan_bounded on the products of one group. *)
PlanBatches(l) == Chunks(ProductsOf(Members(l)), max_batch_items)

EmptyResult == [trades |-> <<>>, failures |-> <<>>, chunks |-> 0]
Results == [trades   : Seq([index : DOMAIN portfolio, value : Prices]),
            failures : Seq(DOMAIN portfolio),
            chunks   : Nat]

Init == /\ portfolio \in Portfolios
        /\ market = <<>>
        /\ cancelled = FALSE
        /\ processed_chunks = 0
        /\ total_chunks = 0
        /\ pc = "idle"
        /\ waiting = {}
        /\ members = <<>> /\ batches = <<>> /\ cursor = 0
        /\ values = [i \in DOMAIN portfolio |-> NoValue]
        /\ failures = <<>>
        /\ chunks = 0
        /\ answer = "none"
        /\ result = EmptyResult

(* An early return with an error; what was computed is dropped. *)
Refuse(why) == /\ pc' = "done"
               /\ answer' = why
               /\ UNCHANGED <<request, control, waiting, plan, books, result>>

-----------------------------------------------------------------------------

(* ExecutionControl::cancel, or the guard of the request. *)
Cancel == /\ ~cancelled
          /\ cancelled' = TRUE
          /\ UNCHANGED <<request, processed_chunks, total_chunks, pc, waiting,
                         plan, books, answer, result>>

\* Mutant: a trade without a product is skipped without a failure.
Group_SkipsMissing ==
  /\ waiting' = Layouts
  /\ failures' = <<>>

(* The first pass: failures for what cannot be grouped, and the groups. *)
Group == /\ waiting' = Layouts
         /\ failures' = Missing

(* The total is set only when no enclosing run has set one. *)
Total == IF total_chunks = 0
         THEN CeilDiv(Len(portfolio), AtLeastOne(max_batch_items))
         ELSE total_chunks

Begin(m) ==
  /\ pc = "idle"
  /\ \/ /\ cancelled
        /\ Refuse("Cancelled")
     \/ /\ ~cancelled
        /\ Len(portfolio) > max_products
        /\ Refuse("InvalidRequest")
     \/ /\ ~cancelled
        /\ Len(portfolio) <= max_products
        /\ market' = m
        /\ total_chunks' = Total
        /\ Group
        /\ values' = [i \in DOMAIN portfolio |-> NoValue]
        /\ chunks' = 0
        /\ pc' = "groups"
        /\ UNCHANGED <<portfolio, cancelled, processed_chunks, plan, answer,
                       result>>

(* One turn of the outer loop, up to the plan.  Compilation fails for a     *)
(* batch size of zero, for want of a kernel, or in the kernel.              *)
TakeGroup ==
  /\ pc = "groups"
  /\ waiting # {}
  /\ IF cancelled
     THEN Refuse("Cancelled")
     ELSE /\ waiting' = waiting \ {NextLayout}
          /\ \/ /\ max_batch_items > 0
                /\ members' = Members(NextLayout)
                /\ batches' = PlanBatches(NextLayout)
                /\ cursor' = 0
                /\ pc' = "batches"
                /\ UNCHANGED failures
             \/ /\ failures' = failures \o Members(NextLayout)
                /\ UNCHANGED <<plan, pc>>
          /\ UNCHANGED <<request, control, values, chunks, answer, result>>

\* Mutant: a raised flag pauses the run.
TakeBatch_Waits ==
  /\ pc = "batches"
  /\ batches # <<>>
  /\ ~cancelled
  /\ pc' = "executing"
  /\ UNCHANGED <<request, control, waiting, plan, books, answer, result>>

(* One turn of the inner loop, up to the kernel. *)
TakeBatch ==
  /\ pc = "batches"
  /\ batches # <<>>
  /\ IF cancelled
     THEN Refuse("Cancelled")
     ELSE /\ pc' = "executing"
          /\ UNCHANGED <<request, control, waiting, plan, books, answer, result>>

GroupDone ==
  /\ pc = "batches"
  /\ batches = <<>>
  /\ pc' = "groups"
  /\ UNCHANGED <<request, control, waiting, plan, books, answer, result>>

(* The members that the batch at the head of the plan stands for. *)
Slots == SubSeq(members, cursor + 1, cursor + Len(Head(batches)))

(* The kernel has filled its output, which is written by position. *)
Executed ==
  /\ values' = [i \in DOMAIN values |->
                  IF i \in ToSet(Slots)
                  THEN LET k == CHOOSE k \in DOMAIN Slots : Slots[k] = i
                       IN  Price(market, Head(batches)[k])
                  ELSE values[i]]
  /\ chunks' = chunks + 1
  /\ processed_chunks' = processed_chunks + 1
  /\ UNCHANGED failures

(* When it fails, its members do. *)
Failed == /\ failures' = failures \o Slots
          /\ UNCHANGED <<values, chunks, processed_chunks>>

(* Past the batch, executed or failed. *)
Advance == /\ batches' = Tail(batches)
           /\ cursor' = cursor + Len(Head(batches))

(* KernelRegistry::execute on one batch. *)
ExecuteBatch ==
  /\ pc = "executing"
  /\ Executed \/ Failed
  /\ Advance
  /\ pc' = "batches"
  /\ UNCHANGED <<request, cancelled, total_chunks, waiting, members, answer,
                 result>>

Priced == {i \in DOMAIN portfolio : values[i] # NoValue}
Valued == InOrder(Priced)

\* Mutant: failures are reported in the order in which they happened.
Report_Unsorted ==
  /\ pc = "groups"
  /\ waiting = {}
  /\ result' = [trades   |-> [k \in DOMAIN Valued |->
                                [index |-> Valued[k], value |-> values[Valued[k]]]],
                failures |-> failures,
                chunks   |-> chunks]
  /\ answer' = "Ok"
  /\ pc' = "done"
  /\ UNCHANGED <<request, control, waiting, plan, books>>

(* The last pass, in portfolio order, and sort_by_key on the failures. *)
Report ==
  /\ pc = "groups"
  /\ waiting = {}
  /\ result' = [trades   |-> [k \in DOMAIN Valued |->
                                [index |-> Valued[k], value |-> values[Valued[k]]]],
                failures |-> Sorted(failures),
                chunks   |-> chunks]
  /\ answer' = "Ok"
  /\ pc' = "done"
  /\ UNCHANGED <<request, control, waiting, plan, books>>

Pricing == TakeGroup \/ TakeBatch \/ GroupDone \/ ExecuteBatch \/ Report

(* A call on its own, under the market of the request. *)
Next == Cancel \/ Begin(<<>>) \/ Pricing

Spec == Init /\ [][Next]_vars

-----------------------------------------------------------------------------

TypeOK == /\ portfolio \in Portfolios
          /\ cancelled \in BOOLEAN
          /\ processed_chunks \in Nat
          /\ total_chunks \in Nat
          /\ pc \in Positions
          /\ waiting \subseteq Layouts
          /\ members \in Seq(DOMAIN portfolio)
          /\ batches \in Seq(Seq(Products))
          /\ cursor \in 0 .. Len(members)
          /\ values \in [DOMAIN portfolio -> Prices \cup {NoValue}]
          /\ failures \in Seq(DOMAIN portfolio)
          /\ chunks \in Nat
          /\ answer \in Answers
          /\ result \in Results

(* However the batches before it ended, a value lands on the trade whose    *)
(* product was priced, in the market of this call: the cursor and the plan  *)
(* never drift apart.                                                       *)
ValuesBelongToTrades ==
  \A i \in DOMAIN portfolio :
    values[i] # NoValue => values[i] = Price(market, portfolio[i])

(* A returned result lists values and failures each in portfolio order,     *)
(* names every trade in exactly one of them, and gives each trade its own   *)
(* price in the market of the call.                                         *)
Ascending(s) == \A i, k \in DOMAIN s : i < k => s[i] < s[k]
NamesEachTrade(r) ==
  LET valued == [k \in DOMAIN r.trades |-> r.trades[k].index]
  IN  /\ Ascending(valued)
      /\ Ascending(r.failures)
      /\ ToSet(valued) \cap ToSet(r.failures) = {}
      /\ ToSet(valued) \cup ToSet(r.failures) = DOMAIN portfolio
PricedIn(m, r) ==
  \A k \in DOMAIN r.trades :
    r.trades[k].value = Price(m, portfolio[r.trades[k].index])
ResultInOrder ==
  answer = "Ok" => NamesEachTrade(result) /\ PricedIn(market, result)

(* Both, with the types: whichever trades, groups and batches fail and      *)
(* whenever the run is cancelled, each trade has its own price or none.     *)
SettledInOrder == TypeOK /\ ValuesBelongToTrades /\ ResultInOrder

(* The inductive invariant behind the theorems of XvaProofs.  Between       *)
(* two steps a trade is in one place: it has failed, it is priced, its      *)
(* group is not taken yet, or it is in the batches of the group at hand;    *)
(* and these batches are still the chunks of what is left of the group.     *)
InFlight == pc \in {"groups", "batches", "executing"}
Ahead == SubSeq(members, cursor + 1, Len(members))
AtHand == IF pc \in {"batches", "executing"} THEN ToSet(Ahead) ELSE {}
Queued == UNION {OfLayout(l) : l \in waiting}
PlanFollows ==
  pc \in {"batches", "executing"} =>
    /\ max_batch_items > 0
    /\ IsInjective(members)
    /\ \A i \in ToSet(members) : portfolio[i] # NotEmbedded
    /\ batches = Chunks(ProductsOf(Ahead), max_batch_items)
    /\ pc = "executing" => batches # <<>>
InOnePlace ==
  InFlight =>
    /\ IsInjective(failures)
    /\ ToSet(failures) \cup Priced \cup Queued \cup AtHand = DOMAIN portfolio
    /\ ToSet(failures) \cap (Priced \cup Queued \cup AtHand) = {}
    /\ Priced \cap (Queued \cup AtHand) = {}
    /\ Queued \cap AtHand = {}
ReturnsOnce == answer = "none" <=> pc # "done"
IInv == /\ SettledInOrder
        /\ market \in Seq(Nat)
        /\ PlanFollows
        /\ InOnePlace
        /\ ReturnsOnce

(* Each trade is settled once, and a result is returned only when all are. *)
Settled == INSTANCE Settlement
             WITH Sizes <- {Len(p) : p \in Portfolios},
                  settled <- [i \in DOMAIN portfolio |->
                                IF i \in ToSet(failures) THEN "failed"
                                ELSE IF values[i] # NoValue THEN "valued"
                                ELSE "open"]
ImplementsSettlement == Settled!Spec

=============================================================================
