---------------------------- MODULE QuantSession ----------------------------
(***************************************************************************)
(* A client of the stateless API: it holds one context document and the     *)
(* references that context:apply returned with it, and sends both with      *)
(* every request.  The server keeps nothing between requests; a request is  *)
(* one step.  Between requests the client works on its document itself: it  *)
(* records runs (with_run), edits the resources, drops the hash, leaves a   *)
(* hash behind that the document no longer has, and hashes it anew.         *)
(***************************************************************************)
EXTENDS RiskGraph

CONSTANTS Batches,             \* command lists a client may apply
          Mutations,           \* the same for apply_typed
          RiskAsks,            \* risk requests, but for context and references
          max_products,
          HandEdits,           \* the kinds of resources a client edits by hand
          ForkUpTo             \* bound: the revision up to which a client forks

ResourceIds == [market |-> "m", model |-> "hw"]

(* ResourceRef.from_dict of a reference with an empty hash.                 *)
Unhashed(kind) == [id |-> ResourceIds[kind], hash |-> Absent]

(* What with_run appends to the runs.                                       *)
LocalRun == [record |-> "local"]

(* A batch is a list of commands, and a reference is not None. *)
ListOf(value) == value = Null \/ value \in Seq(ToSet(value))
ListsPortfolios(command) ==
  command.op = "add" /\ command.kind = "portfolio" => ListOf(command.value)

AskFields == {"operation_id", "portfolio_id", "context", "market", "model", "measures",
              "factors", "bump_scheme", "bump_size"}
AskTyped(ask) == /\ AskFields \subseteq DOMAIN ask
                 /\ ask = [field \in DOMAIN ask |-> ask[field]]
                 /\ ask.measures \in Seq(ToSet(ask.measures))
                 /\ ask.factors \in Seq(ToSet(ask.factors))
                 /\ Absent \notin ToSet(ask.factors)

ASSUME SessionAssumption ==
  /\ Batches \subseteq Seq(UNION {ToSet(batch) : batch \in Batches})
  /\ \A batch \in Batches : \A i \in DOMAIN batch : batch[i].op \in Operations
  /\ \A kind \in DOMAIN ResourceIds : Unhashed(kind) # Absent
  /\ HandEdits \subseteq Kinds

(* What the types of the code say: measures and factors are vectors, no     *)
(* factor is None, a mutation is a command or a fork, and a stored          *)
(* portfolio is a vector of trades or, if it cannot be read, Null.          *)
ASSUME AskAssumption ==
  /\ \A ask \in RiskAsks : AskTyped(ask)
  /\ Absent \notin {Parameter("r0"), Parameter("sigma")}
  /\ Mutations \subseteq Seq(UNION {ToSet(mutations) : mutations \in Mutations})
  /\ \A mutations \in Mutations :
       \A i \in DOMAIN mutations : mutations[i].op \in Operations \cup {"fork"}
  /\ \A commands \in Batches \cup Mutations :
       \A i \in DOMAIN commands : ListsPortfolios(commands[i])

VARIABLES context,             \* the client's document
          refs,                \* per kind, the last reference received
          answer,              \* the last response, but for the document
          edited               \* history: the resources were edited by hand, and
                               \* the server has not derived a document since

vars == <<context, refs, answer, edited>>

Init == /\ context = New("client")
        /\ refs = [kind \in Kinds |-> Absent]
        /\ answer = Absent
        /\ edited = FALSE

(* What the client keeps of a response. *)
Keep(response) ==
  IF response.error # Absent
  THEN /\ answer' = [error |-> response.error]
       /\ UNCHANGED <<context, refs, edited>>
  ELSE /\ context' = response.context
       /\ edited' = FALSE
       /\ refs' = [kind \in Kinds |->
                     IF response.ref # Absent /\ response.ref.kind = kind
                     THEN response.ref ELSE refs[kind]]
       /\ answer' = Absent

(* context:apply *)
ApplyContext(commands) == Keep(Apply(context, commands))

(* apply_typed, in-process; one fork is enough.                             *)
ApplyMutations(mutations) ==
  /\ context.branch_id = "main"
  /\ context.revision <= ForkUpTo
  /\ Keep(ApplyTyped(context, mutations))

(* with_run; a revision that is no u64 is in no document.                   *)
WithRun ==
  /\ context.revision < MaxRevision
  /\ context' = WithHash([context EXCEPT !.runs = Append(@, LocalRun),
                                         !.parent_hash = context.context_hash,
                                         !.context_hash = Absent,
                                         !.revision = @ + 1])
  /\ answer' = Absent
  /\ UNCHANGED <<refs, edited>>

(* A mapping without its hash is a document, too.                           *)
DropHash == /\ context.context_hash # Absent
            /\ context' = [context EXCEPT !.context_hash = Absent]
            /\ answer' = Absent
            /\ UNCHANGED <<refs, edited>>

(* A mapping with other resources, here with none of a kind, and the hash   *)
(* it had.                                                                  *)
EditByHand(kind) == /\ context.resources[kind] # NoEntries
                    /\ context' = [context EXCEPT !.resources[kind] = NoEntries]
                    /\ edited' = TRUE
                    /\ answer' = Absent
                    /\ UNCHANGED refs

(* with_hash *)
Rehash == /\ ~VerifyHash(context)
          /\ context' = WithHash(context)
          /\ answer' = Absent
          /\ UNCHANGED <<refs, edited>>

RiskRequest(ask, references) ==
  [ask EXCEPT !.context = context,
              !.market = references["market"], !.model = references["model"]]

Responds(ask, result) == /\ answer' = [ask |-> ask, result |-> result]
                         /\ UNCHANGED <<context, refs, edited>>

(* risk:calculate with references that only name their resources ... *)
RiskByName(ask) ==
  LET references == [kind \in {"market", "model"} |-> Unhashed(kind)]
  IN  Responds(ask, CalculateRisk(RiskRequest(ask, references)))

(* ... and with references that hold a hash: those that context:apply       *)
(* returned, or those that _ref makes of a resource's id.                   *)
ComputedRef(kind) ==
  LET value == Lookup(context, kind, ResourceIds[kind])
  IN  IF value = Absent THEN Absent
      ELSE [id |-> ResourceIds[kind], hash |-> Hash(value), kind |-> kind,
            version |-> context.revision]
References == {refs, [kind \in {"market", "model"} |-> ComputedRef(kind)]}
RiskByReference(ask, references) ==
  /\ Absent \notin {references["market"], references["model"]}
  /\ answer' = [referenced |-> CalculateRisk(RiskRequest(ask, references)).error]
  /\ UNCHANGED <<context, refs, edited>>

(* prices, for the first product of the document. *)
Price(operation_id) ==
  LET ask == [operation_id |-> operation_id, context |-> context, products |-> <<>>,
              measures |-> <<"pv">>]
      input == PriceOwned(context, Unhashed("market"), Unhashed("model"), <<>>)
  IN  /\ answer' = IF Valid(ask, max_products) /\ input # Absent
                   THEN [price |-> input] ELSE [error |-> "InvalidRequest"]
      /\ UNCHANGED <<context, refs, edited>>

(* The client reads an answer before it goes on. *)
ReadAnswer == /\ answer # Absent
              /\ answer' = Absent
              /\ UNCHANGED <<context, refs, edited>>

Request == \/ \E batch \in Batches : ApplyContext(batch)
           \/ \E mutations \in Mutations : ApplyMutations(mutations)
           \/ WithRun
           \/ DropHash
           \/ \E kind \in HandEdits : EditByHand(kind)
           \/ Rehash
           \/ \E ask \in RiskAsks : RiskByName(ask)
           \/ \E ask \in RiskAsks, references \in References :
                RiskByReference(ask, references)
           \/ \E operation_id \in {"", "p"} : Price(operation_id)

Next == (answer = Absent /\ Request) \/ ReadAnswer

Spec == Init /\ [][Next]_vars

-----------------------------------------------------------------------------

(* docs/api/openapi.v1.yaml: "Apply ordered typed mutations                 *)
(* transactionally".  A list of commands is applied if, sent one by one,    *)
(* each would have been, and it leaves the same resources and runs; else    *)
(* nothing of it is.                                                        *)
SendAlone(done, command) ==
  IF done.error # Absent THEN done
  ELSE Apply([done.context EXCEPT !.revision = 0, !.context_hash = Absent], <<command>>)
OneByOne(commands) ==
  FoldLeft(SendAlone, [error |-> Absent, context |-> context], commands)
Transactional ==
  context.revision < MaxRevision /\ HashAccepted(context) =>
    \A batch \in Batches :
      LET together == Apply(context, batch)
          apart == OneByOne(batch)
      IN  /\ together.error = Absent <=> apart.error = Absent
          /\ together.error = Absent =>
               /\ together.context.resources = apart.context.resources
               /\ together.context.runs = apart.context.runs

(* The lineage is a chain: each hash in it is that of a document whose own  *)
(* lineage is what comes before.  Except right after a fork, a document is  *)
(* one revision after its parent, on the same branch and with the same      *)
(* lineage or the parent added to it; and unless the client edited the      *)
(* resources by hand, the parent is added wherever the resources changed.   *)
(* (A run that with_run records is not in the lineage.)                     *)
Digest(hash) == hash[2]
Chained == \A i \in DOMAIN context.lineage :
             Digest(context.lineage[i]).lineage = SubSeq(context.lineage, 1, i - 1)
FollowsParent ==
  LET parent == Digest(context.parent_hash)
      extended == context.lineage = Append(parent.lineage, context.parent_hash)
  IN  /\ parent.revision = context.revision - 1
      /\ parent.branch_id = context.branch_id
      /\ context.lineage = parent.lineage \/ extended
      /\ context.resources # parent.resources => edited \/ extended
LineageUnbroken ==
  /\ Chained
  /\ context.parent_hash # Absent /\ context.revision > 0 => FollowsParent

(* A hash, stale or not, is that of a document with the same ancestors; if  *)
(* nothing was edited by hand, of one with the same resources.              *)
HashOfAncestry ==
  LET own == Digest(context.context_hash)
  IN  context.context_hash # Absent =>
        /\ own.revision = context.revision
        /\ own.branch_id = context.branch_id
        /\ own.lineage = context.lineage
        /\ own.resources = context.resources \/ edited

(* With the shape of a document, the two are inductive.                     *)
IsDocument(document) ==
  /\ document = [field \in DocumentFields |-> document[field]]
  /\ document.schema = CONTEXT_SCHEMA
  /\ document.revision \in 0 .. MaxRevision
  /\ document.lineage \in Seq(ToSet(document.lineage))
DocumentIInv == IsDocument(context) /\ LineageUnbroken /\ HashOfAncestry

(* The three readings of the first swap of the document agree where the     *)
(* specs are flat and the market has its rate or the model has none: price, *)
(* portfolio and risk then value the same swap.                             *)
Flat(value) == value # Null /\ "params" \notin DOMAIN value
ReadingsAgree ==
  LET market == Lookup(context, "market", "m")
      model == Lookup(context, "model", "hw")
      product == LookupResource(context.resources.product, Absent)
      priced == PriceOwned(context, Unhashed("market"), Unhashed("model"), <<>>)
      batched == NumericInput(MarketSpecOf(market), ModelSpecOf(model),
                              ProductSpecOf(product))
      risked == RiskInput(MarketSpecOf(market), ModelSpecOf(model),
                          ProductSpecOf(product))
  IN  /\ Absent \notin {market, model, product}
      /\ \A value \in {market, model, product} : Flat(value)
      /\ "r0" \in DOMAIN market \/ "r0" \notin DOMAIN model
      => /\ priced # Absent /\ batched # Absent => priced = batched
         /\ risked # Absent /\ batched # Absent => risked = batched

(* Each cell that was asked for is the sum over the trades of quantity,     *)
(* derivative and bucket weight, each derivative taken by itself; a pair of *)
(* measure and factor that was not asked for is zero.  Whatever is shared   *)
(* between trades, measures and factors, no value reaches a wrong cell.     *)
Asked(measure, ask, key) ==
  {f \in ToSet(FactorsFor(measure, ask.factors)) : Key(f) = key}
Derivative(trade, factor, h, scheme) ==
  LET point == At(trade.input, FixedCoupon(trade.input))
  IN  IF HasTape(factor, scheme) THEN Greek(point, Target(factor))
      ELSE BumpValue(Npv(point), point, Target(factor), h, scheme)
ValueTerm(trade) == Npv(At(trade.input, FixedCoupon(trade.input))) * trade.quantity
Term(trade, f, h, scheme) ==
  Derivative(trade, f, h, scheme) * trade.quantity * BucketWeight(trade.input, f)
TotalValue(trades) == FoldLeft(LAMBDA sum, t : sum + ValueTerm(t), 0, trades)
Total(trades, f, h, scheme) == FoldLeft(LAMBDA sum, t : sum + Term(t, f, h, scheme), 0, trades)
Exposure(trades, measure, ask, key) ==
  IF Asked(measure, ask, key) = {} THEN 0
  ELSE IF measure = "pv" THEN TotalValue(trades) * Unit
  ELSE LET f == CHOOSE f \in Asked(measure, ask, key) : TRUE
           total == Total(trades, f, BumpSize(ask), ask.bump_scheme)
       IN  IF measure = "pv01" THEN total * PV01_SCALE ELSE total

Computed == /\ answer # Absent
            /\ "result" \in DOMAIN answer
            /\ answer.result.error = Absent
AnsweredTrades == TradesOf(Portfolio(context, answer.ask.portfolio_id),
                           ModelHandle(context, "hw"), MarketHandle(context, "m"))

MatrixFaithful ==
  Computed =>
    LET result == answer.result
    IN  \A i \in DOMAIN result.measures, k \in DOMAIN result.index :
          result.values[i][k] = Exposure(AnsweredTrades, result.measures[i],
                                         answer.ask, result.index[k])

(* "Base values, AAD tapes and bumps are keyed by context/market/model/     *)
(* product versions and shared by all requested measures": the work         *)
(* reported depends on the products and factors alone, not on how many      *)
(* trades or measures ask for them; and a measure is labelled "aad" only if *)
(* no cell of it was bumped.                                                *)
WorkShared ==
  Computed =>
    LET result == answer.result
        scheme == answer.ask.bump_scheme
        products == {t.product : t \in ToSet(AnsweredTrades)}
        factors(m) == ToSet(FactorsFor(m, answer.ask.factors)) \ {Absent}
        all == UNION {factors(result.measures[i]) : i \in DOMAIN result.measures}
        bumped == {f \in all : ~(scheme = "central" /\ f.kind \in {"model", "parallel"})}
        each == IF scheme = "central" THEN 2 ELSE 1
    IN  /\ result.valuation_calls =
             Cardinality(products)
               + each * Cardinality(products) * Cardinality({Key(f) : f \in bumped})
        /\ result.aad_passes =
             IF all \subseteq bumped THEN 0 ELSE Cardinality(products)
        /\ \A m \in DOMAIN result.methods :
             result.methods[m] = "aad" /\ products # {} => factors(m) \cap bumped = {}

(* What both rest on: a result is that of the document it is read with, and *)
(* a stored portfolio is a list.                                            *)
ListedPortfolios(resources) ==
  /\ "portfolio" \in DOMAIN resources
  /\ \A id \in DOMAIN resources["portfolio"] : ListOf(resources["portfolio"][id])
ByName == [kind \in {"market", "model"} |-> Unhashed(kind)]
RiskIInv ==
  /\ ListedPortfolios(context.resources)
  /\ answer # Absent /\ "result" \in DOMAIN answer =>
       /\ answer.ask \in RiskAsks
       /\ answer.result = CalculateRisk(RiskRequest(answer.ask, ByName))

(* The inductive invariant of the session. *)
SessionIInv == DocumentIInv /\ RiskIInv

=============================================================================
