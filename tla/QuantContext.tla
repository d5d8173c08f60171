---------------------------- MODULE QuantContext ----------------------------
(***************************************************************************)
(* The context document of quant-domain: what a client keeps and sends with *)
(* every request, and the operations that derive one document from another. *)
(* Nothing is changed in place, so the operations are operators.            *)
(*                                                                          *)
(* A JSON object is a record, a JSON map a function from ids; the fields    *)
(* "engine" and "pricing" of the document, which no operation touches, are  *)
(* left out.  SHA-256 does not collide: a hash is a constructor.            *)
(***************************************************************************)
EXTENDS Naturals, Sequences, FiniteSets, SequencesExt, FiniteSetsExt

CONSTANTS Absent,            \* Option::None, or a key that is not there
          Null,              \* the JSON value that is no object
          MaxRevision        \* u64::MAX

(* DomainError, as far as the operations below return it. *)
Errors == {"InvalidSchema", "ContextHashMismatch", "InvalidCommand",
           "RevisionOverflow"}

ASSUME ContextAssumption == MaxRevision \in Nat /\ Absent \notin Errors

CONTEXT_SCHEMA == "quant.context/v1"
Operations == {"add", "remove", "record_run"}
Kinds == {"market", "model", "product", "portfolio"}

Hash(value) == <<"sha256", value>>

NoEntries == [id \in {} |-> Null]
Insert(map, id, value) ==
  [x \in DOMAIN map \cup {id} |-> IF x = id THEN value ELSE map[x]]
Without(map, id) == [x \in DOMAIN map \ {id} |-> map[x]]

Fields(object, but) == [x \in DOMAIN object \ but |-> object[x]]
Get(object, key, default) == IF key \in DOMAIN object THEN object[key] ELSE default

-----------------------------------------------------------------------------
(* Hashes and the first document. *)

(* The hash covers all but itself, parent_hash and lineage included. *)
ComputedHash(context) == Hash([context EXCEPT !.context_hash = Absent])
WithHash(context) == [context EXCEPT !.context_hash = ComputedHash(context)]
VerifyHash(context) == context.context_hash = ComputedHash(context)

(* A document without a hash is accepted; one with a wrong hash is not. *)
HashAccepted(context) == context.context_hash = Absent \/ VerifyHash(context)

DocumentFields == {"schema", "context_id", "revision", "parent_hash", "context_hash",
                   "resources", "runs", "branch_id", "lineage"}
New(id) == WithHash([schema |-> CONTEXT_SCHEMA, context_id |-> id, revision |-> 0,
                     parent_hash |-> Absent, context_hash |-> Absent,
                     resources |-> [kind \in Kinds |-> NoEntries],
                     runs |-> <<>>, branch_id |-> "main", lineage |-> <<>>])

-----------------------------------------------------------------------------
(* Specs, and the JSON they are stored as. *)

(* MarketSpec::new and to_value: the kind is one field among the others. *)
MarketSpecOf(object) == [kind |-> Get(object, "kind", ""),
                         params |-> Fields(object, {"kind"})]
MarketToValue(spec) == Insert(spec.params, "kind", spec.kind)

(* ModelSpec::from_value and ProductSpec::from_value: a flat object with,   *)
(* perhaps, its kind, which otherwise follows from the keys it has.         *)
SpecOf(object, alias, known, inferred) ==
  LET name == Get(object, "kind", Get(object, alias, inferred))
      params == Fields(object, {"kind", alias})
  IN  IF name \in known.names
      THEN [variant |-> known.variant, params |-> params]
      ELSE [variant |-> "json", params |-> [name |-> name, params |-> params]]

ModelSpecOf(object) ==
  SpecOf(object, "model",
         [names |-> {"hull_white_1f", "hull_white"}, variant |-> "hull_white_1f"],
         IF {"a", "sigma"} \subseteq DOMAIN object THEN "hull_white_1f" ELSE "json")
ProductSpecOf(object) ==
  SpecOf(object, "product",
         [names |-> {"ir_swap", "irs"}, variant |-> "ir_swap"],
         IF "payment_times" \in DOMAIN object THEN "ir_swap" ELSE "json")

(* to_value: the parameters become the content of the tag. *)
ToValue(spec) == [kind |-> spec.variant, params |-> spec.params]

(* The parameters that a kernel looks into. *)
SpecParams(spec) ==
  IF spec.variant = "json" THEN spec.params.params ELSE spec.params

-----------------------------------------------------------------------------
(* apply: commands on a copy, all or none. *)

Add(kind, id, value) == [op |-> "add", kind |-> kind, id |-> id, value |-> value]
RecordRun(operation_id, record) ==
  [op |-> "record_run", operation_id |-> operation_id, record |-> record]
RemoveResource(kind, id) == [op |-> "remove", kind |-> kind, id |-> id]

(* What commands can change, and whether one of them was rejected. *)
Contents(context) == [resources |-> context.resources, runs |-> context.runs,
                      rejected |-> FALSE]

Rejected(next, command) ==
  \/ command.op = "record_run" /\ command.operation_id = ""
  \/ command.op = "remove" /\ command.kind \notin Kinds
  \/ /\ command.op = "remove"
     /\ command.kind \in Kinds
     /\ command.id \notin DOMAIN next.resources[command.kind]

Execute(next, command) ==
  CASE command.op = "add" ->
         [next EXCEPT !.resources[command.kind] =
                        Insert(@, command.id, command.value)]
    [] command.op = "remove" ->
         [next EXCEPT !.resources[command.kind] = Without(@, command.id)]
    [] command.op = "record_run" ->
         [next EXCEPT !.runs = Append(@, [operation_id |-> command.operation_id,
                                          record |-> command.record])]

(* resource_ref; apply puts the new revision into the version. *)
ResourceRef(command, version) ==
  IF command.op # "add" THEN Absent
  ELSE [id |-> command.id, hash |-> Hash(command.value), kind |-> command.kind,
        version |-> version]

Refused(why) == [error |-> why, context |-> Absent, ref |-> Absent]

\* Mutant: the commands are checked before any of them is executed.
AfterCommands_ChecksUpFront(context, commands) ==
  [FoldLeft(Execute, Contents(context), commands) EXCEPT
     !.rejected = \E i \in DOMAIN commands : Rejected(Contents(context), commands[i])]

(* The first command that is rejected ends it. *)
Perform(next, command) ==
  IF next.rejected THEN next
  ELSE IF Rejected(next, command) THEN [next EXCEPT !.rejected = TRUE]
  ELSE Execute(next, command)

(* The contents of the copy after the commands. *)
AfterCommands(context, commands) == FoldLeft(Perform, Contents(context), commands)

\* Mutant: the lineage is left as it is.
Derived_ForgetsParent(context, changed) ==
  WithHash([context EXCEPT !.resources = changed.resources,
                           !.runs = changed.runs,
                           !.parent_hash = context.context_hash,
                           !.revision = context.revision + 1,
                           !.context_hash = Absent])

(* The next revision of a document. *)
DerivedFrom(context, changed) ==
  WithHash([context EXCEPT !.resources = changed.resources,
                           !.runs = changed.runs,
                           !.parent_hash = context.context_hash,
                           !.lineage = IF context.context_hash = Absent THEN @
                                       ELSE Append(@, context.context_hash),
                           !.revision = context.revision + 1,
                           !.context_hash = Absent])

Apply(context, commands) ==
  IF context.schema # CONTEXT_SCHEMA THEN Refused("InvalidSchema")
  ELSE IF ~HashAccepted(context) THEN Refused("ContextHashMismatch")
  ELSE IF AfterCommands(context, commands).rejected THEN Refused("InvalidCommand")
  ELSE IF context.revision = MaxRevision THEN Refused("RevisionOverflow")
  ELSE [error   |-> Absent,
        context |-> DerivedFrom(context, AfterCommands(context, commands)),
        ref     |-> IF commands = <<>> THEN Absent
                    ELSE ResourceRef(Last(commands), context.revision + 1)]

(* fork: neither the hash nor the schema is looked at. *)
Fork(context, branch_id) ==
  WithHash([context EXCEPT !.branch_id = branch_id,
                           !.parent_hash = context.context_hash,
                           !.revision = 0,
                           !.context_hash = Absent])

(* apply_typed: the first fork among the mutations is all that happens. *)
ApplyTyped(context, mutations) ==
  LET forks == {i \in DOMAIN mutations : mutations[i].op = "fork"}
  IN  IF forks = {} THEN Apply(context, mutations)
      ELSE [error |-> Absent, ref |-> Absent,
            context |-> Fork(context, mutations[Min(forks)].branch_id)]

-----------------------------------------------------------------------------
(* Handles: what a calculation takes out of the document.                   *)

Lookup(context, kind, id) == Get(context.resources[kind], id, Absent)

(* A value that is missing or no object gives no handle. *)
Handle(value, entry) == IF value \in {Absent, Null} THEN Absent ELSE entry

(* The hash of a market handle is that of its snapshot. *)
MarketHandle(context, id) ==
  LET value == Lookup(context, "market", id)
      snapshot == [id |-> id, spec |-> MarketSpecOf(value),
                   version |-> context.revision, parent_hash |-> context.parent_hash]
  IN  Handle(value, [spec |-> snapshot.spec, version |-> snapshot.version,
                     hash |-> Hash(snapshot)])

ModelHandle(context, id) ==
  LET value == Lookup(context, "model", id)
      spec == ModelSpecOf(value)
  IN  Handle(value, [spec |-> spec, version |-> context.revision,
                     hash |-> Hash(ToValue(spec))])

(* portfolio: a trade that brings no product gets that of the document, and *)
(* one entry that cannot be read spoils the portfolio.                      *)
Portfolio(context, id) ==
  LET value == Lookup(context, "portfolio", id)
      Stored(trade) == IF trade.product # Absent THEN Absent
                       ELSE Lookup(context, "product", trade.product_id)
      Embedded(trade) ==
        IF Stored(trade) = Absent THEN trade
        ELSE [trade EXCEPT !.product = ProductSpecOf(Stored(trade))]
  IN  IF value \in {Absent, Null} THEN Absent
      ELSE IF \E k \in DOMAIN value : Stored(value[k]) = Null THEN Absent
      ELSE [k \in DOMAIN value |-> Embedded(value[k])]

=============================================================================
