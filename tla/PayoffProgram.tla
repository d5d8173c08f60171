---------------------------- MODULE PayoffProgram ----------------------------
(***************************************************************************)
(* The Rust side: compile.rs turns the tree into three tables of nodes that *)
(* refer to each other by index, each structurally different node once      *)
(* (CSE), with observables and events as slots; eval.rs walks the tables.   *)
(***************************************************************************)
EXTENDS PayoffExpr

-----------------------------------------------------------------------------
(* compile.rs *)

Compiler == [scalars |-> <<>>, predicates |-> <<>>, contracts |-> <<>>,
             observables |-> <<>>, events |-> <<>>, currency |-> None,
             root |-> None, error |-> None]

Table(type) == IF type \in Scalars THEN "scalars"
               ELSE IF type \in Predicates THEN "predicates" ELSE "contracts"

IndexOf(table, x) == CHOOSE i \in DOMAIN table : table[i] = x
Including(table, x) == IF x \in ToSet(table) THEN table ELSE Append(table, x)

(* observable_slot and event_slot *)
Slots(compiler, node) ==
  [compiler EXCEPT
     !.observables = IF "observable" \in DOMAIN node
                     THEN Including(@, node.observable) ELSE @,
     !.events = IF "event" \in DOMAIN node THEN Including(@, node.event) ELSE @,
     !.currency = IF node.type = "cashflow" THEN node.currency ELSE @]

Rising(times) == \A i \in 2 .. Len(times) : times[i] > times[i - 1]

(* The one condition that the bridge can interpret. *)
IsBarrier(condition) ==
  /\ condition.type \in {"greater_equal", "less_equal"}
  /\ condition.kids[1].type = "current"
  /\ condition.kids[2].type = "constant"

(* Of the programs without exp, log and pow, which the compiler accepts.    *)
Rejected(compiler, node) ==
  \/ node.type \notin Scalars \cup Predicates \cup Contracts
  \/ /\ node.type = "average"
     /\ \/ node.schedule = <<>>
        \/ Len(node.schedule) # Len(node.weights)
        \/ ~Rising(node.schedule)
  \/ /\ node.type = "cashflow"
     /\ compiler.currency \notin {None, node.currency}
  \/ /\ node.type = "trigger"
     /\ node.monitoring = "continuous_approximation"
     /\ ~IsBarrier(node.kids[1])
  \/ /\ node.type = "exercise"
     /\ node.times = <<>> \/ ~Rising(node.times)

(* recognize_barrier_pattern *)
Bridge(compiler, node) ==
  LET condition == node.kids[1]
  IN  IF node.monitoring = "discrete" THEN None
      ELSE [observable |-> IndexOf(compiler.observables, condition.kids[1].observable),
            barrier |-> condition.kids[2].value,
            direction |-> IF condition.type = "greater_equal" THEN "up" ELSE "down"]

(* The node with slots and indices in place of names and children. *)
Op(compiler, node, kids) ==
  LET Own(field) == CASE field = "observable" -> IndexOf(compiler.observables, node[field])
                      [] field = "event" -> IndexOf(compiler.events, node[field])
                      [] field = "kids" -> kids
                      [] OTHER -> node[field]
      op == [field \in DOMAIN node \ {"currency"} |-> Own(field)]
  IN  IF node.type = "trigger" THEN op @@ [bridge |-> Bridge(compiler, node)] ELSE op

(* intern_scalar, intern_predicate and intern_contract *)
Intern(table, op) == Including(table, op)

RECURSIVE CompileNode(_, _)
CompileNode(compiler, node) ==
  LET OneMore(done, kid) ==
        LET next == CompileNode(done.compiler, kid)
        IN  [compiler |-> next, kids |-> Append(done.kids, next.root)]
      below == FoldLeft(OneMore, [compiler |-> Slots(compiler, node), kids |-> <<>>],
                        node.kids)
      op == Op(below.compiler, node, below.kids)
      table == Intern(below.compiler[Table(node.type)], op)
  IN  IF compiler.error # None THEN compiler
      ELSE IF Rejected(compiler, node) THEN [compiler EXCEPT !.error = node.type]
      ELSE IF below.compiler.error # None THEN below.compiler
      ELSE [below.compiler EXCEPT
              ![Table(node.type)] = table,
              !.root = IndexOf(table, op)]

(* compile; a contract without any cashflow has no currency. *)
Compile(contract) ==
  LET done == CompileNode(Compiler, contract)
  IN  IF done.error = None /\ done.currency = None
      THEN [done EXCEPT !.error = "currency"] ELSE done

(* required_times *)
RequiredTimes(payoff) ==
  LET own(op) == CASE op.type = "fixing" -> {op.time}
                   [] op.type = "when" -> {op.time}
                   [] op.type = "average" -> ToSet(op.schedule)
                   [] op.type \in {"trigger", "exercise"} -> ToSet(op.times)
                   [] OTHER -> {}
  IN  UNION {own(op) : op \in ToSet(payoff.scalars) \cup ToSet(payoff.contracts)}

-----------------------------------------------------------------------------
(* eval.rs.  path[slot][t] is the observable of a slot at an instant; states *)
(* are indexed by the event's slot.                                         *)

StateOf(op, states) == IF "event" \in DOMAIN op THEN states[op.event] ELSE None

RECURSIVE EvalScalar(_, _, _, _, _)
EvalScalar(payoff, idx, cursor, path, states) ==
  LET op == payoff.scalars[idx]
      kids == [k \in DOMAIN op.kids |->
                 EvalScalar(payoff, op.kids[k], cursor, path, states)]
  IN  ScalarValue(op, kids, cursor, Fixings(op, path),
                  StateOf(op, states), RequiredTimes(payoff))

RECURSIVE EvalPredicate(_, _, _, _, _)
EvalPredicate(payoff, idx, cursor, path, states) ==
  LET op == payoff.predicates[idx]
      Kid(k) == IF op.type \in Comparisons
                THEN EvalScalar(payoff, k, cursor, path, states)
                ELSE EvalPredicate(payoff, k, cursor, path, states)
  IN  PredicateValue(op, [k \in DOMAIN op.kids |-> Kid(op.kids[k])],
                     StateOf(op, states))

RECURSIVE EvalContract(_, _, _, _, _)
EvalContract(payoff, idx, cursor, path, states) ==
  LET op == payoff.contracts[idx]
      state == StateOf(op, states)
      Child(k, at) == EvalContract(payoff, op.kids[k], at, path, states)
      Amount(at) == EvalScalar(payoff, op.kids[1], at, path, states)
      Flow(at) == IF at = None THEN Spoiled
                  ELSE IF Amount(at) = Panic THEN Spoiled
                  ELSE <<[time |-> at, amount |-> Amount(at)]>>
      Holds == EvalPredicate(payoff, op.kids[1], cursor, path, states)
  IN  CASE op.type = "zero" -> <<>>
        [] op.type = "cashflow" -> Flow(cursor)
        [] op.type = "give" -> Times(-1, Child(1, cursor))
        [] op.type = "both" -> FlattenSeq([k \in DOMAIN op.kids |-> Child(k, cursor)])
        [] op.type = "scale" -> IF Amount(cursor) = Panic THEN Spoiled
                                ELSE Times(Amount(cursor), Child(2, cursor))
        [] op.type = "if" -> IF Holds = Panic THEN Spoiled
                             ELSE Child(IF Holds THEN 2 ELSE 3, cursor)
        [] op.type = "when" -> Child(1, op.time)
        [] op.type = "trigger" ->
             IF ~state.occurred THEN Child(3, cursor)
             ELSE Child(2, IF op.settlement = "at_hit" THEN state.first_hit_time
                           ELSE cursor)
        [] op.type = "exercise" ->
             IF state.occurred THEN Flow(state.first_hit_time) ELSE Child(2, cursor)
=============================================================================
