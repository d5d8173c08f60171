----------------------------- MODULE PayoffExpr -----------------------------
(***************************************************************************)
(* Payoff programs (engine.payoff/v1), and what a node is worth once its    *)
(* children are.  The Rust interpreter (payoff/eval.rs) and the C++         *)
(* evaluator (scenario_evaluator.cpp) share this and differ in how they     *)
(* walk the program, which is in PayoffProgram and ScenarioEvaluator.       *)
(*                                                                          *)
(* A node is a record with its type, its own fields and the sequence kids   *)
(* of its children: an "if" has condition, if_true and if_false, a          *)
(* "trigger" condition, on_hit and on_miss, a "scale" factor and child.     *)
(* Values are integers.  A panic, or an EvaluationError, is a value.        *)
(*                                                                          *)
(* The programs here have no exp, log or pow, which compile.rs accepts:     *)
(* they are what takes a finite value to an infinity or to no number.  Of a *)
(* value that is not positive, the interpreter's ln is -inf or NaN, which   *)
(* goes on through sums, comparisons and min, while the C++ evaluator       *)
(* throws (scenario_evaluator.cpp, Log).  Neither these values nor that     *)
(* difference is modelled.                                                  *)
(***************************************************************************)
EXTENDS Integers, Sequences, FiniteSets, SequencesExt, FiniteSetsExt

CONSTANTS None, Panic

Arithmetic == {"add", "sub", "mul", "div", "min", "max", "neg", "abs", "clamp"}
Running == {"running_min", "running_max"}
Scalars == Arithmetic \cup Running
             \cup {"constant", "fixing", "current", "event_value", "average"}
Comparisons == {"greater", "less", "greater_equal", "less_equal", "eq", "between"}
Predicates == Comparisons \cup {"all", "any", "not", "event_occurred"}
Contracts == {"zero", "cashflow", "give", "both", "scale", "if", "when", "trigger",
              "exercise"}

(* The state of an event on one path. *)
EventState == [occurred |-> FALSE, first_hit_time |-> None, captured |-> <<>>]

Arithmetical(f, x) ==
  CASE f = "add" -> x[1] + x[2]
    [] f = "sub" -> x[1] - x[2]
    [] f = "mul" -> x[1] * x[2]
    [] f = "div" -> IF x[2] = 0 THEN Panic ELSE x[1] \div x[2]
    [] f = "min" -> Min({x[1], x[2]})
    [] f = "max" -> Max({x[1], x[2]})
    [] f = "neg" -> -x[1]
    [] f = "abs" -> Max({x[1], -x[1]})
    [] f = "clamp" -> Min({Max({x[1], x[2]}), x[3]})

(* The extremum over the fixings up to the active instant. *)
Extremum(type, values) ==
  IF values = {} THEN Panic
  ELSE IF type = "running_min" THEN Min(values) ELSE Max(values)

WeightedSum(node, fixings) ==
  FoldLeftDomain(LAMBDA sum, i : sum + node.weights[i] * fixings[node.schedule[i]],
                 0, node.schedule)

(* What the node reads of its observable, if it names one. *)
Fixings(node, path) == IF "observable" \in DOMAIN node THEN path[node.observable]
                       ELSE <<>>

(* A scalar, but for exp, log and pow; state is that of the node's event,   *)
(* times are the instants at which a running extremum has a fixing.         *)
ScalarValue(node, kids, cursor, fixings, state, times) ==
  CASE node.type = "constant" -> node.value
    [] node.type = "fixing" -> fixings[node.time]
    [] node.type = "current" -> IF cursor = None THEN Panic ELSE fixings[cursor]
    [] node.type = "average" -> WeightedSum(node, fixings)
    [] node.type \in Running ->
         IF cursor = None THEN Panic
         ELSE Extremum(node.type, {fixings[t] : t \in {u \in times : u <= cursor}})
    [] node.type = "event_value" ->
         IF state.occurred /\ node.observable \in DOMAIN state.captured
         THEN state.captured[node.observable] ELSE Panic
    [] OTHER -> IF Panic \in ToSet(kids) THEN Panic ELSE Arithmetical(node.type, kids)

Within(x, node) ==
  /\ IF node.low_inclusive THEN x[1] >= x[2] ELSE x[1] > x[2]
  /\ IF node.high_inclusive THEN x[1] <= x[3] ELSE x[1] < x[3]

Compared(node, x) ==
  CASE node.type = "greater" -> x[1] > x[2]
    [] node.type = "less" -> x[1] < x[2]
    [] node.type = "greater_equal" -> x[1] >= x[2]
    [] node.type = "less_equal" -> x[1] <= x[2]
    [] node.type = "eq" -> x[1] - x[2] \in -node.tolerance .. node.tolerance
    [] node.type = "between" -> Within(x, node)

(* all and any stop at the first operand that decides, or that panics. *)
Decided(kids, undecided) ==
  LET decisive == {k \in DOMAIN kids : kids[k] # undecided}
  IN  IF decisive = {} THEN undecided ELSE kids[Min(decisive)]

PredicateValue(node, kids, state) ==
  CASE node.type = "event_occurred" -> state.occurred
    [] node.type = "all" -> Decided(kids, TRUE)
    [] node.type = "any" -> Decided(kids, FALSE)
    [] Panic \in ToSet(kids) -> Panic
    [] node.type = "not" -> ~kids[1]
    [] OTHER -> Compared(node, kids)

Spoiled == <<Panic>>
Times(factor, ledger) ==
  [k \in DOMAIN ledger |-> IF ledger[k] = Panic THEN Panic
                           ELSE [ledger[k] EXCEPT !.amount = factor * @]]
=============================================================================
