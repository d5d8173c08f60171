-------------------------- MODULE ScenarioEvaluator --------------------------
(***************************************************************************)
(* The C++ side.  ValidationVisitor is what PayoffProduct checks of an      *)
(* authored contract before anybody compiles or evaluates it: it follows by *)
(* structure alone where an instant will be active, and counts who defines  *)
(* each event.  ScenarioEvaluator::evaluate interprets the tree itself on   *)
(* one known path, path[observable][t], with event states by name.  There   *)
(* are no historical fixings.                                               *)
(***************************************************************************)
EXTENDS PayoffExpr

CONSTANT EventOrder          \* the event ids in lexicographic order

(* ValidationVisitor. *)

(* The nodes in the order of the walk, a node that occurs twice twice. *)
RECURSIVE Occurrences(_)
Occurrences(node) ==
  <<node>> \o FlattenSeq([k \in DOMAIN node.kids |-> Occurrences(node.kids[k])])

Nodes(root) == ToSet(Occurrences(root))

Ascending(times) == \A i \in 2 .. Len(times) : times[i] > times[i - 1]
Schedule(times) == times # <<>> /\ Ascending(times)

\* Mutant: what is paid on a hit has an instant, whenever it settles.
ActiveIn_OnHit(node, k, active) ==
  CASE node.type = "when" -> TRUE
    [] node.type = "exercise" /\ k = 1 -> TRUE
    [] node.type = "trigger" -> k \in {1, 2}
    [] OTHER -> active

(* cursor_active_ while the k-th child is visited. *)
ActiveIn(node, k, active) ==
  CASE node.type = "when" -> TRUE
    [] node.type = "exercise" /\ k = 1 -> TRUE
    [] node.type = "trigger" -> k = 1 \/ (k = 2 /\ node.settlement = "at_hit")
    [] OTHER -> active

RECURSIVE Sound(_, _)
Sound(node, active) ==
  /\ node.type \in {"current", "cashflow"} \cup Running => active
  /\ node.type = "average" =>
       Schedule(node.schedule) /\ Len(node.schedule) = Len(node.weights)
  /\ node.type \in {"all", "any"} => node.kids # <<>>
  /\ node.type \in {"trigger", "exercise"} => Schedule(node.times)
  /\ \A k \in DOMAIN node.kids : Sound(node.kids[k], ActiveIn(node, k, active))

Validated(root) ==
  LET defining == SelectSeq(Occurrences(root),
                            LAMBDA n : n.type \in {"trigger", "exercise"})
      defined == [k \in DOMAIN defining |-> defining[k].event]
      referring == {n \in Nodes(root) : n.type \in {"event_value", "event_occurred"}}
  IN  /\ Sound(root, FALSE)
      /\ IsInjective(defined)
      /\ {n.event : n \in referring} \subseteq ToSet(defined)

-----------------------------------------------------------------------------
(* ScenarioEvaluator. *)

Rank(event) == CHOOSE i \in DOMAIN EventOrder : EventOrder[i] = event

(* TriggerCollector *)
Triggers(root) == {node \in Nodes(root) : node.type = "trigger"}

Known(node, states) == IF "event" \in DOMAIN node THEN states[node.event] ELSE None

RECURSIVE ScalarOf(_, _, _, _)
ScalarOf(node, cursor, path, states) ==
  LET kids == [k \in DOMAIN node.kids |-> ScalarOf(node.kids[k], cursor, path, states)]
  IN  ScalarValue(node, kids, cursor, Fixings(node, path),
                  Known(node, states), DOMAIN Fixings(node, path))

RECURSIVE PredicateOf(_, _, _, _)
PredicateOf(node, cursor, path, states) ==
  LET Kid(kid) == IF node.type \in Comparisons
                  THEN ScalarOf(kid, cursor, path, states)
                  ELSE PredicateOf(kid, cursor, path, states)
  IN  PredicateValue(node, [k \in DOMAIN node.kids |-> Kid(node.kids[k])],
                     Known(node, states))

(* The observables that event_value wants of an event, wherever it does. *)
Wanted(root, event) ==
  {node.observable : node \in {n \in Nodes(root) : /\ n.type = "event_value"
                                                   /\ n.event = event}}

(* resolve_trigger_states, for one trigger at one date. *)
Resolved(root, trigger, t, path, states) ==
  LET holds == PredicateOf(trigger.kids[1], t, path, states)
      hit == [occurred |-> TRUE, first_hit_time |-> t,
              captured |-> [o \in Wanted(root, trigger.event) |-> path[o][t]]]
  IN  IF holds = Panic THEN Panic
      ELSE IF holds THEN [states EXCEPT ![trigger.event] = hit]
      ELSE IF ~trigger.latch THEN [states EXCEPT ![trigger.event] = EventState]
      ELSE states

(* The triggers of a date are chosen first, and then resolved in order. *)
Date(root, t, path, states) ==
  LET due == {g \in Triggers(root) : /\ t \in ToSet(g.times)
                                     /\ ~(g.latch /\ states[g.event].occurred)}
      Before(g, h) == \/ g.priority < h.priority
                      \/ g.priority = h.priority /\ Rank(g.event) < Rank(h.event)
      Step(now, g) == IF now = Panic THEN Panic ELSE Resolved(root, g, t, path, now)
  IN  FoldLeft(Step, states, SetToSortSeq(due, Before))

EventStates(root, path) ==
  LET times == UNION {ToSet(g.times) : g \in Triggers(root)}
      events == {n.event : n \in {m \in Nodes(root) : "event" \in DOMAIN m}}
      Step(now, t) == IF now = Panic THEN Panic ELSE Date(root, t, path, now)
  IN  FoldLeft(Step, [e \in events |-> EventState], SetToSortSeq(times, <))

(* ContractEvalVisitor: the multiplier is carried down, not applied on the  *)
(* way back.  An exercise right is not interpreted.                         *)
RECURSIVE LedgerOf(_, _, _, _, _)
LedgerOf(node, scale, cursor, path, states) ==
  LET Child(k, factor, at) == LedgerOf(node.kids[k], factor, at, path, states)
      Amount == ScalarOf(node.kids[1], cursor, path, states)
      Holds == PredicateOf(node.kids[1], cursor, path, states)
      state == Known(node, states)
  IN  CASE node.type = "zero" -> <<>>
        [] node.type = "cashflow" ->
             IF cursor = None \/ Amount = Panic THEN Spoiled
             ELSE <<[time |-> cursor, amount |-> scale * Amount]>>
        [] node.type = "give" -> Child(1, -scale, cursor)
        [] node.type = "both" ->
             FlattenSeq([k \in DOMAIN node.kids |-> Child(k, scale, cursor)])
        [] node.type = "scale" -> IF Amount = Panic THEN Spoiled
                                  ELSE Child(2, scale * Amount, cursor)
        [] node.type = "if" -> IF Holds = Panic THEN Spoiled
                               ELSE Child(IF Holds THEN 2 ELSE 3, scale, cursor)
        [] node.type = "when" -> Child(1, scale, node.time)
        [] node.type = "trigger" ->
             IF ~state.occurred THEN Child(3, scale, cursor)
             ELSE Child(2, scale, IF node.settlement = "at_hit" THEN state.first_hit_time
                                  ELSE cursor)
        [] node.type = "exercise" -> Spoiled

(* evaluate *)
LOCAL Result(ledger, states) ==
  IF Panic \in ToSet(ledger) THEN Panic ELSE [ledger |-> ledger, states |-> states]
LOCAL OnStates(root, path, states) ==
  IF states = Panic THEN Panic
  ELSE Result(LedgerOf(root, 1, None, path, states), states)
Evaluate(root, path) == OnStates(root, path, EventStates(root, path))
=============================================================================
