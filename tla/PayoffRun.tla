------------------------------ MODULE PayoffRun ------------------------------
(***************************************************************************)
(* The trigger events of one simulated path after the other:                *)
(* resolve_trigger_states walks the union of the monitoring dates, resolves *)
(* the triggers of each one in order, each seeing what the earlier ones     *)
(* did (eval.rs).  PayoffPricing says what is done with the states.         *)
(*                                                                          *)
(* The uniform draw against the crossing probability of the Brownian bridge *)
(* may go either way.                                                       *)
(***************************************************************************)
EXTENDS PayoffDual

CONSTANT EventOrder          \* the event ids in lexicographic order

Reference == INSTANCE ScenarioEvaluator

VARIABLES request,           \* the program as authored, and how it is priced
          payoff,            \* CompiledPayoff
          paths,             \* per path, [slot -> [time -> value]], simulated before
          resolved,          \* the event states of the paths that are done
          states,            \* EventStateResolved of the current path, per event slot
          dates,             \* monitoring dates not walked yet
          active,            \* triggers of the current date not resolved yet
          now,               \* the current date
          answer             \* of the pricing call

walk == <<states, dates, active, now>>

program == request.program
path == paths[Len(resolved) + 1]

TriggersOf(compiled) ==
  {i \in DOMAIN compiled.contracts : compiled.contracts[i].type = "trigger"}
AllTimes(compiled) == UNION {ToSet(compiled.contracts[i].times) : i \in TriggersOf(compiled)}
Untouched == [e \in DOMAIN payoff.events |-> EventState]

StartPath ==
  /\ answer = None /\ states = None /\ Len(resolved) < Len(paths)
  /\ states' = Untouched
  /\ dates' = SetToSortSeq(AllTimes(payoff), <)
  /\ UNCHANGED <<request, payoff, paths, resolved, active, now, answer>>

Trigger(i) == payoff.contracts[i]

\* Mutant: continuous monitoring looks at intervals, and not at its first date.
Due_Intervals(t) ==
  {i \in TriggersOf(payoff) :
     /\ t \in ToSet(Trigger(i).times)
     /\ ~(Trigger(i).latch /\ states[Trigger(i).event].occurred)
     /\ Trigger(i).monitoring = "continuous_approximation" => t # Trigger(i).times[1]}

(* Scheduled at t and not latched. *)
Due(t) == {i \in TriggersOf(payoff) :
             /\ t \in ToSet(Trigger(i).times)
             /\ ~(Trigger(i).latch /\ states[Trigger(i).event].occurred)}

EventName(i) == payoff.events[Trigger(i).event]
NameBefore(i, j) ==
  IndexOf(EventOrder, EventName(i)) < IndexOf(EventOrder, EventName(j))

\* Mutant: the triggers of a date run in the order of the tables.
Before_Table(i, j) == i < j

(* By priority, then by event id; the sort is stable. *)
Before(i, j) ==
  \/ Trigger(i).priority < Trigger(j).priority
  \/ /\ Trigger(i).priority = Trigger(j).priority
     /\ NameBefore(i, j) \/ (EventName(i) = EventName(j) /\ i < j)

NextDate ==
  /\ answer = None /\ active = <<>> /\ dates # <<>>
  /\ now' = Head(dates)
  /\ dates' = Tail(dates)
  /\ active' = SetToSortSeq(Due(Head(dates)), Before)
  /\ UNCHANGED <<request, payoff, paths, resolved, states, answer>>

(* previous_monitoring_time, among the trigger's own dates. *)
Earlier(trigger, t) == {u \in ToSet(trigger.times) : u < t}

(* Where the bridge may find a hit that the dates did not show. *)
MayCross(trigger, t) ==
  /\ trigger.monitoring = "continuous_approximation"
  /\ Earlier(trigger, t) # {}
  /\ LET at == path[trigger.bridge.observable]
         ends == {at[t], at[Max(Earlier(trigger, t))]}
     IN  IF trigger.bridge.direction = "up"
         THEN \A x \in ends : x < trigger.bridge.barrier
         ELSE \A x \in ends : x > trigger.bridge.barrier

(* Every observable that some event_value wants of the event is captured.   *)
Hit(event, t) ==
  LET wanted == {k \in DOMAIN payoff.scalars :
                   /\ payoff.scalars[k].type = "event_value"
                   /\ payoff.scalars[k].event = event}
  IN  [occurred |-> TRUE, first_hit_time |-> t,
       captured |-> [o \in {payoff.scalars[k].observable : k \in wanted} |-> path[o][t]]]

Resolve(trigger, holds) ==
  states' = IF holds THEN [states EXCEPT ![trigger.event] = Hit(trigger.event, now)]
            ELSE IF ~trigger.latch THEN [states EXCEPT ![trigger.event] = EventState]
            ELSE states

ResolveTrigger ==
  /\ answer = None /\ active # <<>>
  /\ active' = Tail(active)
  /\ LET trigger == Trigger(Head(active))
         holds == EvalPredicate(payoff, trigger.kids[1], now, path, states)
     IN  \/ /\ holds = Panic
            /\ answer' = Panic
            /\ UNCHANGED states
         \/ /\ holds # Panic
            /\ Resolve(trigger, holds)
            /\ UNCHANGED answer
         \/ /\ holds = FALSE /\ MayCross(trigger, now)
            /\ Resolve(trigger, TRUE)
            /\ UNCHANGED answer
  /\ UNCHANGED <<request, payoff, paths, resolved, dates, now>>

PathResolved ==
  /\ answer = None /\ states # None /\ active = <<>> /\ dates = <<>>
  /\ resolved' = Append(resolved, states)
  /\ states' = None
  /\ now' = None
  /\ UNCHANGED <<request, payoff, paths, dates, active, answer>>

-----------------------------------------------------------------------------

(* "primer hit gana": of the events whose conditions each exclude the       *)
(* others, at most one has occurred, at any time, and where two conditions  *)
(* held at one date it is the one that comes first by priority and id.      *)
Excludes(i, e) ==
  LET guard == payoff.predicates[Trigger(i).kids[1]]
  IN  /\ guard.type = "all"
      /\ \E k \in ToSet(guard.kids) :
           /\ payoff.predicates[k].type = "not"
           /\ \E j \in ToSet(payoff.predicates[k].kids) :
                payoff.predicates[j] =
                  [type |-> "event_occurred", event |-> e, kids |-> <<>>]
Rivals(i, j) == /\ i # j
                /\ Trigger(i).latch /\ Trigger(j).latch
                /\ Excludes(i, Trigger(j).event) /\ Excludes(j, Trigger(i).event)
                /\ Trigger(i).monitoring = "discrete"
                /\ Trigger(j).monitoring = "discrete"
Wants(i, t) == /\ t \in ToSet(Trigger(i).times)
               /\ EvalPredicate(payoff, Trigger(i).kids[1], t, path, Untouched)
Precedes(i, j) ==
  \/ Trigger(i).priority < Trigger(j).priority
  \/ Trigger(i).priority = Trigger(j).priority /\ NameBefore(i, j)
FirstHitWins ==
  states # None =>
    \A i, j \in TriggersOf(payoff) :
      LET won == states[Trigger(i).event]
      IN  Rivals(i, j) /\ won.occurred =>
            /\ ~states[Trigger(j).event].occurred
            /\ \A t \in {u \in ToSet(Trigger(j).times) : u <= won.first_hit_time} :
                 Wants(j, t) => t = won.first_hit_time /\ Precedes(i, j)
=============================================================================
