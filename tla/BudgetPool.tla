----------------------------- MODULE BudgetPool -----------------------------
(***************************************************************************)
(* What admission promises, without counters, locks or queues: a permit is  *)
(* lent only while everything lent, the new permit included, is affordable, *)
(* and a permit is given back once.  WeightedAdmission and Scheduler are    *)
(* shown to implement this module.                                          *)
(***************************************************************************)
CONSTANTS Permits,        \* everything that may ask for budget
          Affordable(_)   \* the sets of permits the budget can carry at once

VARIABLE lent             \* the permits out at this moment

Init == lent = {}

Lend(p) == /\ p \notin lent
           /\ Affordable(lent \cup {p})
           /\ lent' = lent \cup {p}

GiveBack(p) == /\ p \in lent
               /\ lent' = lent \ {p}

Next == \E p \in Permits : Lend(p) \/ GiveBack(p)

Spec == Init /\ [][Next]_lent

=============================================================================
