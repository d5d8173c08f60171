------------------------------ MODULE Settlement ------------------------------
(***************************************************************************)
(* What pricing a portfolio promises, without groups, plans or batches: a   *)
(* trade is settled once, with a value or with a failure; the run is        *)
(* complete only when every trade is settled; and it may be stopped at any  *)
(* time before.                                                             *)
(***************************************************************************)
EXTENDS Naturals

CONSTANT Sizes            \* how many trades a portfolio may have

VARIABLES settled,        \* what has become of each trade
          answer

vars == <<settled, answer>>

Init == /\ \E n \in Sizes : settled = [i \in 1 .. n |-> "open"]
        /\ answer = "none"

Open == {i \in DOMAIN settled : settled[i] = "open"}

(* Some open trades are settled, each in its own way. *)
Settle == /\ answer = "none"
          /\ \E fate \in [Open -> {"open", "valued", "failed"}] :
               settled' = [i \in DOMAIN settled |->
                             IF i \in Open THEN fate[i] ELSE settled[i]]
          /\ UNCHANGED answer

Complete == /\ answer = "none"
            /\ Open = {}
            /\ answer' = "Ok"
            /\ UNCHANGED settled

Stop == /\ answer = "none"
        /\ answer' \in {"Cancelled", "InvalidRequest"}
        /\ UNCHANGED settled

Next == Settle \/ Complete \/ Stop

Spec == Init /\ [][Next]_vars

=============================================================================
