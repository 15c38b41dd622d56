--------------------------- MODULE SessionPromise ---------------------------
(***************************************************************************)
(* What the session actor promises its callers, without the actor: a view  *)
(* (state and records under a generation number) that calls change by      *)
(* compare-and-swap on the generation they have observed.  How a change    *)
(* is built, superseded, cancelled or shut down is not visible here: a     *)
(* call is open until it wins against the generation it observed or is     *)
(* refused, once.                                                          *)
(***************************************************************************)
EXTENDS Naturals

CONSTANTS Calls, NoCall

VARIABLES generation, state, records, base, outcome

view == <<generation, state, records>>
vars == <<view, base, outcome>>

Init ==
    /\ generation = 0
    /\ state = NoCall
    /\ records = NoCall
    /\ base = [c \in Calls |-> 0]
    /\ outcome = [c \in Calls |-> "open"]

(* Everyone but the winners keeps an open outcome or is refused; an        *)
(* outcome never changes once it is given.                                 *)
SettleOthers(winners) ==
    \A c \in Calls \ winners :
        outcome'[c] = outcome[c] \/ (outcome[c] = "open" /\ outcome'[c] = "refused")

Observe(c) ==
    /\ outcome[c] = "open"
    /\ base' = [base EXCEPT ![c] = generation]
    /\ UNCHANGED <<view, outcome>>

Refuse ==
    /\ SettleOthers({})
    /\ UNCHANGED <<view, base>>

(* The winner observed the generation that is current as it wins.          *)
Win(c) ==
    /\ outcome[c] = "open" /\ outcome'[c] = "won"
    /\ SettleOthers({c})
    /\ base[c] = generation
    /\ UNCHANGED base

ChangeState(c) ==
    /\ Win(c)
    /\ state' = c
    /\ UNCHANGED <<generation, records>>

(* New records come under a greater generation, with the winner's state    *)
(* (a navigation) or with the state as it was (an enrichment).             *)
Publish(c) ==
    /\ Win(c)
    /\ generation' > generation
    /\ records' = c
    /\ state' \in {c, state}

Next ==
    \/ Refuse
    \/ \E c \in Calls : Observe(c) \/ ChangeState(c) \/ Publish(c)

Spec == Init /\ [][Next]_vars
=============================================================================
