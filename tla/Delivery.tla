------------------------------ MODULE Delivery ------------------------------
(***************************************************************************)
(* What an outbox promises to the transaction that enqueues an event: the   *)
(* event is performed at least once before it is acknowledged, it is        *)
(* acknowledged or given up at most once and never both, and neither        *)
(* verdict is ever taken back. Performing it again, even after the verdict, *)
(* is allowed: handlers are told to be idempotent on the event's id.        *)
(***************************************************************************)
CONSTANT Events

VARIABLES
    verdict,    \* "none" before the event exists, then "open", then a verdict
    performed   \* the events performed at least once

Init ==
    /\ verdict = [e \in Events |-> "none"]
    /\ performed = {}

Accept(e) ==
    /\ verdict[e] = "none"
    /\ verdict' = [verdict EXCEPT ![e] = "open"]
    /\ UNCHANGED performed

Perform(e) ==
    /\ verdict[e] # "none"
    /\ performed' = performed \cup {e}
    /\ UNCHANGED verdict

Acknowledge(e) ==
    /\ verdict[e] = "open"
    /\ e \in performed
    /\ verdict' = [verdict EXCEPT ![e] = "acknowledged"]
    /\ UNCHANGED performed

GiveUp(e) ==
    /\ verdict[e] = "open"
    /\ verdict' = [verdict EXCEPT ![e] = "given_up"]
    /\ UNCHANGED performed

Next == \E e \in Events : Accept(e) \/ Perform(e) \/ Acknowledge(e) \/ GiveUp(e)

Spec == Init /\ [][Next]_<<verdict, performed>>
=============================================================================
