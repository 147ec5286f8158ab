--------------------------- MODULE MCPauseResume ---------------------------
(* Instances of PauseResume for TLC. a and b are approvals, c one behind a,   *)
(* w and x timed waits.                                                      *)
EXTENDS PauseResume, TLC

CONSTANTS a, b, c, w, x

NoWaits == [p \in {} |-> Never]
OneWait == (w :> 2)
TwoWaits == (w :> 2) @@ (x :> 3)

(* Chain: the run resumed from a pauses at c. *)
Chain == [p \in {a, b, c} |-> IF p = a THEN {c} ELSE {}]
(* Flat: nothing behind the pause points. *)
Flat == [p \in {a, b} |-> {}]
(* Mixed: an approval beside a wait. *)
Mixed == [p \in {a, w} |-> {}]
(* Waits: two waits. *)
Waits == [p \in {w, x} |-> {}]
(* Snooze: a wait behind a wait. *)
Snooze == [p \in {w, x} |-> IF p = w THEN {x} ELSE {}]
=============================================================================
