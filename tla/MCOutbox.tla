------------------------------ MODULE MCOutbox ------------------------------
(* Instances of Outbox for TLC.                                             *)
EXTENDS Outbox, TLC

\* min(MAX_BACKOFF, BASE_BACKOFF * 2^n) on the scale of the small clock.
MCBackoff == [n \in 1 .. MaxAttempts |-> IF n < 2 THEN 1 ELSE 2]

WorkerSymmetry == Permutations(Workers)
=============================================================================
