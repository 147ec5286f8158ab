---------------------------- MODULE MCTableRuns ----------------------------
(* Instances of TableRuns for TLC.                                           *)
EXTENDS TableRuns

All(mode) == [mode |-> mode, manual |-> TRUE, cap |-> 0, row |-> 0, groups |-> Groups]
Automatic == [mode |-> "new", manual |-> FALSE, cap |-> 0, row |-> 0, groups |-> Groups]

\* First a run of one column or what a write of row 1 makes run by itself,
\* then a run of row 1 by hand or of one column with a cap.
SomeKinds ==
    [d \in Runs |->
        IF d = 1 THEN {[All("all") EXCEPT !.groups = {1}],
                       [Automatic EXCEPT !.row = 1, !.groups = {2}]}
        ELSE {[All("incomplete") EXCEPT !.row = 1],
              [All("incomplete") EXCEPT !.cap = 1, !.groups = {1}]}]
WholeTable == [d \in Runs |-> {All("all")}]

StopTable == {[row |-> 0, groups |-> Groups]}
SomeStops == StopTable \cup {[row |-> 1, groups |-> Groups]}

\* Each group reads the outputs of the one to its left.
Chain == [g \in Groups |-> {g - 1} \cap Groups]
AnyOutcome == [g \in Groups |-> {"filled", "failedLate", "empty", "failed"}]
SomeOutcomes == [AnyOutcome EXCEPT ![2] = {"empty"}]
=============================================================================
