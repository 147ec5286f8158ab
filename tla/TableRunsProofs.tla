-------------------------- MODULE TableRunsProofs --------------------------
(* Proofs about TableRuns, for every number of rows, groups, requests and   *)
(* faults, every window size and whatever the requests ask for.             *)
EXTENDS TableRuns, FiniteSetTheorems, TLAPS

-----------------------------------------------------------------------------
(* Types.                                                                   *)

\* The cell that a task works on is a cell of its row.
LEMMA TaskParts ==
    ASSUME TypeOK, NEW t \in Tasks
    PROVE  /\ t[1] \in Runs /\ t[2] \in Rows /\ t[3] \in Groups
           /\ Own(t) \in Cells
           /\ task[t].group \in Groups
<1>1. t[1] \in Runs /\ t[2] \in Rows /\ t[3] \in Groups
    BY DEF Tasks
<1>2. task[t].group \in Groups
    BY DEF TypeOK, CellTasks
<1> QED BY <1>1, <1>2 DEF Own, Cells

\* A task that goes to another place, or to another group, keeps its type.
LEMMA MoveType ==
    ASSUME TypeOK, NEW t \in Tasks, NEW place \in Places, NEW g \in Groups,
           Moved(t, place) \/ OnTo(t, g, place) \/ Ended(t)
    PROVE  task' \in [Tasks -> CellTasks]
<1>1. task \in [Tasks -> CellTasks] /\ t[3] \in Groups
    BY TaskParts DEF TypeOK
<1>2. CASE Moved(t, place)
    BY <1>1, <1>2 DEF Moved, CellTasks
<1>3. CASE OnTo(t, g, place)
    BY <1>1, <1>3 DEF OnTo, CellTasks
<1>4. CASE Ended(t)
    BY <1>1, <1>4 DEF Ended, CellTasks, Places
<1> QED BY <1>2, <1>3, <1>4

(* Going on leaves the tasks well-typed. *)
LEMMA OnwardType ==
    ASSUME TypeOK, NEW t \in Tasks, NEW cells, NEW data, Onward(t, cells, data)
    PROVE  task' \in [Tasks -> CellTasks]
<1>1. CASE Moved(t, "release")
    BY <1>1, MoveType, TaskParts DEF Places, Inside, Performing
<1>2. ASSUME NEW g \in Groups, OnTo(t, g, "claim")
      PROVE  task' \in [Tasks -> CellTasks]
    BY <1>2, MoveType DEF Places, Inside, Performing
<1> QED BY <1>1, <1>2 DEF Onward, Lowest, Eligible

\* The rows of a batch are finitely many.
LEMMA RowsCounted ==
    ASSUME TypeOK, NEW d \in Runs
    PROVE  Cardinality({c[1] : c \in batch[d].cells}) \in Nat
<1>1. {c[1] : c \in batch[d].cells} \subseteq 1 .. NRows
    BY DEF TypeOK, Cells, Rows
<1>2. IsFiniteSet(1 .. NRows)
    BY FS_Interval, TableAssumption
<1> QED BY <1>1, <1>2, FS_Subset, FS_CardinalityType

(* The end of a window leaves the dispatches well-typed. *)
LEMMA AdvancedType ==
    ASSUME TypeOK, NEW d \in Runs, NEW n \in 0 .. NRows, Advanced(d, n)
    PROVE  /\ disp' \in [Runs -> Dispatches]
           /\ pc' \in [Runs \cup {Stop} -> Stages]
BY DEF TypeOK, Advanced, Dispatches, Stages

(* Setting the status of some dispatches leaves them well-typed. *)
LEMMA StatusType ==
    ASSUME TypeOK, NEW ds, NEW st \in {"dispatching", "complete"}
    PROVE  SetStatus(ds, st) \in
               [Runs -> Dispatches]
BY DEF TypeOK, SetStatus, Dispatches

\* A row of a window.
LEMMA WindowRows ==
    ASSUME NEW d \in Runs, NEW n, NEW last \in Highest(FirstOf(n, Ahead(d)))
    PROVE  last \in Rows /\ last > disp[d].cursor
BY DEF Highest, FirstOf, Ahead

\* What a cancellation has found, and a dispatch, keep their types.
LEMMA FoundType ==
    ASSUME NEW f \in Found, NEW cells \in SUBSET Cells, NEW after \in SUBSET Runs,
           NEW risk \in SUBSET Groups
    PROVE  /\ [f EXCEPT !.cells = cells, !.after = after] \in Found
           /\ [f EXCEPT !.risk = risk] \in Found
BY DEF Found

(* So does moving the cursor and the count of one. *)
LEMMA DispatchRowType ==
    ASSUME NEW x \in Dispatches, NEW done \in Nat, NEW cursor \in 0 .. NRows
    PROVE  [x EXCEPT !.done = done, !.cursor = cursor] \in Dispatches
BY DEF Dispatches

\* Requests, cancellations and wipes.
LEMMA AskType ==
    ASSUME TypeOK, NEW p \in Runs \cup {Stop}, NEW k \in Asks,
           NEW inserted \in [Runs -> Dispatches],
           ask' = [ask EXCEPT ![p] = k],
           CancelDispatches(p, k, inserted)
    PROVE  /\ disp' \in [Runs -> Dispatches]
           /\ seen' \in [Runs \cup {Stop} -> Found]
<1> DEFINE active == {d \in Runs : inserted[d].st \in {"pending", "dispatching"}}
<1>1. CASE k.row = 0
    <2>1. /\ disp' = [d \in Runs |-> IF d \in active \ {p}
                                     THEN [inserted[d] EXCEPT !.st = "cancelled"] ELSE inserted[d]]
          /\ seen' = seen
        BY <1>1 DEF CancelDispatches
    <2> HIDE DEF active
    <2>2. ASSUME NEW d \in Runs PROVE [inserted[d] EXCEPT !.st = "cancelled"] \in Dispatches
        BY DEF Dispatches
    <2> QED BY <2>1, <2>2 DEF TypeOK
<1>2. CASE k.row # 0
    <2>1. k.groups \subseteq Groups
        BY DEF Asks, RunAsks, StopAsks
    <2>2. AtRisk(k, active, ask') \in SUBSET Groups
        BY <2>1 DEF AtRisk
    <2>3. disp' = inserted /\ seen' = [seen EXCEPT ![p].risk = AtRisk(k, active, ask')]
        BY <1>2 DEF CancelDispatches
    <2>4. seen' \in [Runs \cup {Stop} -> Found]
        BY <2>2, <2>3, FoundType DEF TypeOK
    <2> QED BY <2>3, <2>4
<1> QED BY <1>1, <1>2

(* A request to run keeps the types. *)
LEMMA RequestType ==
    ASSUME TypeOK, NEW d \in Runs, Request(d)
    PROVE  TypeOK'
<1> DEFINE inserted == [disp EXCEPT ![d].st = "pending"]
<1>1. inserted \in [Runs -> Dispatches]
    BY DEF TypeOK, Dispatches
<1>2. PICK k \in Kinds[d] :
          LET cancels == k.manual /\ k.mode # "new"
          IN  /\ ask' = [ask EXCEPT ![d] = k]
              /\ pc' = [pc EXCEPT ![d] = IF cancels THEN "find" ELSE "clear"]
              /\ IF cancels THEN CancelDispatches(d, k, inserted)
                            ELSE disp' = inserted /\ UNCHANGED seen
    BY DEF Request
<1>3. k \in Asks
    BY TableAssumption DEF Asks
<1>4. /\ disp' \in [Runs -> Dispatches]
      /\ seen' \in [Runs \cup {Stop} -> Found]
    BY <1>1, <1>2, <1>3, AskType DEF TypeOK
<1>5. /\ ask' \in [Runs \cup {Stop} -> Asks]
      /\ pc' \in [Runs \cup {Stop} -> Stages]
    BY <1>2, <1>3 DEF TypeOK, Stages
<1> QED BY <1>4, <1>5 DEF TypeOK, Request, work

(* A request to stop keeps the types. *)
LEMMA StopType ==
    ASSUME TypeOK, RequestStop
    PROVE  TypeOK'
<1>1. PICK k \in Stops : ask' = [ask EXCEPT ![Stop] = k] /\ CancelDispatches(Stop, k, disp)
    BY DEF RequestStop
<1>2. k \in Asks
    BY TableAssumption DEF Asks
<1>3. /\ disp' \in [Runs -> Dispatches]
      /\ seen' \in [Runs \cup {Stop} -> Found]
    BY <1>1, <1>2, AskType DEF TypeOK
<1>4. /\ ask' \in [Runs \cup {Stop} -> Asks]
      /\ pc' \in [Runs \cup {Stop} -> Stages]
    BY <1>1, <1>2 DEF TypeOK, RequestStop, Stages
<1> QED BY <1>3, <1>4 DEF TypeOK, RequestStop, work

(* The cancellation of cells keeps the types. *)
LEMMA CancelType ==
    ASSUME TypeOK, NEW p \in Runs \cup {Stop}, Cancel(p)
    PROVE  TypeOK'
<1>1. CASE AbortCells(p)
    <2>1. Covered(p) \subseteq Cells /\ Requested \subseteq Runs
        BY DEF Covered, Requested
    <2>2. seen' \in [Runs \cup {Stop} -> Found]
        <3>1. Hit(p) \in SUBSET Cells
            BY <2>1 DEF Hit
        <3>2. [seen[p] EXCEPT !.cells = Hit(p), !.after = Requested] \in Found
            BY <2>1, <3>1, FoundType DEF TypeOK
        <3> QED BY <1>1, <3>2 DEF AbortCells, TypeOK
    <2>3. /\ task' \in [Tasks -> CellTasks]
          /\ ctrl' \in [Cells -> {NoTask} \cup Tasks]
        BY <1>1 DEF AbortCells, TypeOK, CellTasks
    <2>4. pc' \in [Runs \cup {Stop} -> Stages]
        BY <1>1 DEF AbortCells, TypeOK, Stages
    <2> QED BY <1>1, <2>2, <2>3, <2>4 DEF AbortCells, TypeOK
<1>2. CASE WriteCancelled(p)
    <2>1. Requested \subseteq Runs /\ seen[p].after \subseteq Runs
        BY DEF Requested, TypeOK, Found
    <2>2. \A runs \in SUBSET Runs :
              Stopped(runs) \in Executions
        BY DEF Stopped, Executions
    <2>3. cell' \in [Cells -> Executions]
        BY <1>2, <2>1, <2>2 DEF WriteCancelled, TypeOK
    <2>4. /\ seen' \in [Runs \cup {Stop} -> Found]
          /\ pc' \in [Runs \cup {Stop} -> Stages]
        BY <1>2 DEF WriteCancelled, TypeOK, Found, Stages
    <2> QED BY <1>2, <2>3, <2>4 DEF WriteCancelled, TypeOK, work
<1> QED BY <1>1, <1>2 DEF Cancel

(* The steps of a dispatcher keep the types. *)
LEMMA DispatchType ==
    ASSUME TypeOK, NEW d \in Runs, Dispatch(d)
    PROVE  TypeOK'
<1> USE DEF work
<1>1. CASE ClearCells(d)
    <2>1. Blank \in Executions
        BY DEF Blank, Executions
    <2>2. cell' \in [Cells -> Executions] /\ filled' \in [Cells -> BOOLEAN]
        BY <1>1, <2>1 DEF ClearCells, TypeOK
    <2>3. pc' \in [Runs \cup {Stop} -> Stages]
        BY <1>1 DEF ClearCells, TypeOK, Stages
    <2> QED BY <1>1, <2>2, <2>3 DEF ClearCells, TypeOK
<1>2. CASE ReadDispatch(d)
    BY <1>2 DEF ReadDispatch, TypeOK, Stages
<1>3. CASE Begin(d)
    BY <1>3, StatusType DEF Begin, TypeOK, Stages
<1>4. CASE TakeWindow(d)
    <2> DEFINE chunk == FirstOf(Window, Ahead(d))
               cells == WithinCap(d, ToRun(d, chunk))
    <2>1. cells \subseteq Cells
        BY DEF WithinCap, ToRun, FirstOf, Ahead, Cells, TypeOK, Asks, RunAsks, StopAsks
    <2>2. \A last \in Highest(chunk) : last \in 0 .. NRows
        BY WindowRows, TableAssumption DEF Rows
    <2>3. CASE /\ disp' = SetStatus({d}, "complete")
               /\ pc' = [pc EXCEPT ![d] = "over"]
               /\ UNCHANGED batch
        BY <1>4, <2>3, StatusType DEF TakeWindow, TypeOK, Stages
    <2>4. ASSUME NEW last \in Highest(chunk), Advanced(d, last), UNCHANGED batch PROVE TypeOK'
        <3>1. disp' \in [Runs -> Dispatches] /\ pc' \in [Runs \cup {Stop} -> Stages]
            BY <2>2, <2>4, AdvancedType
        <3> QED BY <1>4, <2>4, <3>1 DEF TakeWindow, TypeOK
    <2>5. ASSUME NEW last \in Highest(chunk),
                 batch' = [batch EXCEPT ![d] = [cells |-> cells, last |-> last]],
                 pc' = [pc EXCEPT ![d] = "stamp"], UNCHANGED disp
          PROVE  TypeOK'
        <3> HIDE DEF cells
        <3>1. batch' \in [Runs -> [cells : SUBSET Cells, last : 0 .. NRows]]
            BY <2>1, <2>2, <2>5 DEF TypeOK
        <3>2. pc' \in [Runs \cup {Stop} -> Stages]
            BY <2>5 DEF TypeOK, Stages
        <3> QED BY <1>4, <2>5, <3>1, <3>2 DEF TakeWindow, TypeOK
    <2> QED BY <1>4, <2>3, <2>4, <2>5 DEF TakeWindow
<1>5. CASE StampQueued(d)
    <2>1. Marker \in Executions
        BY DEF Marker, Executions
    <2> QED BY <1>5, <2>1 DEF StampQueued, TypeOK, Stages
<1>6. CASE Enqueue(d)
    <2>1. task' \in [Tasks -> CellTasks]
        BY <1>6 DEF Enqueue, TypeOK, CellTasks, Places
    <2>2. ctrl' \in [Cells -> {NoTask} \cup Tasks]
        <3>1. \A c \in Cells : TaskOf(d, c) \in Tasks
            BY DEF TaskOf, Tasks, Cells
        <3> QED BY <1>6, <3>1 DEF Enqueue, TypeOK
    <2>3. pc' \in [Runs \cup {Stop} -> Stages]
        BY <1>6 DEF Enqueue, TypeOK, Stages
    <2> QED BY <1>6, <2>1, <2>2, <2>3 DEF Enqueue, TypeOK
<1>7. CASE EndWindow(d)
    <2> DEFINE done == disp[d].done + Cardinality({c[1] : c \in batch[d].cells})
               cursor == IF d \in Active THEN batch[d].last ELSE disp[d].cursor
    <2>1. done \in Nat /\ batch[d].last \in 0 .. NRows
        <3>1. disp[d].done \in Nat /\ batch[d].last \in 0 .. NRows
            BY DEF TypeOK, Dispatches
        <3>2. Cardinality({c[1] : c \in batch[d].cells}) \in Nat
            BY RowsCounted
        <3> QED BY <3>1, <3>2
    <2> HIDE DEF done, cursor
    <2>2. /\ disp' \in [Runs -> Dispatches]
          /\ pc' \in [Runs \cup {Stop} -> Stages]
        <3>1. CASE Advanced(d, batch[d].last)
            BY <2>1, <3>1, AdvancedType
        <3>2. CASE disp' = SetStatus({d}, "complete") /\ pc' = [pc EXCEPT ![d] = "over"]
            BY <3>2, StatusType DEF TypeOK, Stages
        <3>3. CASE /\ pc' = [pc EXCEPT ![d] = IF d \in Active THEN "step" ELSE "over"]
                   /\ disp' = [disp EXCEPT ![d] = [@ EXCEPT !.done = done, !.cursor = cursor]]
            <4>1. cursor \in 0 .. NRows
                BY <2>1 DEF TypeOK, Dispatches, cursor
            <4>2. [disp[d] EXCEPT !.done = done, !.cursor = cursor] \in Dispatches
                BY <2>1, <4>1, DispatchRowType DEF TypeOK
            <4>3. disp' = [disp EXCEPT ![d] = [disp[d] EXCEPT !.done = done, !.cursor = cursor]]
                BY <3>3
            <4>4. disp' \in [Runs -> Dispatches]
                BY <4>2, <4>3 DEF TypeOK
            <4> QED BY <3>3, <4>4 DEF TypeOK, Stages
        <3> QED BY <1>7, <3>1, <3>2, <3>3 DEF EndWindow, done, cursor
    <2>3. ctrl' \in [Cells -> {NoTask} \cup Tasks]
        BY <1>7 DEF EndWindow, TypeOK
    <2>4. batch' \in [Runs -> [cells : SUBSET Cells, last : 0 .. NRows]]
        BY <1>7, TableAssumption DEF EndWindow, TypeOK
    <2> QED BY <1>7, <2>2, <2>3, <2>4 DEF EndWindow, TypeOK
<1> QED BY <1>1, <1>2, <1>3, <1>4, <1>5, <1>6, <1>7 DEF Dispatch

\* What a task leaves is cells.
LEMMA WaitingCells ==
    ASSUME NEW r \in Rows
    PROVE  Waiting(r) \subseteq Cells
BY DEF Waiting, Cells

(* What a task is to write keeps its type. *)
LEMMA DraftType ==
    ASSUME TypeOK, NEW t \in Tasks, NEW status \in {"running", "completed", "error"},
           NEW outputs \in BOOLEAN
    PROVE  [draft EXCEPT ![t] = Draft(t, status, outputs)] \in [Tasks -> Drafts]
<1>1. task[t].group \in Groups
    BY TaskParts
<1>2. \A row : Cleared(t[2], task[t].group, row) \in SUBSET Groups
    BY DEF Cleared, Dirtied
<1>3. Draft(t, status, outputs) \in Drafts
    BY <1>1, <1>2 DEF Draft, Drafts
<1> QED BY <1>3 DEF TypeOK

(* The steps of a task keep the types. *)
LEMMA WorkType ==
    ASSUME TypeOK, NEW t \in Tasks, Work(t) \/ MeetLimit(t) \/ TakeExpired(t)
    PROVE  TypeOK'
<1> USE DEF walk
<1>1. /\ Own(t) \in Cells /\ t[2] \in Rows /\ t[1] \in Runs
      /\ t[3] \in Groups
    BY TaskParts
<1>a. Waiting(t[2]) \subseteq Cells
    BY <1>1, WaitingCells
<1>2. CASE TakeLock(t)
    <2>1. task' \in [Tasks -> CellTasks]
        BY <1>1, <1>2, MoveType DEF TakeLock, Places, Inside, Performing
    <2> QED BY <1>1, <1>a, <1>2, <2>1 DEF TakeLock, TypeOK
<1>3. CASE NoticeAbort(t)
    <2>1. task' \in [Tasks -> CellTasks]
        BY <1>1, <1>3, MoveType DEF NoticeAbort, Places, Inside, Performing
    <2> QED BY <1>1, <1>3, <2>1 DEF NoticeAbort, TypeOK
<1>4. CASE MeetLimit(t)
    <2>1. task' \in [Tasks -> CellTasks]
        BY <1>1, <1>4, MoveType DEF MeetLimit, Places, Inside, Performing
    <2>2. cell' \in [Cells -> Executions]
        BY <1>1, <1>4 DEF MeetLimit, TypeOK, Blank, Executions
    <2>3. disp' \in [Runs -> Dispatches]
        BY <1>4, StatusType DEF MeetLimit
    <2>4. blocks' \in Nat
        BY <1>1, <1>4 DEF MeetLimit, TypeOK
    <2> QED BY <1>4, <2>1, <2>2, <2>3, <2>4 DEF MeetLimit, TypeOK
<1>5. CASE Claim(t)
    <2>1. task' \in [Tasks -> CellTasks]
        <3>1. CASE Moved(t, "run")
            BY <1>1, <3>1, MoveType DEF Places, Inside, Performing
        <3>2. CASE Onward(t, cell, filled)
            BY <3>2, OnwardType
        <3> QED BY <1>5, <3>1, <3>2 DEF Claim
    <2>2. cell' \in [Cells -> Executions]
        <3>1. [st |-> "running", owner |-> t, after |-> {}] \in Executions
            BY DEF Executions
        <3> QED BY <1>1, <1>5, <3>1 DEF Claim, TypeOK
    <2>3. starts' \in [Cells -> Nat]
        BY <1>1, <1>5 DEF Claim, TypeOK
    <2> QED BY <1>5, <2>1, <2>2, <2>3 DEF Claim, TypeOK
<1>6. CASE Finish(t)
    <2>1. task' \in [Tasks -> CellTasks]
        <3>1. CASE Moved(t, "write")
            BY <1>1, <3>1, MoveType DEF Places, Inside, Performing
        <3>2. CASE Onward(t, cell, filled)
            BY <3>2, OnwardType
        <3> QED BY <1>6, <3>1, <3>2 DEF Finish
    <2>2. draft' \in [Tasks -> Drafts]
        <3>1. \A o : EndOf(o) \in {"running", "completed", "error"} /\ Yields(o) \in BOOLEAN
            BY DEF EndOf, Yields
        <3>2. draft' = draft \/ \E o : draft' = [draft EXCEPT ![t] = Draft(t, EndOf(o), Yields(o))]
            BY <1>6 DEF Finish
        <3> QED BY <3>1, <3>2, DraftType DEF TypeOK
    <2> QED BY <1>6, <2>1, <2>2 DEF Finish, TypeOK
<1>10. CASE Report(t)
    <2>1. task' \in [Tasks -> CellTasks]
        BY <1>1, <1>10, MoveType DEF Report, Places, Inside, Performing
    <2>2. draft' \in [Tasks -> Drafts]
        BY <1>10, DraftType DEF Report
    <2> QED BY <1>10, <2>1, <2>2 DEF Report, TypeOK
<1>11. CASE Check(t)
    <2>1. task' \in [Tasks -> CellTasks]
        <3>1. CASE Moved(t, "gate")
            BY <1>1, <3>1, MoveType DEF Places, Inside, Performing
        <3>2. CASE Onward(t, cell, filled)
            BY <3>2, OnwardType
        <3> QED BY <1>11, <3>1, <3>2 DEF Check
    <2> QED BY <1>11, <2>1 DEF Check, TypeOK
<1>12. CASE Record(t)
    <2>1. task' \in [Tasks -> CellTasks]
        <3>1. CASE Moved(t, "more")
            BY <1>1, <3>1, MoveType DEF Places, Inside, Performing
        <3>2. CASE Onward(t, cell', filled')
            BY <3>2, OnwardType
        <3> QED BY <1>12, <3>1, <3>2 DEF Record
    <2>2. draft[t] \in Drafts /\ NoDraft \in Drafts
        BY DEF TypeOK, NoDraft, Drafts
    <2>3. cell' \in [Cells -> Executions]
        <3>1. \A u \in {t, Past} : [st |-> draft[t].st, owner |-> u, after |-> {}] \in Executions
            BY <2>2 DEF Drafts, Executions
        <3>2. Blank \in Executions
            BY DEF Blank, Executions
        <3> DEFINE status == [st |-> draft[t].st, owner |-> IF At(t, "report") THEN t ELSE Past,
                              after |-> {}]
        <3>3. status \in Executions
            BY <3>1
        <3>4. \/ cell' = cell
              \/ \E cleared : cell' = [c \in Cells |-> IF c = Own(t) THEN status
                                      ELSE IF c \in cleared THEN Blank ELSE cell[c]]
            BY <1>12 DEF Record
        <3> HIDE DEF status
        <3> QED BY <3>2, <3>3, <3>4 DEF TypeOK
    <2>4. filled' \in [Cells -> BOOLEAN]
        <3>1. filled \in [Cells -> BOOLEAN]
            BY DEF TypeOK
        <3>2. CASE filled' = [c \in Cells |-> IF c[1] = t[2] THEN c[2] \in draft[t].row ELSE filled[c]]
            <4>1. \A c \in Cells : (IF c[1] = t[2] THEN c[2] \in draft[t].row ELSE filled[c]) \in BOOLEAN
                <5> TAKE c \in Cells
                <5>1. CASE c[1] # t[2]
                    BY <3>1, <5>1
                <5>2. CASE c[1] = t[2]
                    <6>1. (c[2] \in draft[t].row) \in BOOLEAN
                        OBVIOUS
                    <6> QED BY <5>2, <6>1
                <5> QED BY <5>1, <5>2
            <4> QED BY <3>2, <4>1, Zenon
        <3> QED BY <1>12, <3>1, <3>2 DEF Record
    <2>5. rearmed' \in [Cells -> Nat]
        BY <1>12 DEF Record, TypeOK
    <2>6. draft' \in [Tasks -> Drafts]
        BY <1>12, <2>2 DEF Record, TypeOK
    <2> QED BY <1>12, <2>1, <2>3, <2>4, <2>5, <2>6 DEF Record, TypeOK
<1>7. CASE Release(t)
    <2>1. task' \in [Tasks -> CellTasks]
        BY <1>1, <1>7, MoveType DEF Release, Places, Inside, Performing
    <2>2. lock' \in [Rows -> {NoTask} \cup Tasks]
        BY <1>1, <1>7 DEF Release, Released, TypeOK
    <2> QED BY <1>a, <1>7, <2>1, <2>2 DEF Release, TypeOK
<1>8. CASE Recheck(t)
    <2>1. LeftBehind(t) \subseteq Groups
        BY DEF LeftBehind, Lowest, Eligible
    <2>2. task' \in [Tasks -> CellTasks]
        BY <1>1, <1>8, <2>1, MoveType DEF Recheck, Places, Inside, Performing
    <2> QED BY <1>1, <1>a, <1>8, <2>2 DEF Recheck, Forgone, TypeOK
<1>9. CASE TakeExpired(t)
    <2>1. task' \in [Tasks -> CellTasks]
        BY <1>1, <1>9, MoveType DEF TakeExpired, Places, Inside, Performing
    <2> QED BY <1>1, <1>9, <2>1 DEF TakeExpired, TypeOK
<1> QED BY <1>2, <1>3, <1>4, <1>5, <1>6, <1>7, <1>8, <1>9, <1>10, <1>11, <1>12 DEF Work

(* Every step keeps the types. *)
LEMMA TypeStep ==
    ASSUME TypeOK, [Next]_vars
    PROVE  TypeOK'
<1>1. CASE UNCHANGED vars
    BY <1>1 DEF TypeOK, vars
<1>2. CASE Next
    BY <1>2, RequestType, StopType, CancelType, DispatchType, WorkType DEF Next, Proceed
<1> QED BY <1>1, <1>2

(* The initial state is well-typed. *)
LEMMA TypeInit == Init => TypeOK
<1> SUFFICES ASSUME Init PROVE TypeOK
    OBVIOUS
<1>1. [st |-> "none", cursor |-> 0, done |-> 0] \in Dispatches
    BY TableAssumption DEF Dispatches
<1>2. Blank \in Executions /\ [cells |-> {}, after |-> {}, risk |-> {}] \in Found
    BY DEF Blank, Executions, Found
<1>3. [row |-> 0, groups |-> {}] \in Asks
    BY TableAssumption DEF Asks, StopAsks
<1>4. [cells |-> {}, last |-> 0] \in [cells : SUBSET Cells, last : 0 .. NRows]
    BY TableAssumption
<1>5. [t \in Tasks |-> [at |-> "none", group |-> t[3], aborted |-> FALSE]] \in [Tasks -> CellTasks]
    BY DEF CellTasks, Places, Tasks
<1>6. NoDraft \in Drafts
    BY DEF NoDraft, Drafts
<1> QED BY <1>1, <1>2, <1>3, <1>4, <1>5, <1>6 DEF Init, TypeOK, Stages

(* Whatever is asked for and whatever fails, the state keeps its types; in  *)
(* particular the cursor of a dispatch stays in the table, and the group a  *)
(* cascade goes on with is a group.                                         *)
THEOREM TableTypes == Spec => []TypeOK
<1>1. Init => TypeOK
    BY TypeInit
<1>2. TypeOK /\ [Next]_vars => TypeOK'
    BY TypeStep
<1> QED BY <1>1, <1>2, PTL DEF Spec

-----------------------------------------------------------------------------
(* One task at a time works on a row.                                       *)

\* A task inside its row's critical section holds the lock of the row, or has
\* lost it to a later one.
HoldsLock ==
    \A t \in Tasks : task[t].at \in Inside /\ t \notin overtaken => lock[t[2]] = t

\* Steps that move no task and change no lock.
LEMMA HoldsLockKept ==
    ASSUME TypeOK, HoldsLock, lock' = lock, overtaken' = overtaken,
           \A t \in Tasks : task'[t].at \in Inside => task[t].at \in Inside
    PROVE  HoldsLock'
BY DEF HoldsLock

\* Where a task is after each of its steps.
LEMMA MovedOne ==
    ASSUME TypeOK, NEW t \in Tasks, NEW place, NEW g,
           Moved(t, place) \/ OnTo(t, g, place)
    PROVE  /\ task'[t].at = place
           /\ \A u \in Tasks \ {t} : task'[u] = task[u]
<1>1. task[t] \in CellTasks /\ task \in [Tasks -> CellTasks]
    BY DEF TypeOK
<1>2. CASE Moved(t, place)
    BY <1>1, <1>2 DEF Moved, CellTasks
<1>3. CASE OnTo(t, g, place)
    BY <1>1, <1>3 DEF OnTo, CellTasks
<1> QED BY <1>2, <1>3

(* The end of a task touches no other task. *)
LEMMA EndedOne ==
    ASSUME TypeOK, NEW t \in Tasks, Ended(t)
    PROVE  /\ task'[t].at = "done"
           /\ \A u \in Tasks \ {t} : task'[u] = task[u]
BY DEF TypeOK, Ended

(* Going on touches no other task. *)
LEMMA OnwardOne ==
    ASSUME TypeOK, NEW t \in Tasks, NEW cells, NEW data, Onward(t, cells, data)
    PROVE  /\ task'[t].at \in {"claim", "release"}
           /\ \A u \in Tasks \ {t} : task'[u] = task[u]
BY MovedOne DEF Onward

(* Every step keeps the lock with who is inside. *)
LEMMA HoldsLockStep ==
    ASSUME TypeOK, HoldsLock, [Next]_vars
    PROVE  HoldsLock'
<1>1. CASE UNCHANGED vars
    BY <1>1 DEF HoldsLock, vars
<1>2. ASSUME \/ \E d \in Runs : Request(d)
             \/ RequestStop
      PROVE  HoldsLock'
    BY <1>2, HoldsLockKept DEF Request, RequestStop, work
<1>3. ASSUME NEW p \in Runs \cup {Stop}, Cancel(p) PROVE HoldsLock'
    <2>1. CASE AbortCells(p)
        <3>1. \A t \in Tasks : task'[t].at = task[t].at
            BY <2>1 DEF AbortCells, TypeOK, CellTasks
        <3> QED BY <2>1, <3>1, HoldsLockKept DEF AbortCells
    <2>2. CASE WriteCancelled(p)
        BY <2>2, HoldsLockKept DEF WriteCancelled, work
    <2> QED BY <1>3, <2>1, <2>2 DEF Cancel
<1>4. ASSUME NEW d \in Runs, Dispatch(d) PROVE HoldsLock'
    <2>1. CASE Enqueue(d)
        <3>1. \A t \in Tasks : task'[t].at = "queued" \/ task'[t] = task[t]
            BY <2>1 DEF Enqueue, TypeOK, CellTasks
        <3> QED BY <2>1, <3>1, HoldsLockKept DEF Enqueue, Inside, Performing
    <2>2. CASE ~Enqueue(d)
        BY <1>4, <2>2, HoldsLockKept
           DEF Dispatch, ClearCells, ReadDispatch, Begin, TakeWindow, StampQueued, EndWindow, work
    <2> QED BY <2>1, <2>2
<1>5. ASSUME NEW t \in Tasks, Work(t) \/ MeetLimit(t) \/ TakeExpired(t) PROVE HoldsLock'
    <2> t[2] \in Rows
        BY TaskParts
    <2>1. CASE TakeLock(t)
        <3>1. CASE lock[t[2]] = NoTask /\ ~task[t].aborted
            <4>1. \A u \in Tasks : u # NoTask
                BY DEF Tasks, NoTask
            <4>2. lock' = [lock EXCEPT ![t[2]] = t] /\ Moved(t, "claim") /\ overtaken' = overtaken
                BY <2>1, <3>1 DEF TakeLock
            <4>3. \A u \in Tasks \ {t} : task'[u] = task[u]
                BY <4>2, MovedOne
            <4>4. \A u \in Tasks \ {t} : lock[u[2]] = u => lock'[u[2]] = u
                BY <3>1, <4>1, <4>2 DEF TypeOK
            <4>5. lock'[t[2]] = t
                BY <4>2 DEF TypeOK
            <4> QED BY <4>2, <4>3, <4>4, <4>5 DEF HoldsLock
        <3>2. CASE ~(lock[t[2]] = NoTask /\ ~task[t].aborted)
            BY <2>1, <3>2, EndedOne, HoldsLockKept DEF TakeLock, Inside, Performing
        <3> QED BY <3>1, <3>2
    <2>2. CASE NoticeAbort(t)
        BY <2>2, MovedOne, HoldsLockKept DEF NoticeAbort, At, Inside, Performing
    <2>3. CASE MeetLimit(t)
        BY <2>3, MovedOne, HoldsLockKept DEF MeetLimit, At, Inside, Performing
    <2>4. CASE Claim(t)
        <3>1. \A u \in Tasks \ {t} : task'[u] = task[u]
            BY <2>4, MovedOne, OnwardOne DEF Claim
        <3> QED BY <2>4, <3>1, HoldsLockKept DEF Claim, At, Inside, Performing, walk
    <2>5. CASE Check(t) \/ Report(t) \/ Finish(t) \/ Record(t)
        <3>1. \A u \in Tasks \ {t} : task'[u] = task[u]
            BY <2>5, MovedOne, OnwardOne DEF Check, Report, Finish, Record
        <3>2. task[t].at \in Inside
            BY <2>5 DEF Check, Report, Finish, Record, At, Inside, Performing
        <3> QED BY <2>5, <3>1, <3>2, HoldsLockKept DEF Check, Report, Finish, Record, walk
    <2>6. CASE Release(t)
        <3>1. task'[t].at \notin Inside /\ \A u \in Tasks \ {t} : task'[u] = task[u]
            <4>1. Ended(t) \/ Moved(t, "recheck")
                BY <2>6 DEF Release
            <4>2. CASE Ended(t)
                BY <4>2, EndedOne DEF Inside, Performing
            <4>3. CASE Moved(t, "recheck")
                <5>1. task'[t].at = "recheck" /\ \A u \in Tasks \ {t} : task'[u] = task[u]
                    BY <4>3, MovedOne
                <5> QED BY <5>1 DEF Inside, Performing
            <4> QED BY <4>1, <4>2, <4>3
        <3>2. \A u \in Tasks \ {t} : lock[u[2]] = u => lock'[u[2]] = u
            BY <2>6, TaskParts DEF Release, Released, TypeOK
        <3>3. \A u \in Tasks \ {t} : u \in overtaken => u \in overtaken'
            BY <2>6 DEF Release
        <3> QED BY <3>1, <3>2, <3>3 DEF HoldsLock
    <2>7. CASE Recheck(t)
        <3>1. task'[t].at \notin Inside /\ \A u \in Tasks \ {t} : task'[u] = task[u]
            BY <2>7, MovedOne, EndedOne DEF Recheck, Inside, Performing
        <3> QED BY <2>7, <3>1, HoldsLockKept DEF Recheck, walk
    <2>8. CASE TakeExpired(t)
        <3>1. task'[t].at = "claim" /\ \A u \in Tasks \ {t} : task'[u] = task[u]
            BY <2>8, MovedOne DEF TakeExpired
        <3>2. lock' = [lock EXCEPT ![t[2]] = t] /\ overtaken' = overtaken \cup {lock[t[2]]}
            BY <2>8 DEF TakeExpired
        <3> QED BY <3>1, <3>2, TaskParts DEF HoldsLock, TypeOK
    <2> QED BY <1>5, <2>1, <2>2, <2>3, <2>4, <2>5, <2>6, <2>7, <2>8 DEF Work
<1> QED BY <1>1, <1>2, <1>3, <1>4, <1>5 DEF Next, Proceed

\* Who holds a lock is one.
LEMMA HoldersAreOne ==
    ASSUME HoldsLock
    PROVE  OneAtATime
<1> SUFFICES ASSUME NEW r \in Rows
             PROVE  Cardinality({t \in Tasks \ overtaken : t[2] = r /\ task[t].at \in Inside}) <= 1
    BY DEF OneAtATime
<1> DEFINE working == {t \in Tasks \ overtaken : t[2] = r /\ task[t].at \in Inside}
<1>1. working \subseteq {lock[r]}
    BY DEF HoldsLock
<1>2. IsFiniteSet({lock[r]}) /\ Cardinality({lock[r]}) = 1
    BY FS_Singleton
<1>3. Cardinality(working) <= Cardinality({lock[r]})
    BY <1>1, <1>2, FS_Subset
<1> QED BY <1>2, <1>3

(* Besides those whose lock expired under them, at most one task works on a *)
(* row: the release and the second look, the stops and the limits open no   *)
(* window in which two do, and who comes late releases no lock of another.  *)
THEOREM RowsAreExclusive == Spec => []OneAtATime
<1>1. Init => HoldsLock
    BY DEF Init, HoldsLock, Inside, Performing
<1>2. TypeOK /\ HoldsLock /\ [Next]_vars => HoldsLock'
    BY HoldsLockStep
<1>3. HoldsLock => OneAtATime
    BY HoldersAreOne
<1> QED BY <1>1, <1>2, <1>3, TableTypes, PTL DEF Spec

-----------------------------------------------------------------------------
(* A stop stands.                                                           *)

\* A task that is about to write has a draft of the kind that its place calls
\* for; it clears dependents of a group whose outputs it writes.
DraftFits(t) ==
    /\ At(t, "report") => draft[t].st = "running"
    /\ At(t, "write") => draft[t].st \in {"completed", "error"}
    /\ task[t].at \in {"report", "write"} =>
          /\ draft[t].clears \subseteq Downstream(task[t].group)
          /\ draft[t].clears # {} => task[t].group \in draft[t].row

DraftsFit == \A t \in Tasks : DraftFits(t)

(* What new outputs of a group put out of date depends on the group.        *)
LEMMA DirtiedIsDownstream ==
    ASSUME NEW g \in Groups, NEW row
    PROVE  Dirtied(g, row) \ {g} \subseteq Downstream(g)
<1> SUFFICES ASSUME NEW h \in Dirtied(g, row), NEW S \in SUBSET Groups, g \in S,
                    \A k \in Groups : Deps[k] \cap S # {} => k \in S
             PROVE  h \in S
    BY DEF Downstream, Dirtied
<1>1. \A k \in Groups : Deps[k] \subseteq row /\ (\E e \in Deps[k] \cap S : e = g \/ e < k) => k \in S
    OBVIOUS
<1> QED BY <1>1 DEF Dirtied

(* What a task makes up clears dependents of its group only. *)
LEMMA DraftClears ==
    ASSUME TypeOK, NEW t \in Tasks, NEW status, NEW outputs \in BOOLEAN
    PROVE  LET x == Draft(t, status, outputs) IN
           /\ x.st = status
           /\ x.clears \subseteq Downstream(task[t].group)
           /\ x.clears # {} => task[t].group \in x.row
<1>1. task[t].group \in Groups
    BY TaskParts
<1>2. \A row : Cleared(t[2], task[t].group, row) \subseteq Downstream(task[t].group)
    BY <1>1, DirtiedIsDownstream DEF Cleared
<1> QED BY <1>2 DEF Draft

\* A step after which a task is about to write what it was about to write.
LEMMA DraftKept ==
    ASSUME NEW t \in Tasks, DraftFits(t), draft'[t] = draft[t],
           \/ task'[t].at \notin {"report", "write"}
           \/ task'[t].at = task[t].at /\ task'[t].group = task[t].group
    PROVE  DraftFits(t)'
BY DEF DraftFits, At

(* The two steps that make up a draft. *)
LEMMA DraftMade ==
    ASSUME TypeOK, NEW t \in Tasks, NEW status, NEW outputs \in BOOLEAN, NEW place,
           draft' = [draft EXCEPT ![t] = Draft(t, status, outputs)], Moved(t, place),
           \/ place = "report" /\ status = "running"
           \/ place = "write" /\ status \in {"completed", "error"}
    PROVE  DraftFits(t)'
<1>1. task'[t].at = place /\ task'[t].group = task[t].group
    BY DEF Moved, TypeOK, CellTasks
<1>2. draft'[t] = Draft(t, status, outputs)
    BY DEF TypeOK
<1>3. /\ draft'[t].st = status
      /\ draft'[t].clears \subseteq Downstream(task[t].group)
      /\ draft'[t].clears # {} => task[t].group \in draft'[t].row
    BY <1>2, DraftClears
<1> QED BY <1>1, <1>3 DEF DraftFits, At, Downstream

(* Every step keeps the drafts fit. *)
LEMMA DraftsStep ==
    ASSUME TypeOK, DraftsFit, [Next]_vars
    PROVE  DraftsFit'
<1> SUFFICES ASSUME NEW t \in Tasks PROVE DraftFits(t)'
    BY DEF DraftsFit
<1>1. DraftFits(t)
    BY DEF DraftsFit
<1>2. ASSUME draft' = draft, task'[t] = task[t] PROVE DraftFits(t)'
    BY <1>1, <1>2, DraftKept
<1>3. CASE UNCHANGED vars
    BY <1>2, <1>3 DEF vars
<1>4. CASE RequestStop \/ \E d \in Runs : Request(d)
    BY <1>2, <1>4 DEF Request, RequestStop, work
<1>5. ASSUME NEW p \in Runs \cup {Stop}, Cancel(p) PROVE DraftFits(t)'
    <2>1. CASE AbortCells(p)
        <3>1. task'[t].at = task[t].at /\ task'[t].group = task[t].group
            BY <2>1 DEF AbortCells, TypeOK, CellTasks
        <3> QED BY <1>1, <2>1, <3>1, DraftKept DEF AbortCells
    <2>2. CASE WriteCancelled(p)
        BY <1>2, <2>2 DEF WriteCancelled, work
    <2> QED BY <1>5, <2>1, <2>2 DEF Cancel
<1>6. ASSUME NEW d \in Runs, Dispatch(d) PROVE DraftFits(t)'
    <2>1. CASE Enqueue(d)
        <3>1. task'[t] = task[t] \/ task'[t].at = "queued"
            BY <2>1 DEF Enqueue, TypeOK, CellTasks
        <3>2. draft' = draft
            BY <2>1 DEF Enqueue
        <3> QED BY <1>1, <3>1, <3>2, DraftKept
    <2> QED BY <1>2, <1>6, <2>1
            DEF Dispatch, ClearCells, ReadDispatch, Begin, TakeWindow, StampQueued, EndWindow, work
<1>7. ASSUME NEW u \in Tasks, Work(u) \/ MeetLimit(u) \/ TakeExpired(u) PROVE DraftFits(t)'
    <2>1. CASE u # t
        <3>1. task'[t] = task[t]
            BY <1>7, <2>1, MovedOne, EndedOne, OnwardOne
               DEF Work, TakeLock, NoticeAbort, Check, Claim, Report, Finish, Record, Release,
                   Recheck, MeetLimit, TakeExpired
        <3>2. draft'[t] = draft[t]
            BY <1>7, <2>1
               DEF Work, TakeLock, NoticeAbort, Check, Claim, Report, Finish, Record, Release,
                   Recheck, MeetLimit, TakeExpired, TypeOK
        <3> QED BY <1>1, <3>1, <3>2, DraftKept
    <2>2. CASE u = t
        <3>1. CASE Report(t)
            BY <3>1, DraftMade DEF Report
        <3>2. CASE Finish(t)
            <4>1. ASSUME NEW o, Moved(t, "write"),
                         draft' = [draft EXCEPT ![t] = Draft(t, EndOf(o), Yields(o))]
                  PROVE  DraftFits(t)'
                <5>1. EndOf(o) \in {"completed", "error"} /\ Yields(o) \in BOOLEAN
                    BY DEF EndOf, Yields
                <5> QED BY <4>1, <5>1, DraftMade
            <4>2. CASE Onward(t, cell, filled)
                BY <4>2, OnwardOne DEF DraftFits, At
            <4> QED BY <3>2, <4>1, <4>2 DEF Finish
        <3>3. CASE TakeLock(t) \/ NoticeAbort(t) \/ Check(t) \/ Claim(t) \/ Record(t) \/ Release(t)
                   \/ Recheck(t) \/ MeetLimit(t) \/ TakeExpired(t)
            <4>1. \/ Ended(t) \/ \E cells, data : Onward(t, cells, data)
                  \/ \E g : \E place \in {"claim", "gate", "run", "more", "release", "blocked",
                                            "recheck", "queued"} : Moved(t, place) \/ OnTo(t, g, place)
                BY <3>3 DEF TakeLock, NoticeAbort, Check, Claim, Record, Release, Recheck, MeetLimit,
                            TakeExpired
            <4>2. task'[t].at \notin {"report", "write"}
                BY <4>1, MovedOne, EndedOne, OnwardOne
            <4> QED BY <4>2 DEF DraftFits, At
        <3> QED BY <1>7, <2>2, <3>1, <3>2, <3>3 DEF Work
    <2> QED BY <2>1, <2>2
<1> QED BY <1>3, <1>4, <1>5, <1>6, <1>7 DEF Next, Proceed

\* The transaction blanks a cell of the row only with outputs it depends on.
LEMMA RecordOverStopped ==
    ASSUME TypeOK, DraftsFit, NEW t \in Tasks, Record(t), NEW c \in Cells, cell[c].st = "cancelled"
    PROVE  \/ cell'[c].st = "cancelled"
           \/ cell'[c].st = "none" /\ UndoneByOutputs(c)
<1>1. CASE cell' = cell
    BY <1>1
<1>2. CASE cell' # cell
    <2> DEFINE cleared == {x \in Cells : x[1] = t[2] /\ x[2] \in draft[t].clears}
               status == [st |-> draft[t].st, owner |-> IF At(t, "report") THEN t ELSE Past, after |-> {}]
    <2>1. /\ Records(t)
          /\ cell' = [x \in Cells |-> IF x = Own(t) THEN status
                                      ELSE IF x \in cleared THEN Blank ELSE cell[x]]
          /\ filled' = [x \in Cells |-> IF x[1] = t[2] THEN x[2] \in draft[t].row ELSE filled[x]]
          /\ draft' = [draft EXCEPT ![t] = NoDraft]
        BY <1>2 DEF Record
    <2>2. c # Own(t)
        BY <2>1 DEF Records, Accepts
    <2>3. CASE c \notin cleared
        BY <2>1, <2>2, <2>3
    <2>4. CASE c \in cleared
        <3>1. Own(t) \in Cells /\ Own(t)[1] = t[2] /\ Own(t)[2] = task[t].group
            BY TaskParts DEF Own
        <3>2. task[t].at \in {"report", "write"}
            BY DEF Record
        <3>3. /\ draft[t].st \in {"running", "completed", "error"}
              /\ c[2] \in Downstream(task[t].group)
              /\ task[t].group \in draft[t].row
            BY <2>4, <3>2 DEF DraftsFit, DraftFits, At
        <3>4. cell'[c] = Blank
            BY <2>1, <2>2, <2>4
        <3>5. cell'[Own(t)].st # "none" /\ filled'[Own(t)]
            BY <2>1, <3>1, <3>3
        <3>6. draft'[t].st = "none"
            BY <2>1 DEF TypeOK, NoDraft
        <3> QED BY <2>4, <3>3, <3>4, <3>5, <3>6 DEF UndoneByOutputs, Blank
    <2> QED BY <2>3, <2>4
<1> QED BY <1>1, <1>2

(* No step of a worker or a dispatcher writes over a stopped cell: the      *)
(* guard of every write refuses it.  It is blanked by the wipe of a request *)
(* for it, by the limit that the task which had come to it meets, and by    *)
(* new outputs of a group that its own depends on.                          *)
THEOREM StopsStand == Spec => StopStands
<1>1. ASSUME TypeOK, DraftsFit, [Next]_vars, NEW c \in Cells, cell[c].st = "cancelled"
      PROVE  \/ cell'[c].st = "cancelled"
             \/ /\ cell'[c].st = "none"
                /\ UndoneByWipe(c) \/ UndoneByLimit(c) \/ UndoneByOutputs(c)
    <2> DEFINE Stands == \/ cell'[c].st = "cancelled"
                         \/ /\ cell'[c].st = "none"
                            /\ UndoneByWipe(c) \/ UndoneByLimit(c) \/ UndoneByOutputs(c)
    <2>1. cell' = cell => Stands
        BY <1>1
    <2>2. ASSUME NEW p \in Runs \cup {Stop}, Cancel(p) PROVE Stands
        BY <1>1, <2>2 DEF Cancel, AbortCells, WriteCancelled, Stopped
    <2>3. ASSUME NEW d \in Runs, Dispatch(d) PROVE Stands
        <3>1. CASE ClearCells(d)
            <4>1. pc[d] = "clear" /\ pc'[d] = "step"
                BY <1>1, <3>1 DEF ClearCells, TypeOK
            <4>2. cell'[c] = IF c \in Wiped(d) THEN Blank ELSE cell[c]
                BY <3>1 DEF ClearCells
            <4> QED BY <1>1, <4>1, <4>2 DEF Wiped, Blank, UndoneByWipe
        <3>2. CASE StampQueued(d)
            BY <1>1, <3>2 DEF StampQueued, Accepts
        <3> QED BY <2>1, <2>3, <3>1, <3>2
                DEF Dispatch, ReadDispatch, Begin, TakeWindow, Enqueue, EndWindow
    <2>4. ASSUME NEW t \in Tasks, Work(t) \/ MeetLimit(t) \/ TakeExpired(t) PROVE Stands
        <3>1. CASE MeetLimit(t)
            <4>1. At(t, "gate") /\ cell' = [cell EXCEPT ![Own(t)] = Blank]
                BY <3>1 DEF MeetLimit
            <4>2. task'[t].at = "blocked"
                BY <1>1, <3>1, MovedOne DEF MeetLimit
            <4>3. c # Own(t) => cell'[c] = cell[c]
                BY <1>1, <4>1 DEF TypeOK
            <4>4. c = Own(t) => cell'[c].st = "none" /\ UndoneByLimit(c)
                BY <1>1, <4>1, <4>2 DEF TypeOK, Blank, UndoneByLimit
            <4> QED BY <1>1, <4>3, <4>4
        <3>2. CASE Claim(t)
            BY <1>1, <3>2 DEF Claim, Accepts, TypeOK
        <3>3. CASE Record(t)
            BY <1>1, <3>3, RecordOverStopped
        <3> QED BY <2>1, <2>4, <3>1, <3>2, <3>3
                DEF Work, TakeLock, NoticeAbort, Check, Report, Finish, Release, Recheck, TakeExpired
    <2>5. \/ cell' = cell
          \/ \E p \in Runs \cup {Stop} : Cancel(p)
          \/ \E d \in Runs : Dispatch(d)
          \/ \E t \in Tasks : Work(t) \/ MeetLimit(t) \/ TakeExpired(t)
        BY <1>1 DEF Next, Proceed, Request, RequestStop, vars
    <2> QED BY <2>1, <2>2, <2>3, <2>4, <2>5
<1>2. TypeOK /\ DraftsFit /\ [Next]_vars =>
          [\A c \in Cells : cell[c].st = "cancelled" =>
              \/ cell'[c].st = "cancelled"
              \/ /\ cell'[c].st = "none"
                 /\ UndoneByWipe(c) \/ UndoneByLimit(c) \/ UndoneByOutputs(c)]_vars
    BY <1>1
<1>3. Init => DraftsFit
    BY DEF Init, DraftsFit, DraftFits, At
<1>4. TypeOK /\ DraftsFit /\ [Next]_vars => DraftsFit'
    BY DraftsStep
<1> QED BY <1>2, <1>3, <1>4, TableTypes, PTL DEF Spec, StopStands

-----------------------------------------------------------------------------
(* A running cell is being run.                                             *)

\* A dispatch visits each row once: its tasks are behind its cursor or in its
\* current window, which lies ahead of the cursor.
VisitedOnce ==
    \A d \in Runs :
        /\ \A t \in Tasks : t[1] = d /\ task[t].at # "none" =>
              \/ t[2] <= disp[d].cursor
              \/ pc[d] = "wait" /\ <<t[2], t[3]>> \in batch[d].cells
              \/ pc[d] = "over"
        /\ pc[d] \in {"stamp", "enqueue", "wait"} =>
              /\ disp[d].cursor < batch[d].last
              /\ \A c \in batch[d].cells : disp[d].cursor < c[1] /\ c[1] <= batch[d].last

\* Steps that start no task, move no cursor and open or close no window.
LEMMA VisitedKept ==
    ASSUME VisitedOnce, batch' = batch,
           \A d \in Runs : disp'[d].cursor = disp[d].cursor,
           \A d \in Runs : \/ pc'[d] = pc[d]
                           \/ pc[d] \notin {"wait", "over"} /\ pc'[d] \notin {"stamp", "enqueue", "wait"}
                           \/ pc[d] = "stamp" /\ pc'[d] = "enqueue",
           \A t \in Tasks : task'[t].at # "none" => task[t].at # "none"
    PROVE  VisitedOnce'
BY DEF VisitedOnce

(* A cancellation of dispatches moves no cursor. *)
LEMMA CancelKeepsCursors ==
    ASSUME TypeOK, NEW p, NEW k, NEW inserted \in [Runs -> Dispatches],
           \A d \in Runs : inserted[d].cursor = disp[d].cursor,
           CancelDispatches(p, k, inserted)
    PROVE  \A d \in Runs : disp'[d].cursor = disp[d].cursor
<1>1. ASSUME NEW d \in Runs PROVE [inserted[d] EXCEPT !.st = "cancelled"].cursor = disp[d].cursor
    BY DEF Dispatches
<1> QED BY <1>1 DEF CancelDispatches

\* The cursor goes to the last row of a window, or the dispatch is over.
LEMMA VisitedAdvanced ==
    ASSUME TypeOK, VisitedOnce, NEW d \in Runs, NEW n \in Nat,
           disp[d].cursor < n,
           pc[d] = "wait" => \A c \in batch[d].cells : c[1] <= n,
           pc[d] # "over",
           \A e \in Runs \ {d} : pc'[e] = pc[e] /\ disp'[e] = disp[e] /\ batch'[e] = batch[e],
           \/ pc'[d] = "step" /\ disp'[d].cursor = n
           \/ pc'[d] = "over",
           task' = task
    PROVE  VisitedOnce'
<1> SUFFICES ASSUME NEW e \in Runs
             PROVE  /\ \A t \in Tasks : t[1] = e /\ task[t].at # "none" =>
                          \/ t[2] <= disp'[e].cursor
                          \/ pc'[e] = "wait" /\ <<t[2], t[3]>> \in batch'[e].cells
                          \/ pc'[e] = "over"
                    /\ pc'[e] \in {"stamp", "enqueue", "wait"} =>
                          /\ disp'[e].cursor < batch'[e].last
                          /\ \A c \in batch'[e].cells :
                                disp'[e].cursor < c[1] /\ c[1] <= batch'[e].last
    BY DEF VisitedOnce
<1>1. CASE e # d
    BY <1>1 DEF VisitedOnce
<1>2. CASE e = d
    <2>1. CASE pc'[d] = "over"
        BY <1>2, <2>1
    <2>2. CASE pc'[d] = "step" /\ disp'[d].cursor = n
        <3>1. ASSUME NEW t \in Tasks, t[1] = d, task[t].at # "none" PROVE t[2] <= n
            <4>1. t[2] \in Nat /\ disp[d].cursor \in Nat
                BY TaskParts, TableAssumption DEF Rows, TypeOK, Dispatches
            <4>2. CASE t[2] <= disp[d].cursor
                BY <4>1, <4>2
            <4>3. CASE pc[d] = "wait" /\ <<t[2], t[3]>> \in batch[d].cells
                BY <4>3
            <4> QED BY <3>1, <4>2, <4>3 DEF VisitedOnce
        <3> QED BY <1>2, <2>2, <3>1
    <2> QED BY <2>1, <2>2
<1> QED BY <1>1, <1>2

(* Every step keeps a dispatch from visiting a row twice. *)
LEMMA VisitedStep ==
    ASSUME TypeOK, VisitedOnce, [Next]_vars
    PROVE  VisitedOnce'
<1>1. CASE UNCHANGED vars
    BY <1>1 DEF VisitedOnce, vars
<1>2. ASSUME NEW d \in Runs, Request(d) PROVE VisitedOnce'
    <2> DEFINE inserted == [disp EXCEPT ![d].st = "pending"]
    <2>1. /\ inserted \in [Runs -> Dispatches]
          /\ \A e \in Runs : inserted[e].cursor = disp[e].cursor
        BY DEF TypeOK, Dispatches
    <2>2. PICK k \in Kinds[d] : CancelDispatches(d, k, inserted) \/ disp' = inserted
        BY <1>2 DEF Request
    <2> HIDE DEF inserted
    <2>3. \A e \in Runs : disp'[e].cursor = disp[e].cursor
        BY <2>1, <2>2, CancelKeepsCursors
    <2>4. \A e \in Runs : pc'[e] = pc[e] \/ (pc[e] = "idle" /\ pc'[e] \in {"find", "clear"})
        BY <1>2 DEF Request, MayAsk, TypeOK
    <2> QED BY <1>2, <2>3, <2>4, VisitedKept DEF Request, work
<1>3. ASSUME RequestStop PROVE VisitedOnce'
    <2>1. \A e \in Runs : disp'[e].cursor = disp[e].cursor
        BY <1>3, CancelKeepsCursors DEF RequestStop, TypeOK
    <2>2. \A e \in Runs : pc'[e] = pc[e]
        BY <1>3 DEF RequestStop, TypeOK, Runs, Stop
    <2> QED BY <1>3, <2>1, <2>2, VisitedKept DEF RequestStop, work
<1>4. ASSUME NEW p \in Runs \cup {Stop}, Cancel(p) PROVE VisitedOnce'
    <2>1. CASE AbortCells(p)
        <3>1. \A t \in Tasks : task'[t].at = task[t].at
            BY <2>1 DEF AbortCells, TypeOK, CellTasks
        <3>2. \A e \in Runs : pc'[e] = pc[e] \/ (pc[e] = "find" /\ pc'[e] = "write")
            BY <2>1 DEF AbortCells, TypeOK
        <3> QED BY <2>1, <3>1, <3>2, VisitedKept DEF AbortCells
    <2>2. CASE WriteCancelled(p)
        <3>1. \A e \in Runs : pc'[e] = pc[e] \/ (pc[e] = "write" /\ pc'[e] \in {"clear", "over"})
            BY <2>2 DEF WriteCancelled, TypeOK
        <3> QED BY <2>2, <3>1, VisitedKept DEF WriteCancelled, work
    <2> QED BY <1>4, <2>1, <2>2 DEF Cancel
<1>5. ASSUME NEW d \in Runs, Dispatch(d) PROVE VisitedOnce'
    <2> disp[d].cursor \in Nat /\ batch[d].last \in Nat
        BY TableAssumption DEF TypeOK, Dispatches
    <2>1. CASE ClearCells(d)
        <3>1. \A e \in Runs : pc'[e] = pc[e] \/ (pc[e] = "clear" /\ pc'[e] = "step")
            BY <2>1 DEF ClearCells, TypeOK
        <3> QED BY <2>1, <3>1, VisitedKept DEF ClearCells, work
    <2>2. CASE ReadDispatch(d)
        <3>1. \A e \in Runs : pc'[e] = pc[e] \/ (pc[e] = "step" /\ pc'[e] \in {"begin", "over"})
            BY <2>2 DEF ReadDispatch, TypeOK
        <3> QED BY <2>2, <3>1, VisitedKept DEF ReadDispatch, work
    <2>3. CASE Begin(d)
        <3>1. \A e \in Runs : pc'[e] = pc[e] \/ (pc[e] = "begin" /\ pc'[e] = "window")
            BY <2>3 DEF Begin, TypeOK
        <3>2. \A e \in Runs : disp'[e].cursor = disp[e].cursor
            BY <2>3 DEF Begin, SetStatus, TypeOK, Dispatches
        <3> QED BY <2>3, <3>1, <3>2, VisitedKept DEF Begin, work
    <2>4. CASE TakeWindow(d)
        <3> DEFINE chunk == FirstOf(Window, Ahead(d))
                   cells == WithinCap(d, ToRun(d, chunk))
        <3>1. pc[d] \in {"window", "step"}
            BY <2>4 DEF TakeWindow
        <3>2. CASE /\ disp' = SetStatus({d}, "complete")
                   /\ pc' = [pc EXCEPT ![d] = "over"]
                   /\ UNCHANGED batch
            <4>1. \A e \in Runs : disp'[e].cursor = disp[e].cursor
                BY <3>2 DEF SetStatus, TypeOK, Dispatches
            <4>2. \A e \in Runs : pc'[e] = pc[e] \/ (pc[e] \in {"window", "step"} /\ pc'[e] = "over")
                BY <3>1, <3>2 DEF TypeOK
            <4> QED BY <2>4, <3>2, <4>1, <4>2, VisitedKept DEF TakeWindow, work
        <3>3. ASSUME NEW last \in Highest(chunk), Advanced(d, last), UNCHANGED batch
              PROVE  VisitedOnce'
            <4>1. last \in Nat /\ disp[d].cursor < last
                BY WindowRows, TableAssumption DEF Rows
            <4>2. \/ pc'[d] = "step" /\ disp'[d].cursor = last
                  \/ pc'[d] = "over"
                BY <3>3 DEF Advanced, TypeOK, Dispatches
            <4>3. \A e \in Runs \ {d} : pc'[e] = pc[e] /\ disp'[e] = disp[e] /\ batch'[e] = batch[e]
                BY <3>3 DEF Advanced, TypeOK
            <4>4. task' = task
                BY <2>4 DEF TakeWindow, work
            <4> QED BY <3>1, <4>1, <4>2, <4>3, <4>4, VisitedAdvanced
        <3>4. ASSUME NEW last \in Highest(chunk),
                     batch' = [batch EXCEPT ![d] = [cells |-> cells, last |-> last]],
                     pc' = [pc EXCEPT ![d] = "stamp"], UNCHANGED disp
              PROVE  VisitedOnce'
            <4>1. disp[d].cursor < last
                BY WindowRows, TableAssumption DEF Rows
            <4>2. \A c \in cells : c[1] \in chunk
                BY DEF WithinCap, ToRun
            <4>3. \A c \in cells : disp[d].cursor < c[1] /\ c[1] <= last
                BY <4>2 DEF Highest, FirstOf, Ahead, Rows
            <4> HIDE DEF cells
            <4>4. /\ pc'[d] = "stamp" /\ batch'[d].cells = cells /\ batch'[d].last = last
                  /\ \A e \in Runs \ {d} : pc'[e] = pc[e] /\ batch'[e] = batch[e]
                BY <3>4 DEF TypeOK
            <4>5. task' = task
                BY <2>4 DEF TakeWindow, work
            <4> QED BY <3>1, <3>4, <4>1, <4>3, <4>4, <4>5 DEF VisitedOnce
        <3> QED BY <2>4, <3>2, <3>3, <3>4 DEF TakeWindow
    <2>5. CASE StampQueued(d)
        <3>1. \A e \in Runs : pc'[e] = pc[e] \/ (pc[e] = "stamp" /\ pc'[e] = "enqueue")
            BY <2>5 DEF StampQueued, TypeOK
        <3> QED BY <2>5, <3>1, VisitedKept DEF StampQueued, work
    <2>6. CASE Enqueue(d)
        <3>1. pc[d] = "enqueue" /\ pc'[d] = "wait" /\ disp' = disp /\ batch' = batch
            BY <2>6 DEF Enqueue, TypeOK
        <3>2. \A e \in Runs \ {d} : pc'[e] = pc[e]
            BY <2>6 DEF Enqueue, TypeOK
        <3>3. \A t \in Tasks : \/ task'[t] = task[t]
                               \/ t[1] = d /\ <<t[2], t[3]>> \in batch[d].cells
            BY <2>6 DEF Enqueue, TypeOK
        <3> QED BY <3>1, <3>2, <3>3 DEF VisitedOnce
    <2>7. CASE EndWindow(d)
        <3>1. pc[d] = "wait" /\ task' = task
            BY <2>7 DEF EndWindow
        <3>2. \A e \in Runs \ {d} : pc'[e] = pc[e] /\ disp'[e] = disp[e] /\ batch'[e] = batch[e]
            BY <2>7 DEF EndWindow, Advanced, SetStatus, TypeOK
        <3>3. \/ pc'[d] = "step" /\ disp'[d].cursor = batch[d].last
              \/ pc'[d] = "over"
            <4>1. CASE Advanced(d, batch[d].last)
                BY <4>1 DEF Advanced, TypeOK, Dispatches
            <4>2. CASE pc' = [pc EXCEPT ![d] = "over"]
                BY <4>2 DEF TypeOK
            <4>3. ASSUME NEW done, NEW cursor,
                         cursor = IF d \in Active THEN batch[d].last ELSE disp[d].cursor,
                         pc' = [pc EXCEPT ![d] = IF d \in Active THEN "step" ELSE "over"],
                         disp' = [disp EXCEPT ![d] = [@ EXCEPT !.done = done, !.cursor = cursor]]
                  PROVE  \/ pc'[d] = "step" /\ disp'[d].cursor = batch[d].last
                         \/ pc'[d] = "over"
                BY <4>3 DEF TypeOK, Dispatches
            <4> QED BY <2>7, <4>1, <4>2, <4>3 DEF EndWindow
        <3>4. disp[d].cursor < batch[d].last /\ \A c \in batch[d].cells : c[1] <= batch[d].last
            BY <3>1 DEF VisitedOnce
        <3>5. pc[d] # "over" /\ batch[d].last \in Nat
            BY <3>1
        <3> HIDE DEF TypeOK
        <3> QED BY <3>1, <3>2, <3>3, <3>4, <3>5, VisitedAdvanced
    <2> QED BY <1>5, <2>1, <2>2, <2>3, <2>4, <2>5, <2>6, <2>7 DEF Dispatch
<1>6. ASSUME NEW t \in Tasks, Work(t) \/ MeetLimit(t) \/ TakeExpired(t) PROVE VisitedOnce'
    <2>1. task[t].at # "none" /\ \A u \in Tasks \ {t} : task'[u] = task[u]
        BY <1>6, MovedOne, EndedOne, OnwardOne
           DEF Work, TakeLock, NoticeAbort, Check, Claim, Report, Finish, Record, Release,
           Recheck, MeetLimit, TakeExpired, At
    <2>2. pc' = pc /\ batch' = batch /\ \A e \in Runs : disp'[e].cursor = disp[e].cursor
        <3>1. CASE MeetLimit(t)
            BY <3>1 DEF MeetLimit, SetStatus, TypeOK, Dispatches
        <3>2. CASE Work(t) \/ TakeExpired(t)
            BY <3>2 DEF Work, TakeLock, NoticeAbort, Check, Claim, Report, Finish, Record, Release,
                        Recheck, TakeExpired, walk
        <3> QED BY <1>6, <3>1, <3>2
    <2> QED BY <2>1, <2>2, VisitedKept
<1> QED BY <1>1, <1>2, <1>3, <1>4, <1>5, <1>6 DEF Next, Proceed

\* Steps that let no cell start to run and end no task that runs.
LEMMA RunningKept ==
    ASSUME RunningIsRun,
           \A c \in Cells : cell'[c].st = "running" => cell'[c] = cell[c],
           \A t \in Tasks : task[t].at \in Performing =>
                              task'[t].at \in Performing /\ task'[t].group = task[t].group
    PROVE  RunningIsRun'
BY DEF RunningIsRun, Own

\* A step of a task that leaves no other cell running than those that were.
LEMMA RunningOthers ==
    ASSUME RunningIsRun, NEW t \in Tasks, NEW c \in Cells, cell'[c].st = "running",
           cell'[c] = cell[c], cell[c].owner # t,
           \A u \in Tasks \ {t} : task'[u] = task[u]
    PROVE  \E u \in Tasks : task'[u].at \in Performing /\ Own(u)' = c /\ cell'[c].owner = u
<1>1. PICK u \in Tasks : task[u].at \in Performing /\ Own(u) = c /\ cell[c].owner = u
    BY DEF RunningIsRun
<1> QED BY <1>1 DEF Own

\* A step of the worker of one task: it is the one that a running cell names.
LEMMA RunningWork ==
    ASSUME TypeOK, RunningIsRun, DraftsFit, NEW t \in Tasks, Work(t) \/ MeetLimit(t) \/ TakeExpired(t)
    PROVE  RunningIsRun'
<1> Own(t) \in Cells
    BY TaskParts
<1>1. \A u \in Tasks \ {t} : task'[u] = task[u]
    BY MovedOne, EndedOne, OnwardOne
       DEF Work, TakeLock, NoticeAbort, Check, Claim, Report, Finish, Record, Release,
           Recheck, MeetLimit, TakeExpired
<1>2. ASSUME task[t].at \notin Performing, \A c \in Cells : cell'[c].st = "running" => cell'[c] = cell[c]
      PROVE  RunningIsRun'
    BY <1>1, <1>2, RunningKept
<1>3. CASE TakeLock(t) \/ NoticeAbort(t) \/ Check(t) \/ Release(t) \/ Recheck(t) \/ TakeExpired(t)
    BY <1>2, <1>3 DEF TakeLock, NoticeAbort, Check, Release, Recheck, TakeExpired, At, Performing
<1>4. CASE MeetLimit(t)
    <2>1. \A c \in Cells : cell'[c] = cell[c] \/ cell'[c] = Blank
        BY <1>4 DEF MeetLimit, TypeOK
    <2> QED BY <1>2, <1>4, <2>1 DEF MeetLimit, At, Blank, Performing
<1>5. CASE Claim(t)
    <2>1. CASE /\ cell' = [cell EXCEPT ![Own(t)] = [st |-> "running", owner |-> t, after |-> {}]]
               /\ Moved(t, "run")
        <3>1. task'[t].at = "run" /\ task'[t].group = task[t].group
            BY <2>1 DEF Moved, TypeOK, CellTasks
        <3> SUFFICES ASSUME NEW c \in Cells, cell'[c].st = "running"
                     PROVE  \E u \in Tasks : task'[u].at \in Performing /\ Own(u)' = c /\ cell'[c].owner = u
            BY DEF RunningIsRun
        <3>2. CASE c = Own(t)
            <4>1. cell'[c].owner = t
                BY <2>1, <3>2 DEF TypeOK
            <4> QED BY <3>1, <3>2, <4>1 DEF Own, Performing
        <3>3. CASE c # Own(t)
            <4>1. cell'[c] = cell[c]
                BY <2>1, <3>3 DEF TypeOK
            <4>2. cell[c].owner # t
                <5> SUFFICES ASSUME cell[c].owner = t PROVE FALSE
                    OBVIOUS
                <5>1. cell[c].st = "running"
                    BY <4>1
                <5> QED BY <1>5, <5>1 DEF RunningIsRun, Claim, At, Performing
            <4> QED BY <1>1, <4>1, <4>2, RunningOthers
        <3> QED BY <3>2, <3>3
    <2>2. CASE UNCHANGED cell
        BY <1>2, <1>5, <2>2 DEF Claim, At, Performing
    <2> QED BY <1>5, <2>1, <2>2 DEF Claim
<1>6. CASE Report(t) \/ (Finish(t) /\ Records(t))
    <2>1. Moved(t, "report") \/ Moved(t, "write")
        BY <1>6 DEF Report, Finish
    <2>2. task'[t].at \in Performing /\ task'[t].group = task[t].group
        BY <2>1 DEF Moved, TypeOK, CellTasks, Performing
    <2>3. cell' = cell
        BY <1>6 DEF Report, Finish
    <2> QED BY <1>1, <2>2, <2>3, RunningKept
\* Whoever gives up its cell is not its owner.
<1>7. ASSUME ~Records(t), cell' = cell PROVE RunningIsRun'
    <2> SUFFICES ASSUME NEW c \in Cells, cell'[c].st = "running"
                 PROVE  \E u \in Tasks : task'[u].at \in Performing /\ Own(u)' = c /\ cell'[c].owner = u
        BY DEF RunningIsRun
    <2>1. cell[c].owner # t
        <3> SUFFICES ASSUME cell[c].owner = t PROVE FALSE
            OBVIOUS
        <3>1. cell[c].st = "running" /\ Own(t) = c
            BY <1>7 DEF RunningIsRun
        <3> QED BY <1>7, <3>1 DEF Records, Accepts
    <2> QED BY <1>1, <1>7, <2>1, RunningOthers
<1>8. CASE Finish(t) /\ ~Records(t)
    BY <1>7, <1>8 DEF Finish
<1>9. CASE Record(t)
    <2>1. CASE ~Records(t)
        BY <1>7, <1>9, <2>1 DEF Record
    <2>2. CASE Records(t)
        <3> DEFINE cleared == {c \in Cells : c[1] = t[2] /\ c[2] \in draft[t].clears}
                   status == [st |-> draft[t].st, owner |-> IF At(t, "report") THEN t ELSE Past,
                              after |-> {}]
        <3>1. cell' = [c \in Cells |-> IF c = Own(t) THEN status
                                      ELSE IF c \in cleared THEN Blank ELSE cell[c]]
            BY <1>9, <2>2 DEF Record
        <3> SUFFICES ASSUME NEW c \in Cells, cell'[c].st = "running"
                     PROVE  \E u \in Tasks : task'[u].at \in Performing /\ Own(u)' = c /\ cell'[c].owner = u
            BY DEF RunningIsRun
        <3>2. CASE c # Own(t)
            <4>1. cell'[c] = cell[c]
                BY <3>1, <3>2 DEF Blank
            <4>2. cell[c].owner # t
                BY <3>2, <4>1 DEF RunningIsRun
            <4> QED BY <1>1, <4>1, <4>2, RunningOthers
        <3>3. CASE c = Own(t)
            <4>1. draft[t].st = "running"
                BY <3>1, <3>3
            <4>2. At(t, "report")
                BY <1>9, <4>1 DEF Record, DraftsFit, DraftFits, At
            <4>3. Moved(t, "more")
                BY <1>9, <4>2 DEF Record
            <4>4. task'[t].at = "more" /\ task'[t].group = task[t].group
                BY <4>3 DEF Moved, TypeOK, CellTasks
            <4>5. cell'[c].owner = t
                BY <3>1, <3>3, <4>2
            <4> QED BY <3>3, <4>4, <4>5 DEF Own, Performing
        <3> QED BY <3>2, <3>3
    <2> QED BY <2>1, <2>2
<1> QED BY <1>3, <1>4, <1>5, <1>6, <1>8, <1>9 DEF Work

\* A window is enqueued only for tasks that have not been started before.
LEMMA EnqueuedAreNew ==
    ASSUME TypeOK, VisitedOnce, NEW d \in Runs, Enqueue(d), NEW t \in Tasks, task[t].at # "none"
    PROVE  task'[t] = task[t]
<1>1. ~(t[1] = d /\ <<t[2], t[3]>> \in batch[d].cells)
    <2> SUFFICES ASSUME t[1] = d, <<t[2], t[3]>> \in batch[d].cells PROVE FALSE
        OBVIOUS
    <2>1. pc[d] = "enqueue"
        BY DEF Enqueue
    <2>2. t[2] <= disp[d].cursor
        BY <2>1 DEF VisitedOnce
    <2>3. disp[d].cursor < <<t[2], t[3]>>[1]
        BY <2>1 DEF VisitedOnce
    <2>4. t[2] \in Nat /\ disp[d].cursor \in Nat
        BY TaskParts, TableAssumption DEF Rows, TypeOK, Dispatches
    <2> QED BY <2>2, <2>3, <2>4
<1> QED BY <1>1 DEF Enqueue, TypeOK

\* A step preserves RunningIsRun: a window is enqueued only for tasks that
\* have not run before.
LEMMA RunningStep ==
    ASSUME TypeOK, VisitedOnce, RunningIsRun, DraftsFit, [Next]_vars
    PROVE  RunningIsRun'
<1>1. CASE UNCHANGED vars
    BY <1>1 DEF RunningIsRun, Own, vars
<1>2. ASSUME cell' = cell, task' = task PROVE RunningIsRun'
    BY <1>2, RunningKept
<1>3. ASSUME NEW d \in Runs, Request(d) PROVE RunningIsRun'
    BY <1>2, <1>3 DEF Request, work
<1>4. CASE RequestStop
    BY <1>2, <1>4 DEF RequestStop, work
<1>5. ASSUME NEW p \in Runs \cup {Stop}, Cancel(p) PROVE RunningIsRun'
    <2>1. CASE AbortCells(p)
        <3>1. \A t \in Tasks : task'[t].at = task[t].at /\ task'[t].group = task[t].group
            BY <2>1 DEF AbortCells, TypeOK, CellTasks
        <3> QED BY <2>1, <3>1, RunningKept DEF AbortCells
    <2>2. CASE WriteCancelled(p)
        <3>1. \A c \in Cells : cell'[c] = cell[c] \/ cell'[c].st = "cancelled"
            BY <2>2 DEF WriteCancelled, Stopped
        <3> QED BY <2>2, <3>1, RunningKept DEF WriteCancelled, work
    <2> QED BY <1>5, <2>1, <2>2 DEF Cancel
<1>6. ASSUME NEW d \in Runs, Dispatch(d) PROVE RunningIsRun'
    <2>1. CASE ClearCells(d)
        <3>1. \A c \in Cells : cell'[c] = cell[c] \/ cell'[c].st = "none"
            BY <2>1 DEF ClearCells, Blank
        <3> QED BY <2>1, <3>1, RunningKept DEF ClearCells, work
    <2>2. CASE StampQueued(d)
        <3>1. \A c \in Cells : cell'[c] = cell[c] \/ cell'[c].st = "pending"
            BY <2>2 DEF StampQueued, Marker
        <3> QED BY <2>2, <3>1, RunningKept DEF StampQueued, work
    <2>3. CASE Enqueue(d)
        <3>1. \A t \in Tasks : task[t].at \in Performing => task'[t] = task[t]
            BY <2>3, EnqueuedAreNew DEF Performing
        <3> QED BY <2>3, <3>1, RunningKept DEF Enqueue
    <2>4. CASE ReadDispatch(d) \/ Begin(d) \/ TakeWindow(d) \/ EndWindow(d)
        BY <1>2, <2>4 DEF ReadDispatch, Begin, TakeWindow, EndWindow, work
    <2> QED BY <1>6, <2>1, <2>2, <2>3, <2>4 DEF Dispatch
<1>7. ASSUME NEW t \in Tasks, Work(t) \/ MeetLimit(t) \/ TakeExpired(t) PROVE RunningIsRun'
    BY <1>7, RunningWork
<1> QED BY <1>1, <1>3, <1>4, <1>5, <1>6, <1>7 DEF Next, Proceed

(* A cell that says it runs is being run, by the task that it names: no     *)
(* stop, wipe, stamp or limit takes the task away and leaves the cell so,   *)
(* and no task leaves its cell so behind.                                   *)
THEOREM RunningCellsRun == Spec => []RunningIsRun
<1>1. Init => VisitedOnce /\ RunningIsRun /\ DraftsFit
    BY DEF Init, VisitedOnce, RunningIsRun, Blank, DraftsFit, DraftFits, At
<1>2. TypeOK /\ VisitedOnce /\ RunningIsRun /\ DraftsFit /\ [Next]_vars
         => VisitedOnce' /\ RunningIsRun' /\ DraftsFit'
    BY VisitedStep, RunningStep, DraftsStep
<1> QED BY <1>1, <1>2, TableTypes, PTL DEF Spec

-----------------------------------------------------------------------------
(* A queued cell is handed over.                                            *)

\* The lock of a row is held from within the row's critical section.
HeldInside ==
    \A r \in Rows : lock[r] # NoTask => lock[r][2] = r /\ task[lock[r]].at \in Inside

\* Somebody has yet to look at the row.
Attended(r) ==
    \/ \E t \in Tasks : t[2] = r /\ task[t].at \notin {"none", "done"}
    \/ \E d \in Runs : pc[d] = "enqueue" /\ \E c \in batch[d].cells : c[1] = r

\* A marker that could be run, and that no task has dropped, is in an attended row.
MarkersAttended == \A r \in Rows : Attended(r) \/ Waiting(r) \subseteq dropped

\* A marker waits when its group is asked for, or has what it depends on.
LEMMA WaitingMarker ==
    ASSUME NEW r \in Rows, NEW c \in {r} \X Groups
    PROVE  c \in Waiting(r) <=> IsMarker(cell[c]) /\ (c[2] \notin AutoRun \/ DepsMet(r, c[2], filled))
<1>1. c = <<r, c[2]>> /\ c[2] \in Groups
    OBVIOUS
<1>2. IsMarker(cell[c]) => (Runnable(Blank, r, c[2], filled, TRUE, "incomplete")
                            <=> c[2] \notin AutoRun \/ DepsMet(r, c[2], filled))
    BY DEF Runnable, Blank, IsMarker, InFlight
<1>3. IsMarker(cell[c]) => (c[2] \in Eligible(cell, filled, r)
                            <=> Runnable(Blank, r, c[2], filled, TRUE, "incomplete"))
    BY <1>1 DEF Eligible
<1> QED BY <1>2, <1>3 DEF Waiting

\* A step that stamps no cell of a row and fills none makes no marker of it wait.
LEMMA WaitingShrinks ==
    ASSUME NEW r \in Rows,
           \A c \in {r} \X Groups : IsMarker(cell'[c]) => IsMarker(cell[c]),
           \A c \in {r} \X Groups : filled'[c] => filled[c]
    PROVE  Waiting(r)' \subseteq Waiting(r)
<1> SUFFICES ASSUME NEW c \in Waiting(r)' PROVE c \in Waiting(r)
    OBVIOUS
<1>1. c \in {r} \X Groups /\ c[2] \in Groups
    BY DEF Waiting
<1>2. IsMarker(cell'[c]) /\ (c[2] \notin AutoRun \/ DepsMet(r, c[2], filled'))
    <2>1. c \in Waiting(r)' <=>
             IsMarker(cell'[c]) /\ (c[2] \notin AutoRun \/ DepsMet(r, c[2], filled'))
        <3>1. c = <<r, c[2]>>
            BY <1>1
        <3>2. IsMarker(cell'[c]) => (Runnable(Blank, r, c[2], filled', TRUE, "incomplete")
                                     <=> c[2] \notin AutoRun \/ DepsMet(r, c[2], filled'))
            BY DEF Runnable, Blank, IsMarker, InFlight
        <3>3. IsMarker(cell'[c]) => (c[2] \in Eligible(cell', filled', r)
                                     <=> Runnable(Blank, r, c[2], filled', TRUE, "incomplete"))
            BY <1>1, <3>1 DEF Eligible
        <3> QED BY <1>1, <3>2, <3>3 DEF Waiting
    <2> QED BY <2>1
<1>3. DepsMet(r, c[2], filled') => DepsMet(r, c[2], filled)
    <2>1. \A h \in Deps[c[2]] : <<r, h>> \in {r} \X Groups
        BY <1>1, TableAssumption
    <2> QED BY <2>1 DEF DepsMet
<1> QED BY <1>1, <1>2, <1>3, WaitingMarker

\* Steps after which a row that was attended still is.
LEMMA AttendedKept ==
    ASSUME NEW r \in Rows, Attended(r),
           \A t \in Tasks : t[2] = r /\ task[t].at \notin {"none", "done"}
                             => task'[t].at \notin {"none", "done"},
           \A d \in Runs : pc[d] = "enqueue" => pc'[d] = "enqueue" /\ batch'[d] = batch[d]
    PROVE  Attended(r)'
BY DEF Attended

\* Steps that move no marker and no filled cell, and give up no row.
LEMMA MarkersKept ==
    ASSUME MarkersAttended, dropped \subseteq dropped',
           \A c \in Cells : IsMarker(cell'[c]) => IsMarker(cell[c]),
           \A c \in Cells : filled'[c] => filled[c],
           \A t \in Tasks : task[t].at \notin {"none", "done"} => task'[t].at \notin {"none", "done"},
           \A d \in Runs : pc[d] = "enqueue" => pc'[d] = "enqueue" /\ batch'[d] = batch[d]
    PROVE  MarkersAttended'
<1> SUFFICES ASSUME NEW r \in Rows PROVE Attended(r)' \/ Waiting(r)' \subseteq dropped'
    BY DEF MarkersAttended
<1>1. {r} \X Groups \subseteq Cells
    BY DEF Cells
<1>2. Waiting(r)' \subseteq Waiting(r)
    BY <1>1, WaitingShrinks
<1>3. Attended(r) => Attended(r)'
    BY AttendedKept
<1> QED BY <1>2, <1>3 DEF MarkersAttended

\* A step of a task: it touches its own row only, and leaves it attended or
\* its markers dropped.
LEMMA WorkerKeeps ==
    ASSUME MarkersAttended, NEW t \in Tasks, dropped \subseteq dropped', pc' = pc, batch' = batch,
           \A u \in Tasks \ {t} : task'[u] = task[u],
           \A c \in Cells : c[1] # t[2] => cell'[c] = cell[c] /\ filled'[c] = filled[c],
           Attended(t[2])' \/ Waiting(t[2])' \subseteq dropped'
    PROVE  MarkersAttended'
<1> SUFFICES ASSUME NEW r \in Rows, r # t[2] PROVE Attended(r)' \/ Waiting(r)' \subseteq dropped'
    BY DEF MarkersAttended
<1>1. \A c \in {r} \X Groups : cell'[c] = cell[c] /\ filled'[c] = filled[c]
    BY DEF Cells
<1>2. Waiting(r)' \subseteq Waiting(r)
    BY <1>1, WaitingShrinks
<1>3. Attended(r) => Attended(r)'
    BY AttendedKept
<1> QED BY <1>2, <1>3 DEF MarkersAttended

\* A task that is under way attends to its row.
LEMMA UnderWay ==
    ASSUME NEW t \in Tasks, task'[t].at \notin {"none", "done"}
    PROVE  Attended(t[2])'
BY DEF Attended

(* Every step keeps the locks with those inside. *)
LEMMA HeldStep ==
    ASSUME TypeOK, VisitedOnce, HeldInside, [Next]_vars
    PROVE  HeldInside'
<1>1. ASSUME lock' = lock, \A t \in Tasks : task[t].at \in Inside => task'[t].at \in Inside
      PROVE  HeldInside'
    BY <1>1 DEF HeldInside, TypeOK
<1>2. CASE UNCHANGED vars
    BY <1>1, <1>2 DEF vars
<1>3. CASE RequestStop \/ \E d \in Runs : Request(d)
    BY <1>1, <1>3 DEF Request, RequestStop, work
<1>4. ASSUME NEW p \in Runs \cup {Stop}, Cancel(p) PROVE HeldInside'
    <2>1. CASE AbortCells(p)
        <3>1. \A t \in Tasks : task'[t].at = task[t].at
            BY <2>1 DEF AbortCells, TypeOK, CellTasks
        <3> QED BY <1>1, <2>1, <3>1 DEF AbortCells
    <2>2. CASE WriteCancelled(p)
        BY <1>1, <2>2 DEF WriteCancelled, work
    <2> QED BY <1>4, <2>1, <2>2 DEF Cancel
<1>5. ASSUME NEW d \in Runs, Dispatch(d) PROVE HeldInside'
    <2>1. CASE Enqueue(d)
        <3>1. \A t \in Tasks : task[t].at \in Inside => task'[t] = task[t]
            BY <2>1, EnqueuedAreNew DEF Inside, Performing
        <3> QED BY <1>1, <2>1, <3>1 DEF Enqueue
    <2>2. CASE ~Enqueue(d)
        BY <1>1, <1>5, <2>2
           DEF Dispatch, ClearCells, ReadDispatch, Begin, TakeWindow, StampQueued, EndWindow, work
    <2> QED BY <2>1, <2>2
<1>6. ASSUME NEW t \in Tasks, Work(t) \/ MeetLimit(t) \/ TakeExpired(t) PROVE HeldInside'
    <2> t[2] \in Rows
        BY TaskParts
    <2>a. \A u \in Tasks \ {t} : task'[u] = task[u]
        BY <1>6, MovedOne, EndedOne, OnwardOne
           DEF Work, TakeLock, NoticeAbort, Check, Claim, Report, Finish, Record, Release,
           Recheck, MeetLimit, TakeExpired
    <2>1. CASE TakeLock(t) \/ TakeExpired(t)
        <3>1. CASE lock' = lock
            BY <1>1, <2>1, <2>a, <3>1 DEF TakeLock, TakeExpired, At, Inside, Performing
        <3>2. CASE lock' = [lock EXCEPT ![t[2]] = t] /\ Moved(t, "claim")
            <4>1. task'[t].at = "claim"
                BY <3>2, MovedOne
            <4>2. task[t].at = "queued"
                BY <2>1 DEF TakeLock, TakeExpired, At
            <4> QED BY <2>a, <3>2, <4>1, <4>2 DEF HeldInside, TypeOK, Inside, Performing
        <3> QED BY <2>1, <3>1, <3>2 DEF TakeLock, TakeExpired
    <2>2. CASE NoticeAbort(t) \/ MeetLimit(t)
        <3>1. task'[t].at \in Inside
            BY <2>2, MovedOne DEF NoticeAbort, MeetLimit, Inside, Performing
        <3> QED BY <1>1, <2>2, <2>a, <3>1 DEF NoticeAbort, MeetLimit
    <2>3. CASE Check(t) \/ Claim(t) \/ Report(t) \/ Finish(t) \/ Record(t)
        <3>1. task'[t].at \in Inside
            BY <2>3, MovedOne, OnwardOne
               DEF Check, Claim, Report, Finish, Record, Inside, Performing
        <3> QED BY <1>1, <2>3, <2>a, <3>1 DEF Check, Claim, Report, Finish, Record
    <2>4. CASE Release(t)
        <3> SUFFICES ASSUME NEW r \in Rows, lock'[r] # NoTask
                     PROVE  lock'[r][2] = r /\ task'[lock'[r]].at \in Inside
            BY DEF HeldInside
        <3>1. lock'[r] = lock[r] /\ lock[r] \in Tasks
            BY <2>4 DEF Release, Released, TypeOK
        <3>2. lock[r][2] = r /\ task[lock[r]].at \in Inside
            BY <3>1 DEF HeldInside
        <3>3. lock[r] # t
            BY <2>4, <3>1, <3>2 DEF Release, Released, TypeOK
        <3> QED BY <2>a, <3>1, <3>2, <3>3
    <2>5. CASE Recheck(t)
        BY <1>1, <2>5, <2>a DEF Recheck, At, Inside, Performing
    <2> QED BY <1>6, <2>1, <2>2, <2>3, <2>4, <2>5 DEF Work
<1> QED BY <1>2, <1>3, <1>4, <1>5, <1>6 DEF Next, Proceed

\* Requests, cancellations and the steps of a dispatcher.
LEMMA MarkersWalk ==
    ASSUME TypeOK, VisitedOnce, MarkersAttended,
           \/ RequestStop \/ \E d \in Runs : Request(d) \/ Dispatch(d)
           \/ \E p \in Runs \cup {Stop} : Cancel(p)
    PROVE  MarkersAttended'
<1>1. CASE RequestStop \/ \E d \in Runs : Request(d)
    <2>1. \A d \in Runs : pc[d] = "enqueue" => pc'[d] = "enqueue"
        BY <1>1 DEF Request, RequestStop, MayAsk, TypeOK
    <2> QED BY <1>1, <2>1, MarkersKept DEF Request, RequestStop, work
<1>2. ASSUME NEW p \in Runs \cup {Stop}, AbortCells(p) PROVE MarkersAttended'
    <2>1. \A t \in Tasks : task'[t].at = task[t].at
        BY <1>2 DEF AbortCells, TypeOK, CellTasks
    <2>2. \A d \in Runs : pc[d] = "enqueue" => pc'[d] = "enqueue"
        BY <1>2 DEF AbortCells, TypeOK
    <2> QED BY <1>2, <2>1, <2>2, MarkersKept DEF AbortCells
<1>3. ASSUME NEW p \in Runs \cup {Stop}, WriteCancelled(p) PROVE MarkersAttended'
    <2>1. \A c \in Cells : cell'[c] = cell[c] \/ cell'[c].st = "cancelled"
        BY <1>3 DEF WriteCancelled, Stopped
    <2>2. \A d \in Runs : pc[d] = "enqueue" => pc'[d] = "enqueue"
        BY <1>3 DEF WriteCancelled, TypeOK
    <2> QED BY <1>3, <2>1, <2>2, MarkersKept DEF WriteCancelled, work, IsMarker
<1>4. ASSUME NEW d \in Runs, ClearCells(d) PROVE MarkersAttended'
    <2>1. \A c \in Cells : cell'[c] = cell[c] \/ cell'[c].st = "none"
        BY <1>4 DEF ClearCells, Blank
    <2>2. \A c \in Cells : filled'[c] => filled[c]
        BY <1>4 DEF ClearCells
    <2>3. \A e \in Runs : pc[e] = "enqueue" => pc'[e] = "enqueue"
        BY <1>4 DEF ClearCells, TypeOK
    <2> QED BY <1>4, <2>1, <2>2, <2>3, MarkersKept DEF ClearCells, work, IsMarker
<1>5. ASSUME NEW d \in Runs, ReadDispatch(d) \/ Begin(d) \/ TakeWindow(d) \/ EndWindow(d)
      PROVE  MarkersAttended'
    <2>1. \A e \in Runs : pc[e] = "enqueue" => pc'[e] = pc[e] /\ batch'[e] = batch[e]
        BY <1>5 DEF ReadDispatch, Begin, TakeWindow, EndWindow, Advanced, TypeOK
    <2> QED BY <1>5, <2>1, MarkersKept DEF ReadDispatch, Begin, TakeWindow, EndWindow, work
<1>6. ASSUME NEW d \in Runs, StampQueued(d) PROVE MarkersAttended'
    <2> SUFFICES ASSUME NEW r \in Rows PROVE Attended(r)' \/ Waiting(r)' \subseteq dropped'
        BY DEF MarkersAttended
    <2>1. CASE \E c \in batch[d].cells : c[1] = r
        <3>1. pc'[d] = "enqueue" /\ batch' = batch
            BY <1>6 DEF StampQueued, TypeOK
        <3> QED BY <2>1, <3>1 DEF Attended
    <2>2. CASE ~\E c \in batch[d].cells : c[1] = r
        <3>1. \A c \in {r} \X Groups : cell'[c] = cell[c] /\ (c \in dropped => c \in dropped')
            BY <1>6, <2>2 DEF StampQueued, Cells
        <3>2. Waiting(r)' \subseteq Waiting(r)
            BY <1>6, <3>1, WaitingShrinks DEF StampQueued
        <3>3. Attended(r) => Attended(r)'
            BY <1>6, AttendedKept DEF StampQueued, TypeOK
        <3>4. Waiting(r) \subseteq {r} \X Groups
            BY DEF Waiting
        <3> QED BY <3>1, <3>2, <3>3, <3>4 DEF MarkersAttended
    <2> QED BY <2>1, <2>2
<1>7. ASSUME NEW d \in Runs, Enqueue(d) PROVE MarkersAttended'
    <2> SUFFICES ASSUME NEW r \in Rows PROVE Attended(r)' \/ Waiting(r)' \subseteq dropped'
        BY DEF MarkersAttended
    <2>1. CASE \E c \in batch[d].cells : c[1] = r
        <3>1. PICK c \in batch[d].cells : c[1] = r
            BY <2>1
        <3>2. c \in Cells /\ TaskOf(d, c) \in Tasks
            BY DEF TypeOK, Cells, TaskOf, Tasks
        <3>3. TaskOf(d, c)[1] = d /\ TaskOf(d, c)[2] = r /\ TaskOf(d, c)[3] = c[2] /\ c = <<r, c[2]>>
            BY <3>1, <3>2 DEF TaskOf, Cells
        <3>4. task'[TaskOf(d, c)].at = "queued"
            BY <1>7, <3>2, <3>3 DEF Enqueue, TypeOK, CellTasks
        <3> QED BY <3>2, <3>3, <3>4, UnderWay
    <2>2. CASE ~\E c \in batch[d].cells : c[1] = r
        <3>1. \A t \in Tasks : task[t].at # "none" => task'[t] = task[t]
            BY <1>7, EnqueuedAreNew
        <3>2. \A e \in Runs \ {d} : pc'[e] = pc[e]
            BY <1>7 DEF Enqueue, TypeOK
        <3>3. Attended(r) => Attended(r)'
            BY <1>7, <2>2, <3>1, <3>2 DEF Attended, Enqueue
        <3>4. Waiting(r)' \subseteq Waiting(r)
            BY <1>7, WaitingShrinks DEF Enqueue
        <3> QED BY <1>7, <3>3, <3>4 DEF MarkersAttended, Enqueue
    <2> QED BY <2>1, <2>2
<1> QED BY <1>1, <1>2, <1>3, <1>4, <1>5, <1>6, <1>7 DEF Cancel, Dispatch

\* The steps of a task: who leaves has seen the markers of its row after it
\* released the lock, or leaves them to who holds it.
LEMMA MarkersWork ==
    ASSUME TypeOK, HeldInside, MarkersAttended, NEW t \in Tasks,
           Work(t) \/ MeetLimit(t) \/ TakeExpired(t)
    PROVE  MarkersAttended'
<1> t[2] \in Rows /\ Own(t) \in Cells /\ Own(t)[1] = t[2]
    BY TaskParts DEF Own
<1>1. \A u \in Tasks \ {t} : task'[u] = task[u]
    BY MovedOne, EndedOne, OnwardOne
       DEF Work, TakeLock, NoticeAbort, Check, Claim, Report, Finish, Record, Release,
           Recheck, MeetLimit, TakeExpired
<1>2. \A c \in Cells : c[1] # t[2] => cell'[c] = cell[c] /\ filled'[c] = filled[c]
    BY DEF Work, TakeLock, NoticeAbort, Check, Claim, Report, Finish, Record, Release,
           Recheck, MeetLimit, TakeExpired, TypeOK
<1>3. pc' = pc /\ batch' = batch /\ dropped \subseteq dropped'
    BY DEF Work, TakeLock, NoticeAbort, Check, Claim, Report, Finish, Record, Release,
           Recheck, MeetLimit, TakeExpired, walk
<1> SUFFICES Attended(t[2])' \/ Waiting(t[2])' \subseteq dropped'
    BY <1>1, <1>2, <1>3, WorkerKeeps
<1>4. CASE NoticeAbort(t) \/ MeetLimit(t) \/ Check(t) \/ Claim(t) \/ Report(t) \/ Finish(t)
           \/ Record(t) \/ TakeExpired(t)
    <2>1. task'[t].at \in Inside
        BY <1>4, MovedOne, OnwardOne
           DEF NoticeAbort, MeetLimit, Check, Claim, Report, Finish, Record, TakeExpired, Inside,
               Performing
    <2> QED BY <2>1, UnderWay DEF Inside, Performing
<1>5. ASSUME cell' = cell, filled' = filled PROVE Waiting(t[2])' \subseteq Waiting(t[2])
    BY <1>5, WaitingShrinks
<1>6. CASE TakeLock(t)
    <2>1. CASE lock[t[2]] = NoTask /\ ~task[t].aborted
        <3>1. Moved(t, "claim")
            BY <1>6, <2>1 DEF TakeLock
        <3>2. task'[t].at = "claim"
            BY <3>1, MovedOne
        <3> QED BY <3>2, UnderWay
    <2>2. CASE lock[t[2]] # NoTask
        <3>1. lock[t[2]] \in Tasks /\ lock[t[2]][2] = t[2] /\ task[lock[t[2]]].at \in Inside
            BY <2>2 DEF HeldInside, TypeOK
        <3>2. lock[t[2]] # t
            BY <1>6, <3>1 DEF TakeLock, At, Inside, Performing
        <3>3. task'[lock[t[2]]].at \notin {"none", "done"}
            BY <1>1, <3>1, <3>2 DEF Inside, Performing
        <3> QED BY <3>1, <3>3, UnderWay
    <2>3. CASE lock[t[2]] = NoTask /\ task[t].aborted
        BY <1>5, <1>6, <2>3 DEF TakeLock
    <2> QED BY <2>1, <2>2, <2>3 DEF TypeOK, CellTasks
<1>7. CASE Release(t)
    <2>1. CASE At(t, "blocked")
        BY <1>5, <1>7, <2>1 DEF Release
    <2>2. CASE ~At(t, "blocked")
        <3>1. task'[t].at = "recheck"
            BY <1>7, <2>2, MovedOne DEF Release
        <3> QED BY <3>1, UnderWay
    <2> QED BY <2>1, <2>2
<1>8. CASE Recheck(t)
    <2>1. CASE \E g \in LeftBehind(t) : OnTo(t, g, "queued")
        <3>1. task'[t].at = "queued"
            BY <2>1, MovedOne
        <3> QED BY <3>1, UnderWay
    <2>2. CASE (task[t].aborted \/ LeftBehind(t) = {}) /\ dropped' = dropped \cup Forgone(t)
        <3>1. Waiting(t[2]) \subseteq Forgone(t)
            <4> SUFFICES ASSUME NEW c \in Waiting(t[2]), ~task[t].aborted
                         PROVE  \E g \in Eligible(cell, filled, t[2]) : g < c[2]
                BY DEF Forgone
            <4>1. c = <<t[2], c[2]>> /\ IsMarker(cell[c]) /\ c[2] \in Eligible(cell, filled, t[2])
                BY DEF Waiting
            <4>2. c[2] \notin Lowest(Eligible(cell, filled, t[2]))
                BY <2>2, <4>1 DEF LeftBehind
            <4>3. PICK g \in Eligible(cell, filled, t[2]) : ~(c[2] <= g)
                BY <4>1, <4>2 DEF Lowest
            <4>4. g \in Groups /\ c[2] \in Groups
                BY <4>1 DEF Eligible
            <4>5. g \in Nat /\ c[2] \in Nat
                BY <4>4, TableAssumption DEF Groups
            <4> QED BY <4>3, <4>5
        <3> QED BY <1>5, <1>8, <2>2, <3>1 DEF Recheck
    <2> QED BY <1>8, <2>1, <2>2 DEF Recheck
<1> QED BY <1>4, <1>6, <1>7, <1>8 DEF Work

(* Every step leaves each row attended, or its markers dropped. *)
LEMMA MarkersStep ==
    ASSUME TypeOK, VisitedOnce, HeldInside, MarkersAttended, [Next]_vars
    PROVE  MarkersAttended'
<1>1. CASE UNCHANGED vars
    BY <1>1, MarkersKept DEF vars
<1> QED BY <1>1, MarkersWalk, MarkersWork DEF Next, Proceed

\* At rest nobody is left to attend to a row.
LEMMA RestHandsOver ==
    ASSUME TypeOK, MarkersAttended
    PROVE  HandedOver
<1> SUFFICES ASSUME Quiet, NEW r \in Rows PROVE Waiting(r) \subseteq dropped
    BY DEF HandedOver
<1>1. ~Attended(r)
    <2>1. \A t \in Tasks : task[t].at \in {"none", "done"}
        BY DEF Quiet
    <2>2. \A d \in Runs : pc[d] # "enqueue"
        BY DEF Quiet, TypeOK
    <2> QED BY <2>1, <2>2 DEF Attended
<1> QED BY <1>1 DEF MarkersAttended

(* A task that finds the lock of its row taken may leave: however requests, *)
(* stops, limits and expired locks interleave with the release of the lock  *)
(* and the second look after it, no marker that could be run is left when   *)
(* all is at rest, but one that a task saw and dropped.                     *)
THEOREM QueuedCellsHandedOver == Spec => []HandedOver
<1>1. Init => VisitedOnce /\ HeldInside /\ MarkersAttended
    <2>1. ASSUME Init, NEW r \in Rows PROVE Waiting(r) = {}
        <3>1. \A c \in {r} \X Groups : ~IsMarker(cell[c])
            BY <2>1 DEF Init, IsMarker, Blank, Cells
        <3> QED BY <3>1 DEF Waiting
    <2>2. Init => VisitedOnce /\ HeldInside
        BY DEF Init, VisitedOnce, HeldInside
    <2> QED BY <2>1, <2>2 DEF MarkersAttended
<1>2. TypeOK /\ VisitedOnce /\ HeldInside /\ MarkersAttended /\ [Next]_vars
         => VisitedOnce' /\ HeldInside' /\ MarkersAttended'
    BY VisitedStep, HeldStep, MarkersStep
<1>3. TypeOK /\ MarkersAttended => HandedOver
    BY RestHandsOver
<1> QED BY <1>1, <1>2, <1>3, TableTypes, PTL DEF Spec

-----------------------------------------------------------------------------
(* A workflow is started once for each request.                             *)

(* What runs by itself is asked for in the mode "new" (lib/table/rows/      *)
(* service.ts, lib/table/workflow-groups/service.ts): only requests by hand *)
(* wipe what has run.                                                       *)
AutomaticIsNew == \A d \in Runs : \A k \in Kinds[d] : k.manual \/ k.mode = "new"

\* What a claim may start: a cell without an execution, or one that has been
\* stamped.
Startable(x) == x.st = "none" \/ (x.st # "cancelled" /\ x.owner = NoTask)

\* The requests by hand for a cell that have done their wiping.
Wipers(c) ==
    {d \in Runs : /\ pc[d] \notin {"idle", "find", "write", "clear"}
                  /\ ask[d].manual /\ c \in Covered(d)}

\* A claim lasts while the cell runs.
ClaimsRun == \A c \in Cells : cell[c].owner \in Tasks => cell[c].st = "running"

\* A request that has begun is stored, and asks for what it may ask for.
AskedFor == \A d \in Runs : pc[d] # "idle" => disp[d].st # "none" /\ ask[d] \in Kinds[d]

\* Each wipe, each clearing for new outputs and each limit allows one start
\* more, and a start that is still allowed has not been counted.
Allowed(c) ==
    /\ starts[c] <= Cardinality(Wipers(c)) + 1 + rearmed[c] + blocks
    /\ Startable(cell[c]) => starts[c] <= Cardinality(Wipers(c)) + rearmed[c] + blocks

StartsAllowed == ClaimsRun /\ AskedFor /\ \A c \in Cells : Allowed(c)

\* A request that has done its wiping stays one.
LEMMA WipersGrow ==
    ASSUME TypeOK, AskedFor, [Next]_vars
    PROVE  AskedFor' /\ \A c \in Cells : Wipers(c) \subseteq Wipers(c)'
<1> DEFINE early == {"idle", "find", "write", "clear"}
<1>1. ASSUME \A d \in Runs : /\ pc[d] # "idle" => ask'[d] = ask[d] /\ pc'[d] # "idle"
                             /\ pc[d] \notin early => pc'[d] \notin early
                             /\ disp[d].st # "none" => disp'[d].st # "none"
                             /\ pc[d] = "idle" /\ pc'[d] # "idle" => disp'[d].st # "none" /\ ask'[d] \in Kinds[d]
      PROVE  AskedFor' /\ \A c \in Cells : Wipers(c) \subseteq Wipers(c)'
    BY <1>1 DEF AskedFor, Wipers, Covered
<1>2. CASE UNCHANGED vars
    BY <1>1, <1>2 DEF vars
<1>3. ASSUME NEW p \in Runs \cup {Stop}, NEW k, NEW inserted \in [Runs -> Dispatches],
             CancelDispatches(p, k, inserted)
      PROVE  \A d \in Runs : inserted[d].st # "none" => disp'[d].st # "none"
    <2>1. ASSUME NEW d \in Runs PROVE disp'[d] = inserted[d] \/ disp'[d] = [inserted[d] EXCEPT !.st = "cancelled"]
        BY <1>3 DEF CancelDispatches
    <2>2. ASSUME NEW x \in Dispatches PROVE [x EXCEPT !.st = "cancelled"].st = "cancelled"
        BY DEF Dispatches
    <2> QED BY <2>1, <2>2
<1>4. ASSUME NEW d \in Runs, Request(d) PROVE AskedFor' /\ \A c \in Cells : Wipers(c) \subseteq Wipers(c)'
    <2> DEFINE inserted == [disp EXCEPT ![d].st = "pending"]
    <2>1. PICK k \in Kinds[d] :
              /\ ask' = [ask EXCEPT ![d] = k]
              /\ pc' = [pc EXCEPT ![d] = IF k.manual /\ k.mode # "new" THEN "find" ELSE "clear"]
              /\ CancelDispatches(d, k, inserted) \/ disp' = inserted
        BY <1>4 DEF Request
    <2>2. \A e \in Runs : disp[e].st # "none" => inserted[e].st # "none"
        BY DEF TypeOK, Dispatches
    <2>3. inserted[d].st # "none" /\ inserted \in [Runs -> Dispatches]
        BY DEF TypeOK, Dispatches
    <2> HIDE DEF inserted
    <2>4. \A e \in Runs : inserted[e].st # "none" => disp'[e].st # "none"
        BY <1>3, <2>1, <2>3
    <2>5. pc[d] = "idle"
        BY <1>4 DEF Request, MayAsk
    <2> QED BY <1>1, <2>1, <2>2, <2>3, <2>4, <2>5 DEF TypeOK
<1>5. CASE RequestStop
    <2>1. \A e \in Runs : pc'[e] = pc[e] /\ ask'[e] = ask[e]
        BY <1>5 DEF RequestStop, TypeOK, Runs, Stop
    <2>2. \A e \in Runs : disp[e].st # "none" => disp'[e].st # "none"
        BY <1>3, <1>5 DEF RequestStop, TypeOK
    <2> QED BY <1>1, <2>1, <2>2
<1>6. ASSUME NEW p \in Runs \cup {Stop}, Cancel(p)
      PROVE  AskedFor' /\ \A c \in Cells : Wipers(c) \subseteq Wipers(c)'
    <2>1. \A d \in Runs : \/ pc'[d] = pc[d]
                          \/ pc[d] \in {"find", "write"} /\ pc'[d] # "idle"
        BY <1>6 DEF Cancel, AbortCells, WriteCancelled, TypeOK
    <2> QED BY <1>1, <1>6, <2>1 DEF Cancel, AbortCells, WriteCancelled
<1>7. ASSUME NEW d \in Runs, Dispatch(d)
      PROVE  AskedFor' /\ \A c \in Cells : Wipers(c) \subseteq Wipers(c)'
    <2>1. pc[d] # "idle"
        BY <1>7 DEF Dispatch, ClearCells, ReadDispatch, Begin, TakeWindow, StampQueued, Enqueue, EndWindow
    <2>2. \A e \in Runs \ {d} : pc'[e] = pc[e]
        BY <1>7 DEF Dispatch, ClearCells, ReadDispatch, Begin, TakeWindow, StampQueued, Enqueue, EndWindow,
                    Advanced, TypeOK
    <2>3. pc'[d] \notin early
        BY <1>7 DEF Dispatch, ClearCells, ReadDispatch, Begin, TakeWindow, StampQueued, Enqueue, EndWindow,
                    Advanced, TypeOK
    <2>4. \A e \in Runs : disp[e].st # "none" => disp'[e].st # "none"
        <3>1. CASE disp' = disp
            BY <3>1
        <3>2. ASSUME NEW st \in {"dispatching", "complete"}, disp' = SetStatus({d}, st)
              PROVE  \A e \in Runs : disp[e].st # "none" => disp'[e].st # "none"
            BY <3>2 DEF SetStatus, TypeOK, Dispatches
        <3>3. ASSUME NEW n, Advanced(d, n)
              PROVE  \A e \in Runs : disp[e].st # "none" => disp'[e].st # "none"
            BY <3>3 DEF Advanced, TypeOK, Dispatches
        <3>4. ASSUME NEW n, NEW m, disp' = [disp EXCEPT ![d] = [@ EXCEPT !.done = n, !.cursor = m]]
              PROVE  \A e \in Runs : disp[e].st # "none" => disp'[e].st # "none"
            BY <3>4 DEF TypeOK, Dispatches
        <3>5. CASE TakeWindow(d)
            BY <3>1, <3>2, <3>3, <3>5 DEF TakeWindow
        <3>6. CASE EndWindow(d)
            <4> DEFINE done == disp[d].done + Cardinality({c[1] : c \in batch[d].cells})
                       cursor == IF d \in Active THEN batch[d].last ELSE disp[d].cursor
            <4>1. \/ Advanced(d, batch[d].last)
                  \/ disp' = SetStatus({d}, "complete")
                  \/ disp' = [disp EXCEPT ![d] = [@ EXCEPT !.done = done, !.cursor = cursor]]
                BY <3>6 DEF EndWindow
            <4> HIDE DEF done, cursor
            <4> QED BY <3>2, <3>3, <3>4, <4>1
        <3>7. CASE Begin(d)
            BY <3>2, <3>7 DEF Begin
        <3>8. CASE ClearCells(d) \/ ReadDispatch(d) \/ StampQueued(d) \/ Enqueue(d)
            BY <3>1, <3>8 DEF ClearCells, ReadDispatch, StampQueued, Enqueue
        <3> QED BY <1>7, <3>5, <3>6, <3>7, <3>8 DEF Dispatch
    <2>5. ask' = ask
        BY <1>7 DEF Dispatch, ClearCells, ReadDispatch, Begin, TakeWindow, StampQueued, Enqueue, EndWindow
    <2> QED BY <1>1, <2>1, <2>2, <2>3, <2>4, <2>5
<1>8. ASSUME NEW t \in Tasks, Work(t) \/ MeetLimit(t) \/ TakeExpired(t)
      PROVE  AskedFor' /\ \A c \in Cells : Wipers(c) \subseteq Wipers(c)'
    <2>1. pc' = pc /\ ask' = ask
        BY <1>8 DEF Work, TakeLock, NoticeAbort, Check, Claim, Report, Finish, Record, Release,
           Recheck, MeetLimit, TakeExpired, walk
    <2>2. disp' = disp \/ \E ds : disp' = SetStatus(ds, "complete")
        BY <1>8 DEF Work, TakeLock, NoticeAbort, Check, Claim, Report, Finish, Record, Release,
           Recheck, MeetLimit, TakeExpired, walk
    <2>3. \A d \in Runs : disp[d].st # "none" => disp'[d].st # "none"
        BY <2>2 DEF SetStatus, TypeOK, Dispatches
    <2> QED BY <1>1, <2>1, <2>3
<1> QED BY <1>2, <1>4, <1>5, <1>6, <1>7, <1>8 DEF Next, Proceed

\* The requests that have done their wiping are counted.
LEMMA WipersCounted ==
    ASSUME NEW c
    PROVE  IsFiniteSet(Wipers(c)) /\ Cardinality(Wipers(c)) \in Nat
<1>1. IsFiniteSet(Runs)
    BY FS_Interval, TableAssumption DEF Runs
<1>2. Wipers(c) \subseteq Runs
    BY DEF Wipers
<1> QED BY <1>1, <1>2, FS_Subset, FS_CardinalityType

(* So they are after a step, and have not become fewer. *)
LEMMA WipersCountedNext ==
    ASSUME NEW c, Wipers(c) \subseteq Wipers(c)'
    PROVE  /\ IsFiniteSet(Wipers(c)')
           /\ Cardinality(Wipers(c)') \in Nat
           /\ Cardinality(Wipers(c)) <= Cardinality(Wipers(c)')
<1>1. IsFiniteSet(Runs)
    BY FS_Interval, TableAssumption DEF Runs
<1>2. Wipers(c)' \subseteq Runs
    BY DEF Wipers
<1>3. IsFiniteSet(Wipers(c)')
    BY <1>1, <1>2, FS_Subset
<1> QED BY <1>3, FS_Subset, FS_CardinalityType

\* A cell that is not started, and does not become startable.
LEMMA AllowedKept ==
    ASSUME TypeOK, NEW c \in Cells, Allowed(c), Wipers(c) \subseteq Wipers(c)',
           starts'[c] = starts[c], blocks' = blocks, rearmed'[c] = rearmed[c],
           Startable(cell'[c]) => Startable(cell[c])
    PROVE  Allowed(c)'
<1>1. starts[c] \in Nat /\ blocks \in Nat /\ rearmed[c] \in Nat
    BY DEF TypeOK
<1>2. /\ Cardinality(Wipers(c)) \in Nat /\ Cardinality(Wipers(c)') \in Nat
      /\ Cardinality(Wipers(c)) <= Cardinality(Wipers(c)')
    BY WipersCounted, WipersCountedNext
<1> QED BY <1>1, <1>2 DEF Allowed

(* A step keeps claims to cells that run. *)
LEMMA ClaimsStep ==
    ASSUME TypeOK, ClaimsRun, DraftsFit, [Next]_vars
    PROVE  ClaimsRun'
<1> SUFFICES ASSUME NEW c \in Cells, cell'[c].owner \in Tasks PROVE cell'[c].st = "running"
    BY DEF ClaimsRun
<1>1. NoTask \notin Tasks /\ Past \notin Tasks
    BY DEF NoTask, Past, Tasks
<1>2. CASE cell'[c] = cell[c]
    BY <1>2 DEF ClaimsRun
<1>3. CASE cell'[c].owner \in {NoTask, Past} \/ cell'[c].st = "running"
    BY <1>1, <1>3
<1>4. ASSUME NEW p \in Runs \cup {Stop}, Cancel(p) PROVE cell'[c].st = "running"
    BY <1>2, <1>3, <1>4 DEF Cancel, AbortCells, WriteCancelled, Stopped
<1>5. ASSUME NEW d \in Runs, Dispatch(d) PROVE cell'[c].st = "running"
    <2>1. CASE ClearCells(d)
        BY <1>2, <1>3, <2>1 DEF ClearCells, Blank
    <2>2. CASE StampQueued(d)
        BY <1>2, <1>3, <2>2 DEF StampQueued, Marker
    <2> QED BY <1>2, <1>5, <2>1, <2>2 DEF Dispatch, ReadDispatch, Begin, TakeWindow, Enqueue, EndWindow
<1>6. ASSUME NEW t \in Tasks, Work(t) \/ MeetLimit(t) \/ TakeExpired(t) PROVE cell'[c].st = "running"
    <2>1. CASE MeetLimit(t)
        BY <1>2, <1>3, <2>1 DEF MeetLimit, TypeOK, Blank
    <2>2. CASE Claim(t)
        BY <1>2, <1>3, <2>2 DEF Claim, TypeOK
    <2>3. CASE Record(t)
        <3>1. CASE cell' = cell
            BY <1>2, <3>1
        <3>2. CASE cell' # cell
            <4>1. cell'[c] \in {cell[c], Blank,
                               [st |-> draft[t].st, owner |-> IF At(t, "report") THEN t ELSE Past,
                                after |-> {}]}
                BY <2>3, <3>2 DEF Record
            <4>2. At(t, "report") => draft[t].st = "running"
                BY DEF DraftsFit, DraftFits
            <4> QED BY <1>2, <1>3, <4>1, <4>2 DEF Blank
        <3> QED BY <3>1, <3>2
    <2> QED BY <1>2, <1>6, <2>1, <2>2, <2>3
            DEF Work, TakeLock, NoticeAbort, Check, Report, Finish, Release, Recheck, TakeExpired
<1> QED BY <1>2, <1>4, <1>5, <1>6 DEF Next, Proceed, Request, RequestStop, vars

\* What a claim or a stamp is accepted over may be started: an owner of its
\* own would have to be running the cell.
LEMMA AcceptedIsStartable ==
    ASSUME TypeOK, ClaimsRun, RunningIsRun, NEW t \in Tasks, task[t].at \notin Performing,
           NEW c \in Cells, Accepts(cell[c], t)
    PROVE  Startable(cell[c])
<1> SUFFICES ASSUME cell[c].st # "none", cell[c].owner = t PROVE FALSE
    BY DEF Accepts, Startable
<1>1. cell[c].st = "running"
    BY DEF ClaimsRun
<1> QED BY <1>1 DEF RunningIsRun

\* A step keeps the starts within what is allowed.
LEMMA AllowedStep ==
    ASSUME AutomaticIsNew, TypeOK, VisitedOnce, RunningIsRun, DraftsFit, StartsAllowed, [Next]_vars
    PROVE  StartsAllowed'
<1>1. AskedFor' /\ \A c \in Cells : Wipers(c) \subseteq Wipers(c)'
    BY WipersGrow DEF StartsAllowed
<1>2. ClaimsRun'
    BY ClaimsStep DEF StartsAllowed
<1> SUFFICES ASSUME NEW c \in Cells PROVE Allowed(c)'
    BY <1>1, <1>2 DEF StartsAllowed
<1> HIDE DEF Wipers
<1>3. Allowed(c) /\ Wipers(c) \subseteq Wipers(c)'
    BY <1>1 DEF StartsAllowed
<1>4. /\ starts[c] \in Nat /\ blocks \in Nat /\ rearmed[c] \in Nat
      /\ Cardinality(Wipers(c)) \in Nat /\ Cardinality(Wipers(c)') \in Nat
      /\ Cardinality(Wipers(c)) <= Cardinality(Wipers(c)')
    BY <1>3, WipersCounted, WipersCountedNext DEF TypeOK
<1>5. ASSUME starts' = starts, blocks' = blocks, rearmed' = rearmed,
             Startable(cell'[c]) => Startable(cell[c])
      PROVE  Allowed(c)'
    BY <1>3, <1>5, AllowedKept
<1>6. CASE UNCHANGED vars
    BY <1>5, <1>6 DEF vars
<1>7. CASE RequestStop \/ \E d \in Runs : Request(d)
    BY <1>5, <1>7 DEF Request, RequestStop, work
<1>8. ASSUME NEW p \in Runs \cup {Stop}, Cancel(p) PROVE Allowed(c)'
    <2>1. CASE AbortCells(p)
        BY <1>5, <2>1 DEF AbortCells
    <2>2. CASE WriteCancelled(p)
        <3>1. cell'[c] = cell[c] \/ cell'[c].st = "cancelled"
            BY <2>2 DEF WriteCancelled, Stopped
        <3>2. starts' = starts /\ blocks' = blocks /\ rearmed' = rearmed
            BY <2>2 DEF WriteCancelled, work
        <3> QED BY <1>5, <3>1, <3>2 DEF Startable
    <2> QED BY <1>8, <2>1, <2>2 DEF Cancel
<1>9. ASSUME NEW d \in Runs, Dispatch(d) PROVE Allowed(c)'
    <2>1. CASE ClearCells(d)
        <3>1. starts' = starts /\ blocks' = blocks /\ rearmed' = rearmed
            BY <2>1 DEF ClearCells, work
        <3>2. CASE c \notin Wiped(d)
            BY <1>5, <2>1, <3>1, <3>2 DEF ClearCells
        <3>3. CASE c \in Wiped(d)
            <4>1. c \in Covered(d) /\ ask[d].mode # "new" /\ pc[d] = "clear"
                BY <2>1, <3>3 DEF ClearCells, Wiped
            <4>2. ask[d].manual
                BY <4>1 DEF StartsAllowed, AskedFor, AutomaticIsNew
            <4>3. d \notin Wipers(c)
                BY <4>1 DEF Wipers
            <4>4. d \in Wipers(c)'
                <5>1. pc'[d] = "step" /\ ask' = ask
                    BY <2>1 DEF ClearCells, TypeOK
                <5> QED BY <4>1, <4>2, <5>1 DEF Wipers, Covered
            <4>5. Cardinality(Wipers(c) \cup {d}) = Cardinality(Wipers(c)) + 1
                BY <4>3, WipersCounted, FS_AddElement
            <4>6. Cardinality(Wipers(c) \cup {d}) <= Cardinality(Wipers(c)')
                <5>1. Wipers(c) \cup {d} \subseteq Wipers(c)'
                    BY <1>3, <4>4
                <5>2. IsFiniteSet(Wipers(c)')
                    BY <1>3, WipersCountedNext
                <5> QED BY <5>1, <5>2, FS_Subset
            <4> QED BY <1>3, <1>4, <3>1, <4>5, <4>6 DEF Allowed
        <3> QED BY <3>2, <3>3
    <2>2. CASE StampQueued(d)
        <3>1. starts' = starts /\ blocks' = blocks /\ rearmed' = rearmed
            BY <2>2 DEF StampQueued, work
        <3>2. ASSUME c \in batch[d].cells, Accepts(cell[c], TaskOf(d, c)) PROVE Startable(cell[c])
            <4> DEFINE u == TaskOf(d, c)
            <4>1. u \in Tasks /\ u[1] = d /\ u[2] = c[1]
                BY DEF TaskOf, Tasks, Cells
            <4>2. pc[d] = "stamp"
                BY <2>2 DEF StampQueued
            <4>3. disp[d].cursor < c[1]
                BY <3>2, <4>2 DEF VisitedOnce
            <4>4. disp[d].cursor \in Nat /\ c[1] \in Nat
                BY TableAssumption DEF TypeOK, Dispatches, Cells, Rows
            <4> HIDE DEF u
            <4>5. task[u].at = "none"
                <5> SUFFICES ASSUME task[u].at # "none" PROVE FALSE
                    OBVIOUS
                <5>1. u[2] <= disp[d].cursor
                    BY <4>1, <4>2 DEF VisitedOnce
                <5> QED BY <4>1, <4>3, <4>4, <5>1
            <4> QED BY <3>2, <4>1, <4>5, AcceptedIsStartable DEF StartsAllowed, u, Performing
        <3>3. cell'[c] = cell[c] \/ (c \in batch[d].cells /\ Accepts(cell[c], TaskOf(d, c)))
            BY <2>2 DEF StampQueued
        <3> QED BY <1>5, <3>1, <3>2, <3>3
    <2> QED BY <1>5, <1>9, <2>1, <2>2
            DEF Dispatch, ReadDispatch, Begin, TakeWindow, Enqueue, EndWindow, work
<1>10. ASSUME NEW t \in Tasks, Work(t) \/ MeetLimit(t) \/ TakeExpired(t) PROVE Allowed(c)'
    <2> Own(t) \in Cells
        BY TaskParts
    <2>1. CASE MeetLimit(t)
        <3>1. starts' = starts /\ blocks' = blocks + 1 /\ rearmed' = rearmed
            BY <2>1 DEF MeetLimit
        <3> QED BY <1>3, <1>4, <3>1 DEF Allowed
    <2>2. CASE Claim(t)
        <3>1. CASE UNCHANGED <<cell, starts>>
            BY <1>5, <2>2, <3>1 DEF Claim
        <3>2. CASE /\ Accepts(cell[Own(t)], t)
                   /\ cell' = [cell EXCEPT ![Own(t)] = [st |-> "running", owner |-> t, after |-> {}]]
                   /\ starts' = [starts EXCEPT ![Own(t)] = @ + 1]
            <4>1. blocks' = blocks /\ rearmed' = rearmed
                BY <2>2 DEF Claim
            <4>2. CASE c # Own(t)
                <5>1. cell'[c] = cell[c] /\ starts'[c] = starts[c]
                    BY <3>2, <4>2 DEF TypeOK
                <5> QED BY <1>3, <4>1, <5>1, AllowedKept
            <4>3. CASE c = Own(t)
                <5>1. Startable(cell[c])
                    BY <2>2, <3>2, <4>3, AcceptedIsStartable DEF Claim, At, StartsAllowed, Performing
                <5>2. starts'[c] = starts[c] + 1
                    BY <3>2, <4>3 DEF TypeOK
                <5>3. ~Startable(cell'[c])
                    <6>1. cell'[c] = [st |-> "running", owner |-> t, after |-> {}]
                        BY <3>2, <4>3 DEF TypeOK
                    <6>2. NoTask \notin Tasks
                        BY DEF NoTask, Tasks
                    <6> QED BY <6>1, <6>2 DEF Startable
                <5> QED BY <1>3, <1>4, <4>1, <5>1, <5>2, <5>3 DEF Allowed
            <4> QED BY <4>2, <4>3
        <3> QED BY <2>2, <3>1, <3>2 DEF Claim
    <2>3. CASE Record(t)
        <3>1. starts' = starts /\ blocks' = blocks
            BY <2>3 DEF Record
        <3>2. CASE cell' = cell /\ rearmed' = rearmed
            BY <1>5, <3>1, <3>2
        <3>3. CASE ~(cell' = cell /\ rearmed' = rearmed)
            <4> DEFINE cleared == {x \in Cells : x[1] = t[2] /\ x[2] \in draft[t].clears}
                       status == [st |-> draft[t].st, owner |-> IF At(t, "report") THEN t ELSE Past,
                                  after |-> {}]
            <4>1. /\ cell' = [x \in Cells |-> IF x = Own(t) THEN status
                                             ELSE IF x \in cleared THEN Blank ELSE cell[x]]
                  /\ rearmed' = [x \in Cells |-> IF x \in cleared /\ cell[x].st # "none"
                                                THEN rearmed[x] + 1 ELSE rearmed[x]]
                BY <2>3, <3>3 DEF Record
            <4> HIDE DEF cleared
            <4>2. CASE c \in cleared /\ cell[c].st # "none"
                <5>1. rearmed'[c] = rearmed[c] + 1
                    BY <4>1, <4>2
                <5> QED BY <1>3, <1>4, <3>1, <5>1 DEF Allowed
            <4>3. CASE ~(c \in cleared /\ cell[c].st # "none")
                <5>1. rearmed'[c] = rearmed[c]
                    BY <4>1, <4>3
                <5>2. c = Own(t) => ~Startable(cell'[c])
                    <6>1. status.st # "none" /\ status.owner # NoTask
                        BY <2>3 DEF Record, DraftsFit, DraftFits, At, Past, NoTask, Tasks
                    <6> QED BY <4>1, <6>1 DEF Startable
                <5>3. c # Own(t) => cell'[c] = cell[c] \/ cell[c].st = "none"
                    BY <4>1, <4>3
                <5> QED BY <1>3, <3>1, <5>1, <5>2, <5>3, AllowedKept DEF Startable
            <4> QED BY <4>2, <4>3
        <3> QED BY <3>2, <3>3
    <2>4. CASE TakeLock(t) \/ NoticeAbort(t) \/ Check(t) \/ Report(t) \/ Finish(t) \/ Release(t)
               \/ Recheck(t) \/ TakeExpired(t)
        BY <1>5, <2>4 DEF TakeLock, NoticeAbort, Check, Report, Finish, Release, Recheck, TakeExpired
    <2> QED BY <1>10, <2>1, <2>2, <2>3, <2>4 DEF Work
<1> QED BY <1>6, <1>7, <1>8, <1>9, <1>10 DEF Next, Proceed

(* What is started was asked for. *)
LEMMA AllowedIsAsked ==
    ASSUME TypeOK, StartsAllowed
    PROVE  StartedOncePerRequest
<1> SUFFICES ASSUME NEW c \in Cells
             PROVE  starts[c] <= Cardinality({d \in Requested : ask[d].manual /\ c \in Covered(d)})
                                    + 1 + rearmed[c] + blocks
    BY DEF StartedOncePerRequest
<1> DEFINE asked == {d \in Requested : ask[d].manual /\ c \in Covered(d)}
<1>1. Wipers(c) \subseteq asked
    BY DEF StartsAllowed, AskedFor, Wipers, Requested
<1>2. IsFiniteSet(asked)
    <2>1. IsFiniteSet(Runs)
        BY FS_Interval, TableAssumption DEF Runs
    <2> QED BY <2>1, FS_Subset DEF Requested
<1>3. /\ Cardinality(asked) \in Nat /\ Cardinality(Wipers(c)) \in Nat
      /\ Cardinality(Wipers(c)) <= Cardinality(asked)
    BY <1>1, <1>2, FS_Subset, FS_CardinalityType, WipersCounted
<1>4. starts[c] <= Cardinality(Wipers(c)) + 1 + rearmed[c] + blocks
    BY DEF StartsAllowed, Allowed
<1>5. starts[c] \in Nat /\ blocks \in Nat /\ rearmed[c] \in Nat
    BY DEF TypeOK
<1> HIDE DEF asked
<1>6. starts[c] <= Cardinality(asked) + 1 + rearmed[c] + blocks
    BY <1>3, <1>4, <1>5
<1> QED BY <1>6 DEF asked

(* The workflow of a cell is started once for each request by hand that     *)
(* covers it, once for the automatic ones together, and once more for each  *)
(* write of outputs that has cleared it and for each usage limit met: for any number of rows, groups and requests, however    *)
(* dispatchers, cascades, stops and locks that expire meet.                 *)
THEOREM StartsAreAskedFor ==
    ASSUME AutomaticIsNew
    PROVE  Spec => []StartedOncePerRequest
<1>1. Init => VisitedOnce /\ RunningIsRun /\ DraftsFit
    BY DEF Init, VisitedOnce, RunningIsRun, Blank, DraftsFit, DraftFits, At
<1>2. Init => StartsAllowed
    <2> SUFFICES ASSUME Init PROVE StartsAllowed
        OBVIOUS
    <2>1. ClaimsRun /\ AskedFor
        BY DEF Init, ClaimsRun, AskedFor, Blank, NoTask, Tasks
    <2>2. ASSUME NEW c \in Cells PROVE Allowed(c)
        <3>1. starts[c] = 0 /\ blocks = 0 /\ rearmed[c] = 0 /\ Cardinality(Wipers(c)) \in Nat
            BY WipersCounted DEF Init
        <3> QED BY <3>1 DEF Allowed
    <2> QED BY <2>1, <2>2 DEF StartsAllowed
<1>3. TypeOK /\ VisitedOnce /\ RunningIsRun /\ DraftsFit /\ [Next]_vars
         => VisitedOnce' /\ RunningIsRun' /\ DraftsFit'
    BY VisitedStep, RunningStep, DraftsStep
<1>4. TypeOK /\ VisitedOnce /\ RunningIsRun /\ DraftsFit /\ StartsAllowed /\ [Next]_vars => StartsAllowed'
    BY AllowedStep
<1>5. TypeOK /\ StartsAllowed => StartedOncePerRequest
    BY AllowedIsAsked
<1> QED BY <1>1, <1>2, <1>3, <1>4, <1>5, TableTypes, PTL DEF Spec

=============================================================================
