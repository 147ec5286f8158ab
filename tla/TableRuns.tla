----------------------------- MODULE TableRuns -----------------------------
(***************************************************************************)
(* The workflow columns of one table: requests to run them and to stop     *)
(* them (lib/table/workflow-columns.ts), the dispatcher that walks the     *)
(* rows in windows (lib/table/dispatcher.ts), the cell tasks that run the  *)
(* groups of a row under its cascade lock (background/                     *)
(* workflow-column-execution.ts), and the guarded writes of a cell's state *)
(* (lib/table/cell-write.ts, lib/table/rows/executions.ts).  The tasks run *)
(* in the process of the dispatcher (the database job backend).            *)
(***************************************************************************)
EXTENDS Naturals, FiniteSets

CONSTANTS
    NRows,        \* the rows are their positions, 1..NRows
    NGroups,      \* the groups are their places in the schema, 1..NGroups
    NRuns,        \* bound: requests to run
    MaxAsks,      \* bound: requests to run and stops
    AutoRun,         \* the groups with autoRun
    Deps,         \* the groups whose outputs a group reads
    Kinds,        \* what each request may ask for (see ask)
    Stops,        \* what a Stop may ask for
    Outcomes,     \* how a group's workflow may end: "filled" or "empty", or with an error,
                  \* after it has filled its outputs ("failedLate") or not ("failed")
    Window,       \* WINDOW_SIZE
    MaxFaults     \* bound: usage limits met and locks that expire under their holder

Rows == 1 .. NRows
Groups == 1 .. NGroups
Cells == Rows \X Groups
Runs == 1 .. NRuns
Stop == 0
Tasks == Runs \X Rows \X Groups     \* a dispatch visits a row once
TaskOf(d, c) == <<d, c[1], c[2]>>

\* No holder of a lock; as the owner of a cell, an executionId that is NULL.
NoTask == <<>>
\* The executionId of a claim that has ended: ids are not used again.
Past == <<0>>

\* What a request to run asks for; what a Stop does, and what nobody asked.
RunAsks == [mode : {"all", "incomplete", "new"}, manual : BOOLEAN, cap : Nat,
            row : 0 .. NRows, groups : SUBSET Groups]
StopAsks == [row : 0 .. NRows, groups : SUBSET Groups]
Asks == RunAsks \cup StopAsks

ASSUME TableAssumption ==
    /\ NRows \in Nat \ {0} /\ NGroups \in Nat \ {0} /\ NRuns \in Nat
    /\ AutoRun \subseteq Groups
    /\ Deps \in [Groups -> SUBSET Groups]
    /\ Outcomes \in [Groups -> SUBSET {"filled", "failedLate", "empty", "failed"}]
    /\ Window \in Nat \ {0} /\ MaxAsks \in Nat /\ MaxFaults \in Nat
    /\ Kinds \in [Runs -> SUBSET RunAsks]
    /\ Stops \subseteq StopAsks

VARIABLES
    cell,      \* table_row_executions: status, executionId and, for a stopped
               \* cell, the runs requested before the stop (cancelledAt)
    filled,    \* whether the outputs of the group are set in the row
    lock,      \* the task that holds the cascade lock of a row
    disp,      \* table_run_dispatches: status, cursor, rows counted
    ask,       \* what was asked: mode, by hand, cap on rows (0: none), row (0: all), groups
    pc,        \* where a request, and then the dispatcher of its run, is
    batch,     \* the cells of the current window and its last position
    seen,      \* what a cancellation found: cells in flight, groups at risk
    task,      \* the cell tasks: where, on which group, aborted or not
    draft,     \* what a worker is to write, between its reading of the row and the
               \* transaction: the status, the outputs of the row, the groups to clear
    ctrl,      \* inlineCancelKeyControllers: the task that a cancellation aborts
    blocks, expiries,
    overtaken, \* history: tasks whose lock expired under them
    starts,    \* history: how often the workflow of a cell was started
    rearmed,   \* history: how often a cell was cleared for an output that it reads
    dropped    \* history: markers that a task saw, and left, when it was stopped, had met a
               \* limit, or found that another group comes first

walk == <<disp, ask, pc, batch, seen>>
work == <<lock, task, draft, ctrl, blocks, expiries, overtaken, starts, rearmed, dropped>>
vars == <<cell, filled, lock, disp, ask, pc, batch, seen, task, draft, ctrl, blocks, expiries,
          overtaken, starts, rearmed, dropped>>

-----------------------------------------------------------------------------
(* Cells *)

\* The member of a set of positions that comes first, or last, as a set.
Lowest(S) == {x \in S : \A y \in S : x <= y}
Highest(S) == {x \in S : \A y \in S : y <= x}

Blank == [st |-> "none", owner |-> NoTask, after |-> {}]
Marker == [st |-> "pending", owner |-> NoTask, after |-> {}]
NoDraft == [st |-> "none", row |-> {}, clears |-> {}]
Stopped(runs) == [st |-> "cancelled", owner |-> NoTask, after |-> runs]

(* A dispatcher's stamp that nobody has claimed. *)
IsMarker(x) == x.st = "pending" /\ x.owner = NoTask

InFlight(x) == x.st \in {"pending", "running"}

(* Mutant: a stop leaves a cell that a worker may still write. *)
AcceptsCancelled(x, t) == x.st = "none" \/ x.owner \in {NoTask, t}

(* Mutant: the claim of another worker is not looked at. *)
AcceptsClaimed(x, t) == x.st # "cancelled"

(* The guard of a write by the claim of task t: not over a stop, and not    *)
(* over another claim.                                                      *)
Accepts(x, t) == x.st = "none" \/ (x.st # "cancelled" /\ x.owner \in {NoTask, t})

DepsMet(r, g, data) == \A h \in Deps[g] : data[r, h]

(* Whether a group may run on a row where its execution is x. *)
Runnable(x, r, g, data, manual, mode) ==
    /\ manual \/ g \in AutoRun
    /\ IsMarker(x) \/ ~InFlight(x)
    /\ mode = "new" => IsMarker(x) \/ x.st = "none"
    /\ IF manual
       THEN mode = "incomplete" => x.st # "completed"
       ELSE x.st \notin {"error", "cancelled"} /\ ~(x.st = "completed" /\ data[r, g])
    /\ (manual /\ g \notin AutoRun) \/ DepsMet(r, g, data)

(* The groups that the owner of a row's cascade may run next; it takes the  *)
(* first.  A marker asks for its group as a request by hand does.           *)
Eligible(cells, data, r) ==
    {g \in Groups : LET x == cells[r, g] IN
        Runnable(IF IsMarker(x) THEN Blank ELSE x, r, g, data, IsMarker(x), "incomplete")}

-----------------------------------------------------------------------------
(* Requests *)

Requested == {d \in Runs : disp[d].st # "none"}
Active == {d \in Runs : disp[d].st \in {"pending", "dispatching"}}

Covered(p) == {c \in Cells : ask[p].row \in {0, c[1]} /\ c[2] \in ask[p].groups}

SetStatus(ds, st) == [d \in Runs |-> IF d \in ds THEN [disp[d] EXCEPT !.st = st] ELSE disp[d]]

Init ==
    /\ cell = [c \in Cells |-> Blank]
    /\ filled = [c \in Cells |-> FALSE]
    /\ lock = [r \in Rows |-> NoTask]
    /\ disp = [d \in Runs |-> [st |-> "none", cursor |-> 0, done |-> 0]]
    /\ ask = [p \in Runs \cup {Stop} |-> [row |-> 0, groups |-> {}]]
    /\ pc = [p \in Runs \cup {Stop} |-> "idle"]
    /\ batch = [d \in Runs |-> [cells |-> {}, last |-> 0]]
    /\ seen = [p \in Runs \cup {Stop} |-> [cells |-> {}, after |-> {}, risk |-> {}]]
    /\ task = [t \in Tasks |-> [at |-> "none", group |-> t[3], aborted |-> FALSE]]
    /\ draft = [t \in Tasks |-> NoDraft]
    /\ ctrl = [c \in Cells |-> NoTask]
    /\ blocks = 0
    /\ expiries = 0
    /\ overtaken = {}
    /\ starts = [c \in Cells |-> 0]
    /\ rearmed = [c \in Cells |-> 0]
    /\ dropped = {}

(* The groups of a row that the active dispatches may still reach. *)
AtRisk(k, active, asks) ==
    {g \in k.groups : \E d \in active : asks[d].row \in {0, k.row} /\ g \in asks[d].groups}

(* A cancellation of the table ends its dispatches, sparing the one it is   *)
(* made for; that of a row only notes the groups they may still reach.      *)
CancelDispatches(p, k, inserted) ==
    LET active == {d \in Runs : inserted[d].st \in {"pending", "dispatching"}}
    IN  IF k.row = 0
        THEN /\ disp' = [d \in Runs |-> IF d \in active \ {p}
                                        THEN [inserted[d] EXCEPT !.st = "cancelled"] ELSE inserted[d]]
             /\ UNCHANGED seen
        ELSE /\ disp' = inserted
             /\ seen' = [seen EXCEPT ![p].risk = AtRisk(k, active, ask')]

MayAsk(p) == pc[p] = "idle" /\ Cardinality({q \in DOMAIN pc : pc[q] # "idle"}) < MaxAsks

(* The dispatch is stored first, so that a Stop finds it.  A request by     *)
(* hand then cancels what runs in its scope, and all wipe what they will    *)
(* run again.                                                               *)
Request(d) ==
    /\ MayAsk(d)
    /\ \A e \in Runs : e < d => pc[e] # "idle"
    /\ \E k \in Kinds[d] :
          LET inserted == [disp EXCEPT ![d].st = "pending"]
              cancels == k.manual /\ k.mode # "new"
          IN  /\ ask' = [ask EXCEPT ![d] = k]
              /\ pc' = [pc EXCEPT ![d] = IF cancels THEN "find" ELSE "clear"]
              /\ IF cancels THEN CancelDispatches(d, k, inserted)
                            ELSE disp' = inserted /\ UNCHANGED seen
    /\ UNCHANGED <<cell, filled, batch, work>>

RequestStop ==
    /\ MayAsk(Stop)
    /\ \E k \in Stops :
          /\ ask' = [ask EXCEPT ![Stop] = k]
          /\ CancelDispatches(Stop, k, disp)
    /\ pc' = [pc EXCEPT ![Stop] = "find"]
    /\ UNCHANGED <<cell, filled, batch, work>>

Hit(p) == {c \in Covered(p) : InFlight(cell[c])}

(* Reads the cells in flight and aborts the tasks that were started for     *)
(* them.                                                                    *)
AbortCells(p) ==
    /\ pc[p] = "find"
    /\ seen' = [seen EXCEPT ![p] = [@ EXCEPT !.cells = Hit(p), !.after = Requested]]
    /\ task' = [t \in Tasks |-> IF (\E c \in Hit(p) : ctrl[c] = t) /\ task[t].at # "done"
                                THEN [task[t] EXCEPT !.aborted = TRUE] ELSE task[t]]
    /\ ctrl' = [c \in Cells |-> IF c \in Hit(p) THEN NoTask ELSE ctrl[c]]
    /\ pc' = [pc EXCEPT ![p] = "write"]
    /\ UNCHANGED <<cell, filled, disp, ask, batch, lock, draft, blocks, expiries,
                   overtaken, starts, rearmed, dropped>>

(* Writes `cancelled`, over whatever the cells have become, and tombstones  *)
(* where a dispatch has yet to come and no execution is stored.             *)
WriteCancelled(p) ==
    /\ pc[p] = "write"
    /\ cell' = [c \in Cells |->
          CASE c \in seen[p].cells -> Stopped(seen[p].after)
            [] c \in Covered(p) \ seen[p].cells /\ c[2] \in seen[p].risk /\ cell[c].st = "none"
                 -> Stopped(Requested)
            [] OTHER -> cell[c]]
    /\ seen' = [seen EXCEPT ![p] = [cells |-> {}, after |-> {}, risk |-> {}]]
    /\ pc' = [pc EXCEPT ![p] = IF p = Stop THEN "over" ELSE "clear"]
    /\ UNCHANGED <<filled, disp, ask, batch, work>>

(* The cells that a request wipes before its dispatcher starts. *)
Wiped(d) ==
    {c \in Covered(d) :
        /\ ask[d].cap = 0
        /\ \/ ask[d].mode = "all"
           \/ ask[d].mode = "incomplete" /\ cell[c].st \in {"error", "cancelled"}}

ClearCells(d) ==
    /\ pc[d] = "clear"
    /\ cell' = [c \in Cells |-> IF c \in Wiped(d) THEN Blank ELSE cell[c]]
    /\ filled' = [c \in Cells |-> filled[c] /\ c \notin Wiped(d)]
    /\ pc' = [pc EXCEPT ![d] = "step"]
    /\ UNCHANGED <<disp, ask, batch, seen, work>>

-----------------------------------------------------------------------------
(* The dispatcher *)

(* Moves the cursor to a position, unless the dispatch has been ended. *)
Advanced(d, position) ==
    /\ disp' = IF d \in Active THEN [disp EXCEPT ![d].cursor = position] ELSE disp
    /\ pc' = [pc EXCEPT ![d] = IF d \in Active THEN "step" ELSE "over"]

(* A dispatcher finds its dispatch ended, or pending: then it sets the      *)
(* status without looking at it again.                                      *)
ReadDispatch(d) ==
    /\ pc[d] = "step"
    /\ disp[d].st # "dispatching"
    /\ pc' = [pc EXCEPT ![d] = IF disp[d].st = "pending" THEN "begin" ELSE "over"]
    /\ UNCHANGED <<cell, filled, disp, ask, batch, seen, work>>

Begin(d) ==
    /\ pc[d] = "begin"
    /\ disp' = SetStatus({d}, "dispatching")
    /\ pc' = [pc EXCEPT ![d] = "window"]
    /\ UNCHANGED <<cell, filled, ask, batch, seen, work>>

(* The rows the window is taken from, and its first WINDOW_SIZE of them. *)
Ahead(d) ==
    {r \in Rows :
        /\ r > disp[d].cursor
        /\ ask[d].row \in {0, r}
        /\ ask[d].mode = "new" => \E g \in ask[d].groups : cell[r, g].st = "none"}
FirstOf(n, S) == {r \in S : Cardinality({q \in S : q <= r}) <= n}

(* A cell of the row was stopped after the run was requested. *)
Tombstoned(d, r) == \E g \in ask[d].groups : d \in cell[r, g].after

ToRun(d, chunk) ==
    {c \in chunk \X ask[d].groups :
        /\ ~Tombstoned(d, c[1])
        /\ Runnable(cell[c], c[1], c[2], filled, ask[d].manual, ask[d].mode)}

(* Of the cells to run, those of as many rows as the cap leaves. *)
WithinCap(d, cells) ==
    LET rows == {c[1] : c \in cells}
        left == ask[d].cap - disp[d].done
    IN  IF ask[d].cap = 0 THEN cells ELSE {c \in cells : c[1] \in FirstOf(left, rows)}

TakeWindow(d) ==
    /\ pc[d] = "window" \/ (pc[d] = "step" /\ disp[d].st = "dispatching")
    /\ LET chunk == FirstOf(Window, Ahead(d))
           cells == WithinCap(d, ToRun(d, chunk))
       IN  \/ /\ chunk = {}
              /\ disp' = SetStatus({d}, "complete")
              /\ pc' = [pc EXCEPT ![d] = "over"]
              /\ UNCHANGED batch
           \/ /\ chunk # {} /\ cells = {}
              /\ \E last \in Highest(chunk) : Advanced(d, last)
              /\ UNCHANGED batch
           \/ /\ cells # {}
              /\ \E last \in Highest(chunk) : batch' = [batch EXCEPT ![d] = [cells |-> cells, last |-> last]]
              /\ pc' = [pc EXCEPT ![d] = "stamp"]
              /\ UNCHANGED disp
    /\ UNCHANGED <<cell, filled, ask, seen, work>>

(* The stamps are guarded like the writes of a worker. *)
StampQueued(d) ==
    LET stamped == {c \in batch[d].cells : Accepts(cell[c], TaskOf(d, c))} IN
    /\ pc[d] = "stamp"
    /\ cell' = [c \in Cells |-> IF c \in stamped THEN Marker ELSE cell[c]]
    /\ pc' = [pc EXCEPT ![d] = "enqueue"]
    /\ dropped' = dropped \ stamped
    /\ UNCHANGED <<filled, disp, ask, batch, seen, lock, task, draft, ctrl, blocks, expiries,
                   overtaken, starts, rearmed>>

(* A task for each cell of the window, stamped or not. *)
Enqueue(d) ==
    /\ pc[d] = "enqueue"
    /\ task' = [t \in Tasks |-> IF t[1] = d /\ <<t[2], t[3]>> \in batch[d].cells
                                THEN [task[t] EXCEPT !.at = "queued"] ELSE task[t]]
    /\ ctrl' = [c \in Cells |-> IF c \in batch[d].cells THEN TaskOf(d, c) ELSE ctrl[c]]
    /\ pc' = [pc EXCEPT ![d] = "wait"]
    /\ UNCHANGED <<cell, filled, disp, ask, batch, seen, lock, draft, blocks, expiries,
                   overtaken, starts, rearmed, dropped>>

(* All tasks of the window have ended.  Its rows count towards the cap: a   *)
(* dispatch that has used it up is complete.  Else the cursor moves past    *)
(* the window, whatever was done with its rows.                             *)
EndWindow(d) ==
    LET done == disp[d].done + Cardinality({c[1] : c \in batch[d].cells})
        cursor == IF d \in Active THEN batch[d].last ELSE disp[d].cursor
    IN
    /\ pc[d] = "wait"
    /\ \A c \in batch[d].cells : task[TaskOf(d, c)].at = "done"
    /\ IF ask[d].cap = 0 THEN Advanced(d, batch[d].last)
       ELSE IF done >= ask[d].cap
       THEN disp' = SetStatus({d}, "complete") /\ pc' = [pc EXCEPT ![d] = "over"]
       ELSE /\ pc' = [pc EXCEPT ![d] = IF d \in Active THEN "step" ELSE "over"]
            /\ disp' = [disp EXCEPT ![d] = [@ EXCEPT !.done = done, !.cursor = cursor]]
    /\ ctrl' = [c \in Cells |-> IF ctrl[c] = TaskOf(d, c) THEN NoTask ELSE ctrl[c]]
    /\ batch' = [batch EXCEPT ![d] = [cells |-> {}, last |-> 0]]
    /\ UNCHANGED <<cell, filled, ask, seen, lock, task, draft, blocks, expiries, overtaken,
                   starts, rearmed, dropped>>

-----------------------------------------------------------------------------
(* The task of a cell, and the cascade of its row *)

At(t, place) == task[t].at = place
Own(t) == <<t[2], task[t].group>>
Moved(t, place) == task' = [task EXCEPT ![t].at = place]
OnTo(t, g, place) == task' = [task EXCEPT ![t] = [@ EXCEPT !.at = place, !.group = g]]
Ended(t) == task' = [task EXCEPT ![t] = [at |-> "done", group |-> t[3], aborted |-> FALSE]]

\* In the critical section of the cascade lock.
Performing == {"run", "report", "more", "write"}
Inside == {"claim", "gate", "release", "blocked"} \cup Performing

(* The markers of a row that its owner could run. *)
Waiting(r) == {c \in {r} \X Groups : IsMarker(cell[c]) /\ c[2] \in Eligible(cell, filled, r)}

(* Who finds the lock taken leaves: the owner will find the marker. *)
TakeLock(t) ==
    LET r == t[2] IN
    /\ At(t, "queued")
    /\ IF lock[r] = NoTask /\ ~task[t].aborted
       THEN lock' = [lock EXCEPT ![r] = t] /\ Moved(t, "claim")
       ELSE Ended(t) /\ UNCHANGED lock
    /\ dropped' = IF lock[r] = NoTask /\ task[t].aborted THEN dropped \cup Waiting(r) ELSE dropped
    /\ UNCHANGED <<cell, filled, walk, draft, ctrl, blocks, expiries, overtaken, starts, rearmed>>

(* An aborted task leaves the cascade before the next group, or while it    *)
(* waits to be let in by the gate of usage and rate limits.                 *)
NoticeAbort(t) ==
    /\ task[t].at \in {"claim", "gate"}
    /\ task[t].aborted
    /\ Moved(t, "release")
    /\ UNCHANGED <<cell, filled, walk, lock, draft, ctrl, blocks, expiries, overtaken, starts,
                   rearmed, dropped>>

(* The usage limit is met: the cell is as if it had not been asked for,     *)
(* whatever has become of it since it was looked at, and the dispatch is    *)
(* complete.                                                                *)
MeetLimit(t) ==
    LET d == t[1] IN
    /\ At(t, "gate")
    /\ blocks + expiries < MaxFaults
    /\ blocks' = blocks + 1
    /\ cell' = [cell EXCEPT ![Own(t)] = Blank]
    /\ disp' = SetStatus({d} \cap Active, "complete")
    /\ Moved(t, "blocked")
    /\ UNCHANGED <<filled, ask, pc, batch, seen, lock, draft, ctrl, expiries, overtaken, starts,
                   rearmed, dropped>>

(* Mutant: the group just run is not left out. *)
OnwardSelf(t, cells, data) ==
    LET may == Eligible(cells, data, t[2]) IN
    \/ \E g \in Lowest(may) : OnTo(t, g, "claim")
    \/ may = {} /\ Moved(t, "release")

(* The owner goes on with the first group of the row that may run, other    *)
(* than the one it comes from, and leaves when there is none.               *)
Onward(t, cells, data) ==
    LET others == Eligible(cells, data, t[2]) \ {task[t].group} IN
    \/ \E g \in Lowest(others) : OnTo(t, g, "claim")
    \/ others = {} /\ Moved(t, "release")

(* A cell that has been stopped is passed by. *)
Check(t) ==
    /\ At(t, "claim")
    /\ IF cell[Own(t)].st = "cancelled" THEN Onward(t, cell, filled) ELSE Moved(t, "gate")
    /\ UNCHANGED <<cell, filled, walk, lock, draft, ctrl, blocks, expiries, overtaken, starts,
                   rearmed, dropped>>

(* The guarded write of `running`: if it goes through, the workflow is      *)
(* started; else, as over a stopped cell, the owner goes on.                *)
Claim(t) ==
    /\ At(t, "gate")
    /\ \/ /\ Accepts(cell[Own(t)], t)
          /\ cell' = [cell EXCEPT ![Own(t)] = [st |-> "running", owner |-> t, after |-> {}]]
          /\ starts' = [starts EXCEPT ![Own(t)] = @ + 1]
          /\ Moved(t, "run")
       \/ /\ ~Accepts(cell[Own(t)], t)
          /\ Onward(t, cell, filled)
          /\ UNCHANGED <<cell, starts>>
    /\ UNCHANGED <<filled, walk, lock, draft, ctrl, blocks, expiries, overtaken, rearmed, dropped>>

(* Mutant: a task that was aborted does not write the end. *)
RecordsUnlessAborted(t) == ~task[t].aborted /\ Accepts(cell[Own(t)], t)

(* Whether the end of a workflow is written. *)
Records(t) == Accepts(cell[Own(t)], t)

(* The groups that new outputs of g make out of date: those that read them, *)
(* or read a group to their left that is out of date itself, and whose      *)
(* dependencies the row now meets.                                          *)
Dirtied(g, row) ==
    {h \in Groups : \A S \in SUBSET Groups :
        /\ g \in S
        /\ \A k \in Groups :
              Deps[k] \subseteq row /\ (\E e \in Deps[k] \cap S : e = g \/ e < k) => k \in S
        => h \in S}

(* Their executions, where none is in flight, are to be deleted. *)
Cleared(r, g, row) == {h \in Dirtied(g, row) \ {g} : ~InFlight(cell[r, h])}

(* A write of a task, with the outputs of its group or without any, made up *)
(* from the row as it is read.                                              *)
Draft(t, status, outputs) ==
    LET g == task[t].group
        given == IF outputs THEN {g} ELSE {}
        row == {h \in Groups : filled[t[2], h]} \cup given
    IN  [st |-> status, row |-> row, clears |-> IF outputs THEN Cleared(t[2], g, row) ELSE {}]

(* Whether a workflow that ends so has filled its outputs, and its status.  *)
Yields(o) == o \in {"filled", "failedLate"}
EndOf(o) == IF o \in {"failed", "failedLate"} THEN "error" ELSE "completed"

(* The workflow has yielded the outputs: they are to be written while it    *)
(* runs on.                                                                 *)
Report(t) ==
    /\ At(t, "run")
    /\ ~task[t].aborted
    /\ \E o \in Outcomes[task[t].group] : Yields(o)
    /\ Records(t)
    /\ draft' = [draft EXCEPT ![t] = Draft(t, "running", TRUE)]
    /\ Moved(t, "report")
    /\ UNCHANGED <<cell, filled, walk, lock, ctrl, blocks, expiries, overtaken, starts, rearmed,
                   dropped>>

(* The workflow has ended.  Unless the cell is no more the task's, its end  *)
(* is to be written, with all outputs again.                                *)
Finish(t) ==
    /\ task[t].at \in {"run", "more"}
    /\ \/ /\ Records(t)
          /\ \E o \in Outcomes[task[t].group] :
                /\ At(t, "more") => Yields(o)
                /\ draft' = [draft EXCEPT ![t] = Draft(t, EndOf(o), Yields(o))]
          /\ Moved(t, "write")
       \/ /\ ~Records(t)
          /\ Onward(t, cell, filled)
          /\ UNCHANGED draft
    /\ UNCHANGED <<cell, filled, walk, lock, ctrl, blocks, expiries, overtaken, starts, rearmed,
                   dropped>>

(* The transaction: the row as it was read with the outputs, the status of  *)
(* the cell under its guard, and without any guard the clearing of others;  *)
(* if the guard refuses, nothing is written.  Then the workflow runs on, or *)
(* after its end the owner goes on.                                         *)
Record(t) ==
    LET r == t[2]
        cleared == {c \in Cells : c[1] = r /\ c[2] \in draft[t].clears}
        status == [st |-> draft[t].st, owner |-> IF At(t, "report") THEN t ELSE Past, after |-> {}]
    IN
    /\ task[t].at \in {"report", "write"}
    /\ \/ /\ Records(t)
          /\ cell' = [c \in Cells |-> IF c = Own(t) THEN status
                                      ELSE IF c \in cleared THEN Blank ELSE cell[c]]
          /\ filled' = [c \in Cells |-> IF c[1] = r THEN c[2] \in draft[t].row ELSE filled[c]]
          /\ rearmed' = [c \in Cells |-> IF c \in cleared /\ cell[c].st # "none"
                                         THEN rearmed[c] + 1 ELSE rearmed[c]]
       \/ ~Records(t) /\ UNCHANGED <<cell, filled, rearmed>>
    /\ IF At(t, "report") THEN Moved(t, "more") ELSE Onward(t, cell', filled')
    /\ draft' = [draft EXCEPT ![t] = NoDraft]
    /\ UNCHANGED <<walk, lock, ctrl, blocks, expiries, overtaken, starts, dropped>>

(* Mutant: whoever holds the lock loses it. *)
ReleasedAny(t) == [lock EXCEPT ![t[2]] = NoTask]

(* Releases the lock if it is still its own. *)
Released(t) == [lock EXCEPT ![t[2]] = IF @ = t THEN NoTask ELSE @]

Release(t) ==
    /\ task[t].at \in {"release", "blocked"}
    /\ lock' = Released(t)
    /\ overtaken' = overtaken \ {t}
    /\ IF At(t, "blocked")
       THEN Ended(t) /\ dropped' = dropped \cup Waiting(t[2])
       ELSE Moved(t, "recheck") /\ UNCHANGED dropped
    /\ UNCHANGED <<cell, filled, walk, draft, ctrl, blocks, expiries, starts, rearmed>>

(* Mutant: the owner leaves without looking for markers again. *)
LeftBehindNever(t) == {}

(* A marker whose task has left while the lock was still held is run, if    *)
(* its group is the first that may run.                                     *)
LeftBehind(t) == {g \in Lowest(Eligible(cell, filled, t[2])) : IsMarker(cell[t[2], g])}

(* What an owner that leaves does not see to: all, or what another group    *)
(* comes before.                                                            *)
Forgone(t) ==
    {c \in Waiting(t[2]) : task[t].aborted \/ \E g \in Eligible(cell, filled, t[2]) : g < c[2]}

Recheck(t) ==
    /\ At(t, "recheck")
    /\ \/ /\ ~task[t].aborted
          /\ \E g \in LeftBehind(t) : OnTo(t, g, "queued")
          /\ UNCHANGED dropped
       \/ /\ task[t].aborted \/ LeftBehind(t) = {}
          /\ Ended(t)
          /\ dropped' = dropped \cup Forgone(t)
    /\ UNCHANGED <<cell, filled, walk, lock, draft, ctrl, blocks, expiries, overtaken, starts,
                   rearmed>>

(* The holder has not extended its lock in time, and another task takes it. *)
TakeExpired(t) ==
    LET r == t[2] IN
    /\ At(t, "queued") /\ ~task[t].aborted
    /\ lock[r] # NoTask
    /\ blocks + expiries < MaxFaults
    /\ expiries' = expiries + 1
    /\ overtaken' = overtaken \cup {lock[r]}
    /\ lock' = [lock EXCEPT ![r] = t]
    /\ Moved(t, "claim")
    /\ UNCHANGED <<cell, filled, walk, draft, ctrl, blocks, starts, rearmed, dropped>>

-----------------------------------------------------------------------------

Cancel(p) == AbortCells(p) \/ WriteCancelled(p)

Dispatch(d) ==
    \/ ClearCells(d) \/ ReadDispatch(d) \/ Begin(d) \/ TakeWindow(d) \/ StampQueued(d)
    \/ Enqueue(d) \/ EndWindow(d)

Work(t) ==
    \/ TakeLock(t) \/ NoticeAbort(t) \/ Check(t) \/ Claim(t) \/ Report(t) \/ Finish(t)
    \/ Record(t) \/ Release(t) \/ Recheck(t)

Proceed ==
    \/ \E p \in Runs \cup {Stop} : Cancel(p)
    \/ \E d \in Runs : Dispatch(d)
    \/ \E t \in Tasks : Work(t)

Next ==
    \/ \E d \in Runs : Request(d)
    \/ RequestStop
    \/ Proceed
    \/ \E t \in Tasks : MeetLimit(t) \/ TakeExpired(t)

(* What has been begun goes on, in some order; requests, limits and         *)
(* expiries need not come.                                                  *)
Fairness == WF_vars(Proceed)

Spec == Init /\ [][Next]_vars /\ Fairness

-----------------------------------------------------------------------------
(* Properties *)

Executions == [st : {"none", "pending", "running", "cancelled", "completed", "error"},
               owner : {NoTask, Past} \cup Tasks, after : SUBSET Runs]
Dispatches == [st : {"none", "pending", "dispatching", "cancelled", "complete"},
               cursor : 0 .. NRows, done : Nat]
Stages == {"idle", "find", "write", "clear", "step", "begin", "window", "stamp", "enqueue", "wait",
           "over"}
Found == [cells : SUBSET Cells, after : SUBSET Runs, risk : SUBSET Groups]
Places == {"none", "queued", "recheck", "done"} \cup Inside
CellTasks == [at : Places, group : Groups, aborted : BOOLEAN]
Drafts == [st : {"none", "running", "completed", "error"}, row : SUBSET Groups, clears : SUBSET Groups]

(* Types of the variables; the cursor of a dispatch stays in the table.     *)
TypeOK ==
    /\ cell \in [Cells -> Executions]
    /\ filled \in [Cells -> BOOLEAN]
    /\ lock \in [Rows -> {NoTask} \cup Tasks]
    /\ disp \in [Runs -> Dispatches]
    /\ ask \in [Runs \cup {Stop} -> Asks]
    /\ pc \in [Runs \cup {Stop} -> Stages]
    /\ batch \in [Runs -> [cells : SUBSET Cells, last : 0 .. NRows]]
    /\ seen \in [Runs \cup {Stop} -> Found]
    /\ task \in [Tasks -> CellTasks]
    /\ draft \in [Tasks -> Drafts]
    /\ ctrl \in [Cells -> {NoTask} \cup Tasks]
    /\ blocks \in Nat /\ expiries \in Nat
    /\ overtaken \in SUBSET Tasks
    /\ starts \in [Cells -> Nat] /\ rearmed \in [Cells -> Nat]
    /\ dropped \in SUBSET Cells

(* The cascade lock: one task at a time works on a row, besides those whose *)
(* lock expired under them, however tasks, stops and limits interleave with *)
(* the release of the lock; and who comes late does not release another's.  *)
OneAtATime ==
    \A r \in Rows :
        Cardinality({t \in Tasks \ overtaken : t[2] = r /\ task[t].at \in Inside}) <= 1

(* No cell says that it is running when nobody runs it: whatever takes a    *)
(* running cell from its task leaves it stopped or blank, and a task that   *)
(* was not overtaken ends the cell it has claimed.                          *)
RunningIsRun ==
    \A c \in Cells : cell[c].st = "running" =>
        \E t \in Tasks : task[t].at \in Performing /\ Own(t) = c /\ cell[c].owner = t

(* A workflow is started for a cell at most once for each request by hand   *)
(* that covers it, once for the automatic ones together, once more for each *)
(* write of outputs it depends on that has cleared its execution, and once  *)
(* more where a usage limit has blanked it: overlapping requests,           *)
(* dispatchers and cascades, and even tasks that share a row after an       *)
(* expiry, do not run it twice.                                             *)
StartedOncePerRequest ==
    \A c \in Cells :
        starts[c] <= Cardinality({d \in Requested : ask[d].manual /\ c \in Covered(d)})
                       + 1 + rearmed[c] + blocks

(* The groups that depend on a group, at any remove. *)
Downstream(g) ==
    {h \in Groups : \A S \in SUBSET Groups :
        g \in S /\ (\A k \in Groups : Deps[k] \cap S # {} => k \in S) => h \in S} \ {g}

(* What may undo a stop: the wipe of a request that covers the cell, a      *)
(* usage limit met by the task that had come to it, and new outputs of a    *)
(* group that its own depends on.                                           *)
UndoneByWipe(c) ==
    \E d \in Runs : pc[d] = "clear" /\ pc'[d] = "step" /\ c \in Covered(d)
UndoneByLimit(c) ==
    \E t \in Tasks : Own(t) = c /\ At(t, "gate") /\ task'[t].at = "blocked"
UndoneByOutputs(c) ==
    \E t \in Tasks :
        /\ draft[t].st # "none" /\ draft'[t].st = "none"
        /\ t[2] = c[1] /\ c[2] \in Downstream(task[t].group)
        /\ cell'[Own(t)].st # "none" /\ filled'[Own(t)]

(* A stop stands: no worker and no dispatcher writes over a stopped cell,   *)
(* and it is blanked by those three only.                                   *)
StopStands ==
    [][\A c \in Cells : cell[c].st = "cancelled" =>
          \/ cell'[c].st = "cancelled"
          \/ /\ cell'[c].st = "none"
             /\ UndoneByWipe(c) \/ UndoneByLimit(c) \/ UndoneByOutputs(c)]_vars

(* Nothing is under way. *)
Quiet ==
    /\ \A p \in DOMAIN pc : pc[p] \in {"idle", "over"}
    /\ \A t \in Tasks : task[t].at \in {"none", "done"}

(* The hand-over of a marker: a task that finds the lock of its row taken   *)
(* leaves, and however its leaving interleaves with the owner's release,    *)
(* when all has come to rest no marker is left that could have been run,    *)
(* but one that the owner has seen: it was stopped, had met a limit, or     *)
(* found that another group comes first.                                    *)
HandedOver == Quiet => \A r \in Rows : Waiting(r) \subseteq dropped

(* A group that may run by itself has run and left its outputs empty. *)
Unfilled(r) ==
    {g \in AutoRun : cell[r, g].st = "completed" /\ ~filled[r, g] /\ DepsMet(r, g, filled)}

(* Two such groups: each is what runs next after the other. *)
Spinning(r) == Cardinality(Unfilled(r)) > 1

(* Whatever is asked for and stopped, and whatever limits are met, the      *)
(* table comes to rest, unless a row spins.                                 *)
ComesToRest == []<>(Quiet \/ \E r \in Rows : Spinning(r))

-----------------------------------------------------------------------------
(* What the comments of the code say, and the code does not do *)

(* "A Stop-all can land during the prep above; its dispatch cancel is the   *)
(* authoritative stop" (workflow-columns.ts): a cancelled dispatch does not *)
(* go on.                                                                   *)
StopAllHolds ==
    [][\A d \in Runs : disp[d].st = "cancelled" => disp'[d].st # "dispatching"]_vars

=============================================================================
