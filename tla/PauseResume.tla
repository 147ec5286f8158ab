----------------------------- MODULE PauseResume -----------------------------
(***************************************************************************)
(* A paused execution and the runs that resume it: PauseResumeManager of    *)
(* lib/workflows/executor/human-in-the-loop-manager.ts, the cancel route    *)
(* and the poller that resumes timed waits. The paused_executions row of    *)
(* one execution holds its pause points and the snapshot that a resumed run *)
(* starts from; resume_queue holds the requests to resume a point.          *)
(*                                                                         *)
(* One transaction, or one statement outside a transaction, is one action:  *)
(* resumed runs, cancel requests, API calls and the poller interleave       *)
(* between any two of them, on any host. What a resumed run does inside is  *)
(* the Engine module's; here it ends in one of its outcomes.                *)
(***************************************************************************)
EXTENDS Integers, FiniteSets

CONSTANTS
    Contexts,    \* the pause points the execution may ever have
    First,       \* those of its first pause
    Follow,      \* Follow[c]: those at which the run resumed from c may pause
    ResumeAt,    \* ResumeAt[c], for the timed waits: when c is to be resumed
    Requests,    \* calls of the cancel route
    None,        \* "no context"
    MaxResumes,  \* bound of the rows of resume_queue
    MaxTime,     \* bound of the clock
    MaxFaults,   \* bound of crashes and failed transactions
    Outages      \* whether Redis, the event buffer or the job queue may refuse

Timed == DOMAIN ResumeAt
Ids   == 1 .. MaxResumes

ASSUME PauseAssumption ==
    /\ IsFiniteSet(Contexts) /\ First \subseteq Contexts /\ First # {} /\ None \notin Contexts
    /\ Follow \in [Contexts -> SUBSET Contexts]
    /\ Timed \subseteq Contexts /\ \A c \in Timed : ResumeAt[c] \in Nat \ {0}
    /\ Requests \cap Ids = {}
    /\ MaxResumes \in Nat /\ MaxTime \in Nat \ {0} /\ MaxFaults \in Nat
    /\ Outages \in BOOLEAN

VARIABLES
    \* the row of paused_executions
    status,        \* "none" before the first pause is stored
    point,         \* pausePoints[c].resumeStatus, "absent" when there is none
    resumedCount,
    snapshot,      \* the contexts whose resumption executionSnapshot contains
    nextResumeAt,
    \* the rows of resume_queue for it, in the order of queuedAt
    entry,
    \* the processes
    pc,            \* of the run of each entry, and of each cancel request
    base,          \* the snapshot each run starts from
    due,           \* poller: the waits of its batch still to be dispatched
    later,         \* poller: the nextResumeAt it will store, Off when it is idle
    now,
    \* history
    ran,           \* ran[c]: how often a run resumed from c went through
    tried,         \* the waits the poller has dispatched
    faults

rowVars  == <<status, point, resumedCount, snapshot, nextResumeAt>>
pollVars == <<due, later>>
histVars == <<ran, tried, faults>>
vars == <<rowVars, entry, pc, base, pollVars, now, histVars>>

Agents == Ids \cup Requests

\* Times start at 1: 0 stands for a NULL nextResumeAt.
Never == 0
Off   == -1

NoEntry == [ctx |-> None, st |-> "none"]

Claimed == {i \in Ids : entry[i].st = "claimed"}
Pending == {i \in Ids : entry[i].st = "pending"}
Unused  == {i \in Ids : entry[i].st = "none"}

Least(S) == CHOOSE x \in S : \A y \in S : x <= y

Points(pt)  == {c \in Contexts : pt[c] # "absent"}
Resumed(pt) == {c \in Contexts : pt[c] = "resumed"}

Resumable == status \in {"paused", "partially_resumed"}

\* Where an agent goes: its step.
Go(x, p) == pc' = [pc EXCEPT ![x] = p]

Init ==
    /\ status = "none"
    /\ point = [c \in Contexts |-> "absent"]
    /\ resumedCount = 0 /\ snapshot = {} /\ nextResumeAt = Never
    /\ entry = [i \in Ids |-> NoEntry]
    /\ pc = [x \in Agents |-> "idle"]
    /\ base = [i \in Ids |-> {}]
    /\ due = {} /\ later = Off
    /\ now = 1
    /\ ran = [c \in Contexts |-> 0] /\ tried = {} /\ faults = 0

-----------------------------------------------------------------------------
(* Pausing and asking for a resume.                                         *)

\* Mutant: the last wait instead of the first.
Latest(C, t) ==
    LET T == {ResumeAt[c] : c \in {d \in C \cap Timed : ResumeAt[d] > t}}
    IN  IF T = {} THEN Never ELSE CHOOSE x \in T : \A y \in T : y <= x

\* computeEarliestResumeAt, of the waits of C later than t.
Earliest(C, t) ==
    LET T == {ResumeAt[c] : c \in {d \in C \cap Timed : ResumeAt[d] > t}}
    IN  IF T = {} THEN Never ELSE Least(T)

\* persistPauseResult inserts the row; the drain after it finds no entry.
FirstPause ==
    /\ status = "none"
    /\ status' = "paused"
    /\ point' = [c \in Contexts |-> IF c \in First THEN "paused" ELSE "absent"]
    /\ nextResumeAt' = Earliest(First, 0)
    /\ UNCHANGED <<resumedCount, snapshot, entry, pc, base, pollVars, now, histVars>>

\* Mutant: a resume starts at once, whatever runs.
AcceptAtOnce(c) ==
    LET i == Least(Unused) IN
    /\ Resumable /\ point[c] = "paused" /\ Unused # {}
    /\ entry' = [entry EXCEPT ![i] = [ctx |-> c, st |-> "claimed"]]
    /\ point' = [point EXCEPT ![c] = "resuming"]
    /\ Go(i, "starting")
    /\ base' = [base EXCEPT ![i] = snapshot]
    /\ UNCHANGED <<status, resumedCount, snapshot, nextResumeAt>>

\* Mutant: the point is not looked at.
AcceptAgain(c) ==
    LET i == Least(Unused) IN
    /\ Resumable /\ Unused # {} /\ Claimed = {}
    /\ entry' = [entry EXCEPT ![i] = [ctx |-> c, st |-> "claimed"]]
    /\ point' = [point EXCEPT ![c] = "resuming"]
    /\ Go(i, "starting")
    /\ base' = [base EXCEPT ![i] = snapshot]
    /\ UNCHANGED <<status, resumedCount, snapshot, nextResumeAt>>

\* enqueueOrStartResume: the resume starts when no other is claimed, else it
\* waits in the queue.
Accept(c) ==
    LET i == Least(Unused) IN
    /\ Resumable /\ point[c] = "paused" /\ Unused # {}
    /\ \/ /\ Claimed # {}
          /\ entry' = [entry EXCEPT ![i] = [ctx |-> c, st |-> "pending"]]
          /\ point' = [point EXCEPT ![c] = "queued"]
          /\ UNCHANGED <<pc, base>>
       \/ /\ Claimed = {}
          /\ entry' = [entry EXCEPT ![i] = [ctx |-> c, st |-> "claimed"]]
          /\ point' = [point EXCEPT ![c] = "resuming"]
          /\ Go(i, "starting")
          /\ base' = [base EXCEPT ![i] = snapshot]
    /\ UNCHANGED <<status, resumedCount, snapshot, nextResumeAt>>

\* The API resumes the points of people only.
Ask(c) ==
    /\ c \in Contexts \ Timed
    /\ Accept(c)
    /\ UNCHANGED <<pollVars, now, histVars>>

-----------------------------------------------------------------------------
(* The poller. A lock keeps it to one batch at a time.                      *)

Poll ==
    /\ later = Off
    /\ Resumable /\ nextResumeAt # Never /\ nextResumeAt <= now
    /\ LET eligible == {c \in Timed : point[c] = "paused"}
       IN  /\ due' = {c \in eligible : ResumeAt[c] <= now}
           /\ later' = Earliest(eligible, now)
    /\ UNCHANGED <<rowVars, entry, pc, base, now, histVars>>

\* A wait is dispatched once: a refusal is logged and not retried.
Dispatch(c) ==
    /\ c \in due
    /\ due' = due \ {c} /\ tried' = tried \cup {c}
    /\ \/ Accept(c)
       \/ /\ ~ (Resumable /\ point[c] = "paused")
          /\ UNCHANGED <<rowVars, entry, pc, base>>
    /\ UNCHANGED <<later, now, ran, faults>>

\* Mutant: the poller forgets the waits that are not due yet.
StoreNever ==
    /\ later # Off /\ due = {}
    /\ nextResumeAt' = IF Resumable THEN Never ELSE nextResumeAt
    /\ later' = Off
    /\ UNCHANGED <<status, point, resumedCount, snapshot, entry, pc, base, due, now, histVars>>

\* setNextResumeAt, with the value computed from the row as it was read.
StoreNext ==
    /\ later # Off /\ due = {}
    /\ nextResumeAt' = IF Resumable THEN later ELSE nextResumeAt
    /\ later' = Off
    /\ UNCHANGED <<status, point, resumedCount, snapshot, entry, pc, base, due, now, histVars>>

-----------------------------------------------------------------------------
(* A resumed run, by the driver startResumeExecution.                       *)

Ctx(i) == entry[i].ctx

Step(i, p, q) == i \in Ids /\ pc[i] = p /\ Go(i, q)

\* A background job reads the row again when it starts, a call in the same
\* process keeps the row its claim has read.
Start(i) ==
    /\ Step(i, "starting", "running")
    /\ base' \in {base, [base EXCEPT ![i] = snapshot]}
    /\ UNCHANGED <<rowVars, entry, pollVars, now, histVars>>

\* What the run has to do is done: it ends, or pauses again.
EndsAs(i, outcome) ==
    /\ Step(i, "running", outcome)
    /\ ran' = [ran EXCEPT ![Ctx(i)] = @ + 1]
    /\ UNCHANGED <<rowVars, entry, base, pollVars, now, tried, faults>>

Pauses(i)   == EndsAs(i, "pausing") /\ Follow[Ctx(i)] # {}
Succeeds(i) == EndsAs(i, "succeeded")

\* Bound: a point is opened again only while resume_queue has an entry left
\* for every point that may still be resumed.
Spare == Cardinality({c \in Contexts : point[c] \in {"absent", "paused", "resuming"}})
            <= Cardinality(Unused)

\* It fails, or it is cancelled by a request or by its timeout.
Fails(i) ==
    /\ \/ Step(i, "running", "failed")
       \/ Step(i, "running", "aborted") /\ Spare
    /\ UNCHANGED <<rowVars, entry, base, pollVars, now, histVars>>

\* The run buffer or the job queue is not available: nothing has run yet.
Refused(i) ==
    /\ Outages /\ Spare
    /\ Step(i, "starting", "retrying")
    /\ UNCHANGED <<rowVars, entry, base, pollVars, now, histVars>>

\* The run goes through but its terminal event is not published.
Unpublished(i) == Outages /\ Spare /\ EndsAs(i, "retrying")

\* Mutant: the snapshot of the claim is stored again.
SnapshotAfterStale(i) == base[i]
\* The state of the run, with its own pause point completed.
SnapshotAfter(i) == base[i] \cup {Ctx(i)}

\* Mutant: a cancellation under way is forgotten.
StatusOfAnew(n, total, was) ==
    IF n >= total THEN "fully_resumed" ELSE IF n > 0 THEN "partially_resumed" ELSE "paused"

\* The status of a row that was at `was`, with n of its points resumed.
StatusOf(n, total, was) ==
    CASE was = "cancelling" -> "cancelling"
      [] OTHER -> IF n >= total THEN "fully_resumed"
                  ELSE IF n > 0 THEN "partially_resumed" ELSE "paused"

\* persistPauseResult of a run that paused at the points P. Whatever is
\* resuming counts as resumed. The drain it ends with finds its own claim.
Persist(i) ==
    /\ Step(i, "pausing", "paused")
    /\ \E P \in (SUBSET Follow[Ctx(i)]) \ {{}} :
          /\ point' = [c \in Contexts |->
                          IF c \in P THEN "paused"
                          ELSE IF point[c] = "resuming" THEN "resumed" ELSE point[c]]
          /\ resumedCount' = Cardinality(Resumed(point'))
          /\ status' = StatusOf(resumedCount', Cardinality(Points(point')), status)
          /\ snapshot' = SnapshotAfter(i)
          /\ nextResumeAt' = Earliest(Points(point'), 0)
    /\ UNCHANGED <<entry, base, pollVars, now, histVars>>

Settle(i, st) == entry' = [entry EXCEPT ![i].st = st]

\* Mutant: a run that paused has its resumption counted by both transactions.
CloseEntryCounting(i) ==
    /\ Step(i, "paused", "draining")
    /\ Settle(i, "completed")
    /\ resumedCount' = resumedCount + 1
    /\ UNCHANGED <<point, status, snapshot, nextResumeAt, base, pollVars, now, histVars>>

\* markResumeCompleted of a run that paused: the entry only.
CloseEntry(i) ==
    /\ Step(i, "paused", "draining")
    /\ Settle(i, "completed")
    /\ UNCHANGED <<rowVars, base, pollVars, now, histVars>>

\* updateSnapshotAfterResume.
SaveSnapshot(i) ==
    /\ Step(i, "succeeded", "saved")
    /\ snapshot' = SnapshotAfter(i)
    /\ UNCHANGED <<status, point, resumedCount, nextResumeAt, entry, base, pollVars, now, histVars>>

\* Mutant: the run ends without a look at the queue.
CompleteAlone(i) ==
    /\ Step(i, "saved", "over")
    /\ Settle(i, "completed")
    /\ point' = [point EXCEPT ![Ctx(i)] = "resumed"]
    /\ resumedCount' = resumedCount + 1
    /\ status' = StatusOf(resumedCount', Cardinality(Points(point)), status)
    /\ UNCHANGED <<snapshot, nextResumeAt, base, pollVars, now, histVars>>

\* markResumeCompleted of a run that ended.
Complete(i) ==
    /\ Step(i, "saved", "draining")
    /\ Settle(i, "completed")
    /\ point' = [point EXCEPT ![Ctx(i)] = "resumed"]
    /\ resumedCount' = resumedCount + 1
    /\ status' = StatusOf(resumedCount', Cardinality(Points(point)), status)
    /\ UNCHANGED <<snapshot, nextResumeAt, base, pollVars, now, histVars>>

\* markResumeFailed.
MarkFailed(i) ==
    /\ Step(i, "failed", "leaving")
    /\ Settle(i, "failed")
    /\ point' = [point EXCEPT ![Ctx(i)] = "failed"]
    /\ UNCHANGED <<status, resumedCount, snapshot, nextResumeAt, base, pollVars, now, histVars>>

\* Mutant: the point stays as it is.
ReopenNot(i) ==
    /\ Step(i, "aborted", "asking") \/ Step(i, "retrying", "leaving")
    /\ Settle(i, "failed")
    /\ UNCHANGED <<rowVars, base, pollVars, now, histVars>>

\* markResumeAttemptFailed: the point may be resumed again.
Reopen(i) ==
    /\ Step(i, "aborted", "asking") \/ Step(i, "retrying", "leaving")
    /\ Settle(i, "failed")
    /\ point' = [point EXCEPT ![Ctx(i)] = "paused"]
    /\ UNCHANGED <<status, resumedCount, snapshot, nextResumeAt, base, pollVars, now, histVars>>

-----------------------------------------------------------------------------
(* Steps of both runs and cancel requests.                                  *)

\* processQueuedResumes: one transaction of its loop.
Draining(x) == pc[x] \in {"draining", "leaving"}

DrainStops(x) ==
    /\ Draining(x)
    /\ ~ Resumable \/ Claimed # {} \/ Pending = {}
    /\ Go(x, "over")
    /\ UNCHANGED <<rowVars, entry, base, pollVars, now, histVars>>

DrainDrops(x) ==
    /\ Draining(x) /\ Resumable /\ Claimed = {} /\ Pending # {}
    /\ point[Ctx(Least(Pending))] # "queued"
    /\ Settle(Least(Pending), "failed")
    /\ UNCHANGED <<rowVars, pc, base, pollVars, now, histVars>>

DrainClaims(x) ==
    LET i == Least(Pending) IN
    /\ Draining(x) /\ Resumable /\ Claimed = {} /\ Pending # {}
    /\ point[Ctx(i)] = "queued"
    /\ Settle(i, "claimed")
    /\ point' = [point EXCEPT ![Ctx(i)] = "resuming"]
    /\ pc' = [pc EXCEPT ![x] = "over", ![i] = "starting"]
    /\ base' = [base EXCEPT ![i] = snapshot]
    /\ UNCHANGED <<status, resumedCount, snapshot, nextResumeAt, pollVars, now, histVars>>

\* getPausedCancellationStatus reads the queue, then the row.
AskClaims(x) ==
    /\ pc[x] = "asking"
    /\ Go(x, IF Claimed = {} THEN "asked" ELSE IF x \in Requests THEN "marking" ELSE "draining")
    /\ UNCHANGED <<rowVars, entry, base, pollVars, now, histVars>>

AskStatus(x) ==
    /\ pc[x] = "asked"
    /\ Go(x, CASE status = "cancelling" -> IF x \in Requests THEN "publishing" ELSE "confirming"
               [] status = "cancelled"  -> IF x \in Requests THEN "over" ELSE "draining"
               [] OTHER                 -> IF x \in Requests THEN "marking" ELSE "draining")
    /\ UNCHANGED <<rowVars, entry, base, pollVars, now, histVars>>

\* completePausedCancellation.
Confirm(x) ==
    /\ pc[x] = "confirming"
    /\ status' = IF status = "cancelling" THEN "cancelled" ELSE status
    /\ Go(x, IF x \in Requests THEN "over" ELSE "draining")
    /\ UNCHANGED <<point, resumedCount, snapshot, nextResumeAt, entry, base, pollVars, now, histVars>>

-----------------------------------------------------------------------------
(* A request to cancel.                                                     *)

\* beginPausedCancellation: the row is reserved; while a resume runs it is
\* the run that has to be cancelled.
Begin(k) ==
    /\ k \in Requests /\ pc[k] = "idle"
    /\ LET open == Resumable \/ status = "cancelling"
       IN  /\ status' = IF open THEN "cancelling" ELSE status
           /\ Go(k, IF open /\ Claimed = {} THEN "publishing" ELSE "asking")
    /\ UNCHANGED <<point, resumedCount, snapshot, nextResumeAt, entry, base, pollVars, now, histVars>>

\* The terminal event of a paused execution.
Publish(k) ==
    /\ pc[k] = "publishing"
    /\ \/ Go(k, "confirming")
       \/ Outages /\ Go(k, "clearing")
    /\ UNCHANGED <<rowVars, entry, base, pollVars, now, histVars>>

\* markExecutionCancelled and abortManualExecution tell a running engine.
Mark(k) ==
    /\ pc[k] = "marking"
    /\ \/ Go(k, "blocking")
       \/ Outages /\ Go(k, "clearing")
    /\ UNCHANGED <<rowVars, entry, base, pollVars, now, histVars>>

\* blockQueuedResumesForCancellation.
Block(k) ==
    /\ pc[k] = "blocking"
    /\ Go(k, "over")
    /\ IF Resumable \/ status = "cancelling"
       THEN /\ status' = "cancelling"
            /\ entry' = [i \in Ids |-> IF i \in Pending THEN [entry[i] EXCEPT !.st = "failed"]
                                       ELSE entry[i]]
       ELSE UNCHANGED <<status, entry>>
    /\ UNCHANGED <<point, resumedCount, snapshot, nextResumeAt, base, pollVars, now, histVars>>

\* clearPausedCancellationIntent.
Clear(k) ==
    /\ pc[k] = "clearing"
    /\ Go(k, "draining")
    /\ status' = IF status # "cancelling" THEN status
                 ELSE IF resumedCount > 0 THEN "partially_resumed" ELSE "paused"
    /\ UNCHANGED <<point, resumedCount, snapshot, nextResumeAt, entry, base, pollVars, now, histVars>>

-----------------------------------------------------------------------------
(* Faults.                                                                  *)

Fault(x, p) ==
    /\ faults < MaxFaults /\ faults' = faults + 1
    /\ Go(x, p)
    /\ UNCHANGED <<rowVars, entry, base, pollVars, now, ran, tried>>

\* The transaction that stores the pause fails: the error is swallowed.
PersistFails(i) == i \in Ids /\ pc[i] = "pausing" /\ Fault(i, "paused")

\* A statement after the run throws: the catch of the driver takes over.
Throws(i) ==
    /\ i \in Ids
    /\ pc[i] \in {"paused", "succeeded", "saved", "aborted", "asking", "asked", "confirming",
                  "draining"}
    /\ Fault(i, "failed")

\* The process is gone. A job that finds its table cell cancelled returns
\* without a word to the queue, as if it had died before it started.
Dies(x) == pc[x] \notin {"idle", "over", "dead"} /\ Fault(x, "dead")

-----------------------------------------------------------------------------
Tick ==
    /\ now < MaxTime
    /\ now' = now + 1
    /\ UNCHANGED <<rowVars, entry, pc, base, pollVars, histVars>>

Poller == Poll \/ (\E c \in Timed : Dispatch(c)) \/ StoreNext

Ends(i) == Pauses(i) \/ Succeeds(i) \/ Fails(i) \/ Unpublished(i)

Drives(i) ==
    \/ Start(i) \/ Refused(i) \/ Ends(i)
    \/ Persist(i) \/ CloseEntry(i) \/ SaveSnapshot(i) \/ Complete(i)
    \/ MarkFailed(i) \/ Reopen(i)

Cancels(k) == Publish(k) \/ Mark(k) \/ Block(k) \/ Clear(k)

Either(x) ==
    \/ DrainStops(x) \/ DrainDrops(x) \/ DrainClaims(x)
    \/ AskClaims(x) \/ AskStatus(x) \/ Confirm(x)

Next ==
    \/ FirstPause \/ Tick \/ Poller
    \/ \E c \in Contexts : Ask(c)
    \/ \E i \in Ids : Drives(i) \/ PersistFails(i) \/ Throws(i)
    \/ \E k \in Requests : Begin(k) \/ Cancels(k)
    \/ \E x \in Agents : Either(x) \/ Dies(x)

Spec == Init /\ [][Next]_vars

\* A process that is not killed goes on, a run ends by its timeout at the
\* latest, and the cron calls the poller. Nobody has to ask or to cancel.
FairSpec ==
    /\ Spec
    /\ WF_vars(FirstPause) /\ WF_vars(Tick) /\ WF_vars(Poller)
    /\ \A i \in Ids : WF_vars(Drives(i))
    /\ \A k \in Requests : WF_vars(Cancels(k))
    /\ \A x \in Agents : WF_vars(Either(x))

-----------------------------------------------------------------------------
Statuses == {"none", "paused", "partially_resumed", "fully_resumed", "cancelling", "cancelled"}
PointStatuses == {"absent", "paused", "queued", "resuming", "resumed", "failed"}
EntryStatuses == {"none", "pending", "claimed", "completed", "failed"}
Phases == {"idle", "over", "dead", "starting", "running", "pausing", "paused", "succeeded", "saved",
           "failed", "aborted", "retrying", "draining", "leaving", "asking", "asked", "confirming",
           "publishing", "marking", "blocking", "clearing"}

\* The row, the queue and the processes keep to their states, and every entry
\* in use names a pause point.
TypeOK ==
    /\ status \in Statuses
    /\ point \in [Contexts -> PointStatuses]
    /\ resumedCount \in Nat
    /\ snapshot \in SUBSET Contexts
    /\ nextResumeAt \in Nat
    /\ entry \in [Ids -> [ctx : Contexts \cup {None}, st : EntryStatuses]]
    /\ \A i \in Ids : entry[i].st = "none" \/ entry[i].ctx \in Contexts
    /\ pc \in [Agents -> Phases]
    /\ base \in [Ids -> SUBSET Contexts]
    /\ due \in SUBSET Timed /\ later \in Nat \cup {Off}
    /\ now \in 1 .. MaxTime
    /\ ran \in [Contexts -> Nat] /\ tried \in SUBSET Contexts /\ faults \in 0 .. MaxFaults

\* The runs that are at work, or store what they have done.
Executing == {i \in Ids : pc[i] \in {"starting", "running", "pausing", "paused", "succeeded", "saved"}}

\* One resume at a time: no two are claimed or at work, whatever the callers,
\* the drains and the poller do at once, and whatever breaks down.
OneResume == \A i, j \in Claimed \cup Executing : i = j

\* No resumed run is lost: the snapshot the next run starts from contains the
\* resumption of every point that is marked as resumed, unless something broke.
SnapshotHasResumed == faults = 0 => Resumed(point) \subseteq snapshot

\* A point is being resumed exactly when the claimed entry is for it, and it
\* waits exactly when a pending entry is for it: as long as nobody cancels and
\* nothing is killed, no request is forgotten and no point is stuck.
QueueMatchesPoints ==
    faults = 0 /\ (\A k \in Requests : pc[k] = "idle") =>
    /\ {c \in Contexts : point[c] = "resuming"}
          = {Ctx(i) : i \in {j \in Claimed : pc[j] # "paused"}}
    /\ {c \in Contexts : point[c] = "queued"} = {Ctx(i) : i \in Pending}

\* The count the status is computed from is that of the resumed points, and an
\* execution is fully resumed only when all its points are, unless something
\* broke: a drain that throws marks the point of its run, which is resumed, as
\* failed.
CountsAgree ==
    faults = 0 =>
    /\ resumedCount = Cardinality(Resumed(point))
    /\ status = "fully_resumed" => Resumed(point) = Points(point)

\* The work behind a pause point is done once, however often it is asked for.
ResumedOnce == \A c \in Contexts : ran[c] <= 1

\* An accepted cancellation is not forgotten by the run it has to wait for:
\* unless the cancel route takes it back, it stands until it is carried out.
CancelIsKept ==
    [][status = "cancelling" => status' \in {"cancelling", "cancelled"}]_vars

\* A wait that was never dispatched is on the poller's list, at its time or
\* earlier: no wait is slept through.
WaitIsScheduled ==
    Resumable /\ later = Off
        => \A c \in Timed \ tried :
              point[c] = "paused" => nextResumeAt # Never /\ nextResumeAt <= ResumeAt[c]

\* "Resume queued. It will run after current resumes finish." (the resume
\* route): unless the execution is cancelled, and with no process killed.
QueuedRuns == \A i \in Ids : entry[i].st = "pending" ~> entry[i].st # "pending" \/ status = "cancelled"

\* The poller comes to every wait.
WaitsAreDispatched ==
    \A c \in Timed : point[c] = "paused" ~> c \in tried \/ status \in {"cancelling", "cancelled"}

\* "Stopping the run cancels an active wait" (wait.mdx): a wait that is active
\* when the cancellation is accepted does not stay behind in a row that can
\* neither be resumed nor become cancelled.
StopCancelsWait ==
    \A c \in Timed : status = "cancelling" /\ point[c] = "paused" ~> status # "cancelling"
=============================================================================
