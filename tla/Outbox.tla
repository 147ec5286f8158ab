------------------------------- MODULE Outbox -------------------------------
(***************************************************************************)
(* The transactional outbox of lib/core/outbox/service.ts: rows enqueued    *)
(* beside a business write, workers (a cron batch, or one call right after  *)
(* the commit) that claim a due row under a lease, run its handler outside  *)
(* any transaction and settle the row by compare-and-set on the lease, and  *)
(* a reaper that takes back the rows whose lease has grown old.             *)
(*                                                                         *)
(* One transaction or one UPDATE is one action; a worker can be interrupted *)
(* between any two of them.                                                *)
(***************************************************************************)
EXTENDS Integers, FiniteSets

CONSTANTS
    Events,          \* outbox rows
    Handled,         \* the rows whose event type has a registered handler
    Workers,         \* concurrent callers of processOutboxEvents / ...ById
    None,            \* "no row"
    MaxAttempts,     \* outboxEvent.maxAttempts
    HandlerTimeout,  \* DEFAULT_HANDLER_TIMEOUT_MS
    StuckThreshold,  \* STUCK_PROCESSING_THRESHOLD_MS
    ClaimDelay,      \* longest wait between `now` being read and the claim's commit
    Backoff,         \* Backoff[n]: delay before the retry that follows attempt n
    MaxTime,         \* bound of the clock
    MaxFaults        \* bound of crashes and failed writes

ASSUME OutboxAssumption ==
    /\ Handled \subseteq Events
    /\ None \notin Events
    /\ MaxAttempts \in Nat \ {0}
    /\ HandlerTimeout \in Nat /\ StuckThreshold \in Nat /\ ClaimDelay \in Nat
    /\ ClaimDelay < StuckThreshold
    /\ Backoff \in [1 .. MaxAttempts -> Nat \ {0}]
    /\ MaxTime \in Nat \ {0} /\ MaxFaults \in Nat

VARIABLES
    now,        \* the clock, one for all the hosts
    row,        \* the outbox_event table
    pc,         \* where each worker is
    single,     \* the workers running processOutboxEventById
    target,     \* the row a worker asks for or holds
    lease,      \* event.lockedAt of the worker's copy of the row
    seen,       \* event.attempts of the worker's copy of the row
    since,      \* when the worker's handler was started
    detached,   \* <<w, e>>: w still runs a handler of e that timed out
    delivered,  \* history: the rows some handler run of which succeeded
    faults      \* crashes and failed writes so far

workerVars == <<pc, single, target, lease, seen, since>>
vars == <<now, row, workerVars, detached, delivered, faults>>

Status   == {"absent", "pending", "processing", "completed", "dead_letter"}
Terminal == {"completed", "dead_letter"}

\* Timestamps start at 1: 0 stands for a NULL lockedAt.
NoLease == 0

Row == [status : Status, attempts : Nat, lockedAt : Nat, availableAt : Nat, createdAt : Nat]

Init ==
    /\ now = 1
    /\ row = [e \in Events |-> [status |-> "absent", attempts |-> 0, lockedAt |-> NoLease,
                                availableAt |-> 0, createdAt |-> 0]]
    /\ pc = [w \in Workers |-> "idle"]
    /\ single = {}
    /\ target = [w \in Workers |-> None]
    /\ lease = [w \in Workers |-> NoLease]
    /\ seen = [w \in Workers |-> 0]
    /\ since = [w \in Workers |-> 0]
    /\ detached = {}
    /\ delivered = {}
    /\ faults = 0

-----------------------------------------------------------------------------
(* Enqueueing.                                                              *)

\* availableAt is the caller's choice, the current time by default.
Enqueue(e) ==
    /\ row[e].status = "absent"
    /\ \E at \in {now, now + 1} :
          row' = [row EXCEPT ![e] = [status |-> "pending", attempts |-> 0, lockedAt |-> NoLease,
                                     availableAt |-> at, createdAt |-> now]]
    /\ UNCHANGED <<now, workerVars, detached, delivered, faults>>

-----------------------------------------------------------------------------
(* Starting, reaping and claiming.                                          *)

\* w goes to p and forgets its copy of the row: the locals of a call.
Drop(w, p) ==
    /\ pc' = [pc EXCEPT ![w] = p]
    /\ target' = [target EXCEPT ![w] = None]
    /\ lease' = [lease EXCEPT ![w] = NoLease]
    /\ seen' = [seen EXCEPT ![w] = 0]
    /\ since' = [since EXCEPT ![w] = 0]
    /\ single' = single \ {w}

\* Mutant: the reaper forgets the threshold.
StuckAtOnce(e) == row[e].status = "processing"
Stuck(e) == row[e].status = "processing" /\ row[e].lockedAt <= now - StuckThreshold

\* processOutboxEvents starts with reapStuckProcessingRows, one UPDATE. A
\* reaped row keeps its attempts.
BeginBatch(w) ==
    /\ pc[w] = "idle"
    /\ row' = [e \in Events |-> IF Stuck(e)
                                THEN [row[e] EXCEPT !.status = "pending", !.lockedAt = NoLease]
                                ELSE row[e]]
    /\ Drop(w, "polling")
    /\ UNCHANGED <<now, detached, delivered, faults>>

\* The loop head of the batch. Leaving is always possible: the batch is full
\* or the remaining run time is too short.
LeaveBatch(w) ==
    /\ pc[w] = "polling"
    /\ Drop(w, "idle")
    /\ UNCHANGED <<now, row, detached, delivered, faults>>

\* claimBatch reads the clock before its transaction: the value is the lease.
OpenClaim(w) ==
    /\ pc[w] = "polling"
    /\ pc' = [pc EXCEPT ![w] = "claiming"]
    /\ lease' = [lease EXCEPT ![w] = now]
    /\ UNCHANGED <<now, row, single, target, seen, since, detached, delivered, faults>>

\* processOutboxEventById reads the clock too, and does not reap.
BeginSingle(w, e) ==
    /\ pc[w] = "idle"
    /\ row[e].status # "absent"
    /\ pc' = [pc EXCEPT ![w] = "claiming"]
    /\ single' = single \cup {w}
    /\ target' = [target EXCEPT ![w] = e]
    /\ lease' = [lease EXCEPT ![w] = now]
    /\ UNCHANGED <<now, row, seen, since, detached, delivered, faults>>

Due(e, t)   == row[e].status = "pending" /\ row[e].availableAt <= t
Older(e, t) == {f \in Events : Due(f, t) /\ row[f].createdAt < row[e].createdAt}

\* Rows are skipped while another transaction has them locked, and each
\* concurrent claim locks one row.
Rivals(w) == {v \in Workers \ {w} : pc[v] = "claiming"}

\* The claim's transaction commits: the row is processing, under w's lease.
Take(w, e) ==
    /\ row' = [row EXCEPT ![e].status = "processing", ![e].lockedAt = lease[w]]
    /\ pc' = [pc EXCEPT ![w] = "running"]
    /\ target' = [target EXCEPT ![w] = e]
    /\ seen' = [seen EXCEPT ![w] = row[e].attempts]
    /\ since' = [since EXCEPT ![w] = now]
    /\ UNCHANGED <<now, single, lease, detached, delivered, faults>>

\* ORDER BY created_at LIMIT 1 FOR UPDATE SKIP LOCKED.
ClaimNext(w) ==
    /\ pc[w] = "claiming" /\ w \notin single
    /\ \E e \in Events :
          /\ Due(e, lease[w])
          /\ Cardinality(Older(e, lease[w])) <= Cardinality(Rivals(w))
          /\ Take(w, e)

\* Every due row is locked by a rival, or there is none: the batch ends.
ClaimNothing(w) ==
    /\ pc[w] = "claiming" /\ w \notin single
    /\ Cardinality({e \in Events : Due(e, lease[w])}) <= Cardinality(Rivals(w))
    /\ Drop(w, "idle")
    /\ UNCHANGED <<now, row, detached, delivered, faults>>

ClaimById(w) ==
    /\ pc[w] = "claiming" /\ w \in single
    /\ Due(target[w], lease[w])
    /\ Take(w, target[w])

ClaimByIdMisses(w) ==
    /\ pc[w] = "claiming" /\ w \in single
    /\ ~ Due(target[w], lease[w]) \/ Rivals(w) # {}
    /\ Drop(w, "idle")
    /\ UNCHANGED <<now, row, detached, delivered, faults>>

-----------------------------------------------------------------------------
(* Running the handler.                                                     *)

\* The handler settles in time. Whatever it did outside is done when it
\* succeeds.
HandlerSettles(w) ==
    /\ pc[w] = "running" /\ target[w] \in Handled
    /\ \/ /\ pc' = [pc EXCEPT ![w] = "succeeded"]
          /\ delivered' = delivered \cup {target[w]}
       \/ /\ pc' = [pc EXCEPT ![w] = "failed"]
          /\ UNCHANGED delivered
    /\ UNCHANGED <<now, row, single, target, lease, seen, since, detached, faults>>

\* The timer rejects the race; nothing stops the handler.
\* Mutant: a timeout passes for a success.
HandlerTimesOutWell(w) ==
    /\ pc[w] = "running" /\ target[w] \in Handled
    /\ now >= since[w] + HandlerTimeout
    /\ pc' = [pc EXCEPT ![w] = "succeeded"]
    /\ detached' = detached \cup {<<w, target[w]>>}
    /\ UNCHANGED <<now, row, single, target, lease, seen, since, delivered, faults>>

HandlerTimesOut(w) ==
    /\ pc[w] = "running" /\ target[w] \in Handled
    /\ now >= since[w] + HandlerTimeout
    /\ pc' = [pc EXCEPT ![w] = "timedout"]
    /\ detached' = detached \cup {<<w, target[w]>>}
    /\ UNCHANGED <<now, row, single, target, lease, seen, since, delivered, faults>>

\* A handler that outlived its timeout comes to an end, for nobody. A pair
\* may stand for several runs: it may remain.
DetachedEnds(w, e) ==
    /\ <<w, e>> \in detached
    /\ detached' \in {detached, detached \ {<<w, e>>}}
    /\ delivered' \in {delivered, delivered \cup {e}}
    /\ UNCHANGED <<now, row, workerVars, faults>>

-----------------------------------------------------------------------------
(* Settling the row.                                                        *)

\* Mutants: the WHERE clause loses the lock time, or the whole condition.
StatusHeld(w) == row[target[w]].status = "processing"
AlwaysHeld(w) == TRUE

LeaseHeld(w) ==
    row[target[w]].status = "processing" /\ row[target[w]].lockedAt = lease[w]

\* updateIfLeaseHeld: the row becomes r if the lease still stands, else the
\* update matches nothing. Either way w goes on with its loop, or returns.
Settle(w, r) ==
    /\ row' = IF LeaseHeld(w) THEN [row EXCEPT ![target[w]] = r] ELSE row
    /\ Drop(w, IF w \in single THEN "idle" ELSE "polling")
    /\ UNCHANGED <<now, detached, delivered, faults>>

NextAttempts(w) == seen[w] + 1
\* Mutant: the attempt counted twice.
IsDeadEarly(w) == NextAttempts(w) + 1 >= MaxAttempts
IsDead(w) == NextAttempts(w) >= MaxAttempts

Completed(w) ==
    [row[target[w]] EXCEPT !.status = "completed", !.lockedAt = NoLease]
DeadLetter(w) ==
    [row[target[w]] EXCEPT !.status = "dead_letter", !.attempts = NextAttempts(w), !.lockedAt = NoLease]
Retry(w) ==
    [row[target[w]] EXCEPT !.status = "pending", !.attempts = NextAttempts(w), !.lockedAt = NoLease,
                           !.availableAt = now + Backoff[NextAttempts(w)]]

\* runHandler without a handler: dead at once, no attempt counted.
NoHandler(w) ==
    /\ pc[w] = "running" /\ target[w] \notin Handled
    /\ Settle(w, [row[target[w]] EXCEPT !.status = "dead_letter", !.lockedAt = NoLease])

Complete(w) ==
    /\ pc[w] = "succeeded"
    /\ Settle(w, Completed(w))

\* The write of `completed` is inside the try: when it fails, the catch
\* treats the attempt as a failure of the handler.
CompleteFails(w) ==
    /\ pc[w] = "succeeded" /\ faults < MaxFaults
    /\ pc' = [pc EXCEPT ![w] = "failed"]
    /\ faults' = faults + 1
    /\ UNCHANGED <<now, row, single, target, lease, seen, since, detached, delivered>>

\* scheduleRetry, or the dead letter after the last attempt.
Fail(w) ==
    /\ pc[w] = "failed"
    /\ Settle(w, IF IsDead(w) THEN DeadLetter(w) ELSE Retry(w))

\* recordTimedOutAttempt: the row is left to the reaper, under a fresh lock
\* that is nobody's lease.
RecordTimeout(w) ==
    /\ pc[w] = "timedout"
    /\ Settle(w, IF IsDead(w)
                 THEN DeadLetter(w)
                 ELSE [row[target[w]] EXCEPT !.attempts = NextAttempts(w), !.lockedAt = now])

\* The settling write fails: the call rejects, the row stays as it is.
SettleFails(w) ==
    /\ \/ pc[w] \in {"failed", "timedout"}
       \/ pc[w] = "running" /\ target[w] \notin Handled
    /\ faults < MaxFaults
    /\ Drop(w, "idle")
    /\ faults' = faults + 1
    /\ UNCHANGED <<now, row, detached, delivered>>

\* The process is killed: its handlers go with it, the row stays claimed.
Crash(w) ==
    /\ pc[w] # "idle" /\ faults < MaxFaults
    /\ Drop(w, "idle")
    /\ detached' = {d \in detached : d[1] # w}
    /\ faults' = faults + 1
    /\ UNCHANGED <<now, row, delivered>>

-----------------------------------------------------------------------------
\* Time passes, but a transaction never waits longer than ClaimDelay.
Tick ==
    /\ now < MaxTime
    /\ \A w \in Workers : pc[w] = "claiming" => now + 1 <= lease[w] + ClaimDelay
    /\ now' = now + 1
    /\ UNCHANGED <<row, workerVars, detached, delivered, faults>>

Claim(w) == ClaimNext(w) \/ ClaimNothing(w) \/ ClaimById(w) \/ ClaimByIdMisses(w)
Finish(w) == NoHandler(w) \/ Complete(w) \/ Fail(w) \/ RecordTimeout(w)
Fault(w) == CompleteFails(w) \/ SettleFails(w) \/ Crash(w)

Next ==
    \/ Tick
    \/ \E e \in Events : Enqueue(e)
    \/ \E w \in Workers :
          \/ BeginBatch(w) \/ LeaveBatch(w) \/ OpenClaim(w)
          \/ \E e \in Events : BeginSingle(w, e)
          \/ Claim(w)
          \/ HandlerSettles(w) \/ HandlerTimesOut(w)
          \/ \E e \in Events : DetachedEnds(w, e)
          \/ Finish(w) \/ Fault(w)

Spec == Init /\ [][Next]_vars

-----------------------------------------------------------------------------
Holding(w) == pc[w] \in {"running", "succeeded", "failed", "timedout"}

\* Where w is determines which of its locals mean something.
Position(w) ==
    /\ Holding(w) => target[w] \in Events
    /\ pc[w] = "claiming" /\ w \in single => target[w] \in Events
    /\ pc[w] \in {"idle", "polling"} => w \notin single

PC == {"idle", "polling", "claiming", "running", "succeeded", "failed", "timedout"}

\* The table and the workers' copies keep their shape: no attempt count,
\* lock time or worker position outside its range.
TypeOK ==
    /\ now \in 1 .. MaxTime
    /\ row \in [Events -> Row]
    /\ pc \in [Workers -> PC]
    /\ single \in SUBSET Workers
    /\ target \in [Workers -> Events \cup {None}]
    /\ lease \in [Workers -> Nat]
    /\ seen \in [Workers -> Nat]
    /\ since \in [Workers -> Nat]
    /\ detached \in SUBSET (Workers \X Events)
    /\ delivered \in SUBSET Events
    /\ faults \in 0 .. MaxFaults
    /\ \A w \in Workers : Position(w)

\* Two workers that hold copies of one row hold it under different leases, so
\* the compare-and-set of at most one of them can match: the defence that the
\* comment on runHandler claims against the slow handler and the reaper.
LeasesDiffer ==
    \A v, w \in Workers :
        v # w /\ Holding(v) /\ Holding(w) /\ target[v] = target[w] => lease[v] # lease[w]

\* A worker whose lease stands settles from an up-to-date copy: the attempts
\* it adds one to are those of the row, so no attempt is lost or counted twice.
CopyIsFresh ==
    \A w \in Workers : Holding(w) /\ LeaseHeld(w) => seen[w] = row[target[w]].attempts

\* completed is never written for a row no handler run of which succeeded,
\* whatever timeouts, reaping and late answers come between.
CompletedWasDelivered ==
    \A e \in Events : row[e].status = "completed" => e \in delivered

\* A row with a handler is given up after exactly MaxAttempts counted
\* attempts, and no row is ever tried with its attempts used up.
DeadLetterIsExhausted ==
    \A e \in Handled :
        /\ row[e].status = "dead_letter" => row[e].attempts = MaxAttempts
        /\ row[e].status \in {"pending", "processing"} => row[e].attempts < MaxAttempts

\* completed and dead_letter are final: no late worker, reaper or retry moves
\* a row out of them or recounts its attempts.
TerminalIsFinal ==
    [][\A e \in Events : row[e].status \in Terminal => row'[e] = row[e]]_vars

\* The promise to the enqueuing transaction, as an abstract specification.
VerdictOf(status) ==
    CASE status = "absent"                    -> "none"
      [] status \in {"pending", "processing"} -> "open"
      [] status = "completed"                 -> "acknowledged"
      [] status = "dead_letter"               -> "given_up"

Contract == INSTANCE Delivery
                WITH verdict <- [e \in Events |-> VerdictOf(row[e].status)],
                     performed <- delivered

\* The outbox implements Delivery: claims, reaping, retries and lost leases
\* are stutters, and only the events promised come about.
Delivers == Contract!Spec
=============================================================================
