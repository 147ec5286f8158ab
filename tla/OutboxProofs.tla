---------------------------- MODULE OutboxProofs ----------------------------
(* Proofs about Outbox, for every number of rows and workers and every      *)
(* timeout that satisfies OutboxAssumption.                                 *)
EXTENDS Outbox, TLAPS

-----------------------------------------------------------------------------
(* Type correctness.                                                        *)

\* Forgetting the copy of the row leaves every local in its range.
LEMMA DropType ==
    ASSUME TypeOK, NEW w \in Workers, NEW p \in {"idle", "polling"}, Drop(w, p)
    PROVE  /\ pc' \in [Workers -> PC]
           /\ single' \in SUBSET Workers
           /\ target' \in [Workers -> Events \cup {None}]
           /\ lease' \in [Workers -> Nat]
           /\ seen' \in [Workers -> Nat]
           /\ since' \in [Workers -> Nat]
           /\ \A v \in Workers : Position(v)'
<1>1. pc' \in [Workers -> PC] /\ single' \in SUBSET Workers
    BY DEF TypeOK, Drop, PC
<1>2. /\ target' \in [Workers -> Events \cup {None}]
      /\ lease' \in [Workers -> Nat]
      /\ seen' \in [Workers -> Nat]
      /\ since' \in [Workers -> Nat]
    BY DEF TypeOK, Drop, NoLease
<1>3. ASSUME NEW v \in Workers PROVE Position(v)'
    <2>1. Position(v)
        BY DEF TypeOK
    <2> QED BY <2>1 DEF TypeOK, Drop, Position, Holding, PC
<1> QED BY <1>1, <1>2, <1>3

\* The rows that Finish writes are rows: in particular a retry is only
\* planned while attempts remain, so its backoff is defined.
LEMMA SettleType ==
    ASSUME TypeOK, NEW w \in Workers, Holding(w), NEW r \in Row, Settle(w, r)
    PROVE  TypeOK'
<1>1. row' \in [Events -> Row]
    BY DEF TypeOK, Settle, Position
<1>2. (IF w \in single THEN "idle" ELSE "polling") \in {"idle", "polling"}
    OBVIOUS
<1> QED BY <1>1, <1>2, DropType DEF TypeOK, Settle

\* Every variable keeps its shape through every action of the service.
LEMMA TypeStep ==
    ASSUME TypeOK, [Next]_vars
    PROVE  TypeOK'
<1> USE OutboxAssumption
<1>1. ASSUME Tick PROVE TypeOK'
    BY <1>1 DEF TypeOK, Tick, workerVars, Position, Holding
<1>2. ASSUME NEW e \in Events, Enqueue(e) PROVE TypeOK'
    <2>1. PICK at \in {now, now + 1} :
              row' = [row EXCEPT ![e] = [status |-> "pending", attempts |-> 0, lockedAt |-> NoLease,
                                         availableAt |-> at, createdAt |-> now]]
        BY <1>2 DEF Enqueue
    <2>2. now \in Nat /\ at \in Nat
        BY DEF TypeOK
    <2>3. row' \in [Events -> Row]
        <3>1. [status |-> "pending", attempts |-> 0, lockedAt |-> NoLease,
               availableAt |-> at, createdAt |-> now] \in Row
            BY <2>2 DEF Row, Status, NoLease
        <3> QED BY <2>1, <3>1 DEF TypeOK
    <2> QED BY <1>2, <2>3 DEF TypeOK, Enqueue, workerVars, Position, Holding
<1>3. ASSUME NEW w \in Workers, BeginBatch(w) PROVE TypeOK'
    <2>1. row' \in [Events -> Row]
        BY <1>3 DEF TypeOK, BeginBatch, Row, Status, NoLease
    <2> QED BY <1>3, <2>1, DropType DEF TypeOK, BeginBatch
<1>4. ASSUME NEW w \in Workers, LeaveBatch(w) PROVE TypeOK'
    BY <1>4, DropType DEF TypeOK, LeaveBatch
<1>5. ASSUME NEW w \in Workers, OpenClaim(w) PROVE TypeOK'
    <2>1. pc' \in [Workers -> PC] /\ lease' \in [Workers -> Nat]
        BY <1>5 DEF TypeOK, OpenClaim, PC
    <2>2. ASSUME NEW v \in Workers PROVE Position(v)'
        BY <1>5, <2>2 DEF TypeOK, OpenClaim, Position, Holding
    <2> QED BY <1>5, <2>1, <2>2 DEF TypeOK, OpenClaim
<1>6. ASSUME NEW w \in Workers, NEW e \in Events, BeginSingle(w, e) PROVE TypeOK'
    <2>1. /\ pc' \in [Workers -> PC] /\ lease' \in [Workers -> Nat]
          /\ target' \in [Workers -> Events \cup {None}] /\ single' \in SUBSET Workers
        BY <1>6 DEF TypeOK, BeginSingle, PC
    <2>2. ASSUME NEW v \in Workers PROVE Position(v)'
        BY <1>6, <2>2 DEF TypeOK, BeginSingle, Position, Holding
    <2> QED BY <1>6, <2>1, <2>2 DEF TypeOK, BeginSingle
<1>7. ASSUME NEW w \in Workers, Claim(w) PROVE TypeOK'
    <2>1. ASSUME NEW e \in Events, Take(w, e) PROVE TypeOK'
        <3>1. row' \in [Events -> Row]
            BY <2>1 DEF TypeOK, Take, Row, Status
        <3>2. /\ pc' \in [Workers -> PC]
              /\ target' \in [Workers -> Events \cup {None}]
              /\ seen' \in [Workers -> Nat] /\ since' \in [Workers -> Nat]
            BY <2>1 DEF TypeOK, Take, Row, PC
        <3>3. ASSUME NEW v \in Workers PROVE Position(v)'
            BY <2>1, <3>3 DEF TypeOK, Take, Position, Holding
        <3> QED BY <2>1, <3>1, <3>2, <3>3 DEF TypeOK, Take
    <2>2. ASSUME ClaimNothing(w) \/ ClaimByIdMisses(w) PROVE TypeOK'
        <3>1. Drop(w, "idle") /\ UNCHANGED <<now, row, detached, delivered, faults>>
            BY <2>2 DEF ClaimNothing, ClaimByIdMisses
        <3> QED BY <3>1, DropType DEF TypeOK
    <2>3. CASE ClaimNext(w)
        BY <2>1, <2>3 DEF ClaimNext
    <2>4. CASE ClaimById(w)
        BY <2>1, <2>4 DEF ClaimById, TypeOK, Position
    <2> QED BY <1>7, <2>2, <2>3, <2>4 DEF Claim
<1>8. ASSUME NEW w \in Workers, HandlerSettles(w) PROVE TypeOK'
    <2>1. pc' \in [Workers -> PC] /\ delivered' \in SUBSET Events
        BY <1>8 DEF TypeOK, HandlerSettles, Position, Holding, PC
    <2>2. ASSUME NEW v \in Workers PROVE Position(v)'
        BY <1>8, <2>2 DEF TypeOK, HandlerSettles, Position, Holding
    <2> QED BY <1>8, <2>1, <2>2 DEF TypeOK, HandlerSettles
<1>9. ASSUME NEW w \in Workers, HandlerTimesOut(w) PROVE TypeOK'
    <2>1. pc' \in [Workers -> PC] /\ detached' \in SUBSET (Workers \X Events)
        BY <1>9 DEF TypeOK, HandlerTimesOut, Position, Holding, PC
    <2>2. ASSUME NEW v \in Workers PROVE Position(v)'
        BY <1>9, <2>2 DEF TypeOK, HandlerTimesOut, Position, Holding
    <2> QED BY <1>9, <2>1, <2>2 DEF TypeOK, HandlerTimesOut
<1>10. ASSUME NEW w \in Workers, NEW e \in Events, DetachedEnds(w, e) PROVE TypeOK'
    BY <1>10 DEF TypeOK, DetachedEnds, workerVars, Position, Holding
<1>11. ASSUME NEW w \in Workers, Finish(w) PROVE TypeOK'
    <2> DEFINE r == row[target[w]]
    <2>1. Holding(w) /\ r \in Row /\ NextAttempts(w) \in Nat /\ now \in Nat
        BY <1>11 DEF Finish, NoHandler, Complete, Fail, RecordTimeout, Holding, Position, TypeOK,
                     NextAttempts
    <2>2. Completed(w) \in Row /\ DeadLetter(w) \in Row
        BY <2>1 DEF Completed, DeadLetter, Row, Status, NoLease
    <2>3. ASSUME ~ IsDead(w) PROVE Retry(w) \in Row
        <3>1. NextAttempts(w) \in 1 .. MaxAttempts
            BY <2>1, <2>3 DEF IsDead, NextAttempts, TypeOK
        <3>2. Backoff[NextAttempts(w)] \in Nat
            BY <3>1
        <3>3. now + Backoff[NextAttempts(w)] \in Nat
            BY <2>1, <3>2
        <3> HIDE DEF r
        <3> QED BY <2>1, <3>3 DEF Retry, Row, Status, NoLease, r
    <2>4. /\ [r EXCEPT !.status = "dead_letter", !.lockedAt = NoLease] \in Row
          /\ [r EXCEPT !.attempts = NextAttempts(w), !.lockedAt = now] \in Row
        BY <2>1 DEF Row, Status, NoLease
    <2>5. CASE NoHandler(w)
        BY <2>1, <2>4, <2>5, SettleType DEF NoHandler
    <2>6. CASE Complete(w)
        BY <2>1, <2>2, <2>6, SettleType DEF Complete
    <2>7. CASE Fail(w)
        <3> DEFINE next == IF IsDead(w) THEN DeadLetter(w) ELSE Retry(w)
        <3>1. next \in Row
            BY <2>2, <2>3
        <3>2. Settle(w, next)
            BY <2>7 DEF Fail
        <3> HIDE DEF next
        <3> QED BY <2>1, <3>1, <3>2, SettleType
    <2>8. CASE RecordTimeout(w)
        BY <2>1, <2>2, <2>4, <2>8, SettleType DEF RecordTimeout
    <2> QED BY <1>11, <2>5, <2>6, <2>7, <2>8 DEF Finish
<1>12. ASSUME NEW w \in Workers, Fault(w) PROVE TypeOK'
    <2>1. CASE CompleteFails(w)
        <3>1. pc' \in [Workers -> PC] /\ faults' \in 0 .. MaxFaults
            BY <2>1 DEF TypeOK, CompleteFails, PC
        <3>2. ASSUME NEW v \in Workers PROVE Position(v)'
            BY <2>1, <3>2 DEF TypeOK, CompleteFails, Position, Holding
        <3> QED BY <2>1, <3>1, <3>2 DEF TypeOK, CompleteFails
    <2>2. CASE SettleFails(w)
        <3>1. Drop(w, "idle") /\ faults' \in 0 .. MaxFaults
            BY <2>2 DEF TypeOK, SettleFails
        <3> QED BY <2>2, <3>1, DropType DEF TypeOK, SettleFails
    <2>3. CASE Crash(w)
        <3>1. Drop(w, "idle") /\ faults' \in 0 .. MaxFaults
            BY <2>3 DEF TypeOK, Crash
        <3>2. detached' \in SUBSET (Workers \X Events)
            BY <2>3 DEF TypeOK, Crash
        <3> QED BY <2>3, <3>1, <3>2, DropType DEF TypeOK, Crash
    <2> QED BY <1>12, <2>1, <2>2, <2>3 DEF Fault
<1>13. ASSUME UNCHANGED vars PROVE TypeOK'
    BY <1>13 DEF TypeOK, vars, workerVars, Position, Holding
<1> QED
    BY <1>1, <1>2, <1>3, <1>4, <1>5, <1>6, <1>7, <1>8, <1>9, <1>10, <1>11, <1>12, <1>13 DEF Next

\* The table and the workers' copies keep their shape in every reachable state.
THEOREM TypeCorrect == Spec => []TypeOK
<1>1. Init => TypeOK
    BY OutboxAssumption DEF Init, TypeOK, Row, Status, NoLease, Position, Holding, PC
<1> QED BY <1>1, TypeStep, PTL DEF Spec

-----------------------------------------------------------------------------
(* Leases are exclusive. The strengthening relates the clock to the lease:  *)
(* a claim commits within ClaimDelay of its lease, and a lease that no      *)
(* longer stands is at least StuckThreshold old, since only the reaper      *)
(* takes a row from a worker that has not let go of it.                     *)

Timely(w) ==
    /\ pc[w] = "claiming" => lease[w] <= now /\ now <= lease[w] + ClaimDelay
    /\ Holding(w) => lease[w] <= now /\ (LeaseHeld(w) \/ lease[w] + StuckThreshold <= now)

Apart(v, w) ==
    v # w /\ Holding(v) /\ Holding(w) /\ target[v] = target[w] => lease[v] # lease[w]

Fresh(w) == Holding(w) /\ LeaseHeld(w) => seen[w] = row[target[w]].attempts

LeaseInv ==
    /\ \A w \in Workers : Timely(w) /\ Fresh(w)
    /\ \A v, w \in Workers : Apart(v, w)

\* A worker that settles and whose lease stands is the only one whose lease
\* does: what it writes, even a fresh lock time, revives no other lease.
LEMMA SettleLease ==
    ASSUME TypeOK, LeaseInv, NEW w \in Workers, Holding(w), NEW r \in Row, Settle(w, r),
           r.status = "processing" => r.lockedAt = now
    PROVE  LeaseInv'
<1> USE OutboxAssumption
<1>1. ASSUME NEW v \in Workers, v # w
      PROVE  Timely(v)' /\ Fresh(v)'
    <2>1. /\ pc'[v] = pc[v] /\ target'[v] = target[v] /\ lease'[v] = lease[v]
          /\ seen'[v] = seen[v] /\ now' = now
        BY <1>1 DEF Settle, Drop, TypeOK
    <2>2. Timely(v) /\ Fresh(v) /\ Apart(v, w)
        BY DEF LeaseInv
    <2>3. now \in Nat /\ lease[v] \in Nat /\ (Holding(v) => target[v] \in Events) /\ target[w] \in Events
        BY DEF TypeOK, Position
    <2>4. CASE ~ Holding(v)
        BY <2>1, <2>2, <2>4 DEF Timely, Fresh, Holding
    <2>5. CASE Holding(v) /\ (target[v] # target[w] \/ ~ LeaseHeld(w))
        <3>1. row'[target[v]] = row[target[v]]
            BY <2>3, <2>5 DEF Settle, TypeOK
        <3> QED BY <2>1, <2>2, <2>5, <3>1 DEF Timely, Fresh, Holding, LeaseHeld
    <2>6. CASE Holding(v) /\ target[v] = target[w] /\ LeaseHeld(w)
        <3>1. ~ LeaseHeld(v)
            BY <1>1, <2>2, <2>6 DEF Apart, LeaseHeld
        <3>2. lease[v] + StuckThreshold <= now /\ lease[v] < now
            BY <2>2, <2>3, <2>6, <3>1 DEF Timely
        <3>3. row'[target[v]] = r
            BY <2>3, <2>6 DEF Settle, TypeOK
        <3>4. ~ LeaseHeld(v)'
            BY <2>1, <2>3, <3>2, <3>3 DEF LeaseHeld
        <3> QED BY <2>1, <2>3, <2>6, <3>2, <3>4 DEF Timely, Fresh, Holding
    <2> QED BY <2>4, <2>5, <2>6
<1>2. ~ Holding(w)' /\ pc'[w] # "claiming"
    BY DEF Settle, Drop, Holding, TypeOK
<1>3. Timely(w)' /\ Fresh(w)'
    BY <1>2 DEF Timely, Fresh
<1>4. ASSUME NEW u \in Workers, NEW v \in Workers PROVE Apart(u, v)'
    <2>1. CASE u = w \/ v = w
        BY <1>2, <2>1 DEF Apart
    <2>2. CASE u # w /\ v # w
        <3>1. Apart(u, v)
            BY DEF LeaseInv
        <3> QED BY <2>2, <3>1 DEF Apart, Settle, Drop, Holding, TypeOK
    <2> QED BY <2>1, <2>2
<1> QED BY <1>1, <1>3, <1>4 DEF LeaseInv

\* A claim takes a lease younger than any lost lease on the same row.
LEMMA TakeLease ==
    ASSUME TypeOK, LeaseInv, NEW w \in Workers, NEW e \in Events, pc[w] = "claiming",
           row[e].status = "pending", Take(w, e)
    PROVE  LeaseInv'
<1> USE OutboxAssumption
<1>1. /\ pc'[w] = "running" /\ target'[w] = e /\ lease' = lease /\ now' = now
      /\ seen'[w] = row[e].attempts
      /\ row'[e].status = "processing" /\ row'[e].lockedAt = lease[w]
      /\ row'[e].attempts = row[e].attempts
    BY DEF Take, TypeOK, Row
<1>2. now \in Nat /\ \A v \in Workers : lease[v] \in Nat
    BY DEF TypeOK
<1>3. Timely(w)
    BY DEF LeaseInv
<1>4. Timely(w)' /\ Fresh(w)'
    BY <1>1, <1>2, <1>3 DEF Timely, Fresh, LeaseHeld, Holding
<1>5. ASSUME NEW v \in Workers, v # w
      PROVE  Timely(v)' /\ Fresh(v)' /\ Apart(v, w)' /\ Apart(w, v)'
    <2>1. pc'[v] = pc[v] /\ target'[v] = target[v] /\ seen'[v] = seen[v]
        BY <1>5 DEF Take, TypeOK
    <2>2. Timely(v) /\ Fresh(v)
        BY DEF LeaseInv
    <2>3. CASE ~ Holding(v)
        BY <1>1, <2>1, <2>2, <2>3 DEF Timely, Fresh, Apart, Holding
    <2>4. CASE Holding(v) /\ target[v] # e
        <3>1. row'[target[v]] = row[target[v]]
            BY <2>4 DEF Take, TypeOK, Position
        <3> QED BY <1>1, <2>1, <2>2, <2>4, <3>1 DEF Timely, Fresh, Apart, Holding, LeaseHeld
    <2>5. CASE Holding(v) /\ target[v] = e
        <3>1. lease[v] + StuckThreshold <= now
            BY <2>2, <2>5 DEF Timely, LeaseHeld
        <3>2. lease[v] # lease[w]
            BY <1>2, <1>3, <3>1 DEF Timely
        <3>3. ~ LeaseHeld(v)'
            BY <1>1, <2>1, <2>5, <3>2 DEF LeaseHeld
        <3>4. lease[v] <= now /\ pc[v] # "claiming"
            BY <2>2, <2>5 DEF Timely, Holding
        <3> QED BY <1>1, <2>1, <2>5, <3>1, <3>2, <3>3, <3>4 DEF Timely, Fresh, Apart
    <2> QED BY <2>3, <2>4, <2>5
<1>6. ASSUME NEW u \in Workers, NEW v \in Workers, u # w, v # w PROVE Apart(u, v)'
    <2>1. Apart(u, v)
        BY DEF LeaseInv
    <2> QED BY <1>6, <2>1 DEF Apart, Take, Holding, TypeOK
<1>7. Apart(w, w)'
    BY DEF Apart
<1> QED BY <1>4, <1>5, <1>6, <1>7 DEF LeaseInv

\* A worker that lets go of its copy disturbs no lease.
LEMMA DropLease ==
    ASSUME TypeOK, LeaseInv, NEW w \in Workers, NEW p \in {"idle", "polling"}, Drop(w, p),
           UNCHANGED <<now, row>>
    PROVE  LeaseInv'
<1>1. ASSUME NEW v \in Workers PROVE Timely(v)' /\ Fresh(v)'
    <2>1. Timely(v) /\ Fresh(v)
        BY DEF LeaseInv
    <2> QED BY <2>1 DEF Timely, Fresh, Holding, LeaseHeld, Drop, TypeOK
<1>2. ASSUME NEW u \in Workers, NEW v \in Workers PROVE Apart(u, v)'
    <2>1. Apart(u, v)
        BY DEF LeaseInv
    <2> QED BY <2>1 DEF Apart, Holding, Drop, TypeOK
<1> QED BY <1>1, <1>2 DEF LeaseInv

\* Nothing the service does makes two leases on one row equal, or lets a
\* standing lease disagree with the attempts of its row.
LEMMA LeaseStep ==
    ASSUME TypeOK, TypeOK', LeaseInv, [Next]_vars
    PROVE  LeaseInv'
<1> USE OutboxAssumption
<1>1. ASSUME Tick PROVE LeaseInv'
    <2>1. ASSUME NEW v \in Workers PROVE Timely(v)' /\ Fresh(v)'
        <3>1. Timely(v) /\ Fresh(v) /\ now \in Nat /\ lease[v] \in Nat
            BY DEF LeaseInv, TypeOK
        <3> QED BY <1>1, <3>1 DEF Tick, workerVars, Timely, Fresh, Holding, LeaseHeld
    <2>2. ASSUME NEW u \in Workers, NEW v \in Workers PROVE Apart(u, v)'
        BY <1>1 DEF Tick, workerVars, Apart, Holding, LeaseInv
    <2> QED BY <2>1, <2>2 DEF LeaseInv
<1>2. ASSUME NEW e \in Events, Enqueue(e) PROVE LeaseInv'
    <2>1. row[e].status = "absent" /\ row'[e].status = "pending"
          /\ \A f \in Events \ {e} : row'[f] = row[f]
        BY <1>2 DEF Enqueue, TypeOK
    <2>2. ASSUME NEW v \in Workers PROVE Timely(v)' /\ Fresh(v)'
        <3>1. Timely(v) /\ Fresh(v) /\ Position(v)
            BY DEF LeaseInv, TypeOK
        <3> QED BY <1>2, <2>1, <3>1 DEF Enqueue, workerVars, Timely, Fresh, Holding, LeaseHeld, Position
    <2>3. ASSUME NEW u \in Workers, NEW v \in Workers PROVE Apart(u, v)'
        BY <1>2 DEF Enqueue, workerVars, Apart, Holding, LeaseInv
    <2> QED BY <2>2, <2>3 DEF LeaseInv
<1>3. ASSUME NEW w \in Workers, BeginBatch(w) PROVE LeaseInv'
    <2>1. ASSUME NEW v \in Workers PROVE Timely(v)' /\ Fresh(v)'
        <3>1. Timely(v) /\ Fresh(v) /\ Position(v)
            BY DEF LeaseInv, TypeOK
        <3>2. ~ Holding(w)' /\ pc'[w] # "claiming" /\ now' = now
            BY <1>3 DEF BeginBatch, Drop, Holding, TypeOK
        <3>3. CASE v = w
            BY <3>2, <3>3 DEF Timely, Fresh
        <3>4. CASE v # w /\ ~ Holding(v)
            BY <1>3, <3>1, <3>4 DEF BeginBatch, Drop, Timely, Fresh, Holding, TypeOK
        <3>5. CASE v # w /\ Holding(v)
            <4>1. /\ pc'[v] = pc[v] /\ target'[v] = target[v] /\ lease'[v] = lease[v]
                  /\ seen'[v] = seen[v] /\ target[v] \in Events
                BY <1>3, <3>1, <3>5 DEF BeginBatch, Drop, TypeOK, Position
            <4>2. CASE Stuck(target[v])
                <5>1. row'[target[v]].status = "pending"
                    BY <1>3, <4>1, <4>2 DEF BeginBatch, TypeOK, Row
                <5>2. now \in Nat /\ StuckThreshold \in Nat /\ lease[v] \in Nat
                    BY DEF TypeOK
                <5>3. LeaseHeld(v) => lease[v] + StuckThreshold <= now
                    BY <4>2, <5>2 DEF Stuck, LeaseHeld
                <5> QED BY <3>1, <3>2, <3>5, <4>1, <5>1, <5>3 DEF Timely, Fresh, Holding, LeaseHeld
            <4>3. CASE ~ Stuck(target[v])
                <5>1. row'[target[v]] = row[target[v]]
                    BY <1>3, <4>1, <4>3 DEF BeginBatch
                <5> QED BY <3>1, <3>2, <3>5, <4>1, <5>1 DEF Timely, Fresh, Holding, LeaseHeld
            <4> QED BY <4>2, <4>3
        <3> QED BY <3>3, <3>4, <3>5
    <2>2. ASSUME NEW u \in Workers, NEW v \in Workers PROVE Apart(u, v)'
        BY <1>3 DEF BeginBatch, Drop, Apart, Holding, LeaseInv, TypeOK
    <2> QED BY <2>1, <2>2 DEF LeaseInv
<1>4. ASSUME NEW w \in Workers, LeaveBatch(w) PROVE LeaseInv'
    BY <1>4, DropLease DEF LeaveBatch
<1>5. ASSUME NEW w \in Workers, OpenClaim(w) \/ \E e \in Events : BeginSingle(w, e) PROVE LeaseInv'
    <2>1. /\ pc' = [pc EXCEPT ![w] = "claiming"] /\ lease' = [lease EXCEPT ![w] = now]
          /\ ~ Holding(w) /\ UNCHANGED <<now, row, seen>>
          /\ \A v \in Workers \ {w} : target'[v] = target[v]
        BY <1>5 DEF OpenClaim, BeginSingle, Holding, TypeOK
    <2>2. ASSUME NEW v \in Workers PROVE Timely(v)' /\ Fresh(v)'
        <3>1. Timely(v) /\ Fresh(v) /\ now \in Nat
            BY DEF LeaseInv, TypeOK
        <3> QED BY <2>1, <3>1 DEF Timely, Fresh, Holding, LeaseHeld, TypeOK
    <2>3. ASSUME NEW u \in Workers, NEW v \in Workers PROVE Apart(u, v)'
        BY <2>1 DEF Apart, Holding, LeaseInv, TypeOK
    <2> QED BY <2>2, <2>3 DEF LeaseInv
<1>6. ASSUME NEW w \in Workers, Claim(w) PROVE LeaseInv'
    BY <1>6, TakeLease, DropLease
       DEF Claim, ClaimNext, ClaimNothing, ClaimById, ClaimByIdMisses, Due, TypeOK, Position
<1>7. ASSUME NEW w \in Workers, HandlerSettles(w) \/ HandlerTimesOut(w) \/ CompleteFails(w)
      PROVE  LeaseInv'
    <2>1. /\ UNCHANGED <<now, row, target, lease, seen>>
          /\ Holding(w) /\ \E p \in {"succeeded", "failed", "timedout"} : pc' = [pc EXCEPT ![w] = p]
        BY <1>7 DEF HandlerSettles, HandlerTimesOut, CompleteFails, Holding
    <2>2. \A v \in Workers : /\ Holding(v)' = Holding(v)
                             /\ pc'[v] = "claiming" => pc[v] = "claiming"
        BY <2>1 DEF Holding, TypeOK
    <2> QED BY <2>1, <2>2 DEF LeaseInv, Timely, Fresh, Apart, LeaseHeld
<1>8. ASSUME NEW w \in Workers, Finish(w) PROVE LeaseInv'
    <2> DEFINE r == row[target[w]]
    <2>1. Holding(w) /\ r \in Row /\ NextAttempts(w) \in Nat /\ now \in Nat
        BY <1>8 DEF Finish, NoHandler, Complete, Fail, RecordTimeout, Holding, Position, TypeOK,
                    NextAttempts
    <2>2. CASE NoHandler(w)
        <3>1. /\ [r EXCEPT !.status = "dead_letter", !.lockedAt = NoLease] \in Row
              /\ [r EXCEPT !.status = "dead_letter", !.lockedAt = NoLease].status # "processing"
            BY <2>1 DEF Row, Status, NoLease
        <3> QED BY <2>1, <2>2, <3>1, SettleLease DEF NoHandler
    <2>3. /\ Completed(w) \in Row /\ DeadLetter(w) \in Row
          /\ Completed(w).status # "processing" /\ DeadLetter(w).status # "processing"
        BY <2>1 DEF Completed, DeadLetter, Row, Status, NoLease
    <2>4. CASE Complete(w)
        BY <2>1, <2>3, <2>4, SettleLease DEF Complete
    <2>5. ASSUME ~ IsDead(w) PROVE Retry(w) \in Row /\ Retry(w).status # "processing"
        <3>1. NextAttempts(w) \in 1 .. MaxAttempts
            BY <2>1, <2>5 DEF IsDead, NextAttempts, TypeOK
        <3>2. now + Backoff[NextAttempts(w)] \in Nat
            BY <2>1, <3>1
        <3> HIDE DEF r
        <3> QED BY <2>1, <3>2 DEF Retry, Row, Status, NoLease, r
    <2>6. CASE Fail(w)
        <3> DEFINE next == IF IsDead(w) THEN DeadLetter(w) ELSE Retry(w)
        <3>1. next \in Row /\ next.status # "processing"
            BY <2>3, <2>5
        <3>2. Settle(w, next)
            BY <2>6 DEF Fail
        <3> HIDE DEF next
        <3> QED BY <2>1, <3>1, <3>2, SettleLease
    <2>7. CASE RecordTimeout(w)
        <3> DEFINE locked == [r EXCEPT !.attempts = NextAttempts(w), !.lockedAt = now]
                   next == IF IsDead(w) THEN DeadLetter(w) ELSE locked
        <3>1. locked \in Row /\ locked.lockedAt = now
            BY <2>1 DEF Row
        <3>2. next \in Row /\ (next.status = "processing" => next.lockedAt = now)
            BY <2>3, <3>1
        <3>3. Settle(w, next)
            BY <2>7 DEF RecordTimeout
        <3> HIDE DEF next
        <3> QED BY <2>1, <3>2, <3>3, SettleLease
    <2> QED BY <1>8, <2>2, <2>4, <2>6, <2>7 DEF Finish
<1>9. ASSUME NEW w \in Workers, SettleFails(w) \/ Crash(w) PROVE LeaseInv'
    BY <1>9, DropLease DEF SettleFails, Crash
<1>10. ASSUME UNCHANGED vars \/ \E w \in Workers, e \in Events : DetachedEnds(w, e) PROVE LeaseInv'
    <2>1. UNCHANGED <<now, row, pc, target, lease, seen>>
        BY <1>10 DEF vars, workerVars, DetachedEnds
    <2> QED BY <2>1 DEF LeaseInv, Timely, Fresh, Apart, Holding, LeaseHeld
<1> QED
    BY <1>1, <1>2, <1>3, <1>4, <1>5, <1>6, <1>7, <1>8, <1>9, <1>10 DEF Next, Fault

\* No two workers ever hold one row under the same lease: the compare-and-set
\* of runHandler can succeed for one of them at most.
THEOREM LeaseExclusion == Spec => []LeasesDiffer
<1>1. Init => TypeOK /\ LeaseInv
    BY OutboxAssumption
       DEF Init, TypeOK, Row, Status, NoLease, Position, Holding, PC, LeaseInv, Timely, Fresh, Apart
<1>2. TypeOK /\ LeaseInv /\ [Next]_vars => TypeOK' /\ LeaseInv'
    BY TypeStep, LeaseStep
<1>3. LeaseInv => LeasesDiffer
    BY DEF LeaseInv, Apart, LeasesDiffer
<1> QED BY <1>1, <1>2, <1>3, PTL DEF Spec

\* The copy from which a worker with a standing lease counts is up to date.
THEOREM FreshCopies == Spec => []CopyIsFresh
<1>1. Init => TypeOK /\ LeaseInv
    BY OutboxAssumption
       DEF Init, TypeOK, Row, Status, NoLease, Position, Holding, PC, LeaseInv, Timely, Fresh, Apart
<1>2. TypeOK /\ LeaseInv /\ [Next]_vars => TypeOK' /\ LeaseInv'
    BY TypeStep, LeaseStep
<1>3. LeaseInv => CopyIsFresh
    BY DEF LeaseInv, Fresh, CopyIsFresh
<1> QED BY <1>1, <1>2, <1>3, PTL DEF Spec

-----------------------------------------------------------------------------
(* The verdicts: they are final and deserved, and Outbox implements         *)
(* Delivery. A worker that settles a row counts from an up-to-date copy.    *)

\* What a step may do to one row.
Claimed(e) ==
    row[e].status = "pending" /\ row'[e].status = "processing" /\ row'[e].attempts = row[e].attempts
Reaped(e) ==
    row[e].status = "processing" /\ row'[e].status = "pending" /\ row'[e].attempts = row[e].attempts
Enqueued(e) ==
    row[e].status = "absent" /\ row'[e].status = "pending" /\ row'[e].attempts = 0
Acknowledged(e) ==
    /\ row[e].status = "processing" /\ row'[e].status = "completed"
    /\ \E w \in Workers : pc[w] = "succeeded" /\ target[w] = e
GivenUp(e) ==
    /\ row[e].status = "processing" /\ row'[e].status = "dead_letter"
    /\ \/ e \notin Handled
       \/ row'[e].attempts = row[e].attempts + 1 /\ row'[e].attempts >= MaxAttempts
Counted(e) ==
    /\ row[e].status = "processing" /\ row'[e].status \in {"pending", "processing"}
    /\ row'[e].attempts = row[e].attempts + 1 /\ row'[e].attempts < MaxAttempts

Moved(e) == \/ row'[e] = row[e]
            \/ Enqueued(e) \/ Claimed(e) \/ Reaped(e)
            \/ Acknowledged(e) \/ GivenUp(e) \/ Counted(e)

\* Settling changes the row of the worker alone, and only under its lease.
LEMMA SettleMoves ==
    ASSUME TypeOK, LeaseInv, NEW w \in Workers, Finish(w)
    PROVE  /\ target[w] \in Events /\ Holding(w)
           /\ \A e \in Events \ {target[w]} : row'[e] = row[e]
           /\ \/ row' = row
              \/ Acknowledged(target[w]) \/ GivenUp(target[w]) \/ Counted(target[w])
<1> DEFINE e == target[w]
<1>1. Holding(w) /\ e \in Events /\ row[e] \in Row /\ now \in Nat /\ seen[w] \in Nat
    BY DEF Finish, NoHandler, Complete, Fail, RecordTimeout, Holding, Position, TypeOK
<1>2. \E r : Settle(w, r)
    <2>1. CASE NoHandler(w)
        BY <2>1 DEF NoHandler
    <2>2. CASE Complete(w)
        BY <2>2 DEF Complete
    <2>3. CASE Fail(w)
        BY <2>3 DEF Fail
    <2>4. CASE RecordTimeout(w)
        BY <2>4 DEF RecordTimeout
    <2> QED BY <2>1, <2>2, <2>3, <2>4 DEF Finish
<1>3. \A f \in Events \ {e} : row'[f] = row[f]
    BY <1>1, <1>2 DEF Settle, TypeOK
<1>4. CASE ~ LeaseHeld(w)
    BY <1>1, <1>2, <1>3, <1>4 DEF Settle
<1>5. CASE LeaseHeld(w)
    <2>1. row[e].status = "processing" /\ seen[w] = row[e].attempts
        BY <1>1, <1>5 DEF LeaseInv, Fresh, LeaseHeld
    <2>2. \A s : Settle(w, s) => row'[e] = s
        BY <1>1, <1>5 DEF Settle, TypeOK
    <2>3. CASE NoHandler(w)
        <3>1. row'[e] = [row[e] EXCEPT !.status = "dead_letter", !.lockedAt = NoLease]
            BY <2>2, <2>3 DEF NoHandler
        <3>2. row'[e].status = "dead_letter"
            BY <1>1, <3>1 DEF Row
        <3>3. e \notin Handled
            BY <2>3 DEF NoHandler
        <3>4. GivenUp(e)
            BY <2>1, <3>2, <3>3 DEF GivenUp
        <3> QED BY <1>1, <1>3, <3>4
    <2>4. CASE Complete(w)
        <3>1. row'[e] = Completed(w)
            BY <2>2, <2>4 DEF Complete
        <3>2. Acknowledged(e)
            BY <1>1, <2>1, <2>4, <3>1 DEF Acknowledged, Complete, Completed, Row
        <3> QED BY <1>1, <1>3, <3>2
    <2>5. ASSUME IsDead(w), row'[e] = DeadLetter(w) PROVE GivenUp(e)
        BY <1>1, <2>1, <2>5, OutboxAssumption DEF GivenUp, DeadLetter, IsDead, NextAttempts, Row
    <2>6. ASSUME ~ IsDead(w),
                 \/ row'[e] = Retry(w)
                 \/ row'[e] = [row[e] EXCEPT !.attempts = NextAttempts(w), !.lockedAt = now]
          PROVE  Counted(e)
        <3>1. row'[e].attempts = seen[w] + 1 /\ row'[e].status \in {"pending", "processing"}
            BY <1>1, <2>1, <2>6 DEF Retry, NextAttempts, Row
        <3>2. seen[w] + 1 < MaxAttempts
            BY <1>1, <2>6, OutboxAssumption DEF IsDead, NextAttempts
        <3> QED BY <2>1, <3>1, <3>2 DEF Counted
    <2>7. CASE Fail(w)
        BY <1>1, <1>3, <2>2, <2>5, <2>6, <2>7 DEF Fail
    <2>8. CASE RecordTimeout(w)
        BY <1>1, <1>3, <2>2, <2>5, <2>6, <2>8 DEF RecordTimeout
    <2> QED BY <2>3, <2>4, <2>7, <2>8 DEF Finish
<1> QED BY <1>4, <1>5

\* A claim moves the claimed row alone.
LEMMA ClaimMoves ==
    ASSUME TypeOK, NEW w \in Workers, Claim(w)
    PROVE  \/ UNCHANGED <<row, delivered>> /\ Drop(w, "idle")
           \/ \E e \in Events : /\ Take(w, e) /\ Claimed(e)
                                /\ \A f \in Events \ {e} : row'[f] = row[f]
<1>1. CASE ClaimNothing(w) \/ ClaimByIdMisses(w)
    BY <1>1 DEF ClaimNothing, ClaimByIdMisses
<1>2. ASSUME NEW e \in Events, Take(w, e), row[e].status = "pending"
      PROVE  Claimed(e) /\ \A f \in Events \ {e} : row'[f] = row[f]
    BY <1>2 DEF Take, Claimed, TypeOK, Row
<1>3. CASE ClaimNext(w)
    BY <1>2, <1>3 DEF ClaimNext, Due
<1>4. CASE ClaimById(w)
    <2>1. target[w] \in Events
        BY <1>4 DEF ClaimById, TypeOK, Position
    <2> QED BY <1>2, <1>4, <2>1 DEF ClaimById, Due
<1> QED BY <1>1, <1>3, <1>4 DEF Claim

\* The steps that leave the table alone.
Aside(w) ==
    \/ LeaveBatch(w) \/ OpenClaim(w) \/ (\E e \in Events : BeginSingle(w, e))
    \/ HandlerSettles(w) \/ HandlerTimesOut(w) \/ (\E e \in Events : DetachedEnds(w, e))
    \/ Fault(w)

\* The steps aside touch no row.
LEMMA AsideMoves == ASSUME NEW w \in Workers, Aside(w) PROVE row' = row
BY DEF Aside, LeaveBatch, OpenClaim, BeginSingle, HandlerSettles, HandlerTimesOut, DetachedEnds,
       Fault, CompleteFails, SettleFails, Crash

\* What an enqueue does to the rows.
LEMMA EnqueueMoves ==
    ASSUME TypeOK, NEW e \in Events, Enqueue(e)
    PROVE  Enqueued(e) /\ \A f \in Events \ {e} : row'[f] = row[f]
BY DEF Enqueue, Enqueued, TypeOK

\* What the reaper does to the rows.
LEMMA ReapMoves ==
    ASSUME TypeOK, NEW w \in Workers, BeginBatch(w), NEW e \in Events
    PROVE  row'[e] = row[e] \/ Reaped(e)
BY DEF BeginBatch, Reaped, Stuck, TypeOK, Row

\* Every step is one of these.
LEMMA Steps ==
    ASSUME [Next]_vars
    PROVE  \/ Tick \/ UNCHANGED vars
           \/ \E e \in Events : Enqueue(e)
           \/ \E w \in Workers : BeginBatch(w) \/ Claim(w) \/ Finish(w) \/ Aside(w)
BY DEF Next, Aside

\* How a step may change a row.
LEMMA RowMoves ==
    ASSUME TypeOK, LeaseInv, [Next]_vars, NEW e \in Events
    PROVE  Moved(e)
<1>1. CASE Tick \/ UNCHANGED vars
    BY <1>1 DEF Tick, vars, Moved
<1>2. ASSUME NEW f \in Events, Enqueue(f) PROVE Moved(e)
    BY <1>2, EnqueueMoves DEF Moved
<1>3. ASSUME NEW w \in Workers, BeginBatch(w) PROVE Moved(e)
    BY <1>3, ReapMoves DEF Moved
<1>4. ASSUME NEW w \in Workers, Claim(w) PROVE Moved(e)
    BY <1>4, ClaimMoves DEF Moved
<1>5. ASSUME NEW w \in Workers, Finish(w) PROVE Moved(e)
    BY <1>5, SettleMoves DEF Moved
<1>6. ASSUME NEW w \in Workers, Aside(w) PROVE Moved(e)
    BY <1>6, AsideMoves DEF Moved
<1> QED BY <1>1, <1>2, <1>3, <1>4, <1>5, <1>6, Steps

-----------------------------------------------------------------------------
(* Verdicts are final and deserved.                                         *)

\* A worker that reports a success has delivered the row.
Earned == \A w \in Workers : pc[w] = "succeeded" => target[w] \in delivered

VerdictInv == Earned /\ CompletedWasDelivered /\ DeadLetterIsExhausted

\* No step takes a delivery back.
LEMMA DeliveredGrows == ASSUME [Next]_vars PROVE delivered \subseteq delivered'
<1>1. ASSUME NEW w \in Workers, Claim(w) PROVE delivered' = delivered
    BY <1>1 DEF Claim, ClaimNext, ClaimNothing, ClaimById, ClaimByIdMisses, Take
<1>2. ASSUME NEW w \in Workers, Finish(w) PROVE delivered' = delivered
    BY <1>2 DEF Finish, NoHandler, Complete, Fail, RecordTimeout, Settle
<1>3. ASSUME NEW w \in Workers, Aside(w) PROVE delivered \subseteq delivered'
    BY <1>3 DEF Aside, LeaveBatch, OpenClaim, BeginSingle, HandlerSettles, HandlerTimesOut,
                DetachedEnds, Fault, CompleteFails, SettleFails, Crash
<1>4. ASSUME NEW w \in Workers, BeginBatch(w) PROVE delivered' = delivered
    BY <1>4 DEF BeginBatch
<1>5. ASSUME NEW e \in Events, Enqueue(e) PROVE delivered' = delivered
    BY <1>5 DEF Enqueue
<1>6. CASE Tick \/ UNCHANGED vars
    BY <1>6 DEF Tick, vars
<1> QED BY <1>1, <1>2, <1>3, <1>4, <1>5, <1>6, Steps

\* Only HandlerSettles brings a worker to report a success.
LEMMA EarnedStep == ASSUME TypeOK, Earned, [Next]_vars PROVE Earned'
<1>1. SUFFICES ASSUME NEW v \in Workers, pc'[v] = "succeeded"
               PROVE  target'[v] \in delivered'
    BY DEF Earned
<1>2. ASSUME pc[v] = "succeeded", target'[v] = target[v] PROVE target'[v] \in delivered'
    BY <1>2, DeliveredGrows DEF Earned
<1>3. ASSUME NEW w \in Workers, NEW q \in {"idle", "polling"}, Drop(w, q)
      PROVE  target'[v] \in delivered'
    BY <1>1, <1>2, <1>3 DEF Drop, TypeOK
<1>4. ASSUME NEW w \in Workers, HandlerSettles(w) PROVE target'[v] \in delivered'
    BY <1>1, <1>2, <1>4 DEF HandlerSettles, TypeOK
<1>5. ASSUME NEW w \in Workers, OpenClaim(w) \/ \E e \in Events : BeginSingle(w, e)
      PROVE  target'[v] \in delivered'
    BY <1>1, <1>2, <1>5 DEF OpenClaim, BeginSingle, TypeOK
<1>6. ASSUME NEW w \in Workers, HandlerTimesOut(w) \/ CompleteFails(w)
      PROVE  target'[v] \in delivered'
    BY <1>1, <1>2, <1>6 DEF HandlerTimesOut, CompleteFails, TypeOK
<1>7. ASSUME NEW w \in Workers, Claim(w) PROVE target'[v] \in delivered'
    <2>1. ASSUME NEW e \in Events, Take(w, e) PROVE target'[v] \in delivered'
        BY <1>1, <1>2, <2>1 DEF Take, TypeOK
    <2> QED BY <1>3, <1>7, <2>1, ClaimMoves
<1>8. ASSUME NEW w \in Workers, Finish(w) PROVE target'[v] \in delivered'
    <2>1. Drop(w, IF w \in single THEN "idle" ELSE "polling")
        BY <1>8 DEF Finish, NoHandler, Complete, Fail, RecordTimeout, Settle
    <2> QED BY <1>3, <2>1
<1>9. ASSUME NEW w \in Workers, BeginBatch(w) \/ LeaveBatch(w) \/ SettleFails(w) \/ Crash(w)
      PROVE  target'[v] \in delivered'
    BY <1>3, <1>9 DEF BeginBatch, LeaveBatch, SettleFails, Crash
<1>10. ASSUME UNCHANGED workerVars PROVE target'[v] \in delivered'
    BY <1>1, <1>2, <1>10 DEF workerVars
<1>11. CASE \/ Tick \/ UNCHANGED vars \/ (\E e \in Events : Enqueue(e))
            \/ \E w \in Workers, e \in Events : DetachedEnds(w, e)
    BY <1>10, <1>11 DEF Tick, vars, Enqueue, DetachedEnds
<1> QED
    BY <1>4, <1>5, <1>6, <1>7, <1>8, <1>9, <1>11, Steps DEF Aside, Fault

\* Every step keeps the verdicts justified.
LEMMA VerdictStep ==
    ASSUME TypeOK, LeaseInv, VerdictInv, [Next]_vars
    PROVE  VerdictInv'
<1>1. Earned'
    BY EarnedStep DEF VerdictInv
<1>2. ASSUME NEW e \in Events, row'[e].status = "completed" PROVE e \in delivered'
    <2>1. Moved(e)
        BY RowMoves
    <2>2. e \in delivered
        BY <1>2, <2>1 DEF VerdictInv, Earned, CompletedWasDelivered, Moved, Enqueued, Claimed, Reaped,
                         Acknowledged, GivenUp, Counted
    <2> QED BY <2>2, DeliveredGrows
<1>3. ASSUME NEW e \in Handled
      PROVE  /\ row'[e].status = "dead_letter" => row'[e].attempts = MaxAttempts
             /\ row'[e].status \in {"pending", "processing"} => row'[e].attempts < MaxAttempts
    <2>1. e \in Events
        BY <1>3, OutboxAssumption
    <2>2. Moved(e) /\ row[e].attempts \in Nat /\ MaxAttempts \in Nat \ {0}
        BY <2>1, RowMoves, OutboxAssumption DEF TypeOK, Row
    <2>3. /\ row[e].status = "dead_letter" => row[e].attempts = MaxAttempts
          /\ row[e].status \in {"pending", "processing"} => row[e].attempts < MaxAttempts
        BY <1>3 DEF VerdictInv, DeadLetterIsExhausted
    <2> QED BY <1>3, <2>2, <2>3 DEF Moved, Enqueued, Claimed, Reaped, Acknowledged, GivenUp, Counted
<1> QED BY <1>1, <1>2, <1>3 DEF VerdictInv, CompletedWasDelivered, DeadLetterIsExhausted

OutboxInv == TypeOK /\ LeaseInv /\ VerdictInv

\* The outbox's invariant holds of every behaviour.
LEMMA OutboxInduction == Spec => []OutboxInv
<1>1. Init => OutboxInv
    BY OutboxAssumption
       DEF Init, OutboxInv, TypeOK, Row, Status, NoLease, Position, Holding, PC, LeaseInv, Timely,
           Fresh, Apart, VerdictInv, Earned, CompletedWasDelivered, DeadLetterIsExhausted
<1>2. OutboxInv /\ [Next]_vars => OutboxInv'
    BY TypeStep, LeaseStep, VerdictStep DEF OutboxInv
<1> QED BY <1>1, <1>2, PTL DEF Spec

\* A row is completed only when some run of its handler has succeeded, for any
\* number of rows, workers, timeouts and faults.
THEOREM CompletedIsDelivered == Spec => []CompletedWasDelivered
<1>1. OutboxInv => CompletedWasDelivered
    BY DEF OutboxInv, VerdictInv
<1> QED BY <1>1, OutboxInduction, PTL

\* A row with a handler is given up after MaxAttempts counted attempts, no
\* sooner and no later.
THEOREM DeadAfterMaxAttempts == Spec => []DeadLetterIsExhausted
<1>1. OutboxInv => DeadLetterIsExhausted
    BY DEF OutboxInv, VerdictInv
<1> QED BY <1>1, OutboxInduction, PTL

\* No worker, reaper or retry touches a row that has its verdict.
THEOREM VerdictsAreFinal == Spec => TerminalIsFinal
<1>1. OutboxInv /\ [Next]_vars
          => [\A e \in Events : row[e].status \in Terminal => row'[e] = row[e]]_vars
    <2>1. ASSUME OutboxInv, [Next]_vars, NEW e \in Events, row[e].status \in Terminal
          PROVE  row'[e] = row[e]
        BY <2>1, RowMoves DEF OutboxInv, Moved, Enqueued, Claimed, Reaped, Acknowledged, GivenUp,
                              Counted, Terminal
    <2> QED BY <2>1
<1> QED BY <1>1, OutboxInduction, PTL DEF Spec, TerminalIsFinal

-----------------------------------------------------------------------------
(* Outbox implements Delivery.                                              *)

\* Only rows that exist are handled.
Known ==
    /\ \A w \in Workers : Holding(w) => row[target[w]].status # "absent"
    /\ \A d \in detached : row[d[2]].status # "absent"

\* A row that exists does not cease to.
LEMMA RowsStay ==
    ASSUME TypeOK, LeaseInv, [Next]_vars, NEW e \in Events, row[e].status # "absent"
    PROVE  row'[e].status # "absent"
<1>1. Moved(e)
    BY RowMoves
<1> QED BY <1>1 DEF Moved, Enqueued, Claimed, Reaped, Acknowledged, GivenUp, Counted

\* A worker comes to hold a row by a claim, and keeps it until it lets go.
LEMMA HoldingMoves ==
    ASSUME TypeOK, [Next]_vars, NEW v \in Workers, Holding(v)'
    PROVE  \/ Holding(v) /\ target'[v] = target[v]
           \/ \E e \in Events : target'[v] = e /\ row'[e].status = "processing"
<1>1. ASSUME NEW w \in Workers, NEW q \in {"idle", "polling"}, Drop(w, q)
      PROVE  Holding(v) /\ target'[v] = target[v]
    BY <1>1 DEF Drop, TypeOK, Holding
<1>2. ASSUME NEW w \in Workers, HandlerSettles(w) \/ HandlerTimesOut(w) \/ CompleteFails(w)
      PROVE  Holding(v) /\ target'[v] = target[v]
    BY <1>2 DEF HandlerSettles, HandlerTimesOut, CompleteFails, Holding, TypeOK
<1>3. ASSUME NEW w \in Workers, OpenClaim(w) \/ \E e \in Events : BeginSingle(w, e)
      PROVE  Holding(v) /\ target'[v] = target[v]
    BY <1>3 DEF OpenClaim, BeginSingle, Holding, TypeOK
<1>4. CASE \E w \in Workers : Claim(w)
    <2>1. ASSUME NEW w \in Workers, NEW e \in Events, Take(w, e), Claimed(e)
          PROVE  \/ Holding(v) /\ target'[v] = target[v]
                 \/ target'[v] = e /\ row'[e].status = "processing"
        BY <2>1 DEF Take, Claimed, Holding, TypeOK
    <2> QED BY <1>1, <1>4, <2>1, ClaimMoves
<1>5. CASE \E w \in Workers : Finish(w)
    <2>1. \E w \in Workers : Drop(w, IF w \in single THEN "idle" ELSE "polling")
        BY <1>5 DEF Finish, NoHandler, Complete, Fail, RecordTimeout, Settle
    <2> QED BY <1>1, <2>1
<1>6. CASE \E w \in Workers : BeginBatch(w) \/ LeaveBatch(w) \/ SettleFails(w) \/ Crash(w)
    BY <1>1, <1>6 DEF BeginBatch, LeaveBatch, SettleFails, Crash
<1>7. ASSUME UNCHANGED workerVars PROVE Holding(v) /\ target'[v] = target[v]
    BY <1>7 DEF workerVars, Holding
<1>8. CASE \/ Tick \/ UNCHANGED vars \/ (\E e \in Events : Enqueue(e))
           \/ \E w \in Workers, e \in Events : DetachedEnds(w, e)
    BY <1>7, <1>8 DEF Tick, vars, Enqueue, DetachedEnds
<1> QED BY <1>2, <1>3, <1>4, <1>5, <1>6, <1>8, Steps DEF Aside, Fault

\* A handler is detached by its timeout alone.
LEMMA DetachedMoves ==
    ASSUME [Next]_vars, NEW d \in detached', d \notin detached
    PROVE  \E w \in Workers : Holding(w) /\ d = <<w, target[w]>>
<1>1. ASSUME NEW w \in Workers, Claim(w) PROVE detached' = detached
    BY <1>1 DEF Claim, ClaimNext, ClaimNothing, ClaimById, ClaimByIdMisses, Take
<1>2. ASSUME NEW w \in Workers, Finish(w) PROVE detached' = detached
    BY <1>2 DEF Finish, NoHandler, Complete, Fail, RecordTimeout, Settle
<1>3. ASSUME NEW w \in Workers, HandlerTimesOut(w)
      PROVE  Holding(w) /\ detached' = detached \cup {<<w, target[w]>>}
    BY <1>3 DEF HandlerTimesOut, Holding
<1>4. ASSUME NEW w \in Workers, Aside(w), ~ HandlerTimesOut(w) PROVE detached' \subseteq detached
    BY <1>4 DEF Aside, LeaveBatch, OpenClaim, BeginSingle, HandlerSettles,
                DetachedEnds, Fault, CompleteFails, SettleFails, Crash
<1>5. ASSUME NEW w \in Workers, BeginBatch(w) PROVE detached' = detached
    BY <1>5 DEF BeginBatch
<1>6. CASE Tick \/ UNCHANGED vars \/ \E e \in Events : Enqueue(e)
    BY <1>6 DEF Tick, vars, Enqueue
<1> QED BY <1>1, <1>2, <1>3, <1>4, <1>5, <1>6, Steps

\* Every step keeps what a worker knows of a success true.
LEMMA KnownStep == ASSUME TypeOK, TypeOK', LeaseInv, Known, [Next]_vars PROVE Known'
<1>1. ASSUME NEW w \in Workers, Holding(w)' PROVE row'[target'[w]].status # "absent"
    <2>1. CASE Holding(w) /\ target'[w] = target[w]
        BY <2>1, RowsStay DEF Known, TypeOK, Position
    <2> QED BY <1>1, <2>1, HoldingMoves
<1>2. ASSUME NEW d \in detached' PROVE row'[d[2]].status # "absent"
    <2>1. d[2] \in Events
        BY DEF TypeOK
    <2>2. row[d[2]].status # "absent"
        BY DetachedMoves DEF Known
    <2> QED BY <2>1, <2>2, RowsStay
<1> QED BY <1>1, <1>2 DEF Known

Verdict == [e \in Events |-> VerdictOf(row[e].status)]

\* The step of Delivery behind a step of Outbox, and how it is recognised.
LEMMA VerdictSame ==
    ASSUME \A e \in Events : VerdictOf(row'[e].status) = VerdictOf(row[e].status)
    PROVE  Verdict' = Verdict
BY DEF Verdict

\* The verdicts, when one row has changed.
LEMMA VerdictChanges ==
    ASSUME NEW e \in Events, \A f \in Events \ {e} : row'[f] = row[f]
    PROVE  Verdict' = [Verdict EXCEPT ![e] = VerdictOf(row'[e].status)]
BY DEF Verdict

\* Every step is a step of Delivery or a stutter.
LEMMA ContractStep ==
    ASSUME OutboxInv, Known, [Next]_vars
    PROVE  [Contract!Next]_<<Verdict, delivered>>
<1> USE DEF OutboxInv
<1>1. CASE Tick \/ UNCHANGED vars
    BY <1>1, VerdictSame DEF Tick, vars
<1>2. ASSUME NEW e \in Events, Enqueue(e) PROVE Contract!Accept(e)
    <2>1. Verdict' = [Verdict EXCEPT ![e] = "open"] /\ Verdict[e] = "none"
        BY <1>2, EnqueueMoves, VerdictChanges DEF Enqueued, Verdict, VerdictOf
    <2> QED BY <1>2, <2>1 DEF Contract!Accept, Enqueue, Verdict
<1>3. ASSUME NEW w \in Workers, BeginBatch(w) PROVE UNCHANGED <<Verdict, delivered>>
    <2>1. \A e \in Events : VerdictOf(row'[e].status) = VerdictOf(row[e].status)
        BY <1>3, ReapMoves DEF Reaped, VerdictOf
    <2> QED BY <1>3, <2>1, VerdictSame DEF BeginBatch
<1>4. ASSUME NEW w \in Workers, Claim(w) PROVE UNCHANGED <<Verdict, delivered>>
    <2>1. \A e \in Events : VerdictOf(row'[e].status) = VerdictOf(row[e].status)
        BY <1>4, ClaimMoves DEF Claimed, VerdictOf
    <2>2. delivered' = delivered
        BY <1>4, ClaimMoves DEF Take
    <2> QED BY <2>1, <2>2, VerdictSame
<1>5. ASSUME NEW w \in Workers, Finish(w) PROVE [Contract!Next]_<<Verdict, delivered>>
    <2> DEFINE e == target[w]
    <2>1. e \in Events /\ \A f \in Events \ {e} : row'[f] = row[f]
        BY <1>5, SettleMoves
    <2>2. delivered' = delivered
        BY <1>5 DEF Finish, NoHandler, Complete, Fail, RecordTimeout, Settle
    <2>3. Verdict[e] = VerdictOf(row[e].status)
        BY <2>1 DEF Verdict
    <2>4. CASE Acknowledged(e)
        <3>1. e \in delivered
            BY <2>4 DEF Acknowledged, VerdictInv, Earned
        <3>2. Verdict' = [Verdict EXCEPT ![e] = "acknowledged"] /\ Verdict[e] = "open"
            BY <2>1, <2>3, <2>4, VerdictChanges DEF Acknowledged, VerdictOf
        <3>3. Contract!Acknowledge(e)
            BY <2>2, <3>1, <3>2 DEF Contract!Acknowledge, Verdict
        <3> QED BY <2>1, <3>3 DEF Contract!Next
    <2>5. CASE GivenUp(e)
        <3>1. Verdict' = [Verdict EXCEPT ![e] = "given_up"] /\ Verdict[e] = "open"
            BY <2>1, <2>3, <2>5, VerdictChanges DEF GivenUp, VerdictOf
        <3>2. Contract!GiveUp(e)
            BY <2>2, <3>1 DEF Contract!GiveUp, Verdict
        <3> QED BY <2>1, <3>2 DEF Contract!Next
    <2>6. CASE row' = row \/ Counted(e)
        <3>1. \A f \in Events : VerdictOf(row'[f].status) = VerdictOf(row[f].status)
            BY <2>1, <2>6 DEF Counted, VerdictOf
        <3> QED BY <2>2, <3>1, VerdictSame
    <2> QED BY <1>5, <2>4, <2>5, <2>6, SettleMoves
<1>6. ASSUME NEW w \in Workers, Aside(w) PROVE [Contract!Next]_<<Verdict, delivered>>
    <2>1. Verdict' = Verdict
        BY <1>6, AsideMoves, VerdictSame
    <2>2. ASSUME NEW e \in Events, row[e].status # "absent", delivered' = delivered \cup {e}
          PROVE  Contract!Next
        <3>1. Verdict[e] # "none"
            <4>1. row[e].status \in Status
                BY DEF TypeOK, Row
            <4> QED BY <2>2, <4>1 DEF Verdict, VerdictOf, Status
        <3>2. Contract!Perform(e)
            BY <2>1, <2>2, <3>1 DEF Contract!Perform, Verdict
        <3> QED BY <3>2 DEF Contract!Next
    <2>3. \/ delivered' = delivered
          \/ \E e \in Events : row[e].status # "absent" /\ delivered' = delivered \cup {e}
        <3>1. CASE HandlerSettles(w)
            BY <3>1 DEF HandlerSettles, Known, Holding, TypeOK, Position
        <3>2. CASE \E e \in Events : DetachedEnds(w, e)
            BY <3>2 DEF DetachedEnds, Known
        <3> QED BY <1>6, <3>1, <3>2
                DEF Aside, LeaveBatch, OpenClaim, BeginSingle, HandlerTimesOut, Fault, CompleteFails,
                    SettleFails, Crash
    <2> QED BY <2>1, <2>2, <2>3
<1> QED
    <2>1. \A e \in Events : Contract!Accept(e) => Contract!Next
        BY DEF Contract!Next
    <2> QED BY <1>1, <1>2, <1>3, <1>4, <1>5, <1>6, <2>1, Steps

\* The outbox is an implementation of what Delivery promises: performed at least
\* once before it is acknowledged, one verdict, never taken back.
THEOREM OutboxDelivers == Spec => Delivers
<1>1. Init => Contract!Init /\ Known
    BY DEF Init, Contract!Init, VerdictOf, Known, Holding
<1>2. OutboxInv /\ OutboxInv' /\ Known /\ [Next]_vars => Known'
    BY KnownStep DEF OutboxInv
<1>3. OutboxInv /\ Known /\ [Next]_vars
          => [Contract!Next]_<<[e \in Events |-> VerdictOf(row[e].status)], delivered>>
    BY ContractStep DEF Verdict
<1> QED BY <1>1, <1>2, <1>3, OutboxInduction, PTL DEF Spec, Delivers, Contract!Spec
=============================================================================
