-------------------------- MODULE PauseResumeProofs --------------------------
(* Proofs about PauseResume: for any pause points, waits, callers and cancel *)
(* requests, and whatever dies or fails on the way.                          *)
EXTENDS PauseResume, TLAPS, FiniteSetTheorems, WellFoundedInduction

-----------------------------------------------------------------------------
(* The operators of the model.                                              *)

\* A nonempty set of naturals has a least element: the initial segments up to
\* its members are finite sets, and strict inclusion of those is well founded.
LEMMA LeastIn ==
    ASSUME NEW S \in SUBSET Nat, S # {}
    PROVE  Least(S) \in S /\ \A y \in S : Least(S) <= y
<1> DEFINE Segments == {0 .. n : n \in S}
<1>1. Segments \subseteq FiniteSubsetsOf(Nat) /\ Segments # {}
    <2>1. ASSUME NEW n \in S PROVE 0 .. n \in FiniteSubsetsOf(Nat)
        <3>1. n \in Int /\ 0 .. n \subseteq Nat
            OBVIOUS
        <3>2. IsFiniteSet(0 .. n)
            BY <3>1, FS_Interval
        <3> QED BY <3>1, <3>2 DEF FiniteSubsetsOf
    <2> QED BY <2>1
<1>2. PICK T \in Segments : \A U \in Segments : ~ (<<U, T>> \in StrictSubsetOrdering(Nat))
    <2> HIDE DEF Segments
    <2> QED BY <1>1, WFMin, FS_StrictSubsetOrderingWellFounded, Zenon
<1>3. PICK x \in S : T = 0 .. x
    OBVIOUS
<1>4. ASSUME NEW y \in S PROVE x <= y
    <2>1. SUFFICES ASSUME y < x PROVE FALSE
        OBVIOUS
    <2>2. 0 .. y \subseteq 0 .. x /\ x \notin 0 .. y /\ x \in 0 .. x
        BY <2>1
    <2>3. <<0 .. y, T>> \in StrictSubsetOrdering(Nat)
        BY <1>3, <2>2 DEF StrictSubsetOrdering
    <2> QED BY <1>2, <2>3
<1> DEFINE Lowest(z) == \A y \in S : z <= y
<1>5. Lowest(x)
    BY <1>4
<1>6. Least(S) = CHOOSE z \in S : Lowest(z)
    BY Zenon DEF Least
<1> HIDE DEF Lowest
<1>7. Least(S) \in S /\ Lowest(Least(S))
    BY <1>5, <1>6, Zenon
<1> QED BY <1>7 DEF Lowest

\* The earliest time of a set of waits is a time, or Never.
LEMMA EarliestType ==
    ASSUME NEW C, NEW t
    PROVE  Earliest(C, t) \in Nat
<1> DEFINE T == {ResumeAt[c] : c \in {d \in C \cap Timed : ResumeAt[d] > t}}
<1>1. T \in SUBSET Nat
    BY PauseAssumption
<1>2. CASE T = {}
    BY <1>2 DEF Earliest, Never
<1>3. CASE T # {}
    <2>1. Least(T) \in T
        <3> HIDE DEF T
        <3> QED BY <1>1, <1>3, LeastIn
    <2> QED BY <1>1, <1>3, <2>1 DEF Earliest
<1> QED BY <1>2, <1>3

\* The first entry of a set of entries is one of them.
LEMMA LeastEntry ==
    ASSUME NEW S \in SUBSET Ids, S # {}
    PROVE  Least(S) \in S
BY LeastIn DEF Ids

\* The points of the row can be counted.
LEMMA CountType ==
    ASSUME NEW C \in SUBSET Contexts
    PROVE  Cardinality(C) \in Nat
BY PauseAssumption, FS_Subset, FS_CardinalityType

\* The status computed from the counts is a status.
LEMMA StatusOfType ==
    ASSUME NEW n, NEW total, NEW was
    PROVE  StatusOf(n, total, was) \in Statuses
BY DEF StatusOf, Statuses

-----------------------------------------------------------------------------
(* The invariant. A process that has left the state idle has an entry with a *)
(* pause point, and what is at work holds the claim.                         *)

RunsHaveEntries == \A i \in Ids : pc[i] # "idle" => entry[i].ctx \in Contexts

WorkIsClaimed == Executing \subseteq Claimed

ClaimIsOne == \A i, j \in Claimed : i = j

TInv == TypeOK /\ RunsHaveEntries
IInv == TInv /\ WorkIsClaimed /\ ClaimIsOne

-----------------------------------------------------------------------------
(* Type correctness.                                                        *)

\* A resume that is accepted takes an unused entry for its point.
LEMMA AcceptType ==
    ASSUME TInv, NEW c \in Contexts, Accept(c), UNCHANGED <<now, ran, faults, later>>,
           due' \in SUBSET Timed, tried' \in SUBSET Contexts
    PROVE  TInv'
<1> USE PauseAssumption
<1> DEFINE i == Least(Unused)
<1>1. i \in Ids
    <2>1. Unused \in SUBSET Ids /\ Unused # {}
        BY DEF Accept, Unused
    <2> QED BY <2>1, LeastEntry
<1> HIDE DEF i
<1>2. \/ /\ entry' = [entry EXCEPT ![i] = [ctx |-> c, st |-> "pending"]]
         /\ point' = [point EXCEPT ![c] = "queued"]
         /\ UNCHANGED <<pc, base>>
      \/ /\ entry' = [entry EXCEPT ![i] = [ctx |-> c, st |-> "claimed"]]
         /\ point' = [point EXCEPT ![c] = "resuming"]
         /\ pc' = [pc EXCEPT ![i] = "starting"]
         /\ base' = [base EXCEPT ![i] = snapshot]
    BY DEF Accept, Go, i
<1>3. UNCHANGED <<status, resumedCount, snapshot, nextResumeAt>>
    BY DEF Accept
<1>4. /\ entry' \in [Ids -> [ctx : Contexts \cup {None}, st : EntryStatuses]]
      /\ \A j \in Ids : entry'[j].ctx \in Contexts \/ entry'[j] = entry[j]
    <2>1. PICK s \in {"pending", "claimed"} : entry' = [entry EXCEPT ![i] = [ctx |-> c, st |-> s]]
        BY <1>2
    <2>2. [ctx |-> c, st |-> s] \in [ctx : Contexts \cup {None}, st : EntryStatuses]
        BY DEF EntryStatuses
    <2> QED BY <1>1, <2>1, <2>2 DEF TInv, TypeOK
<1>5. point' \in [Contexts -> PointStatuses]
    BY <1>2 DEF TInv, TypeOK, PointStatuses
<1>6. pc' \in [Agents -> Phases] /\ \A j \in Ids : pc'[j] # "idle" => pc[j] # "idle" \/ j = i
    BY <1>1, <1>2 DEF TInv, TypeOK, Phases, Agents
<1>7. base' \in [Ids -> SUBSET Contexts]
    BY <1>1, <1>2 DEF TInv, TypeOK
<1>8. entry'[i].ctx \in Contexts
    BY <1>1, <1>2 DEF TInv, TypeOK
<1>9. RunsHaveEntries'
    BY <1>4, <1>6, <1>8 DEF TInv, RunsHaveEntries
<1> QED
    BY <1>3, <1>4, <1>5, <1>6, <1>7, <1>9 DEF TInv, TypeOK

\* A run that settles its own entry keeps its point.
LEMMA SettleType ==
    ASSUME TInv, NEW i \in Ids, entry[i].ctx \in Contexts, NEW s \in EntryStatuses, Settle(i, s)
    PROVE  /\ entry' \in [Ids -> [ctx : Contexts \cup {None}, st : EntryStatuses]]
           /\ \A j \in Ids : entry'[j].st = "none" \/ entry'[j].ctx \in Contexts
           /\ \A j \in Ids : entry'[j].ctx = entry[j].ctx
BY DEF Settle, TInv, TypeOK

\* Every variable keeps its range through every action.
LEMMA TypeStep ==
    ASSUME TInv, [Next]_vars
    PROVE  TInv'
<1> USE PauseAssumption DEF rowVars, pollVars, histVars
<1>1. CASE FirstPause
    <2>1. nextResumeAt' \in Nat
        BY <1>1, EarliestType DEF FirstPause
    <2> QED BY <1>1, <2>1 DEF FirstPause, TInv, TypeOK, RunsHaveEntries, Statuses, PointStatuses
<1>2. CASE Tick
    BY <1>2 DEF Tick, TInv, TypeOK, RunsHaveEntries
<1>3. CASE Poll
    <2>1. later' \in Nat \cup {Off}
        BY <1>3, EarliestType DEF Poll
    <2>2. due' \in SUBSET Timed
        BY <1>3 DEF Poll
    <2> QED BY <1>3, <2>1, <2>2 DEF Poll, TInv, TypeOK, RunsHaveEntries
<1>4. ASSUME NEW c \in Timed, Dispatch(c) PROVE TInv'
    <2>1. due' \in SUBSET Timed /\ tried' \in SUBSET Contexts /\ c \in Contexts
        BY <1>4 DEF Dispatch, TInv, TypeOK
    <2>2. UNCHANGED <<now, ran, faults, later>>
        BY <1>4 DEF Dispatch
    <2>3. CASE Accept(c)
        BY <2>1, <2>2, <2>3, AcceptType
    <2>4. CASE UNCHANGED <<status, point, resumedCount, snapshot, nextResumeAt, entry, pc, base>>
        BY <2>1, <2>2, <2>4 DEF TInv, TypeOK, RunsHaveEntries
    <2> QED BY <1>4, <2>3, <2>4 DEF Dispatch
<1>5. CASE StoreNext
    <2>1. nextResumeAt' \in Nat
        BY <1>5 DEF StoreNext, TInv, TypeOK, Never, Off
    <2> QED BY <1>5, <2>1 DEF StoreNext, TInv, TypeOK, RunsHaveEntries
<1>6. ASSUME NEW c \in Contexts, Ask(c) PROVE TInv'
    BY <1>6, AcceptType DEF Ask, TInv, TypeOK
<1>7. ASSUME NEW i \in Ids, Start(i) \/ Refused(i) \/ Fails(i) PROVE TInv'
    BY <1>7 DEF Start, Refused, Fails, Step, Go, TInv, TypeOK, RunsHaveEntries, Phases, Agents
<1>8. ASSUME NEW i \in Ids, NEW o \in {"pausing", "succeeded", "retrying"}, EndsAs(i, o)
      PROVE  TInv'
    BY <1>8 DEF EndsAs, Step, Go, Ctx, TInv, TypeOK, RunsHaveEntries, Phases, Agents
<1>9. ASSUME NEW i \in Ids, Persist(i) PROVE TInv'
    <2>1. Ctx(i) \in Contexts /\ pc' = [pc EXCEPT ![i] = "paused"]
        BY <1>9 DEF Persist, Step, Go, Ctx, TInv, RunsHaveEntries
    <2>2. PICK P \in SUBSET Follow[Ctx(i)] :
              /\ point' = [c \in Contexts |->
                              IF c \in P THEN "paused"
                              ELSE IF point[c] = "resuming" THEN "resumed" ELSE point[c]]
              /\ resumedCount' = Cardinality(Resumed(point'))
              /\ status' = StatusOf(resumedCount', Cardinality(Points(point')), status)
              /\ snapshot' = SnapshotAfter(i)
              /\ nextResumeAt' = Earliest(Points(point'), 0)
        BY <1>9 DEF Persist
    <2>3. point' \in [Contexts -> PointStatuses]
        BY <2>2 DEF TInv, TypeOK, PointStatuses
    <2>4. resumedCount' \in Nat
        BY <2>2, CountType DEF Resumed
    <2>5. status' \in Statuses /\ nextResumeAt' \in Nat
        BY <2>2, StatusOfType, EarliestType
    <2>6. snapshot' \in SUBSET Contexts
        BY <2>1, <2>2 DEF SnapshotAfter, TInv, TypeOK
    <2>7. pc' \in [Agents -> Phases] /\ RunsHaveEntries'
        BY <1>9, <2>1 DEF Persist, TInv, TypeOK, RunsHaveEntries, Step, Phases, Agents
    <2>8. UNCHANGED <<entry, base, due, later, now, ran, tried, faults>>
        BY <1>9 DEF Persist
    <2> QED
        BY <2>3, <2>4, <2>5, <2>6, <2>7, <2>8 DEF TInv, TypeOK
<1>10. ASSUME NEW i \in Ids, SaveSnapshot(i) PROVE TInv'
    BY <1>10 DEF SaveSnapshot, SnapshotAfter, Step, Go, Ctx, TInv, TypeOK, RunsHaveEntries, Phases, Agents
<1>11. ASSUME NEW i \in Ids, Complete(i) PROVE TInv'
    <2>1. status' \in Statuses
        BY <1>11, StatusOfType DEF Complete
    <2>2. entry[i].ctx \in Contexts /\ pc' = [pc EXCEPT ![i] = "draining"] /\ pc[i] # "idle"
        BY <1>11 DEF Complete, Step, Go, TInv, RunsHaveEntries
    <2>3. "completed" \in EntryStatuses /\ Settle(i, "completed")
        BY <1>11 DEF Complete, EntryStatuses
    <2>4. point' \in [Contexts -> PointStatuses]
        BY <1>11 DEF Complete, TInv, TypeOK, PointStatuses
    <2>5. resumedCount' \in Nat
        BY <1>11 DEF Complete, TInv, TypeOK
    <2>6. pc' \in [Agents -> Phases] /\ RunsHaveEntries'
        BY <2>2, <2>3, SettleType DEF TInv, TypeOK, RunsHaveEntries, Phases, Agents
    <2>7. UNCHANGED <<snapshot, nextResumeAt, base, due, later, now, ran, tried, faults>>
        BY <1>11 DEF Complete
    <2> QED BY <2>1, <2>2, <2>3, <2>4, <2>5, <2>6, <2>7, SettleType DEF TInv, TypeOK
<1>12. ASSUME NEW i \in Ids, CloseEntry(i) \/ MarkFailed(i) \/ Reopen(i) PROVE TInv'
    <2>1. PICK q \in Phases : pc' = [pc EXCEPT ![i] = q]
        BY <1>12 DEF CloseEntry, MarkFailed, Reopen, Step, Go, Phases
    <2>2. PICK s \in EntryStatuses : Settle(i, s)
        BY <1>12 DEF CloseEntry, MarkFailed, Reopen, EntryStatuses
    <2>3. entry[i].ctx \in Contexts
        BY <1>12 DEF CloseEntry, MarkFailed, Reopen, Step, TInv, RunsHaveEntries
    <2>4. point' \in [Contexts -> PointStatuses]
        BY <1>12 DEF CloseEntry, MarkFailed, Reopen, TInv, TypeOK, PointStatuses
    <2>5. pc' \in [Agents -> Phases] /\ RunsHaveEntries'
        BY <2>1, <2>2, <2>3, SettleType DEF TInv, TypeOK, RunsHaveEntries, Agents
    <2>6. UNCHANGED <<status, resumedCount, snapshot, nextResumeAt, base, due, later, now, ran, tried, faults>>
        BY <1>12 DEF CloseEntry, MarkFailed, Reopen
    <2> QED BY <2>2, <2>3, <2>4, <2>5, <2>6, SettleType DEF TInv, TypeOK
<1>13. ASSUME NEW x \in Agents, DrainStops(x) \/ AskClaims(x) \/ AskStatus(x) \/ Confirm(x)
       PROVE  TInv'
    BY <1>13
       DEF DrainStops, AskClaims, AskStatus, Confirm, Draining, Go, TInv, TypeOK, RunsHaveEntries,
           Statuses, Phases, Agents
<1>14. ASSUME NEW x \in Agents, DrainDrops(x) PROVE TInv'
    <2>1. Least(Pending) \in Ids /\ entry[Least(Pending)].st = "pending"
        BY <1>14, LeastEntry DEF DrainDrops, Pending
    <2> QED BY <1>14, <2>1 DEF DrainDrops, Settle, TInv, TypeOK, RunsHaveEntries, EntryStatuses
<1>15. ASSUME NEW x \in Agents, DrainClaims(x) PROVE TInv'
    <2> DEFINE i == Least(Pending)
    <2>1. i \in Ids /\ entry[i].st = "pending"
        BY <1>15, LeastEntry DEF DrainClaims, Pending
    <2>2. i \in Agents /\ entry[i].ctx \in Contexts /\ pc[x] # "idle"
        BY <1>15, <2>1 DEF DrainClaims, Draining, Agents, TInv, TypeOK
    <2>3. /\ entry' = [entry EXCEPT ![i].st = "claimed"]
          /\ point' = [point EXCEPT ![entry[i].ctx] = "resuming"]
          /\ pc' = [pc EXCEPT ![x] = "over", ![i] = "starting"]
          /\ base' = [base EXCEPT ![i] = snapshot]
          /\ UNCHANGED <<status, resumedCount, snapshot, nextResumeAt, due, later, now, ran, tried, faults>>
        BY <1>15 DEF DrainClaims, Settle, Ctx
    <2> HIDE DEF i
    <2>4. "claimed" \in EntryStatuses /\ Settle(i, "claimed")
        BY <2>3 DEF Settle, EntryStatuses
    <2>5. point' \in [Contexts -> PointStatuses]
        BY <2>3 DEF TInv, TypeOK, PointStatuses
    <2>6. pc' \in [Agents -> Phases]
        BY <2>2, <2>3 DEF TInv, TypeOK, Phases
    <2>7. RunsHaveEntries'
        BY <2>1, <2>2, <2>3, <2>4, SettleType DEF TInv, TypeOK, RunsHaveEntries, Agents
    <2>8. base' \in [Ids -> SUBSET Contexts]
        BY <2>1, <2>3 DEF TInv, TypeOK
    <2> QED BY <2>1, <2>2, <2>3, <2>4, <2>5, <2>6, <2>7, <2>8, SettleType DEF TInv, TypeOK
<1>16. ASSUME NEW k \in Requests, Begin(k) \/ Publish(k) \/ Mark(k) \/ Block(k) \/ Clear(k)
       PROVE  TInv'
    <2>1. k \in Agents /\ k \notin Ids
        BY DEF Agents
    <2>2. CASE Begin(k) \/ Publish(k) \/ Mark(k) \/ Clear(k)
        BY <2>1, <2>2
           DEF Begin, Publish, Mark, Clear, Resumable, Go, TInv, TypeOK, RunsHaveEntries, Statuses,
               Phases, Agents
    <2>3. CASE Block(k)
        <3>1. /\ pc' = [pc EXCEPT ![k] = "over"]
              /\ status' \in {status, "cancelling"}
              /\ \/ entry' = entry
                 \/ entry' = [i \in Ids |-> IF i \in Pending THEN [entry[i] EXCEPT !.st = "failed"]
                                            ELSE entry[i]]
              /\ UNCHANGED <<point, resumedCount, snapshot, nextResumeAt, base, due, later, now, ran,
                             tried, faults>>
            BY <2>3 DEF Block, Go
        <3>2. /\ entry' \in [Ids -> [ctx : Contexts \cup {None}, st : EntryStatuses]]
              /\ \A j \in Ids : entry'[j].st = "none" \/ entry'[j].ctx \in Contexts
              /\ \A j \in Ids : entry'[j].ctx = entry[j].ctx
            BY <3>1 DEF TInv, TypeOK, EntryStatuses, Pending
        <3>3. pc' \in [Agents -> Phases] /\ RunsHaveEntries'
            BY <2>1, <3>1, <3>2 DEF TInv, TypeOK, RunsHaveEntries, Phases, Agents
        <3>4. status' \in Statuses
            BY <3>1 DEF TInv, TypeOK, Statuses
        <3> QED BY <3>1, <3>2, <3>3, <3>4 DEF TInv, TypeOK
    <2> QED BY <1>16, <2>2, <2>3
<1>17. ASSUME NEW x \in Agents, PersistFails(x) \/ Throws(x) \/ Dies(x) PROVE TInv'
    BY <1>17
       DEF PersistFails, Throws, Dies, Fault, Go, TInv, TypeOK, RunsHaveEntries, Phases, Agents
<1>18. CASE UNCHANGED vars
    BY <1>18 DEF vars, TInv, TypeOK, RunsHaveEntries
<1> QED
    BY <1>1, <1>2, <1>3, <1>4, <1>5, <1>6, <1>7, <1>8, <1>9, <1>10, <1>11, <1>12, <1>13, <1>14,
       <1>15, <1>16, <1>17, <1>18
       DEF Next, Poller, Drives, Ends, Pauses, Succeeds, Unpublished, Cancels, Either, Agents

-----------------------------------------------------------------------------
(* One resume at a time.                                                    *)

\* What keeps the invariant: a step adds no claim, or it makes the only one;
\* and what is at work after it holds a claim.
Exclusive ==
    /\ Executing' \subseteq Claimed'
    /\ Claimed' \subseteq Claimed \/ \E i \in Ids : Claimed' \subseteq {i}

\* A resume that is accepted is claimed only when none is.
LEMMA AcceptExclusive ==
    ASSUME IInv, NEW c \in Contexts, Accept(c)
    PROVE  Exclusive
<1> DEFINE i == Least(Unused)
<1>1. i \in Ids /\ entry[i].st = "none"
    <2>1. Unused \in SUBSET Ids /\ Unused # {}
        BY DEF Accept, Unused
    <2>2. i \in Unused
        BY <2>1, LeastEntry
    <2> QED BY <2>2 DEF Unused
<1> HIDE DEF i
<1>2. CASE /\ entry' = [entry EXCEPT ![i] = [ctx |-> c, st |-> "pending"]]
           /\ pc' = pc
    <2>1. Claimed' = Claimed /\ Executing' = Executing
        BY <1>1, <1>2 DEF Claimed, Executing, IInv, TInv, TypeOK
    <2> QED BY <2>1 DEF Exclusive, IInv, WorkIsClaimed
<1>3. CASE /\ Claimed = {}
           /\ entry' = [entry EXCEPT ![i] = [ctx |-> c, st |-> "claimed"]]
           /\ pc' = [pc EXCEPT ![i] = "starting"]
    <2>1. Claimed' = {i}
        BY <1>1, <1>3 DEF Claimed, IInv, TInv, TypeOK
    <2>2. Executing' \subseteq Executing \cup {i}
        BY <1>1, <1>3 DEF Executing, IInv, TInv, TypeOK
    <2> QED BY <1>1, <1>3, <2>1, <2>2 DEF Exclusive, IInv, WorkIsClaimed
<1> QED BY <1>2, <1>3 DEF Accept, Go, i

\* A step that leaves the queue alone and starts no run.
LEMMA QuietExclusive ==
    ASSUME IInv, entry' = entry, Executing' \subseteq Executing
    PROVE  Exclusive
BY DEF Exclusive, IInv, WorkIsClaimed, Claimed

\* Every step is exclusive.
LEMMA ExclusiveStep ==
    ASSUME IInv, [Next]_vars
    PROVE  Exclusive
<1> USE PauseAssumption DEF rowVars, pollVars, histVars
<1>1. CASE FirstPause \/ Tick \/ Poll \/ StoreNext \/ UNCHANGED vars
    <2>1. entry' = entry /\ pc' = pc
        BY <1>1 DEF FirstPause, Tick, Poll, StoreNext, vars
    <2> QED BY <2>1, QuietExclusive DEF Executing
<1>2. ASSUME NEW c \in Timed, Dispatch(c) PROVE Exclusive
    <2>1. CASE Accept(c)
        BY <2>1, AcceptExclusive
    <2>2. CASE entry' = entry /\ pc' = pc
        BY <2>2, QuietExclusive DEF Executing
    <2> QED BY <1>2, <2>1, <2>2 DEF Dispatch
<1>3. ASSUME NEW c \in Contexts, Ask(c) PROVE Exclusive
    BY <1>3, AcceptExclusive DEF Ask
<1>4. ASSUME NEW i \in Ids,
             \/ Start(i) \/ Refused(i) \/ Fails(i) \/ Persist(i) \/ SaveSnapshot(i)
             \/ \E o \in {"pausing", "succeeded", "retrying"} : EndsAs(i, o)
      PROVE  Exclusive
    <2>1. entry' = entry /\ pc[i] \in {"starting", "running", "pausing", "succeeded"}
        BY <1>4 DEF Start, Refused, Fails, Persist, SaveSnapshot, EndsAs, Step
    <2>2. PICK q : pc' = [pc EXCEPT ![i] = q]
        BY <1>4 DEF Start, Refused, Fails, Persist, SaveSnapshot, EndsAs, Step, Go
    <2>3. Executing' \subseteq Executing
        BY <2>1, <2>2 DEF Executing, IInv, TInv, TypeOK, Agents
    <2> QED BY <2>1, <2>3, QuietExclusive
<1>5. ASSUME NEW i \in Ids, CloseEntry(i) \/ Complete(i) \/ MarkFailed(i) \/ Reopen(i)
      PROVE  Exclusive
    <2>1. PICK q \in {"draining", "leaving", "asking"} : pc' = [pc EXCEPT ![i] = q]
        BY <1>5 DEF CloseEntry, Complete, MarkFailed, Reopen, Step, Go
    <2>2. PICK s \in {"completed", "failed"} : entry' = [entry EXCEPT ![i].st = s]
        BY <1>5 DEF CloseEntry, Complete, MarkFailed, Reopen, Settle
    <2>3. Executing' = Executing \ {i}
        BY <2>1 DEF Executing, IInv, TInv, TypeOK, Agents
    <2>4. Claimed' = Claimed \ {i}
        BY <2>2 DEF Claimed, IInv, TInv, TypeOK
    <2> QED BY <2>3, <2>4 DEF Exclusive, IInv, WorkIsClaimed
<1>6. ASSUME NEW x \in Agents, DrainStops(x) \/ AskClaims(x) \/ AskStatus(x) \/ Confirm(x)
      PROVE  Exclusive
    <2>1. /\ entry' = entry
          /\ \E q \in {"over", "asked", "marking", "draining", "publishing", "confirming"} :
                pc' = [pc EXCEPT ![x] = q]
        BY <1>6 DEF DrainStops, AskClaims, AskStatus, Confirm, Go
    <2>2. Executing' \subseteq Executing
        BY <2>1 DEF Executing, IInv, TInv, TypeOK, Agents
    <2> QED BY <2>1, <2>2, QuietExclusive
<1>7. ASSUME NEW x \in Agents, DrainDrops(x) PROVE Exclusive
    <2>1. Pending # {} /\ Claimed = {} /\ pc' = pc
        BY <1>7 DEF DrainDrops
    <2>2. Claimed' = {}
        BY <1>7, <2>1 DEF DrainDrops, Settle, Claimed, IInv, TInv, TypeOK
    <2>3. Executing' = {}
        BY <2>1 DEF Executing, IInv, WorkIsClaimed
    <2> QED BY <2>2, <2>3 DEF Exclusive
<1>8. ASSUME NEW x \in Agents, DrainClaims(x) PROVE Exclusive
    <2> DEFINE i == Least(Pending)
    <2>1. i \in Ids /\ Claimed = {}
        BY <1>8, LeastEntry DEF DrainClaims, Pending
    <2>2. /\ entry' = [entry EXCEPT ![i].st = "claimed"]
          /\ pc' = [pc EXCEPT ![x] = "over", ![i] = "starting"]
        BY <1>8 DEF DrainClaims, Settle
    <2> HIDE DEF i
    <2>3. Claimed' = {i}
        BY <2>1, <2>2 DEF Claimed, IInv, TInv, TypeOK
    <2>4. Executing' \subseteq Executing \cup {i}
        BY <2>1, <2>2 DEF Executing, IInv, TInv, TypeOK, Agents
    <2> QED BY <2>1, <2>3, <2>4 DEF Exclusive, IInv, WorkIsClaimed
<1>9. ASSUME NEW k \in Requests, Begin(k) \/ Publish(k) \/ Mark(k) \/ Block(k) \/ Clear(k)
      PROVE  Exclusive
    <2>1. PICK q : pc' = [pc EXCEPT ![k] = q]
        BY <1>9 DEF Begin, Publish, Mark, Block, Clear, Go
    <2>2. Executing' = Executing
        BY <2>1 DEF Executing, IInv, TInv, TypeOK, Agents
    <2>3. CASE entry' = entry
        BY <2>2, <2>3, QuietExclusive
    <2>4. CASE entry' = [i \in Ids |-> IF i \in Pending THEN [entry[i] EXCEPT !.st = "failed"]
                                       ELSE entry[i]]
        <3>1. Claimed' = Claimed
            BY <2>4 DEF Claimed, Pending, IInv, TInv, TypeOK
        <3> QED BY <2>2, <3>1 DEF Exclusive, IInv, WorkIsClaimed
    <2> QED BY <1>9, <2>3, <2>4 DEF Begin, Publish, Mark, Block, Clear
<1>10. ASSUME NEW x \in Agents, PersistFails(x) \/ Throws(x) \/ Dies(x) PROVE Exclusive
    <2>1. entry' = entry
        BY <1>10 DEF PersistFails, Throws, Dies, Fault
    <2>2. \/ pc[x] = "pausing" /\ pc' = [pc EXCEPT ![x] = "paused"]
          \/ \E q \in {"failed", "dead"} : pc' = [pc EXCEPT ![x] = q]
        BY <1>10 DEF PersistFails, Throws, Dies, Fault, Go
    <2>3. Executing' \subseteq Executing
        BY <2>2 DEF Executing, IInv, TInv, TypeOK, Agents
    <2> QED BY <2>1, <2>3, QuietExclusive
<1> QED
    BY <1>1, <1>2, <1>3, <1>4, <1>5, <1>6, <1>7, <1>8, <1>9, <1>10
       DEF Next, Poller, Drives, Ends, Pauses, Succeeds, Unpublished, Cancels, Either, Agents

\* Every step keeps the invariant.
LEMMA InvStep ==
    ASSUME IInv, [Next]_vars
    PROVE  IInv'
<1>1. TInv'
    BY TypeStep DEF IInv
<1>2. WorkIsClaimed' /\ ClaimIsOne'
    BY ExclusiveStep DEF Exclusive, IInv, WorkIsClaimed, ClaimIsOne
<1> QED BY <1>1, <1>2 DEF IInv

\* The invariant holds initially.
LEMMA InvInit ==
    ASSUME Init
    PROVE  IInv
BY PauseAssumption
   DEF Init, IInv, TInv, TypeOK, RunsHaveEntries, WorkIsClaimed, ClaimIsOne, Executing, Claimed, NoEntry,
       Statuses, PointStatuses, EntryStatuses, Phases, Agents, Never, Off

\* The row, the queue and the processes keep to their states.
THEOREM PauseTypeCorrect == Spec => []TypeOK
<1>1. IInv => TypeOK
    BY DEF IInv, TInv
<1> QED BY <1>1, InvInit, InvStep, PTL DEF Spec

\* No two resumes of one execution are claimed or at work at a time: what
\* enqueueOrStartResume, processQueuedResumes and the poller check in their
\* transactions is enough, whoever else runs, fails or dies.
THEOREM OneResumeAtATime == Spec => []OneResume
<1>1. IInv => OneResume
    BY DEF IInv, WorkIsClaimed, ClaimIsOne, OneResume
<1> QED BY <1>1, InvInit, InvStep, PTL DEF Spec

-----------------------------------------------------------------------------
(* An accepted cancellation stands. Only the cancel route takes it back,    *)
(* and only when Redis has refused it.                                      *)

NoneClears == \A x \in Agents : pc[x] # "clearing"

\* What a step does to an accepted cancellation.
Kept == status = "cancelling" => status' \in {"cancelling", "cancelled"}

\* The step of an agent, to anywhere but taking back a cancellation.
LEMMA GoesOn ==
    ASSUME TypeOK, NoneClears, NEW x \in Agents, NEW q, Go(x, q), q # "clearing"
    PROVE  NoneClears'
BY DEF NoneClears, Go, TypeOK

\* Every step keeps the cancellation.
LEMMA KeptStep ==
    ASSUME ~ Outages, IInv, NoneClears, [Next]_vars
    PROVE  NoneClears' /\ Kept
<1> USE DEF rowVars, pollVars, histVars
<1>0. TypeOK
    BY DEF IInv, TInv
<1>1. CASE FirstPause \/ Tick \/ Poll \/ StoreNext \/ UNCHANGED vars
    <2>1. pc' = pc /\ (status' = status \/ status = "none")
        BY <1>1 DEF FirstPause, Tick, Poll, StoreNext, vars
    <2> QED BY <2>1 DEF NoneClears, Kept
<1>2. ASSUME NEW c \in Contexts, Accept(c) PROVE NoneClears' /\ Kept
    <2>1. status' = status
        BY <1>2 DEF Accept
    <2>2. Least(Unused) \in Agents
        BY <1>2, LeastEntry DEF Accept, Unused, Agents
    <2>3. pc' = pc \/ Go(Least(Unused), "starting")
        BY <1>2 DEF Accept
    <2> QED BY <1>0, <2>1, <2>2, <2>3, GoesOn DEF NoneClears, Kept
<1>3. ASSUME NEW c \in Timed, Dispatch(c) PROVE NoneClears' /\ Kept
    <2>1. CASE Accept(c)
        BY <1>2, <2>1, PauseAssumption
    <2>2. CASE pc' = pc /\ status' = status
        BY <2>2 DEF NoneClears, Kept
    <2> QED BY <1>3, <2>1, <2>2 DEF Dispatch
<1>4. ASSUME NEW i \in Ids,
             \/ Start(i) \/ Refused(i) \/ Fails(i) \/ SaveSnapshot(i) \/ CloseEntry(i)
             \/ MarkFailed(i) \/ Reopen(i)
             \/ \E o \in {"pausing", "succeeded", "retrying"} : EndsAs(i, o)
      PROVE  NoneClears' /\ Kept
    <2>1. status' = status
        BY <1>4 DEF Start, Refused, Fails, SaveSnapshot, CloseEntry, MarkFailed, Reopen, EndsAs
    <2>2. \E q \in Phases \ {"clearing"} : Go(i, q)
        BY <1>4 DEF Start, Refused, Fails, SaveSnapshot, CloseEntry, MarkFailed, Reopen, EndsAs,
                    Step, Phases
    <2> QED BY <1>0, <2>1, <2>2, GoesOn DEF Kept, Agents
<1>5. ASSUME NEW i \in Ids, Persist(i) \/ Complete(i) PROVE NoneClears' /\ Kept
    <2>1. Go(i, "paused") \/ Go(i, "draining")
        BY <1>5 DEF Persist, Complete, Step
    <2>2. \E n, t : status' = StatusOf(n, t, status)
        BY <1>5 DEF Persist, Complete
    <2>3. Kept
        BY <2>2 DEF Kept, StatusOf
    <2> QED BY <1>0, <2>1, <2>3, GoesOn DEF Agents
<1>6. ASSUME NEW x \in Agents,
             DrainStops(x) \/ DrainDrops(x) \/ DrainClaims(x) \/ AskClaims(x) \/ AskStatus(x)
      PROVE  NoneClears' /\ Kept
    <2>1. status' = status
        BY <1>6 DEF DrainStops, DrainDrops, DrainClaims, AskClaims, AskStatus
    <2>2. CASE pc' = pc
        BY <2>1, <2>2 DEF NoneClears, Kept
    <2>3. CASE \E q \in Phases \ {"clearing"} : Go(x, q)
        BY <1>0, <2>1, <2>3, GoesOn DEF Kept
    <2>4. CASE DrainClaims(x)
        <3>1. pc' = [pc EXCEPT ![x] = "over", ![Least(Pending)] = "starting"]
            BY <2>4 DEF DrainClaims
        <3> QED BY <1>0, <2>1, <3>1 DEF NoneClears, Kept, TypeOK
    <2> QED BY <1>6, <2>2, <2>3, <2>4
            DEF DrainStops, DrainDrops, AskClaims, AskStatus, Phases
<1>7. ASSUME NEW x \in Agents, Confirm(x) PROVE NoneClears' /\ Kept
    <2>1. Go(x, "over") \/ Go(x, "draining")
        BY <1>7 DEF Confirm
    <2>2. Kept
        BY <1>7 DEF Confirm, Kept
    <2> QED BY <1>0, <2>1, <2>2, GoesOn
<1>8. ASSUME NEW k \in Requests, Begin(k) \/ Publish(k) \/ Mark(k) \/ Block(k)
      PROVE  NoneClears' /\ Kept
    <2>1. \E q \in Phases \ {"clearing"} : Go(k, q)
        BY <1>8 DEF Begin, Publish, Mark, Block, Phases
    <2>2. Kept
        BY <1>8 DEF Begin, Publish, Mark, Block, Kept
    <2> QED BY <1>0, <2>1, <2>2, GoesOn DEF Agents
<1>9. ASSUME NEW k \in Requests PROVE ~ Clear(k)
    BY DEF Clear, NoneClears, Agents
<1>10. ASSUME NEW x \in Agents, PersistFails(x) \/ Throws(x) \/ Dies(x) PROVE NoneClears' /\ Kept
    <2>1. status' = status /\ (Go(x, "paused") \/ Go(x, "failed") \/ Go(x, "dead"))
        BY <1>10 DEF PersistFails, Throws, Dies, Fault
    <2> QED BY <1>0, <2>1, GoesOn DEF Kept
<1> QED
    BY <1>1, <1>2, <1>3, <1>4, <1>5, <1>6, <1>7, <1>8, <1>9, <1>10
       DEF Next, Ask, Poller, Drives, Ends, Pauses, Succeeds, Unpublished, Cancels, Either, Agents

\* While Redis answers, no run, drain, poller or crash forgets a cancellation
\* that the row has accepted.
THEOREM CancellationStands == ASSUME ~ Outages PROVE Spec => CancelIsKept
<1>1. Init => IInv /\ NoneClears
    BY InvInit DEF Init, NoneClears
<1>2. IInv /\ NoneClears /\ [Next]_vars => IInv' /\ NoneClears'
    BY InvStep, KeptStep
<1>3. IInv /\ NoneClears /\ [Next]_vars
          => [status = "cancelling" => status' \in {"cancelling", "cancelled"}]_vars
    BY KeptStep DEF Kept
<1> QED BY <1>1, <1>2, <1>3, PTL DEF Spec, CancelIsKept

-----------------------------------------------------------------------------
(* No resumption is lost: the snapshot from which the next run starts holds *)
(* every point that is marked as resumed. As long as nothing breaks, for    *)
(* any pause points, callers and cancel requests, and with Redis refusing.  *)

\* A point is being resumed only for a claim whose run has not stored its
\* next pause; the run starts from the snapshot as it is, since nobody else
\* writes it; and it completes its point after the snapshot holds it.
ResumingIsClaimed ==
    \A c \in Contexts :
        point[c] = "resuming" => \E i \in Claimed : Ctx(i) = c /\ pc[i] # "paused"

AtWork == {"starting", "running", "pausing", "succeeded"}

BaseIsCurrent == \A i \in Ids : pc[i] \in AtWork => base[i] = snapshot
SavedIsIn     == \A i \in Ids : pc[i] = "saved" => Ctx(i) \in snapshot
ResumedIsIn   == Resumed(point) \subseteq snapshot

Intact == ResumingIsClaimed /\ BaseIsCurrent /\ SavedIsIn /\ ResumedIsIn

\* A step that changes neither the claims nor the snapshot, starts and saves
\* nothing, and leaves no more points resuming or resumed.
LEMMA QuietIntact ==
    ASSUME Intact,
           snapshot' = snapshot,
           \A c \in Contexts : point'[c] \in {"resuming", "resumed"} => point'[c] = point[c],
           \A i \in Claimed : i \in Claimed' /\ Ctx(i)' = Ctx(i) /\ (pc'[i] = "paused" => pc[i] = "paused"),
           \A i \in Ids : pc'[i] \in AtWork => base'[i] = snapshot \/ (pc[i] \in AtWork /\ base'[i] = base[i]),
           \A i \in Ids : pc'[i] = "saved" => pc[i] = "saved" /\ Ctx(i)' = Ctx(i)
    PROVE  Intact'
<1>1. ResumingIsClaimed'
    <2>1. ASSUME NEW c \in Contexts, point'[c] = "resuming"
          PROVE  \E i \in Claimed' : Ctx(i)' = c /\ pc'[i] # "paused"
        <3>1. PICK i \in Claimed : Ctx(i) = c /\ pc[i] # "paused"
            BY <2>1 DEF Intact, ResumingIsClaimed
        <3> QED BY <3>1
    <2> QED BY <2>1 DEF ResumingIsClaimed
<1>2. BaseIsCurrent' /\ SavedIsIn'
    BY DEF Intact, BaseIsCurrent, SavedIsIn
<1>3. ResumedIsIn'
    BY DEF Intact, ResumedIsIn, Resumed
<1> QED BY <1>1, <1>2, <1>3 DEF Intact

\* While none is claimed, none is at work and no point is being resumed.
LEMMA NoneClaimed ==
    ASSUME IInv, Intact, Claimed = {}
    PROVE  /\ \A i \in Ids : pc[i] \notin AtWork \cup {"saved"}
           /\ \A c \in Contexts : point[c] # "resuming"
BY DEF IInv, WorkIsClaimed, Executing, AtWork, Intact, ResumingIsClaimed

\* A claim made while there is none.
LEMMA ClaimIntact ==
    ASSUME IInv, Intact, Claimed = {}, NEW i \in Ids, NEW c \in Contexts,
           i \in Claimed', Ctx(i)' = c, pc'[i] = "starting", base'[i] = snapshot,
           \A j \in Ids \ {i} : pc'[j] \in {pc[j], "over"},
           point' = [point EXCEPT ![c] = "resuming"],
           snapshot' = snapshot
    PROVE  Intact'
<1>1. /\ \A j \in Ids \ {i} : pc'[j] \notin AtWork \cup {"saved"}
      /\ \A d \in Contexts \ {c} : point'[d] = point[d] /\ point'[d] # "resuming"
    BY NoneClaimed DEF AtWork, IInv, TInv, TypeOK
<1>2. ResumingIsClaimed'
    BY <1>1 DEF ResumingIsClaimed
<1>3. BaseIsCurrent' /\ SavedIsIn'
    BY <1>1 DEF BaseIsCurrent, SavedIsIn
<1>4. ResumedIsIn'
    BY <1>1 DEF Intact, ResumedIsIn, Resumed, IInv, TInv, TypeOK
<1> QED BY <1>2, <1>3, <1>4 DEF Intact

\* Accepting a request keeps the snapshot whole.
LEMMA AcceptIntact ==
    ASSUME IInv, Intact, NEW c \in Contexts, Accept(c)
    PROVE  Intact'
<1>1. PICK i : i = Least(Unused)
    OBVIOUS
<1>0. i \in Ids /\ entry[i].st = "none"
    <2>1. Unused \in SUBSET Ids /\ Unused # {}
        BY DEF Accept, Unused
    <2>2. i \in Unused
        BY <1>1, <2>1, LeastEntry
    <2> QED BY <2>2 DEF Unused
<1>2. snapshot' = snapshot
    BY DEF Accept
<1>3. CASE /\ entry' = [entry EXCEPT ![i] = [ctx |-> c, st |-> "pending"]]
           /\ point' = [point EXCEPT ![c] = "queued"]
           /\ UNCHANGED <<pc, base>>
    <2>1. \A d \in Contexts : point'[d] \in {"resuming", "resumed"} => point'[d] = point[d]
        BY <1>3 DEF IInv, TInv, TypeOK
    <2>2. \A j \in Ids \ {i} : entry'[j] = entry[j]
        BY <1>0, <1>1, <1>3 DEF IInv, TInv, TypeOK
    <2>3. \A j \in Claimed : j \in Claimed' /\ Ctx(j)' = Ctx(j)
        BY <1>0, <2>2 DEF Claimed, Ctx
    <2>4. \A j \in Ids : pc[j] = "saved" => j # i
        BY <1>0 DEF IInv, WorkIsClaimed, Executing, Claimed
    <2>5. \A j \in Ids : pc'[j] = "saved" => pc[j] = "saved" /\ Ctx(j)' = Ctx(j)
        BY <1>3, <2>2, <2>4 DEF Ctx
    <2>6. pc' = pc /\ base' = base
        BY <1>3
    <2> QED BY <1>2, <2>1, <2>3, <2>5, <2>6, QuietIntact
<1>4. CASE /\ Claimed = {}
           /\ entry' = [entry EXCEPT ![i] = [ctx |-> c, st |-> "claimed"]]
           /\ point' = [point EXCEPT ![c] = "resuming"]
           /\ pc' = [pc EXCEPT ![i] = "starting"]
           /\ base' = [base EXCEPT ![i] = snapshot]
    <2>1. i \in Claimed' /\ Ctx(i)' = c
        <3>1. entry'[i] = [ctx |-> c, st |-> "claimed"]
            BY <1>0, <1>1, <1>4 DEF IInv, TInv, TypeOK
        <3> QED BY <1>0, <1>1, <3>1 DEF Claimed, Ctx
    <2>2. /\ pc'[i] = "starting" /\ base'[i] = snapshot
          /\ \A j \in Ids \ {i} : pc'[j] = pc[j]
        BY <1>0, <1>1, <1>4 DEF IInv, TInv, TypeOK, Agents
    <2> QED BY <1>0, <1>1, <1>2, <1>4, <2>1, <2>2, ClaimIntact
<1> QED BY <1>0, <1>1, <1>3, <1>4 DEF Accept, Go

\* An agent takes a step that is none of a run's first or last, and the claims,
\* the points, the snapshot and the bases stay as they are.
LEMMA WalkIntact ==
    ASSUME IInv, Intact, NEW x \in Agents, NEW q,
           pc' = [pc EXCEPT ![x] = q],
           q \notin {"paused", "saved"}, q \in AtWork => pc[x] \in AtWork,
           snapshot' = snapshot, point' = point,
           Claimed' = Claimed, \A i \in Ids : Ctx(i)' = Ctx(i),
           \A i \in Ids : base'[i] \in {base[i], snapshot}
    PROVE  Intact'
<1>1. \A i \in Ids : pc'[i] = pc[i] \/ (i = x /\ pc'[i] = q)
    BY DEF IInv, TInv, TypeOK, Agents
<1>2. \A i \in Claimed : i \in Claimed' /\ Ctx(i)' = Ctx(i) /\ (pc'[i] = "paused" => pc[i] = "paused")
    BY <1>1 DEF Claimed
<1>3. \A i \in Ids : pc'[i] \in AtWork => base'[i] = snapshot \/ (pc[i] \in AtWork /\ base'[i] = base[i])
    BY <1>1
<1>4. \A i \in Ids : pc'[i] = "saved" => pc[i] = "saved" /\ Ctx(i)' = Ctx(i)
    BY <1>1
<1> QED BY <1>2, <1>3, <1>4, QuietIntact

\* A run settles its entry, and its point is not being resumed any more.
LEMMA ReleaseIntact ==
    ASSUME IInv, Intact, NEW i \in Ids, NEW s, NEW q, Settle(i, s),
           pc' = [pc EXCEPT ![i] = q], q \notin AtWork \cup {"saved"},
           snapshot' = snapshot, base' = base,
           point'[Ctx(i)] # "resuming",
           \A c \in Contexts : c # Ctx(i) => point'[c] = point[c],
           Resumed(point') \subseteq snapshot
    PROVE  Intact'
<1>1. \A j \in Ids \ {i} : entry'[j] = entry[j] /\ pc'[j] = pc[j]
    BY DEF Settle, IInv, TInv, TypeOK, Agents
<1>2. pc'[i] = q
    BY DEF IInv, TInv, TypeOK, Agents
<1>3. ResumingIsClaimed'
    <2>1. ASSUME NEW c \in Contexts, point'[c] = "resuming"
          PROVE  \E j \in Claimed' : Ctx(j)' = c /\ pc'[j] # "paused"
        <3>1. c # Ctx(i) /\ point[c] = "resuming"
            BY <2>1
        <3>2. PICK j \in Claimed : Ctx(j) = c /\ pc[j] # "paused"
            BY <3>1 DEF Intact, ResumingIsClaimed
        <3>3. j \in Ids \ {i}
            BY <3>1, <3>2 DEF Claimed
        <3>4. j \in Claimed' /\ Ctx(j)' = c /\ pc'[j] # "paused"
            BY <1>1, <3>2, <3>3 DEF Claimed, Ctx
        <3> QED BY <3>4
    <2> QED BY <2>1 DEF ResumingIsClaimed
<1>4. BaseIsCurrent' /\ SavedIsIn'
    BY <1>1, <1>2 DEF Intact, BaseIsCurrent, SavedIsIn, Ctx
<1> QED BY <1>3, <1>4 DEF Intact, ResumedIsIn

-----------------------------------------------------------------------------
(* The steps of a run that write the row.                                   *)

\* While one entry is claimed nobody else is at work.
LEMMA AloneAtWork ==
    ASSUME IInv, NEW i \in Ids, pc[i] \in AtWork \cup {"paused", "saved"}
    PROVE  /\ i \in Claimed /\ Claimed = {i}
           /\ \A j \in Ids \ {i} : pc[j] \notin AtWork \cup {"paused", "saved"}
BY DEF IInv, WorkIsClaimed, ClaimIsOne, Executing, AtWork

\* Storing a pause keeps it whole.
LEMMA PersistIntact ==
    ASSUME IInv, Intact, NEW i \in Ids, Persist(i)
    PROVE  Intact'
<1>1. /\ Claimed = {i}
      /\ \A j \in Ids \ {i} : pc[j] \notin AtWork \cup {"paused", "saved"}
    BY AloneAtWork DEF Persist, Step, AtWork
<1>2. pc[i] = "pausing" /\ pc' = [pc EXCEPT ![i] = "paused"]
    BY DEF Persist, Step, Go
<1>3. snapshot' = snapshot \cup {Ctx(i)}
    <2>1. snapshot' = base[i] \cup {Ctx(i)}
        BY DEF Persist, SnapshotAfter
    <2> QED BY <1>2, <2>1 DEF Intact, BaseIsCurrent, AtWork
<1>4. \A c \in Contexts : point[c] = "resuming" => c = Ctx(i)
    BY <1>1 DEF Intact, ResumingIsClaimed
<1>5. \A c \in Contexts : /\ point'[c] # "resuming"
                          /\ point'[c] = "resumed" => point[c] \in {"resumed", "resuming"}
    BY DEF Persist
<1>6. \A j \in Ids : pc'[j] \notin AtWork \cup {"saved"}
    BY <1>1, <1>2 DEF IInv, TInv, TypeOK, Agents, AtWork
<1>7. ResumingIsClaimed'
    BY <1>5 DEF ResumingIsClaimed
<1>8. BaseIsCurrent' /\ SavedIsIn'
    BY <1>6 DEF BaseIsCurrent, SavedIsIn
<1>9. ResumedIsIn'
    BY <1>3, <1>4, <1>5 DEF Intact, ResumedIsIn, Resumed
<1> QED BY <1>7, <1>8, <1>9 DEF Intact

\* Saving a resumed run keeps it whole.
LEMMA SaveIntact ==
    ASSUME IInv, Intact, NEW i \in Ids, SaveSnapshot(i)
    PROVE  Intact'
<1>1. \A j \in Ids \ {i} : pc[j] \notin AtWork \cup {"paused", "saved"}
    BY AloneAtWork DEF SaveSnapshot, Step, AtWork
<1>2. /\ pc[i] = "succeeded" /\ pc' = [pc EXCEPT ![i] = "saved"]
      /\ point' = point /\ entry' = entry /\ base' = base
    BY DEF SaveSnapshot, Step, Go
<1>3. snapshot' = snapshot \cup {Ctx(i)}
    <2>1. snapshot' = base[i] \cup {Ctx(i)}
        BY DEF SaveSnapshot, SnapshotAfter
    <2> QED BY <1>2, <2>1 DEF Intact, BaseIsCurrent, AtWork
<1>4. /\ pc'[i] = "saved" /\ \A j \in Ids \ {i} : pc'[j] = pc[j]
      /\ Claimed' = Claimed /\ \A j \in Ids : Ctx(j)' = Ctx(j)
    BY <1>2 DEF IInv, TInv, TypeOK, Agents, Claimed, Ctx
<1>5. ResumingIsClaimed'
    <2>1. \A j \in Claimed : pc[j] # "paused" => pc'[j] # "paused"
        BY <1>4 DEF Claimed
    <2>2. \A j \in Claimed : j \in Ids
        BY DEF Claimed
    <2>3. ASSUME NEW c \in Contexts, point'[c] = "resuming"
          PROVE  \E j \in Claimed' : Ctx(j)' = c /\ pc'[j] # "paused"
        <3>1. PICK j \in Claimed : Ctx(j) = c /\ pc[j] # "paused"
            BY <1>2, <2>3 DEF Intact, ResumingIsClaimed
        <3> QED BY <1>4, <2>1, <2>2, <3>1
    <2> QED BY <2>3 DEF ResumingIsClaimed
<1>6. BaseIsCurrent'
    BY <1>1, <1>4 DEF BaseIsCurrent, AtWork
<1>7. SavedIsIn'
    BY <1>1, <1>3, <1>4 DEF SavedIsIn
<1>8. ResumedIsIn'
    BY <1>2, <1>3 DEF Intact, ResumedIsIn
<1> QED BY <1>5, <1>6, <1>7, <1>8 DEF Intact

\* Settling an entry keeps it whole.
LEMMA SettleIntact ==
    ASSUME IInv, Intact, NEW i \in Ids, CloseEntry(i) \/ Complete(i) \/ MarkFailed(i) \/ Reopen(i)
    PROVE  Intact'
<1>1. /\ snapshot' = snapshot /\ base' = base
      /\ \E s : Settle(i, s)
      /\ \E q \in {"draining", "leaving", "asking"} : pc' = [pc EXCEPT ![i] = q]
    BY DEF CloseEntry, Complete, MarkFailed, Reopen, Step, Go, rowVars
<1>2. \A q \in {"draining", "leaving", "asking"} : q \notin AtWork \cup {"saved"}
    BY DEF AtWork
<1>3. pc[i] # "idle" /\ Ctx(i) \in Contexts
    BY DEF CloseEntry, Complete, MarkFailed, Reopen, Step, IInv, TInv, RunsHaveEntries, Ctx
<1>4. CASE CloseEntry(i)
    <2>1. pc[i] = "paused" /\ point' = point
        BY <1>4 DEF CloseEntry, Step, rowVars
    <2>2. point[Ctx(i)] # "resuming"
        BY <1>3, <2>1, AloneAtWork DEF Intact, ResumingIsClaimed
    <2>3. Resumed(point') \subseteq snapshot
        BY <2>1 DEF Intact, ResumedIsIn
    <2> QED BY <1>1, <1>2, <2>1, <2>2, <2>3, ReleaseIntact
<1>5. ASSUME NEW p \in {"resumed", "failed", "paused"}, point' = [point EXCEPT ![Ctx(i)] = p],
             p = "resumed" => Ctx(i) \in snapshot
      PROVE  Intact'
    <2>1. point'[Ctx(i)] = p /\ \A c \in Contexts : c # Ctx(i) => point'[c] = point[c]
        BY <1>3, <1>5 DEF IInv, TInv, TypeOK
    <2>2. Resumed(point') \subseteq snapshot
        BY <1>5, <2>1 DEF Intact, ResumedIsIn, Resumed
    <2> QED BY <1>1, <1>2, <2>1, <2>2, ReleaseIntact
<1>6. CASE Complete(i)
    <2>1. pc[i] = "saved" /\ point' = [point EXCEPT ![Ctx(i)] = "resumed"]
        BY <1>6 DEF Complete, Step
    <2> QED BY <1>5, <2>1 DEF Intact, SavedIsIn
<1>7. CASE MarkFailed(i)
    BY <1>5, <1>7 DEF MarkFailed
<1>8. CASE Reopen(i)
    BY <1>5, <1>8 DEF Reopen
<1> QED BY <1>4, <1>6, <1>7, <1>8

-----------------------------------------------------------------------------
(* Every step but a fault keeps the snapshot intact.                        *)

\* Every step keeps it whole.
LEMMA IntactStep ==
    ASSUME IInv, Intact, [Next]_vars
    PROVE  \/ Intact'
           \/ \E x \in Agents : PersistFails(x) \/ Throws(x) \/ Dies(x)
<1> USE DEF rowVars, pollVars, histVars
<1>1. CASE FirstPause \/ Tick \/ Poll \/ StoreNext \/ UNCHANGED vars
    <2>1. /\ snapshot' = snapshot /\ entry' = entry /\ pc' = pc /\ base' = base
          /\ \A c \in Contexts : point'[c] \in {"resuming", "resumed"} => point'[c] = point[c]
        BY <1>1 DEF FirstPause, Tick, Poll, StoreNext, vars
    <2>2. Claimed' = Claimed /\ \A i \in Ids : Ctx(i)' = Ctx(i)
        BY <2>1 DEF Claimed, Ctx
    <2>3. \A i \in Claimed : i \in Ids
        BY DEF Claimed
    <2> QED BY <2>1, <2>2, <2>3, QuietIntact
<1>2. ASSUME NEW c \in Timed, Dispatch(c) PROVE Intact'
    <2>1. CASE Accept(c)
        BY <2>1, AcceptIntact, PauseAssumption
    <2>2. CASE UNCHANGED <<rowVars, entry, pc, base>>
        <3>1. snapshot' = snapshot /\ point' = point /\ entry' = entry /\ pc' = pc /\ base' = base
            BY <2>2
        <3>2. Claimed' = Claimed /\ \A i \in Ids : Ctx(i)' = Ctx(i)
            BY <3>1 DEF Claimed, Ctx
        <3>3. \A i \in Claimed : i \in Ids
            BY DEF Claimed
        <3> QED BY <3>1, <3>2, <3>3, QuietIntact
    <2> QED BY <1>2, <2>1, <2>2 DEF Dispatch
<1>3. ASSUME NEW c \in Contexts, Ask(c) PROVE Intact'
    BY <1>3, AcceptIntact DEF Ask
<1>4. ASSUME NEW i \in Ids,
             \/ Start(i) \/ Refused(i) \/ Fails(i)
             \/ \E o \in {"pausing", "succeeded", "retrying"} : EndsAs(i, o)
      PROVE  Intact'
    <2>1. /\ snapshot' = snapshot /\ point' = point /\ entry' = entry
          /\ pc[i] \in {"starting", "running"}
          /\ base' \in {base, [base EXCEPT ![i] = snapshot]}
        BY <1>4 DEF Start, Refused, Fails, EndsAs, Step
    <2>2. \E q \in {"running", "retrying", "failed", "aborted", "pausing", "succeeded"} :
              pc' = [pc EXCEPT ![i] = q]
        BY <1>4 DEF Start, Refused, Fails, EndsAs, Step, Go
    <2>3. Claimed' = Claimed /\ \A j \in Ids : Ctx(j)' = Ctx(j)
        BY <2>1 DEF Claimed, Ctx
    <2>4. \A j \in Ids : base'[j] \in {base[j], snapshot}
        BY <2>1 DEF IInv, TInv, TypeOK
    <2>5. pc[i] \in AtWork /\ i \in Agents
        BY <2>1 DEF AtWork, Agents
    <2> QED BY <2>1, <2>2, <2>3, <2>4, <2>5, WalkIntact
<1>5. ASSUME NEW i \in Ids,
             \/ Persist(i) \/ SaveSnapshot(i)
             \/ CloseEntry(i) \/ Complete(i) \/ MarkFailed(i) \/ Reopen(i)
      PROVE  Intact'
    BY <1>5, PersistIntact, SaveIntact, SettleIntact
<1>6. ASSUME NEW x \in Agents, DrainStops(x) \/ AskClaims(x) \/ AskStatus(x) \/ Confirm(x)
      PROVE  Intact'
    <2>1. /\ snapshot' = snapshot /\ point' = point /\ entry' = entry /\ base' = base
          /\ \E q \in {"over", "asked", "marking", "draining", "publishing", "confirming"} :
                pc' = [pc EXCEPT ![x] = q]
        BY <1>6 DEF DrainStops, AskClaims, AskStatus, Confirm, Go
    <2>2. Claimed' = Claimed /\ \A j \in Ids : Ctx(j)' = Ctx(j) /\ base'[j] \in {base[j], snapshot}
        BY <2>1 DEF Claimed, Ctx
    <2> QED BY <2>1, <2>2, WalkIntact DEF AtWork
<1>7. ASSUME NEW x \in Agents, DrainDrops(x) PROVE Intact'
    <2>1. /\ Claimed = {} /\ snapshot' = snapshot /\ point' = point /\ pc' = pc /\ base' = base
        BY <1>7 DEF DrainDrops
    <2>2. \A j \in Ids : pc'[j] \notin AtWork \cup {"saved"}
        BY <2>1, NoneClaimed
    <2> QED BY <2>1, <2>2, QuietIntact
<1>8. ASSUME NEW x \in Agents, DrainClaims(x) PROVE Intact'
    <2>1. PICK i \in Ids : i = Least(Pending)
        BY <1>8, LeastEntry DEF DrainClaims, Pending
    <2>2. /\ Claimed = {} /\ snapshot' = snapshot
          /\ entry' = [entry EXCEPT ![i].st = "claimed"]
          /\ point' = [point EXCEPT ![Ctx(i)] = "resuming"]
          /\ pc' = [pc EXCEPT ![x] = "over", ![i] = "starting"]
          /\ base' = [base EXCEPT ![i] = snapshot]
          /\ point[Ctx(i)] = "queued"
        BY <1>8, <2>1 DEF DrainClaims, Settle
    <2>3. PICK c \in Contexts : c = Ctx(i)
        <3>1. i \in Pending
            BY <1>8, <2>1, LeastEntry DEF DrainClaims, Pending
        <3> QED BY <3>1 DEF Pending, Ctx, IInv, TInv, TypeOK
    <2>4. i \in Claimed' /\ Ctx(i)' = c
        BY <2>1, <2>2, <2>3 DEF Claimed, Ctx, IInv, TInv, TypeOK
    <2>5. /\ pc'[i] = "starting" /\ base'[i] = snapshot
          /\ \A j \in Ids \ {i} : pc'[j] \in {pc[j], "over"}
        BY <2>1, <2>2 DEF IInv, TInv, TypeOK, Agents
    <2>6. point' = [point EXCEPT ![c] = "resuming"]
        BY <2>2, <2>3
    <2> QED BY <2>2, <2>4, <2>5, <2>6, ClaimIntact
<1>9. ASSUME NEW k \in Requests, Begin(k) \/ Publish(k) \/ Mark(k) \/ Block(k) \/ Clear(k)
      PROVE  Intact'
    <2>1. /\ snapshot' = snapshot /\ point' = point /\ base' = base /\ k \in Agents
          /\ \E q \in {"publishing", "asking", "confirming", "clearing", "blocking", "over", "draining"} :
                pc' = [pc EXCEPT ![k] = q]
        BY <1>9 DEF Begin, Publish, Mark, Block, Clear, Go, Agents
    <2>2. Claimed' = Claimed /\ \A j \in Ids : Ctx(j)' = Ctx(j)
        <3>1. CASE entry' = entry
            BY <3>1 DEF Claimed, Ctx
        <3>2. CASE entry' = [i \in Ids |-> IF i \in Pending THEN [entry[i] EXCEPT !.st = "failed"]
                                           ELSE entry[i]]
            BY <3>2 DEF Claimed, Ctx, Pending, IInv, TInv, TypeOK
        <3> QED BY <1>9, <3>1, <3>2 DEF Begin, Publish, Mark, Block, Clear
    <2>3. \A j \in Ids : base'[j] \in {base[j], snapshot}
        BY <2>1
    <2> QED BY <2>1, <2>2, <2>3, WalkIntact DEF AtWork
<1> QED
    BY <1>1, <1>2, <1>3, <1>4, <1>5, <1>6, <1>7, <1>8, <1>9
       DEF Next, Poller, Drives, Ends, Pauses, Succeeds, Unpublished, Cancels, Either, Agents

\* Faults are counted.
LEMMA FaultsStep ==
    ASSUME IInv, [Next]_vars
    PROVE  /\ faults' = 0 => faults = 0
           /\ \A x \in Agents : PersistFails(x) \/ Throws(x) \/ Dies(x) => faults' # 0
<1> USE DEF rowVars, pollVars, histVars
<1>1. faults \in Nat
    BY PauseAssumption DEF IInv, TInv, TypeOK
<1>2. \A x : PersistFails(x) \/ Throws(x) \/ Dies(x) => faults' = faults + 1
    BY DEF PersistFails, Throws, Dies, Fault
<1>3. FirstPause \/ Tick \/ Poller \/ UNCHANGED vars => faults' = faults
    BY DEF FirstPause, Tick, Poller, Poll, Dispatch, StoreNext, vars
<1>4. ASSUME NEW i \in Ids, Drives(i) PROVE faults' = faults
    BY <1>4 DEF Drives, Ends, Pauses, Succeeds, Unpublished, EndsAs, Start, Refused, Fails, Persist,
                CloseEntry, SaveSnapshot, Complete, MarkFailed, Reopen
<1>5. ASSUME NEW k, Begin(k) \/ Cancels(k) \/ Either(k) PROVE faults' = faults
    BY <1>5 DEF Begin, Cancels, Publish, Mark, Block, Clear, Either, DrainStops, DrainDrops,
                DrainClaims, AskClaims, AskStatus, Confirm
<1>6. ASSUME NEW c \in Contexts, Ask(c) PROVE faults' = faults
    BY <1>6 DEF Ask
<1>7. faults' \in {faults, faults + 1}
    BY <1>2, <1>3, <1>4, <1>5, <1>6 DEF Next
<1> QED BY <1>1, <1>2, <1>7

SInv == faults = 0 => Intact

\* A run that starts after another has ended starts from what that one left:
\* as long as nothing breaks, no point is marked as resumed whose resumption
\* the snapshot does not contain.
THEOREM NoResumeLost == Spec => []SnapshotHasResumed
<1>1. Init => IInv /\ SInv
    <2>1. ASSUME Init PROVE Intact
        BY <2>1 DEF Init, Intact, ResumingIsClaimed, BaseIsCurrent, SavedIsIn, ResumedIsIn,
                    Resumed, AtWork, Agents
    <2> QED BY <2>1, InvInit DEF SInv
<1>2. IInv /\ SInv /\ [Next]_vars => IInv' /\ SInv'
    <2> SUFFICES ASSUME IInv, SInv, [Next]_vars PROVE IInv' /\ SInv'
        OBVIOUS
    <2>1. ASSUME faults' = 0 PROVE Intact'
        <3>1. Intact /\ ~ \E x \in Agents : PersistFails(x) \/ Throws(x) \/ Dies(x)
            BY <2>1, FaultsStep DEF SInv
        <3> QED BY <3>1, IntactStep
    <2> QED BY <2>1, InvStep DEF SInv
<1>3. SInv => SnapshotHasResumed
    BY DEF SInv, Intact, ResumedIsIn, SnapshotHasResumed
<1> QED BY <1>1, <1>2, <1>3, PTL DEF Spec
=============================================================================
