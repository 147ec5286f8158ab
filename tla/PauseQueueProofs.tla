-------------------------- MODULE PauseQueueProofs --------------------------
(* The queue and the points agree: what a point says is being done for it is *)
(* what an entry of resume_queue is about to do, no work is done twice, the  *)
(* counts are those of the points, and no wait is slept through.             *)
(*                                                                         *)
(* Every step either leaves the points alone (Quiet) or is one of the five   *)
(* that write them; each invariant is proved over those six.                 *)
EXTENDS PauseResumeProofs

\* A pause point is reached from one place: a run is resumed from a point
\* once, and its block, loop iteration and branch name the points it reaches.
OneOrigin ==
    \A p \in Contexts :
        /\ First \cap Follow[p] = {}
        /\ \A q \in Contexts : p # q => Follow[p] \cap Follow[q] = {}

\* The work of an entry is still to be done, or may have to be done again.
Live(i) == entry[i].st = "pending" \/ pc[i] \in {"starting", "running", "aborted", "retrying"}

\* It has an effect on its point still to come.
Busy(i) == Live(i) \/ pc[i] = "pausing"

-----------------------------------------------------------------------------
(* The shapes of the steps.                                                 *)

\* What a step that writes no point does to the row and to the queue.
QuietRow ==
    /\ point' = point /\ resumedCount' = resumedCount
    /\ status' = "none" <=> status = "none"
    /\ status' = "fully_resumed" => status = "fully_resumed"

QuietQueue ==
    /\ \A j \in Ids : /\ Ctx(j)' = Ctx(j)
                      /\ \/ entry'[j].st = entry[j].st
                         \/ entry[j].st = "pending" /\ entry'[j].st = "failed"
    /\ \/ entry' = entry
       \/ \E k \in Requests : pc[k] # "idle"
       \/ \E i \in Pending : point[Ctx(i)] # "queued"

\* To the processes.
QuietRuns ==
    /\ \A j \in Ids :
          /\ pc'[j] = "starting" => pc[j] = "starting"
          /\ pc'[j] # "idle" => pc[j] # "idle"
          /\ pc'[j] \in {"running", "aborted", "retrying"}
                => pc[j] \in {"starting", "running", "aborted", "retrying"}
          /\ pc'[j] = "retrying" => pc[j] = "retrying" \/ Outages
          /\ pc'[j] = "pausing" => pc[j] \in {"pausing", "running"}
          /\ faults' = 0 => /\ pc'[j] = "failed" => pc[j] \in {"failed", "running"}
                            /\ pc[j] = "paused" => pc'[j] = "paused"
    /\ \A k \in Requests : pc'[k] = "idle" => pc[k] = "idle"

\* And to the history.
QuietHistory ==
    \/ ran' = ran
    \/ \E i \in Ids : /\ pc[i] = "running"
                      /\ pc'[i] \in {"pausing", "succeeded"} \/ Outages
                      /\ entry' = entry
                      /\ \A j \in Ids \ {i} : pc'[j] = pc[j]
                      /\ ran' = [ran EXCEPT ![Ctx(i)] = @ + 1]

Quiet == QuietRow /\ QuietQueue /\ QuietRuns /\ QuietHistory

\* A run settles its entry, and leaves the point as the outcome wants it.
Settles(i) == CloseEntry(i) \/ Complete(i) \/ MarkFailed(i) \/ Reopen(i)

\* An agent takes a step, and nothing else changes that matters to the points.
LEMMA WalkQuiet ==
    ASSUME IInv, NEW x \in Agents, NEW q,
           pc' = [pc EXCEPT ![x] = q], x \in Ids => pc[x] # "idle",
           q \in {"running", "aborted", "retrying"} => pc[x] \in {"starting", "running"},
           q = "retrying" => Outages,
           q = "pausing" => pc[x] = "running",
           q = "failed" => pc[x] = "running" \/ faults' # 0,
           pc[x] = "paused" => faults' # 0,
           q \notin {"idle", "starting"},
           QuietRow, QuietQueue, QuietHistory
    PROVE  Quiet
<1>1. \A y \in Agents : pc'[y] = pc[y] \/ (y = x /\ pc'[y] = q)
    BY DEF IInv, TInv, TypeOK
<1>2. QuietRuns
    BY <1>1 DEF QuietRuns, Agents
<1> QED BY <1>2 DEF Quiet

\* A step leaves the points and the queue alone, or it is one of five.
LEMMA Shapes ==
    ASSUME IInv, [Next]_vars
    PROVE  \/ Quiet
           \/ FirstPause
           \/ \E c \in Contexts : Accept(c) /\ ran' = ran /\ faults' = faults
           \/ \E i \in Ids : Persist(i) \/ Settles(i)
           \/ \E x \in Agents : DrainClaims(x)
<1> USE PauseAssumption DEF rowVars, pollVars, histVars
<1>0. ASSUME entry' = entry PROVE QuietQueue
    BY <1>0 DEF QuietQueue, Ctx
<1>1. CASE Tick \/ Poll \/ StoreNext \/ UNCHANGED vars
    <2>1. /\ entry' = entry /\ pc' = pc /\ ran' = ran
          /\ point' = point /\ resumedCount' = resumedCount /\ status' = status
        BY <1>1 DEF Tick, Poll, StoreNext, vars
    <2> QED BY <1>0, <2>1 DEF Quiet, QuietRow, QuietRuns, QuietHistory
<1>2. ASSUME NEW c \in Timed, Dispatch(c)
      PROVE  Quiet \/ (Accept(c) /\ ran' = ran /\ faults' = faults)
    <2>1. CASE UNCHANGED <<rowVars, entry, pc, base>>
        <3>1. /\ entry' = entry /\ pc' = pc /\ ran' = ran
              /\ point' = point /\ resumedCount' = resumedCount /\ status' = status
            BY <1>2, <2>1 DEF Dispatch
        <3> QED BY <1>0, <3>1 DEF Quiet, QuietRow, QuietRuns, QuietHistory
    <2> QED BY <1>2, <2>1 DEF Dispatch
<1>3. ASSUME NEW c \in Contexts, Ask(c) PROVE Accept(c) /\ ran' = ran /\ faults' = faults
    BY <1>3 DEF Ask
<1>4. ASSUME NEW i \in Ids, Start(i) \/ Refused(i) \/ Fails(i) \/ SaveSnapshot(i) PROVE Quiet
    <2>1. /\ entry' = entry /\ ran' = ran /\ i \in Agents
          /\ point' = point /\ resumedCount' = resumedCount /\ status' = status
        BY <1>4 DEF Start, Refused, Fails, SaveSnapshot, Agents
    <2>2. PICK q : /\ pc' = [pc EXCEPT ![i] = q]
                   /\ \/ pc[i] = "starting" /\ q = "running"
                      \/ pc[i] = "starting" /\ q = "retrying" /\ Outages
                      \/ pc[i] = "running" /\ q \in {"failed", "aborted"}
                      \/ pc[i] = "succeeded" /\ q = "saved"
        BY <1>4 DEF Start, Refused, Fails, SaveSnapshot, Step, Go
    <2>3. QuietRow /\ QuietHistory
        BY <2>1 DEF QuietRow, QuietHistory
    <2> HIDE DEF QuietRow, QuietHistory
    <2> QED BY <1>0, <2>1, <2>2, <2>3, WalkQuiet
<1>5. ASSUME NEW i \in Ids, NEW o \in {"pausing", "succeeded", "retrying"}, EndsAs(i, o),
             o = "retrying" => Outages
      PROVE  Quiet
    <2>1. /\ entry' = entry /\ ran' = [ran EXCEPT ![Ctx(i)] = @ + 1] /\ i \in Agents
          /\ point' = point /\ resumedCount' = resumedCount /\ status' = status
          /\ pc[i] = "running" /\ pc' = [pc EXCEPT ![i] = o]
        BY <1>5 DEF EndsAs, Step, Go, Agents
    <2>2. pc'[i] = o /\ \A j \in Ids \ {i} : pc'[j] = pc[j]
        BY <2>1 DEF IInv, TInv, TypeOK, Agents
    <2>3. QuietRow /\ QuietHistory
        BY <1>5, <2>1, <2>2 DEF QuietRow, QuietHistory
    <2> QED BY <1>0, <1>5, <2>1, <2>3, WalkQuiet
<1>6. ASSUME NEW x \in Agents, DrainStops(x) \/ AskClaims(x) \/ AskStatus(x) \/ Confirm(x)
      PROVE  Quiet
    <2>1. /\ entry' = entry /\ ran' = ran
          /\ point' = point /\ resumedCount' = resumedCount
          /\ status' = status \/ (status = "cancelling" /\ status' = "cancelled")
          /\ pc[x] \in {"draining", "leaving", "asking", "asked", "confirming"}
          /\ \E q \in {"over", "asked", "marking", "draining", "publishing", "confirming"} :
                pc' = [pc EXCEPT ![x] = q]
        BY <1>6 DEF DrainStops, Draining, AskClaims, AskStatus, Confirm, Go
    <2>2. QuietRow /\ QuietHistory
        BY <2>1 DEF QuietRow, QuietHistory
    <2> QED BY <1>0, <2>1, <2>2, WalkQuiet
<1>7. ASSUME NEW x \in Agents, DrainDrops(x) PROVE Quiet
    <2>1. PICK i \in Pending : /\ entry' = [entry EXCEPT ![i].st = "failed"]
                               /\ point[Ctx(i)] # "queued"
        <3>1. Least(Pending) \in Pending
            BY <1>7, LeastEntry DEF DrainDrops, Pending
        <3> QED BY <1>7, <3>1 DEF DrainDrops, Settle
    <2>2. /\ pc' = pc /\ ran' = ran
          /\ point' = point /\ resumedCount' = resumedCount /\ status' = status
        BY <1>7 DEF DrainDrops
    <2>3. QuietQueue
        BY <2>1 DEF QuietQueue, Ctx, Pending, IInv, TInv, TypeOK
    <2> QED BY <2>2, <2>3 DEF Quiet, QuietRow, QuietRuns, QuietHistory
<1>8. ASSUME NEW k \in Requests, Begin(k) \/ Publish(k) \/ Mark(k) \/ Block(k) \/ Clear(k)
      PROVE  Quiet
    <2>1. /\ ran' = ran /\ point' = point /\ resumedCount' = resumedCount /\ k \in Agents
        BY <1>8 DEF Begin, Publish, Mark, Block, Clear, Agents
    <2>2. /\ status' = "none" <=> status = "none"
          /\ status' = "fully_resumed" => status = "fully_resumed"
        BY <1>8 DEF Begin, Publish, Mark, Block, Clear, Resumable
    <2>3. PICK q \in {"publishing", "asking", "confirming", "clearing", "blocking", "over", "draining"} :
              pc' = [pc EXCEPT ![k] = q]
        BY <1>8 DEF Begin, Publish, Mark, Block, Clear, Go
    <2>4. pc[k] # "paused" /\ k \notin Ids
        BY <1>8 DEF Begin, Publish, Mark, Block, Clear
    <2>5. QuietQueue
        <3>1. CASE entry' = entry
            BY <1>0, <3>1
        <3>2. CASE Block(k) /\ entry' = [i \in Ids |-> IF i \in Pending THEN [entry[i] EXCEPT !.st = "failed"]
                                                      ELSE entry[i]]
            BY <3>2 DEF Block, QuietQueue, Ctx, Pending, IInv, TInv, TypeOK
        <3> QED BY <1>8, <3>1, <3>2 DEF Begin, Publish, Mark, Block, Clear
    <2>6. QuietRow /\ QuietHistory
        BY <2>1, <2>2 DEF QuietRow, QuietHistory
    <2> QED BY <2>1, <2>3, <2>4, <2>5, <2>6, WalkQuiet
<1>9. ASSUME NEW x \in Agents, PersistFails(x) \/ Throws(x) \/ Dies(x) PROVE Quiet
    <2>1. /\ entry' = entry /\ ran' = ran
          /\ point' = point /\ resumedCount' = resumedCount /\ status' = status
          /\ pc[x] # "idle" /\ \E q \in {"paused", "failed", "dead"} : pc' = [pc EXCEPT ![x] = q]
        BY <1>9 DEF PersistFails, Throws, Dies, Fault, Go
    <2>2. faults' # 0
        BY <1>9 DEF PersistFails, Throws, Dies, Fault, IInv, TInv, TypeOK
    <2>3. QuietRow /\ QuietHistory
        BY <2>1 DEF QuietRow, QuietHistory
    <2> QED BY <1>0, <2>1, <2>2, <2>3, WalkQuiet
<1> QED
    BY <1>1, <1>2, <1>3, <1>4, <1>5, <1>6, <1>7, <1>8, <1>9
       DEF Next, Poller, Drives, Ends, Pauses, Succeeds, Unpublished, Cancels, Either, Agents, Settles

\* An accepted request takes an unused entry for a paused point.
LEMMA AcceptShape ==
    ASSUME IInv, NEW c \in Contexts, Accept(c)
    PROVE  \E i \in Ids :
              /\ Resumable /\ status' = status /\ resumedCount' = resumedCount
              /\ point[c] = "paused" /\ entry[i].st = "none" /\ Ctx(i)' = c
              /\ \A d \in Contexts : d # c => point'[d] = point[d]
              /\ \A j \in Ids : j # i => entry'[j] = entry[j]
              /\ \A y \in Agents : y # i => pc'[y] = pc[y]
              /\ \/ /\ Claimed # {} /\ entry'[i].st = "pending"
                    /\ point'[c] = "queued" /\ pc'[i] = pc[i]
                 \/ /\ Claimed = {} /\ entry'[i].st = "claimed"
                    /\ point'[c] = "resuming" /\ pc'[i] = "starting"
<1>1. PICK i \in Ids : i = Least(Unused) /\ entry[i].st = "none"
    <2>1. Unused \in SUBSET Ids /\ Unused # {}
        BY DEF Accept, Unused
    <2>2. Least(Unused) \in Unused
        BY <2>1, LeastEntry
    <2> QED BY <2>2 DEF Unused
<1>2. /\ Resumable /\ status' = status /\ resumedCount' = resumedCount /\ point[c] = "paused"
      /\ \/ /\ Claimed # {} /\ pc' = pc
            /\ entry' = [entry EXCEPT ![i] = [ctx |-> c, st |-> "pending"]]
            /\ point' = [point EXCEPT ![c] = "queued"]
         \/ /\ Claimed = {} /\ pc' = [pc EXCEPT ![i] = "starting"]
            /\ entry' = [entry EXCEPT ![i] = [ctx |-> c, st |-> "claimed"]]
            /\ point' = [point EXCEPT ![c] = "resuming"]
    BY <1>1 DEF Accept, Go
<1> QED BY <1>1, <1>2 DEF IInv, TInv, TypeOK, Agents, Ctx

\* A run settles its own entry and writes no point but its own.
LEMMA SettleShape ==
    ASSUME IInv, NEW i \in Ids, Settles(i)
    PROVE  /\ Ctx(i) \in Contexts /\ Ctx(i)' = Ctx(i)
           /\ pc[i] \in {"paused", "saved", "failed", "aborted", "retrying"}
           /\ entry'[i].st \in {"completed", "failed"}
           /\ pc'[i] \in {"draining", "leaving", "asking"}
           /\ \A j \in Ids : j # i => entry'[j] = entry[j]
           /\ \A y \in Agents : y # i => pc'[y] = pc[y]
           /\ \A d \in Contexts : d # Ctx(i) => point'[d] = point[d]
           /\ \/ /\ pc[i] = "paused" /\ point' = point
                 /\ status' = status /\ resumedCount' = resumedCount
              \/ /\ pc[i] = "saved" /\ point'[Ctx(i)] = "resumed"
                 /\ resumedCount' = resumedCount + 1
                 /\ status' = StatusOf(resumedCount', Cardinality(Points(point)), status)
              \/ /\ pc[i] = "failed" /\ point'[Ctx(i)] = "failed"
                 /\ status' = status /\ resumedCount' = resumedCount
              \/ /\ pc[i] \in {"aborted", "retrying"} /\ point'[Ctx(i)] = "paused"
                 /\ status' = status /\ resumedCount' = resumedCount
           /\ ran' = ran /\ faults' = faults
<1>1. PICK s \in {"completed", "failed"} : entry' = [entry EXCEPT ![i].st = s]
    BY DEF Settles, CloseEntry, Complete, MarkFailed, Reopen, Settle
<1>2. PICK q \in {"draining", "leaving", "asking"} : pc' = [pc EXCEPT ![i] = q]
    BY DEF Settles, CloseEntry, Complete, MarkFailed, Reopen, Step, Go
<1>3. pc[i] \in {"paused", "saved", "failed", "aborted", "retrying"}
    BY DEF Settles, CloseEntry, Complete, MarkFailed, Reopen, Step
<1>4. Ctx(i) \in Contexts
    BY <1>3 DEF IInv, TInv, RunsHaveEntries, Ctx
<1>5. /\ \A j \in Ids : j # i => entry'[j] = entry[j]
      /\ entry'[i].st = s /\ Ctx(i)' = Ctx(i)
    BY <1>1 DEF IInv, TInv, TypeOK, Ctx
<1>6. pc'[i] = q /\ \A y \in Agents : y # i => pc'[y] = pc[y]
    BY <1>2 DEF IInv, TInv, TypeOK, Agents
<1>7. ran' = ran /\ faults' = faults
    BY DEF Settles, CloseEntry, Complete, MarkFailed, Reopen, histVars
<1>8. \/ /\ pc[i] = "paused" /\ point' = point
         /\ status' = status /\ resumedCount' = resumedCount
      \/ /\ pc[i] = "saved" /\ point' = [point EXCEPT ![Ctx(i)] = "resumed"]
         /\ resumedCount' = resumedCount + 1
         /\ status' = StatusOf(resumedCount', Cardinality(Points(point)), status)
      \/ /\ pc[i] = "failed" /\ point' = [point EXCEPT ![Ctx(i)] = "failed"]
         /\ status' = status /\ resumedCount' = resumedCount
      \/ /\ pc[i] \in {"aborted", "retrying"} /\ point' = [point EXCEPT ![Ctx(i)] = "paused"]
         /\ status' = status /\ resumedCount' = resumedCount
    BY DEF Settles, CloseEntry, Complete, MarkFailed, Reopen, Step, rowVars
<1> QED BY <1>3, <1>4, <1>5, <1>6, <1>7, <1>8 DEF IInv, TInv, TypeOK

\* A drain claims a pending entry whose point is queued.
LEMMA DrainShape ==
    ASSUME IInv, NEW x \in Agents, DrainClaims(x)
    PROVE  \E i \in Pending :
              /\ Claimed = {} /\ point[Ctx(i)] = "queued" /\ Resumable
              /\ i \in Ids /\ Ctx(i) \in Contexts /\ Ctx(i)' = Ctx(i)
              /\ entry'[i].st = "claimed" /\ point'[Ctx(i)] = "resuming" /\ pc'[i] = "starting"
              /\ \A d \in Contexts : d # Ctx(i) => point'[d] = point[d]
              /\ \A j \in Ids : j # i => entry'[j] = entry[j]
              /\ \A y \in Agents : y # i => \/ pc'[y] = pc[y]
                                            \/ pc[y] \in {"draining", "leaving"} /\ pc'[y] = "over"
              /\ status' = status /\ resumedCount' = resumedCount
              /\ ran' = ran /\ faults' = faults
<1>1. PICK i \in Pending : i = Least(Pending)
    BY LeastEntry DEF DrainClaims, Pending
<1>2. i \in Ids /\ Ctx(i) \in Contexts
    BY DEF Pending, IInv, TInv, TypeOK, Ctx
<1>3. /\ Claimed = {} /\ point[Ctx(i)] = "queued" /\ Resumable
      /\ entry' = [entry EXCEPT ![i].st = "claimed"]
      /\ point' = [point EXCEPT ![Ctx(i)] = "resuming"]
      /\ pc' = [pc EXCEPT ![x] = "over", ![i] = "starting"]
      /\ pc[x] \in {"draining", "leaving"}
      /\ status' = status /\ resumedCount' = resumedCount
      /\ ran' = ran /\ faults' = faults
    BY <1>1 DEF DrainClaims, Draining, Settle, histVars
<1> QED BY <1>2, <1>3 DEF IInv, TInv, TypeOK, Agents, Ctx

\* A pause is stored by the one run there is, for points it may pause at.
LEMMA PersistShape ==
    ASSUME IInv, NEW i \in Ids, Persist(i)
    PROVE  /\ pc[i] = "pausing" /\ Claimed = {i} /\ Ctx(i) \in Contexts
           /\ entry' = entry /\ pc'[i] = "paused"
           /\ \A y \in Agents : y # i => pc'[y] = pc[y]
           /\ \E P \in SUBSET Follow[Ctx(i)] : \A c \in Contexts :
                 point'[c] = IF c \in P THEN "paused"
                             ELSE IF point[c] = "resuming" THEN "resumed" ELSE point[c]
           /\ resumedCount' = Cardinality(Resumed(point'))
           /\ status' = StatusOf(resumedCount', Cardinality(Points(point')), status)
           /\ ran' = ran /\ faults' = faults
<1>1. pc[i] = "pausing" /\ pc' = [pc EXCEPT ![i] = "paused"]
    BY DEF Persist, Step, Go
<1>2. Claimed = {i} /\ Ctx(i) \in Contexts
    BY <1>1, AloneAtWork DEF IInv, TInv, RunsHaveEntries, Ctx, AtWork
<1>3. /\ entry' = entry /\ ran' = ran /\ faults' = faults
      /\ \E P \in SUBSET Follow[Ctx(i)] : \A c \in Contexts :
            point'[c] = IF c \in P THEN "paused"
                        ELSE IF point[c] = "resuming" THEN "resumed" ELSE point[c]
      /\ resumedCount' = Cardinality(Resumed(point'))
      /\ status' = StatusOf(resumedCount', Cardinality(Points(point')), status)
    BY DEF Persist, histVars
<1> QED BY <1>1, <1>2, <1>3 DEF IInv, TInv, TypeOK, Agents

-----------------------------------------------------------------------------
(* The entries and their points.                                            *)

\* A run has an entry, and one that stopped on the way still holds its claim.
RunHasEntry == \A i \in Ids : pc[i] # "idle" => entry[i].st # "none"
StoppedIsClaimed == \A i \in Ids : pc[i] \in {"aborted", "retrying"} => entry[i].st = "claimed"

\* Nothing is there before the first pause is stored.
NothingStored ==
    status = "none" => /\ \A i \in Ids : entry[i].st = "none"
                       /\ \A c \in Contexts : point[c] = "absent"

\* No two busy entries are for one point, and that point cannot be asked for.
BusyAlone == \A i, j \in Ids : Busy(i) /\ Busy(j) /\ Ctx(i) = Ctx(j) => i = j
BusyIsTaken == \A i \in Ids : Busy(i) => point[Ctx(i)] # "paused"

EntryHasPoint == \A i \in Ids : entry[i].st # "none" => point[Ctx(i)] # "absent"

\* A point behind another is there only after the work of the other is done.
FollowIsDone ==
    \A p \in Contexts : \A q \in Follow[p] \cap Contexts :
        point[q] # "absent" => /\ point[p] \notin {"absent", "paused"}
                               /\ \A i \in Ids : Ctx(i) = p => ~ Busy(i)

RInv == RunHasEntry /\ StoppedIsClaimed /\ NothingStored
QInv == BusyAlone /\ BusyIsTaken /\ EntryHasPoint /\ FollowIsDone

\* A busy entry is pending or claimed.
LEMMA BusyIsOpen ==
    ASSUME IInv, RInv, NEW i \in Ids, Busy(i)
    PROVE  entry[i].st \in {"pending", "claimed"} /\ Ctx(i) \in Contexts
<1>1. entry[i].st \in {"pending", "claimed"}
    BY DEF Busy, Live, RInv, StoppedIsClaimed, IInv, WorkIsClaimed, Executing, Claimed
<1> QED BY <1>1 DEF IInv, TInv, TypeOK, Ctx

\* A quiet step makes nothing busy that was not.
LEMMA QuietBusy ==
    ASSUME IInv, Quiet, NEW i \in Ids
    PROVE  /\ Busy(i)' => Busy(i)
           /\ Live(i)' => Live(i)
           /\ Ctx(i)' = Ctx(i)
BY DEF Quiet, QuietQueue, QuietRuns, Busy, Live

\* Every step keeps a stopped run's claim, and what is there stays there.
LEMMA RowStep ==
    ASSUME IInv, RInv, [Next]_vars
    PROVE  RInv'
<1>1. CASE Quiet
    <2>1. ASSUME NEW i \in Ids, pc'[i] \in {"aborted", "retrying"} PROVE entry'[i].st = "claimed"
        <3>1. pc[i] \in {"starting", "running", "aborted", "retrying"}
            BY <1>1, <2>1 DEF Quiet, QuietRuns
        <3>2. entry[i].st = "claimed"
            BY <3>1 DEF RInv, StoppedIsClaimed, IInv, WorkIsClaimed, Executing, Claimed
        <3> QED BY <1>1, <3>2 DEF Quiet, QuietQueue
    <2>2. NothingStored'
        BY <1>1 DEF Quiet, QuietRow, QuietQueue, RInv, NothingStored
    <2>3. RunHasEntry'
        BY <1>1 DEF Quiet, QuietRuns, QuietQueue, RInv, RunHasEntry
    <2> QED BY <2>1, <2>2, <2>3 DEF RInv, StoppedIsClaimed
<1>2. CASE FirstPause
    BY <1>2 DEF FirstPause, RInv, RunHasEntry, StoppedIsClaimed, NothingStored
<1>3. ASSUME NEW c \in Contexts, Accept(c) PROVE RInv'
    BY <1>3, AcceptShape DEF RInv, RunHasEntry, StoppedIsClaimed, NothingStored, Resumable, Agents
<1>4. ASSUME NEW i \in Ids, Persist(i) PROVE RInv'
    <2>1. status' # "none"
        <3>1. status # "none"
            BY <1>4, PersistShape DEF Claimed, RInv, NothingStored
        <3> QED BY <1>4, <3>1, PersistShape DEF StatusOf
    <2> QED BY <1>4, <2>1, PersistShape DEF RInv, RunHasEntry, StoppedIsClaimed, NothingStored, Agents
<1>5. ASSUME NEW i \in Ids, Settles(i) PROVE RInv'
    <2>1. status # "none"
        BY <1>5, SettleShape DEF RInv, RunHasEntry, NothingStored
    <2>2. status' # "none"
        BY <1>5, <2>1, SettleShape DEF StatusOf
    <2>3. StoppedIsClaimed' /\ RunHasEntry'
        BY <1>5, SettleShape DEF RInv, RunHasEntry, StoppedIsClaimed, Agents
    <2> QED BY <2>2, <2>3 DEF RInv, NothingStored
<1>6. ASSUME NEW x \in Agents, DrainClaims(x) PROVE RInv'
    BY <1>6, DrainShape DEF RInv, RunHasEntry, StoppedIsClaimed, NothingStored, Resumable, Agents
<1> QED BY <1>1, <1>2, <1>3, <1>4, <1>5, <1>6, Shapes

\* A step that writes at most one point, and makes nothing busy that was not.
LEMMA NarrowQueue ==
    ASSUME IInv, RInv, QInv, NEW c \in Contexts,
           \A d \in Contexts : d # c => point'[d] = point[d],
           point[c] # "absent", point'[c] # "absent",
           point'[c] = "paused" => /\ \A j \in Ids : Ctx(j) = c => ~ Busy(j)'
                                   /\ \A q \in Follow[c] \cap Contexts : point[q] = "absent",
           \A j \in Ids : /\ Busy(j)' => Busy(j)
                          /\ Ctx(j)' = Ctx(j)
                          /\ entry'[j].st # "none" => entry[j].st # "none"
    PROVE  QInv'
<1>1. BusyAlone'
    BY DEF QInv, BusyAlone
<1>2. BusyIsTaken'
    BY BusyIsOpen DEF QInv, BusyIsTaken
<1>3. EntryHasPoint'
    <2>1. ASSUME NEW j \in Ids, entry'[j].st # "none" PROVE point'[Ctx(j)] # "absent"
        BY <2>1 DEF QInv, EntryHasPoint, IInv, TInv, TypeOK, Ctx
    <2> QED BY <2>1 DEF EntryHasPoint
<1>4. FollowIsDone'
    <2> SUFFICES ASSUME NEW p \in Contexts, NEW q \in Follow[p] \cap Contexts, point'[q] # "absent"
                 PROVE  /\ point'[p] \notin {"absent", "paused"}
                        /\ \A i \in Ids : Ctx(i)' = p => ~ Busy(i)'
        BY DEF FollowIsDone
    <2>1. point[q] # "absent"
        OBVIOUS
    <2>2. point[p] \notin {"absent", "paused"} /\ \A i \in Ids : Ctx(i) = p => ~ Busy(i)
        BY <2>1 DEF QInv, FollowIsDone
    <2> QED BY <2>1, <2>2
<1> QED BY <1>1, <1>2, <1>3, <1>4 DEF QInv

\* A request that is accepted is the only busy entry of its point.
LEMMA AcceptQueue ==
    ASSUME IInv, RInv, QInv, NEW c \in Contexts, Accept(c)
    PROVE  QInv'
<1>1. PICK i \in Ids :
          /\ point[c] = "paused" /\ Ctx(i)' = c /\ point'[c] \in {"queued", "resuming"}
          /\ \A d \in Contexts : d # c => point'[d] = point[d]
          /\ \A j \in Ids : j # i => entry'[j] = entry[j] /\ pc'[j] = pc[j]
    BY AcceptShape DEF Agents
<1>2. \A j \in Ids : j # i => (Busy(j)' <=> Busy(j)) /\ Ctx(j)' = Ctx(j)
    BY <1>1 DEF Busy, Live, Ctx
<1>3. \A j \in Ids : Busy(j) => Ctx(j) # c /\ Ctx(j) \in Contexts
    BY <1>1, BusyIsOpen DEF QInv, BusyIsTaken
<1>4. BusyAlone'
    BY <1>1, <1>2, <1>3 DEF QInv, BusyAlone
<1>5. BusyIsTaken'
    BY <1>1, <1>2, <1>3 DEF QInv, BusyIsTaken
<1>6. EntryHasPoint'
    <2>1. ASSUME NEW j \in Ids, entry'[j].st # "none" PROVE point'[Ctx(j)'] # "absent"
        BY <1>1, <1>2, <2>1 DEF QInv, EntryHasPoint, IInv, TInv, TypeOK, Ctx
    <2> QED BY <2>1 DEF EntryHasPoint, Ctx
<1>7. FollowIsDone'
    <2> SUFFICES ASSUME NEW p \in Contexts, NEW q \in Follow[p] \cap Contexts, point'[q] # "absent"
                 PROVE  /\ point'[p] \notin {"absent", "paused"}
                        /\ \A j \in Ids : Ctx(j)' = p => ~ Busy(j)'
        BY DEF FollowIsDone
    <2>1. point[q] # "absent"
        BY <1>1
    <2>2. point[p] \notin {"absent", "paused"} /\ \A j \in Ids : Ctx(j) = p => ~ Busy(j)
        BY <2>1 DEF QInv, FollowIsDone
    <2>3. p # c
        BY <1>1, <2>2
    <2> QED BY <1>1, <1>2, <2>2, <2>3
<1> QED BY <1>4, <1>5, <1>6, <1>7 DEF QInv

\* A pause that is stored opens points that were not there, of one origin.
LEMMA PersistQueue ==
    ASSUME OneOrigin, IInv, RInv, QInv, NEW i \in Ids, Persist(i)
    PROVE  QInv'
<1>1. /\ pc[i] = "pausing" /\ pc'[i] = "paused" /\ entry' = entry /\ Ctx(i) \in Contexts
      /\ Claimed = {i} /\ \A j \in Ids : j # i => pc'[j] = pc[j]
    BY PersistShape DEF Agents
<1>2. PICK P \in SUBSET Follow[Ctx(i)] : \A c \in Contexts :
          point'[c] = IF c \in P THEN "paused"
                      ELSE IF point[c] = "resuming" THEN "resumed" ELSE point[c]
    BY PersistShape
<1>3. Busy(i) /\ ~ Busy(i)'
    BY <1>1 DEF Busy, Live, Claimed
<1>4. \A j \in Ids : Ctx(j)' = Ctx(j) /\ (Busy(j)' => Busy(j) /\ j # i)
    BY <1>1, <1>3 DEF Busy, Live, Ctx
<1>5. /\ \A c \in P \cap Contexts : point[c] = "absent"
      /\ point[Ctx(i)] \notin {"absent", "paused"}
    <2>1. point[Ctx(i)] # "absent"
        BY <1>3, BusyIsOpen DEF QInv, EntryHasPoint
    <2> QED BY <1>1, <1>3, <2>1 DEF QInv, BusyIsTaken, FollowIsDone
<1>6. \A j \in Ids : entry[j].st # "none" => Ctx(j) \in Contexts /\ Ctx(j) \notin P
    BY <1>5 DEF QInv, EntryHasPoint, IInv, TInv, TypeOK, Ctx
<1>7. BusyAlone'
    BY <1>4 DEF QInv, BusyAlone
<1>8. BusyIsTaken'
    <2>1. ASSUME NEW j \in Ids, Busy(j) PROVE point'[Ctx(j)] # "paused"
        BY <1>2, <1>6, <2>1, BusyIsOpen DEF QInv, BusyIsTaken
    <2> QED BY <1>4, <2>1 DEF BusyIsTaken
<1>9. EntryHasPoint'
    <2>1. ASSUME NEW j \in Ids, entry[j].st # "none" PROVE point'[Ctx(j)] # "absent"
        BY <1>2, <1>6, <2>1 DEF QInv, EntryHasPoint
    <2> QED BY <1>1, <1>4, <2>1 DEF EntryHasPoint
<1>10. FollowIsDone'
    <2> SUFFICES ASSUME NEW p \in Contexts, NEW q \in Follow[p] \cap Contexts, point'[q] # "absent"
                 PROVE  /\ point'[p] \notin {"absent", "paused"}
                        /\ \A j \in Ids : Ctx(j)' = p => ~ Busy(j)'
        BY DEF FollowIsDone
    <2>1. CASE q \in P
        <3>1. p = Ctx(i)
            BY <1>1, <2>1 DEF OneOrigin
        <3>2. point'[p] \notin {"absent", "paused"}
            BY <1>2, <1>5, <3>1
        <3>3. \A j \in Ids : Ctx(j) = p /\ Busy(j) => j = i
            BY <1>3, <3>1 DEF QInv, BusyAlone
        <3> QED BY <1>4, <3>2, <3>3
    <2>2. CASE q \notin P
        <3>1. point[q] # "absent"
            BY <1>2, <2>2
        <3>2. point[p] \notin {"absent", "paused"} /\ \A j \in Ids : Ctx(j) = p => ~ Busy(j)
            BY <3>1 DEF QInv, FollowIsDone
        <3> QED BY <1>2, <1>4, <1>5, <3>2
    <2> QED BY <2>1, <2>2
<1> QED BY <1>7, <1>8, <1>9, <1>10 DEF QInv

\* Every step keeps the entries in step with their points.
LEMMA QueueStep ==
    ASSUME OneOrigin, IInv, RInv, QInv, [Next]_vars
    PROVE  QInv'
<1>1. CASE Quiet
    <2>1. point' = point
        BY <1>1 DEF Quiet, QuietRow
    <2>2. \A j \in Ids : /\ Busy(j)' => Busy(j)
                         /\ Ctx(j)' = Ctx(j)
                         /\ entry'[j].st # "none" => entry[j].st # "none"
        BY <1>1, QuietBusy DEF Quiet, QuietQueue
    <2> QED BY <2>1, <2>2 DEF QInv, BusyAlone, BusyIsTaken, EntryHasPoint, FollowIsDone
<1>2. CASE FirstPause
    <2>1. /\ \A j \in Ids : entry'[j].st = "none" /\ ~ Busy(j)
          /\ entry' = entry /\ pc' = pc
        BY <1>2, BusyIsOpen DEF FirstPause, RInv, NothingStored
    <2>2. \A j \in Ids : ~ Busy(j)'
        BY <2>1 DEF Busy, Live
    <2>3. FollowIsDone'
        BY <1>2 DEF FirstPause, FollowIsDone, OneOrigin
    <2> QED BY <2>1, <2>2, <2>3 DEF QInv, BusyAlone, BusyIsTaken, EntryHasPoint
<1>3. ASSUME NEW c \in Contexts, Accept(c) PROVE QInv'
    BY <1>3, AcceptQueue
<1>4. ASSUME NEW i \in Ids, Persist(i) PROVE QInv'
    BY <1>4, PersistQueue
<1>5. ASSUME NEW i \in Ids, Settles(i) PROVE QInv'
    <2> DEFINE c == Ctx(i)
    <2>1. /\ \A d \in Contexts : d # c => point'[d] = point[d]
          /\ c \in Contexts /\ point[c] # "absent" /\ point'[c] # "absent"
        BY <1>5, SettleShape DEF RInv, RunHasEntry, QInv, EntryHasPoint
    <2>2. \A j \in Ids : /\ Busy(j)' => Busy(j) /\ j # i
                         /\ Ctx(j)' = Ctx(j)
                         /\ entry'[j].st # "none" => entry[j].st # "none"
        BY <1>5, SettleShape DEF RInv, RunHasEntry, Busy, Live, Ctx, Agents
    <2>3. ASSUME point'[c] = "paused"
          PROVE  /\ \A j \in Ids : Ctx(j) = c => ~ Busy(j)'
                 /\ \A q \in Follow[c] \cap Contexts : point[q] = "absent"
        <3>1. CASE pc[i] \in {"aborted", "retrying"}
            <4>1. Busy(i)
                BY <3>1 DEF Busy, Live
            <4>2. \A j \in Ids : Ctx(j) = c => ~ Busy(j)'
                BY <2>2, <4>1 DEF QInv, BusyAlone
            <4> QED BY <2>1, <4>1, <4>2 DEF QInv, FollowIsDone
        <3>2. CASE pc[i] = "paused" /\ point' = point
            <4>1. point[c] = "paused"
                BY <2>3, <3>2
            <4>2. \A j \in Ids : Ctx(j) = c => ~ Busy(j)
                BY <4>1 DEF QInv, BusyIsTaken
            <4> QED BY <2>1, <2>2, <4>1, <4>2 DEF QInv, FollowIsDone
        <3> QED BY <1>5, <2>3, <3>1, <3>2, SettleShape
    <2> HIDE DEF c
    <2> QED BY <2>1, <2>2, <2>3, NarrowQueue
<1>6. ASSUME NEW x \in Agents, DrainClaims(x) PROVE QInv'
    <2>1. PICK i \in Pending :
              /\ i \in Ids /\ Ctx(i) \in Contexts /\ Ctx(i)' = Ctx(i)
              /\ point[Ctx(i)] = "queued" /\ point'[Ctx(i)] = "resuming"
              /\ \A d \in Contexts : d # Ctx(i) => point'[d] = point[d]
              /\ \A j \in Ids : j # i => entry'[j] = entry[j]
              /\ \A y \in Agents : y # i => pc'[y] = pc[y] \/ pc'[y] = "over"
        BY <1>6, DrainShape
    <2>2. \A j \in Ids : /\ Busy(j)' => Busy(j)
                         /\ Ctx(j)' = Ctx(j)
                         /\ entry'[j].st # "none" => entry[j].st # "none"
        BY <2>1 DEF Busy, Live, Pending, Ctx, Agents
    <2> QED BY <2>1, <2>2, NarrowQueue
<1> QED BY <1>1, <1>2, <1>3, <1>4, <1>5, <1>6, Shapes

-----------------------------------------------------------------------------
(* The work behind a point is done once.                                    *)

\* While nothing refuses, what is still to be done was not done before, and a
\* point that can be asked for is one whose work was not done.
NotDoneTwice ==
    /\ \A i \in Ids : pc[i] # "retrying" /\ (Live(i) => ran[Ctx(i)] = 0)
    /\ \A c \in Contexts : ran[c] <= 1 /\ (point[c] \in {"absent", "paused"} => ran[c] = 0)

\* Every step keeps it.
LEMMA OnceStep ==
    ASSUME ~ Outages, OneOrigin, IInv, RInv, QInv, NotDoneTwice, [Next]_vars
    PROVE  NotDoneTwice'
<1>1. CASE Quiet
    <2>1. /\ point' = point
          /\ \A j \in Ids : /\ Live(j)' => Live(j)
                            /\ Ctx(j)' = Ctx(j)
                            /\ pc'[j] # "retrying"
        BY <1>1, QuietBusy DEF Quiet, QuietRow, QuietRuns, NotDoneTwice
    <2>2. CASE ran' = ran
        BY <2>1, <2>2 DEF NotDoneTwice
    <2>3. ASSUME NEW i \in Ids, pc[i] = "running", pc'[i] \in {"pausing", "succeeded"},
                 entry' = entry, \A j \in Ids \ {i} : pc'[j] = pc[j],
                 ran' = [ran EXCEPT ![Ctx(i)] = @ + 1]
          PROVE  NotDoneTwice'
        <3>1. Live(i) /\ Busy(i) /\ entry[i].st = "claimed" /\ ~ Live(i)'
            BY <2>3 DEF Live, Busy, IInv, WorkIsClaimed, Executing, Claimed
        <3>2. Ctx(i) \in Contexts /\ point[Ctx(i)] \notin {"absent", "paused"} /\ ran[Ctx(i)] = 0
            BY <3>1, BusyIsOpen DEF QInv, BusyIsTaken, EntryHasPoint, NotDoneTwice
        <3>3. \A j \in Ids : Live(j)' => Ctx(j) # Ctx(i)
            BY <2>1, <3>1 DEF QInv, BusyAlone, Busy
        <3>4. ran'[Ctx(i)] = 1 /\ \A c \in Contexts : c # Ctx(i) => ran'[c] = ran[c]
            BY <2>3, <3>2 DEF IInv, TInv, TypeOK
        <3>5. ASSUME NEW j \in Ids, Live(j)' PROVE ran'[Ctx(j)] = 0
            <4>1. Live(j) /\ Ctx(j) # Ctx(i) /\ Ctx(j) \in Contexts
                BY <2>1, <3>3, <3>5, BusyIsOpen DEF Busy
            <4> QED BY <3>4, <4>1 DEF NotDoneTwice
        <3>6. \A c \in Contexts : ran'[c] <= 1 /\ (point'[c] \in {"absent", "paused"} => ran'[c] = 0)
            BY <2>1, <3>2, <3>4 DEF NotDoneTwice
        <3> QED BY <2>1, <3>5, <3>6 DEF NotDoneTwice
    <2> QED BY <1>1, <2>2, <2>3 DEF Quiet, QuietHistory
<1>2. CASE FirstPause
    <2>1. entry' = entry /\ pc' = pc /\ ran' = ran
        BY <1>2 DEF FirstPause, histVars
    <2>2. \A c \in Contexts : point[c] = "absent"
        BY <1>2 DEF FirstPause, RInv, NothingStored
    <2> QED BY <2>1, <2>2 DEF NotDoneTwice, Live, Ctx
<1>3. ASSUME NEW c \in Contexts, Accept(c), ran' = ran PROVE NotDoneTwice'
    <2>1. PICK i \in Ids :
              /\ point[c] = "paused" /\ Ctx(i)' = c /\ point'[c] \in {"queued", "resuming"}
              /\ \A d \in Contexts : d # c => point'[d] = point[d]
              /\ \A j \in Ids : j # i => entry'[j] = entry[j] /\ pc'[j] = pc[j]
              /\ pc'[i] \in {pc[i], "starting"}
        BY <1>3, AcceptShape DEF Agents
    <2>2. \A j \in Ids : j # i => Live(j)' = Live(j) /\ Ctx(j)' = Ctx(j)
        BY <2>1 DEF Live, Ctx
    <2> QED BY <1>3, <2>1, <2>2 DEF NotDoneTwice
<1>4. ASSUME NEW i \in Ids, Persist(i) PROVE NotDoneTwice'
    <2>1. /\ pc[i] = "pausing" /\ pc'[i] = "paused" /\ entry' = entry /\ Ctx(i) \in Contexts
          /\ \A j \in Ids : j # i => pc'[j] = pc[j]
          /\ ran' = ran
        BY <1>4, PersistShape DEF Agents
    <2>2. PICK P \in SUBSET Follow[Ctx(i)] : \A c \in Contexts :
              point'[c] = IF c \in P THEN "paused"
                          ELSE IF point[c] = "resuming" THEN "resumed" ELSE point[c]
        BY <1>4, PersistShape
    <2>3. \A c \in P \cap Contexts : point[c] = "absent"
        <3>1. Busy(i)
            BY <2>1 DEF Busy
        <3> QED BY <2>1, <3>1 DEF QInv, FollowIsDone
    <2>4. \A j \in Ids : (Live(j)' => Live(j)) /\ Ctx(j)' = Ctx(j)
        BY <2>1 DEF Live, Ctx
    <2>5. \A c \in Contexts : point'[c] \in {"absent", "paused"} => point[c] \in {"absent", "paused"}
        BY <2>2, <2>3
    <2> QED BY <2>1, <2>4, <2>5 DEF NotDoneTwice
<1>5. ASSUME NEW i \in Ids, Settles(i) PROVE NotDoneTwice'
    <2>1. /\ Ctx(i) \in Contexts /\ ran' = ran
          /\ \A d \in Contexts : d # Ctx(i) => point'[d] = point[d]
          /\ \A j \in Ids : j # i => entry'[j] = entry[j] /\ pc'[j] = pc[j]
          /\ Ctx(i)' = Ctx(i)
          /\ pc'[i] \in {"draining", "leaving", "asking"} /\ entry'[i].st # "pending"
        BY <1>5, SettleShape DEF Agents
    <2>2. \A j \in Ids : (Live(j)' => Live(j)) /\ Ctx(j)' = Ctx(j)
        BY <2>1 DEF Live, Ctx
    <2>3. point'[Ctx(i)] \in {"absent", "paused"} => point'[Ctx(i)] = point[Ctx(i)] \/ ran[Ctx(i)] = 0
        BY <1>5, SettleShape DEF NotDoneTwice, Live
    <2> QED BY <2>1, <2>2, <2>3 DEF NotDoneTwice
<1>6. ASSUME NEW x \in Agents, DrainClaims(x) PROVE NotDoneTwice'
    <2>1. PICK i \in Pending :
              /\ i \in Ids /\ Ctx(i) \in Contexts /\ Ctx(i)' = Ctx(i)
              /\ point'[Ctx(i)] = "resuming" /\ pc'[i] = "starting"
              /\ \A d \in Contexts : d # Ctx(i) => point'[d] = point[d]
              /\ \A j \in Ids : j # i => entry'[j] = entry[j]
              /\ \A y \in Agents : y # i => pc'[y] = pc[y] \/ pc'[y] = "over"
              /\ ran' = ran
        BY <1>6, DrainShape
    <2>2. \A j \in Ids : (Live(j)' => Live(j)) /\ Ctx(j)' = Ctx(j)
        BY <2>1 DEF Live, Pending, Ctx, Agents
    <2> QED BY <2>1, <2>2 DEF NotDoneTwice, Agents
<1> QED BY <1>1, <1>2, <1>3, <1>4, <1>5, <1>6, Shapes

\* The invariants hold initially.
LEMMA QueueInit ==
    ASSUME Init
    PROVE  RInv /\ QInv /\ NotDoneTwice
BY DEF Init, RInv, RunHasEntry, StoppedIsClaimed, NothingStored, QInv, BusyAlone, BusyIsTaken,
       EntryHasPoint, FollowIsDone, NotDoneTwice, Busy, Live, NoEntry, Agents, Ctx

\* However often a point is asked for, by however many callers and by the
\* poller, and whoever dies on the way: the work behind it is done once, as
\* long as Redis, the event buffer and the job queue answer. A run whose end
\* cannot be published opens its point again (the code accepts that).
THEOREM WorkIsDoneOnce == ASSUME ~ Outages, OneOrigin PROVE Spec => []ResumedOnce
<1>1. Init => IInv /\ RInv /\ QInv /\ NotDoneTwice
    BY InvInit, QueueInit
<1>2. IInv /\ RInv /\ QInv /\ NotDoneTwice /\ [Next]_vars
          => IInv' /\ RInv' /\ QInv' /\ NotDoneTwice'
    BY InvStep, RowStep, QueueStep, OnceStep
<1>3. NotDoneTwice => ResumedOnce
    BY DEF NotDoneTwice, ResumedOnce
<1> QED BY <1>1, <1>2, <1>3, PTL DEF Spec

-----------------------------------------------------------------------------
(* As long as nothing is killed: a claim is for a point that is being        *)
(* resumed, and the entries waiting are those of the queued points.          *)

\* A run that failed still holds its claim.
FailedIsClaimed == \A i \in Ids : pc[i] = "failed" => entry[i].st = "claimed"

ClaimIsResuming ==
    \A i \in Ids : entry[i].st = "claimed" /\ pc[i] # "paused" => point[Ctx(i)] = "resuming"

MInv == faults = 0 => FailedIsClaimed /\ ClaimIsResuming

\* A step that leaves nothing broken starts where nothing is broken.
LEMMA Unbroken ==
    ASSUME IInv, [Next]_vars, faults' = 0
    PROVE  faults = 0
BY FaultsStep

\* The run that settles its entry held the claim.
LEMMA SettlesItsClaim ==
    ASSUME IInv, RInv, FailedIsClaimed, NEW i \in Ids, Settles(i)
    PROVE  entry[i].st = "claimed" /\ \A j \in Ids : j # i => entry[j].st # "claimed"
<1>1. entry[i].st = "claimed"
    BY SettleShape
       DEF RInv, StoppedIsClaimed, FailedIsClaimed, IInv, WorkIsClaimed, Executing, Claimed
<1> QED BY <1>1 DEF IInv, ClaimIsOne, Claimed

\* Every step keeps the claims and their points together.
LEMMA ClaimStep ==
    ASSUME IInv, RInv, MInv, [Next]_vars
    PROVE  MInv'
<1> SUFFICES ASSUME faults' = 0 PROVE FailedIsClaimed' /\ ClaimIsResuming'
    BY DEF MInv
<1>0. faults = 0 /\ FailedIsClaimed /\ ClaimIsResuming
    BY Unbroken DEF MInv
<1>1. CASE Quiet
    <2>1. ASSUME NEW i \in Ids, pc'[i] = "failed" PROVE entry'[i].st = "claimed"
        <3>1. pc[i] \in {"failed", "running"}
            BY <1>1, <2>1 DEF Quiet, QuietRuns
        <3>2. entry[i].st = "claimed"
            BY <1>0, <3>1 DEF FailedIsClaimed, IInv, WorkIsClaimed, Executing, Claimed
        <3> QED BY <1>1, <3>2 DEF Quiet, QuietQueue
    <2>2. ASSUME NEW i \in Ids, entry'[i].st = "claimed", pc'[i] # "paused"
          PROVE  point'[Ctx(i)'] = "resuming"
        <3>1. entry[i].st = "claimed" /\ pc[i] # "paused" /\ Ctx(i)' = Ctx(i) /\ point' = point
            BY <1>1, <2>2 DEF Quiet, QuietRow, QuietQueue, QuietRuns
        <3> QED BY <1>0, <3>1 DEF ClaimIsResuming
    <2> QED BY <2>1, <2>2 DEF FailedIsClaimed, ClaimIsResuming, Ctx
<1>2. CASE FirstPause
    <2>1. \A i \in Ids : entry'[i] = entry[i] /\ entry[i].st = "none" /\ pc'[i] = pc[i]
        BY <1>2 DEF FirstPause, RInv, NothingStored
    <2> QED BY <1>0, <2>1 DEF FailedIsClaimed, ClaimIsResuming
<1>3. ASSUME NEW c \in Contexts, Accept(c) PROVE FailedIsClaimed' /\ ClaimIsResuming'
    <2>1. PICK i \in Ids :
              /\ point[c] = "paused" /\ entry[i].st = "none" /\ Ctx(i)' = c
              /\ \A d \in Contexts : d # c => point'[d] = point[d]
              /\ \A j \in Ids : j # i => entry'[j] = entry[j] /\ pc'[j] = pc[j]
              /\ \/ entry'[i].st = "pending" /\ pc'[i] = pc[i]
                 \/ entry'[i].st = "claimed" /\ point'[c] = "resuming" /\ pc'[i] = "starting"
        BY <1>3, AcceptShape DEF Agents
    <2>2. FailedIsClaimed'
        BY <1>0, <2>1 DEF FailedIsClaimed
    <2>3. ASSUME NEW j \in Ids, j # i, entry'[j].st = "claimed", pc'[j] # "paused"
          PROVE  point'[Ctx(j)'] = "resuming"
        <3>1. Ctx(j)' = Ctx(j) /\ Ctx(j) \in Contexts /\ point[Ctx(j)] = "resuming"
            BY <1>0, <2>1, <2>3 DEF ClaimIsResuming, Ctx, IInv, TInv, TypeOK
        <3> QED BY <2>1, <3>1
    <2> QED BY <2>1, <2>2, <2>3 DEF ClaimIsResuming, Ctx
<1>4. ASSUME NEW i \in Ids, Persist(i) PROVE FailedIsClaimed' /\ ClaimIsResuming'
    <2>1. /\ pc'[i] = "paused" /\ entry' = entry /\ Claimed = {i}
          /\ \A j \in Ids : j # i => pc'[j] = pc[j]
        BY <1>4, PersistShape DEF Agents
    <2> QED BY <1>0, <2>1 DEF FailedIsClaimed, ClaimIsResuming, Claimed
<1>5. ASSUME NEW i \in Ids, Settles(i) PROVE FailedIsClaimed' /\ ClaimIsResuming'
    <2>1. \A j \in Ids : j # i => entry[j].st # "claimed"
        BY <1>0, <1>5, SettlesItsClaim
    <2>2. /\ entry'[i].st \in {"completed", "failed"} /\ pc'[i] # "failed"
          /\ \A j \in Ids : j # i => entry'[j] = entry[j] /\ pc'[j] = pc[j]
        BY <1>5, SettleShape DEF Agents
    <2> QED BY <1>0, <2>1, <2>2 DEF FailedIsClaimed, ClaimIsResuming
<1>6. ASSUME NEW x \in Agents, DrainClaims(x) PROVE FailedIsClaimed' /\ ClaimIsResuming'
    <2>1. PICK i \in Pending :
              /\ Claimed = {} /\ i \in Ids /\ Ctx(i)' = Ctx(i)
              /\ entry'[i].st = "claimed" /\ point'[Ctx(i)] = "resuming" /\ pc'[i] = "starting"
              /\ \A j \in Ids : j # i => entry'[j] = entry[j] /\ pc'[j] \in {pc[j], "over"}
        BY <1>6, DrainShape DEF Agents
    <2>2. \A j \in Ids : entry[j].st # "claimed"
        BY <2>1 DEF Claimed
    <2>3. FailedIsClaimed'
        BY <1>0, <2>1, <2>2 DEF FailedIsClaimed
    <2>4. ASSUME NEW j \in Ids, entry'[j].st = "claimed" PROVE point'[Ctx(j)'] = "resuming"
        BY <2>1, <2>2, <2>4
    <2> QED BY <2>3, <2>4 DEF ClaimIsResuming, Ctx
<1> QED BY <1>1, <1>2, <1>3, <1>4, <1>5, <1>6, Shapes

\* The entries waiting are for queued points, and as long as nobody cancels
\* every queued point has one.
WaitingIsQueued == \A i \in Pending : point[Ctx(i)] = "queued"

QueuedIsWaiting ==
    (\A k \in Requests : pc[k] = "idle")
        => \A c \in Contexts : point[c] = "queued" => \E i \in Pending : Ctx(i) = c

PInv == faults = 0 => WaitingIsQueued /\ QueuedIsWaiting

\* Every step keeps the queue and the points together.
LEMMA WaitingStep ==
    ASSUME OneOrigin, IInv, RInv, QInv, MInv, PInv, [Next]_vars
    PROVE  PInv'
<1> SUFFICES ASSUME faults' = 0 PROVE WaitingIsQueued' /\ QueuedIsWaiting'
    BY DEF PInv
<1>0. /\ faults = 0 /\ FailedIsClaimed /\ ClaimIsResuming /\ WaitingIsQueued /\ QueuedIsWaiting
      /\ \A i \in Pending : i \in Ids /\ entry[i].st = "pending" /\ Ctx(i) \in Contexts
    BY Unbroken DEF MInv, PInv, Pending, IInv, TInv, TypeOK, Ctx
<1>1. CASE Quiet
    <2>1. \A i \in Ids : /\ Ctx(i)' = Ctx(i)
                         /\ entry'[i].st = "pending" => entry[i].st = "pending"
        BY <1>1 DEF Quiet, QuietQueue
    <2>2. WaitingIsQueued'
        <3>1. ASSUME NEW i \in Pending' PROVE point'[Ctx(i)'] = "queued"
            <4>1. i \in Pending /\ Ctx(i)' = Ctx(i)
                BY <2>1, <3>1 DEF Pending
            <4> QED BY <1>0, <1>1, <4>1 DEF Quiet, QuietRow, WaitingIsQueued
        <3> QED BY <3>1 DEF WaitingIsQueued, Ctx
    <2>3. ASSUME \A k \in Requests : pc'[k] = "idle"
          PROVE  \A c \in Contexts : point'[c] = "queued" => \E i \in Pending' : Ctx(i)' = c
        <3>1. \A k \in Requests : pc[k] = "idle"
            BY <1>1, <2>3 DEF Quiet, QuietRuns
        <3>2. entry' = entry
            BY <1>0, <1>1, <3>1 DEF Quiet, QuietQueue, WaitingIsQueued
        <3>3. Pending' = Pending
            BY <3>2 DEF Pending
        <3> QED BY <1>0, <1>1, <2>1, <3>1, <3>3 DEF Quiet, QuietRow, QueuedIsWaiting
    <2> QED BY <2>2, <2>3 DEF QueuedIsWaiting, Ctx
<1>2. CASE FirstPause
    <2>1. Pending' = {}
        BY <1>2 DEF FirstPause, RInv, NothingStored, Pending
    <2>2. \A c \in Contexts : point'[c] # "queued"
        BY <1>2 DEF FirstPause
    <2> QED BY <2>1, <2>2 DEF WaitingIsQueued, QueuedIsWaiting
<1>3. ASSUME NEW c \in Contexts, Accept(c) PROVE WaitingIsQueued' /\ QueuedIsWaiting'
    <2>1. PICK i \in Ids :
              /\ point[c] = "paused" /\ entry[i].st = "none" /\ Ctx(i)' = c
              /\ \A d \in Contexts : d # c => point'[d] = point[d]
              /\ \A j \in Ids : j # i => entry'[j] = entry[j]
              /\ \A y \in Agents : y # i => pc'[y] = pc[y]
              /\ \/ entry'[i].st = "pending" /\ point'[c] = "queued"
                 \/ entry'[i].st = "claimed" /\ point'[c] = "resuming"
        BY <1>3, AcceptShape
    <2>2. \A j \in Pending : j # i /\ j \in Pending' /\ Ctx(j)' = Ctx(j) /\ Ctx(j) # c
        BY <1>0, <2>1 DEF Pending, Ctx, WaitingIsQueued
    <2>3. \A j \in Pending' : j = i \/ j \in Pending
        BY <2>1 DEF Pending
    <2>4. WaitingIsQueued'
        <3>1. ASSUME NEW j \in Pending' PROVE point'[Ctx(j)'] = "queued"
            <4>1. CASE j = i
                BY <2>1, <3>1, <4>1 DEF Pending
            <4>2. CASE j \in Pending
                BY <1>0, <2>1, <2>2, <4>2 DEF WaitingIsQueued
            <4> QED BY <2>3, <4>1, <4>2
        <3> QED BY <3>1 DEF WaitingIsQueued, Ctx
    <2>5. ASSUME \A k \in Requests : pc'[k] = "idle", NEW d \in Contexts, point'[d] = "queued"
          PROVE  \E j \in Pending' : Ctx(j)' = d
        <3>1. CASE d = c
            BY <2>1, <2>5, <3>1 DEF Pending
        <3>2. CASE d # c
            <4>1. \A k \in Requests : pc[k] = "idle"
                BY <2>1, <2>5, PauseAssumption DEF Agents
            <4>2. PICK j \in Pending : Ctx(j) = d
                BY <1>0, <2>1, <2>5, <3>2, <4>1 DEF QueuedIsWaiting
            <4> QED BY <2>2, <4>2
        <3> QED BY <3>1, <3>2
    <2> QED BY <2>4, <2>5 DEF QueuedIsWaiting, Ctx
<1>4. ASSUME NEW i \in Ids, Persist(i) PROVE WaitingIsQueued' /\ QueuedIsWaiting'
    <2>1. /\ pc[i] = "pausing" /\ entry' = entry /\ Ctx(i) \in Contexts
          /\ \A y \in Agents : y # i => pc'[y] = pc[y]
        BY <1>4, PersistShape
    <2>2. PICK P \in SUBSET Follow[Ctx(i)] : \A c \in Contexts :
              point'[c] = IF c \in P THEN "paused"
                          ELSE IF point[c] = "resuming" THEN "resumed" ELSE point[c]
        BY <1>4, PersistShape
    <2>3. \A c \in P \cap Contexts : point[c] = "absent"
        <3>1. Busy(i)
            BY <2>1 DEF Busy
        <3> QED BY <2>1, <3>1 DEF QInv, FollowIsDone
    <2>4. \A c \in Contexts : point'[c] = "queued" <=> point[c] = "queued"
        BY <2>2, <2>3
    <2>5. Pending' = Pending /\ \A j \in Ids : Ctx(j)' = Ctx(j)
        BY <2>1 DEF Pending, Ctx
    <2>6. \A k \in Requests : pc'[k] = pc[k]
        BY <2>1, PauseAssumption DEF Agents
    <2> QED BY <1>0, <2>4, <2>5, <2>6 DEF WaitingIsQueued, QueuedIsWaiting
<1>5. ASSUME NEW i \in Ids, Settles(i) PROVE WaitingIsQueued' /\ QueuedIsWaiting'
    <2>1. /\ Ctx(i) \in Contexts
          /\ \A d \in Contexts : d # Ctx(i) => point'[d] = point[d]
          /\ \A j \in Ids : j # i => entry'[j] = entry[j]
          /\ \A y \in Agents : y # i => pc'[y] = pc[y]
          /\ Ctx(i)' = Ctx(i) /\ entry'[i].st # "pending"
          /\ point'[Ctx(i)] # "queued" \/ point' = point
          /\ pc[i] = "paused" => point' = point
        BY <1>5, SettleShape
    <2>2. entry[i].st = "claimed"
        BY <1>0, <1>5, SettlesItsClaim
    <2>3. Pending' = Pending /\ \A j \in Pending : Ctx(j)' = Ctx(j)
        BY <2>1, <2>2 DEF Pending, Ctx
    <2>4. \A k \in Requests : pc'[k] = pc[k]
        BY <2>1, PauseAssumption DEF Agents
    <2>5. CASE point' = point
        BY <1>0, <2>3, <2>4, <2>5 DEF WaitingIsQueued, QueuedIsWaiting
    <2>6. CASE pc[i] # "paused" /\ point'[Ctx(i)] # "queued"
        <3>1. point[Ctx(i)] = "resuming"
            BY <1>0, <2>2, <2>6 DEF ClaimIsResuming
        <3>2. \A c \in Contexts : point'[c] = "queued" <=> point[c] = "queued"
            BY <2>1, <2>6, <3>1
        <3> QED BY <1>0, <2>3, <2>4, <3>2 DEF WaitingIsQueued, QueuedIsWaiting
    <2> QED BY <2>1, <2>5, <2>6
<1>6. ASSUME NEW x \in Agents, DrainClaims(x) PROVE WaitingIsQueued' /\ QueuedIsWaiting'
    <2>1. PICK i \in Pending :
              /\ i \in Ids /\ Ctx(i) \in Contexts /\ Ctx(i)' = Ctx(i)
              /\ entry'[i].st = "claimed" /\ point'[Ctx(i)] = "resuming"
              /\ \A d \in Contexts : d # Ctx(i) => point'[d] = point[d]
              /\ \A j \in Ids : j # i => entry'[j] = entry[j]
              /\ \A y \in Agents : y # i => pc'[y] = pc[y] \/ pc'[y] = "over"
        BY <1>6, DrainShape
    <2>2. /\ Pending' = Pending \ {i}
          /\ \A j \in Pending' : Ctx(j)' = Ctx(j) /\ Ctx(j) # Ctx(i)
        <3>1. Pending' = Pending \ {i}
            BY <2>1 DEF Pending
        <3>2. \A j \in Pending : Busy(j)
            BY <1>0 DEF Busy, Live
        <3>3. ASSUME NEW j \in Pending \ {i} PROVE Ctx(j)' = Ctx(j) /\ Ctx(j) # Ctx(i)
            BY <1>0, <2>1, <3>2 DEF QInv, BusyAlone, Ctx
        <3> QED BY <3>1, <3>3
    <2>3. WaitingIsQueued'
        <3>1. ASSUME NEW j \in Pending' PROVE point'[Ctx(j)'] = "queued"
            BY <1>0, <2>1, <2>2, <3>1 DEF WaitingIsQueued
        <3> QED BY <3>1 DEF WaitingIsQueued, Ctx
    <2>4. ASSUME \A k \in Requests : pc'[k] = "idle", NEW d \in Contexts, point'[d] = "queued"
          PROVE  \E j \in Pending' : Ctx(j)' = d
        <3>1. \A k \in Requests : pc[k] = "idle"
            BY <2>1, <2>4, PauseAssumption DEF Agents
        <3>2. d # Ctx(i)
            BY <2>1, <2>4
        <3>3. PICK j \in Pending : Ctx(j) = d
            BY <1>0, <2>1, <2>4, <3>1, <3>2 DEF QueuedIsWaiting
        <3> QED BY <2>2, <3>2, <3>3
    <2> QED BY <2>3, <2>4 DEF QueuedIsWaiting, Ctx
<1> QED BY <1>1, <1>2, <1>3, <1>4, <1>5, <1>6, Shapes

\* As long as nobody cancels and nothing is killed, a point is being resumed
\* exactly when the claimed entry is for it and waits exactly when a pending
\* one is: enqueueOrStartResume, the drain, the four ways a run settles its
\* entry and the second pause keep the two tables in step, and no request is
\* forgotten.
THEOREM QueueAndPointsMatch == ASSUME OneOrigin PROVE Spec => []QueueMatchesPoints
<1> DEFINE All == IInv /\ SInv /\ RInv /\ QInv /\ MInv /\ PInv
<1>1. Init => All
    <2>1. Init => SInv /\ MInv /\ PInv
        BY DEF Init, SInv, Intact, ResumingIsClaimed, BaseIsCurrent, SavedIsIn, ResumedIsIn, Resumed,
               AtWork, Agents, MInv, FailedIsClaimed, ClaimIsResuming, NoEntry, PInv,
               WaitingIsQueued, QueuedIsWaiting, Pending
    <2> QED BY <2>1, InvInit, QueueInit
<1>2. All /\ [Next]_vars => All'
    <2> SUFFICES ASSUME All, [Next]_vars PROVE All'
        OBVIOUS
    <2>1. ASSUME faults' = 0 PROVE Intact'
        <3>1. Intact /\ ~ \E x \in Agents : PersistFails(x) \/ Throws(x) \/ Dies(x)
            BY <2>1, FaultsStep DEF SInv
        <3> QED BY <3>1, IntactStep
    <2> QED BY <2>1, InvStep, RowStep, QueueStep, ClaimStep, WaitingStep DEF SInv
<1>3. All => QueueMatchesPoints
    <2> SUFFICES ASSUME All, faults = 0, \A k \in Requests : pc[k] = "idle"
                 PROVE  /\ {c \in Contexts : point[c] = "resuming"}
                              = {Ctx(i) : i \in {j \in Claimed : pc[j] # "paused"}}
                        /\ {c \in Contexts : point[c] = "queued"} = {Ctx(i) : i \in Pending}
        BY DEF QueueMatchesPoints
    <2>1. \A i \in Claimed \cup Pending : Ctx(i) \in Contexts
        BY DEF Claimed, Pending, IInv, TInv, TypeOK, Ctx
    <2>2. \A i \in Claimed : pc[i] # "paused" => point[Ctx(i)] = "resuming"
        BY DEF MInv, ClaimIsResuming, Claimed
    <2>3. \A c \in Contexts : point[c] = "resuming" => \E i \in Claimed : Ctx(i) = c /\ pc[i] # "paused"
        BY DEF SInv, Intact, ResumingIsClaimed
    <2>4. /\ \A i \in Pending : point[Ctx(i)] = "queued"
          /\ \A c \in Contexts : point[c] = "queued" => \E i \in Pending : Ctx(i) = c
        BY DEF PInv, WaitingIsQueued, QueuedIsWaiting
    <2> HIDE DEF All
    <2> QED BY <2>1, <2>2, <2>3, <2>4
<1> HIDE DEF All
<1> QED BY <1>1, <1>2, <1>3, PTL DEF Spec

-----------------------------------------------------------------------------
(* The counts.                                                              *)

CInv == faults = 0 => /\ resumedCount = Cardinality(Resumed(point))
                      /\ status = "fully_resumed" => Resumed(point) = Points(point)

\* As many resumed points as there are points: all of them.
LEMMA AllResumed ==
    ASSUME NEW pt, Cardinality(Resumed(pt)) >= Cardinality(Points(pt))
    PROVE  Resumed(pt) = Points(pt)
<1>1. Resumed(pt) \subseteq Points(pt) /\ Points(pt) \subseteq Contexts
    BY DEF Resumed, Points
<1>2. IsFiniteSet(Points(pt)) /\ IsFiniteSet(Resumed(pt))
    BY <1>1, FS_Subset, PauseAssumption
<1>3. /\ Cardinality(Resumed(pt)) \in Nat /\ Cardinality(Points(pt)) \in Nat
      /\ Cardinality(Resumed(pt)) <= Cardinality(Points(pt))
      /\ Cardinality(Resumed(pt)) = Cardinality(Points(pt)) => Resumed(pt) = Points(pt)
    BY <1>1, <1>2, FS_Subset, FS_CardinalityType
<1> QED BY <1>3

\* The status computed from the counts says that all is resumed only if it is.
LEMMA FullyResumed ==
    ASSUME NEW pt, NEW was, StatusOf(Cardinality(Resumed(pt)), Cardinality(Points(pt)), was) = "fully_resumed"
    PROVE  Resumed(pt) = Points(pt)
BY AllResumed DEF StatusOf

\* Every step keeps the count that of the resumed points.
LEMMA CountStep ==
    ASSUME IInv, RInv, MInv, CInv, [Next]_vars
    PROVE  CInv'
<1> SUFFICES ASSUME faults' = 0
             PROVE  /\ resumedCount' = Cardinality(Resumed(point'))
                    /\ status' = "fully_resumed" => Resumed(point') = Points(point')
    BY DEF CInv
<1>0. /\ faults = 0 /\ FailedIsClaimed /\ ClaimIsResuming
      /\ resumedCount = Cardinality(Resumed(point))
      /\ status = "fully_resumed" => Resumed(point) = Points(point)
    BY Unbroken DEF MInv, CInv
<1>1. CASE Quiet
    BY <1>0, <1>1 DEF Quiet, QuietRow
<1>2. CASE FirstPause
    <2>1. Resumed(point') = Resumed(point) /\ status' # "fully_resumed" /\ resumedCount' = resumedCount
        BY <1>2 DEF FirstPause, RInv, NothingStored, Resumed
    <2> QED BY <1>0, <2>1
<1>3. ASSUME NEW c \in Contexts, Accept(c)
      PROVE  /\ resumedCount' = Cardinality(Resumed(point'))
             /\ status' = "fully_resumed" => Resumed(point') = Points(point')
    <2>1. /\ point[c] = "paused" /\ point'[c] \in {"queued", "resuming"}
          /\ \A d \in Contexts : d # c => point'[d] = point[d]
          /\ Resumable /\ status' = status /\ resumedCount' = resumedCount
        BY <1>3, AcceptShape
    <2>2. Resumed(point') = Resumed(point)
        BY <2>1 DEF Resumed
    <2> QED BY <1>0, <2>1, <2>2 DEF Resumable
<1>4. ASSUME NEW i \in Ids, Persist(i)
      PROVE  /\ resumedCount' = Cardinality(Resumed(point'))
             /\ status' = "fully_resumed" => Resumed(point') = Points(point')
    BY <1>4, PersistShape, FullyResumed
<1>5. ASSUME NEW i \in Ids, Settles(i)
      PROVE  /\ resumedCount' = Cardinality(Resumed(point'))
             /\ status' = "fully_resumed" => Resumed(point') = Points(point')
    <2>1. CASE point' = point /\ status' = status /\ resumedCount' = resumedCount
        BY <1>0, <2>1
    <2>2. CASE pc[i] # "paused"
        <3>1. entry[i].st = "claimed"
            BY <1>0, <1>5, SettlesItsClaim
        <3>2. point[Ctx(i)] = "resuming" /\ Ctx(i) \in Contexts
            BY <1>0, <1>5, <2>2, <3>1, SettleShape DEF ClaimIsResuming
        <3>3. /\ Ctx(i) \in Points(point) /\ Ctx(i) \notin Resumed(point)
              /\ status # "fully_resumed"
            BY <1>0, <3>2 DEF Points, Resumed
        <3>4. CASE /\ point'[Ctx(i)] \in {"failed", "paused"}
                   /\ status' = status /\ resumedCount' = resumedCount
            <4>1. Resumed(point') = Resumed(point)
                BY <1>5, <3>3, <3>4, SettleShape DEF Resumed
            <4> QED BY <1>0, <3>3, <3>4, <4>1
        <3>5. CASE /\ point'[Ctx(i)] = "resumed" /\ resumedCount' = resumedCount + 1
                   /\ status' = StatusOf(resumedCount', Cardinality(Points(point)), status)
            <4>1. /\ Resumed(point') = Resumed(point) \cup {Ctx(i)}
                  /\ Points(point') = Points(point)
                BY <1>5, <3>2, <3>5, SettleShape DEF Resumed, Points
            <4>2. IsFiniteSet(Resumed(point))
                BY FS_Subset, PauseAssumption DEF Resumed
            <4>3. Cardinality(Resumed(point')) = Cardinality(Resumed(point)) + 1
                BY <3>3, <4>1, <4>2, FS_AddElement
            <4> QED BY <1>0, <3>5, <4>1, <4>3, FullyResumed
        <3> QED BY <1>5, <2>2, <3>4, <3>5, SettleShape
    <2> QED BY <1>5, <2>1, <2>2, SettleShape
<1>6. ASSUME NEW x \in Agents, DrainClaims(x)
      PROVE  /\ resumedCount' = Cardinality(Resumed(point'))
             /\ status' = "fully_resumed" => Resumed(point') = Points(point')
    <2>1. /\ \E c \in Contexts : /\ point[c] = "queued" /\ point'[c] = "resuming"
                                 /\ \A d \in Contexts : d # c => point'[d] = point[d]
          /\ Resumable /\ status' = status /\ resumedCount' = resumedCount
        BY <1>6, DrainShape
    <2>2. Resumed(point') = Resumed(point)
        BY <2>1 DEF Resumed
    <2> QED BY <1>0, <2>1, <2>2 DEF Resumable
<1> QED BY <1>1, <1>2, <1>3, <1>4, <1>5, <1>6, Shapes

\* The count that decides when an execution is fully resumed is that of its
\* resumed points, although two transactions change it in two ways: a run that
\* ends adds one, a run that pauses counts anew, and whatever is resuming then
\* counts as resumed.
THEOREM CountsStayRight == Spec => []CountsAgree
<1>1. Init => IInv /\ RInv /\ MInv /\ CInv
    <2>1. ASSUME Init PROVE CInv
        <3>1. Resumed(point) = {}
            BY <2>1 DEF Init, Resumed
        <3> QED BY <2>1, <3>1, FS_EmptySet DEF Init, CInv
    <2>2. Init => MInv
        BY DEF Init, MInv, FailedIsClaimed, ClaimIsResuming, NoEntry, Agents
    <2> QED BY <2>1, <2>2, InvInit, QueueInit
<1>2. IInv /\ RInv /\ MInv /\ CInv /\ [Next]_vars => IInv' /\ RInv' /\ MInv' /\ CInv'
    BY InvStep, RowStep, ClaimStep, CountStep
<1>3. CInv => CountsAgree
    BY DEF CInv, CountsAgree
<1> QED BY <1>1, <1>2, <1>3, PTL DEF Spec

-----------------------------------------------------------------------------
(* The waits. A row that pauses again stores the time of its earliest wait;  *)
(* the poller may overwrite it with the time that it has computed before,    *)
(* so no wait may be behind another pause (the run pause_clobber shows the   *)
(* wait that is lost then).                                                  *)

WaitsComeFirst == \A c \in Contexts : Follow[c] \cap Timed = {}

InTime(t, c) == t # Never /\ t <= ResumeAt[c]

\* A wait that was not dispatched is on the list.
WaitOnRow == \A c \in Timed \ tried : point[c] = "paused" => InTime(nextResumeAt, c)

\* While the poller is at work it is in its batch or it is in time for the
\* value that the poller will store.
WaitInBatch ==
    later # Off => /\ status # "none"
                   /\ \A c \in Timed \ tried : point[c] = "paused" => c \in due \/ InTime(later, c)

\* A wait that was asked for was dispatched.
WaitsAreAsked == \A i \in Ids : entry[i].st # "none" /\ Ctx(i) \in Timed => Ctx(i) \in tried

WInv == WaitOnRow /\ WaitInBatch /\ WaitsAreAsked

\* The earliest time of some waits is in time for each of them.
LEMMA EarliestInTime ==
    ASSUME NEW C \in SUBSET Contexts, NEW t \in Nat, NEW c \in C \cap Timed, ResumeAt[c] > t
    PROVE  InTime(Earliest(C, t), c)
<1> DEFINE T == {ResumeAt[d] : d \in {e \in C \cap Timed : ResumeAt[e] > t}}
<1>1. T \in SUBSET (Nat \ {0}) /\ ResumeAt[c] \in T
    BY PauseAssumption
<1>2. Earliest(C, t) = Least(T)
    BY <1>1, Zenon DEF Earliest
<1>3. Least(T) \in T /\ Least(T) <= ResumeAt[c]
    <2> HIDE DEF T
    <2> QED BY <1>1, LeastIn
<1>4. Least(T) # 0
    <2> HIDE DEF T
    <2> QED BY <1>1, <1>3
<1> QED BY <1>2, <1>3, <1>4 DEF InTime, Never

\* What a step that is not the poller's, a pause's or a caller's leaves alone.
Unhurried ==
    /\ UNCHANGED <<nextResumeAt, due, later, tried>>
    /\ \A i \in Ids : entry'[i].st # "none" => entry[i].st # "none" /\ entry'[i].ctx = entry[i].ctx

\* Every other step leaves the times alone, and makes no entry.
LEMMA UnhurriedStep ==
    ASSUME IInv, RInv, [Next]_vars
    PROVE  \/ Unhurried
           \/ FirstPause \/ Poll \/ StoreNext
           \/ \E c \in Timed : Dispatch(c)
           \/ \E c \in Contexts : Ask(c)
           \/ \E i \in Ids : Persist(i)
<1> USE DEF rowVars, pollVars, histVars
<1>1. CASE Tick \/ UNCHANGED vars
    BY <1>1 DEF Tick, vars, Unhurried
<1>2. ASSUME NEW i \in Ids, Start(i) \/ Refused(i) \/ Fails(i) \/ SaveSnapshot(i) \/ Ends(i)
      PROVE  Unhurried
    BY <1>2 DEF Start, Refused, Fails, SaveSnapshot, Ends, Pauses, Succeeds, Unpublished, EndsAs,
                Unhurried
<1>3. ASSUME NEW i \in Ids, Settles(i) PROVE Unhurried
    <2>1. UNCHANGED <<nextResumeAt, due, later, tried>>
        BY <1>3 DEF Settles, CloseEntry, Complete, MarkFailed, Reopen
    <2>2. \A j \in Ids : entry'[j].st # "none" => entry[j].st # "none" /\ entry'[j].ctx = entry[j].ctx
        BY <1>3, SettleShape DEF RInv, RunHasEntry, Ctx
    <2> QED BY <2>1, <2>2 DEF Unhurried
<1>4. ASSUME NEW x \in Agents, Either(x) PROVE Unhurried
    <2>1. CASE DrainStops(x) \/ AskClaims(x) \/ AskStatus(x) \/ Confirm(x)
        BY <2>1 DEF DrainStops, AskClaims, AskStatus, Confirm, Unhurried
    <2>2. CASE DrainDrops(x)
        <3>1. Least(Pending) \in Pending
            BY <2>2, LeastEntry DEF DrainDrops, Pending
        <3> QED BY <2>2, <3>1 DEF DrainDrops, Settle, Unhurried, Pending, IInv, TInv, TypeOK
    <2>3. CASE DrainClaims(x)
        <3>1. UNCHANGED <<nextResumeAt, due, later, tried>>
            BY <2>3 DEF DrainClaims
        <3>2. \A j \in Ids : entry'[j].st # "none" => entry[j].st # "none" /\ entry'[j].ctx = entry[j].ctx
            BY <2>3, DrainShape DEF Pending, Ctx
        <3> QED BY <3>1, <3>2 DEF Unhurried
    <2> QED BY <1>4, <2>1, <2>2, <2>3 DEF Either
<1>5. ASSUME NEW k \in Requests, Begin(k) \/ Cancels(k) PROVE Unhurried
    <2>1. UNCHANGED <<nextResumeAt, due, later, tried>>
        BY <1>5 DEF Begin, Cancels, Publish, Mark, Block, Clear
    <2>2. \A j \in Ids : entry'[j].st # "none" => entry[j].st # "none" /\ entry'[j].ctx = entry[j].ctx
        BY <1>5 DEF Begin, Cancels, Publish, Mark, Block, Clear, Pending, IInv, TInv, TypeOK
    <2> QED BY <2>1, <2>2 DEF Unhurried
<1>6. ASSUME NEW x \in Agents, PersistFails(x) \/ Throws(x) \/ Dies(x) PROVE Unhurried
    BY <1>6 DEF PersistFails, Throws, Dies, Fault, Unhurried
<1> QED
    BY <1>1, <1>2, <1>3, <1>4, <1>5, <1>6 DEF Next, Poller, Drives, Settles, Agents

\* Every step keeps the waits on the list.
LEMMA WaitStep ==
    ASSUME WaitsComeFirst, IInv, RInv, WInv, [Next]_vars
    PROVE  WInv'
<1> USE DEF rowVars, pollVars, histVars
<1>0. status # "none" => status' # "none"
    <2>1. \A n, t, was : StatusOf(n, t, was) # "none"
        BY DEF StatusOf
    <2>2. ASSUME NEW i \in Ids, Persist(i) \/ Settles(i) PROVE status' = status \/ status' # "none"
        BY <2>1, <2>2, SettleShape, PersistShape
    <2>3. ASSUME NEW c \in Contexts, Accept(c) PROVE status' = status
        BY <2>3 DEF Accept
    <2>4. ASSUME NEW x \in Agents, DrainClaims(x) PROVE status' = status
        BY <2>4 DEF DrainClaims
    <2>5. FirstPause => status' # "none"
        BY DEF FirstPause
    <2> QED BY <2>2, <2>3, <2>4, <2>5, Shapes DEF Quiet, QuietRow
<1>1. CASE Unhurried /\ ~ FirstPause
    <2>1. \A c \in Timed \ tried : point'[c] = "paused" => point[c] = "paused"
        <3>1. CASE Quiet
            BY <3>1 DEF Quiet, QuietRow
        <3>2. ASSUME NEW i \in Ids, Settles(i), NEW c \in Timed \ tried, point'[c] = "paused"
              PROVE  point[c] = "paused"
            <4>1. c \in Contexts /\ (c # Ctx(i) => point'[c] = point[c])
                BY <3>2, SettleShape, PauseAssumption
            <4>2. c # Ctx(i)
                BY <3>2, SettleShape DEF WInv, WaitsAreAsked, RInv, RunHasEntry
            <4> QED BY <3>2, <4>1, <4>2
        <3>3. ASSUME NEW x \in Agents, DrainClaims(x), NEW c \in Timed, point'[c] = "paused"
              PROVE  point[c] = "paused"
            <4>1. PICK d \in Contexts : /\ point'[d] = "resuming"
                                        /\ \A e \in Contexts : e # d => point'[e] = point[e]
                BY <3>3, DrainShape
            <4> QED BY <3>3, <4>1, PauseAssumption
        <3>4. ASSUME NEW c \in Contexts, Accept(c) PROVE FALSE
            BY <1>1, <3>4, AcceptShape DEF Unhurried
        <3>5. ASSUME NEW i \in Ids, Persist(i), NEW c \in Timed, point'[c] = "paused"
              PROVE  point[c] = "paused"
            BY <3>5, PersistShape, PauseAssumption DEF WaitsComeFirst
        <3> QED BY <1>1, <3>1, <3>2, <3>3, <3>4, <3>5, Shapes
    <2> QED BY <1>0, <1>1, <2>1 DEF Unhurried, WInv, WaitOnRow, WaitInBatch, WaitsAreAsked, Ctx
<1>2. CASE FirstPause
    <2>1. /\ entry' = entry /\ UNCHANGED <<due, later, tried>> /\ status = "none"
          /\ nextResumeAt' = Earliest(First, 0)
          /\ \A c \in Contexts : point'[c] = "paused" => c \in First
        BY <1>2 DEF FirstPause
    <2>2. WaitOnRow'
        <3>1. ASSUME NEW c \in Timed, point'[c] = "paused" PROVE InTime(nextResumeAt', c)
            <4>1. c \in First \cap Timed /\ ResumeAt[c] > 0
                BY <2>1, <3>1, PauseAssumption
            <4>2. InTime(Earliest(First, 0), c)
                BY <4>1, EarliestInTime, PauseAssumption
            <4> QED BY <2>1, <4>2
        <3> QED BY <3>1 DEF WaitOnRow, InTime
    <2>3. later' = Off
        BY <2>1 DEF WInv, WaitInBatch
    <2> QED BY <2>1, <2>2, <2>3 DEF WInv, WaitInBatch, WaitsAreAsked, Ctx
<1>3. CASE Poll
    <2>1. /\ entry' = entry /\ UNCHANGED <<status, point, nextResumeAt, tried>> /\ Resumable
          /\ due' = {c \in {d \in Timed : point[d] = "paused"} : ResumeAt[c] <= now}
          /\ later' = Earliest({d \in Timed : point[d] = "paused"}, now)
        BY <1>3 DEF Poll
    <2>2. ASSUME NEW c \in Timed, point[c] = "paused" PROVE c \in due' \/ InTime(later', c)
        <3>1. /\ {d \in Timed : point[d] = "paused"} \in SUBSET Contexts /\ now \in Nat
              /\ ResumeAt[c] \in Nat
            BY PauseAssumption DEF IInv, TInv, TypeOK
        <3>2. CASE ResumeAt[c] <= now
            BY <2>1, <2>2, <3>2
        <3>3. CASE ResumeAt[c] > now
            <4>1. c \in {d \in Timed : point[d] = "paused"} \cap Timed
                BY <2>2
            <4> QED BY <2>1, <3>1, <3>3, <4>1, EarliestInTime
        <3> QED BY <3>1, <3>2, <3>3 DEF IInv, TInv, TypeOK
    <2>3. WaitInBatch'
        BY <2>1, <2>2 DEF WaitInBatch, InTime, Resumable
    <2> QED BY <2>1, <2>3 DEF WInv, WaitOnRow, WaitsAreAsked, InTime, Ctx
<1>4. CASE StoreNext
    <2>1. /\ entry' = entry /\ UNCHANGED <<status, point, tried>> /\ later' = Off
          /\ later # Off /\ due = {} /\ nextResumeAt' \in {later, nextResumeAt}
        BY <1>4 DEF StoreNext
    <2>2. WaitOnRow'
        BY <2>1 DEF WInv, WaitOnRow, WaitInBatch, InTime
    <2> QED BY <2>1, <2>2 DEF WInv, WaitInBatch, WaitsAreAsked, Ctx
<1>5. ASSUME NEW d \in Contexts, Accept(d), UNCHANGED <<later, nextResumeAt>>,
             \/ UNCHANGED <<due, tried>> /\ d \notin Timed
             \/ due' = due \ {d} /\ tried' = tried \cup {d}
      PROVE  WInv'
    <2>1. PICK i \in Ids :
              /\ status' = status /\ Ctx(i)' = d /\ point'[d] # "paused"
              /\ \A c \in Contexts : c # d => point'[c] = point[c]
              /\ \A j \in Ids : j # i => entry'[j] = entry[j]
        BY <1>5, AcceptShape
    <2>2. \A c \in Timed : point'[c] = "paused" => c # d /\ point[c] = "paused"
        BY <2>1, PauseAssumption
    <2>3. WaitOnRow' /\ WaitInBatch'
        BY <1>5, <2>1, <2>2 DEF WInv, WaitOnRow, WaitInBatch, InTime
    <2>4. WaitsAreAsked'
        BY <1>5, <2>1 DEF WInv, WaitsAreAsked, Ctx
    <2> QED BY <2>3, <2>4 DEF WInv
<1>6. ASSUME NEW d \in Timed, Dispatch(d) PROVE WInv'
    <2>1. d \in Contexts /\ due' = due \ {d} /\ tried' = tried \cup {d} /\ later' = later
        BY <1>6, PauseAssumption DEF Dispatch
    <2>2. CASE Accept(d)
        <3>1. nextResumeAt' = nextResumeAt
            BY <2>2 DEF Accept
        <3> QED BY <1>5, <2>1, <2>2, <3>1
    <2>3. CASE UNCHANGED <<rowVars, entry, pc, base>>
        BY <2>1, <2>3 DEF WInv, WaitOnRow, WaitInBatch, WaitsAreAsked, InTime, Ctx
    <2> QED BY <1>6, <2>2, <2>3 DEF Dispatch
<1>7. ASSUME NEW d \in Contexts, Ask(d) PROVE WInv'
    <2>1. d \notin Timed /\ Accept(d) /\ UNCHANGED <<later, nextResumeAt, due, tried>>
        BY <1>7 DEF Ask, Accept
    <2> QED BY <1>5, <2>1
<1>8. ASSUME NEW i \in Ids, Persist(i) PROVE WInv'
    <2>1. /\ entry' = entry /\ UNCHANGED <<due, later, tried>>
          /\ nextResumeAt' = Earliest(Points(point'), 0)
        BY <1>8 DEF Persist
    <2>2. \A c \in Timed : point'[c] = "paused" => point[c] = "paused"
        BY <1>8, PersistShape, PauseAssumption DEF WaitsComeFirst
    <2>3. ASSUME NEW c \in Timed, point'[c] = "paused" PROVE InTime(nextResumeAt', c)
        <3>1. /\ c \in Points(point') \cap Timed /\ ResumeAt[c] > 0
              /\ Points(point') \in SUBSET Contexts
            BY <2>3, PauseAssumption DEF Points
        <3>2. InTime(Earliest(Points(point'), 0), c)
            BY <3>1, EarliestInTime
        <3> QED BY <2>1, <3>2
    <2>4. WaitOnRow'
        BY <2>3 DEF WaitOnRow, InTime
    <2>5. WaitInBatch'
        BY <1>0, <2>1, <2>2 DEF WInv, WaitInBatch, InTime
    <2> QED BY <2>1, <2>4, <2>5 DEF WInv, WaitsAreAsked, Ctx
<1> QED BY <1>1, <1>2, <1>3, <1>4, <1>6, <1>7, <1>8, UnhurriedStep

\* No wait that is not behind another pause is slept through: until it is
\* dispatched the row's next time is its own or earlier, whatever the poller
\* has read before, whichever runs end or pause in between, and whoever asks,
\* cancels or dies.
THEOREM WaitsStayScheduled == ASSUME WaitsComeFirst PROVE Spec => []WaitIsScheduled
<1>1. Init => IInv /\ RInv /\ WInv
    <2>1. Init => WInv
        BY PauseAssumption DEF Init, WInv, WaitOnRow, WaitInBatch, WaitsAreAsked, NoEntry
    <2> QED BY <2>1, InvInit, QueueInit
<1>2. IInv /\ RInv /\ WInv /\ [Next]_vars => IInv' /\ RInv' /\ WInv'
    BY InvStep, RowStep, WaitStep
<1>3. WInv => WaitIsScheduled
    BY DEF WInv, WaitOnRow, InTime, WaitIsScheduled
<1> QED BY <1>1, <1>2, <1>3, PTL DEF Spec
=============================================================================
