------------------------------ MODULE Realtime ------------------------------
(* The realtime server (apps/realtime/src/handlers) with the clients of      *)
(* OperationQueue. An update of a field waits 25 ms for others of the same   *)
(* field; the entry that holds them is flushed to the database by a timer.   *)
(* Handlers of one process interleave wherever they await; a step is what    *)
(* runs between two awaits.                                                  *)
EXTENDS OperationQueue

CONSTANTS
    Edits,        \* who edits which field in the instance, and who removes which block
    Removals,
    MaxFaults,    \* bound on disconnections, late answers, lost and refused messages, and
                  \* on the locking and unlocking of blocks
    MaxErrors,    \* bound on the failures of the database and on refused flushes
    MaxEvents     \* bound on edits, faults and failures together

ASSUME RealtimeConstants ==
    /\ Edits \subseteq Clients \X Fields /\ Removals \subseteq Clients \X Blocks
    /\ MaxFaults \in Nat /\ MaxErrors \in Nat /\ MaxEvents \in Nat

VARIABLES
    store,        \* workflow_blocks.sub_blocks: the value of each field
    deleted,      \* the blocks without a row
    locked,       \* the blocks that are locked, or inside a locked container
    pending,      \* pendingSubblockUpdates: the entry of each field
    entry,        \* the entries, by the message that made them, also those no longer in
                  \* the map that a timer or a flush still holds
    flush,        \* the running flushes
    removing,     \* the removals being persisted: message and whether it is committed
    faults, errors,
    written,      \* history: updates whose value was committed
    superseded,   \* history: updates that a later one replaced before they were flushed
    lost          \* history: updates whose flush found the block locked, was refused, or failed

serverVars == <<store, deleted, locked, pending, entry, flush, removing, faults, errors,
                written, superseded, lost>>
vars == <<queueVars, serverVars>>

Spare == Len(ops) + faults + errors < MaxEvents
MayFault == faults < MaxFaults /\ Spare
MayErr == errors < MaxErrors /\ Spare

NoEntry == [latest |-> None, waiting |-> {}, timer |-> "off"]

Init ==
    /\ QueueInit
    /\ store = [f \in Fields |-> Unset]
    /\ deleted = {}
    /\ locked = {}
    /\ pending = [f \in Fields |-> None]
    /\ entry = [m \in {} |-> NoEntry]
    /\ flush = {}
    /\ removing = {}
    /\ faults = 0 /\ errors = 0
    /\ written = {}
    /\ superseded = {}
    /\ lost = {}

FieldOf(m) == ops[m.id].field
Owner(m) == ops[m.id].by
\* The socket that sent the message is still there.
Alive(m) == joined[Owner(m)] /\ m.at = session[Owner(m)]

\* io.to(socketId).emit, for each message of S whose socket is there; and a
\* broadcast to the clients of R before it.
Tell(R, news, S, answer) ==
    inbox' = [c \in Clients |->
        LET own   == {m \in S : Owner(m) = c /\ Alive(m)}
            heard == IF c \in R /\ joined[c] THEN Append(inbox[c], news) ELSE inbox[c]
            ids   == {m.id : m \in own}
        IN  IF ids = {} THEN heard
            ELSE LET one == CHOOSE f \in [1 .. Cardinality(ids) -> ids] :
                                \A i, j \in DOMAIN f : f[i] = f[j] => i = j
                 IN  heard \o [i \in 1 .. Cardinality(ids) |-> answer[one[i]]]]

Yes == [id \in Ids |-> [type |-> "confirmed", id |-> id]]
No == [id \in Ids |-> [type |-> "failed", id |-> id, retryable |-> TRUE]]
Never == [id \in Ids |-> [type |-> "failed", id |-> id, retryable |-> FALSE]]
Nobody == {}
Silence == [type |-> "none"]

-----------------------------------------------------------------------------
(* The handler of an update, once its checks have passed.                    *)

Waiting(k, m) == {w \in entry[k].waiting : w.id # m.id} \cup {m}

\* An entry that holds the update, possibly while it is being flushed.
Joins(m, k) ==
    /\ entry' = [entry EXCEPT ![k] =
                    [latest |-> m, waiting |-> Waiting(k, m), timer |-> "held"]]
    /\ superseded' = superseded \cup ({entry[k].latest.id} \ {m.id})
    /\ UNCHANGED pending

Opens(m) ==
    /\ entry' = [k \in DOMAIN entry \cup {m} |->
                    IF k = m THEN [latest |-> m, waiting |-> {m}, timer |-> "lookup"]
                    ELSE entry[k]]
    /\ pending' = [pending EXCEPT ![FieldOf(m)] = m]
    /\ UNCHANGED superseded

Merge(m) ==
    /\ m \in sent /\ ops[m.id].kind = "set"
    /\ sent' = sent \ {m}
    /\ IF pending[FieldOf(m)] # None THEN Joins(m, pending[FieldOf(m)]) ELSE Opens(m)
    /\ UNCHANGED <<ops, client, joined, registered, session, view, removed, inbox, confirmed,
                   skipped, store, deleted, locked, flush, removing, faults, errors,
                   written, lost>>

\* The checks fail without an answer (the room is not found), or the socket
\* that would get the answer is gone.
Ignore(m) ==
    /\ m \in sent
    /\ Alive(m) => MayFault
    /\ faults' = IF Alive(m) THEN faults + 1 ELSE faults
    /\ sent' = sent \ {m}
    /\ UNCHANGED <<ops, client, joined, registered, session, view, removed, inbox, confirmed,
                   skipped, store, deleted, locked, pending, entry, flush, removing,
                   errors, written, superseded, lost>>

\* The workflow is locked: the update is refused for good.
Refuse(m) ==
    /\ m \in sent /\ MayFault
    /\ faults' = faults + 1
    /\ sent' = sent \ {m}
    /\ Tell(Nobody, Silence, {m}, Never)
    /\ UNCHANGED <<ops, client, joined, registered, session, view, removed, confirmed,
                   skipped, store, deleted, locked, pending, entry, flush, removing,
                   errors, written, superseded, lost>>
-----------------------------------------------------------------------------
(* The timer of an entry, and the flush it starts.                           *)

\* The entries that something still refers to.
Held(E, P, F) ==
    [k \in {e \in DOMAIN E : \/ E[e].timer # "off"
                            \/ e \in {P[f] : f \in Fields}
                            \/ \E x \in F : x.entry = e} |-> E[k]]

Timer(k) ==
    /\ k \in DOMAIN entry /\ entry[k].timer # "off"
    /\ LET e == IF entry[k].timer = "held" THEN k ELSE pending[FieldOf(k)]
       IN  flush' = IF e = None THEN flush
                    ELSE flush \cup {[entry |-> e, of |-> entry[e].latest, by |-> k,
                                      step |-> "reads", seen |-> <<>>]}
    /\ entry' = Held([entry EXCEPT ![k].timer = "off"], pending, flush')
    /\ UNCHANGED <<queueVars, store, deleted, locked, pending, removing, faults, errors,
                   written, superseded, lost>>

\* The transaction reads the row, without a lock on it. A block that the user
\* has locked is left as it is.
Read(x) ==
    /\ x \in flush /\ x.step = "reads"
    /\ LET block == BlockOf[FieldOf(x.of)]
       IN  /\ flush' = (flush \ {x}) \cup
                {IF block \in deleted THEN [x EXCEPT !.step = "missing"]
                 ELSE IF block \in locked THEN [x EXCEPT !.step = "locked"]
                 ELSE [x EXCEPT !.step = "writes", !.seen = store]}
           /\ lost' = IF block \in locked \ deleted THEN lost \cup {x.of.id} ELSE lost
    /\ UNCHANGED <<queueVars, store, deleted, locked, pending, entry, removing, faults, errors, written,
                   superseded>>

\* It writes all fields of the block as it read them, with the new value; if
\* the row is gone by now, it writes nothing and succeeds.
Write(x) ==
    /\ x \in flush /\ x.step = "writes"
    /\ flush' = (flush \ {x}) \cup {[x EXCEPT !.step = "done", !.seen = <<>>]}
    /\ LET own == FieldOf(x.of)
           block == BlockOf[own]
       IN  store' = IF block \in deleted THEN store
                    ELSE [g \in Fields |-> IF g = own THEN ops[x.of.id].value
                                           ELSE IF BlockOf[g] = block THEN x.seen[g] ELSE store[g]]
    /\ written' = written \cup {x.of.id}
    /\ UNCHANGED <<queueVars, deleted, locked, pending, entry, removing, faults, errors,
                   superseded, lost>>

\* What the map holds for the field is deleted, whatever entry that is.
Dropped(x) ==
    /\ pending' = [pending EXCEPT ![FieldOf(x.entry)] = None]
    /\ entry' = Held(entry, pending', flush')

\* Mutant: the whole room is left out.
SendersAll(x) == Clients

Senders(x) == {Owner(m) : m \in {n \in entry[x.entry].waiting : Alive(n)}}

\* Mutant: the answer comes before the transaction has committed.
AnswerAtOnce(x) ==
    /\ x \in flush /\ x.step \in {"writes", "done", "locked", "missing"}
    /\ flush' = flush \ {x}
    /\ Tell(Nobody, Silence, entry[x.entry].waiting, Yes)
    /\ Dropped(x)
    /\ UNCHANGED <<ops, client, joined, registered, session, view, removed, sent, confirmed,
                   skipped, store, deleted, locked, removing, faults, errors, written,
                   superseded, lost>>

\* Everyone who waits in the entry gets the answer, also those who have come
\* since the flush began; the others hear the value. An update of a locked
\* block is confirmed like one that was written.
Answer(x) ==
    /\ x \in flush /\ x.step \in {"done", "locked", "missing"}
    /\ flush' = flush \ {x}
    /\ IF x.step = "done"
       THEN Tell(Clients \ Senders(x),
                 [type |-> "value", field |-> FieldOf(x.of), value |-> ops[x.of.id].value],
                 entry[x.entry].waiting, Yes)
       ELSE Tell(Nobody, Silence, entry[x.entry].waiting, IF x.step = "locked" THEN Yes ELSE No)
    /\ Dropped(x)
    /\ UNCHANGED <<ops, client, joined, registered, session, view, removed, sent, confirmed,
                   skipped, store, deleted, locked, removing, faults, errors, written,
                   superseded, lost>>

\* The database fails, before or after the commit; or the flush finds, before it
\* reads the row, that the workflow is gone, or locked (then there is no retry).
Refusals(x) == IF x.step = "reads" THEN {No, Never} ELSE {No}
FlushFails(x) ==
    /\ x \in flush /\ x.step \in {"reads", "writes", "locked", "done"} /\ MayErr
    /\ errors' = errors + 1
    /\ flush' = flush \ {x}
    /\ \E answer \in Refusals(x) : Tell(Nobody, Silence, entry[x.entry].waiting, answer)
    /\ Dropped(x)
    /\ lost' = lost \cup {x.of.id}
    /\ UNCHANGED <<ops, client, joined, registered, session, view, removed, sent, confirmed,
                   skipped, store, deleted, locked, removing, faults, written, superseded>>
-----------------------------------------------------------------------------
(* The handler of a removal: persist, then tell the others, then confirm. A  *)
(* locked block stays, but its removal is announced and confirmed.           *)

Persist(m) ==
    /\ m \in sent /\ ops[m.id].kind = "remove"
    /\ sent' = sent \ {m}
    /\ removing' = removing \cup {m}
    /\ deleted' = deleted \cup ({ops[m.id].block} \ locked)
    /\ UNCHANGED <<ops, client, joined, registered, session, view, removed, inbox, confirmed,
                   skipped, store, locked, pending, entry, flush, faults, errors, written, superseded,
                   lost>>

Announce(m) ==
    /\ m \in removing
    /\ removing' = removing \ {m}
    /\ Tell(Clients \ {Owner(m)}, [type |-> "removed", block |-> ops[m.id].block], {m}, Yes)
    /\ UNCHANGED <<ops, client, joined, registered, session, view, removed, sent, confirmed,
                   skipped, store, deleted, locked, pending, entry, flush, faults,
                   errors, written, superseded, lost>>

PersistFails(m) ==
    /\ m \in sent /\ ops[m.id].kind = "remove" /\ MayErr
    /\ errors' = errors + 1
    /\ sent' = sent \ {m}
    /\ Tell(Nobody, Silence, {m}, No)
    /\ UNCHANGED <<ops, client, joined, registered, session, view, removed, confirmed,
                   skipped, store, deleted, locked, pending, entry, flush, removing,
                   faults, written, superseded, lost>>

\* Somebody locks a block, or unlocks it.
ToggleLock(b) ==
    /\ MayFault
    /\ faults' = faults + 1
    /\ locked' = IF b \in locked THEN locked \ {b} ELSE locked \cup {b}
    /\ UNCHANGED <<queueVars, store, deleted, pending, entry, flush, removing, errors, written,
                   superseded, lost>>
-----------------------------------------------------------------------------
(* The client's handlers of what the server says.                            *)

HearsConfirmed(c, n) ==
    /\ n.type = "confirmed"
    /\ Becomes(c, Confirmed(c, client[c], n.id))
    /\ confirmed' = confirmed \cup ({n.id} \cap Queued(client[c]))
    /\ UNCHANGED <<view, removed>>

HearsFailed(c, n) ==
    /\ n.type = "failed"
    /\ Becomes(c, Failed(c, client[c], n.id, n.retryable))
    /\ UNCHANGED <<view, removed, confirmed>>

HearsValue(c, n) ==
    /\ n.type = "value"
    /\ view' = [view EXCEPT ![c][n.field] = n.value]
    /\ UNCHANGED <<client, sent, removed, confirmed>>

HearsRemoved(c, n) ==
    /\ n.type = "removed"
    /\ Becomes(c, Cancelled(c, client[c], n.block))
    /\ removed' = [removed EXCEPT ![c] = @ \cup {n.block}]
    /\ UNCHANGED <<view, confirmed>>

Receive(c) ==
    /\ inbox[c] # <<>>
    /\ inbox' = [inbox EXCEPT ![c] = Tail(@)]
    /\ LET n == Head(inbox[c])
       IN  HearsConfirmed(c, n) \/ HearsFailed(c, n) \/ HearsValue(c, n) \/ HearsRemoved(c, n)
    /\ UNCHANGED <<ops, joined, registered, session, skipped, serverVars>>

\* An answer to the operation may still come.
Answered(c, id) ==
    \/ \E m \in sent \cup removing : m.id = id /\ Alive(m)
    \/ \E k \in DOMAIN entry : \E m \in entry[k].waiting :
            m.id = id /\ Alive(m) /\ (entry[k].timer # "off" \/ \E x \in flush : x.entry = k)
    \/ \E i \in 1 .. Len(inbox[c]) : inbox[c][i].type \in {"confirmed", "failed"} /\ inbox[c][i].id = id

\* A timeout is a fault when it comes before an answer that is on its way.
Timeout(c, id) ==
    /\ Answered(c, id) => MayFault
    /\ faults' = IF Answered(c, id) THEN faults + 1 ELSE faults
    /\ TimesOut(c, id)
    /\ UNCHANGED <<store, deleted, locked, pending, entry, flush, removing, errors,
                   written, superseded, lost>>

\* A socket is lost: what was on its way to it is gone, and the entries of the
\* map forget it (cleanupPendingSubblocksForSocket).
Disconnect(c) ==
    /\ joined[c] /\ MayFault
    /\ faults' = faults + 1
    /\ joined' = [joined EXCEPT ![c] = FALSE]
    /\ session' = [session EXCEPT ![c] = @ + 1]
    /\ inbox' = [inbox EXCEPT ![c] = <<>>]
    /\ entry' = [k \in DOMAIN entry |->
                    IF k \in {pending[f] : f \in Fields}
                    THEN [entry[k] EXCEPT !.waiting = {m \in @ : Owner(m) # c \/ m.at # session[c]}]
                    ELSE entry[k]]
    /\ UNCHANGED <<ops, client, registered, view, removed, sent, confirmed, skipped,
                   store, deleted, locked, pending, flush, removing, errors, written,
                   superseded, lost>>

-----------------------------------------------------------------------------
Client(c) ==
    /\ \/ \E f \in Fields, v \in Values : Spare /\ <<c, f>> \in Edits /\ SetValue(c, f, v)
       \/ \E b \in Blocks : Spare /\ <<c, b>> \in Removals /\ RemoveBlock(c, b)
       \/ \E id \in client[c].retries : Retries(c, id)
       \/ Rejoin(c) \/ Unregister(c) \/ Register(c)
    /\ UNCHANGED serverVars

Handler(m) == Merge(m) \/ Ignore(m) \/ Refuse(m) \/ Persist(m) \/ PersistFails(m)

Next ==
    \/ \E c \in Clients :
        \/ Client(c) \/ Receive(c) \/ Disconnect(c)
        \/ \E id \in client[c].deadlines : Timeout(c, id)
    \/ \E m \in sent : Handler(m)
    \/ \E m \in removing : Announce(m)
    \/ \E k \in DOMAIN entry : Timer(k)
    \/ \E x \in flush : Read(x) \/ Write(x) \/ Answer(x) \/ FlushFails(x)
    \/ \E b \in Blocks : ToggleLock(b)

Spec == Init /\ [][Next]_vars

-----------------------------------------------------------------------------
Step == {"reads", "writes", "done", "locked", "missing"}

TypeOK ==
    /\ ops \in Seq(Operation) /\ Len(ops) <= MaxOps
    /\ \A c \in Clients :
        /\ client[c].queue \subseteq
            [id : Ids, status : {"pending", "processing"}, try : 0 .. MaxRetries]
        /\ client[c].deadlines \subseteq Queued(client[c])
        /\ client[c].retries \subseteq Ids
        /\ view[c] \in [Fields -> Values \cup {Unset}]
    /\ sent \subseteq Message /\ removing \subseteq Message
    /\ store \in [Fields -> Values \cup {Unset}]
    /\ deleted \cup locked \subseteq Blocks
    /\ \A f \in Fields : pending[f] = None \/ FieldOf(pending[f]) = f
    /\ \A x \in flush : x.entry \in DOMAIN entry /\ x.step \in Step

\* Each operation in flight has its timeout, and the queue takes itself to be
\* busy only if one is in flight: no lost, late or doubled answer, and no
\* cancellation, leaves it waiting for an answer that nobody gives up on.
NoHang ==
    \A c \in Clients :
        /\ \A e \in InFlight(client[c]) : e.id \in client[c].deadlines
        /\ client[c].busy => InFlight(client[c]) # {}

\* An operation that could be sent is sent, or a retry timer will see to it.
NoStall ==
    \A c \in Clients :
        registered[c] /\ joined[c] /\ ~ client[c].busy /\ Pending(client[c]) # {}
            => client[c].retries # {}

\* An update that has been confirmed is in the database, or a later one has
\* taken its place in the entry, or it will still be flushed: by a running flush,
\* or by a timer that holds the entry it is the latest of. Only a flush that found
\* its block deleted or locked, that was refused, or that failed has let go of it:
\* the locked block's update is confirmed all the same, and a failure may come
\* after the confirmation, when nobody waits for the update any more.
WillFlush(id) ==
    \/ \E x \in flush : x.of.id = id
    \/ \E k \in DOMAIN entry : entry[k].latest.id = id /\ entry[k].timer = "held"
ConfirmedIsKept ==
    \A id \in confirmed : ops[id].kind = "set" =>
        \/ id \in written \cup superseded \cup lost
        \/ WillFlush(id)
        \/ BlockOf[ops[id].field] \in deleted

Quiet ==
    /\ sent = {} /\ removing = {} /\ flush = {}
    /\ \A k \in DOMAIN entry : entry[k].timer = "off"
    /\ \A c \in Clients : inbox[c] = <<>> /\ client[c] = Idle /\ joined[c] /\ registered[c]

Sets(f) == {i \in 1 .. Len(ops) : ops[i].kind = "set" /\ ops[i].field = f}
Writers(f) == {ops[i].by : i \in Sets(f)}
Removes == {i \in 1 .. Len(ops) : ops[i].kind = "remove"}
SkippedOn(f) == skipped \cap Sets(f)

\* The row of a block is written whole: who edits one of its fields writes them all.
Editors(f) == UNION {Writers(g) : g \in {h \in Fields : BlockOf[h] = BlockOf[f]}}
\* An update that another client's has joined may be confirmed twice, and the
\* second time sets free the queue of its client while an operation is in flight.
SharesNone(c) == \A f \in Fields : c \in Writers(f) => Writers(f) = {c}
Owned(f) == \A c \in Editors(f) : Editors(f) = {c} /\ SharesNone(c)

\* If nothing was late, lost or removed, then in the end everyone shows what
\* the database holds for a field whose block one client alone has edited, if
\* that client shares no other field either.
SingleWriterAgrees ==
    faults = 0 /\ errors = 0 /\ Removes = {} /\ Quiet =>
        \A f \in Fields : Owned(f) /\ SkippedOn(f) = {} =>
            \A c \in Clients : view[c][f] = store[f]
=============================================================================
