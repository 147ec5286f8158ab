--------------------------- MODULE OperationQueue ---------------------------
(* The queue of workflow edits that each browser keeps                       *)
(* (stores/operation-queue/store.ts), with the handlers of                   *)
(* hooks/use-collaborative-workflow.ts that drive it. JavaScript runs a      *)
(* handler to its end, so each handler is one step; what it does is an       *)
(* operator on the state of one client, and ends, where the code does, in    *)
(* processNextOperation. Edits are updates of a field (a subblock) and       *)
(* removals of a block. Realtime has the server and the steps.               *)
(* New operations go to the end of the queue, and a failed one is tried      *)
(* again from its place: the order of the queue is that of the ids, so that  *)
(* a set holds it.                                                           *)
EXTENDS Naturals, Sequences, FiniteSets

CONSTANTS
    Clients,      \* the browsers that edit the workflow
    Fields,       \* the subblocks
    Blocks,       \* the blocks
    BlockOf,      \* the block of each field
    Values,       \* what a field may be set to
    Unset,        \* what a field holds at first
    MaxOps,       \* bound on the edits
    MaxRetries,   \* SUBBLOCK_VARIABLE_MAX_RETRIES, STRUCTURAL_MAX_RETRIES
    None

ASSUME QueueConstants ==
    /\ BlockOf \in [Fields -> Blocks]
    /\ MaxOps \in Nat /\ MaxRetries \in Nat
    /\ Unset \notin Values
    /\ None \notin Fields \cup Values

VARIABLES
    ops,          \* the edits made so far, in order; an operation's id is its place
    client,       \* each client's queue, isProcessing, timers and hasOperationError
    joined,       \* the socket is in the workflow's room
    registered,   \* the queue knows it: registerEmitFunctions has run since
    session,      \* which socket a client has; a new one after each disconnection
    view,         \* what each client shows
    removed,      \* the blocks each client has removed from its canvas
    sent,         \* messages on their way to the server, or in its first checks
    inbox,        \* messages on their way to each client
    confirmed,    \* history: operations that left their queue because the server said so
    skipped       \* history: edits dropped as duplicates of one in the queue

queueVars == <<ops, client, joined, registered, session, view, removed, sent, inbox,
               confirmed, skipped>>

Ids == 1 .. MaxOps
Operation == [by : Clients, kind : {"set"}, field : Fields, value : Values]
                 \cup [by : Clients, kind : {"remove"}, block : Blocks]
Message == [id : Ids, try : 0 .. MaxRetries, at : Nat]
ASSUME NoneIsNoMessage == None \notin Message
Idle == [queue |-> {}, busy |-> FALSE, deadlines |-> {}, retries |-> {}, error |-> FALSE]

QueueInit ==
    /\ ops = <<>>
    /\ client = [c \in Clients |-> Idle]
    /\ joined = [c \in Clients |-> TRUE]
    /\ registered = [c \in Clients |-> TRUE]
    /\ session = [c \in Clients |-> 0]
    /\ view = [c \in Clients |-> [f \in Fields |-> Unset]]
    /\ removed = [c \in Clients |-> {}]
    /\ sent = {}
    /\ inbox = [c \in Clients |-> <<>>]
    /\ confirmed = {}
    /\ skipped = {}

-----------------------------------------------------------------------------
(* What a handler does to the state k of client c.                           *)

Queued(k) == {e.id : e \in k.queue}
Without(q, S) == {e \in q : e.id \notin S}
WithStatus(q, id, status, try) ==
    Without(q, {id}) \cup {[id |-> id, status |-> status, try |-> try]}
Pending(k) == {e \in k.queue : e.status = "pending"}
InFlight(k) == {e \in k.queue : e.status = "processing"}
First(S) == CHOOSE e \in S : \A d \in S : e.id <= d.id

(* processNextOperation: the first pending operation is sent, unless one is  *)
(* in flight or the queue has no room. When the room is gone and the queue   *)
(* does not know it yet, the emit is refused and the operation stays.         *)
NextSent(k) ==
    IF k.busy \/ Pending(k) = {} THEN k
    ELSE LET e == First(Pending(k))
         IN  [k EXCEPT !.queue = WithStatus(@, e.id, "processing", e.try),
                       !.busy = TRUE,
                       !.deadlines = @ \cup {e.id}]
Processed(c, k) == IF registered[c] /\ joined[c] THEN NextSent(k) ELSE k

\* The messages by which client c comes from state k to state l.
Emitted(c, k, l) ==
    {[id |-> e.id, try |-> e.try, at |-> session[c]] : e \in InFlight(l) \ InFlight(k)}

Becomes(c, k) ==
    /\ client' = [client EXCEPT ![c] = k]
    /\ sent' = sent \cup Emitted(c, client[c], k)

\* addToQueue: an edit equal to one in the queue is dropped, and a pending
\* update of the same field gives way to the new one.
Coalesces(o, p) == o.kind = "set" /\ p.kind = "set" /\ p.field = o.field

\* Mutant: an update replaces one that is being sent, too.
GivesWayAll(k, o) == {id \in Queued(k) : Coalesces(o, ops[id])}

GivesWay(k, o) == {id \in {e.id : e \in Pending(k)} : Coalesces(o, ops[id])}
IsDuplicate(k, o) == \E id \in Queued(k) \ GivesWay(k, o) : ops[id] = o

Added(c, k, id, o) ==
    IF IsDuplicate(k, o) THEN k
    ELSE Processed(c, [k EXCEPT !.queue = Without(@, GivesWay(k, o))
                            \cup {[id |-> id, status |-> "pending", try |-> 0]}])

\* confirmOperation: nothing is in flight any more, whatever was confirmed.
Confirmed(c, k, id) ==
    Processed(c, [k EXCEPT !.queue = Without(@, {id}), !.busy = FALSE,
                           !.deadlines = @ \ {id}, !.retries = @ \ {id}])

\* triggerOfflineMode: everything is dropped, and the user is told.
Offline(k) == [Idle EXCEPT !.error = TRUE]

\* dropOperationForMissingTarget
TargetGone(c, id) == ops[id].kind = "set" /\ BlockOf[ops[id].field] \in removed[c]

\* Mutant: a failed operation is retried by whoever calls next.
FailedUntimed(c, k, id, retryable) ==
    IF id \in Queued(k)
    THEN [k EXCEPT !.queue = WithStatus(@, id, "pending", 1), !.busy = FALSE,
                   !.deadlines = @ \ {id}]
    ELSE k

\* failOperation
Failed(c, k, id, retryable) ==
    IF id \notin Queued(k) THEN k
    ELSE LET e == CHOOSE x \in k.queue : x.id = id
             l == [k EXCEPT !.deadlines = @ \ {id}]
         IN  IF retryable /\ e.try < MaxRetries
             THEN [l EXCEPT !.queue = WithStatus(@, id, "pending", e.try + 1),
                            !.busy = FALSE, !.retries = @ \cup {id}]
             ELSE IF TargetGone(c, id)
             THEN Processed(c, [l EXCEPT !.queue = Without(@, {id}), !.busy = FALSE])
             ELSE Offline(l)

ForBlock(k, b) ==
    {id \in Queued(k) : \/ ops[id].kind = "set" /\ BlockOf[ops[id].field] = b
                        \/ ops[id].kind = "remove" /\ ops[id].block = b}

\* Mutant: cancelling leaves isProcessing alone.
CancelledBusy(c, k, b) ==
    LET dropped == ForBlock(k, b)
    IN  Processed(c, [k EXCEPT !.queue = Without(@, dropped),
                               !.deadlines = @ \ dropped, !.retries = @ \ dropped])

\* cancelOperationsForBlock: its operations are dropped, and nothing is in
\* flight any more, whichever were dropped.
Cancelled(c, k, b) ==
    LET dropped == ForBlock(k, b)
    IN  Processed(c, [k EXCEPT !.queue = Without(@, dropped), !.busy = FALSE,
                               !.deadlines = @ \ dropped, !.retries = @ \ dropped])

-----------------------------------------------------------------------------
(* What the user does, and what the clock does.                              *)

MayEdit(c) == Len(ops) < MaxOps /\ ~ client[c].error

\* collaborativeSetSubblockValue
SetValue(c, f, v) ==
    LET o  == [by |-> c, kind |-> "set", field |-> f, value |-> v]
        id == Len(ops) + 1
    IN  /\ MayEdit(c) /\ BlockOf[f] \notin removed[c]
        /\ ops' = Append(ops, o)
        /\ view' = [view EXCEPT ![c][f] = v]
        /\ Becomes(c, Added(c, client[c], id, o))
        /\ skipped' = IF IsDuplicate(client[c], o) THEN skipped \cup {id} ELSE skipped
        /\ UNCHANGED <<joined, registered, session, removed, inbox, confirmed>>

\* collaborativeBatchRemoveBlocks
RemoveBlock(c, b) ==
    LET o  == [by |-> c, kind |-> "remove", block |-> b]
        id == Len(ops) + 1
    IN  /\ MayEdit(c) /\ b \notin removed[c]
        /\ ops' = Append(ops, o)
        /\ removed' = [removed EXCEPT ![c] = @ \cup {b}]
        /\ Becomes(c, Added(c, Cancelled(c, client[c], b), id, o))
        /\ UNCHANGED <<joined, registered, session, view, inbox, confirmed, skipped>>

\* handleOperationTimeout
TimesOut(c, id) ==
    /\ id \in client[c].deadlines
    /\ Becomes(c, Failed(c, [client[c] EXCEPT !.deadlines = @ \ {id}], id, TRUE))
    /\ UNCHANGED <<ops, joined, registered, session, view, removed, inbox, confirmed, skipped>>

\* The retry timer that failOperation has set.
Retries(c, id) ==
    /\ id \in client[c].retries
    /\ Becomes(c, Processed(c, [client[c] EXCEPT !.retries = @ \ {id}]))
    /\ UNCHANGED <<ops, joined, registered, session, view, removed, inbox, confirmed, skipped>>

\* The socket joins the room again, then registerEmitFunctions runs; or it is
\* told that the room is gone.
Rejoin(c) ==
    /\ ~ joined[c] /\ ~ registered[c]
    /\ joined' = [joined EXCEPT ![c] = TRUE]
    /\ UNCHANGED <<ops, client, registered, session, view, removed, sent, inbox, confirmed, skipped>>

Unregister(c) ==
    /\ ~ joined[c] /\ registered[c]
    /\ registered' = [registered EXCEPT ![c] = FALSE]
    /\ UNCHANGED <<ops, client, joined, session, view, removed, sent, inbox, confirmed, skipped>>

Register(c) ==
    /\ joined[c] /\ ~ registered[c]
    /\ registered' = [registered EXCEPT ![c] = TRUE]
    /\ Becomes(c, NextSent(client[c]))
    /\ UNCHANGED <<ops, joined, session, view, removed, inbox, confirmed, skipped>>
=============================================================================
