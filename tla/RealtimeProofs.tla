--------------------------- MODULE RealtimeProofs ---------------------------
(* Proofs about Realtime: no queue hangs or stalls, and what the server has  *)
(* confirmed is kept, for any clients, fields, edits and faults. First the   *)
(* queue of one client, handler by handler; then what a step does to all     *)
(* clients (Moved) and to the server (Typed); then that no message comes     *)
(* twice (Newer, Once); and last what has become of a confirmed update       *)
(* (ServerSettled).                                                          *)
EXTENDS Realtime, TLAPS, FiniteSetTheorems, WellFoundedInduction, SequenceTheorems

-----------------------------------------------------------------------------
(* The queue of one client: each handler leaves it well formed, with nothing *)
(* waiting that could be sent.                                               *)

Entries == [id : Ids, status : {"pending", "processing"}, try : 0 .. MaxRetries]
States == [queue : SUBSET Entries, busy : BOOLEAN, deadlines : SUBSET Ids,
           retries : SUBSET Ids, error : BOOLEAN]

\* An operation is in the queue once, those in flight have a timeout and no
\* others do, and the queue takes itself to be busy only if one is in flight.
Well(k) ==
    /\ k \in States
    /\ \A d, e \in k.queue : d.id = e.id => d = e
    /\ k.deadlines = {e.id : e \in InFlight(k)}
    /\ k.busy => InFlight(k) # {}

\* Nothing waits that could be sent, or a timer will see to it.
Calm(k) == ~ k.busy /\ Pending(k) # {} => k.retries # {}

\* The queue r has only operations of q, some of which have been sent meanwhile.
Sends(q, r) ==
    \A e \in r :
        \/ e \in q
        \/ /\ e.status = "processing"
           /\ \E d \in q : d.id = e.id /\ d.try = e.try /\ d.status = "pending"

\* The same, but that some may wait to be tried again.
Ages(q, r) ==
    \A e \in r :
        \/ e \in q
        \/ /\ e.status = "processing"
           /\ \E d \in q : d.id = e.id /\ d.try = e.try /\ d.status = "pending"
        \/ /\ e.status = "pending"
           /\ \E d \in q : d.id = e.id /\ d.try < e.try

(* Of some operations one is the oldest. *)
LEMMA Oldest ==
    ASSUME NEW S \in SUBSET Entries, S # {}
    PROVE  \E e \in S : \A d \in S : e.id <= d.id
<1> DEFINE Before(e) == {i \in Ids : i < e.id}
           Heads == {Before(e) : e \in S}
<1>1. IsFiniteSet(Ids)
    BY QueueConstants, FS_Interval DEF Ids
<1>2. Heads \subseteq FiniteSubsetsOf(Ids) /\ Heads # {}
    <2>1. ASSUME NEW e \in S PROVE Before(e) \in FiniteSubsetsOf(Ids)
        <3>1. Before(e) \in SUBSET Ids
            OBVIOUS
        <3> QED BY <1>1, <3>1, FS_Subset DEF FiniteSubsetsOf
    <2> QED BY <2>1
<1>3. PICK U \in Heads : \A V \in Heads : ~ (<<V, U>> \in StrictSubsetOrdering(Ids))
    <2> HIDE DEF Heads
    <2> QED BY <1>1, <1>2, WFMin, FS_StrictSubsetOrderingWellFounded, Zenon
<1>4. PICK e \in S : U = Before(e)
    OBVIOUS
<1>5. ASSUME NEW d \in S, d.id < e.id PROVE FALSE
    <2>1. d.id \in Ids /\ e.id \in Ids /\ \A i \in Ids : i \in Int
        BY QueueConstants DEF Entries, Ids
    <2>2. Before(d) \subseteq U /\ d.id \in U /\ d.id \notin Before(d)
        <3>1. \A i \in Ids : i < d.id => i < e.id
            BY <1>5, <2>1
        <3>2. ~ (d.id < d.id)
            BY <2>1
        <3> QED BY <1>4, <1>5, <2>1, <3>1, <3>2
    <2>3. <<Before(d), U>> \in StrictSubsetOrdering(Ids)
        BY <1>4, <2>2 DEF StrictSubsetOrdering
    <2> QED BY <1>3, <2>3
<1> QED
    <2>1. \A d \in S : d.id \in Int /\ e.id \in Int
        BY QueueConstants DEF Entries, Ids
    <2> QED BY <1>5, <2>1

LEMMA FirstIsPending ==
    ASSUME NEW k, Well(k), Pending(k) # {}
    PROVE  First(Pending(k)) \in Pending(k)
<1>1. Pending(k) \in SUBSET Entries
    BY DEF Well, States, Pending
<1>2. \E e \in Pending(k) : \A d \in Pending(k) : e.id <= d.id
    BY <1>1, Oldest
<1> QED BY <1>2 DEF First

(* What sending does to the operations in the queue. *)
LEMMA SendingWell ==
    ASSUME NEW k, NEW e, NEW l, Well(k), ~ k.busy, e \in Pending(k),
           l = [k EXCEPT !.queue = WithStatus(@, e.id, "processing", e.try),
                                !.busy = TRUE,
                                !.deadlines = @ \cup {e.id}]
    PROVE  Well(l) /\ l.busy /\ Sends(k.queue, l.queue) /\ Queued(l) = Queued(k)
<1> DEFINE s == [id |-> e.id, status |-> "processing", try |-> e.try]
<1>1. e \in k.queue /\ e \in Entries /\ e.status = "pending" /\ k.queue \subseteq Entries
    BY DEF Pending, Well, States
<1>2. l = [queue |-> WithStatus(k.queue, e.id, "processing", e.try), busy |-> TRUE,
           deadlines |-> k.deadlines \cup {e.id}, retries |-> k.retries, error |-> k.error]
    BY DEF Well, States
<1>3. s \in Entries
    BY <1>1 DEF Entries
<1>4. l.queue = (k.queue \ {e}) \cup {s}
    <2>1. \A d \in k.queue : d.id = e.id => d = e
        BY <1>1 DEF Well
    <2>2. l.queue = WithStatus(k.queue, e.id, "processing", e.try)
        BY <1>2
    <2> QED BY <1>1, <2>1, <2>2 DEF WithStatus, Without
<1>5. \A d \in k.queue \ {e} : d.id # e.id
    BY <1>1 DEF Well
<1>6. InFlight(l) = InFlight(k) \cup {s}
    BY <1>1, <1>4 DEF InFlight
<1>7. l \in States
    <2>1. l.queue \in SUBSET Entries /\ k.deadlines \cup {e.id} \in SUBSET Ids
        BY <1>1, <1>3, <1>4 DEF States, Well, Entries
    <2> QED BY <1>2, <2>1 DEF States, Well
<1>8. \A d, f \in l.queue : d.id = f.id => d = f
    BY <1>4, <1>5 DEF Well
<1>9. l.deadlines = {f.id : f \in InFlight(l)}
    <2>1. {f.id : f \in InFlight(l)} = {f.id : f \in InFlight(k)} \cup {e.id}
        <3>1. s.id = e.id
            OBVIOUS
        <3> HIDE DEF s
        <3> QED BY <1>6, <3>1
    <2> QED BY <1>2, <2>1 DEF Well
<1>10. Sends(k.queue, l.queue)
    BY <1>1, <1>4 DEF Sends
<1>11. Queued(l) = Queued(k)
    <2>1. \A i : i \in Queued(l) => i \in Queued(k)
        BY <1>1, <1>4 DEF Queued
    <2>2. ASSUME NEW d \in k.queue PROVE d.id \in Queued(l)
        <3>1. d = e \/ d \in l.queue
            BY <1>4
        <3>2. s \in l.queue
            BY <1>4
        <3>3. s.id = e.id
            OBVIOUS
        <3>4. \E f \in l.queue : f.id = d.id
            BY <3>1, <3>2, <3>3
        <3> QED BY <3>4 DEF Queued
    <2>3. \A i : i \in Queued(k) => i \in Queued(l)
        BY <2>2 DEF Queued
    <2> QED BY <2>1, <2>3
<1> QED BY <1>2, <1>6, <1>7, <1>8, <1>9, <1>10, <1>11 DEF Well

\* What the handlers that drop operations do before they call for the next.
Dropping(k, S, R) ==
    [queue |-> Without(k.queue, S), busy |-> FALSE, deadlines |-> k.deadlines \ S,
     retries |-> R, error |-> k.error]

LEMMA DroppingIs ==
    ASSUME NEW k, NEW S, NEW R, NEW l, k \in States,
           l = [k EXCEPT !.queue = Without(@, S), !.busy = FALSE,
                                !.deadlines = @ \ S, !.retries = R]
    PROVE  l = Dropping(k, S, R)
BY DEF Dropping, States

LEMMA DroppingWell ==
    ASSUME NEW k, NEW S, NEW R, Well(k), R \subseteq Ids
    PROVE  /\ Well(Dropping(k, S, R))
           /\ Dropping(k, S, R).queue \subseteq k.queue
<1> DEFINE l == Dropping(k, S, R)
<1>1. /\ l.queue = Without(k.queue, S) /\ l.busy = FALSE /\ l.deadlines = k.deadlines \ S
    BY DEF Dropping
<1>2. l.queue \subseteq k.queue
    BY <1>1 DEF Without
<1>3. l \in States
    BY <1>1, <1>2 DEF Dropping, Well, States
<1>4. \A d, e \in l.queue : d.id = e.id => d = e
    BY <1>2 DEF Well
<1>5. l.deadlines = {e.id : e \in InFlight(l)}
    <2> HIDE DEF l
    <2>1. k.deadlines = {e.id : e \in InFlight(k)}
        BY DEF Well
    <2>2. InFlight(l) = {e \in InFlight(k) : e.id \notin S}
        BY <1>1 DEF InFlight, Without
    <2> QED BY <1>1, <2>1, <2>2
<1> QED BY <1>1, <1>2, <1>3, <1>4, <1>5 DEF Well

LEMMA NextSentWell ==
    ASSUME NEW k, Well(k)
    PROVE  /\ Well(NextSent(k)) /\ Calm(NextSent(k))
           /\ Sends(k.queue, NextSent(k).queue)
           /\ Queued(NextSent(k)) = Queued(k)
<1>1. CASE k.busy \/ Pending(k) = {}
    <2>1. NextSent(k) = k /\ Calm(k)
        BY <1>1 DEF NextSent, Calm
    <2> QED BY <2>1 DEF Sends
<1>2. CASE ~ k.busy /\ Pending(k) # {}
    <2> DEFINE e == First(Pending(k))
               l == [k EXCEPT !.queue = WithStatus(@, e.id, "processing", e.try),
                              !.busy = TRUE,
                              !.deadlines = @ \cup {e.id}]
    <2>1. e \in Pending(k)
        BY <1>2, FirstIsPending
    <2>2. NextSent(k) = l
        BY <1>2 DEF NextSent
    <2>3. Well(l) /\ l.busy /\ Sends(k.queue, l.queue) /\ Queued(l) = Queued(k)
        <3> HIDE DEF e
        <3> QED BY <1>2, <2>1, SendingWell
    <2> HIDE DEF l
    <2> QED BY <2>2, <2>3 DEF Calm
<1> QED BY <1>1, <1>2

LEMMA ProcessedWell ==
    ASSUME NEW c, NEW k, Well(k)
    PROVE  /\ Well(Processed(c, k))
           /\ Sends(k.queue, Processed(c, k).queue)
           /\ Queued(Processed(c, k)) = Queued(k)
           /\ registered[c] /\ joined[c] => Calm(Processed(c, k))
BY NextSentWell DEF Processed, Sends

(* A handler that drops operations and calls for the next one. *)
LEMMA DroppedWell ==
    ASSUME NEW c, NEW k, NEW S, NEW R, NEW l, Well(k), R \subseteq Ids,
           l = Processed(c, Dropping(k, S, R))
    PROVE  /\ Well(l)
           /\ Sends(k.queue, l.queue)
           /\ Queued(l) \subseteq Queued(k) \ S
           /\ registered[c] /\ joined[c] => Calm(l)
<1> DEFINE h == Dropping(k, S, R)
<1>1. Well(h) /\ h.queue \subseteq k.queue
    BY DroppingWell
<1>2. /\ Well(l) /\ Sends(h.queue, l.queue) /\ Queued(l) = Queued(h)
      /\ registered[c] /\ joined[c] => Calm(l)
    <2> HIDE DEF h
    <2> QED BY <1>1, ProcessedWell DEF h
<1>3. Queued(h) \subseteq Queued(k) \ S
    <2>1. h.queue = Without(k.queue, S)
        BY DEF Dropping
    <2> HIDE DEF h
    <2> QED BY <2>1 DEF Queued, Without
<1> QED BY <1>1, <1>2, <1>3 DEF Sends

LEMMA ConfirmedWell ==
    ASSUME NEW c, NEW k, NEW id, NEW l, Well(k), l = Confirmed(c, k, id)
    PROVE  /\ Well(l)
           /\ Sends(k.queue, l.queue)
           /\ registered[c] /\ joined[c] => Calm(l)
<1>1. l = Processed(c, Dropping(k, {id}, k.retries \ {id}))
    <2>1. [k EXCEPT !.queue = Without(@, {id}), !.busy = FALSE,
                    !.deadlines = @ \ {id}, !.retries = @ \ {id}]
              = Dropping(k, {id}, k.retries \ {id})
        BY DroppingIs DEF Well
    <2> QED BY <2>1 DEF Confirmed
<1>2. k.retries \ {id} \subseteq Ids
    BY DEF Well, States
<1> QED BY <1>1, <1>2, DroppedWell

LEMMA CancelledWell ==
    ASSUME NEW c, NEW k, NEW b, NEW l, Well(k), l = Cancelled(c, k, b)
    PROVE  /\ Well(l)
           /\ Sends(k.queue, l.queue)
           /\ Queued(l) \subseteq Queued(k)
           /\ registered[c] /\ joined[c] => Calm(l)
<1> DEFINE S == ForBlock(k, b)
<1>1. l = Processed(c, Dropping(k, S, k.retries \ S))
    <2>1. [k EXCEPT !.queue = Without(@, S), !.busy = FALSE,
                    !.deadlines = @ \ S, !.retries = @ \ S]
              = Dropping(k, S, k.retries \ S)
        BY DroppingIs DEF Well
    <2> QED BY <2>1 DEF Cancelled
<1>2. k.retries \ S \subseteq Ids
    BY DEF Well, States
<1> HIDE DEF S
<1>3. /\ Well(l) /\ Sends(k.queue, l.queue)
      /\ registered[c] /\ joined[c] => Calm(l)
    BY <1>1, <1>2, DroppedWell
<1>4. Queued(l) \subseteq Queued(k) \ S
    BY <1>1, <1>2, DroppedWell
<1> QED BY <1>3, <1>4

\* What an edit adds to the queue.
Fresh(id) == [id |-> id, status |-> "pending", try |-> 0]

LEMMA AddingWell ==
    ASSUME NEW k, NEW id, NEW o, NEW h, Well(k), id \in Ids, id \notin Queued(k),
           h = [k EXCEPT !.queue = Without(@, GivesWay(k, o)) \cup {Fresh(id)}]
    PROVE  /\ h = [queue |-> Without(k.queue, GivesWay(k, o)) \cup {Fresh(id)}, busy |-> k.busy,
                   deadlines |-> k.deadlines, retries |-> k.retries, error |-> k.error]
           /\ Well(h) /\ InFlight(h) = InFlight(k)
<1> DEFINE G == GivesWay(k, o)
<1>1. Fresh(id) \in Entries /\ Fresh(id).status = "pending" /\ Fresh(id).id = id
    BY QueueConstants DEF Fresh, Entries
<1>2. G \subseteq {e.id : e \in Pending(k)}
    BY DEF GivesWay
<1> HIDE DEF G
<1>3. h = [queue |-> Without(k.queue, G) \cup {Fresh(id)}, busy |-> k.busy,
           deadlines |-> k.deadlines, retries |-> k.retries, error |-> k.error]
    BY DEF Well, States, G
<1>4. h \in States
    <2>1. Without(k.queue, G) \cup {Fresh(id)} \subseteq Entries
        BY <1>1 DEF Without, Well, States
    <2> QED BY <1>3, <2>1 DEF Well, States
<1>5. \A d, e \in h.queue : d.id = e.id => d = e
    <2>1. \A d \in k.queue : d.id # id
        BY DEF Queued
    <2> QED BY <1>1, <1>3, <2>1 DEF Without, Well
<1>6. InFlight(h) = InFlight(k)
    <2>1. \A e \in InFlight(k) : e.id \notin G
        BY <1>2 DEF InFlight, Pending, Well
    <2> QED BY <1>1, <1>3, <2>1 DEF Without, InFlight
<1>7. Well(h)
    BY <1>3, <1>4, <1>5, <1>6 DEF Well
<1> QED BY <1>3, <1>6, <1>7 DEF G

LEMMA AddedWell ==
    ASSUME NEW c, NEW k, NEW id, NEW o, NEW l, Well(k),
           registered[c] /\ joined[c] => Calm(k),
           id \in Ids, id \notin Queued(k), l = Added(c, k, id, o)
    PROVE  /\ Well(l)
           /\ Sends(k.queue \cup {Fresh(id)}, l.queue)
           /\ registered[c] /\ joined[c] => Calm(l)
<1>1. CASE IsDuplicate(k, o)
    <2>1. l = k
        BY <1>1 DEF Added
    <2> QED BY <2>1 DEF Sends
<1>2. CASE ~ IsDuplicate(k, o)
    <2>1. PICK h : h = [k EXCEPT !.queue = Without(@, GivesWay(k, o)) \cup {Fresh(id)}]
        OBVIOUS
    <2>2. l = Processed(c, h)
        BY <1>2, <2>1 DEF Added, Fresh
    <2>3. Well(h) /\ h.queue = Without(k.queue, GivesWay(k, o)) \cup {Fresh(id)}
        BY <2>1, AddingWell
    <2>4. h.queue \subseteq k.queue \cup {Fresh(id)}
        BY <2>3 DEF Without
    <2>5. /\ Well(l) /\ Sends(h.queue, l.queue)
          /\ registered[c] /\ joined[c] => Calm(l)
        BY <2>2, <2>3, ProcessedWell
    <2> QED BY <2>4, <2>5 DEF Sends
<1> QED BY <1>1, <1>2

(* A failure is retried, or the operation is dropped, or all are. *)
Retried(k, e) ==
    [queue |-> Without(k.queue, {e.id})
                   \cup {[id |-> e.id, status |-> "pending", try |-> e.try + 1]},
     busy |-> FALSE, deadlines |-> k.deadlines \ {e.id},
     retries |-> k.retries \cup {e.id}, error |-> k.error]

LEMMA RetriedWell ==
    ASSUME NEW k, NEW e, Well(k), e \in k.queue, e.try < MaxRetries
    PROVE  /\ Well(Retried(k, e))
           /\ Ages(k.queue, Retried(k, e).queue)
           /\ Calm(Retried(k, e))
<1> DEFINE l == Retried(k, e)
           s == [id |-> e.id, status |-> "pending", try |-> e.try + 1]
<1>1. /\ l.queue = Without(k.queue, {e.id}) \cup {s}
      /\ l.busy = FALSE /\ l.deadlines = k.deadlines \ {e.id}
      /\ l.retries = k.retries \cup {e.id}
    BY DEF Retried
<1>2. e \in Entries /\ e.id \in Ids /\ e.try \in Nat
    BY QueueConstants DEF Well, States, Entries
<1>3. s \in Entries /\ s.id = e.id /\ s.status = "pending" /\ s.try > e.try
    BY <1>2, QueueConstants DEF Entries
<1> HIDE DEF s
<1>4. l \in States
    <2>1. l.queue \subseteq Entries
        BY <1>1, <1>3 DEF Without, Well, States
    <2> QED BY <1>1, <1>2, <2>1 DEF Retried, Well, States
<1> HIDE DEF l
<1>5. \A d, f \in l.queue : d.id = f.id => d = f
    BY <1>1, <1>3 DEF Without, Well
<1>6. l.deadlines = {f.id : f \in InFlight(l)}
    <2>1. k.deadlines = {f.id : f \in InFlight(k)}
        BY DEF Well
    <2>2. InFlight(l) = {f \in InFlight(k) : f.id # e.id}
        BY <1>1, <1>3 DEF InFlight, Without
    <2> QED BY <1>1, <2>1, <2>2
<1>7. Well(l) /\ Calm(l)
    <2>1. l.retries # {}
        BY <1>1
    <2> QED BY <1>1, <1>4, <1>5, <1>6, <2>1 DEF Well, Calm
<1>8. Ages(k.queue, l.queue)
    <2>1. e.try < s.try
        BY <1>2, <1>3
    <2> QED BY <1>1, <1>3, <2>1 DEF Ages, Without
<1> QED BY <1>7, <1>8 DEF l

(* The timeout of the operation may be gone already. *)
LEMMA FailingWell ==
    ASSUME NEW c, NEW k, NEW j, NEW id, NEW retryable, NEW l, Well(k), id \in Queued(k),
           j.queue = k.queue,
           [j EXCEPT !.deadlines = @ \ {id}] = [k EXCEPT !.deadlines = @ \ {id}],
           l = Failed(c, j, id, retryable)
    PROVE  /\ Well(l)
           /\ Ages(k.queue, l.queue)
           /\ registered[c] /\ joined[c] => Calm(l)
<1> DEFINE e == CHOOSE x \in k.queue : x.id = id
<1>1. e \in k.queue /\ e.id = id /\ j.queue = k.queue /\ id \in Queued(j)
    BY DEF Queued
<1>2. PICK h : h = [j EXCEPT !.deadlines = @ \ {id}]
    OBVIOUS
<1>2a. h = [k EXCEPT !.deadlines = @ \ {id}]
    BY <1>2
<1>3. h = [queue |-> k.queue, busy |-> k.busy, deadlines |-> k.deadlines \ {id},
           retries |-> k.retries, error |-> k.error]
    BY <1>2a DEF Well, States
<1>4. CASE retryable /\ e.try < MaxRetries
    <2>1. PICK g : g = [h EXCEPT !.queue = WithStatus(@, id, "pending", e.try + 1),
                                 !.busy = FALSE, !.retries = @ \cup {id}]
        OBVIOUS
    <2>2. l = g
        BY <1>1, <1>2, <1>4, <2>1 DEF Failed
    <2> HIDE DEF e
    <2>3. g = Retried(k, e)
        BY <1>1, <1>3, <2>1 DEF Retried, WithStatus
    <2>4. Well(g) /\ Ages(k.queue, g.queue) /\ Calm(g)
        BY <1>1, <1>4, <2>3, RetriedWell
    <2> QED BY <2>2, <2>4
<1>5. CASE ~ (retryable /\ e.try < MaxRetries) /\ TargetGone(c, id)
    <2>1. PICK g : g = [h EXCEPT !.queue = Without(@, {id}), !.busy = FALSE]
        OBVIOUS
    <2>2. l = Processed(c, g)
        BY <1>1, <1>2, <1>5, <2>1 DEF Failed
    <2>3. g = Dropping(k, {id}, k.retries)
        BY <1>3, <2>1 DEF Dropping
    <2>4. k.retries \subseteq Ids
        BY DEF Well, States
    <2>5. /\ Well(l) /\ Sends(k.queue, l.queue)
          /\ registered[c] /\ joined[c] => Calm(l)
        BY <2>2, <2>3, <2>4, DroppedWell
    <2> QED BY <2>5 DEF Sends, Ages
<1>6. CASE ~ (retryable /\ e.try < MaxRetries) /\ ~ TargetGone(c, id)
    <2>1. l = Offline(h)
        BY <1>1, <1>2, <1>6 DEF Failed
    <2>2. l = [queue |-> {}, busy |-> FALSE, deadlines |-> {}, retries |-> {}, error |-> TRUE]
        BY <2>1 DEF Offline, Idle
    <2> QED BY <2>2 DEF Well, States, InFlight, Ages, Calm, Pending
<1> DEFINE P == retryable /\ e.try < MaxRetries
<1>7. P \/ (~ P /\ TargetGone(c, id)) \/ (~ P /\ ~ TargetGone(c, id))
    OBVIOUS
<1> QED BY <1>4, <1>5, <1>6, <1>7

LEMMA FailedWell ==
    ASSUME NEW c, NEW k, NEW id, NEW retryable, NEW l, Well(k), id \in Queued(k),
           l = Failed(c, k, id, retryable)
    PROVE  /\ Well(l)
           /\ Ages(k.queue, l.queue)
           /\ registered[c] /\ joined[c] => Calm(l)
BY FailingWell

(* An operation that has timed out fails. *)
LEMMA TimedOutWell ==
    ASSUME NEW c, NEW k, NEW id, NEW l, Well(k), id \in k.deadlines,
           l = Failed(c, [k EXCEPT !.deadlines = @ \ {id}], id, TRUE)
    PROVE  /\ Well(l)
           /\ Ages(k.queue, l.queue)
           /\ registered[c] /\ joined[c] => Calm(l)
<1>1. id \in Queued(k)
    BY DEF Well, InFlight, Queued
<1>2. PICK h : h = [k EXCEPT !.deadlines = @ \ {id}]
    OBVIOUS
<1>3. h.queue = k.queue
    BY <1>2 DEF Well, States
<1>4. [h EXCEPT !.deadlines = @ \ {id}] = h
    <2>1. PICK g : g = [h EXCEPT !.deadlines = @ \ {id}]
        OBVIOUS
    <2>2. h = [queue |-> k.queue, busy |-> k.busy, deadlines |-> k.deadlines \ {id},
               retries |-> k.retries, error |-> k.error]
        BY <1>2 DEF Well, States
    <2> QED BY <2>1, <2>2
<1>5. l = Failed(c, h, id, TRUE)
    BY <1>2
<1> QED BY <1>1, <1>2, <1>3, <1>4, <1>5, FailingWell

-----------------------------------------------------------------------------
(* What the clients hold, and what a step does to it.                        *)

Shown == Values \cup {Unset}

ClientTypes ==
    /\ ops \in Seq(Operation) /\ Len(ops) <= MaxOps
    /\ client \in [Clients -> States]
    /\ joined \in [Clients -> BOOLEAN] /\ registered \in [Clients -> BOOLEAN]
    /\ session \in [Clients -> Nat]
    /\ view \in [Clients -> [Fields -> Shown]]
    /\ removed \in [Clients -> SUBSET Blocks]

\* A queue holds operations of its own client.
OwnQueue ==
    \A c \in Clients : \A e \in client[c].queue : e.id <= Len(ops) /\ ops[e.id].by = c

QueuesWell ==
    \A c \in Clients :
        /\ Well(client[c])
        /\ registered[c] /\ joined[c] => Calm(client[c])

ClientInv == ClientTypes /\ OwnQueue /\ QueuesWell

Notices ==
    [type : {"confirmed"}, id : Ids]
        \cup [type : {"failed"}, id : Ids, retryable : BOOLEAN]
        \cup [type : {"value"}, field : Fields, value : Values]
        \cup [type : {"removed"}, block : Blocks]

InboxTypes == inbox \in [Clients -> Seq(Notices)]

\* The operation that the user has just added, if it is c's.
Newest(c) ==
    {Fresh(i) : i \in {j \in 1 .. Len(ops') : j = Len(ops) + 1 /\ ops'[j].by = c}}

\* What a step may do to the operations and the queues.
OpsGrow ==
    /\ Len(ops') \in {Len(ops), Len(ops) + 1}
    /\ \A i \in 1 .. Len(ops) : ops'[i] = ops[i]
QueuesAge == \A c \in Clients : Ages(client[c].queue \cup Newest(c), client'[c].queue)
SentByClients ==
    \A m \in sent' \ sent : \E c \in Clients :
        \E e \in InFlight(client'[c]) \ InFlight(client[c]) :
            m = [id |-> e.id, try |-> e.try, at |-> session[c]]

Moved == ClientInv' /\ OpsGrow /\ QueuesAge /\ SentByClients

(* A step that changes the queue of one client, or none. *)
LEMMA QueueMoves ==
    ASSUME NEW c \in Clients, NEW l, ClientInv,
           Becomes(c, l), ops' = ops,
           joined' = joined, registered' \in [Clients -> BOOLEAN], session' = session,
           view' \in [Clients -> [Fields -> Shown]], removed' \in [Clients -> SUBSET Blocks],
           \A d \in Clients \ {c} : registered'[d] = registered[d],
           Well(l), Ages(client[c].queue, l.queue),
           registered'[c] /\ joined[c] => Calm(l)
    PROVE  Moved
<1>1. /\ client' = [client EXCEPT ![c] = l]
      /\ sent' = sent \cup Emitted(c, client[c], l)
    BY DEF Becomes
<1>2. /\ client'[c] = l /\ \A d \in Clients \ {c} : client'[d] = client[d]
      /\ client' \in [Clients -> States]
    BY <1>1 DEF ClientInv, ClientTypes, Well
<1>3. ClientTypes'
    BY <1>2 DEF ClientInv, ClientTypes
<1>4. OwnQueue'
    <2>1. ASSUME NEW e \in l.queue PROVE e.id <= Len(ops) /\ ops[e.id].by = c
        BY DEF Ages, ClientInv, OwnQueue
    <2> QED BY <1>2, <2>1 DEF ClientInv, OwnQueue
<1>5. QueuesWell'
    BY <1>2 DEF ClientInv, QueuesWell, Well, Calm, InFlight, Pending
<1>6. OpsGrow
    BY DEF OpsGrow, ClientInv, ClientTypes
<1>7. QueuesAge
    BY <1>2 DEF QueuesAge, Ages
<1>8. SentByClients
    BY <1>1, <1>2 DEF SentByClients, Emitted
<1> QED BY <1>3, <1>4, <1>5, <1>6, <1>7, <1>8 DEF Moved, ClientInv

LEMMA QueueStays ==
    ASSUME ClientInv, UNCHANGED <<ops, client>>, session' \in [Clients -> Nat],
           sent' \subseteq sent, joined' \in [Clients -> BOOLEAN], registered' \in [Clients -> BOOLEAN],
           view' \in [Clients -> [Fields -> Shown]], removed' \in [Clients -> SUBSET Blocks],
           \A c \in Clients : registered'[c] /\ joined'[c] => registered[c] /\ joined[c]
    PROVE  Moved
<1>1. ClientTypes' /\ OwnQueue'
    BY DEF ClientInv, ClientTypes, OwnQueue
<1>2. QueuesWell'
    BY DEF ClientInv, QueuesWell, Well, Calm, InFlight, Pending
<1>3. OpsGrow /\ QueuesAge /\ SentByClients
    BY DEF OpsGrow, QueuesAge, SentByClients, Ages, ClientInv, ClientTypes
<1> QED BY <1>1, <1>2, <1>3 DEF Moved, ClientInv

LEMMA EditMoves ==
    ASSUME NEW c \in Clients, NEW l, NEW o, ClientInv, o \in Operation, o.by = c,
           Len(ops) < MaxOps, ops' = Append(ops, o),
           Becomes(c, l), joined' = joined, registered' = registered, session' = session,
           view' \in [Clients -> [Fields -> Shown]], removed' \in [Clients -> SUBSET Blocks],
           Well(l), Sends(client[c].queue \cup {Fresh(Len(ops) + 1)}, l.queue),
           registered[c] /\ joined[c] => Calm(l)
    PROVE  Moved
<1>1. /\ client' = [client EXCEPT ![c] = l]
      /\ sent' = sent \cup Emitted(c, client[c], l)
    BY DEF Becomes
<1>2. /\ client'[c] = l /\ \A d \in Clients \ {c} : client'[d] = client[d]
      /\ client' \in [Clients -> States]
    BY <1>1 DEF ClientInv, ClientTypes, Well
<1>3. /\ ops' \in Seq(Operation) /\ Len(ops') = Len(ops) + 1 /\ Len(ops) \in Nat
      /\ ops'[Len(ops) + 1] = o
      /\ \A i \in 1 .. Len(ops) : ops'[i] = ops[i]
    BY AppendProperties, LenProperties DEF ClientInv, ClientTypes
<1>4. ClientTypes'
    <2>1. Len(ops') <= MaxOps
        BY <1>3, QueueConstants
    <2> QED BY <1>2, <1>3, <2>1 DEF ClientInv, ClientTypes
<1>5. Fresh(Len(ops) + 1).id = Len(ops) + 1
    BY DEF Fresh
<1>6. OwnQueue'
    <2>1. ASSUME NEW e \in client[c].queue \cup {Fresh(Len(ops) + 1)}
          PROVE  e.id <= Len(ops') /\ ops'[e.id].by = c
        <3>1. CASE e \in client[c].queue
            <4>1. e.id \in Ids /\ e.id <= Len(ops) /\ ops[e.id].by = c
                BY <3>1 DEF ClientInv, OwnQueue, ClientTypes, States, Entries
            <4> QED BY <4>1, <1>3 DEF Ids
        <3>2. CASE e = Fresh(Len(ops) + 1)
            <4>1. e.id = Len(ops) + 1
                BY <1>5, <3>2
            <4> QED BY <1>3, <4>1
        <3> QED BY <3>1, <3>2
    <2>2. ASSUME NEW e \in l.queue PROVE e.id <= Len(ops') /\ ops'[e.id].by = c
        BY <2>1 DEF Sends
    <2>3. ASSUME NEW d \in Clients \ {c}, NEW e \in client[d].queue
          PROVE  e.id <= Len(ops') /\ ops'[e.id].by = d
        <3>1. e.id \in Ids /\ e.id <= Len(ops) /\ ops[e.id].by = d
            BY DEF ClientInv, OwnQueue, ClientTypes, States, Entries
        <3> QED BY <3>1, <1>3 DEF Ids
    <2> QED BY <1>2, <2>2, <2>3 DEF OwnQueue
<1>7. QueuesWell'
    BY <1>2 DEF ClientInv, QueuesWell, Well, Calm, InFlight, Pending
<1>8. OpsGrow
    BY <1>3 DEF OpsGrow
<1>9. QueuesAge
    <2>1. Fresh(Len(ops) + 1) \in Newest(c)
        BY <1>3 DEF Newest
    <2>2. \A d \in Clients \ {c} : Ages(client[d].queue \cup Newest(d), client'[d].queue)
        BY <1>2 DEF Ages
    <2>3. Ages(client[c].queue \cup Newest(c), l.queue)
        BY <2>1 DEF Ages, Sends
    <2> QED BY <1>2, <2>2, <2>3 DEF QueuesAge
<1>10. SentByClients
    BY <1>1, <1>2 DEF SentByClients, Emitted
<1> QED BY <1>4, <1>6, <1>7, <1>8, <1>9, <1>10 DEF Moved, ClientInv

LEMMA SetValueMoves ==
    ASSUME ClientInv, NEW c \in Clients, NEW f \in Fields, NEW v \in Values, SetValue(c, f, v)
    PROVE  Moved
<1> DEFINE o == [by |-> c, kind |-> "set", field |-> f, value |-> v]
           id == Len(ops) + 1
           k == client[c]
           l == Added(c, k, id, o)
<1>1. o \in Operation /\ o.by = c
    BY DEF Operation
<1>2. Len(ops) \in Nat /\ Len(ops) < MaxOps /\ id \in Ids
    BY QueueConstants, LenProperties DEF ClientInv, ClientTypes, SetValue, MayEdit, Ids
<1>3. id \notin Queued(k)
    <2>1. \A e \in k.queue : e.id \in Ids /\ e.id <= Len(ops)
        BY DEF ClientInv, OwnQueue, ClientTypes, States, Entries
    <2> QED BY <1>2, <2>1 DEF Queued, Ids
<1>4. /\ Becomes(c, l) /\ ops' = Append(ops, o)
      /\ view' = [view EXCEPT ![c][f] = v]
      /\ UNCHANGED <<joined, registered, session, removed>>
    BY DEF SetValue
<1>5. view' \in [Clients -> [Fields -> Shown]] /\ removed' \in [Clients -> SUBSET Blocks]
    BY <1>4 DEF ClientInv, ClientTypes, Shown
<1>6. Well(k) /\ (registered[c] /\ joined[c] => Calm(k))
    BY DEF ClientInv, QueuesWell
<1> HIDE DEF o
<1>7. /\ Well(l) /\ Sends(k.queue \cup {Fresh(id)}, l.queue)
      /\ registered[c] /\ joined[c] => Calm(l)
    <2>1. l = Added(c, k, id, o)
        OBVIOUS
    <2> HIDE DEF l, id, k
    <2> QED BY <1>2, <1>3, <1>6, <2>1, AddedWell
<1> HIDE DEF l
<1> QED BY <1>1, <1>2, <1>4, <1>5, <1>7, EditMoves

LEMMA RemoveBlockMoves ==
    ASSUME ClientInv, NEW c \in Clients, NEW b \in Blocks, RemoveBlock(c, b)
    PROVE  Moved
<1> DEFINE o == [by |-> c, kind |-> "remove", block |-> b]
           id == Len(ops) + 1
           k == Cancelled(c, client[c], b)
           l == Added(c, k, id, o)
<1>1. o \in Operation /\ o.by = c
    BY DEF Operation
<1>2. Len(ops) \in Nat /\ Len(ops) < MaxOps /\ id \in Ids
    BY QueueConstants, LenProperties DEF ClientInv, ClientTypes, RemoveBlock, MayEdit, Ids
<1>3. /\ Becomes(c, l) /\ ops' = Append(ops, o)
      /\ removed' = [removed EXCEPT ![c] = @ \cup {b}]
      /\ UNCHANGED <<joined, registered, session, view>>
    BY DEF RemoveBlock
<1>4. view' \in [Clients -> [Fields -> Shown]] /\ removed' \in [Clients -> SUBSET Blocks]
    BY <1>3 DEF ClientInv, ClientTypes
<1>5. /\ Well(k) /\ Sends(client[c].queue, k.queue) /\ Queued(k) \subseteq Queued(client[c])
      /\ registered[c] /\ joined[c] => Calm(k)
    <2>1. Well(client[c])
        BY DEF ClientInv, QueuesWell
    <2> QED BY <2>1, CancelledWell
<1> HIDE DEF k, o
<1>6. id \notin Queued(k)
    <2>1. \A e \in client[c].queue : e.id \in Ids /\ e.id <= Len(ops)
        BY DEF ClientInv, OwnQueue, ClientTypes, States, Entries
    <2>2. id \notin Queued(client[c])
        BY <1>2, <2>1 DEF Queued, Ids
    <2> QED BY <1>5, <2>2
<1>7. /\ Well(l) /\ Sends(k.queue \cup {Fresh(id)}, l.queue)
      /\ registered[c] /\ joined[c] => Calm(l)
    <2>1. l = Added(c, k, id, o)
        OBVIOUS
    <2> HIDE DEF l, id
    <2> QED BY <1>2, <1>5, <1>6, <2>1, AddedWell
<1> HIDE DEF l
<1>8. Sends(client[c].queue \cup {Fresh(id)}, l.queue)
    <2>1. \A d \in k.queue \cup {Fresh(id)} :
              d.status = "pending" => d \in client[c].queue \cup {Fresh(id)}
        BY <1>5 DEF Sends
    <2> QED BY <1>5, <1>7, <2>1 DEF Sends
<1> QED BY <1>1, <1>2, <1>3, <1>4, <1>7, <1>8, EditMoves

(* The other steps of a client. *)
LEMMA TimerMoves ==
    ASSUME ClientInv, NEW c \in Clients, NEW id, TimesOut(c, id) \/ Retries(c, id)
    PROVE  Moved
<1> DEFINE k == client[c]
<1>1. Well(k) /\ k \in States
    BY DEF ClientInv, QueuesWell, Well
<1>2. /\ ops' = ops /\ UNCHANGED <<joined, registered, session, view, removed>>
      /\ registered' \in [Clients -> BOOLEAN]
      /\ view' \in [Clients -> [Fields -> Shown]] /\ removed' \in [Clients -> SUBSET Blocks]
    BY DEF TimesOut, Retries, ClientInv, ClientTypes
<1>3. CASE TimesOut(c, id)
    <2> DEFINE l == Failed(c, [k EXCEPT !.deadlines = @ \ {id}], id, TRUE)
    <2>1. id \in k.deadlines /\ Becomes(c, l)
        BY <1>3 DEF TimesOut
    <2>2. /\ Well(l) /\ Ages(k.queue, l.queue)
          /\ registered[c] /\ joined[c] => Calm(l)
        <3>1. l = Failed(c, [k EXCEPT !.deadlines = @ \ {id}], id, TRUE)
            OBVIOUS
        <3> HIDE DEF l, k
        <3> QED BY <1>1, <2>1, <3>1, TimedOutWell
    <2> HIDE DEF l
    <2> QED BY <1>2, <2>1, <2>2, QueueMoves
<1>4. CASE Retries(c, id)
    <2>1. PICK h : h = [k EXCEPT !.retries = @ \ {id}]
        OBVIOUS
    <2> DEFINE l == Processed(c, h)
    <2>2. Becomes(c, l)
        BY <1>4, <2>1 DEF Retries
    <2>3. h = [queue |-> k.queue, busy |-> k.busy, deadlines |-> k.deadlines,
               retries |-> k.retries \ {id}, error |-> k.error]
        BY <1>1, <2>1 DEF States
    <2>4. Well(h) /\ h.queue = k.queue
        BY <1>1, <2>3 DEF Well, States, InFlight
    <2>5. /\ Well(l) /\ Sends(h.queue, l.queue)
          /\ registered[c] /\ joined[c] => Calm(l)
        BY <2>4, ProcessedWell
    <2> HIDE DEF l
    <2>6. Ages(k.queue, l.queue)
        BY <2>4, <2>5 DEF Sends, Ages
    <2> QED BY <1>2, <2>2, <2>5, <2>6, QueueMoves
<1> QED BY <1>3, <1>4

LEMMA RoomMoves ==
    ASSUME ClientInv, NEW c \in Clients, Rejoin(c) \/ Unregister(c) \/ Register(c)
    PROVE  Moved
<1>1. CASE Rejoin(c)
    <2>1. /\ ops' = ops /\ UNCHANGED <<client, session, view, removed, sent, registered>>
          /\ joined' = [joined EXCEPT ![c] = TRUE] /\ ~ registered[c]
        BY <1>1 DEF Rejoin
    <2>2. /\ joined' \in [Clients -> BOOLEAN]
          /\ \A d \in Clients : registered'[d] /\ joined'[d] => registered[d] /\ joined[d]
        BY <2>1 DEF ClientInv, ClientTypes
    <2> QED BY <2>1, <2>2, QueueStays DEF ClientInv, ClientTypes
<1>2. CASE Unregister(c)
    <2>1. /\ ops' = ops /\ UNCHANGED <<client, session, view, removed, sent, joined>>
          /\ registered' = [registered EXCEPT ![c] = FALSE]
        BY <1>2 DEF Unregister
    <2>2. /\ registered' \in [Clients -> BOOLEAN]
          /\ \A d \in Clients : registered'[d] /\ joined'[d] => registered[d] /\ joined[d]
        BY <2>1 DEF ClientInv, ClientTypes
    <2> QED BY <2>1, <2>2, QueueStays DEF ClientInv, ClientTypes
<1>3. CASE Register(c)
    <2> DEFINE k == client[c]
               l == NextSent(k)
    <2>1. /\ ops' = ops /\ UNCHANGED <<joined, session, view, removed>>
          /\ registered' = [registered EXCEPT ![c] = TRUE]
          /\ Becomes(c, l)
        BY <1>3 DEF Register
    <2>2. /\ registered' \in [Clients -> BOOLEAN]
          /\ \A d \in Clients \ {c} : registered'[d] = registered[d]
        BY <2>1 DEF ClientInv, ClientTypes
    <2>3. Well(k)
        BY DEF ClientInv, QueuesWell
    <2>4. Well(l) /\ Calm(l) /\ Sends(k.queue, l.queue)
        <3> HIDE DEF k
        <3> QED BY <2>3, NextSentWell
    <2> HIDE DEF l
    <2>5. Ages(k.queue, l.queue)
        BY <2>4 DEF Sends, Ages
    <2>6. /\ view' \in [Clients -> [Fields -> Shown]]
          /\ removed' \in [Clients -> SUBSET Blocks]
        BY <2>1 DEF ClientInv, ClientTypes
    <2> QED BY <2>1, <2>2, <2>4, <2>5, <2>6, QueueMoves
<1> QED BY <1>1, <1>2, <1>3

LEMMA ReceiveMoves ==
    ASSUME ClientInv, InboxTypes, NEW c \in Clients, Receive(c)
    PROVE  Moved
<1> DEFINE k == client[c]
           n == Head(inbox[c])
<1>1. /\ Well(k) /\ n \in Notices
      /\ registered[c] /\ joined[c] => Calm(k)
    <2>1. inbox[c] \in Seq(Notices) /\ inbox[c] # <<>>
        BY DEF InboxTypes, Receive
    <2> QED BY <2>1, HeadTailProperties DEF ClientInv, QueuesWell
<1>2. ops' = ops /\ UNCHANGED <<joined, registered, session>>
    BY DEF Receive
<1>3. /\ registered' \in [Clients -> BOOLEAN] /\ joined' \in [Clients -> BOOLEAN]
      /\ \A d \in Clients \ {c} : registered'[d] = registered[d]
      /\ view \in [Clients -> [Fields -> Shown]] /\ removed \in [Clients -> SUBSET Blocks]
    BY <1>2 DEF ClientInv, ClientTypes
<1>4. HearsConfirmed(c, n) \/ HearsFailed(c, n) \/ HearsValue(c, n) \/ HearsRemoved(c, n)
    BY DEF Receive
<1> HIDE DEF n
<1>5. CASE HearsConfirmed(c, n)
    <2> DEFINE l == Confirmed(c, k, n.id)
    <2>1. Becomes(c, l) /\ view' = view /\ removed' = removed
        BY <1>5 DEF HearsConfirmed
    <2>2. /\ Well(l) /\ Sends(k.queue, l.queue)
          /\ registered[c] /\ joined[c] => Calm(l)
        BY <1>1, ConfirmedWell
    <2> HIDE DEF l
    <2>3. Ages(k.queue, l.queue)
        BY <2>2 DEF Sends, Ages
    <2> QED BY <1>2, <1>3, <2>1, <2>2, <2>3, QueueMoves
<1>6. CASE HearsFailed(c, n)
    <2> DEFINE l == Failed(c, k, n.id, n.retryable)
    <2>1. Becomes(c, l) /\ view' = view /\ removed' = removed
        BY <1>6 DEF HearsFailed
    <2>2. /\ Well(l) /\ Ages(k.queue, l.queue)
          /\ registered[c] /\ joined[c] => Calm(l)
        <3>1. CASE n.id \in Queued(k)
            BY <1>1, <3>1, FailedWell
        <3>2. CASE n.id \notin Queued(k)
            <4>1. l = k
                BY <3>2 DEF Failed
            <4> QED BY <1>1, <4>1 DEF Ages
        <3> QED BY <3>1, <3>2
    <2> HIDE DEF l
    <2> QED BY <1>2, <1>3, <2>1, <2>2, QueueMoves
<1>7. CASE HearsValue(c, n)
    <2>1. UNCHANGED <<client, sent, removed>> /\ view' = [view EXCEPT ![c][n.field] = n.value]
        BY <1>7 DEF HearsValue
    <2>2. n.field \in Fields /\ n.value \in Values
        BY <1>1, <1>7 DEF HearsValue, Notices
    <2>3. view' \in [Clients -> [Fields -> Shown]]
        BY <1>3, <2>1, <2>2 DEF Shown
    <2>4. session' \in [Clients -> Nat] /\ sent' \subseteq sent
        BY <1>2, <2>1 DEF ClientInv, ClientTypes
    <2> QED BY <1>2, <1>3, <2>1, <2>3, <2>4, QueueStays
<1>8. CASE HearsRemoved(c, n)
    <2> DEFINE l == Cancelled(c, k, n.block)
    <2>1. /\ Becomes(c, l) /\ view' = view
          /\ removed' = [removed EXCEPT ![c] = @ \cup {n.block}]
        BY <1>8 DEF HearsRemoved
    <2>2. /\ Well(l) /\ Sends(k.queue, l.queue)
          /\ registered[c] /\ joined[c] => Calm(l)
        BY <1>1, CancelledWell
    <2> HIDE DEF l
    <2>3. Ages(k.queue, l.queue)
        BY <2>2 DEF Sends, Ages
    <2>4. n.block \in Blocks
        BY <1>1, <1>8 DEF HearsRemoved, Notices
    <2>5. removed' \in [Clients -> SUBSET Blocks]
        BY <1>3, <2>1, <2>4
    <2> QED BY <1>2, <1>3, <2>1, <2>2, <2>3, <2>5, QueueMoves
<1> QED BY <1>4, <1>5, <1>6, <1>7, <1>8

(* A step of the server, the loss of a socket, or the lock of a block. *)
ServerStep ==
    \/ \E c \in Clients : Disconnect(c)
    \/ \E m \in sent : Handler(m)
    \/ \E m \in removing : Announce(m)
    \/ \E k \in DOMAIN entry : Timer(k)
    \/ \E x \in flush : Read(x) \/ Write(x) \/ Answer(x) \/ FlushFails(x)
    \/ \E b \in Blocks : ToggleLock(b)

LEMMA ServerMoves ==
    ASSUME ClientInv, ServerStep
    PROVE  Moved
<1>1. /\ UNCHANGED <<ops, client, registered, view, removed>> /\ sent' \subseteq sent
      /\ \/ UNCHANGED <<joined, session>>
         \/ \E c \in Clients : /\ joined' = [joined EXCEPT ![c] = FALSE]
                               /\ session' = [session EXCEPT ![c] = @ + 1]
    <2>1. ASSUME NEW c \in Clients, Disconnect(c)
          PROVE  /\ UNCHANGED <<ops, client, registered, view, removed, sent>>
                 /\ joined' = [joined EXCEPT ![c] = FALSE]
                 /\ session' = [session EXCEPT ![c] = @ + 1]
        BY <2>1 DEF Disconnect
    <2>2. ASSUME NEW m \in sent, Handler(m)
          PROVE  /\ UNCHANGED <<ops, client, registered, view, removed, joined, session>>
                 /\ sent' \subseteq sent
        BY <2>2 DEF Handler, Merge, Ignore, Refuse, Persist, PersistFails
    <2>3. ASSUME NEW m \in removing, Announce(m)
          PROVE  UNCHANGED <<ops, client, registered, view, removed, joined, session, sent>>
        BY <2>3 DEF Announce
    <2>4. ASSUME NEW k \in DOMAIN entry, Timer(k)
          PROVE  UNCHANGED <<ops, client, registered, view, removed, joined, session, sent>>
        BY <2>4 DEF Timer, queueVars
    <2>5. ASSUME NEW x \in flush, Read(x) \/ Write(x)
          PROVE  UNCHANGED <<ops, client, registered, view, removed, joined, session, sent>>
        BY <2>5 DEF Read, Write, queueVars
    <2>6. ASSUME NEW x \in flush, Answer(x) \/ FlushFails(x)
          PROVE  UNCHANGED <<ops, client, registered, view, removed, joined, session, sent>>
        BY <2>6 DEF Answer, FlushFails
    <2>7. ASSUME NEW b \in Blocks, ToggleLock(b)
          PROVE  UNCHANGED <<ops, client, registered, view, removed, joined, session, sent>>
        BY <2>7 DEF ToggleLock, queueVars
    <2> QED BY <2>1, <2>2, <2>3, <2>4, <2>5, <2>6, <2>7 DEF ServerStep
<1>2. /\ joined' \in [Clients -> BOOLEAN] /\ session' \in [Clients -> Nat]
      /\ \A c \in Clients : registered'[c] /\ joined'[c] => registered[c] /\ joined[c]
    <2>1. joined \in [Clients -> BOOLEAN] /\ session \in [Clients -> Nat]
        BY DEF ClientInv, ClientTypes
    <2>2. CASE UNCHANGED <<joined, session>>
        BY <1>1, <2>1, <2>2
    <2>3. ASSUME NEW c \in Clients, joined' = [joined EXCEPT ![c] = FALSE],
                 session' = [session EXCEPT ![c] = @ + 1]
          PROVE  /\ joined' \in [Clients -> BOOLEAN] /\ session' \in [Clients -> Nat]
                 /\ \A d \in Clients : joined'[d] => joined[d]
        BY <2>1, <2>3
    <2> QED BY <1>1, <2>2, <2>3
<1> QED BY <1>1, <1>2, QueueStays DEF ClientInv, ClientTypes

LEMMA ClientStep ==
    ASSUME ClientInv, InboxTypes, [Next]_vars
    PROVE  Moved
<1>1. ASSUME NEW c \in Clients, Client(c) PROVE Moved
    <2>1. ASSUME NEW f \in Fields, NEW v \in Values, SetValue(c, f, v) PROVE Moved
        BY <2>1, SetValueMoves
    <2>2. ASSUME NEW b \in Blocks, RemoveBlock(c, b) PROVE Moved
        BY <2>2, RemoveBlockMoves
    <2>3. ASSUME NEW id, Retries(c, id) PROVE Moved
        BY <2>3, TimerMoves
    <2>4. ASSUME Rejoin(c) \/ Unregister(c) \/ Register(c) PROVE Moved
        BY <2>4, RoomMoves
    <2> QED BY <1>1, <2>1, <2>2, <2>3, <2>4 DEF Client
<1>2. ASSUME NEW c \in Clients, Receive(c) PROVE Moved
    BY <1>2, ReceiveMoves
<1>3. ASSUME NEW c \in Clients, NEW id, Timeout(c, id) PROVE Moved
    <2>1. TimesOut(c, id)
        BY <1>3 DEF Timeout
    <2> QED BY <2>1, TimerMoves
<1>4. ASSUME ServerStep PROVE Moved
    BY <1>4, ServerMoves
<1>5. ASSUME UNCHANGED vars PROVE Moved
    BY <1>5, QueueStays DEF vars, queueVars, ClientInv, ClientTypes
<1> QED BY <1>1, <1>2, <1>3, <1>4, <1>5 DEF Next, ServerStep

-----------------------------------------------------------------------------
(* What the server tells a client.                                           *)

Asked == {m \in Message : m.id <= Len(ops)}
Updates == {m \in Asked : ops[m.id].kind = "set"}

Heard(s) == {s[i] : i \in 1 .. Len(s)}

(* The answers are put in some order. *)
LEMMA Ordered ==
    ASSUME NEW ids \in SUBSET Ids
    PROVE  LET one == CHOOSE f \in [1 .. Cardinality(ids) -> ids] :
                            \A i, j \in DOMAIN f : f[i] = f[j] => i = j
           IN  Cardinality(ids) \in Nat /\ one \in [1 .. Cardinality(ids) -> ids]
<1>1. IsFiniteSet(ids)
    <2>1. IsFiniteSet(Ids)
        BY QueueConstants, FS_Interval DEF Ids
    <2> QED BY <2>1, FS_Subset
<1>2. Cardinality(ids) \in Nat /\ ExistsBijection(1 .. Cardinality(ids), ids)
    BY <1>1, FS_CardinalityType
<1>3. PICK f \in [1 .. Cardinality(ids) -> ids] : \A i, j \in DOMAIN f : f[i] = f[j] => i = j
    BY <1>2 DEF ExistsBijection, Bijection, Injection, IsInjective
<1> QED BY <1>2, <1>3

\* What c is told with a broadcast and the answers to S.
Tells(R, news, S, answer, c) ==
    /\ inbox'[c] \in Seq(Notices)
    /\ \A n \in Heard(inbox'[c]) :
           \/ n \in Heard(inbox[c])
           \/ c \in R /\ n = news
           \/ \E m \in S : n = answer[m.id]

LEMMA Told ==
    ASSUME NEW R, NEW news, NEW S, NEW answer, NEW c \in Clients, InboxTypes,
           S \subseteq Asked, answer \in [Ids -> Notices], c \in R => news \in Notices,
           Tell(R, news, S, answer)
    PROVE  Tells(R, news, S, answer, c)
<1> DEFINE own == {m \in S : Owner(m) = c /\ Alive(m)}
           heard == IF c \in R /\ joined[c] THEN Append(inbox[c], news) ELSE inbox[c]
           ids == {m.id : m \in own}
           one == CHOOSE f \in [1 .. Cardinality(ids) -> ids] :
                      \A i, j \in DOMAIN f : f[i] = f[j] => i = j
           said == [i \in 1 .. Cardinality(ids) |-> answer[one[i]]]
<1>1. inbox'[c] = IF ids = {} THEN heard ELSE heard \o said
    BY DEF Tell
<1>2. /\ heard \in Seq(Notices)
      /\ \A n \in Heard(heard) : n \in Heard(inbox[c]) \/ (c \in R /\ n = news)
    <2>1. inbox[c] \in Seq(Notices)
        BY DEF InboxTypes
    <2>2. CASE c \in R /\ joined[c]
        <3>1. /\ heard \in Seq(Notices) /\ Len(heard) = Len(inbox[c]) + 1
              /\ \A i \in 1 .. Len(inbox[c]) : heard[i] = inbox[c][i]
              /\ heard[Len(inbox[c]) + 1] = news
            BY <2>1, <2>2, AppendProperties
        <3>2. Len(inbox[c]) \in Nat
            BY <2>1, LenProperties
        <3> HIDE DEF heard
        <3>3. ASSUME NEW i \in 1 .. Len(heard)
              PROVE  heard[i] \in Heard(inbox[c]) \/ (c \in R /\ heard[i] = news)
            <4>1. i \in 1 .. Len(inbox[c]) \/ i = Len(inbox[c]) + 1
                BY <3>1, <3>2
            <4> QED BY <2>2, <3>1, <4>1 DEF Heard
        <3> QED BY <3>1, <3>3 DEF Heard
    <2>3. CASE ~ (c \in R /\ joined[c])
        BY <2>1, <2>3
    <2> QED BY <2>2, <2>3
<1>3. ids \in SUBSET Ids
    BY DEF Asked, Message
<1>4. Cardinality(ids) \in Nat /\ one \in [1 .. Cardinality(ids) -> ids]
    <2> HIDE DEF ids
    <2> QED BY <1>3, Ordered
<1> HIDE DEF one
<1>5. /\ said \in Seq(Notices) /\ Len(said) = Cardinality(ids)
      /\ \A i \in 1 .. Len(said) : said[i] = answer[one[i]]
    <2> HIDE DEF ids
    <2> QED BY <1>3, <1>4
<1> HIDE DEF heard, said
<1>6. CASE ids = {}
    BY <1>1, <1>2, <1>6 DEF Tells
<1>7. CASE ids # {}
    <2>1. inbox'[c] = heard \o said
        BY <1>1, <1>7
    <2>2. /\ heard \o said \in Seq(Notices) /\ Len(heard \o said) = Len(heard) + Len(said)
          /\ \A i \in 1 .. Len(heard) + Len(said) :
                (heard \o said)[i] = IF i <= Len(heard) THEN heard[i] ELSE said[i - Len(heard)]
        BY <1>2, <1>5, ConcatProperties
    <2>3. Len(heard) \in Nat /\ Len(said) \in Nat
        BY <1>2, <1>5, LenProperties
    <2>4. ASSUME NEW i \in 1 .. Len(heard) + Len(said)
          PROVE  \/ (heard \o said)[i] \in Heard(heard)
                 \/ \E m \in S : (heard \o said)[i] = answer[m.id]
        <3>1. CASE i <= Len(heard)
            BY <2>2, <2>3, <3>1 DEF Heard
        <3>2. CASE ~ (i <= Len(heard))
            <4>1. i - Len(heard) \in 1 .. Len(said)
                BY <2>3, <3>2
            <4>2. (heard \o said)[i] = answer[one[i - Len(heard)]]
                BY <1>5, <2>2, <3>2, <4>1
            <4>3. one[i - Len(heard)] \in ids
                BY <1>4, <1>5, <4>1
            <4>4. \E m \in S : one[i - Len(heard)] = m.id
                BY <4>3
            <4> QED BY <4>2, <4>4
        <3> QED BY <3>1, <3>2
    <2>5. \A n \in Heard(heard \o said) : n \in Heard(heard) \/ \E m \in S : n = answer[m.id]
        BY <2>2, <2>4 DEF Heard
    <2> QED BY <1>2, <2>1, <2>2, <2>5 DEF Tells
<1> QED BY <1>6, <1>7

-----------------------------------------------------------------------------
(* What the server holds.                                                    *)

Slots == [latest : Updates, waiting : SUBSET Updates, timer : {"off", "held", "lookup"}]
Flights == [entry : Updates, of : Updates, by : Updates, step : Step,
            seen : [Fields -> Shown] \cup {<<>>}]

MessageTypes ==
    /\ sent \subseteq Asked
    /\ removing \subseteq {m \in Asked : ops[m.id].kind = "remove"}

EntryTypes ==
    /\ DOMAIN entry \subseteq Updates /\ entry \in [DOMAIN entry -> Slots]
    /\ pending \in [Fields -> DOMAIN entry \cup {None}]
    /\ \A f \in Fields : pending[f] = None \/ FieldOf(pending[f]) = f

FlushTypes ==
    /\ store \in [Fields -> Shown]
    /\ flush \subseteq Flights
    /\ \A x \in flush : /\ x.entry \in DOMAIN entry
                        /\ x.step = "writes" => x.seen \in [Fields -> Shown]

ServerInv == MessageTypes /\ EntryTypes /\ FlushTypes

LEMMA OperationFacts ==
    ASSUME ClientInv, NEW m \in Asked
    PROVE  /\ m.id \in 1 .. Len(ops) /\ m.id \in Ids /\ Owner(m) \in Clients
           /\ ops[m.id].kind \in {"set", "remove"}
           /\ ops[m.id].kind = "set" => FieldOf(m) \in Fields /\ ops[m.id].value \in Values
           /\ ops[m.id].kind = "remove" => ops[m.id].block \in Blocks
<1>1. Len(ops) \in Nat /\ m.id \in Ids /\ m.id \in 1 .. Len(ops)
    BY LenProperties, QueueConstants DEF ClientInv, ClientTypes, Asked, Message, Ids
<1>2. ops[m.id] \in Operation
    BY <1>1, ElementOfSeq DEF ClientInv, ClientTypes
<1> QED BY <1>1, <1>2 DEF Operation, FieldOf, Owner

(* Operations stay what they are. *)
LEMMA AskedGrows ==
    ASSUME ClientInv, OpsGrow, NEW m \in Asked
    PROVE  /\ m \in Asked' /\ ops'[m.id] = ops[m.id]
           /\ FieldOf(m)' = FieldOf(m) /\ Owner(m)' = Owner(m)
           /\ m \in Updates => m \in Updates'
<1>1. m.id \in 1 .. Len(ops) /\ Len(ops) \in Nat
    BY OperationFacts, LenProperties DEF ClientInv, ClientTypes
<1>2. ops'[m.id] = ops[m.id] /\ m.id <= Len(ops')
    BY <1>1 DEF OpsGrow
<1> QED BY <1>2 DEF Asked, Updates, FieldOf, Owner

(* The entries that are kept. *)
LEMMA HeldKeeps ==
    ASSUME NEW E, NEW P, NEW F,
           DOMAIN E \subseteq Updates, E \in [DOMAIN E -> Slots],
           P \in [Fields -> DOMAIN E \cup {None}],
           \A x \in F : x.entry \in DOMAIN E
    PROVE  LET H == Held(E, P, F)
           IN  /\ DOMAIN H \subseteq DOMAIN E /\ H \in [DOMAIN H -> Slots]
               /\ P \in [Fields -> DOMAIN H \cup {None}]
               /\ \A x \in F : x.entry \in DOMAIN H
               /\ \A k \in DOMAIN H : H[k] = E[k]
               /\ \A k \in DOMAIN E : E[k].timer # "off" => k \in DOMAIN H
<1> DEFINE D == {e \in DOMAIN E : \/ E[e].timer # "off"
                                  \/ e \in {P[f] : f \in Fields}
                                  \/ \E x \in F : x.entry = e}
<1>1. PICK H : H = Held(E, P, F)
    OBVIOUS
<1>2. DOMAIN H = D /\ \A k \in D : H[k] = E[k]
    BY <1>1 DEF Held
<1>3. H \in [DOMAIN H -> Slots]
    <2>1. H = [k \in D |-> E[k]]
        BY <1>1 DEF Held
    <2> QED BY <1>2, <2>1
<1>4. \A f \in Fields : P[f] \in DOMAIN H \cup {None}
    BY <1>2
<1>5. \A x \in F : x.entry \in DOMAIN H
    BY <1>2
<1>6. P \in [Fields -> DOMAIN H \cup {None}]
    BY <1>4
<1> QED BY <1>1, <1>2, <1>3, <1>5, <1>6

LEMMA TypesGrow ==
    ASSUME ClientInv, OpsGrow
    PROVE  /\ Asked \subseteq Asked' /\ Updates \subseteq Updates'
           /\ Slots \subseteq Slots' /\ Flights \subseteq Flights'
<1>1. Asked \subseteq Asked'
    BY AskedGrows
<1>2. Updates \subseteq Updates'
    BY AskedGrows DEF Updates
<1> QED BY <1>1, <1>2 DEF Slots, Flights

(* What the clients send are operations of theirs. *)
LEMMA SentTypes ==
    ASSUME ClientInv, Moved, sent \subseteq Asked
    PROVE  sent' \subseteq Asked'
<1>1. \A m \in sent : m \in Asked'
    BY TypesGrow DEF Moved
<1>2. ASSUME NEW m \in sent' \ sent PROVE m \in Asked'
    <2>1. PICK c \in Clients : \E e \in InFlight(client'[c]) \ InFlight(client[c]) :
              m = [id |-> e.id, try |-> e.try, at |-> session[c]]
        BY DEF Moved, SentByClients
    <2>2. PICK e \in InFlight(client'[c]) : m = [id |-> e.id, try |-> e.try, at |-> session[c]]
        BY <2>1
    <2>3. e \in client'[c].queue /\ client'[c] \in States
        BY DEF InFlight, Moved, ClientInv, ClientTypes
    <2>4. e.id \in Ids /\ e.try \in 0 .. MaxRetries /\ e.id <= Len(ops')
        BY <2>3 DEF States, Entries, Moved, ClientInv, OwnQueue
    <2>5. session[c] \in Nat
        BY DEF ClientInv, ClientTypes
    <2> QED BY <2>2, <2>4, <2>5 DEF Asked, Message
<1> QED BY <1>1, <1>2

(* A step of a client leaves the server alone. *)
LEMMA ServerStays ==
    ASSUME ClientInv, Moved, ServerInv, UNCHANGED <<store, pending, entry, flush, removing>>
    PROVE  ServerInv'
<1>1. /\ Asked \subseteq Asked' /\ Updates \subseteq Updates'
      /\ Slots \subseteq Slots' /\ Flights \subseteq Flights'
    BY TypesGrow DEF Moved
<1>2. MessageTypes'
    <2>1. sent' \subseteq Asked'
        BY SentTypes DEF ServerInv, MessageTypes
    <2>2. ASSUME NEW m \in removing PROVE m \in Asked' /\ ops'[m.id].kind = "remove"
        <3>1. m \in Asked /\ ops[m.id].kind = "remove"
            BY DEF ServerInv, MessageTypes
        <3> QED BY <3>1, AskedGrows DEF Moved
    <2> QED BY <2>1, <2>2 DEF MessageTypes
<1>3. EntryTypes'
    <2>1. /\ DOMAIN entry \subseteq Updates /\ entry \in [DOMAIN entry -> Slots]
          /\ pending \in [Fields -> DOMAIN entry \cup {None}]
          /\ \A f \in Fields : pending[f] = None \/ FieldOf(pending[f]) = f
        BY DEF ServerInv, EntryTypes
    <2>2. ASSUME NEW f \in Fields PROVE pending[f] = None \/ FieldOf(pending[f])' = f
        <3>1. CASE pending[f] # None
            <4>1. pending[f] \in Asked
                BY <2>1, <3>1 DEF Updates
            <4>2. FieldOf(pending[f])' = FieldOf(pending[f])
                BY <4>1, AskedGrows DEF Moved, FieldOf
            <4> QED BY <2>1, <3>1, <4>2
        <3> QED BY <3>1
    <2>3. entry' \in [DOMAIN entry' -> Slots']
        BY <1>1, <2>1
    <2> QED BY <1>1, <2>1, <2>2, <2>3 DEF EntryTypes, FieldOf
<1>4. FlushTypes'
    BY <1>1 DEF ServerInv, FlushTypes
<1> QED BY <1>2, <1>3, <1>4 DEF ServerInv

(* A step of the server only answers what it holds. *)
LEMMA ServerKeeps ==
    ASSUME ops' = ops, ServerInv, sent' \subseteq sent,
           removing' \subseteq removing \cup {m \in sent : ops[m.id].kind = "remove"},
           store' \in [Fields -> Shown],
           DOMAIN entry' \subseteq Updates, entry' \in [DOMAIN entry' -> Slots],
           pending' \in [Fields -> DOMAIN entry' \cup {None}],
           \A f \in Fields : pending'[f] \in {pending[f], None} \/ FieldOf(pending'[f]) = f,
           flush' \subseteq Flights,
           \A x \in flush' : /\ x.entry \in DOMAIN entry'
                             /\ x.step = "writes" => x.seen \in [Fields -> Shown]
    PROVE  ServerInv'
<1>1. Asked' = Asked /\ Updates' = Updates /\ Slots' = Slots /\ Flights' = Flights
    BY DEF Asked, Updates, Slots, Flights
<1>2. MessageTypes'
    BY <1>1 DEF ServerInv, MessageTypes
<1>3. EntryTypes'
    <2>1. \A f \in Fields : pending'[f] = None \/ FieldOf(pending'[f]) = f
        BY DEF ServerInv, EntryTypes
    <2> QED BY <1>1, <2>1 DEF EntryTypes, FieldOf
<1>4. FlushTypes'
    BY <1>1 DEF FlushTypes
<1> QED BY <1>2, <1>3, <1>4 DEF ServerInv

LEMMA AnswersTyped ==
    /\ Yes \in [Ids -> Notices] /\ No \in [Ids -> Notices] /\ Never \in [Ids -> Notices]
BY DEF Yes, No, Never, Notices

LEMMA TellTypes ==
    ASSUME NEW R, NEW news, NEW S, NEW answer, InboxTypes, Tell(R, news, S, answer),
           S \subseteq Asked, answer \in {Yes, No, Never}, R = {} \/ news \in Notices
    PROVE  InboxTypes'
<1>1. ASSUME NEW c \in Clients PROVE inbox'[c] \in Seq(Notices)
    <2>1. answer \in [Ids -> Notices] /\ (c \in R => news \in Notices)
        BY AnswersTyped
    <2> QED BY <2>1, Told DEF Tells
<1>2. inbox' = [c \in Clients |-> inbox'[c]]
    BY DEF Tell
<1> QED BY <1>1, <1>2 DEF InboxTypes

(* What a flush and its entry are, and the answer that ends it. *)
LEMMA FlushFacts ==
    ASSUME ClientInv, ServerInv, NEW x \in flush
    PROVE  /\ x \in Flights /\ x.entry \in DOMAIN entry /\ entry[x.entry] \in Slots
           /\ entry[x.entry].waiting \subseteq Updates
           /\ FieldOf(x.of) \in Fields /\ ops[x.of.id].value \in Values
           /\ FieldOf(x.entry) \in Fields
<1>1. x \in Flights /\ x.entry \in DOMAIN entry /\ entry[x.entry] \in Slots
    BY DEF ServerInv, FlushTypes, EntryTypes
<1>2. x.of \in Updates /\ x.entry \in Updates /\ entry[x.entry].waiting \subseteq Updates
    BY <1>1 DEF Flights, Slots
<1> QED BY <1>1, <1>2, OperationFacts DEF Updates

LEMMA FlushEndsKeeps ==
    ASSUME ClientInv, ServerInv, InboxTypes, NEW x \in flush, NEW R, NEW news, NEW answer,
           flush' = flush \ {x}, Tell(R, news, entry[x.entry].waiting, answer), Dropped(x),
           answer \in {Yes, No, Never}, R = {} \/ news \in Notices,
           UNCHANGED <<ops, sent, store, removing>>
    PROVE  ServerInv' /\ InboxTypes'
<1>1. InboxTypes'
    BY FlushFacts, TellTypes DEF Updates
<1>2. /\ pending' = [pending EXCEPT ![FieldOf(x.entry)] = None]
      /\ entry' = Held(entry, pending', flush')
    BY DEF Dropped
<1>3. /\ DOMAIN entry \subseteq Updates /\ entry \in [DOMAIN entry -> Slots]
      /\ pending' \in [Fields -> DOMAIN entry \cup {None}]
      /\ \A f \in Fields : pending'[f] \in {pending[f], None}
    BY <1>2 DEF ServerInv, EntryTypes
<1>4. \A y \in flush' : /\ y \in Flights /\ y.entry \in DOMAIN entry
                        /\ y.step = "writes" => y.seen \in [Fields -> Shown]
    BY DEF ServerInv, FlushTypes
<1>5. /\ DOMAIN entry' \subseteq DOMAIN entry /\ entry' \in [DOMAIN entry' -> Slots]
      /\ pending' \in [Fields -> DOMAIN entry' \cup {None}]
      /\ \A y \in flush' : y.entry \in DOMAIN entry'
    <2>1. PICK P, F : P = pending' /\ F = flush'
        OBVIOUS
    <2>2. entry' = Held(entry, P, F)
        BY <1>2, <2>1
    <2> QED BY <1>3, <1>4, <2>1, <2>2, HeldKeeps
<1>6. store' \in [Fields -> Shown]
    BY DEF ServerInv, FlushTypes
<1> QED BY <1>1, <1>3, <1>4, <1>5, <1>6, ServerKeeps

LEMMA MergeTypes ==
    ASSUME ClientInv, ServerInv, NEW m \in sent, Merge(m)
    PROVE  ServerInv'
<1>1. /\ m \in Updates /\ FieldOf(m) \in Fields
      /\ sent' \subseteq sent /\ UNCHANGED <<ops, store, flush, removing>>
    BY OperationFacts DEF Merge, ServerInv, MessageTypes, Updates
<1>2. /\ DOMAIN entry \subseteq Updates /\ entry \in [DOMAIN entry -> Slots]
      /\ pending \in [Fields -> DOMAIN entry \cup {None}]
    BY DEF ServerInv, EntryTypes
<1>3. /\ store' \in [Fields -> Shown] /\ flush' \subseteq Flights
      /\ \A x \in flush' : /\ x.entry \in DOMAIN entry
                           /\ x.step = "writes" => x.seen \in [Fields -> Shown]
    BY <1>1 DEF ServerInv, FlushTypes
<1>4. CASE pending[FieldOf(m)] # None
    <2> DEFINE k == pending[FieldOf(m)]
    <2>1. Joins(m, k) /\ k \in DOMAIN entry
        BY <1>1, <1>2, <1>4 DEF Merge
    <2>2. [latest |-> m, waiting |-> Waiting(k, m), timer |-> "held"] \in Slots
        <3>1. entry[k].waiting \subseteq Updates
            BY <1>2, <2>1 DEF Slots
        <3> QED BY <1>1, <3>1 DEF Slots, Waiting
    <2> HIDE DEF k
    <2>3. /\ entry' = [entry EXCEPT ![k] =
                          [latest |-> m, waiting |-> Waiting(k, m), timer |-> "held"]]
          /\ pending' = pending
        BY <2>1 DEF Joins
    <2>4. DOMAIN entry' = DOMAIN entry /\ entry' \in [DOMAIN entry -> Slots]
        BY <1>2, <2>1, <2>2, <2>3
    <2> QED BY <1>1, <1>2, <1>3, <2>3, <2>4, ServerKeeps
<1>5. CASE pending[FieldOf(m)] = None
    <2>1. /\ entry' = [k \in DOMAIN entry \cup {m} |->
                          IF k = m THEN [latest |-> m, waiting |-> {m}, timer |-> "lookup"]
                          ELSE entry[k]]
          /\ pending' = [pending EXCEPT ![FieldOf(m)] = m]
        BY <1>5 DEF Merge, Opens
    <2>2. [latest |-> m, waiting |-> {m}, timer |-> "lookup"] \in Slots
        BY <1>1 DEF Slots
    <2>3. DOMAIN entry' = DOMAIN entry \cup {m} /\ entry' \in [DOMAIN entry' -> Slots]
        BY <1>2, <2>1, <2>2
    <2>4. /\ pending' \in [Fields -> DOMAIN entry' \cup {None}]
          /\ \A f \in Fields : pending'[f] \in {pending[f], None} \/ FieldOf(pending'[f]) = f
        BY <1>1, <1>2, <2>1, <2>3
    <2>5. DOMAIN entry' \subseteq Updates /\ \A x \in flush' : x.entry \in DOMAIN entry'
        BY <1>1, <1>2, <1>3, <2>3
    <2> QED BY <1>1, <1>3, <2>3, <2>4, <2>5, ServerKeeps
<1> QED BY <1>4, <1>5

LEMMA HandlerTypes ==
    ASSUME ClientInv, ServerInv, InboxTypes, NEW m \in sent, Handler(m)
    PROVE  ServerInv' /\ InboxTypes'
<1>1. m \in Asked
    BY DEF ServerInv, MessageTypes
<1>2. /\ store \in [Fields -> Shown] /\ flush \subseteq Flights
      /\ \A x \in flush : /\ x.entry \in DOMAIN entry
                          /\ x.step = "writes" => x.seen \in [Fields -> Shown]
      /\ DOMAIN entry \subseteq Updates /\ entry \in [DOMAIN entry -> Slots]
      /\ pending \in [Fields -> DOMAIN entry \cup {None}]
    BY DEF ServerInv, FlushTypes, EntryTypes
<1>3. CASE Merge(m)
    <2>1. inbox' = inbox
        BY <1>3 DEF Merge
    <2> QED BY <1>3, <2>1, MergeTypes DEF InboxTypes
<1>4. CASE Ignore(m)
    <2>1. UNCHANGED <<ops, inbox, store, pending, entry, flush, removing>> /\ sent' \subseteq sent
        BY <1>4 DEF Ignore
    <2> QED BY <1>2, <2>1, ServerKeeps DEF InboxTypes
<1>5. CASE Refuse(m)
    <2>1. UNCHANGED <<ops, store, pending, entry, flush, removing>> /\ sent' \subseteq sent
        BY <1>5 DEF Refuse
    <2>2. InboxTypes'
        BY <1>1, <1>5, TellTypes DEF Refuse, Nobody
    <2> QED BY <1>2, <2>1, <2>2, ServerKeeps
<1>6. CASE Persist(m)
    <2>1. /\ UNCHANGED <<ops, inbox, store, pending, entry, flush>> /\ sent' \subseteq sent
          /\ removing' = removing \cup {m} /\ ops[m.id].kind = "remove"
        BY <1>6 DEF Persist
    <2> QED BY <1>2, <2>1, ServerKeeps DEF InboxTypes
<1>7. CASE PersistFails(m)
    <2>1. UNCHANGED <<ops, store, pending, entry, flush, removing>> /\ sent' \subseteq sent
        BY <1>7 DEF PersistFails
    <2>2. InboxTypes'
        BY <1>1, <1>7, TellTypes DEF PersistFails, Nobody
    <2> QED BY <1>2, <2>1, <2>2, ServerKeeps
<1> QED BY <1>3, <1>4, <1>5, <1>6, <1>7 DEF Handler

LEMMA AnnounceTypes ==
    ASSUME ClientInv, ServerInv, InboxTypes, NEW m \in removing, Announce(m)
    PROVE  ServerInv' /\ InboxTypes'
<1>1. m \in Asked /\ ops[m.id].kind = "remove"
    BY DEF ServerInv, MessageTypes
<1>2. [type |-> "removed", block |-> ops[m.id].block] \in Notices
    BY <1>1, OperationFacts DEF Notices
<1>3. Tell(Clients \ {Owner(m)}, [type |-> "removed", block |-> ops[m.id].block], {m}, Yes)
    BY DEF Announce
<1>4. InboxTypes'
    <2>1. PICK news : news = [type |-> "removed", block |-> ops[m.id].block]
        OBVIOUS
    <2> QED BY <1>1, <1>2, <1>3, <2>1, TellTypes
<1>5. UNCHANGED <<ops, sent, store, pending, entry, flush>> /\ removing' = removing \ {m}
    BY DEF Announce
<1>6. /\ store \in [Fields -> Shown] /\ flush \subseteq Flights
      /\ \A x \in flush : /\ x.entry \in DOMAIN entry
                          /\ x.step = "writes" => x.seen \in [Fields -> Shown]
      /\ DOMAIN entry \subseteq Updates /\ entry \in [DOMAIN entry -> Slots]
      /\ pending \in [Fields -> DOMAIN entry \cup {None}]
    BY DEF ServerInv, FlushTypes, EntryTypes
<1> QED BY <1>4, <1>5, <1>6, ServerKeeps

LEMMA TimerTypes ==
    ASSUME ClientInv, ServerInv, NEW k \in DOMAIN entry, Timer(k)
    PROVE  ServerInv'
<1> DEFINE e == IF entry[k].timer = "held" THEN k ELSE pending[FieldOf(k)]
           started == [entry |-> e, of |-> entry[e].latest, by |-> k, step |-> "reads", seen |-> <<>>]
<1>1. /\ flush' = IF e = None THEN flush ELSE flush \cup {started}
      /\ entry' = Held([entry EXCEPT ![k].timer = "off"], pending, flush')
      /\ UNCHANGED <<ops, sent, store, pending, removing>>
    BY DEF Timer, queueVars
<1>2. /\ store \in [Fields -> Shown] /\ flush \subseteq Flights
      /\ \A x \in flush : /\ x.entry \in DOMAIN entry
                          /\ x.step = "writes" => x.seen \in [Fields -> Shown]
      /\ DOMAIN entry \subseteq Updates /\ entry \in [DOMAIN entry -> Slots]
      /\ pending \in [Fields -> DOMAIN entry \cup {None}]
    BY DEF ServerInv, FlushTypes, EntryTypes
<1>3. FieldOf(k) \in Fields
    BY <1>2, OperationFacts DEF Updates
<1>4. ASSUME e # None
      PROVE  started \in Flights /\ started.entry \in DOMAIN entry /\ started.step # "writes"
    <2>1. e \in DOMAIN entry
        BY <1>2, <1>3, <1>4
    <2>2. entry[e].latest \in Updates
        BY <1>2, <2>1 DEF Slots
    <2> HIDE DEF e
    <2> QED BY <1>2, <2>1, <2>2 DEF Flights, Step
<1> HIDE DEF started, e
<1>5. /\ flush' \subseteq Flights
      /\ \A x \in flush' : /\ x.entry \in DOMAIN entry
                           /\ x.step = "writes" => x.seen \in [Fields -> Shown]
    BY <1>1, <1>2, <1>4
<1>6. PICK E, P, F : E = [entry EXCEPT ![k].timer = "off"] /\ P = pending /\ F = flush'
    OBVIOUS
<1>7. DOMAIN E = DOMAIN entry /\ E \in [DOMAIN E -> Slots]
    <2>1. entry[k] \in Slots
        BY <1>2
    <2>2. [entry[k] EXCEPT !.timer = "off"] \in Slots
        BY <2>1 DEF Slots
    <2> QED BY <1>2, <1>6, <2>2
<1>8. entry' = Held(E, P, F)
    BY <1>1, <1>6
<1>9. /\ DOMAIN entry' \subseteq DOMAIN entry /\ entry' \in [DOMAIN entry' -> Slots]
      /\ pending \in [Fields -> DOMAIN entry' \cup {None}]
      /\ \A x \in flush' : x.entry \in DOMAIN entry'
    <2>1. /\ DOMAIN E \subseteq Updates /\ P \in [Fields -> DOMAIN E \cup {None}]
          /\ \A x \in F : x.entry \in DOMAIN E
        BY <1>2, <1>5, <1>6, <1>7
    <2>2. PICK H : H = Held(E, P, F)
        OBVIOUS
    <2>3. /\ DOMAIN H \subseteq DOMAIN E /\ H \in [DOMAIN H -> Slots]
          /\ P \in [Fields -> DOMAIN H \cup {None}]
          /\ \A x \in F : x.entry \in DOMAIN H
        BY <1>7, <2>1, <2>2, HeldKeeps
    <2> QED BY <1>6, <1>7, <1>8, <2>2, <2>3
<1> QED BY <1>1, <1>2, <1>5, <1>9, ServerKeeps

LEMMA FlushStepTypes ==
    ASSUME ClientInv, ServerInv, InboxTypes, NEW x \in flush,
           Read(x) \/ Write(x) \/ Answer(x) \/ FlushFails(x)
    PROVE  ServerInv' /\ InboxTypes'
<1>1. /\ store \in [Fields -> Shown] /\ flush \subseteq Flights
      /\ \A y \in flush : /\ y.entry \in DOMAIN entry
                          /\ y.step = "writes" => y.seen \in [Fields -> Shown]
      /\ DOMAIN entry \subseteq Updates /\ entry \in [DOMAIN entry -> Slots]
      /\ pending \in [Fields -> DOMAIN entry \cup {None}]
    BY DEF ServerInv, FlushTypes, EntryTypes
<1>2. CASE Read(x)
    <2>1. PICK y \in {[x EXCEPT !.step = "missing"], [x EXCEPT !.step = "locked"],
                      [x EXCEPT !.step = "writes", !.seen = store]} :
              flush' = (flush \ {x}) \cup {y}
        BY <1>2 DEF Read
    <2>2. UNCHANGED <<ops, sent, inbox, store, pending, entry, removing>>
        BY <1>2 DEF Read, queueVars
    <2>3. /\ y \in Flights /\ y.entry = x.entry
          /\ y.step = "writes" => y.seen \in [Fields -> Shown]
        BY <1>1, <2>1 DEF Flights, Step
    <2> QED BY <1>1, <2>1, <2>2, <2>3, ServerKeeps DEF InboxTypes
<1>3. CASE Write(x)
    <2>1. PICK y : y = [x EXCEPT !.step = "done", !.seen = <<>>]
        OBVIOUS
    <2>2. /\ flush' = (flush \ {x}) \cup {y}
          /\ UNCHANGED <<ops, sent, inbox, pending, entry, removing>>
        BY <1>3, <2>1 DEF Write, queueVars
    <2>3. y \in Flights /\ y.entry = x.entry /\ y.step # "writes"
        BY <1>1, <2>1 DEF Flights, Step
    <2>4. store' \in [Fields -> Shown]
        <3>1. x.seen \in [Fields -> Shown] /\ ops[x.of.id].value \in Shown
            BY <1>1, <1>3, FlushFacts DEF Write, Shown
        <3> QED BY <1>1, <1>3, <3>1 DEF Write
    <2> QED BY <1>1, <2>2, <2>3, <2>4, ServerKeeps DEF InboxTypes
<1>4. CASE Answer(x)
    <2>1. /\ flush' = flush \ {x} /\ Dropped(x)
          /\ UNCHANGED <<ops, sent, store, removing>>
        BY <1>4 DEF Answer
    <2>2. PICK news : news = [type |-> "value", field |-> FieldOf(x.of), value |-> ops[x.of.id].value]
        OBVIOUS
    <2>3. news \in Notices
        BY <2>2, FlushFacts DEF Notices
    <2>4. \/ Tell(Clients \ Senders(x), news, entry[x.entry].waiting, Yes)
          \/ \E answer \in {Yes, No} : Tell({}, Silence, entry[x.entry].waiting, answer)
        BY <1>4, <2>2 DEF Answer, Nobody
    <2> QED BY <2>1, <2>3, <2>4, FlushEndsKeeps
<1>5. CASE FlushFails(x)
    <2>1. /\ flush' = flush \ {x} /\ Dropped(x)
          /\ UNCHANGED <<ops, sent, store, removing>>
        BY <1>5 DEF FlushFails
    <2>2. PICK answer \in {No, Never} : Tell({}, Silence, entry[x.entry].waiting, answer)
        BY <1>5 DEF FlushFails, Refusals, Nobody
    <2> QED BY <2>1, <2>2, FlushEndsKeeps
<1> QED BY <1>2, <1>3, <1>4, <1>5

(* Only blocks are deleted or locked. *)
BlockTypes == deleted \cup locked \subseteq Blocks

LEMMA BlockTypesStep ==
    ASSUME ClientInv, ServerInv, BlockTypes, [Next]_vars
    PROVE  BlockTypes'
<1>1. ASSUME NEW c \in Clients,
             Client(c) \/ Receive(c) \/ Disconnect(c) \/ \E id : Timeout(c, id)
      PROVE  UNCHANGED <<deleted, locked>>
    BY <1>1 DEF Client, Receive, Disconnect, Timeout, serverVars
<1>2. ASSUME NEW m \in sent, Persist(m) PROVE BlockTypes'
    <2>1. m \in Asked /\ ops[m.id].kind = "remove"
        BY <1>2 DEF Persist, ServerInv, MessageTypes
    <2>2. ops[m.id].block \in Blocks
        BY <2>1, OperationFacts
    <2> QED BY <1>2, <2>2 DEF Persist, BlockTypes
<1>3. ASSUME NEW m \in sent, Merge(m) \/ Ignore(m) \/ Refuse(m) \/ PersistFails(m)
      PROVE  UNCHANGED <<deleted, locked>>
    BY <1>3 DEF Merge, Ignore, Refuse, PersistFails
<1>4. ASSUME NEW m \in removing, Announce(m) PROVE UNCHANGED <<deleted, locked>>
    BY <1>4 DEF Announce
<1>5. ASSUME NEW k \in DOMAIN entry, Timer(k) PROVE UNCHANGED <<deleted, locked>>
    BY <1>5 DEF Timer
<1>6. ASSUME NEW x \in flush, Read(x) \/ Write(x) \/ Answer(x) \/ FlushFails(x)
      PROVE  UNCHANGED <<deleted, locked>>
    BY <1>6 DEF Read, Write, Answer, FlushFails
<1>7. ASSUME NEW b \in Blocks, ToggleLock(b) PROVE BlockTypes'
    BY <1>7 DEF ToggleLock, BlockTypes
<1>8. ASSUME UNCHANGED vars PROVE UNCHANGED <<deleted, locked>>
    BY <1>8 DEF vars, serverVars
<1> QED BY <1>1, <1>2, <1>3, <1>4, <1>5, <1>6, <1>7, <1>8 DEF Next, Handler, BlockTypes

LEMMA DisconnectTypes ==
    ASSUME ClientInv, ServerInv, InboxTypes, NEW c \in Clients, Disconnect(c)
    PROVE  ServerInv' /\ InboxTypes'
<1>1. /\ UNCHANGED <<ops, sent, store, pending, flush, removing>>
      /\ inbox' = [inbox EXCEPT ![c] = <<>>]
      /\ entry' = [k \in DOMAIN entry |->
                      IF k \in {pending[f] : f \in Fields}
                      THEN [entry[k] EXCEPT !.waiting =
                               {m \in @ : Owner(m) # c \/ m.at # session[c]}]
                      ELSE entry[k]]
    BY DEF Disconnect
<1>2. /\ store \in [Fields -> Shown] /\ flush \subseteq Flights
      /\ \A x \in flush : /\ x.entry \in DOMAIN entry
                          /\ x.step = "writes" => x.seen \in [Fields -> Shown]
      /\ DOMAIN entry \subseteq Updates /\ entry \in [DOMAIN entry -> Slots]
      /\ pending \in [Fields -> DOMAIN entry \cup {None}]
    BY DEF ServerInv, FlushTypes, EntryTypes
<1>3. \A k \in DOMAIN entry :
          [entry[k] EXCEPT !.waiting = {m \in @ : Owner(m) # c \/ m.at # session[c]}] \in Slots
    <2>1. ASSUME NEW s \in Slots
          PROVE  [s EXCEPT !.waiting = {m \in @ : Owner(m) # c \/ m.at # session[c]}] \in Slots
        BY DEF Slots
    <2> QED BY <1>2, <2>1
<1>4. DOMAIN entry' = DOMAIN entry /\ entry' \in [DOMAIN entry -> Slots]
    BY <1>1, <1>2, <1>3
<1>5. InboxTypes'
    BY <1>1 DEF InboxTypes
<1> QED BY <1>1, <1>2, <1>4, <1>5, ServerKeeps

\* What every step keeps, and nobody's queue ever hangs.
Typed == ClientInv /\ ServerInv /\ InboxTypes /\ BlockTypes

LEMMA ClientTypesStep ==
    ASSUME Typed, Moved, NEW c \in Clients,
           Client(c) \/ Receive(c) \/ \E id : Timeout(c, id)
    PROVE  ServerInv' /\ InboxTypes'
<1>1. UNCHANGED <<store, pending, entry, flush, removing>>
    BY DEF Client, Receive, Timeout, serverVars
<1>2. CASE Client(c)
    <2>1. inbox' = inbox
        BY <1>2 DEF Client, SetValue, RemoveBlock, Retries, Rejoin, Unregister, Register
    <2> QED BY <1>1, <2>1, ServerStays DEF Typed, InboxTypes
<1>3. CASE Receive(c)
    <2>1. inbox[c] \in Seq(Notices) /\ inbox[c] # <<>>
        BY <1>3 DEF Receive, Typed, InboxTypes
    <2>2. Tail(inbox[c]) \in Seq(Notices)
        BY <2>1, HeadTailProperties
    <2>3. InboxTypes'
        BY <1>3, <2>2 DEF Receive, Typed, InboxTypes
    <2> QED BY <1>1, <2>3, ServerStays DEF Typed
<1>4. CASE \E id : Timeout(c, id)
    <2>1. inbox' = inbox
        BY <1>4 DEF Timeout, TimesOut
    <2> QED BY <1>1, <2>1, ServerStays DEF Typed, InboxTypes
<1> QED BY <1>2, <1>3, <1>4

LEMMA TypedInit ==
    ASSUME Init
    PROVE  Typed
<1>1. /\ ops = <<>> /\ client = [c \in Clients |-> Idle] /\ sent = {} /\ removing = {}
      /\ joined = [c \in Clients |-> TRUE] /\ registered = [c \in Clients |-> TRUE]
      /\ session = [c \in Clients |-> 0]
      /\ view = [c \in Clients |-> [f \in Fields |-> Unset]]
      /\ removed = [c \in Clients |-> {}]
      /\ inbox = [c \in Clients |-> <<>>]
      /\ store = [f \in Fields |-> Unset] /\ pending = [f \in Fields |-> None] /\ flush = {}
      /\ DOMAIN entry = {} /\ entry = [m \in {} |-> NoEntry]
    BY DEF Init, QueueInit
<1>2. Idle \in States /\ Well(Idle) /\ Calm(Idle) /\ Idle.queue = {}
    BY DEF Idle, States, Well, Calm, InFlight, Pending
<1>3. ClientTypes
    BY <1>1, <1>2, QueueConstants DEF ClientTypes, Shown
<1>4. OwnQueue /\ QueuesWell
    BY <1>1, <1>2 DEF OwnQueue, QueuesWell
<1>5. InboxTypes
    BY <1>1 DEF InboxTypes
<1>6. MessageTypes /\ FlushTypes
    BY <1>1 DEF MessageTypes, FlushTypes, Shown
<1>7. EntryTypes
    <2>1. entry \in [{} -> Slots]
        BY <1>1
    <2> QED BY <1>1, <2>1 DEF EntryTypes
<1>8. BlockTypes
    BY DEF Init, BlockTypes
<1> QED BY <1>3, <1>4, <1>5, <1>6, <1>7, <1>8 DEF Typed, ClientInv, ServerInv

LEMMA TypedStep ==
    ASSUME Typed, [Next]_vars
    PROVE  Typed' /\ Moved
<1>1. Moved
    BY ClientStep DEF Typed
<1>2. ASSUME NEW c \in Clients, Client(c) \/ Receive(c) \/ \E id : Timeout(c, id)
      PROVE  ServerInv' /\ InboxTypes'
    BY <1>1, <1>2, ClientTypesStep
<1>3. ASSUME NEW c \in Clients, Disconnect(c) PROVE ServerInv' /\ InboxTypes'
    BY <1>3, DisconnectTypes DEF Typed
<1>4. ASSUME NEW m \in sent, Handler(m) PROVE ServerInv' /\ InboxTypes'
    BY <1>4, HandlerTypes DEF Typed
<1>5. ASSUME NEW m \in removing, Announce(m) PROVE ServerInv' /\ InboxTypes'
    BY <1>5, AnnounceTypes DEF Typed
<1>6. ASSUME NEW k \in DOMAIN entry, Timer(k) PROVE ServerInv' /\ InboxTypes'
    <2>1. inbox' = inbox
        BY <1>6 DEF Timer, queueVars
    <2> QED BY <1>6, <2>1, TimerTypes DEF Typed, InboxTypes
<1>7. ASSUME NEW x \in flush, Read(x) \/ Write(x) \/ Answer(x) \/ FlushFails(x)
      PROVE  ServerInv' /\ InboxTypes'
    BY <1>7, FlushStepTypes DEF Typed
<1>8. ASSUME UNCHANGED vars PROVE ServerInv' /\ InboxTypes'
    BY <1>1, <1>8, ServerStays DEF Typed, InboxTypes, vars, queueVars, serverVars
<1>9. ASSUME NEW b \in Blocks, ToggleLock(b) PROVE ServerInv' /\ InboxTypes'
    <2>1. UNCHANGED <<store, pending, entry, flush, removing>> /\ inbox' = inbox
        BY <1>9 DEF ToggleLock, queueVars
    <2> QED BY <1>1, <2>1, ServerStays DEF Typed, InboxTypes
<1>10. ServerInv' /\ InboxTypes'
    BY <1>2, <1>3, <1>4, <1>5, <1>6, <1>7, <1>8, <1>9 DEF Next
<1>11. BlockTypes'
    BY BlockTypesStep DEF Typed
<1> QED BY <1>1, <1>10, <1>11 DEF Typed, Moved

LEMMA AlwaysTyped == Spec => []Typed
<1>1. Init => Typed
    BY TypedInit
<1>2. Typed /\ [Next]_vars => Typed'
    BY TypedStep
<1> QED BY <1>1, <1>2, PTL DEF Spec

(* Operations, queues, messages, entries and flushes are what they should    *)
(* be: an entry of the map is of the field it is filed under, and a flush    *)
(* has its entry.                                                            *)
THEOREM RealtimeTypes == Spec => []TypeOK
<1>1. Typed => TypeOK
    <2> SUFFICES ASSUME Typed PROVE TypeOK
        OBVIOUS
    <2>1. ASSUME NEW c \in Clients
          PROVE  /\ client[c].queue \subseteq Entries
                 /\ client[c].deadlines \subseteq Queued(client[c])
                 /\ client[c].retries \subseteq Ids
                 /\ view[c] \in [Fields -> Values \cup {Unset}]
        <3>1. client[c] \in States /\ Well(client[c]) /\ view[c] \in [Fields -> Shown]
            BY DEF Typed, ClientInv, ClientTypes, QueuesWell
        <3>2. InFlight(client[c]) \subseteq client[c].queue
            BY DEF InFlight
        <3>3. client[c].deadlines \subseteq Queued(client[c])
            BY <3>1, <3>2 DEF Well, Queued
        <3> QED BY <3>1, <3>3 DEF States, Shown
    <2>2. ops \in Seq(Operation) /\ Len(ops) <= MaxOps
        BY DEF Typed, ClientInv, ClientTypes
    <2>3. sent \subseteq Message /\ removing \subseteq Message
        BY DEF Typed, ServerInv, MessageTypes, Asked
    <2>4. \A f \in Fields : pending[f] = None \/ FieldOf(pending[f]) = f
        BY DEF Typed, ServerInv, EntryTypes
    <2>5. /\ store \in [Fields -> Values \cup {Unset}]
          /\ \A x \in flush : x.entry \in DOMAIN entry /\ x.step \in Step
        BY DEF Typed, ServerInv, FlushTypes, Flights, Shown
    <2>6. deleted \cup locked \subseteq Blocks
        BY DEF Typed, BlockTypes
    <2> QED BY <2>1, <2>2, <2>3, <2>4, <2>5, <2>6 DEF TypeOK, Entries
<1> QED BY <1>1, AlwaysTyped, PTL

(* Whatever is lost, late or cancelled, a queue never takes itself to wait   *)
(* for an answer that no timeout will give up on: deadlines are those of     *)
(* the operations in flight, in every state of every handler.                *)
THEOREM NoQueueHangs == Spec => []NoHang
<1>1. Typed => NoHang
    <2> SUFFICES ASSUME Typed, NEW c \in Clients
                 PROVE  /\ \A e \in InFlight(client[c]) : e.id \in client[c].deadlines
                        /\ client[c].busy => InFlight(client[c]) # {}
        BY DEF NoHang
    <2>1. Well(client[c])
        BY DEF Typed, ClientInv, QueuesWell
    <2> QED BY <2>1 DEF Well
<1> QED BY <1>1, AlwaysTyped, PTL

(* Nothing waits in a queue that could be sent, unless a retry timer will    *)
(* send it.                                                                  *)
THEOREM NoQueueStalls == Spec => []NoStall
<1>1. Typed => NoStall
    BY DEF Typed, ClientInv, QueuesWell, Calm, NoStall
<1> QED BY <1>1, AlwaysTyped, PTL

-----------------------------------------------------------------------------
(* No message comes twice: an operation is sent again only as a later try,   *)
(* so that no message opens an entry that another one has opened before.     *)

Newer ==
    \A c \in Clients : \A e \in client[c].queue : \A m \in sent \cup DOMAIN entry :
        m.id = e.id => m.try <= e.try /\ (e.status = "pending" => m.try < e.try)
Once == sent \cap DOMAIN entry = {}

\* An entry is opened by a message that has come.
EntriesCome == DOMAIN entry' \subseteq DOMAIN entry \cup (sent \ sent')

LEMMA EntriesComeStep ==
    ASSUME Typed, [Next]_vars
    PROVE  EntriesCome
<1>1. ASSUME NEW c \in Clients, Client(c) \/ Receive(c) \/ \E id : Timeout(c, id)
      PROVE  DOMAIN entry' \subseteq DOMAIN entry
    BY <1>1 DEF Client, Receive, Timeout, serverVars
<1>2. ASSUME NEW c \in Clients, Disconnect(c) PROVE DOMAIN entry' \subseteq DOMAIN entry
    BY <1>2 DEF Disconnect
<1>3. ASSUME NEW m \in sent, Merge(m)
      PROVE  DOMAIN entry' \subseteq DOMAIN entry \cup {m} /\ sent' = sent \ {m}
    BY <1>3 DEF Merge, Joins, Opens
<1>4. ASSUME NEW m \in sent, Ignore(m) \/ Refuse(m) \/ Persist(m) \/ PersistFails(m)
      PROVE  DOMAIN entry' \subseteq DOMAIN entry
    BY <1>4 DEF Ignore, Refuse, Persist, PersistFails
<1>5. ASSUME NEW m \in removing, Announce(m) PROVE DOMAIN entry' \subseteq DOMAIN entry
    BY <1>5 DEF Announce
<1>6. ASSUME NEW k \in DOMAIN entry, Timer(k) PROVE DOMAIN entry' \subseteq DOMAIN entry
    <2>1. PICK E : E = [entry EXCEPT ![k].timer = "off"]
        OBVIOUS
    <2>2. DOMAIN E = DOMAIN entry
        BY <2>1
    <2>3. entry' = Held(E, pending, flush')
        BY <1>6, <2>1 DEF Timer
    <2> QED BY <2>2, <2>3 DEF Held
<1>7. ASSUME NEW x \in flush, Read(x) \/ Write(x) \/ Answer(x) \/ FlushFails(x)
      PROVE  DOMAIN entry' \subseteq DOMAIN entry
    <2>1. entry' = entry \/ Dropped(x)
        BY <1>7 DEF Read, Write, Answer, FlushFails
    <2> QED BY <2>1 DEF Dropped, Held
<1>8. ASSUME UNCHANGED vars \/ \E b \in Blocks : ToggleLock(b)
      PROVE  DOMAIN entry' \subseteq DOMAIN entry
    BY <1>8 DEF vars, serverVars, ToggleLock
<1> QED BY <1>1, <1>2, <1>3, <1>4, <1>5, <1>6, <1>7, <1>8 DEF Next, Handler, EntriesCome

(* A message that is sent in a step is a later try than all there have been. *)
LEMMA SentIsLater ==
    ASSUME Typed, Moved, Newer, NEW m \in sent' \ sent
    PROVE  /\ m \notin DOMAIN entry
           /\ \A d \in Clients : \A e \in client'[d].queue :
                  m.id = e.id => m.try = e.try /\ e.status = "processing"
<1>0. PICK c \in Clients : \E e \in InFlight(client'[c]) \ InFlight(client[c]) :
          m = [id |-> e.id, try |-> e.try, at |-> session[c]]
    BY DEF Moved, SentByClients
<1>1. PICK e \in InFlight(client'[c]) \ InFlight(client[c]) :
          m = [id |-> e.id, try |-> e.try, at |-> session[c]]
    BY <1>0
<1>2. /\ e \in client'[c].queue /\ e.status = "processing" /\ e \notin client[c].queue
      /\ m.id = e.id /\ m.try = e.try
    BY <1>1 DEF InFlight
<1>3. PICK d \in client[c].queue \cup Newest(c) :
          d.id = e.id /\ d.try = e.try /\ d.status = "pending"
    <2>1. e \notin Newest(c)
        BY <1>2 DEF Newest, Fresh
    <2>2. Ages(client[c].queue \cup Newest(c), client'[c].queue)
        BY DEF Moved, QueuesAge
    <2> QED BY <1>2, <2>1, <2>2 DEF Ages
<1>4. m \notin DOMAIN entry
    <2>1. SUFFICES ASSUME m \in DOMAIN entry PROVE FALSE
        OBVIOUS
    <2>2. m \in Asked
        BY <2>1 DEF Typed, ServerInv, EntryTypes, Updates
    <2>3. CASE d \in client[c].queue
        <3>1. d.try < d.try
            <4>1. m.id = d.id /\ m.try = d.try
                BY <1>2, <1>3
            <4> QED BY <1>3, <2>1, <2>3, <4>1 DEF Newer
        <3>2. d.try \in Int
            BY <1>2, <1>3, <2>2, QueueConstants DEF Asked, Message
        <3> QED BY <3>1, <3>2
    <2>4. CASE d \in Newest(c)
        <3>1. m.id = Len(ops) + 1 /\ m.id <= Len(ops) /\ Len(ops) \in Nat
            BY <1>2, <1>3, <2>2, <2>4, LenProperties
               DEF Newest, Fresh, Asked, Typed, ClientInv, ClientTypes
        <3> QED BY <3>1
    <2> QED BY <1>3, <2>3, <2>4
<1>5. ASSUME NEW b \in Clients, NEW f \in client'[b].queue, m.id = f.id
      PROVE  m.try = f.try /\ f.status = "processing"
    <2>1. ops'[f.id].by = b /\ ops'[e.id].by = c
        BY <1>2, <1>5 DEF Moved, ClientInv, OwnQueue
    <2>2. b = c
        BY <1>2, <1>5, <2>1
    <2>3. f = e
        BY <1>2, <1>5, <2>2 DEF Moved, ClientInv, QueuesWell, Well
    <2> QED BY <1>2, <2>3
<1> QED BY <1>4, <1>5

LEMMA OnceStep ==
    ASSUME Typed, Moved, EntriesCome, Newer, Once
    PROVE  Newer' /\ Once'
<1>1. ASSUME NEW m \in sent' \cup DOMAIN entry'
      PROVE  m \in sent \cup DOMAIN entry \/ m \in sent' \ sent
    BY DEF EntriesCome
<1>2. ASSUME NEW c \in Clients, NEW e \in client'[c].queue, NEW m \in sent' \cup DOMAIN entry',
             m.id = e.id
      PROVE  m.try <= e.try /\ (e.status = "pending" => m.try < e.try)
    <2>1. e.try \in Int /\ \A d \in client[c].queue : d.try \in Int
        <3>1. client'[c] \in States /\ client[c] \in States
            BY DEF Typed, Moved, ClientInv, ClientTypes
        <3> QED BY <3>1, QueueConstants DEF States, Entries
    <2>2. CASE m \in sent \cup DOMAIN entry
        <3>1. m \in Asked
            BY <2>2 DEF Typed, ServerInv, MessageTypes, EntryTypes, Updates
        <3>2. m.try \in Int /\ m.id <= Len(ops) /\ Len(ops) \in Nat
            BY <3>1, QueueConstants, LenProperties
               DEF Asked, Message, Typed, ClientInv, ClientTypes
        <3>3. \A d \in Newest(c) : d.id # m.id
            <4>1. \A d \in Newest(c) : d.id = Len(ops) + 1
                BY DEF Newest, Fresh
            <4> QED BY <3>2, <4>1
        <3>4. Ages(client[c].queue \cup Newest(c), client'[c].queue)
            BY DEF Moved, QueuesAge
        <3>5. \/ e \in client[c].queue
              \/ /\ e.status = "processing"
                 /\ \E d \in client[c].queue : d.id = e.id /\ d.try = e.try /\ d.status = "pending"
              \/ /\ e.status = "pending"
                 /\ \E d \in client[c].queue : d.id = e.id /\ d.try < e.try
            BY <1>2, <3>3, <3>4 DEF Ages
        <3>6. \A d \in client[c].queue :
                  m.id = d.id => m.try <= d.try /\ (d.status = "pending" => m.try < d.try)
            BY <2>2 DEF Newer
        <3> QED BY <1>2, <2>1, <3>2, <3>5, <3>6
    <2>3. CASE m \in sent' \ sent
        <3>1. m.try = e.try /\ e.status = "processing"
            BY <1>2, <2>3, SentIsLater
        <3> QED BY <2>1, <3>1
    <2> QED BY <1>1, <2>2, <2>3
<1>3. Newer'
    BY <1>2 DEF Newer
<1>4. Once'
    BY SentIsLater DEF Once, EntriesCome
<1> QED BY <1>3, <1>4

-----------------------------------------------------------------------------
(* What a step does to the entries, the flushes and the histories.           *)

\* The entry k has got no newer update.
Same(k) ==
    /\ k \in DOMAIN entry
    /\ entry'[k].latest = entry[k].latest /\ entry'[k].waiting \subseteq entry[k].waiting
    /\ entry'[k].timer = entry[k].timer \/ Timer(k)
\* It has been joined by an update, or opened.
Joined(k) ==
    /\ k \in DOMAIN entry /\ flush' = flush
    /\ \E m \in sent :
          /\ entry'[k] = [latest |-> m, waiting |-> Waiting(k, m), timer |-> "held"]
          /\ superseded' = superseded \cup ({entry[k].latest.id} \ {m.id})
Opened(k) ==
    /\ k \notin DOMAIN entry /\ flush' = flush
    /\ entry'[k].waiting = {entry'[k].latest}

LEMMA SameEntries ==
    ASSUME NEW k \in DOMAIN entry', entry' = entry
    PROVE  Same(k)
BY DEF Same

LEMMA MergeChanges ==
    ASSUME Typed, Once, NEW m \in sent, Merge(m), NEW k \in DOMAIN entry'
    PROVE  Same(k) \/ Joined(k) \/ Opened(k)
<1>1. m \in Updates /\ FieldOf(m) \in Fields /\ m \notin DOMAIN entry /\ flush' = flush
    BY OperationFacts DEF Merge, Typed, ServerInv, MessageTypes, Updates, Once
<1>2. CASE pending[FieldOf(m)] # None
    <2>1. PICK p : p = pending[FieldOf(m)]
        OBVIOUS
    <2>2. p \in DOMAIN entry /\ Joins(m, p)
        BY <1>1, <1>2, <2>1 DEF Merge, Typed, ServerInv, EntryTypes
    <2>3. CASE k = p
        <3>1. /\ entry'[k] = [latest |-> m, waiting |-> Waiting(k, m), timer |-> "held"]
              /\ superseded' = superseded \cup ({entry[k].latest.id} \ {m.id})
            BY <2>2, <2>3 DEF Joins
        <3> QED BY <1>1, <2>2, <2>3, <3>1 DEF Joined
    <2>4. CASE k # p
        BY <2>2, <2>4 DEF Joins, Same
    <2> QED BY <2>3, <2>4
<1>3. CASE pending[FieldOf(m)] = None
    <2>1. entry' = [j \in DOMAIN entry \cup {m} |->
                       IF j = m THEN [latest |-> m, waiting |-> {m}, timer |-> "lookup"]
                       ELSE entry[j]]
        BY <1>3 DEF Merge, Opens
    <2>2. CASE k = m
        BY <1>1, <2>1, <2>2 DEF Opened
    <2>3. CASE k # m
        BY <1>1, <2>1, <2>3 DEF Same
    <2> QED BY <2>2, <2>3
<1> QED BY <1>2, <1>3

LEMMA EntryChanges ==
    ASSUME Typed, Once, [Next]_vars, NEW k \in DOMAIN entry'
    PROVE  Same(k) \/ Joined(k) \/ Opened(k)
<1>1. ASSUME NEW c \in Clients, Client(c) \/ Receive(c) \/ \E id : Timeout(c, id)
      PROVE  entry' = entry
    BY <1>1 DEF Client, Receive, Timeout, serverVars
<1>2. ASSUME NEW c \in Clients, Disconnect(c) PROVE Same(k)
    <2>1. /\ k \in DOMAIN entry
          /\ entry'[k] = IF k \in {pending[f] : f \in Fields}
                         THEN [entry[k] EXCEPT !.waiting =
                                  {m \in @ : Owner(m) # c \/ m.at # session[c]}]
                         ELSE entry[k]
        BY <1>2 DEF Disconnect
    <2>2. entry[k] \in Slots
        BY <2>1 DEF Typed, ServerInv, EntryTypes
    <2> QED BY <2>1, <2>2 DEF Slots, Same
<1>3. ASSUME NEW m \in sent, Merge(m) PROVE Same(k) \/ Joined(k) \/ Opened(k)
    BY <1>3, MergeChanges
<1>4. ASSUME NEW m \in sent, Ignore(m) \/ Refuse(m) \/ Persist(m) \/ PersistFails(m)
      PROVE  entry' = entry
    BY <1>4 DEF Ignore, Refuse, Persist, PersistFails
<1>5. ASSUME NEW m \in removing, Announce(m) PROVE entry' = entry
    BY <1>5 DEF Announce
<1>6. ASSUME NEW j \in DOMAIN entry, Timer(j) PROVE Same(k)
    <2>1. PICK E : E = [entry EXCEPT ![j].timer = "off"]
        OBVIOUS
    <2>2. entry' = Held(E, pending, flush')
        BY <1>6, <2>1 DEF Timer
    <2>3. k \in DOMAIN E /\ entry'[k] = E[k] /\ k \in DOMAIN entry
        BY <2>1, <2>2 DEF Held
    <2>4. entry[k] \in Slots
        BY <2>3 DEF Typed, ServerInv, EntryTypes
    <2>5. /\ E[k].latest = entry[k].latest /\ E[k].waiting = entry[k].waiting
          /\ k # j => E[k].timer = entry[k].timer
        BY <2>1, <2>3, <2>4 DEF Slots
    <2> QED BY <1>6, <2>3, <2>5 DEF Same
<1>7. ASSUME NEW x \in flush, Read(x) \/ Write(x) \/ Answer(x) \/ FlushFails(x)
      PROVE  Same(k)
    <2>1. entry' = entry \/ entry' = Held(entry, pending', flush')
        BY <1>7 DEF Read, Write, Answer, FlushFails, Dropped
    <2>2. k \in DOMAIN entry /\ entry'[k] = entry[k]
        BY <2>1 DEF Held
    <2> QED BY <2>2 DEF Same
<1>8. ASSUME UNCHANGED vars \/ \E b \in Blocks : ToggleLock(b) PROVE entry' = entry
    BY <1>8 DEF vars, serverVars, ToggleLock
<1> QED BY <1>1, <1>2, <1>3, <1>4, <1>5, <1>6, <1>7, <1>8, SameEntries DEF Next, Handler

(* A timer keeps its entry until it fires. *)
LEMMA EntryStays ==
    ASSUME Typed, [Next]_vars, NEW k \in DOMAIN entry, entry[k].timer # "off"
    PROVE  k \in DOMAIN entry' \/ Timer(k)
<1>1. ASSUME NEW c \in Clients, Client(c) \/ Receive(c) \/ Disconnect(c) \/ \E id : Timeout(c, id)
      PROVE  DOMAIN entry' = DOMAIN entry
    BY <1>1 DEF Client, Receive, Timeout, Disconnect, serverVars
<1>2. ASSUME NEW m \in sent, Handler(m) PROVE DOMAIN entry \subseteq DOMAIN entry'
    BY <1>2 DEF Handler, Merge, Joins, Opens, Ignore, Refuse, Persist, PersistFails
<1>3. ASSUME NEW m \in removing, Announce(m) PROVE entry' = entry
    BY <1>3 DEF Announce
<1>4. ASSUME NEW j \in DOMAIN entry, Timer(j), j # k PROVE k \in DOMAIN entry'
    <2>1. PICK E : E = [entry EXCEPT ![j].timer = "off"]
        OBVIOUS
    <2>2. k \in DOMAIN E /\ E[k].timer # "off"
        BY <1>4, <2>1
    <2>3. entry' = Held(E, pending, flush')
        BY <1>4, <2>1 DEF Timer
    <2> QED BY <2>2, <2>3 DEF Held
<1>5. ASSUME NEW x \in flush, Read(x) \/ Write(x) \/ Answer(x) \/ FlushFails(x)
      PROVE  k \in DOMAIN entry'
    <2>1. entry' = entry \/ entry' = Held(entry, pending', flush')
        BY <1>5 DEF Read, Write, Answer, FlushFails, Dropped
    <2> QED BY <2>1 DEF Held
<1>6. ASSUME UNCHANGED vars \/ \E b \in Blocks : ToggleLock(b) PROVE entry' = entry
    BY <1>6 DEF vars, serverVars, ToggleLock
<1> QED BY <1>1, <1>2, <1>3, <1>4, <1>5, <1>6 DEF Next

\* A flush either was there, with the same update of the same entry, or a
\* timer has begun it with the latest one of its entry.
Ran(y) == \E x \in flush : y.of = x.of /\ y.entry = x.entry
Begun(y) ==
    /\ y.entry \in DOMAIN entry /\ y.of = entry[y.entry].latest
    /\ y.step = "reads"
    /\ \E k \in DOMAIN entry : Timer(k)

\* How the flush y ends or goes on.
Going(y) ==
    /\ y.step = "done" => y.of.id \in written'
    /\ y.step = "locked" => y.of.id \in lost'
    /\ y.step = "missing" => BlockOf[FieldOf(y.of)] \in deleted'

Ended ==
    \A x \in flush : /\ x.step = "done" => x.of.id \in written
                     /\ x.step = "locked" => x.of.id \in lost
                     /\ x.step = "missing" => BlockOf[FieldOf(x.of)] \in deleted

LEMMA HistoriesGrow ==
    ASSUME [Next]_vars
    PROVE  /\ written \subseteq written' /\ superseded \subseteq superseded'
           /\ lost \subseteq lost' /\ deleted \subseteq deleted'
<1>1. ASSUME NEW c \in Clients,
             Client(c) \/ Receive(c) \/ Disconnect(c) \/ \E id : Timeout(c, id)
      PROVE  UNCHANGED <<written, superseded, lost, deleted>>
    BY <1>1 DEF Client, Receive, Timeout, Disconnect, serverVars
<1>2. ASSUME NEW m \in sent, Handler(m)
      PROVE  /\ written' = written /\ superseded \subseteq superseded' /\ lost' = lost
             /\ deleted \subseteq deleted'
    BY <1>2 DEF Handler, Merge, Joins, Opens, Ignore, Refuse, Persist, PersistFails
<1>3. ASSUME NEW m \in removing, Announce(m)
      PROVE  UNCHANGED <<written, superseded, lost, deleted>>
    BY <1>3 DEF Announce
<1>4. ASSUME NEW k \in DOMAIN entry, Timer(k)
      PROVE  UNCHANGED <<written, superseded, lost, deleted>>
    BY <1>4 DEF Timer
<1>5. ASSUME NEW x \in flush, Read(x) \/ Write(x) \/ Answer(x) \/ FlushFails(x)
      PROVE  /\ written \subseteq written' /\ superseded' = superseded
             /\ lost \subseteq lost' /\ deleted' = deleted
    BY <1>5 DEF Read, Write, Answer, FlushFails
<1>6. ASSUME UNCHANGED vars \/ \E b \in Blocks : ToggleLock(b)
      PROVE  UNCHANGED <<written, superseded, lost, deleted>>
    BY <1>6 DEF vars, serverVars, ToggleLock
<1> QED BY <1>1, <1>2, <1>3, <1>4, <1>5, <1>6 DEF Next

LEMMA ReadGoes ==
    ASSUME Typed, NEW x \in flush, Read(x), NEW y \in flush', y \notin flush
    PROVE  y.of = x.of /\ y.entry = x.entry /\ Going(y)
<1>1. x \in Flights
    BY DEF Typed, ServerInv, FlushTypes
<1>2. /\ y = IF BlockOf[FieldOf(x.of)] \in deleted THEN [x EXCEPT !.step = "missing"]
             ELSE IF BlockOf[FieldOf(x.of)] \in locked THEN [x EXCEPT !.step = "locked"]
             ELSE [x EXCEPT !.step = "writes", !.seen = store]
      /\ deleted' = deleted
    BY DEF Read
<1>3. CASE BlockOf[FieldOf(x.of)] \in deleted
    <2>1. y.of = x.of /\ y.entry = x.entry /\ y.step = "missing"
        BY <1>1, <1>2, <1>3 DEF Flights
    <2> QED BY <1>2, <1>3, <2>1 DEF Going
<1>4. CASE BlockOf[FieldOf(x.of)] \in locked \ deleted
    <2>1. y.of = x.of /\ y.entry = x.entry /\ y.step = "locked"
        BY <1>1, <1>2, <1>4 DEF Flights
    <2>2. x.of.id \in lost'
        BY <1>4 DEF Read
    <2> QED BY <2>1, <2>2 DEF Going
<1>5. CASE BlockOf[FieldOf(x.of)] \notin deleted \cup locked
    <2>1. y.of = x.of /\ y.entry = x.entry /\ y.step = "writes"
        BY <1>1, <1>2, <1>5 DEF Flights
    <2> QED BY <2>1 DEF Going
<1> QED BY <1>3, <1>4, <1>5

LEMMA WriteGoes ==
    ASSUME Typed, NEW x \in flush, Write(x), NEW y \in flush', y \notin flush
    PROVE  y.of = x.of /\ y.entry = x.entry /\ Going(y)
<1>1. x \in Flights
    BY DEF Typed, ServerInv, FlushTypes
<1>2. y = [x EXCEPT !.step = "done", !.seen = <<>>] /\ x.of.id \in written'
    BY DEF Write
<1>3. y.of = x.of /\ y.entry = x.entry /\ y.step = "done"
    BY <1>1, <1>2 DEF Flights
<1> QED BY <1>2, <1>3 DEF Going

LEMMA FlushChanges ==
    ASSUME Typed, Ended, [Next]_vars, NEW y \in flush'
    PROVE  Going(y) /\ (Ran(y) \/ Begun(y))
<1>1. CASE y \in flush
    <2>1. Going(y)
        BY <1>1, HistoriesGrow DEF Ended, Going
    <2> QED BY <1>1, <2>1 DEF Ran
<1>2. CASE y \notin flush
    <2>1. ASSUME NEW c \in Clients,
                 Client(c) \/ Receive(c) \/ Disconnect(c) \/ \E id : Timeout(c, id)
          PROVE  flush' = flush
        BY <2>1 DEF Client, Receive, Timeout, Disconnect, serverVars
    <2>2. ASSUME NEW m \in sent, Handler(m) PROVE flush' = flush
        BY <2>2 DEF Handler, Merge, Ignore, Refuse, Persist, PersistFails
    <2>3. ASSUME NEW m \in removing, Announce(m) PROVE flush' = flush
        BY <2>3 DEF Announce
    <2>4. ASSUME NEW k \in DOMAIN entry, Timer(k) PROVE Begun(y) /\ Going(y)
        <3>1. PICK e : e = IF entry[k].timer = "held" THEN k ELSE pending[FieldOf(k)]
            OBVIOUS
        <3>2. /\ e # None
              /\ y = [entry |-> e, of |-> entry[e].latest, by |-> k, step |-> "reads", seen |-> <<>>]
            BY <1>2, <2>4, <3>1 DEF Timer
        <3>3. e \in DOMAIN entry
            <4>1. FieldOf(k) \in Fields
                BY OperationFacts DEF Typed, ServerInv, EntryTypes, Updates
            <4> QED BY <3>1, <3>2, <4>1 DEF Typed, ServerInv, EntryTypes
        <3> QED BY <2>4, <3>2, <3>3 DEF Begun, Going
    <2>5. ASSUME NEW x \in flush, Read(x) PROVE Ran(y) /\ Going(y)
        BY <1>2, <2>5, ReadGoes DEF Ran
    <2>6. ASSUME NEW x \in flush, Write(x) PROVE Ran(y) /\ Going(y)
        BY <1>2, <2>6, WriteGoes DEF Ran
    <2>7. ASSUME NEW x \in flush, Answer(x) \/ FlushFails(x) PROVE flush' \subseteq flush
        BY <2>7 DEF Answer, FlushFails
    <2>8. ASSUME UNCHANGED vars \/ \E b \in Blocks : ToggleLock(b) PROVE flush' = flush
        BY <2>8 DEF vars, serverVars, ToggleLock
    <2> QED BY <1>2, <2>1, <2>2, <2>3, <2>4, <2>5, <2>6, <2>7, <2>8 DEF Next
<1> QED BY <1>1, <1>2

LEMMA EndedStep ==
    ASSUME Typed, Moved, Ended, [Next]_vars
    PROVE  Ended'
<1>1. ASSUME NEW y \in flush'
      PROVE  /\ y.step = "done" => y.of.id \in written'
             /\ y.step = "locked" => y.of.id \in lost'
             /\ y.step = "missing" => BlockOf[FieldOf(y.of)'] \in deleted'
    <2>1. Going(y) /\ (Ran(y) \/ Begun(y))
        BY <1>1, FlushChanges
    <2>2. y.of \in Asked
        <3>1. \A x \in flush : x.of \in Asked
            BY DEF Typed, ServerInv, FlushTypes, Flights, Updates
        <3>2. \A k \in DOMAIN entry : entry[k].latest \in Asked
            BY DEF Typed, ServerInv, EntryTypes, Slots, Updates
        <3> QED BY <2>1, <3>1, <3>2 DEF Ran, Begun
    <2>3. FieldOf(y.of)' = FieldOf(y.of)
        BY <2>2, AskedGrows DEF Typed, Moved
    <2> QED BY <2>1, <2>3 DEF Going
<1> QED BY <1>1 DEF Ended, FieldOf

-----------------------------------------------------------------------------
(* What has been confirmed is kept.                                          *)

\* All who wait in an entry are waiting for its latest update, or for one that
\* it has replaced.
Replaced ==
    \A k \in DOMAIN entry : \A w \in entry[k].waiting :
        w.id = entry[k].latest.id \/ w.id \in superseded

\* The update is in the database, or will be, or nobody misses it.
Kept(id) ==
    \/ id \in written \cup superseded \cup lost
    \/ WillFlush(id)
    \/ BlockOf[ops[id].field] \in deleted
Safe(id) == id \in 1 .. Len(ops) /\ (ops[id].kind = "set" => Kept(id))

LEMMA ReplacedStep ==
    ASSUME Typed, Once, Replaced, [Next]_vars
    PROVE  Replaced'
<1>1. ASSUME NEW k \in DOMAIN entry', NEW w \in entry'[k].waiting
      PROVE  w.id = entry'[k].latest.id \/ w.id \in superseded'
    <2>1. superseded \subseteq superseded'
        BY HistoriesGrow
    <2>2. CASE Same(k)
        BY <1>1, <2>1, <2>2 DEF Same, Replaced
    <2>3. CASE Joined(k)
        <3>1. PICK m \in sent :
                  /\ entry'[k] = [latest |-> m, waiting |-> Waiting(k, m), timer |-> "held"]
                  /\ superseded' = superseded \cup ({entry[k].latest.id} \ {m.id})
            BY <2>3 DEF Joined
        <3>2. w = m \/ (w \in entry[k].waiting /\ w.id # m.id)
            BY <1>1, <3>1 DEF Waiting
        <3> QED BY <2>3, <3>1, <3>2 DEF Joined, Replaced
    <2>4. CASE Opened(k)
        BY <1>1, <2>4 DEF Opened
    <2> QED BY <2>2, <2>3, <2>4, EntryChanges
<1> QED BY <1>1 DEF Replaced

(* A running flush writes its update, or is the one that lets go of it. *)
LEMMA FlushKeeps ==
    ASSUME Typed, Moved, Ended, [Next]_vars, NEW x \in flush
    PROVE  Kept(x.of.id)'
<1>1. FieldOf(x.of)' = FieldOf(x.of)
    BY AskedGrows DEF Typed, Moved, ServerInv, FlushTypes, Flights, Updates
<1>2. written \subseteq written' /\ lost \subseteq lost' /\ deleted \subseteq deleted'
    BY HistoriesGrow
<1>3. CASE \E y \in flush' : y.of = x.of
    BY <1>3 DEF Kept, WillFlush
<1>4. CASE ~ \E y \in flush' : y.of = x.of
    <2>1. x \notin flush'
        BY <1>4
    <2>2. PICK z \in flush : Read(z) \/ Write(z) \/ Answer(z) \/ FlushFails(z)
        <3>1. ASSUME NEW c \in Clients,
                     Client(c) \/ Receive(c) \/ Disconnect(c) \/ \E id : Timeout(c, id)
              PROVE  flush' = flush
            BY <3>1 DEF Client, Receive, Timeout, Disconnect, serverVars
        <3>2. ASSUME NEW m \in sent, Handler(m) PROVE flush' = flush
            BY <3>2 DEF Handler, Merge, Ignore, Refuse, Persist, PersistFails
        <3>3. ASSUME NEW m \in removing, Announce(m) PROVE flush' = flush
            BY <3>3 DEF Announce
        <3>4. ASSUME NEW k \in DOMAIN entry, Timer(k) PROVE flush \subseteq flush'
            BY <3>4 DEF Timer
        <3>5. ASSUME UNCHANGED vars \/ \E b \in Blocks : ToggleLock(b) PROVE flush' = flush
            BY <3>5 DEF vars, serverVars, ToggleLock
        <3> QED BY <2>1, <3>1, <3>2, <3>3, <3>4, <3>5 DEF Next
    <2>3. x \in Flights
        BY DEF Typed, ServerInv, FlushTypes
    <2>4. ~ Read(z)
        <3>1. SUFFICES ASSUME Read(z) PROVE FALSE
            OBVIOUS
        <3>2. z = x
            BY <2>1, <3>1 DEF Read
        <3>3. /\ [x EXCEPT !.step = "missing"].of = x.of
              /\ [x EXCEPT !.step = "locked"].of = x.of
              /\ [x EXCEPT !.step = "writes", !.seen = store].of = x.of
            BY <2>3 DEF Flights
        <3>4. PICK y \in flush' : y.of = x.of
            BY <3>1, <3>2, <3>3 DEF Read
        <3> QED BY <1>4, <3>4
    <2>5. ~ Write(z)
        <3>1. SUFFICES ASSUME Write(z) PROVE FALSE
            OBVIOUS
        <3>2. z = x
            BY <2>1, <3>1 DEF Write
        <3>3. [x EXCEPT !.step = "done", !.seen = <<>>].of = x.of
            BY <2>3 DEF Flights
        <3>4. PICK y \in flush' : y.of = x.of
            BY <3>1, <3>2, <3>3 DEF Write
        <3> QED BY <1>4, <3>4
    <2>6. CASE FlushFails(z)
        <3>1. x = z /\ x.of.id \in lost'
            BY <2>1, <2>6 DEF FlushFails
        <3> QED BY <3>1 DEF Kept
    <2>7. CASE Answer(z)
        <3>1. x = z /\ x.step \in {"done", "locked", "missing"}
            BY <2>1, <2>7 DEF Answer
        <3>2. x.of.id \in written \cup lost \/ BlockOf[FieldOf(x.of)] \in deleted
            BY <3>1 DEF Ended
        <3> QED BY <1>1, <1>2, <3>2 DEF Kept, FieldOf
    <2> QED BY <2>2, <2>4, <2>5, <2>6, <2>7
<1> QED BY <1>3, <1>4

(* So does a timer that holds an entry. *)
LEMMA TimerKeeps ==
    ASSUME NEW k \in DOMAIN entry, NEW id, Typed, Once, [Next]_vars,
           entry[k].timer = "held", entry[k].latest.id = id
    PROVE  Kept(id)'
<1>1. CASE Timer(k)
    <2>1. k # None
        BY NoneIsNoMessage DEF Typed, ServerInv, EntryTypes, Updates, Asked
    <2>2. PICK y : y = [entry |-> k, of |-> entry[k].latest, by |-> k, step |-> "reads", seen |-> <<>>]
        OBVIOUS
    <2>3. y \in flush' /\ y.of.id = id
        BY <1>1, <2>1, <2>2 DEF Timer
    <2> QED BY <2>3 DEF Kept, WillFlush
<1>2. CASE ~ Timer(k)
    <2>1. k \in DOMAIN entry'
        BY <1>2, EntryStays
    <2>2. CASE Same(k)
        <3>1. entry'[k].latest.id = id /\ entry'[k].timer = "held"
            BY <1>2, <2>2 DEF Same
        <3> QED BY <2>1, <3>1 DEF Kept, WillFlush
    <2>3. CASE Joined(k)
        <3>1. PICK m \in sent :
                  /\ entry'[k] = [latest |-> m, waiting |-> Waiting(k, m), timer |-> "held"]
                  /\ superseded' = superseded \cup ({entry[k].latest.id} \ {m.id})
            BY <2>3 DEF Joined
        <3>2. CASE id = m.id
            BY <2>1, <3>1, <3>2 DEF Kept, WillFlush
        <3>3. CASE id # m.id
            BY <3>1, <3>3 DEF Kept
        <3> QED BY <3>2, <3>3
    <2> QED BY <2>1, <2>2, <2>3, EntryChanges DEF Opened
<1> QED BY <1>1, <1>2

LEMMA SafeStays ==
    ASSUME NEW id, Typed, Moved, Once, Ended, [Next]_vars, Safe(id)
    PROVE  Safe(id)'
<1>1. id \in 1 .. Len(ops) /\ Len(ops) \in Nat
    BY LenProperties DEF Safe, Typed, ClientInv, ClientTypes
<1>2. ops'[id] = ops[id] /\ id \in 1 .. Len(ops')
    BY <1>1 DEF Moved, OpsGrow
<1>3. ASSUME ops[id].kind = "set" PROVE Kept(id)'
    <2>1. CASE id \in written \cup superseded \cup lost
        BY <2>1, HistoriesGrow DEF Kept
    <2>2. CASE BlockOf[ops[id].field] \in deleted
        BY <1>2, <2>2, HistoriesGrow DEF Kept
    <2>3. ASSUME NEW x \in flush, x.of.id = id PROVE Kept(id)'
        BY <2>3, FlushKeeps
    <2>4. ASSUME NEW k \in DOMAIN entry, entry[k].latest.id = id, entry[k].timer = "held"
          PROVE  Kept(id)'
        BY <2>4, TimerKeeps
    <2> QED BY <1>3, <2>1, <2>2, <2>3, <2>4 DEF Safe, Kept, WillFlush
<1> QED BY <1>2, <1>3 DEF Safe

\* What has been confirmed, or is about to be, is safe; and what a running
\* flush will confirm.
ConfirmedSafe == \A id \in confirmed : Safe(id)
SaidSafe ==
    \A c \in Clients : \A n \in Heard(inbox[c]) : n.type = "confirmed" => Safe(n.id)
WaitingSafe == \A x \in flush : \A w \in entry[x.entry].waiting : Safe(w.id)
AllSafe == ConfirmedSafe /\ SaidSafe /\ WaitingSafe

LEMMA WaitingSafeStep ==
    ASSUME Typed, Typed', Moved, Once, Ended, Replaced, [Next]_vars, WaitingSafe
    PROVE  WaitingSafe'
<1> SUFFICES ASSUME NEW y \in flush', NEW w \in entry'[y.entry].waiting
             PROVE  Safe(w.id)'
    BY DEF WaitingSafe
<1> DEFINE k == y.entry
<1>1. k \in DOMAIN entry' /\ w \in Updates'
    BY DEF Typed, ServerInv, FlushTypes, EntryTypes, Slots
<1>2. w.id \in 1 .. Len(ops')
    <2>1. w.id \in Ids /\ w.id <= Len(ops') /\ Len(ops') \in Nat
        BY <1>1, LenProperties DEF Updates, Asked, Message, Typed, ClientInv, ClientTypes
    <2> QED BY <2>1, QueueConstants DEF Ids
<1>3. Ran(y) \/ Begun(y)
    BY FlushChanges
<1>4. CASE Same(k)
    <2>1. w \in entry[k].waiting /\ k \in DOMAIN entry
        BY <1>4 DEF Same
    <2>2. CASE Ran(y)
        <3>1. Safe(w.id)
            BY <2>1, <2>2 DEF Ran, WaitingSafe
        <3> QED BY <3>1, SafeStays
    <2>3. CASE Begun(y)
        <3>1. CASE w.id = entry[k].latest.id
            <4>1. y.of.id = w.id
                BY <2>3, <3>1 DEF Begun
            <4> QED BY <1>2, <4>1 DEF Safe, Kept, WillFlush
        <3>2. CASE w.id \in superseded
            <4>1. w.id \in superseded'
                BY <3>2, HistoriesGrow
            <4> QED BY <1>2, <4>1 DEF Safe, Kept
        <3> QED BY <2>1, <3>1, <3>2 DEF Replaced
    <2> QED BY <1>3, <2>2, <2>3
<1>5. CASE Joined(k)
    <2>1. PICK m \in sent :
              entry'[k] = [latest |-> m, waiting |-> Waiting(k, m), timer |-> "held"]
        BY <1>5 DEF Joined
    <2>2. CASE w = m
        <3>1. entry'[k].latest.id = w.id /\ entry'[k].timer = "held"
            BY <2>1, <2>2
        <3> QED BY <1>1, <1>2, <3>1 DEF Safe, Kept, WillFlush
    <2>3. CASE w \in entry[k].waiting
        <3>1. y \in flush
            BY <1>5 DEF Joined
        <3>2. Safe(w.id)
            BY <2>3, <3>1 DEF WaitingSafe
        <3> QED BY <3>2, SafeStays
    <2> QED BY <2>1, <2>2, <2>3 DEF Waiting
<1>6. CASE Opened(k)
    <2>1. y \in flush /\ k \notin DOMAIN entry
        BY <1>6 DEF Opened
    <2> QED BY <2>1 DEF Typed, ServerInv, FlushTypes
<1> HIDE DEF k
<1> QED BY <1>1, <1>4, <1>5, <1>6, EntryChanges

\* The confirmations of this step are for operations of S.
Says(S) ==
    \A c \in Clients : \A n \in Heard(inbox'[c]) :
        n.type = "confirmed" => n \in Heard(inbox[c]) \/ n.id \in {m.id : m \in S}

LEMMA TellSays ==
    ASSUME NEW R, NEW news, NEW S, NEW answer, InboxTypes, Tell(R, news, S, answer),
           S \subseteq Asked, answer \in {Yes, No, Never},
           R = {} \/ news \in Notices, news.type # "confirmed"
    PROVE  Says(IF answer = Yes THEN S ELSE {})
<1> SUFFICES ASSUME NEW c \in Clients, NEW n \in Heard(inbox'[c]), n.type = "confirmed"
             PROVE  \/ n \in Heard(inbox[c])
                    \/ n.id \in {m.id : m \in IF answer = Yes THEN S ELSE {}}
    BY DEF Says
<1>1. n \in Heard(inbox[c]) \/ \E m \in S : n = answer[m.id]
    <2>1. answer \in [Ids -> Notices] /\ (c \in R => news \in Notices)
        BY AnswersTyped
    <2>2. Tells(R, news, S, answer, c)
        BY <2>1, Told
    <2>3. n # news
        OBVIOUS
    <2> QED BY <2>2, <2>3 DEF Tells
<1>2. ASSUME NEW m \in S, n = answer[m.id]
      PROVE  answer = Yes /\ n.id = m.id
    <2>1. m.id \in Ids
        BY DEF Asked, Message
    <2>2. No[m.id].type = "failed" /\ Never[m.id].type = "failed" /\ Yes[m.id].id = m.id
        BY <2>1 DEF Yes, No, Never
    <2> QED BY <1>2, <2>2
<1> QED BY <1>1, <1>2

LEMMA FlushSays ==
    ASSUME Typed, NEW x \in flush, Read(x) \/ Write(x) \/ Answer(x) \/ FlushFails(x)
    PROVE  Says(entry[x.entry].waiting)
<1>1. entry[x.entry].waiting \subseteq Asked
    BY FlushFacts DEF Typed, Updates
<1>2. CASE Read(x) \/ Write(x)
    BY <1>2 DEF Read, Write, queueVars, Says
<1>3. CASE Answer(x)
    <2>1. PICK news : news = [type |-> "value", field |-> FieldOf(x.of), value |-> ops[x.of.id].value]
        OBVIOUS
    <2>2. news \in Notices /\ news.type # "confirmed"
        BY <2>1, FlushFacts DEF Typed, Notices
    <2>3. Silence.type # "confirmed"
        BY DEF Silence
    <2>4. CASE Tell(Clients \ Senders(x), news, entry[x.entry].waiting, Yes)
        BY <1>1, <2>2, <2>4, TellSays DEF Typed
    <2>5. ASSUME NEW answer \in {Yes, No}, Tell({}, Silence, entry[x.entry].waiting, answer)
          PROVE  Says(entry[x.entry].waiting)
        <3>1. Says({}) \/ Says(entry[x.entry].waiting)
            BY <1>1, <2>3, <2>5, TellSays DEF Typed
        <3> QED BY <3>1 DEF Says
    <2> QED BY <1>3, <2>1, <2>4, <2>5 DEF Answer, Nobody
<1>4. CASE FlushFails(x)
    <2>1. PICK answer \in {No, Never} : Tell({}, Silence, entry[x.entry].waiting, answer)
        BY <1>4 DEF FlushFails, Refusals, Nobody
    <2>2. Silence.type # "confirmed"
        BY DEF Silence
    <2>3. Says({}) \/ Says(entry[x.entry].waiting)
        BY <1>1, <2>1, <2>2, TellSays DEF Typed
    <2> QED BY <2>3 DEF Says
<1> QED BY <1>2, <1>3, <1>4

LEMMA HandlerSays ==
    ASSUME Typed, NEW m \in sent, Handler(m)
    PROVE  Says({})
<1>1. m \in Asked /\ Silence.type # "confirmed"
    BY DEF Typed, ServerInv, MessageTypes, Silence
<1>2. CASE Merge(m) \/ Ignore(m) \/ Persist(m)
    BY <1>2 DEF Merge, Ignore, Persist, Says
<1>3. ASSUME NEW answer \in {No, Never}, Tell({}, Silence, {m}, answer)
      PROVE  Says({})
    <2>1. answer # Yes
        <3>1. m.id \in Ids
            BY <1>1 DEF Asked, Message
        <3>2. Yes[m.id].type # No[m.id].type /\ Yes[m.id].type # Never[m.id].type
            BY <3>1 DEF Yes, No, Never
        <3> QED BY <3>2
    <2> QED BY <1>1, <1>3, <2>1, TellSays DEF Typed
<1>4. CASE Refuse(m)
    BY <1>3, <1>4 DEF Refuse, Nobody
<1>5. CASE PersistFails(m)
    BY <1>3, <1>5 DEF PersistFails, Nobody
<1> QED BY <1>2, <1>4, <1>5 DEF Handler

LEMMA AnnounceSays ==
    ASSUME Typed, NEW m \in removing, Announce(m)
    PROVE  Says({m})
<1>1. m \in Asked /\ ops[m.id].kind = "remove"
    BY DEF Typed, ServerInv, MessageTypes
<1>2. PICK news : news = [type |-> "removed", block |-> ops[m.id].block]
    OBVIOUS
<1>3. news \in Notices /\ news.type # "confirmed"
    BY <1>1, <1>2, OperationFacts DEF Typed, Notices
<1>4. Tell(Clients \ {Owner(m)}, news, {m}, Yes)
    BY <1>2 DEF Announce
<1> QED BY <1>1, <1>3, <1>4, TellSays DEF Typed

LEMMA ReceiveSays ==
    ASSUME Typed, NEW c \in Clients, Receive(c)
    PROVE  Says({})
<1>1. inbox[c] \in Seq(Notices) /\ inbox[c] # <<>> /\ inbox' = [inbox EXCEPT ![c] = Tail(@)]
    BY DEF Receive, Typed, InboxTypes
<1>2. PICK s \in Seq(Notices) : s = inbox[c]
    BY <1>1
<1>3. /\ Tail(s) \in Seq(Notices) /\ Len(Tail(s)) = Len(s) - 1 /\ Len(s) \in Nat
      /\ \A i \in 1 .. Len(Tail(s)) : Tail(s)[i] = s[i + 1]
    BY <1>1, <1>2, HeadTailProperties, LenProperties
<1>4. Heard(Tail(s)) \subseteq Heard(s)
    <2>1. ASSUME NEW i \in 1 .. Len(Tail(s)) PROVE Tail(s)[i] \in Heard(s)
        <3>1. i + 1 \in 1 .. Len(s)
            BY <1>3
        <3> QED BY <1>3, <3>1 DEF Heard
    <2> QED BY <2>1 DEF Heard
<1>5. ASSUME NEW d \in Clients PROVE Heard(inbox'[d]) \subseteq Heard(inbox[d])
    <2>1. CASE d = c
        <3>1. inbox'[d] = Tail(s)
            BY <1>1, <1>2, <2>1 DEF Typed, InboxTypes
        <3> QED BY <1>2, <1>4, <2>1, <3>1
    <2>2. CASE d # c
        <3>1. inbox'[d] = inbox[d]
            BY <1>1, <2>2 DEF Typed, InboxTypes
        <3> QED BY <3>1
    <2> QED BY <2>1, <2>2
<1> QED BY <1>5 DEF Says

LEMMA ConfirmedGrows ==
    ASSUME Typed, [Next]_vars, NEW id \in confirmed'
    PROVE  id \in confirmed \/ \E c \in Clients : \E n \in Heard(inbox[c]) :
                                   n.type = "confirmed" /\ n.id = id
<1>1. ASSUME NEW c \in Clients, Client(c) \/ Disconnect(c) \/ \E i : Timeout(c, i)
      PROVE  confirmed' = confirmed
    BY <1>1 DEF Client, SetValue, RemoveBlock, Retries, Rejoin, Unregister, Register,
                Disconnect, Timeout, TimesOut
<1>2. ASSUME NEW c \in Clients, Receive(c), id \notin confirmed
      PROVE  \E n \in Heard(inbox[c]) : n.type = "confirmed" /\ n.id = id
    <2>1. inbox[c] \in Seq(Notices) /\ inbox[c] # <<>>
        BY <1>2 DEF Receive, Typed, InboxTypes
    <2>2. PICK n : n = Head(inbox[c])
        OBVIOUS
    <2>3. n \in Heard(inbox[c])
        <3>1. Len(inbox[c]) \in Nat /\ Len(inbox[c]) # 0 /\ n = inbox[c][1]
            BY <2>1, <2>2, EmptySeq, LenProperties, HeadTailProperties
        <3> QED BY <3>1 DEF Heard
    <2>4. HearsConfirmed(c, n)
        BY <1>2, <2>2 DEF Receive, HearsFailed, HearsValue, HearsRemoved
    <2> QED BY <1>2, <2>3, <2>4 DEF HearsConfirmed
<1>3. ASSUME NEW m \in sent, Handler(m) PROVE confirmed' = confirmed
    BY <1>3 DEF Handler, Merge, Ignore, Refuse, Persist, PersistFails
<1>4. ASSUME NEW m \in removing, Announce(m) PROVE confirmed' = confirmed
    BY <1>4 DEF Announce
<1>5. ASSUME NEW k \in DOMAIN entry, Timer(k) PROVE confirmed' = confirmed
    BY <1>5 DEF Timer, queueVars
<1>6. ASSUME NEW x \in flush, Read(x) \/ Write(x) \/ Answer(x) \/ FlushFails(x)
      PROVE  confirmed' = confirmed
    BY <1>6 DEF Read, Write, Answer, FlushFails, queueVars
<1>7. ASSUME UNCHANGED vars \/ \E b \in Blocks : ToggleLock(b) PROVE confirmed' = confirmed
    BY <1>7 DEF vars, queueVars, ToggleLock
<1> QED BY <1>1, <1>2, <1>3, <1>4, <1>5, <1>6, <1>7 DEF Next

LEMMA SaidSafeStep ==
    ASSUME Typed, Moved, Once, Ended, [Next]_vars, SaidSafe, WaitingSafe
    PROVE  SaidSafe'
<1> DEFINE AllOf(S) == \A m \in S : Safe(m.id)
<1>1. PICK S : Says(S) /\ AllOf(S)
    <2>1. ASSUME NEW x \in flush, Read(x) \/ Write(x) \/ Answer(x) \/ FlushFails(x)
          PROVE  Says(entry[x.entry].waiting) /\ AllOf(entry[x.entry].waiting)
        BY <2>1, FlushSays DEF WaitingSafe
    <2>2. ASSUME NEW m \in removing, Announce(m) PROVE Says({m}) /\ AllOf({m})
        <3>1. m \in Asked /\ ops[m.id].kind = "remove"
            BY DEF Typed, ServerInv, MessageTypes
        <3>2. m.id \in 1 .. Len(ops) /\ ops[m.id].kind # "set"
            BY <3>1, OperationFacts DEF Typed
        <3> QED BY <2>2, <3>2, AnnounceSays DEF Safe
    <2>3. ASSUME NEW m \in sent, Handler(m) PROVE Says({})
        BY <2>3, HandlerSays
    <2>4. ASSUME NEW c \in Clients, Receive(c) PROVE Says({})
        BY <2>4, ReceiveSays
    <2>5. ASSUME NEW c \in Clients, Client(c) \/ \E id : Timeout(c, id) PROVE Says({})
        <3>1. inbox' = inbox
            BY <2>5 DEF Client, SetValue, RemoveBlock, Retries, Rejoin, Unregister, Register,
                        Timeout, TimesOut
        <3> QED BY <3>1 DEF Says
    <2>6. ASSUME NEW c \in Clients, Disconnect(c) PROVE Says({})
        <3>1. inbox' = [inbox EXCEPT ![c] = <<>>]
            BY <2>6 DEF Disconnect
        <3>2. \A d \in Clients : inbox'[d] = inbox[d] \/ inbox'[d] = <<>>
            BY <3>1 DEF Typed, InboxTypes
        <3>3. Heard(<<>>) = {}
            BY DEF Heard
        <3> QED BY <3>2, <3>3 DEF Says
    <2>7. ASSUME NEW k \in DOMAIN entry, Timer(k) PROVE Says({})
        BY <2>7 DEF Timer, queueVars, Says
    <2>8. ASSUME UNCHANGED vars \/ \E b \in Blocks : ToggleLock(b) PROVE Says({})
        BY <2>8 DEF vars, queueVars, ToggleLock, Says
    <2>9. AllOf({})
        OBVIOUS
    <2> HIDE DEF AllOf
    <2> QED BY <2>1, <2>2, <2>3, <2>4, <2>5, <2>6, <2>7, <2>8, <2>9 DEF Next
<1>2. ASSUME NEW c \in Clients, NEW n \in Heard(inbox'[c]), n.type = "confirmed"
      PROVE  Safe(n.id)'
    <2>1. Safe(n.id)
        BY <1>1, <1>2 DEF Says, SaidSafe
    <2> QED BY <2>1, SafeStays
<1> QED BY <1>2 DEF SaidSafe, Heard

\* The inductive invariant.
ServerSettled == Typed /\ Newer /\ Once /\ Ended /\ Replaced /\ AllSafe

LEMMA SettledInit ==
    ASSUME Init
    PROVE  ServerSettled
<1>1. Typed
    BY TypedInit
<1>2. /\ sent = {} /\ DOMAIN entry = {} /\ flush = {} /\ confirmed = {}
      /\ inbox = [c \in Clients |-> <<>>]
    BY DEF Init, QueueInit
<1>3. \A c \in Clients : Heard(inbox[c]) = {}
    BY <1>2 DEF Heard
<1>4. Newer /\ Once /\ Ended /\ Replaced
    BY <1>2 DEF Newer, Once, Ended, Replaced
<1>5. AllSafe
    BY <1>2, <1>3 DEF AllSafe, ConfirmedSafe, SaidSafe, WaitingSafe
<1> QED BY <1>1, <1>2, <1>4, <1>5 DEF ServerSettled

LEMMA SettledStep ==
    ASSUME ServerSettled, [Next]_vars
    PROVE  ServerSettled'
<1>1. Typed' /\ Moved
    BY TypedStep DEF ServerSettled
<1>2. Newer' /\ Once'
    BY <1>1, EntriesComeStep, OnceStep DEF ServerSettled
<1>3. Ended' /\ Replaced'
    BY <1>1, EndedStep, ReplacedStep DEF ServerSettled
<1>4. ConfirmedSafe /\ SaidSafe /\ WaitingSafe
    BY DEF ServerSettled, AllSafe
<1>5. ASSUME NEW id \in confirmed' PROVE Safe(id)'
    <2>1. Safe(id)
        BY <1>4, ConfirmedGrows DEF ServerSettled, ConfirmedSafe, SaidSafe
    <2> QED BY <1>1, <2>1, SafeStays DEF ServerSettled
<1>6. SaidSafe' /\ WaitingSafe'
    BY <1>1, <1>4, SaidSafeStep, WaitingSafeStep DEF ServerSettled
<1> QED BY <1>1, <1>2, <1>3, <1>5, <1>6 DEF ServerSettled, AllSafe, ConfirmedSafe

(* An update that a client takes to be confirmed has been written, has been  *)
(* replaced by a later one of its entry, will still be flushed, or has lost  *)
(* its block; or its own flush found the block locked, was refused or failed *)
(* - also when it joined the entry while the flush that confirms it was      *)
(* running.                                                                  *)
THEOREM ConfirmedStays == Spec => []ConfirmedIsKept
<1>1. Init => ServerSettled
    BY SettledInit
<1>2. ServerSettled /\ [Next]_vars => ServerSettled'
    BY SettledStep
<1>3. ServerSettled => ConfirmedIsKept
    BY DEF ServerSettled, AllSafe, ConfirmedSafe, Safe, Kept, ConfirmedIsKept
<1> QED BY <1>1, <1>2, <1>3, PTL DEF Spec
=============================================================================
