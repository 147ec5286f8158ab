--------------------------- MODULE AgreementProofs ---------------------------
(* Proof that, in Realtime, views and database agree in the end about what   *)
(* one client alone has edited (SingleWriterAgrees), for any clients, blocks *)
(* and fields. A client that shares no field sends one operation at a time   *)
(* (Serial), each is in one place on its way (Letters, Filed, Answers), and  *)
(* nobody writes the rows between its reading and its writing them; so each  *)
(* value goes through queue, entry, flush and inboxes unmixed (FieldValues). *)
EXTENDS RealtimeProofs

\* Nothing has been late, lost, refused, locked or removed, and no flush has failed.
Undisturbed == faults = 0 /\ errors = 0 /\ Removes = {}

Counted == faults \in Nat /\ errors \in Nat

\* An entry and its flush are about the field of the message that opened it.
OneField ==
    /\ \A k \in DOMAIN entry :
          /\ FieldOf(entry[k].latest) = FieldOf(k)
          /\ \A w \in entry[k].waiting : FieldOf(w) = FieldOf(k)
    /\ \A x \in flush : FieldOf(x.of) = FieldOf(x.entry)

\* What is told of a field has been written by someone.
NewsHasWriter ==
    \A c \in Clients : \A n \in Heard(inbox[c]) : n.type = "value" => Writers(n.field) # {}

\* Undisturbed, every socket is the first of its client, and nothing fails.
Peace ==
    /\ \A c \in Clients : joined[c] /\ registered[c] /\ session[c] = 0
    /\ deleted = {} /\ locked = {} /\ removing = {}
    /\ \A m \in sent : m.at = 0
    /\ \A k \in DOMAIN entry : \A w \in entry[k].waiting : w.at = 0
    /\ \A x \in flush : x.step \notin {"missing", "locked"}
    /\ \A c \in Clients : \A n \in Heard(inbox[c]) : n.type \in {"confirmed", "value"}

\* The steps that then remain.
QuietNext ==
    \/ \E c \in Clients : \E f \in Fields, v \in Values : SetValue(c, f, v) /\ UNCHANGED serverVars
    \/ \E c \in Clients : \E id : Retries(c, id) /\ UNCHANGED serverVars
    \/ \E c \in Clients : \E id : TimesOut(c, id) /\ ~ Answered(c, id) /\ UNCHANGED serverVars
    \/ \E c \in Clients : Receive(c)
    \/ \E m \in sent : Merge(m)
    \/ \E k \in DOMAIN entry : Timer(k)
    \/ \E x \in flush : Read(x) \/ Write(x) \/ (Answer(x) /\ x.step = "done")
    \/ UNCHANGED vars

-----------------------------------------------------------------------------
(* One operation at a time.                                                  *)

\* The queue is busy while one is in flight, which is older than what waits.
Orderly(k) ==
    /\ k.retries = {}
    /\ InFlight(k) # {} => k.busy
    /\ \A e \in InFlight(k) : InFlight(k) = {e} /\ \A d \in Pending(k) : e.id < d.id

\* The message that carries an operation in flight, and where a client's are.
Letter(e) == [id |-> e.id, try |-> e.try, at |-> 0]
Letters(c) == {m \in sent : Owner(m) = c}
Filed(c) == {k \in DOMAIN entry : Owner(k) = c}
Answers(c) == {i \in 1 .. Len(inbox[c]) : inbox[c][i].type = "confirmed"}
FlushesOf(k) == {x \in flush : x.entry = k}

\* It alone is in its entry, before its timer has fired or while it is flushed.
AloneInEntry(m) ==
    /\ pending[FieldOf(m)] = m
    /\ entry[m].latest = m /\ entry[m].waiting = {m}
    /\ \/ entry[m].timer = "lookup" /\ FlushesOf(m) = {}
       \/ entry[m].timer = "off" /\ \E x \in flush : FlushesOf(m) = {x} /\ x.of = m

NoneSent(c) == InFlight(client[c]) = {} /\ Letters(c) = {} /\ Filed(c) = {} /\ Answers(c) = {}
OnItsWay(c, m) == Letters(c) = {m} /\ Filed(c) = {} /\ Answers(c) = {}
InItsEntry(c, m) == Letters(c) = {} /\ Filed(c) = {m} /\ Answers(c) = {} /\ AloneInEntry(m)
IsAnswered(c, m) ==
    /\ Letters(c) = {} /\ Filed(c) = {}
    /\ \E i \in 1 .. Len(inbox[c]) : Answers(c) = {i} /\ inbox[c][i].id = m.id

Serial(c) ==
    /\ Orderly(client[c])
    /\ \/ NoneSent(c)
       \/ \E e \in InFlight(client[c]) :
             \/ OnItsWay(c, Letter(e))
             \/ InItsEntry(c, Letter(e))
             \/ IsAnswered(c, Letter(e))

-----------------------------------------------------------------------------
(* The values of a field.                                                    *)

IsNews(n, f) == n.type = "value" /\ n.field = f

\* What will be shown, by one that shows w now, once q has been heard.
WillShow(q, w, f, v) ==
    \/ w = v /\ \A i \in 1 .. Len(q) : ~ IsNews(q[i], f)
    \/ \E i \in 1 .. Len(q) :
          /\ IsNews(q[i], f) /\ q[i].value = v
          /\ \A j \in 1 .. Len(q) : j > i => ~ IsNews(q[j], f)

IsLast(i, f) == i \in Sets(f) /\ \A j \in Sets(f) : j <= i

\* A flush that is about to write the row has read it as it is.
RowIsRead(f) ==
    \A x \in flush : BlockOf[FieldOf(x.of)] = BlockOf[f] /\ x.step = "writes" =>
        \A g \in Fields : BlockOf[g] = BlockOf[f] => x.seen[g] = store[g]
\* What a flush has written, and what an answer is about, is stored.
DoneIsStored(f) ==
    \A x \in flush : FieldOf(x.of) = f /\ x.step = "done" => store[f] = ops[x.of.id].value
AnswerIsStored(f) ==
    \A c \in Writers(f) : \A i \in Answers(c) :
        inbox[c][i].id \in Sets(f) => store[f] = ops[inbox[c][i].id].value
\* Who edits the field shows the last edit and hears nothing of it.
WriterShows(f) ==
    /\ \A i \in Sets(f) : IsLast(i, f) => view[ops[i].by][f] = ops[i].value
    /\ \A c \in Writers(f) : \A n \in Heard(inbox[c]) : ~ IsNews(n, f)
\* The last edit is stored, unless it is still in the queue.
LastIsStored(f) ==
    SkippedOn(f) = {} => \A i \in Sets(f) : IsLast(i, f) =>
        \/ i \in Queued(client[ops[i].by])
        \/ store[f] = ops[i].value /\ Queued(client[ops[i].by]) \cap Sets(f) = {}
\* The others will show what is stored, once a flush has told them.
OthersShow(f) ==
    (\A x \in flush : FieldOf(x.of) = f => x.step # "done") =>
        \A d \in Clients \ Writers(f) : WillShow(inbox[d], view[d][f], f, store[f])

FieldValues(f) ==
    /\ RowIsRead(f) /\ DoneIsStored(f) /\ AnswerIsStored(f)
    /\ WriterShows(f) /\ LastIsStored(f) /\ OthersShow(f)

Agreeing ==
    Undisturbed =>
        /\ Peace /\ OneField /\ NewsHasWriter
        /\ \A c \in Clients : SharesNone(c) => Serial(c)
        /\ \A f \in Fields : Owned(f) => FieldValues(f)

-----------------------------------------------------------------------------
(* Undisturbed, only some steps are left, and they keep the peace.           *)

LEMMA UndisturbedBefore ==
    ASSUME Typed, Counted, Moved, [Next]_vars
    PROVE  Counted' /\ (Undisturbed' => Undisturbed)
<1>1. faults' \in {faults, faults + 1} /\ errors' \in {errors, errors + 1}
    <2>1. ASSUME NEW c \in Clients,
                 Client(c) \/ Receive(c) \/ Disconnect(c) \/ \E id : Timeout(c, id)
          PROVE  faults' \in {faults, faults + 1} /\ errors' = errors
        BY <2>1 DEF Client, Receive, Timeout, Disconnect, serverVars
    <2>2. ASSUME NEW m \in sent, Handler(m)
          PROVE  faults' \in {faults, faults + 1} /\ errors' \in {errors, errors + 1}
        BY <2>2 DEF Handler, Merge, Ignore, Refuse, Persist, PersistFails
    <2>3. ASSUME NEW m \in removing, Announce(m) PROVE faults' = faults /\ errors' = errors
        BY <2>3 DEF Announce
    <2>4. ASSUME NEW k \in DOMAIN entry, Timer(k) PROVE faults' = faults /\ errors' = errors
        BY <2>4 DEF Timer
    <2>5. ASSUME NEW x \in flush, Read(x) \/ Write(x) \/ Answer(x) \/ FlushFails(x)
          PROVE  faults' = faults /\ errors' \in {errors, errors + 1}
        BY <2>5 DEF Read, Write, Answer, FlushFails
    <2>6. ASSUME UNCHANGED vars PROVE faults' = faults /\ errors' = errors
        BY <2>6 DEF vars, serverVars
    <2>7. ASSUME NEW b \in Blocks, ToggleLock(b) PROVE faults' = faults + 1 /\ errors' = errors
        BY <2>7 DEF ToggleLock
    <2> QED BY <2>1, <2>2, <2>3, <2>4, <2>5, <2>6, <2>7 DEF Next
<1>3. Removes \subseteq Removes'
    <2>1. Len(ops) \in Nat /\ Len(ops') \in {Len(ops), Len(ops) + 1}
        BY LenProperties DEF Moved, OpsGrow, Typed, ClientInv, ClientTypes
    <2>2. \A i \in 1 .. Len(ops) : i \in 1 .. Len(ops') /\ ops'[i] = ops[i]
        BY <2>1 DEF Moved, OpsGrow
    <2> QED BY <2>2 DEF Removes
<1> QED BY <1>1, <1>3 DEF Counted, Undisturbed

(* Who is connected gets what is sent to it. *)
LEMMA PeaceAlive ==
    ASSUME Typed, Peace, NEW m \in Asked, m.at = 0
    PROVE  Alive(m)
BY OperationFacts DEF Typed, Peace, Alive

LEMMA QuietStep ==
    ASSUME Typed, Counted, Moved, Peace, Undisturbed', [Next]_vars
    PROVE  QuietNext
<1>0. /\ faults' = 0 /\ errors' = 0 /\ faults \in Nat /\ errors \in Nat
      /\ Len(ops') \in Nat /\ \A i \in 1 .. Len(ops') : ops'[i].kind # "remove"
    <2>1. ops' \in Seq(Operation)
        BY DEF Moved, ClientInv, ClientTypes
    <2> QED BY <2>1, LenProperties DEF Undisturbed, Counted, Removes
<1>1. ASSUME NEW c \in Clients, Client(c) PROVE QuietNext
    <2>1. UNCHANGED serverVars
        BY <1>1 DEF Client
    <2>2. ASSUME NEW f \in Fields, NEW v \in Values, SetValue(c, f, v) PROVE QuietNext
        BY <2>1, <2>2 DEF QuietNext
    <2>3. ASSUME NEW b \in Blocks PROVE ~ RemoveBlock(c, b)
        <3>1. SUFFICES ASSUME RemoveBlock(c, b) PROVE FALSE
            OBVIOUS
        <3>2. PICK o : o = [by |-> c, kind |-> "remove", block |-> b]
            OBVIOUS
        <3>3. ops' = Append(ops, o) /\ o.kind = "remove" /\ o \in Operation
            BY <3>1, <3>2 DEF RemoveBlock, Operation
        <3>4. ops \in Seq(Operation)
            BY DEF Typed, ClientInv, ClientTypes
        <3>5. Len(ops') = Len(ops) + 1 /\ ops'[Len(ops) + 1] = o /\ Len(ops) \in Nat
            BY <3>3, <3>4, AppendProperties, LenProperties
        <3> QED BY <1>0, <3>3, <3>5
    <2>4. ASSUME NEW id, Retries(c, id) PROVE QuietNext
        BY <2>1, <2>4 DEF QuietNext
    <2>5. ~ Rejoin(c) /\ ~ Unregister(c) /\ ~ Register(c)
        BY DEF Peace, Rejoin, Unregister, Register
    <2> QED BY <1>1, <2>2, <2>3, <2>4, <2>5 DEF Client
<1>2. ASSUME NEW c \in Clients, NEW id, Timeout(c, id) PROVE QuietNext
    <2>1. ~ Answered(c, id)
        BY <1>0, <1>2 DEF Timeout
    <2>2. TimesOut(c, id) /\ UNCHANGED serverVars
        BY <1>2, <2>1 DEF Timeout, serverVars
    <2> QED BY <2>1, <2>2 DEF QuietNext
<1>3. ASSUME NEW c \in Clients PROVE ~ Disconnect(c)
    BY <1>0 DEF Disconnect
<1>4. ASSUME NEW m \in sent, Handler(m) PROVE Merge(m)
    <2>1. m \in Asked /\ m.at = 0
        BY DEF Peace, Typed, ServerInv, MessageTypes
    <2>2. ~ Ignore(m)
        BY <1>0, <2>1, PeaceAlive DEF Ignore
    <2>3. ~ Refuse(m) /\ ~ PersistFails(m)
        BY <1>0 DEF Refuse, PersistFails
    <2>4. ~ Persist(m)
        <3>1. ops' = ops => ops[m.id].kind # "remove"
            BY <1>0, <2>1, OperationFacts DEF Typed
        <3> QED BY <3>1 DEF Persist
    <2> QED BY <1>4, <2>2, <2>3, <2>4 DEF Handler
<1>5. ASSUME NEW x \in flush, Read(x) \/ Write(x) \/ Answer(x) \/ FlushFails(x)
      PROVE  QuietNext
    <2>1. ~ FlushFails(x)
        BY <1>0 DEF FlushFails
    <2>2. Answer(x) => x.step = "done"
        BY DEF Answer, Peace
    <2> QED BY <1>5, <2>1, <2>2 DEF QuietNext
<1>6. removing = {}
    BY DEF Peace
<1>7. ASSUME NEW b \in Blocks PROVE ~ ToggleLock(b)
    BY <1>0 DEF ToggleLock
<1> QED BY <1>1, <1>2, <1>3, <1>4, <1>5, <1>6, <1>7 DEF Next, QuietNext

-----------------------------------------------------------------------------
(* What is told.                                                             *)

\* The messages r are those of q, then some of T.
Longer(q, r, T) ==
    /\ r \in Seq(Notices) /\ Len(q) \in Nat /\ Len(r) \in Nat /\ Len(q) <= Len(r)
    /\ \A i \in 1 .. Len(q) : r[i] = q[i]
    /\ \A i \in 1 .. Len(r) : i > Len(q) => r[i] \in T

LEMMA LongerByOne ==
    ASSUME NEW q \in Seq(Notices), NEW n \in Notices
    PROVE  LET r == Append(q, n)
           IN  Longer(q, r, {n}) /\ Len(r) = Len(q) + 1 /\ r[Len(q) + 1] = n
<1>1. PICK r : r = Append(q, n)
    OBVIOUS
<1>2. /\ r \in Seq(Notices) /\ Len(q) \in Nat /\ Len(r) = Len(q) + 1
      /\ \A i \in 1 .. Len(q) : r[i] = q[i]
      /\ r[Len(q) + 1] = n
    BY <1>1, AppendProperties, LenProperties
<1>3. ASSUME NEW i \in 1 .. Len(r), i > Len(q) PROVE r[i] = n
    <2>1. i = Len(q) + 1
        BY <1>2, <1>3
    <2> QED BY <1>2, <2>1
<1> QED BY <1>1, <1>2, <1>3 DEF Longer

LEMMA LongerByMore ==
    ASSUME NEW q \in Seq(Notices), NEW t \in Seq(Notices), NEW T,
           \A i \in 1 .. Len(t) : t[i] \in T
    PROVE  /\ Longer(q, q \o t, T)
           /\ Len(t) = 1 => q \o t = Append(q, t[1])
<1>1. PICK r : r = q \o t
    OBVIOUS
<1>2. /\ r \in Seq(Notices) /\ Len(q) \in Nat /\ Len(t) \in Nat /\ Len(r) = Len(q) + Len(t)
      /\ \A i \in 1 .. Len(q) + Len(t) : r[i] = IF i <= Len(q) THEN q[i] ELSE t[i - Len(q)]
    BY <1>1, ConcatProperties, LenProperties
<1>3. ASSUME NEW i \in 1 .. Len(r), i > Len(q) PROVE r[i] \in T
    <2>1. i - Len(q) \in 1 .. Len(t) /\ r[i] = t[i - Len(q)]
        BY <1>2, <1>3
    <2> QED BY <2>1
<1>4. Longer(q, r, T)
    BY <1>2, <1>3 DEF Longer
<1>5. ASSUME Len(t) = 1 PROVE r = Append(q, t[1])
    <2>1. t[1] \in Notices
        <3>1. 1 \in 1 .. Len(t)
            BY <1>5
        <3> QED BY <3>1, ElementOfSeq
    <2>2. PICK a : a = Append(q, t[1])
        OBVIOUS
    <2>3. /\ a \in Seq(Notices) /\ Len(a) = Len(q) + 1
          /\ \A i \in 1 .. Len(q) : a[i] = q[i]
          /\ a[Len(q) + 1] = t[1]
        BY <2>1, <2>2, AppendProperties
    <2>4. ASSUME NEW i \in 1 .. Len(r) PROVE r[i] = a[i]
        <3>1. i <= Len(q) => r[i] = a[i]
            BY <1>2, <2>3
        <3>2. i = Len(q) + 1 => r[i] = a[i]
            BY <1>2, <1>5, <2>3
        <3> QED BY <1>2, <1>5, <3>1, <3>2
    <2> QED BY <1>2, <1>5, <2>2, <2>3, <2>4, SeqEqual
<1> QED BY <1>1, <1>4, <1>5

\* The answers among S that c gets, the broadcast that it hears, and its inbox then.
OwnAmong(S, c) == {m \in S : Owner(m) = c /\ Alive(m)}
Heeds(R, news, c) == IF c \in R /\ joined[c] THEN Append(inbox[c], news) ELSE inbox[c]

LEMMA HeedsLonger ==
    ASSUME NEW R, NEW news, NEW c \in Clients, InboxTypes, c \in R => news \in Notices
    PROVE  /\ Heeds(R, news, c) \in Seq(Notices)
           /\ Longer(inbox[c], Heeds(R, news, c), {news})
           /\ c \notin R => Heeds(R, news, c) = inbox[c]
<1>1. inbox[c] \in Seq(Notices) /\ Len(inbox[c]) \in Nat
    BY LenProperties DEF InboxTypes
<1>2. CASE c \in R /\ joined[c]
    BY <1>1, <1>2, LongerByOne DEF Heeds, Longer
<1>3. CASE ~ (c \in R /\ joined[c])
    BY <1>1, <1>3 DEF Heeds, Longer
<1> QED BY <1>2, <1>3

\* The messages r are those of q, then the answers to own.
IsTold(q, own, answer, r) ==
    /\ own = {} => r = q
    /\ \A m : own = {m} => r = Append(q, answer[m.id])
    /\ Longer(q, r, {answer[m.id] : m \in own})

(* One whose messages are not among S hears the broadcast alone, one with a  *)
(* single message is answered once, and all that is new is for their own.    *)
LEMMA TellGrows ==
    ASSUME NEW R, NEW news, NEW S, NEW answer, NEW c \in Clients, InboxTypes,
           S \subseteq Asked, answer \in [Ids -> Notices], c \in R => news \in Notices,
           Tell(R, news, S, answer)
    PROVE  IsTold(Heeds(R, news, c), OwnAmong(S, c), answer, inbox'[c])
<1> DEFINE own == OwnAmong(S, c)
           heard == Heeds(R, news, c)
           ids == {m.id : m \in own}
           one == CHOOSE f \in [1 .. Cardinality(ids) -> ids] :
                      \A i, j \in DOMAIN f : f[i] = f[j] => i = j
           said == [i \in 1 .. Cardinality(ids) |-> answer[one[i]]]
<1>1. inbox'[c] = IF ids = {} THEN heard ELSE heard \o said
    BY DEF Tell, OwnAmong, Heeds
<1>2. heard \in Seq(Notices) /\ Len(heard) \in Nat
    BY HeedsLonger, LenProperties
<1>3. ids \in SUBSET Ids /\ own \subseteq Asked
    BY DEF Asked, Message, OwnAmong
<1>4. Cardinality(ids) \in Nat /\ one \in [1 .. Cardinality(ids) -> ids]
    <2> HIDE DEF ids
    <2> QED BY <1>3, Ordered
<1> HIDE DEF one
<1>5. /\ said \in Seq(Notices) /\ Len(said) = Cardinality(ids) /\ Len(said) \in Nat
      /\ \A i \in 1 .. Len(said) : said[i] = answer[one[i]] /\ one[i] \in ids
    <2> HIDE DEF ids
    <2> QED BY <1>3, <1>4
<1>6. CASE own = {}
    <2>1. inbox'[c] = heard
        BY <1>1, <1>6
    <2> HIDE DEF heard
    <2>2. Longer(heard, inbox'[c], {answer[m.id] : m \in own})
        BY <1>2, <2>1 DEF Longer
    <2> QED BY <1>6, <2>1, <2>2 DEF heard, IsTold
<1>7. CASE own # {}
    <2>0. ids # {}
        BY <1>7
    <2>1. inbox'[c] = heard \o said
        BY <1>1, <2>0
    <2>2. \A i \in 1 .. Len(said) : said[i] \in {answer[m.id] : m \in own}
        <3>1. \A i \in 1 .. Len(said) : \E m \in own : one[i] = m.id
            <4> HIDE DEF said, own
            <4> QED BY <1>5
        <3> HIDE DEF said, own, ids
        <3> QED BY <1>5, <3>1
    <2> HIDE DEF said, heard
    <2>3. /\ Longer(heard, inbox'[c], {answer[m.id] : m \in own})
          /\ Len(said) = 1 => inbox'[c] = Append(heard, said[1])
        BY <1>2, <1>5, <2>1, <2>2, LongerByMore
    <2>4. ASSUME NEW m, own = {m} PROVE inbox'[c] = Append(heard, answer[m.id])
        <3>1. ids = {m.id}
            BY <2>4
        <3> HIDE DEF ids
        <3>2. Cardinality(ids) = 1
            BY <3>1, FS_Singleton
        <3>3. 1 \in 1 .. Len(said) /\ Len(said) = 1
            BY <1>5, <3>2
        <3>4. said[1] = answer[one[1]] /\ one[1] = m.id
            BY <1>5, <3>1, <3>3
        <3> QED BY <2>3, <3>3, <3>4
    <2> HIDE DEF own
    <2> QED BY <1>7, <2>3, <2>4 DEF own, heard, IsTold
<1> QED BY <1>6, <1>7

\* What those hear who have no update in the entry, and who waits there.
NewsOf(x) == [type |-> "value", field |-> FieldOf(x.of), value |-> ops[x.of.id].value]
WaitsIn(k, c) == {w \in entry[k].waiting : Owner(w) = c}

LEMMA NewsOfTyped ==
    ASSUME Typed, NEW x \in flush
    PROVE  /\ NewsOf(x) \in Notices /\ NewsOf(x).type = "value"
           /\ NewsOf(x).field = FieldOf(x.of) /\ NewsOf(x).value = ops[x.of.id].value
BY FlushFacts DEF Typed, NewsOf, Notices

LEMMA YesTyped ==
    ASSUME NEW m \in Asked
    PROVE  Yes[m.id] \in Notices /\ Yes[m.id].type = "confirmed" /\ Yes[m.id].id = m.id
<1>1. m.id \in Ids
    BY DEF Asked, Message
<1> QED BY <1>1 DEF Yes, Notices

(* The answer of a flush goes to those who wait in its entry, and what it    *)
(* has written to the others.                                                *)
LEMMA AnswerTells ==
    ASSUME Typed, Peace, NEW x \in flush, Answer(x), x.step = "done", NEW c \in Clients
    PROVE  /\ WaitsIn(x.entry, c) = {} => inbox'[c] = Append(inbox[c], NewsOf(x))
           /\ \A m : WaitsIn(x.entry, c) = {m} => inbox'[c] = Append(inbox[c], Yes[m.id])
           /\ WaitsIn(x.entry, c) # {} =>
                 Longer(inbox[c], inbox'[c], {Yes[m.id] : m \in WaitsIn(x.entry, c)})
<1> DEFINE S == entry[x.entry].waiting
           R == Clients \ Senders(x)
           news == NewsOf(x)
<1>1. Tell(R, news, S, Yes)
    BY DEF Answer, NewsOf
<1>2. S \subseteq Asked /\ \A w \in S : w.at = 0
    BY FlushFacts DEF Typed, Updates, Peace
<1>3. \A w \in S : Alive(w)
    BY <1>2, PeaceAlive
<1>4. OwnAmong(S, c) = WaitsIn(x.entry, c)
    BY <1>3 DEF OwnAmong, WaitsIn
<1>5. c \in R <=> WaitsIn(x.entry, c) = {}
    BY <1>3 DEF Senders, WaitsIn
<1>6. news \in Notices /\ InboxTypes /\ joined[c]
    BY NewsOfTyped DEF Typed, Peace
<1> DEFINE heard == Heeds(R, news, c)
<1>7. IsTold(heard, OwnAmong(S, c), Yes, inbox'[c])
    <2>1. c \in R => news \in Notices
        BY <1>6
    <2> HIDE DEF S, R, news
    <2> QED BY <1>1, <1>2, <1>6, <2>1, AnswersTyped, TellGrows
<1> HIDE DEF S, R, news
<1>8. heard = IF c \in R THEN Append(inbox[c], news) ELSE inbox[c]
    BY <1>6 DEF Heeds
<1> HIDE DEF heard
<1> QED BY <1>4, <1>5, <1>7, <1>8 DEF news, IsTold

(* What is received is the first. *)
LEMMA ReceiveTail ==
    ASSUME Typed, NEW c \in Clients, Receive(c)
    PROVE  /\ inbox[c] \in Seq(Notices) /\ Len(inbox[c]) \in Nat /\ 1 \in 1 .. Len(inbox[c])
           /\ Head(inbox[c]) = inbox[c][1]
           /\ Len(inbox'[c]) = Len(inbox[c]) - 1
           /\ \A i \in 1 .. Len(inbox'[c]) :
                 i + 1 \in 1 .. Len(inbox[c]) /\ inbox'[c][i] = inbox[c][i + 1]
           /\ \A d \in Clients \ {c} : inbox'[d] = inbox[d]
<1>1. /\ inbox[c] \in Seq(Notices) /\ inbox[c] # <<>>
      /\ inbox'[c] = Tail(inbox[c]) /\ \A d \in Clients \ {c} : inbox'[d] = inbox[d]
    BY DEF Receive, Typed, InboxTypes
<1>2. PICK s \in Seq(Notices) : s = inbox[c]
    BY <1>1
<1>3. /\ Len(Tail(s)) = Len(s) - 1 /\ Len(s) \in Nat /\ Len(s) # 0 /\ Head(s) = s[1]
      /\ \A i \in 1 .. Len(Tail(s)) : Tail(s)[i] = s[i + 1]
    BY <1>1, <1>2, EmptySeq, HeadTailProperties, LenProperties
<1> QED BY <1>1, <1>2, <1>3

-----------------------------------------------------------------------------
(* The peace is kept.                                                        *)

LEMMA QuietKeeps ==
    ASSUME QuietNext
    PROVE  UNCHANGED <<joined, registered, session, deleted, locked, removing>>
<1>1. ASSUME NEW c \in Clients, NEW f, NEW v, SetValue(c, f, v), UNCHANGED serverVars
      PROVE  UNCHANGED <<joined, registered, session, deleted, locked, removing>>
    BY <1>1 DEF SetValue, serverVars
<1>2. ASSUME NEW c \in Clients, NEW id, Retries(c, id) \/ TimesOut(c, id), UNCHANGED serverVars
      PROVE  UNCHANGED <<joined, registered, session, deleted, locked, removing>>
    BY <1>2 DEF Retries, TimesOut, serverVars
<1>3. ASSUME NEW c \in Clients, Receive(c)
      PROVE  UNCHANGED <<joined, registered, session, deleted, locked, removing>>
    BY <1>3 DEF Receive, serverVars
<1>4. ASSUME NEW m, Merge(m) PROVE UNCHANGED <<joined, registered, session, deleted, locked, removing>>
    BY <1>4 DEF Merge
<1>5. ASSUME NEW k, Timer(k) PROVE UNCHANGED <<joined, registered, session, deleted, locked, removing>>
    BY <1>5 DEF Timer, queueVars
<1>6. ASSUME NEW x, Read(x) \/ Write(x) \/ Answer(x)
      PROVE  UNCHANGED <<joined, registered, session, deleted, locked, removing>>
    BY <1>6 DEF Read, Write, Answer, queueVars
<1>7. ASSUME UNCHANGED vars PROVE UNCHANGED <<joined, registered, session, deleted, locked, removing>>
    BY <1>7 DEF vars, queueVars, serverVars
<1> QED BY <1>1, <1>2, <1>3, <1>4, <1>5, <1>6, <1>7 DEF QuietNext

(* The steps of the clients. *)
LEMMA QueueStepKeeps ==
    ASSUME Typed, NEW c \in Clients, NEW id, NEW f, NEW v,
           \/ (SetValue(c, f, v) \/ Retries(c, id) \/ TimesOut(c, id)) /\ UNCHANGED serverVars
           \/ Receive(c)
    PROVE  /\ UNCHANGED <<store, pending, entry, flush>>
           /\ Receive(c) \/ inbox' = inbox
           /\ sent \subseteq sent'
           /\ \A d \in Clients \ {c} : client'[d] = client[d]
<1>0. ASSUME NEW l, Becomes(c, l)
      PROVE  sent \subseteq sent' /\ \A d \in Clients \ {c} : client'[d] = client[d]
    BY <1>0 DEF Becomes, Typed, ClientInv, ClientTypes
<1>1. CASE Receive(c)
    <2>1. (\E l : Becomes(c, l)) \/ UNCHANGED <<client, sent>>
        BY <1>1 DEF Receive, HearsConfirmed, HearsFailed, HearsValue, HearsRemoved
    <2> QED BY <1>0, <1>1, <2>1 DEF Receive, serverVars
<1>2. CASE (SetValue(c, f, v) \/ Retries(c, id) \/ TimesOut(c, id)) /\ UNCHANGED serverVars
    <2>1. \E l : Becomes(c, l)
        BY <1>2 DEF SetValue, Retries, TimesOut
    <2> QED BY <1>0, <1>2, <2>1 DEF SetValue, Retries, TimesOut, serverVars
<1> QED BY <1>1, <1>2

\* The update w is what k already holds, or has come for k's field.
Comes(w, k, S) == (k \in DOMAIN entry /\ w \in S) \/ (w \in sent /\ FieldOf(w) = FieldOf(k))

LEMMA EntriesHeld ==
    ASSUME NEW E, NEW P, NEW F, NEW k \in DOMAIN Held(E, P, F)
    PROVE  k \in DOMAIN E /\ Held(E, P, F)[k] = E[k]
BY DEF Held

LEMMA QuietEntries ==
    ASSUME Typed, QuietNext, NEW k \in DOMAIN entry'
    PROVE  /\ Comes(entry'[k].latest, k, {entry[k].latest})
           /\ \A w \in entry'[k].waiting : Comes(w, k, entry[k].waiting)
<1>1. CASE entry' = entry
    BY <1>1 DEF Comes
<1>2. ASSUME NEW m \in sent, Merge(m)
      PROVE  /\ Comes(entry'[k].latest, k, {entry[k].latest})
             /\ \A w \in entry'[k].waiting : Comes(w, k, entry[k].waiting)
    <2>1. m \in Updates /\ FieldOf(m) \in Fields
        BY <1>2, OperationFacts DEF Merge, Typed, ServerInv, MessageTypes, Updates
    <2>2. PICK p : p = pending[FieldOf(m)]
        OBVIOUS
    <2>3. CASE p # None
        <3>1. p \in DOMAIN entry /\ FieldOf(p) = FieldOf(m) /\ Joins(m, p)
            BY <1>2, <2>1, <2>2, <2>3 DEF Merge, Typed, ServerInv, EntryTypes
        <3>2. /\ k \in DOMAIN entry
              /\ entry'[k] = IF k = p THEN [latest |-> m, waiting |-> Waiting(p, m), timer |-> "held"]
                             ELSE entry[k]
            BY <3>1 DEF Joins
        <3> QED BY <3>1, <3>2 DEF Comes, Waiting
    <2>4. CASE p = None
        <3>1. /\ k \in DOMAIN entry \cup {m}
              /\ entry'[k] = IF k = m THEN [latest |-> m, waiting |-> {m}, timer |-> "lookup"]
                             ELSE entry[k]
            BY <1>2, <2>2, <2>4 DEF Merge, Opens
        <3> QED BY <3>1 DEF Comes
    <2> QED BY <2>3, <2>4
<1>3. ASSUME NEW j \in DOMAIN entry, Timer(j)
      PROVE  /\ Comes(entry'[k].latest, k, {entry[k].latest})
             /\ \A w \in entry'[k].waiting : Comes(w, k, entry[k].waiting)
    <2>1. PICK E : E = [entry EXCEPT ![j].timer = "off"]
        OBVIOUS
    <2>2. entry' = Held(E, pending, flush')
        BY <1>3, <2>1 DEF Timer
    <2>3. k \in DOMAIN E /\ entry'[k] = E[k]
        BY <2>2, EntriesHeld
    <2>4. k \in DOMAIN entry /\ entry[k] \in Slots
        BY <2>1, <2>3 DEF Typed, ServerInv, EntryTypes
    <2>5. E[k].latest = entry[k].latest /\ E[k].waiting = entry[k].waiting
        BY <2>1, <2>4 DEF Slots
    <2> QED BY <2>3, <2>4, <2>5 DEF Comes
<1>4. ASSUME NEW x \in flush, Read(x) \/ Write(x) \/ Answer(x)
      PROVE  /\ Comes(entry'[k].latest, k, {entry[k].latest})
             /\ \A w \in entry'[k].waiting : Comes(w, k, entry[k].waiting)
    <2>1. entry' = entry \/ entry' = Held(entry, pending', flush')
        BY <1>4 DEF Read, Write, Answer, Dropped
    <2>2. k \in DOMAIN entry /\ entry'[k] = entry[k]
        BY <2>1, EntriesHeld
    <2> QED BY <2>2 DEF Comes
<1>5. ASSUME UNCHANGED vars PROVE entry' = entry
    BY <1>5 DEF vars, serverVars
<1>6. ASSUME NEW c \in Clients, NEW id, NEW f, NEW v,
             \/ (SetValue(c, f, v) \/ Retries(c, id) \/ TimesOut(c, id)) /\ UNCHANGED serverVars
             \/ Receive(c)
      PROVE  entry' = entry
    BY <1>6, QueueStepKeeps
<1> QED BY <1>1, <1>2, <1>3, <1>4, <1>5, <1>6 DEF QuietNext

(* What a timer starts, and how a flush goes on. *)
LEMMA TimerStarts ==
    ASSUME Typed, NEW k \in DOMAIN entry, Timer(k)
    PROVE  \/ flush' = flush
           \/ \E y : /\ flush' = flush \cup {y} /\ y.step = "reads"
                     /\ y.entry = IF entry[k].timer = "held" THEN k ELSE pending[FieldOf(k)]
                     /\ y.entry \in DOMAIN entry /\ FieldOf(y.entry) = FieldOf(k)
                     /\ y.of = entry[y.entry].latest
<1>1. PICK e : e = IF entry[k].timer = "held" THEN k ELSE pending[FieldOf(k)]
    OBVIOUS
<1>2. FieldOf(k) \in Fields
    BY OperationFacts DEF Typed, ServerInv, EntryTypes, Updates
<1>3. e = None \/ (e \in DOMAIN entry /\ FieldOf(e) = FieldOf(k))
    BY <1>1, <1>2 DEF Typed, ServerInv, EntryTypes
<1>4. flush' = IF e = None THEN flush
               ELSE flush \cup {[entry |-> e, of |-> entry[e].latest, by |-> k,
                                 step |-> "reads", seen |-> <<>>]}
    BY <1>1 DEF Timer
<1> QED BY <1>1, <1>3, <1>4

LEMMA ReadReads ==
    ASSUME Typed, Peace, NEW x \in flush, Read(x)
    PROVE  \E y : /\ flush' = (flush \ {x}) \cup {y} /\ y.entry = x.entry /\ y.of = x.of
                  /\ x.step = "reads" /\ y.step = "writes" /\ y.seen = store
<1>1. x \in Flights
    BY DEF Typed, ServerInv, FlushTypes
<1>2. PICK y : y = [x EXCEPT !.step = "writes", !.seen = store]
    OBVIOUS
<1>3. flush' = (flush \ {x}) \cup {y} /\ x.step = "reads"
    BY <1>2 DEF Read, Peace
<1>4. y.entry = x.entry /\ y.of = x.of /\ y.step = "writes" /\ y.seen = store
    BY <1>1, <1>2 DEF Flights
<1> QED BY <1>3, <1>4

LEMMA WriteWrites ==
    ASSUME Typed, Peace, NEW x \in flush, Write(x)
    PROVE  /\ \E y : /\ flush' = (flush \ {x}) \cup {y} /\ y.entry = x.entry /\ y.of = x.of
                     /\ x.step = "writes" /\ y.step = "done"
           /\ \A g \in Fields :
                 store'[g] = IF g = FieldOf(x.of) THEN ops[x.of.id].value
                             ELSE IF BlockOf[g] = BlockOf[FieldOf(x.of)] THEN x.seen[g]
                             ELSE store[g]
<1>1. x \in Flights
    BY DEF Typed, ServerInv, FlushTypes
<1>2. PICK y : y = [x EXCEPT !.step = "done", !.seen = <<>>]
    OBVIOUS
<1>3. flush' = (flush \ {x}) \cup {y} /\ x.step = "writes"
    BY <1>2 DEF Write
<1>4. y.entry = x.entry /\ y.of = x.of /\ y.step = "done"
    BY <1>1, <1>2 DEF Flights
<1>5. BlockOf[FieldOf(x.of)] \notin deleted
    BY DEF Peace
<1> QED BY <1>3, <1>4, <1>5 DEF Write

LEMMA QuietFlushes ==
    ASSUME Typed, Peace, QuietNext, NEW y \in flush'
    PROVE  \/ y \in flush
           \/ \E x \in flush : y.entry = x.entry /\ y.of = x.of /\ y.step \in {"writes", "done"}
           \/ y.entry \in DOMAIN entry /\ y.of = entry[y.entry].latest /\ y.step = "reads"
<1>1. ASSUME NEW m, Merge(m) PROVE flush' = flush
    BY <1>1 DEF Merge
<1>2. ASSUME NEW k \in DOMAIN entry, Timer(k)
      PROVE  \/ y \in flush
             \/ y.entry \in DOMAIN entry /\ y.of = entry[y.entry].latest /\ y.step = "reads"
    BY <1>2, TimerStarts
<1>3. ASSUME NEW x \in flush, Read(x) \/ Write(x), y \notin flush
      PROVE  y.entry = x.entry /\ y.of = x.of /\ y.step \in {"writes", "done"}
    BY <1>3, ReadReads, WriteWrites
<1>4. ASSUME NEW x \in flush, Answer(x) PROVE flush' \subseteq flush
    BY <1>4 DEF Answer
<1>5. ASSUME UNCHANGED vars PROVE flush' = flush
    BY <1>5 DEF vars, serverVars
<1>6. ASSUME NEW c \in Clients, NEW id, NEW f, NEW v,
             \/ (SetValue(c, f, v) \/ Retries(c, id) \/ TimesOut(c, id)) /\ UNCHANGED serverVars
             \/ Receive(c)
      PROVE  flush' = flush
    BY <1>6, QueueStepKeeps
<1> QED BY <1>1, <1>2, <1>3, <1>4, <1>5, <1>6 DEF QuietNext

(* What a client will hear is what it would have heard, or of an answer. *)
LEMMA QuietInboxes ==
    ASSUME Typed, Peace, QuietNext, NEW c \in Clients, NEW n \in Heard(inbox'[c])
    PROVE  \/ n \in Heard(inbox[c])
           \/ n.type = "confirmed"
           \/ \E x \in flush : n = NewsOf(x)
<1>1. ASSUME NEW d \in Clients, Receive(d) PROVE n \in Heard(inbox[c])
    <2>1. CASE d = c
        BY <1>1, <2>1, ReceiveTail DEF Heard
    <2>2. CASE d # c
        BY <1>1, <2>2, ReceiveTail
    <2> QED BY <2>1, <2>2
<1>2. ASSUME NEW x \in flush, Answer(x), x.step = "done", n \notin Heard(inbox[c])
      PROVE  n.type = "confirmed" \/ n = NewsOf(x)
    <2>1. PICK i \in 1 .. Len(inbox'[c]) : n = inbox'[c][i]
        BY DEF Heard
    <2>2. inbox[c] \in Seq(Notices) /\ NewsOf(x) \in Notices
        BY NewsOfTyped DEF Typed, InboxTypes
    <2>3. PICK T : /\ Longer(inbox[c], inbox'[c], T)
                   /\ \A t \in T : t.type = "confirmed" \/ t = NewsOf(x)
        <3>1. CASE WaitsIn(x.entry, c) = {}
            <4>1. Longer(inbox[c], inbox'[c], {NewsOf(x)})
                BY <1>2, <2>2, <3>1, AnswerTells, LongerByOne
            <4> QED BY <4>1
        <3>2. CASE WaitsIn(x.entry, c) # {}
            <4>1. Longer(inbox[c], inbox'[c], {Yes[m.id] : m \in WaitsIn(x.entry, c)})
                BY <1>2, <3>2, AnswerTells
            <4>2. \A m \in WaitsIn(x.entry, c) : Yes[m.id].type = "confirmed"
                BY FlushFacts, YesTyped DEF Typed, WaitsIn, Updates
            <4> QED BY <4>1, <4>2
        <3> QED BY <3>1, <3>2
    <2>4. i > Len(inbox[c])
        BY <1>2, <2>1, <2>3 DEF Longer, Heard
    <2> QED BY <2>1, <2>3, <2>4 DEF Longer
<1>3. ASSUME inbox' = inbox PROVE n \in Heard(inbox[c])
    BY <1>3
<1>4. ASSUME NEW m, Merge(m) PROVE inbox' = inbox
    BY <1>4 DEF Merge
<1>5. ASSUME NEW k, Timer(k) PROVE inbox' = inbox
    BY <1>5 DEF Timer, queueVars
<1>6. ASSUME NEW x, Read(x) \/ Write(x) PROVE inbox' = inbox
    BY <1>6 DEF Read, Write, queueVars
<1>7. ASSUME UNCHANGED vars PROVE inbox' = inbox
    BY <1>7 DEF vars, queueVars
<1>8. ASSUME NEW d \in Clients, NEW id, NEW f, NEW v,
             SetValue(d, f, v) \/ Retries(d, id) \/ TimesOut(d, id)
      PROVE  inbox' = inbox
    BY <1>8 DEF SetValue, Retries, TimesOut
<1> QED BY <1>1, <1>2, <1>3, <1>4, <1>5, <1>6, <1>7, <1>8 DEF QuietNext

LEMMA WritersGrow ==
    ASSUME Typed, Moved
    PROVE  /\ \A f : Sets(f) \subseteq Sets(f)' /\ Writers(f) \subseteq Writers(f)'
           /\ \A m \in Updates : m.id \in Sets(FieldOf(m)) /\ Owner(m) \in Writers(FieldOf(m))
<1>1. Len(ops) \in Nat /\ Len(ops') \in {Len(ops), Len(ops) + 1}
    BY LenProperties DEF Moved, OpsGrow, Typed, ClientInv, ClientTypes
<1>2. \A i \in 1 .. Len(ops) : i \in 1 .. Len(ops') /\ ops'[i] = ops[i]
    BY <1>1 DEF Moved, OpsGrow
<1>3. ASSUME NEW f PROVE Sets(f) \subseteq Sets(f)' /\ Writers(f) \subseteq Writers(f)'
    <2>1. Sets(f) \subseteq Sets(f)'
        BY <1>2 DEF Sets
    <2>2. \A i \in Sets(f) : ops'[i] = ops[i]
        BY <1>2 DEF Sets
    <2> QED BY <2>1, <2>2 DEF Writers
<1>4. ASSUME NEW m \in Updates
      PROVE  m.id \in Sets(FieldOf(m)) /\ Owner(m) \in Writers(FieldOf(m))
    <2>1. m.id \in Sets(FieldOf(m))
        BY OperationFacts DEF Typed, Updates, Sets, FieldOf
    <2> QED BY <2>1 DEF Writers, Owner
<1> QED BY <1>3, <1>4

LEMMA OneFieldStep ==
    ASSUME Typed, Moved, EntriesCome, Peace, OneField, QuietNext
    PROVE  OneField'
<1>1. \A m \in Asked : ops'[m.id].field = FieldOf(m)
    BY AskedGrows DEF Typed, Moved, FieldOf
<1>2. sent \subseteq Asked /\ DOMAIN entry \subseteq Asked /\ DOMAIN entry' \subseteq Asked
    BY DEF Typed, ServerInv, MessageTypes, EntryTypes, Updates, EntriesCome
<1>3. \A k \in DOMAIN entry : entry[k].latest \in Asked /\ entry[k].waiting \subseteq Asked
    BY DEF Typed, ServerInv, EntryTypes, Slots, Updates
<1>4. ASSUME NEW k \in DOMAIN entry', NEW w, NEW S, Comes(w, k, S), S \subseteq Asked,
             k \in DOMAIN entry => \A u \in S : FieldOf(u) = FieldOf(k)
      PROVE  ops'[w.id].field = ops'[k.id].field
    <2>1. w \in Asked /\ FieldOf(w) = FieldOf(k)
        BY <1>2, <1>4 DEF Comes
    <2> QED BY <1>1, <1>2, <2>1
<1>5. ASSUME NEW k \in DOMAIN entry'
      PROVE  ops'[entry'[k].latest.id].field = ops'[k.id].field
    <2>1. CASE k \in DOMAIN entry
        <3>1. PICK S : S = {entry[k].latest}
            OBVIOUS
        <3>2. S \subseteq Asked /\ \A u \in S : FieldOf(u) = FieldOf(k)
            BY <1>3, <2>1, <3>1 DEF OneField
        <3>3. Comes(entry'[k].latest, k, S)
            BY <3>1, QuietEntries
        <3> QED BY <1>4, <3>2, <3>3
    <2>2. CASE k \notin DOMAIN entry
        <3>1. Comes(entry'[k].latest, k, {})
            BY <2>2, QuietEntries DEF Comes
        <3>2. PICK S : S = {}
            OBVIOUS
        <3> QED BY <1>4, <2>2, <3>1, <3>2
    <2> QED BY <2>1, <2>2
<1>6. ASSUME NEW k \in DOMAIN entry', NEW w \in entry'[k].waiting
      PROVE  ops'[w.id].field = ops'[k.id].field
    <2>1. CASE k \in DOMAIN entry
        <3>1. entry[k].waiting \subseteq Asked /\ \A u \in entry[k].waiting : FieldOf(u) = FieldOf(k)
            BY <1>3, <2>1 DEF OneField
        <3> QED BY <1>4, <1>6, <3>1, QuietEntries
    <2>2. CASE k \notin DOMAIN entry
        <3>1. Comes(w, k, {})
            BY <1>6, <2>2, QuietEntries DEF Comes
        <3>2. PICK S : S = {}
            OBVIOUS
        <3> QED BY <1>4, <2>2, <3>1, <3>2
    <2> QED BY <2>1, <2>2
<1>7. ASSUME NEW y \in flush'
      PROVE  ops'[y.of.id].field = ops'[y.entry.id].field
    <2>1. \A x \in flush : x.of \in Asked /\ x.entry \in Asked /\ FieldOf(x.of) = FieldOf(x.entry)
        BY DEF Typed, ServerInv, FlushTypes, Flights, Updates, OneField
    <2>2. y.of \in Asked /\ y.entry \in Asked /\ FieldOf(y.of) = FieldOf(y.entry)
        BY <1>2, <1>3, <1>7, <2>1, QuietFlushes DEF OneField
    <2> QED BY <1>1, <2>2
<1> QED BY <1>5, <1>6, <1>7 DEF OneField, FieldOf

LEMMA NewsHasWriterStep ==
    ASSUME Typed, Moved, Peace, NewsHasWriter, QuietNext
    PROVE  NewsHasWriter'
<1> SUFFICES ASSUME NEW c \in Clients, NEW n \in Heard(inbox'[c]), n.type = "value"
             PROVE  Writers(n.field)' # {}
    BY DEF NewsHasWriter, Heard
<1>1. Writers(n.field) # {}
    <2>1. CASE n \in Heard(inbox[c])
        BY <2>1 DEF NewsHasWriter
    <2>2. ASSUME NEW x \in flush, n = NewsOf(x) PROVE Writers(n.field) # {}
        <3>1. x.of \in Updates /\ n.field = FieldOf(x.of)
            BY <2>2, NewsOfTyped DEF Typed, ServerInv, FlushTypes, Flights
        <3> QED BY <3>1, WritersGrow
    <2> QED BY <2>1, <2>2, QuietInboxes
<1> QED BY <1>1, WritersGrow

LEMMA PeaceStep ==
    ASSUME Typed, Moved, Peace, QuietNext
    PROVE  Peace'
<1>1. UNCHANGED <<joined, registered, session, deleted, locked, removing>>
    BY QuietKeeps
<1>2. \A m \in sent' : m.at = 0
    BY DEF Moved, SentByClients, Peace
<1>3. \A k \in DOMAIN entry' : \A w \in entry'[k].waiting : w.at = 0
    BY QuietEntries DEF Comes, Peace
<1>4. \A x \in flush' : x.step \notin {"missing", "locked"}
    BY QuietFlushes DEF Peace
<1>5. \A c \in Clients : \A n \in Heard(inbox'[c]) : n.type \in {"confirmed", "value"}
    <2>1. ASSUME NEW c \in Clients, NEW n \in Heard(inbox'[c]) PROVE n.type \in {"confirmed", "value"}
        <3>1. n \in Heard(inbox[c]) => n.type \in {"confirmed", "value"}
            BY DEF Peace
        <3>2. \A x \in flush : NewsOf(x).type = "value"
            BY NewsOfTyped
        <3> QED BY <2>1, <3>1, <3>2, QuietInboxes
    <2> QED BY <2>1
<1> QED BY <1>1, <1>2, <1>3, <1>4, <1>5 DEF Peace, Heard

-----------------------------------------------------------------------------
(* The queue of a client sends one operation after the other.                *)

\* Those that are sent in a step: none, or one where none was.
SendsOne(k, l) == InFlight(l) = InFlight(k) \/ InFlight(k) = {}

LEMMA NextSentOrderly ==
    ASSUME NEW k, Well(k), Orderly(k)
    PROVE  Orderly(NextSent(k)) /\ SendsOne(k, NextSent(k))
<1>1. CASE k.busy \/ Pending(k) = {}
    BY <1>1 DEF NextSent, SendsOne
<1>2. CASE ~ k.busy /\ Pending(k) # {}
    <2>1. PICK e : e = First(Pending(k))
        OBVIOUS
    <2>2. e \in Pending(k) /\ \A d \in Pending(k) : e.id <= d.id
        <3>1. Pending(k) \in SUBSET Entries
            BY DEF Well, States, Pending
        <3>2. \E i \in Pending(k) : \A d \in Pending(k) : i.id <= d.id
            BY <1>2, <3>1, Oldest
        <3> QED BY <2>1, <3>2 DEF First
    <2>3. PICK l : l = [k EXCEPT !.queue = WithStatus(@, e.id, "processing", e.try),
                                 !.busy = TRUE,
                                 !.deadlines = @ \cup {e.id}]
        OBVIOUS
    <2>4. NextSent(k) = l
        BY <1>2, <2>1, <2>3 DEF NextSent
    <2>5. /\ l.queue = WithStatus(k.queue, e.id, "processing", e.try)
          /\ l.busy /\ l.retries = k.retries
        BY <2>3 DEF Well, States
    <2>6. PICK s : s = [id |-> e.id, status |-> "processing", try |-> e.try]
        OBVIOUS
    <2>7. InFlight(k) = {}
        BY <1>2 DEF Orderly
    <2>8. l.queue = (k.queue \ {e}) \cup {s}
        <3>1. e \in k.queue /\ \A d \in k.queue : d.id = e.id => d = e
            BY <2>2 DEF Well, Pending
        <3> QED BY <2>5, <2>6, <3>1 DEF WithStatus, Without
    <2>9. InFlight(l) = {s} /\ s.id = e.id
        BY <2>6, <2>7, <2>8 DEF InFlight
    <2>10. ASSUME NEW d \in Pending(l) PROVE e.id < d.id
        <3>1. d \in Pending(k) /\ d # e
            BY <2>6, <2>8, <2>10 DEF Pending
        <3>2. d.id # e.id /\ d.id \in Int /\ e.id \in Int
            BY <2>2, <3>1, QueueConstants DEF Well, States, Pending, Entries, Ids
        <3> QED BY <2>2, <3>1, <3>2
    <2>11. Orderly(l)
        BY <2>5, <2>9, <2>10 DEF Orderly
    <2> QED BY <2>4, <2>7, <2>11 DEF SendsOne
<1> QED BY <1>1, <1>2

LEMMA ProcessedOrderly ==
    ASSUME NEW c, NEW k, Well(k), Orderly(k)
    PROVE  /\ Orderly(Processed(c, k)) /\ SendsOne(k, Processed(c, k))
           /\ Queued(Processed(c, k)) = Queued(k)
BY NextSentOrderly, NextSentWell DEF Processed, SendsOne

(* A new edit comes after those in the queue, of which it replaces some of   *)
(* its own field.                                                            *)
LEMMA AddedOrderly ==
    ASSUME NEW c, NEW k, NEW id, NEW o, NEW l, Well(k), Orderly(k),
           id \in Ids, \A e \in k.queue : e.id < id, l = Added(c, k, id, o)
    PROVE  Orderly(l) /\ SendsOne(k, l)
<1>1. CASE IsDuplicate(k, o)
    BY <1>1 DEF Added, SendsOne
<1>2. CASE ~ IsDuplicate(k, o)
    <2>1. PICK h : h = [k EXCEPT !.queue = Without(@, GivesWay(k, o)) \cup {Fresh(id)}]
        OBVIOUS
    <2>2. id \notin Queued(k)
        <3>1. id \in Int /\ ~ (id < id)
            BY QueueConstants DEF Ids
        <3> QED BY <3>1 DEF Queued
    <2>3. /\ h.queue = Without(k.queue, GivesWay(k, o)) \cup {Fresh(id)}
          /\ h.busy = k.busy /\ h.retries = k.retries
          /\ Well(h) /\ InFlight(h) = InFlight(k)
        <3>1. Well(h)
            BY <2>1, <2>2, AddingWell
        <3>2. InFlight(h) = InFlight(k)
            BY <2>1, <2>2, AddingWell
        <3>3. h.queue = Without(k.queue, GivesWay(k, o)) \cup {Fresh(id)}
            BY <2>1, <2>2, AddingWell
        <3>4. h.busy = k.busy /\ h.retries = k.retries
            BY <2>1 DEF Well, States
        <3> QED BY <3>1, <3>2, <3>3, <3>4
    <2>4. h.queue \subseteq k.queue \cup {Fresh(id)} /\ h.busy = k.busy /\ h.retries = k.retries
        BY <2>3 DEF Without
    <2>5. Orderly(h)
        <3>1. Fresh(id).id = id /\ InFlight(k) \subseteq k.queue
            BY DEF Fresh, InFlight
        <3>2. \A d \in Pending(h) : d \in Pending(k) \/ d.id = id
            BY <2>4, <3>1 DEF Pending
        <3> QED BY <2>3, <2>4, <3>1, <3>2 DEF Orderly
    <2>6. l = Processed(c, h)
        BY <1>2, <2>1 DEF Added, Fresh
    <2> QED BY <2>3, <2>5, <2>6, ProcessedOrderly DEF SendsOne
<1> QED BY <1>1, <1>2

LEMMA AddedQueued ==
    ASSUME NEW c, NEW k, NEW id, NEW o, NEW l, Well(k), id \in Ids, id \notin Queued(k),
           ~ IsDuplicate(k, o), l = Added(c, k, id, o)
    PROVE  Queued(l) = (Queued(k) \ GivesWay(k, o)) \cup {id}
<1>1. PICK h : h = [k EXCEPT !.queue = Without(@, GivesWay(k, o)) \cup {Fresh(id)}]
    OBVIOUS
<1>2. Well(h) /\ h.queue = Without(k.queue, GivesWay(k, o)) \cup {Fresh(id)}
    BY <1>1, AddingWell
<1>3. l = Processed(c, h)
    BY <1>1 DEF Added, Fresh
<1>4. Queued(l) = Queued(h)
    BY <1>2, <1>3, ProcessedWell
<1>5. Fresh(id).id = id
    BY DEF Fresh
<1>6. Queued(h) = {e.id : e \in Without(k.queue, GivesWay(k, o))} \cup {id}
    BY <1>2, <1>5 DEF Queued
<1>7. {e.id : e \in Without(k.queue, GivesWay(k, o))} = Queued(k) \ GivesWay(k, o)
    BY DEF Queued, Without
<1> QED BY <1>4, <1>6, <1>7

(* The operation in flight is confirmed, and the next one goes out. *)
LEMMA ConfirmedOrderly ==
    ASSUME NEW c, NEW k, NEW e, NEW l, Well(k), Orderly(k), e \in InFlight(k),
           l = Confirmed(c, k, e.id)
    PROVE  /\ Orderly(l) /\ Queued(l) = Queued(k) \ {e.id}
           /\ InFlight(l) \cap InFlight(k) = {}
<1>1. PICK h : h = Dropping(k, {e.id}, k.retries \ {e.id})
    OBVIOUS
<1>2. l = Processed(c, h)
    <2>1. [k EXCEPT !.queue = Without(@, {e.id}), !.busy = FALSE,
                    !.deadlines = @ \ {e.id}, !.retries = @ \ {e.id}] = h
        BY <1>1, DroppingIs DEF Well
    <2> QED BY <2>1 DEF Confirmed
<1>3. Well(h) /\ h.queue = Without(k.queue, {e.id}) /\ h.retries = {}
    <2>1. k.retries \ {e.id} \subseteq Ids /\ k.retries = {}
        BY DEF Well, States, Orderly
    <2> QED BY <1>1, <2>1, DroppingWell DEF Dropping
<1>4. InFlight(h) = {}
    <2>1. InFlight(k) = {e}
        BY DEF Orderly
    <2> QED BY <1>3, <2>1 DEF InFlight, Without
<1>5. Orderly(h)
    BY <1>3, <1>4 DEF Orderly
<1>6. Orderly(l) /\ Queued(l) = Queued(h)
    BY <1>2, <1>3, <1>5, ProcessedOrderly
<1>7. Queued(h) = Queued(k) \ {e.id}
    BY <1>3 DEF Queued, Without
<1>8. InFlight(l) \cap InFlight(k) = {}
    <2>1. \A d \in InFlight(l) : d.id \in Queued(l)
        BY DEF InFlight, Queued
    <2>2. InFlight(k) = {e}
        BY DEF Orderly
    <2> QED BY <1>6, <1>7, <2>1, <2>2
<1> QED BY <1>6, <1>7, <1>8

-----------------------------------------------------------------------------
(* One that shares no field.                                                 *)

LEMMA OwnedBefore ==
    ASSUME Typed, Moved
    PROVE  /\ \A c \in Clients : SharesNone(c)' => SharesNone(c)
           /\ \A f \in Fields : Owned(f)' => Owned(f) /\ Editors(f) \subseteq Editors(f)'
<1>1. \A f : Writers(f) \subseteq Writers(f)'
    BY WritersGrow
<1>2. ASSUME NEW c, SharesNone(c)' PROVE SharesNone(c)
    <2>1. \A f \in Fields : c \in Writers(f)' => Writers(f)' = {c}
        BY <1>2 DEF SharesNone
    <2>2. \A f \in Fields : c \in Writers(f) => Writers(f) = {c}
        BY <1>1, <2>1
    <2> QED BY <2>2 DEF SharesNone
<1>3. ASSUME NEW f \in Fields, Owned(f)' PROVE Owned(f) /\ Editors(f) \subseteq Editors(f)'
    <2>1. Editors(f) \subseteq Editors(f)'
        BY <1>1 DEF Editors
    <2>2. \A c \in Editors(f)' : Editors(f)' = {c} /\ SharesNone(c)'
        BY <1>3 DEF Owned
    <2>3. \A c \in Editors(f) : Editors(f) = {c} /\ SharesNone(c)
        BY <1>2, <2>1, <2>2
    <2> QED BY <2>1, <2>3 DEF Owned
<1> QED BY <1>2, <1>3

LEMMA OwnersField ==
    ASSUME Typed, NEW c \in Clients, SharesNone(c),
           NEW m \in Updates, NEW w \in Updates, Owner(m) = c, FieldOf(w) = FieldOf(m)
    PROVE  Owner(w) = c
<1>1. FieldOf(m) \in Fields
    BY OperationFacts DEF Typed, Updates
<1>2. \A u \in Updates : Owner(u) \in Writers(FieldOf(u))
    <2>1. \A u \in Updates : u.id \in Sets(FieldOf(u))
        BY OperationFacts DEF Typed, Updates, Sets, FieldOf
    <2> QED BY <2>1 DEF Writers, Owner
<1> QED BY <1>1, <1>2 DEF SharesNone

LEMMA SerialFiled ==
    ASSUME NEW c, Serial(c)
    PROVE  \A m \in Filed(c) : Filed(c) = {m} /\ AloneInEntry(m)
BY DEF Serial, NoneSent, OnItsWay, InItsEntry, IsAnswered

-----------------------------------------------------------------------------
(* What is a client's own after a step.                                      *)

LEMMA LettersOfSender ==
    ASSUME Typed, Moved, Peace, NEW c \in Clients, NEW l, Becomes(c, l)
    PROVE  /\ client'[c] = l
           /\ Letters(c)' = Letters(c) \cup {Letter(e) : e \in InFlight(l) \ InFlight(client[c])}
<1>1. client'[c] = l
    BY DEF Becomes, Typed, ClientInv, ClientTypes
<1>2. sent' = sent \cup {Letter(e) : e \in InFlight(l) \ InFlight(client[c])}
    BY DEF Becomes, Emitted, Letter, Peace
<1>3. \A m \in sent : ops'[m.id].by = Owner(m)
    <2>1. sent \subseteq Asked
        BY DEF Typed, ServerInv, MessageTypes
    <2> QED BY <2>1, AskedGrows DEF Typed, Moved, Owner
<1>4. \A e \in InFlight(l) : ops'[Letter(e).id].by = c
    BY <1>1 DEF InFlight, Letter, Moved, ClientInv, OwnQueue
<1> QED BY <1>1, <1>2, <1>3, <1>4 DEF Letters, Owner

LEMMA LettersOfOthers ==
    ASSUME Typed, Moved, NEW c \in Clients, client'[c] = client[c], sent \subseteq sent'
    PROVE  Letters(c)' = Letters(c)
<1>1. \A m \in sent : ops'[m.id].by = Owner(m)
    <2>1. sent \subseteq Asked
        BY DEF Typed, ServerInv, MessageTypes
    <2> QED BY <2>1, AskedGrows DEF Typed, Moved, Owner
<1>2. ASSUME NEW m \in sent' \ sent PROVE ops'[m.id].by # c
    <2>1. PICK d \in Clients : \E e \in InFlight(client'[d]) \ InFlight(client[d]) : m.id = e.id
        BY <1>2 DEF Moved, SentByClients
    <2>2. ops'[m.id].by = d
        BY <2>1 DEF InFlight, Moved, ClientInv, OwnQueue
    <2>3. d # c
        BY <2>1
    <2> QED BY <2>2, <2>3
<1> QED BY <1>1, <1>2 DEF Letters, Owner

LEMMA FiledStays ==
    ASSUME Typed, Moved, NEW c, UNCHANGED <<pending, entry, flush>>
    PROVE  /\ Filed(c)' = Filed(c)
           /\ \A m \in Filed(c) : AloneInEntry(m) => AloneInEntry(m)'
<1>1. \A m \in DOMAIN entry : ops'[m.id] = ops[m.id]
    BY AskedGrows DEF Typed, Moved, ServerInv, EntryTypes, Updates
<1> QED BY <1>1 DEF Filed, Owner, AloneInEntry, FlushesOf, FieldOf

\* The step is none of c's.
LeftAlone(c) ==
    /\ client'[c] = client[c]
    /\ Letters(c)' = Letters(c) /\ Filed(c)' = Filed(c)
    /\ \A m \in Filed(c) : AloneInEntry(m)'
    /\ Answers(c)' = Answers(c)
    /\ \A i \in Answers(c) : inbox'[c][i] = inbox[c][i]

LEMMA SerialStays ==
    ASSUME NEW c \in Clients, Serial(c), LeftAlone(c)
    PROVE  Serial(c)'
<1>1. CASE NoneSent(c)
    BY <1>1 DEF Serial, LeftAlone, NoneSent
<1>2. ASSUME NEW e \in InFlight(client[c]), OnItsWay(c, Letter(e))
      PROVE  OnItsWay(c, Letter(e))'
    BY <1>2 DEF LeftAlone, OnItsWay, Letter
<1>3. ASSUME NEW e \in InFlight(client[c]), InItsEntry(c, Letter(e))
      PROVE  InItsEntry(c, Letter(e))'
    <2>1. Letter(e) \in Filed(c) /\ Letter(e)' = Letter(e)
        BY <1>3 DEF InItsEntry, Letter
    <2>2. AloneInEntry(Letter(e))'
        BY <2>1 DEF LeftAlone
    <2> QED BY <1>3, <2>1, <2>2 DEF LeftAlone, InItsEntry
<1>4. ASSUME NEW e \in InFlight(client[c]), IsAnswered(c, Letter(e))
      PROVE  IsAnswered(c, Letter(e))'
    <2>1. PICK i \in 1 .. Len(inbox[c]) : Answers(c) = {i} /\ inbox[c][i].id = Letter(e).id
        BY <1>4 DEF IsAnswered
    <2>2. i \in 1 .. Len(inbox'[c]) /\ Answers(c)' = {i} /\ inbox'[c][i].id = Letter(e).id
        BY <2>1 DEF LeftAlone, Answers
    <2> QED BY <1>4, <2>2 DEF LeftAlone, IsAnswered, Letter
<1> QED BY <1>1, <1>2, <1>3, <1>4 DEF Serial, LeftAlone

-----------------------------------------------------------------------------
(* The steps of the others leave such a client alone.                        *)

LEMMA OthersQueueStep ==
    ASSUME Typed, Moved, NEW c \in Clients, Serial(c), NEW d \in Clients, d # c,
           NEW id, NEW f, NEW v,
           \/ (SetValue(d, f, v) \/ Retries(d, id) \/ TimesOut(d, id)) /\ UNCHANGED serverVars
           \/ Receive(d)
    PROVE  LeftAlone(c)
<1>1. /\ UNCHANGED <<pending, entry, flush>> /\ sent \subseteq sent'
      /\ client'[c] = client[c] /\ (Receive(d) \/ inbox' = inbox)
    BY QueueStepKeeps
<1>2. inbox'[c] = inbox[c]
    BY <1>1, ReceiveTail
<1>3. Letters(c)' = Letters(c)
    BY <1>1, LettersOfOthers
<1>4. Filed(c)' = Filed(c) /\ \A m \in Filed(c) : AloneInEntry(m)'
    BY <1>1, FiledStays, SerialFiled
<1>5. Answers(c)' = Answers(c)
    BY <1>2 DEF Answers
<1> QED BY <1>1, <1>2, <1>3, <1>4, <1>5 DEF LeftAlone

(* An update in an entry of its own stays there, if its field is left alone. *)
LEMMA AloneStays ==
    ASSUME ops' = ops, NEW m, AloneInEntry(m), pending'[FieldOf(m)] = pending[FieldOf(m)],
           entry'[m] = entry[m],
           \A x \in flush' : x.entry = m => x \in flush,
           \A x \in flush : x.entry = m => x \in flush'
    PROVE  AloneInEntry(m)'
<1>1. FlushesOf(m)' = FlushesOf(m)
    BY DEF FlushesOf
<1>2. ops'[m.id].field = FieldOf(m)
    BY DEF FieldOf
<1>3. ASSUME NEW x \in flush, FlushesOf(m) = {x}, x.of = m
      PROVE  \E y \in flush' : FlushesOf(m)' = {y} /\ y.of = m
    <2>1. x \in flush'
        BY <1>3 DEF FlushesOf
    <2> QED BY <1>1, <1>3, <2>1
<1> QED BY <1>1, <1>2, <1>3 DEF AloneInEntry, FieldOf

LEMMA OthersMerge ==
    ASSUME Typed, Moved, NEW c \in Clients, SharesNone(c), Serial(c),
           NEW w \in sent, Merge(w), Owner(w) # c
    PROVE  LeftAlone(c)
<1>1. /\ w \in Updates /\ FieldOf(w) \in Fields /\ sent' = sent \ {w}
      /\ UNCHANGED <<ops, client, inbox, flush>>
    BY OperationFacts DEF Merge, Typed, ServerInv, MessageTypes, Updates
<1>2. \A m \in Filed(c) : m \in Updates /\ FieldOf(m) \in Fields /\ FieldOf(m) # FieldOf(w)
    <2>1. \A m \in Filed(c) : m \in Updates /\ Owner(m) = c
        BY DEF Filed, Typed, ServerInv, EntryTypes
    <2> QED BY <1>1, <2>1, OwnersField, OperationFacts DEF Typed, Updates
<1>3. /\ Filed(c)' = Filed(c)
      /\ \A m \in Filed(c) : entry'[m] = entry[m] /\ pending'[FieldOf(m)] = pending[FieldOf(m)]
    <2>1. PICK p : p = pending[FieldOf(w)]
        OBVIOUS
    <2>2. CASE p # None
        <3>1. p \in DOMAIN entry /\ FieldOf(p) = FieldOf(w) /\ Joins(w, p)
            BY <1>1, <2>1, <2>2 DEF Merge, Typed, ServerInv, EntryTypes
        <3>2. /\ DOMAIN entry' = DOMAIN entry /\ pending' = pending
              /\ \A m \in DOMAIN entry : m # p => entry'[m] = entry[m]
            BY <3>1 DEF Joins
        <3> QED BY <1>1, <1>2, <3>1, <3>2 DEF Filed, Owner
    <2>3. CASE p = None
        <3>1. /\ DOMAIN entry' = DOMAIN entry \cup {w}
              /\ pending' = [pending EXCEPT ![FieldOf(w)] = w]
              /\ \A m \in DOMAIN entry : m # w => entry'[m] = entry[m]
            BY <2>1, <2>3 DEF Merge, Opens
        <3>2. \A m \in Filed(c) : pending'[FieldOf(m)] = pending[FieldOf(m)]
            BY <1>2, <3>1 DEF Typed, ServerInv, EntryTypes
        <3> QED BY <1>1, <1>2, <3>1, <3>2 DEF Filed, Owner
    <2> QED BY <2>2, <2>3
<1>4. \A m \in Filed(c) : AloneInEntry(m)'
    BY <1>1, <1>3, SerialFiled, AloneStays
<1>5. Letters(c)' = Letters(c) /\ Answers(c)' = Answers(c)
    BY <1>1 DEF Letters, Owner, Answers
<1> QED BY <1>1, <1>3, <1>4, <1>5 DEF LeftAlone

\* The entries that remain are those that their fields have, and others not of c.
LEMMA FiledHeld ==
    ASSUME NEW c, NEW E, DOMAIN E = DOMAIN entry, ops' = ops,
           entry' = Held(E, pending', flush'),
           \A m \in Filed(c) : FieldOf(m) \in Fields /\ pending'[FieldOf(m)] = m /\ E[m] = entry[m]
    PROVE  Filed(c)' = Filed(c) /\ \A m \in Filed(c) : entry'[m] = entry[m]
<1>1. DOMAIN entry' \subseteq DOMAIN entry /\ \A k \in DOMAIN entry' : entry'[k] = E[k]
    BY EntriesHeld
<1>2. \A m \in Filed(c) : m \in DOMAIN entry'
    BY DEF Held, Filed
<1> QED BY <1>1, <1>2 DEF Filed, Owner

LEMMA OthersTimer ==
    ASSUME Typed, Moved, NEW c \in Clients, SharesNone(c), Serial(c),
           NEW k \in DOMAIN entry, Timer(k), Owner(k) # c
    PROVE  LeftAlone(c)
<1>1. UNCHANGED <<queueVars, pending>>
    BY DEF Timer
<1>2. k \in Updates /\ DOMAIN entry \subseteq Updates
    BY DEF Typed, ServerInv, EntryTypes
<1>3. \A m \in Filed(c) : /\ FieldOf(m) \in Fields /\ FieldOf(m) # FieldOf(k)
                          /\ m # k /\ AloneInEntry(m) /\ pending[FieldOf(m)] = m
    <2>1. \A m \in Filed(c) : m \in Updates /\ Owner(m) = c
        BY <1>2 DEF Filed
    <2> QED BY <1>2, <2>1, OwnersField, OperationFacts, SerialFiled
            DEF Typed, Updates, AloneInEntry
<1>4. PICK E : E = [entry EXCEPT ![k].timer = "off"]
    OBVIOUS
<1>5. DOMAIN E = DOMAIN entry /\ \A m \in DOMAIN entry : m # k => E[m] = entry[m]
    BY <1>4
<1>6. Filed(c)' = Filed(c) /\ \A m \in Filed(c) : entry'[m] = entry[m]
    <2>1. entry' = Held(E, pending', flush') /\ ops' = ops
        BY <1>1, <1>4 DEF Timer, queueVars
    <2>2. \A m \in Filed(c) : FieldOf(m) \in Fields /\ pending'[FieldOf(m)] = m /\ E[m] = entry[m]
        BY <1>1, <1>3, <1>5 DEF Filed
    <2> QED BY <1>5, <2>1, <2>2, FiledHeld
<1>7. \A m \in Filed(c) : \A x \in flush' : x.entry = m => x \in flush
    BY <1>3, TimerStarts
<1>8. flush \subseteq flush'
    BY TimerStarts
<1>9. \A m \in Filed(c) : AloneInEntry(m)'
    BY <1>1, <1>3, <1>6, <1>7, <1>8, AloneStays DEF queueVars
<1>10. Letters(c)' = Letters(c) /\ Answers(c)' = Answers(c)
    BY <1>1 DEF queueVars, Letters, Owner, Answers
<1> QED BY <1>1, <1>6, <1>9, <1>10 DEF LeftAlone, queueVars

LEMMA OthersFlushGoes ==
    ASSUME Typed, Moved, Peace, NEW c \in Clients, Serial(c),
           NEW x \in flush, Read(x) \/ Write(x), Owner(x.entry) # c
    PROVE  LeftAlone(c)
<1>1. UNCHANGED <<queueVars, pending, entry>>
    BY DEF Read, Write
<1>2. PICK y : flush' = (flush \ {x}) \cup {y} /\ y.entry = x.entry
    BY ReadReads, WriteWrites
<1>3. Filed(c)' = Filed(c) /\ Letters(c)' = Letters(c) /\ Answers(c)' = Answers(c)
    BY <1>1 DEF queueVars, Filed, Letters, Owner, Answers
<1>4. \A m \in Filed(c) : m # x.entry
    BY DEF Filed
<1>5. \A m \in Filed(c) : AloneInEntry(m)'
    BY <1>1, <1>2, <1>4, SerialFiled, AloneStays DEF queueVars
<1> QED BY <1>1, <1>3, <1>5 DEF LeftAlone, queueVars

LEMMA AnswersAppend ==
    ASSUME Typed, NEW c \in Clients, NEW n \in Notices, inbox'[c] = Append(inbox[c], n)
    PROVE  /\ \A i \in Answers(c) : inbox'[c][i] = inbox[c][i]
           /\ n.type # "confirmed" => Answers(c)' = Answers(c)
           /\ n.type = "confirmed" => Answers(c)' = Answers(c) \cup {Len(inbox[c]) + 1}
           /\ inbox'[c][Len(inbox[c]) + 1] = n /\ Len(inbox'[c]) = Len(inbox[c]) + 1
           /\ Len(inbox[c]) \in Nat
<1>1. inbox[c] \in Seq(Notices)
    BY DEF Typed, InboxTypes
<1>2. PICK q, r : q = inbox[c] /\ r = inbox'[c]
    OBVIOUS
<1>3. /\ Len(q) \in Nat /\ Len(r) = Len(q) + 1 /\ r[Len(q) + 1] = n
      /\ \A i \in 1 .. Len(q) : r[i] = q[i]
    BY <1>1, <1>2, AppendProperties, LenProperties
<1>4. \A i \in 1 .. Len(r) : i \in 1 .. Len(q) \/ i = Len(q) + 1
    BY <1>3
<1>5. \A i \in 1 .. Len(q) : i \in 1 .. Len(r)
    BY <1>3
<1>6. Len(q) + 1 \in 1 .. Len(r)
    BY <1>3
<1> QED BY <1>2, <1>3, <1>4, <1>5, <1>6 DEF Answers

LEMMA OthersAnswer ==
    ASSUME Typed, Moved, Peace, OneField, NEW c \in Clients, SharesNone(c), Serial(c),
           NEW x \in flush, Answer(x), x.step = "done", Owner(x.entry) # c
    PROVE  LeftAlone(c)
<1>1. /\ x.entry \in Updates /\ FieldOf(x.entry) \in Fields
      /\ entry[x.entry].waiting \subseteq Updates /\ x.entry \in DOMAIN entry
    BY FlushFacts DEF Typed, Flights
<1>2. /\ UNCHANGED <<ops, client, sent>> /\ flush' = flush \ {x}
      /\ pending' = [pending EXCEPT ![FieldOf(x.entry)] = None]
      /\ entry' = Held(entry, pending', flush')
    BY DEF Answer, Dropped
<1>3. WaitsIn(x.entry, c) = {}
    <2>1. \A w \in entry[x.entry].waiting : FieldOf(x.entry) = FieldOf(w)
        BY <1>1 DEF OneField
    <2>2. \A w \in entry[x.entry].waiting : Owner(w) # c
        BY <1>1, <2>1, OwnersField
    <2> QED BY <2>2 DEF WaitsIn
<1>4. inbox'[c] = Append(inbox[c], NewsOf(x))
    BY <1>3, AnswerTells
<1>5. NewsOf(x) \in Notices /\ NewsOf(x).type # "confirmed"
    BY NewsOfTyped
<1>6. Answers(c)' = Answers(c) /\ \A i \in Answers(c) : inbox'[c][i] = inbox[c][i]
    BY <1>4, <1>5, AnswersAppend
<1>7. \A m \in Filed(c) : /\ FieldOf(m) \in Fields /\ FieldOf(m) # FieldOf(x.entry)
                          /\ m # x.entry /\ AloneInEntry(m) /\ pending[FieldOf(m)] = m
    <2>1. \A m \in Filed(c) : m \in Updates /\ Owner(m) = c
        BY DEF Filed, Typed, ServerInv, EntryTypes
    <2> QED BY <1>1, <2>1, OwnersField, OperationFacts, SerialFiled
            DEF Typed, Updates, AloneInEntry
<1>8. \A m \in Filed(c) : pending'[FieldOf(m)] = m
    BY <1>2, <1>7 DEF Typed, ServerInv, EntryTypes
<1>9. Filed(c)' = Filed(c) /\ \A m \in Filed(c) : entry'[m] = entry[m]
    BY <1>2, <1>7, <1>8, FiledHeld
<1>10. \A m \in Filed(c) : AloneInEntry(m)'
    BY <1>2, <1>7, <1>8, <1>9, AloneStays
<1>11. Letters(c)' = Letters(c)
    BY <1>2 DEF Letters, Owner
<1> QED BY <1>2, <1>6, <1>9, <1>10, <1>11 DEF LeftAlone

-----------------------------------------------------------------------------
(* Its own steps keep one operation on its way.                              *)

LEMMA NextGoesOut ==
    ASSUME Typed, Moved, Peace, NEW c \in Clients, NEW l, Becomes(c, l), Orderly(l),
           UNCHANGED <<pending, entry, flush>>,
           Letters(c) = {}, Filed(c) = {}, Answers(c)' = {},
           InFlight(l) \cap InFlight(client[c]) = {}
    PROVE  Serial(c)'
<1>1. client'[c] = l /\ Letters(c)' = {Letter(e) : e \in InFlight(l)}
    BY LettersOfSender
<1>2. Filed(c)' = {}
    BY FiledStays
<1>3. CASE InFlight(l) = {}
    BY <1>1, <1>2, <1>3 DEF Serial, NoneSent
<1>4. CASE InFlight(l) # {}
    <2>1. PICK e : e \in InFlight(l) /\ InFlight(l) = {e}
        BY <1>4 DEF Orderly
    <2>2. Letters(c)' = {Letter(e)}
        BY <1>1, <2>1
    <2>3. OnItsWay(c, Letter(e))'
        BY <1>2, <2>2 DEF OnItsWay, Letter
    <2> QED BY <1>1, <2>1, <2>3 DEF Serial
<1> QED BY <1>3, <1>4

LEMMA NextIsOrdered ==
    ASSUME Typed, NEW c \in Clients
    PROVE  /\ Len(ops) \in Nat /\ Well(client[c]) /\ Len(ops) + 1 \notin Queued(client[c])
           /\ \A e \in client[c].queue : e.id < Len(ops) + 1 /\ e.id \in Int
<1>1. Len(ops) \in Nat /\ Well(client[c])
    BY LenProperties DEF Typed, ClientInv, ClientTypes, QueuesWell
<1>2. \A e \in client[c].queue : e.id \in Ids /\ e.id <= Len(ops)
    BY DEF Typed, ClientInv, OwnQueue, ClientTypes, States, Entries
<1>3. \A e \in client[c].queue : e.id < Len(ops) + 1 /\ e.id \in Int
    BY <1>1, <1>2, QueueConstants DEF Ids
<1>4. Len(ops) + 1 \notin Queued(client[c])
    BY <1>1, <1>3 DEF Queued
<1> QED BY <1>1, <1>3, <1>4

LEMMA OwnEdit ==
    ASSUME Typed, Moved, Peace, NEW c \in Clients, Serial(c),
           NEW f \in Fields, NEW v \in Values, SetValue(c, f, v), UNCHANGED serverVars
    PROVE  Serial(c)'
<1>1. PICK k, l, o, id :
          /\ k = client[c] /\ id = Len(ops) + 1 /\ o = [by |-> c, kind |-> "set", field |-> f, value |-> v]
          /\ l = Added(c, k, id, o)
    OBVIOUS
<1>2. Becomes(c, l) /\ inbox' = inbox /\ Len(ops) < MaxOps
    BY <1>1 DEF SetValue, MayEdit
<1>3. /\ Well(k) /\ Orderly(k) /\ id \in Ids /\ \A e \in k.queue : e.id < id
    BY <1>1, <1>2, NextIsOrdered, QueueConstants DEF Ids, Serial
<1>4. Orderly(l) /\ SendsOne(k, l)
    BY <1>1, <1>3, AddedOrderly
<1>5. UNCHANGED <<pending, entry, flush>>
    BY DEF serverVars
<1>6. CASE InFlight(l) = InFlight(k)
    <2>1. client'[c] = l /\ Letters(c)' = Letters(c)
        BY <1>1, <1>2, <1>6, LettersOfSender
    <2>2. Filed(c)' = Filed(c) /\ \A m \in Filed(c) : AloneInEntry(m) => AloneInEntry(m)'
        BY <1>5, FiledStays
    <2>3. CASE NoneSent(c)
        BY <1>1, <1>2, <1>4, <1>6, <2>1, <2>2, <2>3 DEF Serial, NoneSent, Answers
    <2>4. ASSUME NEW e \in InFlight(k), OnItsWay(c, Letter(e)) PROVE OnItsWay(c, Letter(e))'
        BY <1>2, <2>1, <2>2, <2>4 DEF OnItsWay, Answers, Letter
    <2>5. ASSUME NEW e \in InFlight(k), InItsEntry(c, Letter(e)) PROVE InItsEntry(c, Letter(e))'
        <3>1. PICK m : m = Letter(e)
            OBVIOUS
        <3>2. AloneInEntry(m)' /\ Letter(e)' = m
            BY <2>2, <2>5, <3>1 DEF InItsEntry, Letter
        <3> QED BY <1>2, <2>1, <2>2, <2>5, <3>1, <3>2 DEF InItsEntry, Answers, Letter
    <2>6. ASSUME NEW e \in InFlight(k), IsAnswered(c, Letter(e)) PROVE IsAnswered(c, Letter(e))'
        BY <1>2, <2>1, <2>2, <2>6 DEF IsAnswered, Answers, Letter
    <2> QED BY <1>1, <1>4, <1>6, <2>1, <2>3, <2>4, <2>5, <2>6 DEF Serial
<1>7. CASE InFlight(k) = {}
    <2>1. NoneSent(c)
        BY <1>1, <1>7 DEF Serial
    <2>2. Answers(c)' = {}
        BY <1>2, <2>1 DEF NoneSent, Answers
    <2> QED BY <1>1, <1>2, <1>4, <1>5, <1>7, <2>1, <2>2, NextGoesOut DEF NoneSent
<1> QED BY <1>4, <1>6, <1>7 DEF SendsOne

(* No timeout comes: an answer is on its way as long as one is awaited. *)
LEMMA NoTimeout ==
    ASSUME Typed, Peace, NEW c \in Clients, Serial(c), NEW id
    PROVE  /\ ~ Retries(c, id)
           /\ TimesOut(c, id) => Answered(c, id)
<1>1. ~ Retries(c, id)
    BY DEF Retries, Serial, Orderly
<1>2. ASSUME id \in client[c].deadlines PROVE Answered(c, id)
    <2>1. PICK e \in InFlight(client[c]) : e.id = id /\ InFlight(client[c]) = {e}
        BY <1>2 DEF Typed, ClientInv, QueuesWell, Well, Serial, Orderly
    <2>2. PICK m : m = Letter(e)
        OBVIOUS
    <2>3. OnItsWay(c, m) \/ InItsEntry(c, m) \/ IsAnswered(c, m)
        BY <2>1, <2>2 DEF Serial, NoneSent
    <2>4. m.id = id /\ m.at = 0
        BY <2>1, <2>2 DEF Letter
    <2>5. CASE OnItsWay(c, m)
        <3>1. m \in sent
            BY <2>5 DEF OnItsWay, Letters
        <3>2. Alive(m)
            BY <2>4, <3>1, PeaceAlive DEF Typed, ServerInv, MessageTypes
        <3> QED BY <2>4, <3>1, <3>2 DEF Answered
    <2>6. CASE InItsEntry(c, m)
        <3>1. m \in DOMAIN entry /\ AloneInEntry(m)
            BY <2>6 DEF InItsEntry, Filed
        <3>2. Alive(m)
            BY <2>4, <3>1, PeaceAlive DEF Typed, ServerInv, EntryTypes, Updates
        <3>3. m \in entry[m].waiting
            BY <3>1 DEF AloneInEntry
        <3>4. entry[m].timer # "off" \/ \E x \in flush : x.entry = m
            BY <3>1 DEF AloneInEntry, FlushesOf
        <3> QED BY <2>4, <3>1, <3>2, <3>3, <3>4 DEF Answered
    <2>7. CASE IsAnswered(c, m)
        <3>1. PICK i \in 1 .. Len(inbox[c]) : i \in Answers(c) /\ inbox[c][i].id = id
            BY <2>4, <2>7 DEF IsAnswered
        <3> QED BY <3>1 DEF Answered, Answers
    <2> QED BY <2>3, <2>5, <2>6, <2>7
<1> QED BY <1>1, <1>2 DEF TimesOut

(* What a client without a failure receives is a confirmation or a value. *)
LEMMA Hears ==
    ASSUME Typed, Peace, NEW c \in Clients, Receive(c)
    PROVE  /\ UNCHANGED <<ops, skipped, serverVars>>
           /\ \/ /\ HearsConfirmed(c, inbox[c][1])
                 /\ Answers(c) # {} /\ 1 \in Answers(c)
              \/ /\ HearsValue(c, inbox[c][1])
                 /\ 1 \notin Answers(c)
           /\ \A i \in Answers(c)' : i + 1 \in Answers(c) /\ inbox'[c][i] = inbox[c][i + 1]
           /\ \A i \in Answers(c) : i # 1 => i - 1 \in Answers(c)' /\ i \in Nat
<1>1. PICK n : n = inbox[c][1]
    OBVIOUS
<1>2. 1 \in 1 .. Len(inbox[c]) /\ Head(inbox[c]) = n
    BY <1>1, ReceiveTail
<1>3. n.type \in {"confirmed", "value"}
    BY <1>1, <1>2 DEF Peace, Heard
<1>4. \/ HearsConfirmed(c, n) /\ n.type = "confirmed"
      \/ HearsValue(c, n) /\ n.type = "value"
    BY <1>2, <1>3 DEF Receive, HearsConfirmed, HearsFailed, HearsValue, HearsRemoved
<1>5. n.type = "confirmed" <=> 1 \in Answers(c)
    BY <1>1, <1>2 DEF Answers
<1>6. \A i \in Answers(c)' : i + 1 \in Answers(c) /\ inbox'[c][i] = inbox[c][i + 1]
    BY ReceiveTail DEF Answers
<1>7. \A i \in Answers(c) : i # 1 => i - 1 \in Answers(c)' /\ i \in Nat
    <2>1. ASSUME NEW i \in 1 .. Len(inbox[c]), i # 1
          PROVE  i \in Nat /\ i - 1 \in 1 .. Len(inbox'[c]) /\ inbox'[c][i - 1] = inbox[c][i]
        <3>1. i \in Nat /\ i - 1 \in 1 .. Len(inbox'[c]) /\ (i - 1) + 1 = i
            BY <2>1, ReceiveTail
        <3>2. inbox'[c][i - 1] = inbox[c][(i - 1) + 1]
            BY <3>1, ReceiveTail
        <3> QED BY <3>1, <3>2
    <2> QED BY <2>1 DEF Answers
<1> QED BY <1>1, <1>4, <1>5, <1>6, <1>7 DEF Receive

LEMMA OwnReceive ==
    ASSUME Typed, Moved, Peace, NEW c \in Clients, Serial(c), Receive(c)
    PROVE  Serial(c)'
<1>1. UNCHANGED <<pending, entry, flush>>
    BY Hears DEF serverVars
<1>2. CASE HearsConfirmed(c, inbox[c][1]) /\ 1 \in Answers(c)
    <2>1. PICK e \in InFlight(client[c]) : IsAnswered(c, Letter(e))
        BY <1>2 DEF Serial, NoneSent, OnItsWay, InItsEntry
    <2>2. Answers(c) = {1} /\ inbox[c][1].id = e.id
        BY <1>2, <2>1 DEF IsAnswered, Letter
    <2>3. PICK l : l = Confirmed(c, client[c], e.id)
        OBVIOUS
    <2>4. Becomes(c, l)
        BY <1>2, <2>2, <2>3 DEF HearsConfirmed
    <2>5. Orderly(l) /\ InFlight(l) \cap InFlight(client[c]) = {}
        <3>1. Well(client[c]) /\ Orderly(client[c])
            BY DEF Typed, ClientInv, QueuesWell, Serial
        <3> QED BY <2>3, <3>1, ConfirmedOrderly
    <2>6. Answers(c)' = {}
        <3>1. \A i \in Answers(c)' : i + 1 = 1 /\ i \in 1 .. Len(inbox'[c])
            BY <2>2, Hears DEF Answers
        <3>2. \A i \in Answers(c)' : FALSE
            BY <3>1, ReceiveTail
        <3> QED BY <3>2
    <2> QED BY <1>1, <2>1, <2>4, <2>5, <2>6, NextGoesOut DEF IsAnswered
<1>3. CASE HearsValue(c, inbox[c][1]) /\ 1 \notin Answers(c)
    <2>1. UNCHANGED <<client, sent, ops>>
        BY <1>3, Hears DEF HearsValue
    <2>2. Letters(c)' = Letters(c)
        BY <2>1 DEF Letters, Owner
    <2>3. Filed(c)' = Filed(c) /\ \A m \in Filed(c) : AloneInEntry(m) => AloneInEntry(m)'
        BY <1>1, FiledStays
    <2>4. Answers(c) = {} => Answers(c)' = {}
        BY Hears
    <2>5. CASE NoneSent(c)
        BY <2>1, <2>2, <2>3, <2>4, <2>5 DEF Serial, NoneSent
    <2>6. ASSUME NEW e \in InFlight(client[c]), OnItsWay(c, Letter(e)) PROVE OnItsWay(c, Letter(e))'
        BY <2>2, <2>3, <2>4, <2>6 DEF OnItsWay, Letter
    <2>7. ASSUME NEW e \in InFlight(client[c]), InItsEntry(c, Letter(e)) PROVE InItsEntry(c, Letter(e))'
        <3>1. PICK m : m = Letter(e)
            OBVIOUS
        <3>2. AloneInEntry(m)' /\ Letter(e)' = m
            BY <2>3, <2>7, <3>1 DEF InItsEntry, Letter
        <3> QED BY <2>2, <2>3, <2>4, <2>7, <3>1, <3>2 DEF InItsEntry
    <2>8. ASSUME NEW e \in InFlight(client[c]), IsAnswered(c, Letter(e)) PROVE IsAnswered(c, Letter(e))'
        <3>1. PICK i \in 1 .. Len(inbox[c]) : Answers(c) = {i} /\ inbox[c][i].id = e.id
            BY <2>8 DEF IsAnswered, Letter
        <3>2. i # 1 /\ i - 1 \in Answers(c)' /\ i \in Nat
            BY <1>3, <3>1, Hears
        <3>3. \A j \in Answers(c)' : j + 1 = i /\ inbox'[c][j] = inbox[c][i]
            BY <3>1, Hears
        <3>4. \A j \in Answers(c)' : j \in Nat
            BY DEF Answers
        <3>5. Answers(c)' = {i - 1} /\ inbox'[c][i - 1].id = e.id
            BY <3>1, <3>2, <3>3, <3>4
        <3>6. i - 1 \in 1 .. Len(inbox'[c])
            BY <3>2 DEF Answers
        <3> QED BY <2>2, <2>3, <2>8, <3>5, <3>6 DEF IsAnswered, Letter
    <2> QED BY <2>1, <2>5, <2>6, <2>7, <2>8 DEF Serial
<1> QED BY <1>2, <1>3, Hears

\* The update m of c is in flight.
Awaited(c, m) == \E e \in InFlight(client[c]) : m = Letter(e)

LEMMA SerialNow ==
    ASSUME NEW c, NEW m, ops' = ops, client' = client, Serial(c), Awaited(c, m),
           InItsEntry(c, m)' \/ IsAnswered(c, m)'
    PROVE  Serial(c)'
<1>1. PICK e \in InFlight(client[c]) : m = Letter(e)
    BY DEF Awaited
<1>2. Letter(e)' = m
    BY <1>1 DEF Letter
<1>3. InItsEntry(c, Letter(e))' \/ IsAnswered(c, Letter(e))'
    BY <1>1, <1>2 DEF InItsEntry, IsAnswered, AloneInEntry, FlushesOf, FieldOf
<1> QED BY <1>1, <1>3 DEF Serial

LEMMA OwnMerge ==
    ASSUME Typed, Moved, Peace, NEW c \in Clients, SharesNone(c), Serial(c),
           NEW m \in sent, Merge(m), Owner(m) = c
    PROVE  Serial(c)'
<1>1. /\ m \in Updates /\ FieldOf(m) \in Fields /\ sent' = sent \ {m}
      /\ UNCHANGED <<ops, client, inbox, flush>>
    BY OperationFacts DEF Merge, Typed, ServerInv, MessageTypes, Updates
<1>2. OnItsWay(c, m) /\ Awaited(c, m)
    <2>1. m \in Letters(c)
        BY DEF Letters
    <2>2. PICK e \in InFlight(client[c]) : OnItsWay(c, Letter(e))
        BY <2>1 DEF Serial, NoneSent, InItsEntry, IsAnswered
    <2>3. m = Letter(e)
        BY <2>1, <2>2 DEF OnItsWay
    <2> QED BY <2>2, <2>3 DEF Awaited
<1>3. pending[FieldOf(m)] = None
    <2>1. SUFFICES ASSUME pending[FieldOf(m)] # None PROVE FALSE
        OBVIOUS
    <2>2. PICK p : p = pending[FieldOf(m)]
        OBVIOUS
    <2>3. p \in DOMAIN entry /\ FieldOf(p) = FieldOf(m) /\ p \in Updates
        BY <1>1, <2>1, <2>2 DEF Typed, ServerInv, EntryTypes
    <2>4. Owner(p) = c
        BY <1>1, <2>3, OwnersField
    <2> QED BY <1>2, <2>3, <2>4 DEF OnItsWay, Filed
<1>4. /\ entry' = [k \in DOMAIN entry \cup {m} |->
                      IF k = m THEN [latest |-> m, waiting |-> {m}, timer |-> "lookup"]
                      ELSE entry[k]]
      /\ pending' = [pending EXCEPT ![FieldOf(m)] = m]
    BY <1>3 DEF Merge, Opens
<1>5. DOMAIN entry' = DOMAIN entry \cup {m} /\ pending'[FieldOf(m)] = m
      /\ entry'[m] = [latest |-> m, waiting |-> {m}, timer |-> "lookup"]
    BY <1>1, <1>4 DEF Typed, ServerInv, EntryTypes
<1>6. Letters(c)' = {} /\ Filed(c)' = {m} /\ Answers(c)' = {}
    BY <1>1, <1>2, <1>5 DEF OnItsWay, Letters, Filed, Answers, Owner
<1>7. FlushesOf(m)' = {}
    <2>1. m \notin DOMAIN entry
        BY <1>2 DEF OnItsWay, Filed
    <2> QED BY <1>1, <2>1 DEF FlushesOf, Typed, ServerInv, FlushTypes
<1>8. AloneInEntry(m)'
    BY <1>1, <1>5, <1>7 DEF AloneInEntry, FieldOf
<1>9. InItsEntry(c, m)'
    BY <1>6, <1>8 DEF InItsEntry
<1> QED BY <1>1, <1>2, <1>9, SerialNow

\* What is filed of c is what is in flight.
LEMMA FiledIsAwaited ==
    ASSUME NEW c, Serial(c), NEW m \in Filed(c)
    PROVE  InItsEntry(c, m) /\ Awaited(c, m)
<1>1. PICK e \in InFlight(client[c]) : InItsEntry(c, Letter(e))
    BY DEF Serial, NoneSent, OnItsWay, IsAnswered
<1>2. m = Letter(e)
    BY <1>1 DEF InItsEntry
<1> QED BY <1>1, <1>2 DEF Awaited

LEMMA OwnTimer ==
    ASSUME Typed, NEW c \in Clients, Serial(c),
           NEW m \in DOMAIN entry, Timer(m), Owner(m) = c
    PROVE  Serial(c)'
<1>1. m \in Filed(c) /\ FieldOf(m) \in Fields /\ m \in Updates
    BY OperationFacts DEF Filed, Typed, ServerInv, EntryTypes, Updates
<1>2. InItsEntry(c, m) /\ Awaited(c, m) /\ Filed(c) = {m}
    BY <1>1, FiledIsAwaited DEF InItsEntry
<1>3. UNCHANGED <<ops, client, sent, inbox, pending>>
    BY DEF Timer, queueVars
<1>4. entry[m].timer = "lookup" /\ FlushesOf(m) = {}
    BY <1>2 DEF InItsEntry, AloneInEntry, Timer
<1>5. entry[m].latest = m /\ entry[m].waiting = {m} /\ pending[FieldOf(m)] = m
    BY <1>2 DEF InItsEntry, AloneInEntry
<1>6. PICK y : flush' = flush \cup {y} /\ y.entry = m /\ y.of = m
    <2>1. m # None
        BY <1>1, NoneIsNoMessage DEF Updates, Asked
    <2>2. PICK y : y = [entry |-> m, of |-> entry[m].latest, by |-> m, step |-> "reads", seen |-> <<>>]
        OBVIOUS
    <2>3. flush' = flush \cup {y}
        BY <1>4, <1>5, <2>1, <2>2 DEF Timer
    <2> QED BY <1>5, <2>2, <2>3
<1>7. FlushesOf(m)' = {y}
    BY <1>4, <1>6 DEF FlushesOf
<1>8. PICK E : E = [entry EXCEPT ![m].timer = "off"]
    OBVIOUS
<1>9. /\ DOMAIN E = DOMAIN entry
      /\ E[m].timer = "off" /\ E[m].latest = m /\ E[m].waiting = {m}
    <2>1. entry[m] \in Slots
        BY DEF Typed, ServerInv, EntryTypes
    <2> QED BY <1>5, <1>8, <2>1 DEF Slots
<1>10. m \in DOMAIN entry' /\ DOMAIN entry' \subseteq DOMAIN entry /\ entry'[m] = E[m]
    <2>1. entry' = Held(E, pending, flush')
        BY <1>8 DEF Timer
    <2>2. m \in DOMAIN Held(E, pending, flush')
        BY <1>1, <1>5, <1>9 DEF Held
    <2> QED BY <1>9, <2>1, <2>2, EntriesHeld
<1>11. Letters(c)' = {} /\ Filed(c)' = {m} /\ Answers(c)' = {}
    BY <1>2, <1>3, <1>10 DEF InItsEntry, Letters, Filed, Answers, Owner
<1>12. AloneInEntry(m)'
    BY <1>3, <1>5, <1>6, <1>7, <1>9, <1>10 DEF AloneInEntry, FieldOf
<1>13. InItsEntry(c, m)'
    BY <1>11, <1>12 DEF InItsEntry
<1> QED BY <1>2, <1>3, <1>13, SerialNow

\* The flush of what is filed of c is that of its own update alone.
LEMMA OwnFlush ==
    ASSUME Typed, NEW c, Serial(c), NEW x \in flush, Owner(x.entry) = c
    PROVE  /\ InItsEntry(c, x.entry) /\ Awaited(c, x.entry) /\ Filed(c) = {x.entry}
           /\ FlushesOf(x.entry) = {x} /\ x.of = x.entry
           /\ entry[x.entry].waiting = {x.entry} /\ entry[x.entry].latest = x.entry
           /\ entry[x.entry].timer = "off" /\ pending[FieldOf(x.entry)] = x.entry
<1>1. x.entry \in Filed(c)
    BY DEF Typed, ServerInv, FlushTypes, Filed
<1>2. InItsEntry(c, x.entry) /\ Awaited(c, x.entry)
    BY <1>1, FiledIsAwaited
<1>3. x \in FlushesOf(x.entry)
    BY DEF FlushesOf
<1> QED BY <1>2, <1>3 DEF InItsEntry, AloneInEntry

LEMMA OwnFlushGoes ==
    ASSUME Typed, Peace, NEW c \in Clients, Serial(c),
           NEW x \in flush, Read(x) \/ Write(x), Owner(x.entry) = c
    PROVE  Serial(c)'
<1>1. UNCHANGED <<queueVars, pending, entry>>
    BY DEF Read, Write
<1>2. PICK y : flush' = (flush \ {x}) \cup {y} /\ y.entry = x.entry /\ y.of = x.of
    BY ReadReads, WriteWrites
<1>3. PICK m : m = x.entry
    OBVIOUS
<1>4. /\ InItsEntry(c, m) /\ Awaited(c, m) /\ Filed(c) = {m}
      /\ FlushesOf(m) = {x} /\ x.of = m
      /\ entry[m].waiting = {m} /\ entry[m].latest = m
      /\ entry[m].timer = "off" /\ pending[FieldOf(m)] = m
    BY <1>3, OwnFlush
<1>5. FlushesOf(m)' = {y}
    BY <1>2, <1>3, <1>4 DEF FlushesOf
<1>6. AloneInEntry(m)'
    BY <1>1, <1>2, <1>4, <1>5 DEF AloneInEntry, FieldOf, queueVars
<1>7. InItsEntry(c, m)'
    BY <1>1, <1>4, <1>6 DEF InItsEntry, Letters, Filed, Answers, Owner, queueVars
<1> QED BY <1>1, <1>4, <1>7, SerialNow DEF queueVars

LEMMA OwnAnswer ==
    ASSUME Typed, Peace, NEW c \in Clients, Serial(c),
           NEW x \in flush, Answer(x), x.step = "done", Owner(x.entry) = c
    PROVE  Serial(c)'
<1>1. PICK m : m = x.entry
    OBVIOUS
<1>2. /\ InItsEntry(c, m) /\ Awaited(c, m) /\ Filed(c) = {m}
      /\ FlushesOf(m) = {x} /\ entry[m].waiting = {m}
      /\ entry[m].timer = "off" /\ pending[FieldOf(m)] = m
    BY <1>1, OwnFlush
<1>3. m \in Asked /\ m \in DOMAIN entry /\ Owner(m) = c /\ FieldOf(m) \in Fields
    BY <1>1, FlushFacts DEF Typed, Flights, Updates
<1>4. /\ UNCHANGED <<ops, client, sent>> /\ flush' = flush \ {x}
      /\ pending' = [pending EXCEPT ![FieldOf(m)] = None]
      /\ entry' = Held(entry, pending', flush')
    BY <1>1 DEF Answer, Dropped
<1>5. inbox'[c] = Append(inbox[c], Yes[m.id])
    <2>1. WaitsIn(x.entry, c) = {m}
        BY <1>1, <1>2, <1>3 DEF WaitsIn
    <2> QED BY <2>1, AnswerTells
<1>6. /\ Answers(c)' = Answers(c) \cup {Len(inbox[c]) + 1}
      /\ inbox'[c][Len(inbox[c]) + 1].id = m.id
      /\ Len(inbox[c]) + 1 \in 1 .. Len(inbox'[c])
    <2>1. Yes[m.id] \in Notices /\ Yes[m.id].type = "confirmed" /\ Yes[m.id].id = m.id
        BY <1>3, YesTyped
    <2> QED BY <1>5, <2>1, AnswersAppend
<1>7. Answers(c) = {} /\ Letters(c) = {}
    BY <1>2 DEF InItsEntry
<1>8. m \notin DOMAIN entry'
    <2>1. \A f \in Fields : pending'[f] # m
        <3>1. m # None
            BY <1>3, NoneIsNoMessage DEF Asked
        <3>2. \A f \in Fields : pending[f] = m => f = FieldOf(m)
            BY <3>1 DEF Typed, ServerInv, EntryTypes
        <3> QED BY <1>3, <1>4, <3>1, <3>2 DEF Typed, ServerInv, EntryTypes
    <2>2. \A z \in flush' : z.entry # m
        BY <1>2, <1>4 DEF FlushesOf
    <2> QED BY <1>2, <1>4, <2>1, <2>2 DEF Held
<1>9. Filed(c)' = {} /\ Letters(c)' = {}
    <2>1. DOMAIN entry' \subseteq DOMAIN entry
        BY <1>4, EntriesHeld
    <2>2. UNCHANGED <<ops, sent>>
        BY <1>4
    <2>3. \A k \in DOMAIN entry' : k \notin Filed(c)
        BY <1>2, <1>8
    <2>4. Filed(c)' = {}
        BY <2>1, <2>2, <2>3 DEF Filed, Owner
    <2>5. Letters(c)' = {}
        BY <1>7, <2>2 DEF Letters, Owner
    <2> QED BY <2>4, <2>5
<1>10. IsAnswered(c, m)'
    BY <1>6, <1>7, <1>9 DEF IsAnswered
<1> QED BY <1>2, <1>4, <1>10, SerialNow

LEMMA SerialStep ==
    ASSUME Typed, Moved, Peace, OneField, QuietNext,
           NEW c \in Clients, SharesNone(c), Serial(c)
    PROVE  Serial(c)'
<1>1. ASSUME NEW d \in Clients, NEW f \in Fields, NEW v \in Values,
             SetValue(d, f, v), UNCHANGED serverVars
      PROVE  Serial(c)'
    <2>1. CASE d = c
        BY <1>1, <2>1, OwnEdit
    <2>2. CASE d # c
        BY <1>1, <2>2, OthersQueueStep, SerialStays
    <2> QED BY <2>1, <2>2
<1>2. ASSUME NEW d \in Clients, NEW id, Retries(d, id), UNCHANGED serverVars
      PROVE  Serial(c)'
    <2>1. d # c
        BY <1>2, NoTimeout
    <2> QED BY <1>2, <2>1, OthersQueueStep, SerialStays
<1>3. ASSUME NEW d \in Clients, NEW id, TimesOut(d, id), ~ Answered(d, id), UNCHANGED serverVars
      PROVE  Serial(c)'
    <2>1. d # c
        BY <1>3, NoTimeout
    <2> QED BY <1>3, <2>1, OthersQueueStep, SerialStays
<1>4. ASSUME NEW d \in Clients, Receive(d) PROVE Serial(c)'
    <2>1. CASE d = c
        BY <1>4, <2>1, OwnReceive
    <2>2. CASE d # c
        BY <1>4, <2>2, OthersQueueStep, SerialStays
    <2> QED BY <2>1, <2>2
<1>5. ASSUME NEW m \in sent, Merge(m) PROVE Serial(c)'
    <2>1. CASE Owner(m) = c
        BY <1>5, <2>1, OwnMerge
    <2>2. CASE Owner(m) # c
        BY <1>5, <2>2, OthersMerge, SerialStays
    <2> QED BY <2>1, <2>2
<1>6. ASSUME NEW k \in DOMAIN entry, Timer(k) PROVE Serial(c)'
    <2>1. CASE Owner(k) = c
        BY <1>6, <2>1, OwnTimer
    <2>2. CASE Owner(k) # c
        BY <1>6, <2>2, OthersTimer, SerialStays
    <2> QED BY <2>1, <2>2
<1>7. ASSUME NEW x \in flush, Read(x) \/ Write(x) PROVE Serial(c)'
    <2>1. CASE Owner(x.entry) = c
        BY <1>7, <2>1, OwnFlushGoes
    <2>2. CASE Owner(x.entry) # c
        BY <1>7, <2>2, OthersFlushGoes, SerialStays
    <2> QED BY <2>1, <2>2
<1>8. ASSUME NEW x \in flush, Answer(x), x.step = "done" PROVE Serial(c)'
    <2>1. CASE Owner(x.entry) = c
        BY <1>8, <2>1, OwnAnswer
    <2>2. CASE Owner(x.entry) # c
        BY <1>8, <2>2, OthersAnswer, SerialStays
    <2> QED BY <2>1, <2>2
<1>9. ASSUME UNCHANGED vars PROVE Serial(c)'
    <2>1. UNCHANGED <<ops, client, sent, inbox, pending, entry, flush>>
        BY <1>9 DEF vars, queueVars, serverVars
    <2>2. LeftAlone(c)
        <3>1. Letters(c)' = Letters(c) /\ Answers(c)' = Answers(c)
            BY <2>1 DEF Letters, Owner, Answers
        <3>2. Filed(c)' = Filed(c) /\ \A m \in Filed(c) : AloneInEntry(m)'
            BY <2>1, FiledStays, SerialFiled
        <3> QED BY <2>1, <3>1, <3>2 DEF LeftAlone
    <2> QED BY <2>2, SerialStays
<1> QED BY <1>1, <1>2, <1>3, <1>4, <1>5, <1>6, <1>7, <1>8, <1>9 DEF QuietNext

-----------------------------------------------------------------------------
(* What will be shown.                                                       *)

LEMMA ShowsNews ==
    ASSUME NEW q \in Seq(Notices), NEW n \in Notices, NEW w, NEW f, IsNews(n, f)
    PROVE  WillShow(Append(q, n), w, f, n.value)
<1>1. PICK r : r = Append(q, n)
    OBVIOUS
<1>2. Len(q) \in Nat /\ Len(r) = Len(q) + 1 /\ r[Len(q) + 1] = n
    BY <1>1, AppendProperties, LenProperties
<1>3. Len(q) + 1 \in 1 .. Len(r) /\ \A j \in 1 .. Len(r) : ~ (j > Len(q) + 1)
    BY <1>2
<1> QED BY <1>1, <1>2, <1>3 DEF WillShow

LEMMA ShowsStill ==
    ASSUME NEW q, NEW r, NEW T, NEW w, NEW f, NEW v, WillShow(q, w, f, v),
           Longer(q, r, T), \A n \in T : ~ IsNews(n, f)
    PROVE  WillShow(r, w, f, v)
<1>1. /\ Len(q) \in Nat /\ Len(r) \in Nat /\ Len(q) <= Len(r)
      /\ \A i \in 1 .. Len(q) : i \in 1 .. Len(r) /\ r[i] = q[i]
      /\ \A i \in 1 .. Len(r) : i > Len(q) => ~ IsNews(r[i], f)
    BY DEF Longer
<1>2. \A i \in 1 .. Len(r) : i > Len(q) \/ i \in 1 .. Len(q)
    BY <1>1
<1>3. CASE w = v /\ \A i \in 1 .. Len(q) : ~ IsNews(q[i], f)
    <2>1. \A i \in 1 .. Len(r) : ~ IsNews(r[i], f)
        BY <1>1, <1>2, <1>3
    <2> QED BY <1>3, <2>1 DEF WillShow
<1>4. ASSUME NEW i \in 1 .. Len(q), IsNews(q[i], f), q[i].value = v,
             \A j \in 1 .. Len(q) : j > i => ~ IsNews(q[j], f)
      PROVE  WillShow(r, w, f, v)
    <2>1. i \in 1 .. Len(r) /\ r[i] = q[i]
        BY <1>1
    <2>2. ASSUME NEW j \in 1 .. Len(r), j > i PROVE ~ IsNews(r[j], f)
        <3>1. CASE j > Len(q)
            BY <1>1, <3>1
        <3>2. CASE j \in 1 .. Len(q)
            BY <1>1, <1>4, <2>2, <3>2
        <3> QED BY <1>2, <3>1, <3>2
    <2> QED BY <1>4, <2>1, <2>2 DEF WillShow
<1> QED BY <1>3, <1>4 DEF WillShow

LEMMA ShowsFirst ==
    ASSUME NEW q, NEW r, NEW w, NEW u, NEW f, NEW v, WillShow(q, w, f, v),
           Len(q) \in Nat, 1 \in 1 .. Len(q), Len(r) = Len(q) - 1,
           \A i \in 1 .. Len(r) : r[i] = q[i + 1],
           u = IF IsNews(q[1], f) THEN q[1].value ELSE w
    PROVE  WillShow(r, u, f, v)
<1>1. \A i \in 1 .. Len(r) : i + 1 \in 1 .. Len(q) /\ r[i] = q[i + 1] /\ i + 1 > 1
    OBVIOUS
<1>2. CASE w = v /\ \A i \in 1 .. Len(q) : ~ IsNews(q[i], f)
    <2>1. u = v /\ \A i \in 1 .. Len(r) : ~ IsNews(r[i], f)
        BY <1>1, <1>2
    <2> QED BY <2>1 DEF WillShow
<1>3. ASSUME NEW i \in 1 .. Len(q), IsNews(q[i], f), q[i].value = v,
             \A j \in 1 .. Len(q) : j > i => ~ IsNews(q[j], f)
      PROVE  WillShow(r, u, f, v)
    <2>1. CASE i = 1
        <3>1. u = v
            BY <1>3, <2>1
        <3>2. \A j \in 1 .. Len(r) : ~ IsNews(r[j], f)
            BY <1>1, <1>3, <2>1
        <3> QED BY <3>1, <3>2 DEF WillShow
    <2>2. CASE i # 1
        <3>1. i - 1 \in 1 .. Len(r) /\ r[i - 1] = q[i]
            <4>1. i - 1 \in 1 .. Len(r) /\ (i - 1) + 1 = i
                BY <2>2
            <4> QED BY <4>1
        <3>2. ASSUME NEW j \in 1 .. Len(r), j > i - 1 PROVE ~ IsNews(r[j], f)
            <4>1. j + 1 > i
                BY <3>2
            <4> QED BY <1>1, <1>3, <4>1
        <3> QED BY <1>3, <3>1, <3>2 DEF WillShow
    <2> QED BY <2>1, <2>2
<1> QED BY <1>2, <1>3 DEF WillShow

-----------------------------------------------------------------------------
(* The field of a block that one client alone edits.                         *)

LEMMA EditorIsAlone ==
    ASSUME NEW f \in Fields, Owned(f), NEW g \in Fields, BlockOf[g] = BlockOf[f],
           NEW c \in Writers(g)
    PROVE  Editors(f) = {c} /\ SharesNone(c) /\ Writers(g) = {c} /\ Writers(f) \subseteq {c}
<1>1. Writers(g) \subseteq Editors(f) /\ Writers(f) \subseteq Editors(f)
    BY DEF Editors
<1> QED BY <1>1 DEF Owned

\* Only one flush of a block that one client alone edits is running.
LEMMA OneFlush ==
    ASSUME Typed, OneField, \A c \in Clients : SharesNone(c) => Serial(c),
           NEW f \in Fields, Owned(f),
           NEW x \in flush, BlockOf[FieldOf(x.of)] = BlockOf[f]
    PROVE  /\ \A y \in flush : BlockOf[FieldOf(y.of)] = BlockOf[f] => y = x
           /\ x.entry = x.of /\ entry[x.entry].waiting = {x.of}
           /\ Owner(x.of) \in Clients /\ Editors(f) = {Owner(x.of)}
           /\ Answers(Owner(x.of)) = {}
           /\ x.of.id \in Queued(client[Owner(x.of)]) /\ x.of.id \in Sets(FieldOf(x.of))
<1>0. ASSUME NEW y \in flush, BlockOf[FieldOf(y.of)] = BlockOf[f]
      PROVE  /\ y.of \in Updates /\ FieldOf(y.of) \in Fields /\ Owner(y.of) \in Clients
             /\ y.of.id \in Sets(FieldOf(y.of))
             /\ Editors(f) = {Owner(y.of)} /\ SharesNone(Owner(y.of))
             /\ Owner(y.entry) = Owner(y.of)
    <2>1. y.of \in Updates /\ y.entry \in Updates /\ FieldOf(y.entry) = FieldOf(y.of)
        BY DEF Typed, ServerInv, FlushTypes, Flights, OneField
    <2>2. /\ FieldOf(y.of) \in Fields /\ Owner(y.of) \in Clients
          /\ y.of.id \in Sets(FieldOf(y.of))
        BY <2>1, OperationFacts DEF Typed, Updates, Sets, FieldOf
    <2>3. Owner(y.of) \in Writers(FieldOf(y.of))
        BY <2>2 DEF Writers, Owner
    <2>4. Editors(f) = {Owner(y.of)} /\ SharesNone(Owner(y.of))
        BY <1>0, <2>2, <2>3, EditorIsAlone
    <2>5. Owner(y.entry) = Owner(y.of)
        BY <2>1, <2>2, <2>4, OwnersField
    <2> QED BY <2>1, <2>2, <2>4, <2>5
<1>1. PICK c : c = Owner(x.of)
    OBVIOUS
<1>2. c \in Clients /\ Editors(f) = {c} /\ SharesNone(c) /\ Serial(c) /\ Owner(x.entry) = c
    BY <1>0, <1>1
<1>3. /\ InItsEntry(c, x.entry) /\ Awaited(c, x.entry) /\ Filed(c) = {x.entry}
      /\ FlushesOf(x.entry) = {x} /\ x.of = x.entry
      /\ entry[x.entry].waiting = {x.entry}
    BY <1>2, OwnFlush
<1>4. ASSUME NEW y \in flush, BlockOf[FieldOf(y.of)] = BlockOf[f] PROVE y = x
    <2>1. Owner(y.entry) = c
        BY <1>0, <1>2, <1>4
    <2>2. Filed(c) = {y.entry} /\ FlushesOf(y.entry) = {y}
        BY <1>2, <2>1, OwnFlush
    <2> QED BY <1>3, <2>2
<1>5. x.of.id \in Queued(client[c])
    BY <1>3 DEF Awaited, Letter, InFlight, Queued
<1> QED BY <1>0, <1>1, <1>2, <1>3, <1>4, <1>5 DEF InItsEntry

-----------------------------------------------------------------------------
(* Steps that neither write, tell nor edit.                                  *)

LEMMA SameSets ==
    ASSUME ops' = ops, NEW f
    PROVE  Sets(f)' = Sets(f) /\ Writers(f)' = Writers(f)
BY DEF Sets, Writers

LEMMA ValuesStay ==
    ASSUME NEW f, FieldValues(f), UNCHANGED <<ops, store, view, inbox, skipped>>,
           \A i \in Sets(f) : client'[ops[i].by] = client[ops[i].by],
           flush \subseteq flush', \A y \in flush' : y \in flush \/ y.step = "reads"
    PROVE  FieldValues(f)'
<1>1. Sets(f)' = Sets(f) /\ Writers(f)' = Writers(f)
    BY SameSets
<1>2. RowIsRead(f)' /\ DoneIsStored(f)'
    BY DEF FieldValues, RowIsRead, DoneIsStored, FieldOf
<1>3. AnswerIsStored(f)'
    BY <1>1 DEF FieldValues, AnswerIsStored, Answers
<1>4. WriterShows(f)'
    BY <1>1 DEF FieldValues, WriterShows, IsLast, Heard
<1>5. LastIsStored(f)'
    BY <1>1 DEF FieldValues, LastIsStored, IsLast, SkippedOn
<1>6. OthersShow(f)'
    BY <1>1 DEF FieldValues, OthersShow, FieldOf
<1> QED BY <1>2, <1>3, <1>4, <1>5, <1>6 DEF FieldValues

LEMMA ReadValues ==
    ASSUME Typed, Peace, NEW f \in Fields, FieldValues(f), NEW x \in flush, Read(x)
    PROVE  FieldValues(f)'
<1>0. UNCHANGED <<queueVars, store>>
    BY DEF Read
<1>1. /\ UNCHANGED <<ops, client, view, inbox, skipped, store>>
      /\ Sets(f)' = Sets(f) /\ Writers(f)' = Writers(f)
    BY <1>0, SameSets DEF queueVars
<1>2. PICK y : /\ flush' = (flush \ {x}) \cup {y} /\ y.of = x.of
               /\ x.step = "reads" /\ y.step = "writes" /\ y.seen = store
    BY ReadReads
<1>3. RowIsRead(f)' /\ DoneIsStored(f)'
    BY <1>1, <1>2 DEF FieldValues, RowIsRead, DoneIsStored, FieldOf
<1>4. AnswerIsStored(f)'
    BY <1>1 DEF FieldValues, AnswerIsStored, Answers
<1>5. WriterShows(f)'
    BY <1>1 DEF FieldValues, WriterShows, IsLast, Heard
<1>6. LastIsStored(f)'
    BY <1>1 DEF FieldValues, LastIsStored, IsLast, SkippedOn
<1>7. OthersShow(f)'
    <2>1. \A z \in flush : z.step = "done" => z \in flush'
        BY <1>2
    <2> QED BY <1>1, <2>1 DEF FieldValues, OthersShow, FieldOf
<1> QED BY <1>3, <1>4, <1>5, <1>6, <1>7 DEF FieldValues

(* A flush writes what it is of, and leaves the other fields of its block    *)
(* as they are.                                                              *)
LEMMA WriteValues ==
    ASSUME Typed, Peace, OneField, \A c \in Clients : SharesNone(c) => Serial(c),
           NEW f \in Fields, Owned(f), FieldValues(f), NEW x \in flush, Write(x)
    PROVE  FieldValues(f)'
<1>0. UNCHANGED queueVars
    BY DEF Write
<1>1. /\ UNCHANGED <<ops, client, view, inbox, skipped>>
      /\ Sets(f)' = Sets(f) /\ Writers(f)' = Writers(f)
    BY <1>0, SameSets DEF queueVars
<1>2. PICK y : /\ flush' = (flush \ {x}) \cup {y} /\ y.of = x.of
               /\ x.step = "writes" /\ y.step = "done"
    BY WriteWrites
<1>3. \A g \in Fields :
          store'[g] = IF g = FieldOf(x.of) THEN ops[x.of.id].value
                      ELSE IF BlockOf[g] = BlockOf[FieldOf(x.of)] THEN x.seen[g]
                      ELSE store[g]
    BY WriteWrites
<1>4. f # FieldOf(x.of) => store'[f] = store[f]
    BY <1>2, <1>3 DEF FieldValues, RowIsRead
<1>5. BlockOf[FieldOf(x.of)] # BlockOf[f] =>
          \A g \in Fields : BlockOf[g] = BlockOf[f] => store'[g] = store[g]
    BY <1>3
<1>6. BlockOf[FieldOf(x.of)] = BlockOf[f] =>
          /\ \A z \in flush : BlockOf[FieldOf(z.of)] = BlockOf[f] => z = x
          /\ Editors(f) = {Owner(x.of)} /\ Answers(Owner(x.of)) = {}
          /\ x.of.id \in Queued(client[Owner(x.of)]) /\ x.of.id \in Sets(FieldOf(x.of))
    BY OneFlush
<1>7. RowIsRead(f)'
    <2>1. SUFFICES ASSUME NEW z \in flush', BlockOf[FieldOf(z.of)] = BlockOf[f],
                          z.step = "writes", NEW g \in Fields, BlockOf[g] = BlockOf[f]
                   PROVE  z.seen[g] = store'[g]
        BY <1>1 DEF RowIsRead, FieldOf
    <2>2. z \in flush /\ z # x
        BY <1>2, <2>1
    <2>3. BlockOf[FieldOf(x.of)] # BlockOf[f]
        BY <1>6, <2>1, <2>2
    <2> QED BY <1>5, <2>1, <2>2, <2>3 DEF FieldValues, RowIsRead
<1>8. DoneIsStored(f)'
    <2>1. SUFFICES ASSUME NEW z \in flush', FieldOf(z.of) = f, z.step = "done"
                   PROVE  store'[f] = ops[z.of.id].value
        BY <1>1 DEF DoneIsStored, FieldOf
    <2>2. CASE z = y
        BY <1>2, <1>3, <2>1, <2>2
    <2>3. CASE z # y
        <3>1. z \in flush /\ z # x
            BY <1>2, <2>3
        <3>2. BlockOf[FieldOf(x.of)] # BlockOf[f]
            BY <1>6, <2>1, <3>1
        <3> QED BY <1>5, <2>1, <3>1, <3>2 DEF FieldValues, DoneIsStored
    <2> QED BY <2>2, <2>3
<1>9. AnswerIsStored(f)'
    <2>1. CASE f = FieldOf(x.of)
        <3>1. \A c \in Writers(f) : Answers(c) = {}
            BY <1>6, <2>1 DEF Editors
        <3> QED BY <1>1, <3>1 DEF AnswerIsStored, Answers
    <2>2. CASE f # FieldOf(x.of)
        BY <1>1, <1>4, <2>2 DEF FieldValues, AnswerIsStored, Answers
    <2> QED BY <2>1, <2>2
<1>10. WriterShows(f)'
    BY <1>1 DEF FieldValues, WriterShows, IsLast, Heard
<1>11. LastIsStored(f)'
    <2>1. CASE f = FieldOf(x.of)
        <3>1. x.of.id \in Sets(f) /\ Writers(f) \subseteq {Owner(x.of)}
            BY <1>6, <2>1 DEF Editors
        <3>2. \A i \in Sets(f) : ops[i].by = Owner(x.of)
            BY <3>1 DEF Writers
        <3>3. \A i \in Sets(f) : x.of.id \in Queued(client[ops[i].by]) \cap Sets(f)
            BY <1>6, <2>1, <3>1, <3>2
        <3> QED BY <1>1, <3>3 DEF FieldValues, LastIsStored, IsLast, SkippedOn
    <2>2. CASE f # FieldOf(x.of)
        BY <1>1, <1>4, <2>2 DEF FieldValues, LastIsStored, IsLast, SkippedOn
    <2> QED BY <2>1, <2>2
<1>12. OthersShow(f)'
    <2>1. CASE f = FieldOf(x.of)
        <3>1. y \in flush' /\ ops'[y.of.id].field = f /\ y.step = "done"
            BY <1>1, <1>2, <2>1 DEF FieldOf
        <3> QED BY <3>1 DEF OthersShow, FieldOf
    <2>2. CASE f # FieldOf(x.of)
        <3>1. \A z \in flush : z.step = "done" => z \in flush'
            BY <1>2
        <3> QED BY <1>1, <1>4, <2>2, <3>1 DEF FieldValues, OthersShow, FieldOf
    <2> QED BY <2>1, <2>2
<1> QED BY <1>7, <1>8, <1>9, <1>10, <1>11, <1>12 DEF FieldValues

(* The answers that a flush sends, and what it tells, to each client. *)
LEMMA AnswerExtends ==
    ASSUME Typed, Peace, OneField, NEW x \in flush, Answer(x), x.step = "done", NEW c \in Clients
    PROVE  \E T : /\ Longer(inbox[c], inbox'[c], T)
                  /\ \A n \in T :
                        \/ n = NewsOf(x)
                        \/ /\ n.type = "confirmed"
                           /\ n.id \in Sets(FieldOf(x.of)) /\ ops[n.id].field = FieldOf(x.of)
<1>1. CASE WaitsIn(x.entry, c) = {}
    <2>1. inbox[c] \in Seq(Notices) /\ NewsOf(x) \in Notices
        BY NewsOfTyped DEF Typed, InboxTypes
    <2>2. Longer(inbox[c], inbox'[c], {NewsOf(x)})
        BY <1>1, <2>1, AnswerTells, LongerByOne
    <2> QED BY <2>2
<1>2. CASE WaitsIn(x.entry, c) # {}
    <2>1. Longer(inbox[c], inbox'[c], {Yes[m.id] : m \in WaitsIn(x.entry, c)})
        BY <1>2, AnswerTells
    <2>2. ASSUME NEW m \in WaitsIn(x.entry, c)
          PROVE  /\ Yes[m.id].type = "confirmed" /\ Yes[m.id].id = m.id
                 /\ m.id \in Sets(FieldOf(x.of)) /\ ops[m.id].field = FieldOf(x.of)
        <3>1. m \in Updates /\ FieldOf(m) = FieldOf(x.of)
            BY FlushFacts DEF Typed, WaitsIn, OneField
        <3>2. m.id \in Sets(FieldOf(m))
            BY <3>1, OperationFacts DEF Typed, Updates, Sets, FieldOf
        <3> QED BY <3>1, <3>2, YesTyped DEF Updates, FieldOf
    <2> QED BY <2>1, <2>2
<1> QED BY <1>1, <1>2

(* A flush of another field says nothing of this one. *)
LEMMA OthersAnswerValues ==
    ASSUME Typed, Peace, OneField, NEW f \in Fields, FieldValues(f),
           NEW x \in flush, Answer(x), x.step = "done", FieldOf(x.of) # f
    PROVE  FieldValues(f)'
<1>1. /\ UNCHANGED <<ops, client, view, skipped, store>> /\ flush' = flush \ {x}
      /\ Sets(f)' = Sets(f) /\ Writers(f)' = Writers(f)
    BY SameSets DEF Answer
<1>2. ASSUME NEW c \in Clients
      PROVE  \E T : /\ Longer(inbox[c], inbox'[c], T)
                    /\ \A n \in T : /\ ~ IsNews(n, f)
                                    /\ n.type = "confirmed" => n.id \notin Sets(f)
    <2>1. PICK T : /\ Longer(inbox[c], inbox'[c], T)
                   /\ \A n \in T :
                         \/ n = NewsOf(x)
                         \/ /\ n.type = "confirmed"
                            /\ n.id \in Sets(FieldOf(x.of)) /\ ops[n.id].field = FieldOf(x.of)
        BY AnswerExtends
    <2>2. ASSUME NEW n \in T
          PROVE  ~ IsNews(n, f) /\ (n.type = "confirmed" => n.id \notin Sets(f))
        BY <2>1, <2>2, NewsOfTyped DEF IsNews, Sets
    <2> QED BY <2>1, <2>2
<1>3. \A c \in Writers(f) : c \in Clients
    <2>1. ASSUME NEW i \in Sets(f) PROVE ops[i].by \in Clients
        <3>1. i \in 1 .. Len(ops)
            BY DEF Sets
        <3>2. ops[i] \in Operation
            BY <3>1, ElementOfSeq DEF Typed, ClientInv, ClientTypes
        <3> QED BY <3>2 DEF Operation
    <2> QED BY <2>1 DEF Writers
<1>4. RowIsRead(f)' /\ DoneIsStored(f)'
    BY <1>1 DEF FieldValues, RowIsRead, DoneIsStored, FieldOf
<1>5. AnswerIsStored(f)'
    <2>1. SUFFICES ASSUME NEW c \in Writers(f), NEW i \in Answers(c)', inbox'[c][i].id \in Sets(f)
                   PROVE  store[f] = ops[inbox'[c][i].id].value
        BY <1>1 DEF AnswerIsStored
    <2>2. PICK T : /\ Longer(inbox[c], inbox'[c], T)
                   /\ \A n \in T : n.type = "confirmed" => n.id \notin Sets(f)
        BY <1>2, <1>3
    <2>3. i \in 1 .. Len(inbox'[c]) /\ inbox'[c][i].type = "confirmed"
        BY <2>1 DEF Answers
    <2>4. i \in 1 .. Len(inbox[c])
        BY <2>1, <2>2, <2>3 DEF Longer
    <2>5. inbox'[c][i] = inbox[c][i] /\ i \in Answers(c)
        BY <2>2, <2>3, <2>4 DEF Longer, Answers
    <2> QED BY <2>1, <2>5 DEF FieldValues, AnswerIsStored
<1>6. WriterShows(f)'
    <2>1. ASSUME NEW c \in Writers(f), NEW n \in Heard(inbox'[c]) PROVE ~ IsNews(n, f)
        <3>1. PICK T : Longer(inbox[c], inbox'[c], T) /\ \A t \in T : ~ IsNews(t, f)
            BY <1>2, <1>3
        <3>2. n \in Heard(inbox[c]) \/ n \in T
            <4>1. PICK i \in 1 .. Len(inbox'[c]) : n = inbox'[c][i]
                BY <2>1 DEF Heard
            <4>2. i \in 1 .. Len(inbox[c]) \/ i > Len(inbox[c])
                BY <3>1 DEF Longer
            <4> QED BY <3>1, <4>1, <4>2 DEF Longer, Heard
        <3> QED BY <2>1, <3>1, <3>2 DEF FieldValues, WriterShows
    <2> QED BY <1>1, <2>1 DEF FieldValues, WriterShows, IsLast, Heard
<1>7. LastIsStored(f)'
    BY <1>1 DEF FieldValues, LastIsStored, IsLast, SkippedOn
<1>8. OthersShow(f)'
    <2>1. SUFFICES ASSUME \A z \in flush' : FieldOf(z.of) = f => z.step # "done",
                          NEW d \in Clients \ Writers(f)
                   PROVE  WillShow(inbox'[d], view[d][f], f, store[f])
        BY <1>1 DEF OthersShow, FieldOf
    <2>2. \A z \in flush : FieldOf(z.of) = f => z.step # "done"
        BY <1>1, <2>1
    <2>3. WillShow(inbox[d], view[d][f], f, store[f])
        BY <2>2 DEF FieldValues, OthersShow
    <2>4. PICK T : Longer(inbox[d], inbox'[d], T) /\ \A n \in T : ~ IsNews(n, f)
        BY <1>2
    <2> QED BY <2>3, <2>4, ShowsStill
<1> QED BY <1>4, <1>5, <1>6, <1>7, <1>8 DEF FieldValues

(* Its own flush has written what it tells the others. *)
LEMMA OwnAnswerValues ==
    ASSUME Typed, Peace, OneField, \A c \in Clients : SharesNone(c) => Serial(c),
           NEW f \in Fields, Owned(f), FieldValues(f),
           NEW x \in flush, Answer(x), x.step = "done", FieldOf(x.of) = f
    PROVE  FieldValues(f)'
<1>1. /\ UNCHANGED <<ops, client, view, skipped, store>> /\ flush' = flush \ {x}
      /\ Sets(f)' = Sets(f) /\ Writers(f)' = Writers(f)
    BY SameSets DEF Answer
<1>2. PICK c : c = Owner(x.of)
    OBVIOUS
<1>3. /\ c \in Clients /\ Writers(f) = {c} /\ Answers(c) = {}
      /\ x.entry = x.of /\ entry[x.entry].waiting = {x.of}
    <2>1. /\ x.entry = x.of /\ entry[x.entry].waiting = {x.of}
          /\ c \in Clients /\ Editors(f) = {c} /\ Answers(c) = {} /\ x.of.id \in Sets(f)
        BY <1>2, OneFlush
    <2>2. c \in Writers(f) /\ Writers(f) \subseteq Editors(f)
        BY <1>2, <2>1 DEF Writers, Owner, Editors
    <2> QED BY <2>1, <2>2
<1>4. store[f] = ops[x.of.id].value
    BY DEF FieldValues, DoneIsStored
<1>5. inbox'[c] = Append(inbox[c], Yes[x.of.id])
    <2>1. PICK m : m = x.of
        OBVIOUS
    <2>2. WaitsIn(x.entry, c) = {m} /\ c \in Clients
        BY <1>2, <1>3, <2>1 DEF WaitsIn
    <2>3. inbox'[c] = Append(inbox[c], Yes[m.id])
        BY <2>2, AnswerTells
    <2> QED BY <2>1, <2>3
<1>6. PICK y : y = Yes[x.of.id]
    OBVIOUS
<1>7. y \in Notices /\ y.type = "confirmed" /\ y.id = x.of.id
    <2>1. x.of \in Asked
        BY FlushFacts DEF Typed, Flights, Updates
    <2> QED BY <1>6, <2>1, YesTyped
<1>8. Answers(c)' = {Len(inbox[c]) + 1} /\ inbox'[c][Len(inbox[c]) + 1].id = x.of.id
    BY <1>3, <1>5, <1>6, <1>7, AnswersAppend
<1>9. RowIsRead(f)' /\ DoneIsStored(f)'
    BY <1>1 DEF FieldValues, RowIsRead, DoneIsStored, FieldOf
<1>10. AnswerIsStored(f)'
    BY <1>1, <1>3, <1>4, <1>8 DEF AnswerIsStored
<1>11. WriterShows(f)'
    <2>1. ASSUME NEW n \in Heard(inbox'[c]) PROVE ~ IsNews(n, f)
        <3>1. inbox[c] \in Seq(Notices)
            BY <1>3 DEF Typed, InboxTypes
        <3>2. Longer(inbox[c], inbox'[c], {y})
            BY <1>5, <1>6, <1>7, <3>1, LongerByOne
        <3>3. PICK i \in 1 .. Len(inbox'[c]) : n = inbox'[c][i]
            BY <2>1 DEF Heard
        <3>4. i \in 1 .. Len(inbox[c]) \/ i > Len(inbox[c])
            BY <3>2 DEF Longer
        <3>5. n \in Heard(inbox[c]) \/ n = y
            BY <3>2, <3>3, <3>4 DEF Longer, Heard
        <3> QED BY <1>3, <1>7, <3>5 DEF FieldValues, WriterShows, IsNews
    <2>2. \A i \in Sets(f) : IsLast(i, f)' = IsLast(i, f)
        BY <1>1 DEF IsLast
    <2> QED BY <1>1, <1>3, <2>1, <2>2 DEF FieldValues, WriterShows
<1>12. LastIsStored(f)'
    BY <1>1 DEF FieldValues, LastIsStored, IsLast, SkippedOn
<1>13. OthersShow(f)'
    <2>1. ASSUME NEW d \in Clients \ {c} PROVE WillShow(inbox'[d], view[d][f], f, store[f])
        <3>1. WaitsIn(x.entry, d) = {}
            BY <1>2, <1>3 DEF WaitsIn
        <3>2. inbox'[d] = Append(inbox[d], NewsOf(x)) /\ inbox[d] \in Seq(Notices)
            BY <3>1, AnswerTells DEF Typed, InboxTypes
        <3>3. NewsOf(x) \in Notices /\ IsNews(NewsOf(x), f) /\ NewsOf(x).value = store[f]
            BY <1>4, NewsOfTyped DEF IsNews
        <3>4. PICK n : n = NewsOf(x)
            OBVIOUS
        <3> QED BY <3>2, <3>3, <3>4, ShowsNews
    <2> QED BY <1>1, <1>3, <2>1 DEF OthersShow
<1> QED BY <1>9, <1>10, <1>11, <1>12, <1>13 DEF FieldValues

-----------------------------------------------------------------------------
(* What a client hears.                                                      *)

(* The operation that is confirmed is the oldest, and it alone goes. *)
LEMMA HearsOwn ==
    ASSUME Typed, Peace, NEW c \in Clients, Serial(c), Receive(c),
           HearsConfirmed(c, inbox[c][1]), 1 \in Answers(c)
    PROVE  /\ Queued(client'[c]) = Queued(client[c]) \ {inbox[c][1].id}
           /\ \A j \in Queued(client'[c]) : inbox[c][1].id < j
<1>1. PICK e \in InFlight(client[c]) : IsAnswered(c, Letter(e))
    BY DEF Serial, NoneSent, OnItsWay, InItsEntry
<1>2. Answers(c) = {1} /\ inbox[c][1].id = e.id
    BY <1>1 DEF IsAnswered, Letter
<1>3. Well(client[c]) /\ Orderly(client[c])
    BY DEF Typed, ClientInv, QueuesWell, Serial
<1>4. client'[c] = Confirmed(c, client[c], e.id)
    BY <1>2 DEF HearsConfirmed, Becomes, Typed, ClientInv, ClientTypes
<1>5. Queued(client'[c]) = Queued(client[c]) \ {e.id}
    BY <1>3, <1>4, ConfirmedOrderly
<1>6. ASSUME NEW j \in Queued(client[c]), j # e.id PROVE e.id < j
    <2>1. PICK d \in client[c].queue : d.id = j
        BY <1>6 DEF Queued
    <2>2. d \in InFlight(client[c]) \/ d \in Pending(client[c])
        BY <1>3 DEF Well, States, Entries, InFlight, Pending
    <2>3. InFlight(client[c]) = {e} /\ \A p \in Pending(client[c]) : e.id < p.id
        BY <1>3 DEF Orderly
    <2> QED BY <1>6, <2>1, <2>2, <2>3
<1> QED BY <1>2, <1>5, <1>6

LEMMA HearsView ==
    ASSUME Typed, Peace, NEW d \in Clients, Receive(d), NEW f \in Fields, NEW c \in Clients
    PROVE  view'[c][f] = IF c = d /\ IsNews(inbox[d][1], f) THEN inbox[d][1].value
                         ELSE view[c][f]
<1>1. PICK n : n = inbox[d][1]
    OBVIOUS
<1>2. view \in [Clients -> [Fields -> Shown]]
    BY DEF Typed, ClientInv, ClientTypes
<1>3. CASE HearsConfirmed(d, n)
    BY <1>1, <1>3 DEF HearsConfirmed, IsNews
<1>4. CASE HearsValue(d, n)
    <2>1. n.type = "value" /\ view' = [view EXCEPT ![d][n.field] = n.value]
        BY <1>4 DEF HearsValue
    <2>2. view'[c] = IF c = d THEN [view[c] EXCEPT ![n.field] = n.value] ELSE view[c]
        BY <1>2, <2>1
    <2>3. view[c] \in [Fields -> Shown]
        BY <1>2
    <2>4. view'[c][f] = IF c = d /\ n.field = f THEN n.value ELSE view[c][f]
        BY <2>2, <2>3
    <2> QED BY <1>1, <2>1, <2>4 DEF IsNews
<1> QED BY <1>1, <1>3, <1>4, Hears

LEMMA WritersAreClients ==
    ASSUME Typed, NEW f, NEW i \in Sets(f)
    PROVE  i \in 1 .. Len(ops) /\ ops[i] \in Operation /\ ops[i].by \in Clients
           /\ ops[i].by \in Writers(f)
<1>1. i \in 1 .. Len(ops)
    BY DEF Sets
<1>2. ops[i] \in Operation
    BY <1>1, ElementOfSeq DEF Typed, ClientInv, ClientTypes
<1> QED BY <1>1, <1>2 DEF Operation, Writers

LEMMA ReceiveValues ==
    ASSUME Typed, Peace, \A c \in Clients : SharesNone(c) => Serial(c),
           NEW f \in Fields, Owned(f), FieldValues(f), NEW d \in Clients, Receive(d)
    PROVE  FieldValues(f)'
<1>1. /\ UNCHANGED <<ops, skipped, store, flush>>
      /\ Sets(f)' = Sets(f) /\ Writers(f)' = Writers(f)
    BY Hears, SameSets DEF serverVars
<1>2. ASSUME NEW c \in Clients \ {d}
      PROVE  inbox'[c] = inbox[c] /\ client'[c] = client[c]
    BY <1>2, ReceiveTail, QueueStepKeeps
<1>3. \A c \in Clients : Heard(inbox'[c]) \subseteq Heard(inbox[c])
    <2>1. Heard(inbox'[d]) \subseteq Heard(inbox[d])
        BY ReceiveTail DEF Heard
    <2> QED BY <1>2, <2>1
<1>4. \A c \in Writers(f) : c \in Clients /\ Serial(c)
    BY WritersAreClients, EditorIsAlone DEF Writers
<1>5. RowIsRead(f)' /\ DoneIsStored(f)'
    BY <1>1 DEF FieldValues, RowIsRead, DoneIsStored, FieldOf
<1>6. AnswerIsStored(f)'
    <2>1. SUFFICES ASSUME NEW c \in Writers(f), NEW i \in Answers(c)', inbox'[c][i].id \in Sets(f)
                   PROVE  store[f] = ops[inbox'[c][i].id].value
        BY <1>1 DEF AnswerIsStored
    <2>2. CASE c = d
        <3>1. i + 1 \in Answers(c) /\ inbox'[c][i] = inbox[c][i + 1]
            BY <2>1, <2>2, Hears
        <3> QED BY <2>1, <3>1 DEF FieldValues, AnswerIsStored
    <2>3. CASE c # d
        <3>1. inbox'[c] = inbox[c]
            BY <1>2, <1>4, <2>3
        <3> QED BY <2>1, <3>1 DEF FieldValues, AnswerIsStored, Answers
    <2> QED BY <2>2, <2>3
<1>7. WriterShows(f)'
    <2>1. ASSUME NEW c \in Writers(f)
          PROVE  view'[c][f] = view[c][f] /\ \A n \in Heard(inbox'[c]) : ~ IsNews(n, f)
        <3>1. \A n \in Heard(inbox[c]) : ~ IsNews(n, f)
            BY DEF FieldValues, WriterShows
        <3>2. c = d => inbox[c][1] \in Heard(inbox[c])
            BY ReceiveTail DEF Heard
        <3> QED BY <1>3, <1>4, <3>1, <3>2, HearsView
    <2>2. \A i \in Sets(f) : ops[i].by \in Writers(f)
        BY DEF Writers
    <2>3. \A i \in Sets(f) : IsLast(i, f)' = IsLast(i, f)
        BY <1>1 DEF IsLast
    <2> QED BY <1>1, <2>1, <2>2, <2>3 DEF FieldValues, WriterShows
<1>8. LastIsStored(f)'
    <2>1. SUFFICES ASSUME SkippedOn(f) = {}, NEW i \in Sets(f), IsLast(i, f)
                   PROVE  \/ i \in Queued(client'[ops[i].by])
                          \/ /\ store[f] = ops[i].value
                             /\ Queued(client'[ops[i].by]) \cap Sets(f) = {}
        BY <1>1 DEF LastIsStored, IsLast, SkippedOn
    <2>2. PICK c : c = ops[i].by
        OBVIOUS
    <2>3. c \in Writers(f) /\ c \in Clients /\ Serial(c)
        BY <1>4, <2>2 DEF Writers
    <2>4. \/ i \in Queued(client[c])
          \/ store[f] = ops[i].value /\ Queued(client[c]) \cap Sets(f) = {}
        BY <2>1, <2>2 DEF FieldValues, LastIsStored
    <2>5. CASE client'[c] = client[c]
        BY <2>2, <2>4, <2>5
    <2>6. CASE c = d /\ HearsConfirmed(c, inbox[c][1]) /\ 1 \in Answers(c)
        <3>1. PICK id : id = inbox[c][1].id
            OBVIOUS
        <3>2. /\ Queued(client'[c]) = Queued(client[c]) \ {id}
              /\ \A j \in Queued(client'[c]) : id < j
            BY <2>3, <2>6, <3>1, HearsOwn
        <3>3. CASE i = id
            <4>1. store[f] = ops[i].value
                BY <2>3, <2>6, <3>1, <3>3 DEF FieldValues, AnswerIsStored
            <4>2. \A j \in Sets(f) : j <= i /\ j \in Int /\ i \in Int
                BY <2>1 DEF IsLast, Sets
            <4>3. Queued(client'[c]) \cap Sets(f) = {}
                BY <3>2, <3>3, <4>2
            <4> QED BY <2>2, <4>1, <4>3
        <3>4. CASE i # id
            BY <2>2, <2>4, <3>2, <3>4
        <3> QED BY <3>3, <3>4
    <2>7. client'[c] = client[c] \/ (c = d /\ HearsConfirmed(c, inbox[c][1]) /\ 1 \in Answers(c))
        BY <1>2, <2>3, Hears DEF HearsValue
    <2> QED BY <2>5, <2>6, <2>7
<1>9. OthersShow(f)'
    <2>1. SUFFICES ASSUME \A x \in flush : FieldOf(x.of) = f => x.step # "done",
                          NEW c \in Clients \ Writers(f)
                   PROVE  WillShow(inbox'[c], view'[c][f], f, store[f])
        BY <1>1 DEF OthersShow, FieldOf
    <2>2. WillShow(inbox[c], view[c][f], f, store[f])
        BY <2>1 DEF FieldValues, OthersShow
    <2>3. CASE c = d
        <3>1. view'[c][f] = IF IsNews(inbox[c][1], f) THEN inbox[c][1].value ELSE view[c][f]
            BY <2>3, HearsView
        <3>2. /\ Len(inbox[c]) \in Nat /\ 1 \in 1 .. Len(inbox[c])
              /\ Len(inbox'[c]) = Len(inbox[c]) - 1
              /\ \A i \in 1 .. Len(inbox'[c]) : inbox'[c][i] = inbox[c][i + 1]
            BY <2>3, ReceiveTail
        <3>3. PICK q, r, w, u, v : /\ q = inbox[c] /\ r = inbox'[c] /\ w = view[c][f]
                                   /\ u = view'[c][f] /\ v = store[f]
            OBVIOUS
        <3> QED BY <2>2, <3>1, <3>2, <3>3, ShowsFirst
    <2>4. CASE c # d
        BY <1>2, <2>2, <2>4, HearsView
    <2> QED BY <2>3, <2>4
<1> QED BY <1>5, <1>6, <1>7, <1>8, <1>9 DEF FieldValues

-----------------------------------------------------------------------------
(* What an edit changes.                                                     *)

\* The edit N is the last of its field, of c's, and c shows it.
IsEdit(c, g, v, N) ==
    /\ N = Len(ops) + 1 /\ Len(ops) \in Nat /\ Len(ops') = N
    /\ \A i \in 1 .. Len(ops) : ops'[i] = ops[i]
    /\ ops'[N] = [by |-> c, kind |-> "set", field |-> g, value |-> v]
Edited(c, g, v, N, f) ==
    /\ Sets(f)' = IF f = g THEN Sets(f) \cup {N} ELSE Sets(f)
    /\ Writers(f)' = IF f = g THEN Writers(f) \cup {c} ELSE Writers(f)
    /\ \A d \in Clients : view'[d][f] = IF d = c /\ f = g THEN v ELSE view[d][f]

LEMMA EditFacts ==
    ASSUME Typed, NEW c \in Clients, NEW g \in Fields, NEW v \in Values, SetValue(c, g, v),
           NEW f \in Fields
    PROVE  IsEdit(c, g, v, Len(ops) + 1) /\ Edited(c, g, v, Len(ops) + 1, f)
<1>1. PICK o : o = [by |-> c, kind |-> "set", field |-> g, value |-> v]
    OBVIOUS
<1>2. ops' = Append(ops, o) /\ view' = [view EXCEPT ![c][g] = v]
    BY <1>1 DEF SetValue
<1>3. ops \in Seq(Operation) /\ o \in Operation /\ view \in [Clients -> [Fields -> Shown]]
    BY <1>1 DEF Typed, ClientInv, ClientTypes, Operation
<1>4. /\ Len(ops) \in Nat /\ Len(ops') = Len(ops) + 1
      /\ \A i \in 1 .. Len(ops) : ops'[i] = ops[i]
      /\ ops'[Len(ops) + 1] = o
    BY <1>2, <1>3, AppendProperties, LenProperties
<1>5. o.by = c /\ o.kind = "set" /\ o.field = g
    BY <1>1
<1>6. /\ Sets(f)' = IF f = g THEN Sets(f) \cup {Len(ops) + 1} ELSE Sets(f)
      /\ Writers(f)' = IF f = g THEN Writers(f) \cup {c} ELSE Writers(f)
    <2>1. 1 .. Len(ops') = 1 .. Len(ops) \cup {Len(ops) + 1}
        BY <1>4
    <2>2. Sets(f)' = IF f = g THEN Sets(f) \cup {Len(ops) + 1} ELSE Sets(f)
        BY <1>4, <1>5, <2>1 DEF Sets
    <2>3. \A i \in Sets(f) : ops'[i] = ops[i]
        BY <1>4 DEF Sets
    <2>4. Writers(f)' = IF f = g THEN Writers(f) \cup {c} ELSE Writers(f)
        BY <1>4, <1>5, <2>2, <2>3 DEF Writers
    <2> QED BY <2>2, <2>4
<1>7. ASSUME NEW d \in Clients
      PROVE  view'[d][f] = IF d = c /\ f = g THEN v ELSE view[d][f]
    <2>1. view'[d] = IF d = c THEN [view[d] EXCEPT ![g] = v] ELSE view[d]
        BY <1>2, <1>3
    <2>2. view[d] \in [Fields -> Shown]
        BY <1>3
    <2> QED BY <2>1, <2>2
<1>8. IsEdit(c, g, v, Len(ops) + 1)
    BY <1>1, <1>4 DEF IsEdit
<1>9. Edited(c, g, v, Len(ops) + 1, f)
    BY <1>6, <1>7 DEF Edited
<1> QED BY <1>8, <1>9

(* The edit is in the queue then, unless it is dropped as a duplicate, and   *)
(* it replaces nothing of other fields.                                      *)
LEMMA EditQueued ==
    ASSUME Typed, NEW c \in Clients, NEW g \in Fields, NEW v \in Values, SetValue(c, g, v)
    PROVE  /\ skipped \subseteq skipped'
           /\ \A d \in Clients \ {c} : client'[d] = client[d]
           /\ \/ Len(ops) + 1 \in skipped' /\ client'[c] = client[c]
              \/ /\ Len(ops) + 1 \in Queued(client'[c])
                 /\ Queued(client'[c]) \subseteq Queued(client[c]) \cup {Len(ops) + 1}
                 /\ \A i \in Queued(client[c]) : ops[i].field # g => i \in Queued(client'[c])
<1>1. PICK k, l, o, id :
          /\ k = client[c] /\ id = Len(ops) + 1 /\ o = [by |-> c, kind |-> "set", field |-> g, value |-> v]
          /\ l = Added(c, k, id, o)
    OBVIOUS
<1>2. /\ Becomes(c, l) /\ Len(ops) < MaxOps
      /\ skipped' = IF IsDuplicate(k, o) THEN skipped \cup {id} ELSE skipped
    BY <1>1 DEF SetValue, MayEdit
<1>3. client'[c] = l /\ \A d \in Clients \ {c} : client'[d] = client[d]
    BY <1>2 DEF Becomes, Typed, ClientInv, ClientTypes
<1>4. Well(k) /\ id \in Ids /\ id \notin Queued(k)
    BY <1>1, <1>2, NextIsOrdered, QueueConstants DEF Ids
<1>5. CASE IsDuplicate(k, o)
    <2>1. l = k
        BY <1>1, <1>5 DEF Added
    <2> QED BY <1>1, <1>2, <1>3, <1>5, <2>1
<1>6. CASE ~ IsDuplicate(k, o)
    <2>1. Queued(l) = (Queued(k) \ GivesWay(k, o)) \cup {id}
        BY <1>1, <1>4, <1>6, AddedQueued
    <2>2. \A i \in GivesWay(k, o) : ops[i].field = g
        BY <1>1 DEF GivesWay, Coalesces
    <2> QED BY <1>1, <1>2, <1>3, <1>6, <2>1, <2>2
<1> QED BY <1>5, <1>6

(* An answer is about an operation of the client's own. *)
LEMMA AnswerIsOwn ==
    ASSUME Typed, NEW c \in Clients, Serial(c), NEW i \in Answers(c)
    PROVE  inbox[c][i].id \in 1 .. Len(ops) /\ ops[inbox[c][i].id].by = c
<1>1. PICK e \in InFlight(client[c]) : IsAnswered(c, Letter(e))
    BY DEF Serial, NoneSent, OnItsWay, InItsEntry
<1>2. inbox[c][i].id = e.id
    BY <1>1 DEF IsAnswered, Letter
<1>3. e \in client[c].queue
    BY DEF InFlight
<1>4. e.id \in Ids /\ e.id <= Len(ops) /\ ops[e.id].by = c /\ Len(ops) \in Nat
    BY <1>3, LenProperties DEF Typed, ClientInv, OwnQueue, ClientTypes, States, Entries
<1> QED BY <1>2, <1>4, QueueConstants DEF Ids

LEMMA EditValues ==
    ASSUME Typed, Moved, Peace, NewsHasWriter, \A d \in Clients : SharesNone(d) => Serial(d),
           NEW f \in Fields, Owned(f), Owned(f)', FieldValues(f),
           NEW c \in Clients, NEW g \in Fields, NEW v \in Values,
           SetValue(c, g, v), UNCHANGED serverVars
    PROVE  FieldValues(f)'
<1>0. PICK N : N = Len(ops) + 1
    OBVIOUS
<1> IsEdit(c, g, v, N) /\ Edited(c, g, v, N, f)
    BY <1>0, EditFacts
<1>1. /\ Len(ops) \in Nat /\ Len(ops') = N /\ N \in Nat
      /\ \A i \in 1 .. Len(ops) : ops'[i] = ops[i] /\ i # N /\ i <= N
      /\ ops'[N] = [by |-> c, kind |-> "set", field |-> g, value |-> v]
    BY DEF IsEdit
<1>2. /\ Sets(f)' = IF f = g THEN Sets(f) \cup {N} ELSE Sets(f)
      /\ Writers(f)' = IF f = g THEN Writers(f) \cup {c} ELSE Writers(f)
      /\ \A d \in Clients : view'[d][f] = IF d = c /\ f = g THEN v ELSE view[d][f]
    BY DEF Edited
<1>3. /\ skipped \subseteq skipped'
      /\ \A d \in Clients \ {c} : client'[d] = client[d]
      /\ \/ N \in skipped' /\ client'[c] = client[c]
         \/ /\ N \in Queued(client'[c])
            /\ Queued(client'[c]) \subseteq Queued(client[c]) \cup {N}
            /\ \A i \in Queued(client[c]) : ops[i].field # g => i \in Queued(client'[c])
    BY <1>0, EditQueued
<1>4. UNCHANGED <<inbox, store, flush>>
    BY DEF SetValue, serverVars
<1>5. \A x \in flush : ops'[x.of.id] = ops[x.of.id]
    BY AskedGrows DEF Typed, Moved, ServerInv, FlushTypes, Flights, Updates
<1>6. \A i \in Sets(f) : /\ i \in 1 .. Len(ops) /\ ops'[i] = ops[i] /\ ops[i].field = f
                         /\ ops[i].by \in Writers(f) /\ ops[i].by \in Clients
    BY <1>1, WritersAreClients DEF Sets
<1>7. ASSUME NEW d \in Writers(f)' PROVE d \in Clients /\ Serial(d) /\ Editors(f)' = {d}
    <2>1. d \in Clients
        <3>1. Writers(f) \subseteq Clients
            BY <1>6 DEF Writers
        <3> QED BY <1>2, <1>7, <3>1
    <2>2. d \in Editors(f)'
        BY <1>7 DEF Editors
    <2>3. SharesNone(d)' /\ Editors(f)' = {d}
        BY <2>2 DEF Owned
    <2> QED BY <2>1, <2>3, OwnedBefore
<1>8. RowIsRead(f)' /\ DoneIsStored(f)'
    BY <1>4, <1>5 DEF FieldValues, RowIsRead, DoneIsStored, FieldOf
<1>9. AnswerIsStored(f)'
    <2>1. SUFFICES ASSUME NEW d \in Writers(f)', NEW i \in Answers(d), inbox[d][i].id \in Sets(f)'
                   PROVE  store[f] = ops'[inbox[d][i].id].value
        BY <1>4 DEF AnswerIsStored, Answers
    <2>2. inbox[d][i].id \in 1 .. Len(ops) /\ ops[inbox[d][i].id].by = d
        BY <1>7, <2>1, AnswerIsOwn
    <2>3. inbox[d][i].id \in Sets(f) /\ ops'[inbox[d][i].id] = ops[inbox[d][i].id]
        BY <1>1, <1>2, <2>1, <2>2
    <2>4. d \in Writers(f)
        BY <1>6, <2>2, <2>3
    <2> QED BY <2>1, <2>3, <2>4 DEF FieldValues, AnswerIsStored
<1>10. WriterShows(f)'
    <2>1. ASSUME NEW i \in Sets(f)', \A j \in Sets(f)' : j <= i
          PROVE  view'[ops'[i].by][f] = ops'[i].value
        <3>1. CASE f = g
            <4>1. N <= i /\ (i \in Sets(f) \/ i = N)
                BY <1>2, <2>1, <3>1
            <4>2. i = N
                BY <1>1, <1>6, <4>1
            <4> QED BY <1>1, <1>2, <3>1, <4>2
        <3>2. CASE f # g
            <4>1. i \in Sets(f) /\ IsLast(i, f)
                BY <1>2, <2>1, <3>2 DEF IsLast
            <4>2. view[ops[i].by][f] = ops[i].value
                BY <4>1 DEF FieldValues, WriterShows
            <4> QED BY <1>2, <1>6, <3>2, <4>1, <4>2
        <3> QED BY <3>1, <3>2
    <2>2. ASSUME NEW d \in Writers(f)', NEW n \in Heard(inbox[d]) PROVE ~ IsNews(n, f)
        <3>1. CASE d \in Writers(f)
            BY <2>2, <3>1 DEF FieldValues, WriterShows
        <3>2. CASE d \notin Writers(f)
            <4>1. d = c /\ Writers(f)' = Writers(f) \cup {d} /\ Editors(f)' = {d}
                BY <1>2, <1>7, <2>2, <3>2
            <4>2. Writers(f)' \subseteq Editors(f)'
                BY DEF Editors
            <4>3. Writers(f) = {}
                BY <3>2, <4>1, <4>2
            <4> QED BY <1>7, <2>2, <4>3 DEF NewsHasWriter, IsNews
        <3> QED BY <3>1, <3>2
    <2> QED BY <1>4, <2>1, <2>2 DEF WriterShows, IsLast, Heard
<1>11. LastIsStored(f)'
    <2>1. SUFFICES ASSUME skipped' \cap Sets(f)' = {},
                          NEW i \in Sets(f)', \A j \in Sets(f)' : j <= i
                   PROVE  \/ i \in Queued(client'[ops'[i].by])
                          \/ /\ store[f] = ops'[i].value
                             /\ Queued(client'[ops'[i].by]) \cap Sets(f)' = {}
        BY <1>4 DEF LastIsStored, SkippedOn, IsLast
    <2>2. CASE f = g
        <3>1. N <= i /\ (i \in Sets(f) \/ i = N) /\ N \notin skipped'
            BY <1>2, <2>1, <2>2
        <3>2. i = N
            BY <1>1, <1>6, <3>1
        <3> QED BY <1>1, <1>3, <3>1, <3>2
    <2>3. CASE f # g
        <3>1. i \in Sets(f) /\ IsLast(i, f) /\ SkippedOn(f) = {} /\ Sets(f)' = Sets(f)
            BY <1>2, <1>3, <2>1, <2>3 DEF IsLast, SkippedOn
        <3>2. PICK d : d = ops[i].by
            OBVIOUS
        <3>3. /\ d \in Clients /\ ops'[i] = ops[i] /\ ops[i].field # g
              /\ N \notin Sets(f)
            BY <1>1, <1>6, <2>3, <3>1, <3>2
        <3>4. \/ i \in Queued(client[d])
              \/ store[f] = ops[i].value /\ Queued(client[d]) \cap Sets(f) = {}
            BY <3>1, <3>2 DEF FieldValues, LastIsStored
        <3>5. /\ i \in Queued(client[d]) => i \in Queued(client'[d])
              /\ Queued(client'[d]) \subseteq Queued(client[d]) \cup {N}
            BY <1>3, <3>3
        <3> QED BY <3>1, <3>2, <3>3, <3>4, <3>5
    <2> QED BY <2>2, <2>3
<1>12. OthersShow(f)'
    <2>1. SUFFICES ASSUME \A x \in flush : ops'[x.of.id].field = f => x.step # "done",
                          NEW d \in Clients \ Writers(f)'
                   PROVE  WillShow(inbox[d], view'[d][f], f, store[f])
        BY <1>4 DEF OthersShow, FieldOf
    <2>2. d \notin Writers(f) /\ view'[d][f] = view[d][f]
        BY <1>2, <2>1
    <2>3. \A x \in flush : FieldOf(x.of) = f => x.step # "done"
        BY <1>5, <2>1 DEF FieldOf
    <2> QED BY <2>2, <2>3 DEF FieldValues, OthersShow
<1> QED BY <1>8, <1>9, <1>10, <1>11, <1>12 DEF FieldValues

-----------------------------------------------------------------------------
(* All of it is kept.                                                        *)

LEMMA ValuesStep ==
    ASSUME Typed, Moved, Peace, OneField, NewsHasWriter, QuietNext,
           \A c \in Clients : SharesNone(c) => Serial(c),
           NEW f \in Fields, Owned(f), Owned(f)', FieldValues(f)
    PROVE  FieldValues(f)'
<1>1. ASSUME NEW c \in Clients, NEW g \in Fields, NEW v \in Values,
             SetValue(c, g, v), UNCHANGED serverVars
      PROVE  FieldValues(f)'
    BY <1>1, EditValues
<1>2. ASSUME NEW c \in Clients, NEW id, Retries(c, id) \/ (TimesOut(c, id) /\ ~ Answered(c, id)),
             UNCHANGED serverVars
      PROVE  FieldValues(f)'
    <2>1. ~ Serial(c)
        BY <1>2, NoTimeout
    <2>2. \A i \in Sets(f) : ops[i].by \in Clients \ {c}
        BY <2>1, WritersAreClients, EditorIsAlone
    <2>3. \A d \in Clients \ {c} : client'[d] = client[d]
        <3>1. \E l : Becomes(c, l)
            BY <1>2 DEF Retries, TimesOut
        <3> QED BY <3>1 DEF Becomes, Typed, ClientInv, ClientTypes
    <2>4. UNCHANGED <<ops, store, view, inbox, skipped, flush>>
        BY <1>2 DEF Retries, TimesOut, serverVars
    <2> QED BY <2>2, <2>3, <2>4, ValuesStay
<1>3. ASSUME NEW c \in Clients, Receive(c) PROVE FieldValues(f)'
    BY <1>3, ReceiveValues
<1>4. ASSUME NEW m \in sent, Merge(m) PROVE FieldValues(f)'
    <2>1. UNCHANGED <<ops, store, view, inbox, skipped, flush, client>>
        BY <1>4 DEF Merge
    <2> QED BY <2>1, ValuesStay
<1>5. ASSUME NEW k \in DOMAIN entry, Timer(k) PROVE FieldValues(f)'
    <2>1. UNCHANGED <<ops, store, view, inbox, skipped, client>>
        BY <1>5 DEF Timer, queueVars
    <2>2. flush \subseteq flush' /\ \A y \in flush' : y \in flush \/ y.step = "reads"
        BY <1>5, TimerStarts
    <2> QED BY <2>1, <2>2, ValuesStay
<1>6. ASSUME NEW x \in flush, Read(x) \/ Write(x) \/ (Answer(x) /\ x.step = "done")
      PROVE  FieldValues(f)'
    <2>1. Read(x) => FieldValues(f)'
        BY ReadValues
    <2>2. Write(x) => FieldValues(f)'
        BY WriteValues
    <2>3. Answer(x) /\ x.step = "done" => FieldValues(f)'
        BY OwnAnswerValues, OthersAnswerValues
    <2> QED BY <1>6, <2>1, <2>2, <2>3
<1>7. ASSUME UNCHANGED vars PROVE FieldValues(f)'
    <2>1. UNCHANGED <<ops, store, view, inbox, skipped, flush, client>>
        BY <1>7 DEF vars, queueVars, serverVars
    <2> QED BY <2>1, ValuesStay
<1> QED BY <1>1, <1>2, <1>3, <1>4, <1>5, <1>6, <1>7 DEF QuietNext

LEMMA AgreeingStep ==
    ASSUME Typed, Counted, Moved, EntriesCome, Agreeing, [Next]_vars
    PROVE  Agreeing'
<1> SUFFICES ASSUME Undisturbed'
             PROVE  /\ Peace' /\ OneField' /\ NewsHasWriter'
                    /\ \A c \in Clients : SharesNone(c)' => Serial(c)'
                    /\ \A f \in Fields : Owned(f)' => FieldValues(f)'
    BY DEF Agreeing
<1>1. /\ Peace /\ OneField /\ NewsHasWriter
      /\ \A c \in Clients : SharesNone(c) => Serial(c)
      /\ \A f \in Fields : Owned(f) => FieldValues(f)
    BY UndisturbedBefore DEF Agreeing
<1>2. QuietNext
    BY <1>1, QuietStep
<1>3. Peace' /\ OneField' /\ NewsHasWriter'
    BY <1>1, <1>2, PeaceStep, OneFieldStep, NewsHasWriterStep
<1>4. ASSUME NEW c \in Clients, SharesNone(c)' PROVE Serial(c)'
    BY <1>1, <1>2, <1>4, OwnedBefore, SerialStep
<1>5. ASSUME NEW f \in Fields, Owned(f)' PROVE FieldValues(f)'
    BY <1>1, <1>2, <1>5, OwnedBefore, ValuesStep
<1> QED BY <1>3, <1>4, <1>5

LEMMA AgreeingInit ==
    ASSUME Init
    PROVE  Counted /\ Agreeing
<1>1. /\ ops = <<>> /\ sent = {} /\ flush = {} /\ removing = {} /\ deleted = {} /\ locked = {}
      /\ skipped = {}
      /\ faults = 0 /\ errors = 0 /\ DOMAIN entry = {}
      /\ \A c \in Clients : /\ client[c] = Idle /\ inbox[c] = <<>> /\ Len(inbox[c]) = 0
                            /\ joined[c] /\ registered[c] /\ session[c] = 0
      /\ \A f \in Fields : store[f] = Unset /\ \A c \in Clients : view[c][f] = Unset
    BY EmptySeq DEF Init, QueueInit
<1>2. /\ \A c \in Clients : Heard(inbox[c]) = {} /\ Answers(c) = {}
      /\ \A f : Sets(f) = {} /\ Writers(f) = {}
    <2>1. \A c \in Clients : 1 .. Len(inbox[c]) = {}
        BY <1>1
    <2>2. \A c \in Clients : Heard(inbox[c]) = {} /\ Answers(c) = {}
        BY <2>1 DEF Heard, Answers
    <2>3. 1 .. Len(ops) = {}
        BY <1>1, EmptySeq
    <2>4. \A f : Sets(f) = {}
        BY <2>3 DEF Sets
    <2> QED BY <2>2, <2>4 DEF Writers
<1>3. Peace /\ OneField /\ NewsHasWriter
    BY <1>1, <1>2 DEF Peace, OneField, NewsHasWriter
<1>4. ASSUME NEW c \in Clients PROVE Serial(c)
    <2>1. /\ client[c].queue = {} /\ client[c].retries = {}
        BY <1>1 DEF Idle
    <2>2. InFlight(client[c]) = {}
        BY <2>1 DEF InFlight
    <2>3. Orderly(client[c])
        BY <2>1, <2>2 DEF Orderly
    <2>4. NoneSent(c)
        BY <1>1, <1>2, <2>2 DEF NoneSent, Letters, Filed
    <2> QED BY <2>3, <2>4 DEF Serial
<1>5. ASSUME NEW f \in Fields PROVE FieldValues(f)
    <2>1. RowIsRead(f) /\ DoneIsStored(f) /\ AnswerIsStored(f) /\ WriterShows(f) /\ LastIsStored(f)
        BY <1>1, <1>2 DEF RowIsRead, DoneIsStored, AnswerIsStored, WriterShows, LastIsStored
    <2>2. OthersShow(f)
        <3>1. \A c \in Clients : \A i \in 1 .. Len(inbox[c]) : FALSE
            BY <1>1
        <3> QED BY <1>1, <3>1 DEF OthersShow, WillShow
    <2> QED BY <2>1, <2>2 DEF FieldValues
<1> QED BY <1>1, <1>3, <1>4, <1>5 DEF Counted, Agreeing

(* A field that someone has edited has a last edit. *)
LEMMA LastEdit ==
    ASSUME Typed, NEW f, Sets(f) # {}
    PROVE  \E i \in Sets(f) : IsLast(i, f)
<1> DEFINE At(i) == [id |-> Len(ops) + 1 - i, status |-> "pending", try |-> 0]
           S == {At(i) : i \in Sets(f)}
<1>1. Len(ops) \in Nat /\ Len(ops) <= MaxOps
    BY LenProperties DEF Typed, ClientInv, ClientTypes
<1>2. \A i \in Sets(f) : i \in 1 .. Len(ops)
    BY DEF Sets
<1>3. S \in SUBSET Entries /\ S # {}
    <2>1. ASSUME NEW i \in Sets(f) PROVE At(i) \in Entries
        <3>1. Len(ops) + 1 - i \in Ids
            BY <1>1, <1>2, QueueConstants DEF Ids
        <3>2. 0 \in 0 .. MaxRetries
            BY QueueConstants
        <3> QED BY <3>1, <3>2 DEF Entries
    <2> HIDE DEF At
    <2> QED BY <2>1
<1>4. PICK e \in S : \A d \in S : e.id <= d.id
    <2> HIDE DEF S
    <2> QED BY <1>3, Oldest
<1>5. PICK i \in Sets(f) : e = At(i)
    OBVIOUS
<1>6. ASSUME NEW j \in Sets(f) PROVE j <= i
    <2>1. e.id <= At(j).id /\ e.id = Len(ops) + 1 - i
        BY <1>4, <1>5
    <2> QED BY <1>1, <1>2, <2>1
<1> QED BY <1>5, <1>6 DEF IsLast

(* When nothing is left to do, what is shown is what is stored. *)
LEMMA AgreeingAgrees ==
    ASSUME Typed, Agreeing
    PROVE  SingleWriterAgrees
<1> SUFFICES ASSUME Undisturbed, Quiet, NEW f \in Fields, Owned(f), SkippedOn(f) = {},
                    NEW c \in Clients
             PROVE  view[c][f] = store[f]
    BY DEF SingleWriterAgrees, Undisturbed
<1>1. FieldValues(f)
    BY DEF Agreeing
<1>2. CASE c \notin Writers(f)
    <2>1. WillShow(inbox[c], view[c][f], f, store[f])
        BY <1>1, <1>2 DEF FieldValues, OthersShow, Quiet
    <2>2. Len(inbox[c]) = 0
        BY EmptySeq DEF Quiet
    <2>3. \A i \in 1 .. Len(inbox[c]) : FALSE
        BY <2>2
    <2> QED BY <2>1, <2>3 DEF WillShow
<1>3. CASE c \in Writers(f)
    <2>1. PICK i \in Sets(f) : IsLast(i, f)
        BY <1>3, LastEdit DEF Writers
    <2>2. ops[i].by = c
        BY <1>3, EditorIsAlone, WritersAreClients
    <2>3. view[c][f] = ops[i].value
        BY <1>1, <2>1, <2>2 DEF FieldValues, WriterShows
    <2>4. Queued(client[c]) = {}
        BY DEF Quiet, Idle, Queued
    <2>5. store[f] = ops[i].value
        BY <1>1, <2>1, <2>2, <2>4 DEF FieldValues, LastIsStored
    <2> QED BY <2>3, <2>5
<1> QED BY <1>2, <1>3

(* Without faults, once nothing is left to do, every client shows what the   *)
(* database holds of a field whose block one client alone has edited, if it  *)
(* shares no other field either (the flush of subblocks.ts, the handlers of  *)
(* the queue and of the clients).                                            *)
THEOREM SingleWriterAgreement == Spec => []SingleWriterAgrees
<1> DEFINE Inv == Typed /\ Counted /\ Agreeing
<1>1. Init => Inv
    BY TypedInit, AgreeingInit
<1>2. Inv /\ [Next]_vars => Inv'
    <2>1. ASSUME Inv, [Next]_vars PROVE Inv'
        <3>1. Typed' /\ Moved
            BY <2>1, TypedStep
        <3>2. EntriesCome
            BY <2>1, EntriesComeStep
        <3>3. Counted'
            BY <2>1, <3>1, UndisturbedBefore
        <3>4. Agreeing'
            BY <2>1, <3>1, <3>2, AgreeingStep
        <3> QED BY <3>1, <3>3, <3>4
    <2> QED BY <2>1
<1>3. Inv => SingleWriterAgrees
    BY AgreeingAgrees
<1> QED BY <1>1, <1>2, <1>3, PTL DEF Spec

=============================================================================
