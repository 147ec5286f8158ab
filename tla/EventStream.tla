----------------------------- MODULE EventStream -----------------------------
(***************************************************************************)
(* The replay buffer of one execution: the writers that number its events, *)
(* hold them in memory and flush them to Redis (lib/execution/event-buffer *)
(* .ts), used by the run that may pause, by its resume and by the          *)
(* cancellation of the pause; and the reconnection streams that poll Redis *)
(* (app/api/workflows/[id]/executions/[executionId]/stream/route.ts).      *)
(***************************************************************************)
EXTENDS Integers, FiniteSets

CONSTANTS
    NEvents,       \* the events that a run, and a resume, has to write ahead of its
                   \* end: execution:started, and those of the blocks
    ReserveBatch,  \* RESERVE_BATCH: the ids reserved at a time
    FlushBatch,    \* FLUSH_MAX_BATCH: a write waits for a flush from here on
    MaxPending,    \* MAX_PENDING_EVENTS
    EventLimit,    \* EVENT_LIMIT: the events Redis retains
    MaxFaults,     \* bound: failures of Redis, of the payload store, of budgets
    Readers        \* the reconnection streams

Writers == {"run", "resume", "cancel"}

ASSUME StreamAssumption ==
    /\ NEvents \in Nat \ {0} /\ ReserveBatch \in Nat \ {0} /\ FlushBatch \in Nat \ {0, 1}
    /\ MaxPending \in Nat \ {0} /\ EventLimit \in Nat \ {0} /\ MaxFaults \in Nat

VARIABLES
    stream,      \* Redis: the events retained
    seq,         \* Redis: the ids reserved
    meta,        \* Redis: status, earliestEventId, replayStartEventId (0: not set)
    phase,       \* how far a writer's run has come
    left,        \* how many events it has yet to write before its end
    ids,         \* nextEventId and maxReservedId
    pending,     \* the events in memory
    flight,      \* flushPromise: the batch, whether it sets the status, and who started it
    op,          \* the call that waits for a flush: a write, the terminal write, close
    timer,       \* flushTimer
    tries,       \* the attempts left: at the end, and at closing
    faults,
    at,          \* where a reader is
    last,        \* its lastEventId
    held,        \* the events that it has read and not yet sent
    final,       \* its last look, after a terminal status
    from,        \* history: where it started
    got,         \* history: the events it has sent
    written,     \* history: the events that were given an id and held
    lost,        \* history: those dropped, or taken back
    refused,     \* history: writers whose flush a budget has refused
    unpublished, \* history: whether an end could not be written
    overtaken    \* history: a resume has reset the stream under a reader, or before the
                 \* run had flushed its last event

store == <<stream, meta>>
reader == <<at, last, held, final, from, got>>
vars == <<stream, seq, meta, phase, left, ids, pending, flight, op, timer, tries, faults,
          at, last, held, final, from, got, written, lost, refused, unpublished, overtaken>>

-----------------------------------------------------------------------------
(* Events, in the order of their ids *)

IsEnd(e) == e.kind # "block"

Newest(n, S) == {e \in S : Cardinality({f \in S : f.id > e.id}) < n}

Earliest(S) == IF S = {} THEN 0 ELSE (CHOOSE e \in S : \A f \in S : e.id <= f.id).id
Latest(S) == (CHOOSE e \in S : \A f \in S : f.id <= e.id).id

NoFlight == [batch |-> {}, ends |-> FALSE, by |-> "nobody"]
Reading(r) == at[r] \in {"meta", "range", "recheck", "status"}
Flushing(w) == flight[w].by # "nobody"

Init ==
    /\ stream = {} /\ seq = 0
    /\ meta = [status |-> "none", earliest |-> 0, start |-> 0]
    /\ phase = [w \in Writers |-> "idle"]
    /\ left = [w \in Writers |-> IF w = "run" THEN NEvents + 1 ELSE IF w = "resume" THEN NEvents ELSE 0]
    /\ ids = [w \in Writers |-> [next |-> 0, max |-> 0]]
    /\ pending = [w \in Writers |-> {}]
    /\ flight = [w \in Writers |-> NoFlight]
    /\ op = [w \in Writers |-> "none"]
    /\ timer = [w \in Writers |-> FALSE]
    /\ tries = [w \in Writers |-> IF w = "resume" THEN 2 ELSE 1]
    /\ faults = 0
    /\ at = [r \in Readers |-> "off"] /\ last = [r \in Readers |-> 0]
    /\ held = [r \in Readers |-> {}] /\ final = [r \in Readers |-> FALSE]
    /\ from = [r \in Readers |-> 0] /\ got = [r \in Readers |-> {}]
    /\ written = {} /\ lost = {} /\ refused = {} /\ unpublished = FALSE /\ overtaken = FALSE

-----------------------------------------------------------------------------
(* What the writers are used for *)

(* The run initializes the metadata; it stores its pause, if it pauses,     *)
(* when it has written its block events.                                    *)
StartRun ==
    /\ phase["run"] = "idle"
    /\ meta' = [meta EXCEPT !.status = "active"]
    /\ phase' = [phase EXCEPT !["run"] = "writing"]
    /\ UNCHANGED <<stream, seq, left, ids, pending, flight, op, timer, tries, faults, reader,
                   written, lost, refused, unpublished, overtaken>>

Paused == phase["run"] # "idle" /\ left["run"] <= 1

(* A writer has something still to write or to flush: a flush that fails    *)
(* while the writer is being closed leaves a timer behind.                  *)
Unsettled(w) == phase[w] # "over" \/ timer[w] \/ Flushing(w)

(* A resume resets the stream, *)
ResetStream ==
    /\ Paused
    /\ phase["resume"] = "idle" /\ phase["cancel"] = "idle"
    /\ stream' = {}
    /\ meta' = [status |-> "none", earliest |-> 0, start |-> seq + 1]
    /\ phase' = [phase EXCEPT !["resume"] = "reset"]
    /\ overtaken' = (Unsettled("run") \/ \E r \in Readers : Reading(r))
    /\ UNCHANGED <<seq, left, ids, pending, flight, op, timer, tries, faults, reader,
                   written, lost, refused, unpublished>>

Fails == faults < MaxFaults /\ faults' = faults + 1

(* A resume that cannot begin is over without an end: nobody closes its     *)
(* writer, which holds nothing, or sets the status.                         *)
Abandons(w) ==
    /\ phase' = [phase EXCEPT ![w] = "over"]
    /\ unpublished' = TRUE

(* and makes it active again, or fails to, perhaps when the status is set.  *)
StartResume ==
    /\ phase["resume"] = "reset"
    /\ \/ /\ meta' = [meta EXCEPT !.status = "active"]
          /\ phase' = [phase EXCEPT !["resume"] = "writing"]
          /\ UNCHANGED <<faults, unpublished>>
       \/ /\ Fails
          /\ meta' \in {meta, [meta EXCEPT !.status = "active"]}
          /\ Abandons("resume")
    /\ UNCHANGED <<stream, seq, left, ids, pending, flight, op, timer, tries, reader,
                   written, lost, refused, overtaken>>

(* The cancellation of the pause writes nothing but an end. *)
StartCancel ==
    /\ Paused
    /\ phase["resume"] = "idle" /\ phase["cancel"] = "idle"
    /\ phase' = [phase EXCEPT !["cancel"] = "writing"]
    /\ UNCHANGED <<store, seq, left, ids, pending, flight, op, timer, tries, faults, reader,
                   written, lost, refused, unpublished, overtaken>>

-----------------------------------------------------------------------------
(* Writing an event *)

Exhausted(w) == ids[w].next = 0 \/ ids[w].next > ids[w].max
NextId(w) == IF Exhausted(w) THEN seq + 1 ELSE ids[w].next

(* Takes the next id, reserving ids when there are none left. *)
TakeId(w) ==
    /\ seq' = IF Exhausted(w) THEN seq + ReserveBatch ELSE seq
    /\ ids' = [ids EXCEPT ![w] = [next |-> NextId(w) + 1,
                                  max |-> IF Exhausted(w) THEN seq + ReserveBatch ELSE @.max]]

(* The ids cannot be reserved, or the payload cannot be stored when the id  *)
(* has been taken.                                                          *)
CannotHold(w) ==
    /\ Fails
    /\ TakeId(w) \/ (Exhausted(w) /\ seq' \in {seq, seq + ReserveBatch} /\ UNCHANGED ids)
    /\ UNCHANGED <<pending, flight, op, written>>

(* A call that asks for a flush: it flushes all that is held, or waits for  *)
(* the flush in flight.                                                     *)
AskFlush(w, events, call) ==
    /\ op' = [op EXCEPT ![w] = call]
    /\ IF Flushing(w)
       THEN pending' = [pending EXCEPT ![w] = events] /\ UNCHANGED flight
       ELSE /\ flight' = [flight EXCEPT ![w] = [batch |-> events, ends |-> call = "end", by |-> call]]
            /\ pending' = [pending EXCEPT ![w] = {}]

(* Of the run, the last one is an end that nobody waits for, written ahead  *)
(* of the end proper.                                                       *)
Upcoming(w) == [id |-> NextId(w), by |-> w,
             kind |-> IF left[w] > 0 THEN IF w = "run" /\ left[w] = 1 THEN "early" ELSE "block"
                      ELSE "end"]

(* execution:started, which a resume writes before anything catches what    *)
(* fails; what fails later, and all that fails for the run, is only logged. *)
OpensResume(w) == w = "resume" /\ left[w] = NEvents

Write(w) ==
    LET events == pending[w] \cup {Upcoming(w)} IN
    /\ phase[w] = "writing" /\ left[w] > 0 /\ op[w] = "none"
    /\ left' = [left EXCEPT ![w] = @ - 1]
    /\ \/ /\ CannotHold(w)
          /\ IF OpensResume(w) THEN Abandons(w) ELSE UNCHANGED <<phase, unpublished>>
          /\ UNCHANGED timer
       \/ /\ TakeId(w)
          /\ written' = written \cup {Upcoming(w)}
          /\ IF Cardinality(events) >= FlushBatch
             THEN AskFlush(w, events, "batch") /\ UNCHANGED timer
             ELSE /\ pending' = [pending EXCEPT ![w] = events]
                  /\ timer' = [timer EXCEPT ![w] = TRUE]
                  /\ UNCHANGED <<flight, op>>
          /\ UNCHANGED <<faults, phase, unpublished>>
    /\ UNCHANGED <<store, tries, reader, lost, refused, overtaken>>

(* The end could not be written: a resume writes another, an error; who has *)
(* no attempt left closes the writer, a resume in two attempts.             *)
EndFails(w) ==
    IF tries[w] > 1
    THEN tries' = [tries EXCEPT ![w] = @ - 1] /\ UNCHANGED <<phase, unpublished>>
    ELSE /\ phase' = [phase EXCEPT ![w] = "closing"]
         /\ tries' = [tries EXCEPT ![w] = IF w = "resume" THEN 2 ELSE 1]
         /\ unpublished' = TRUE

(* The end of the run, which is stored together with the status if it goes  *)
(* out in a flush of its own.                                               *)
WriteEnd(w) ==
    /\ phase[w] = "writing" /\ left[w] = 0 /\ op[w] = "none"
    /\ timer' = [timer EXCEPT ![w] = FALSE]
    /\ \/ CannotHold(w) /\ EndFails(w)
       \/ /\ TakeId(w)
          /\ written' = written \cup {Upcoming(w)}
          /\ AskFlush(w, pending[w] \cup {Upcoming(w)}, "end")
          /\ UNCHANGED <<phase, tries, faults, unpublished>>
    /\ UNCHANGED <<store, left, reader, lost, refused, overtaken>>

(* A close waits for the flush in flight, and then flushes what is left.    *)
Close(w) ==
    /\ phase[w] = "closing" /\ op[w] = "none"
    /\ timer' = [timer EXCEPT ![w] = FALSE]
    /\ IF pending[w] = {} /\ ~Flushing(w)
       THEN phase' = [phase EXCEPT ![w] = "over"] /\ UNCHANGED <<pending, flight, op>>
       ELSE AskFlush(w, pending[w], IF Flushing(w) THEN "close" ELSE "drain") /\ UNCHANGED phase
    /\ UNCHANGED <<store, seq, left, ids, tries, faults, reader, written, lost, refused, unpublished, overtaken>>

TimerFires(w) ==
    /\ timer[w]
    /\ timer' = [timer EXCEPT ![w] = FALSE]
    /\ IF pending[w] # {} /\ ~Flushing(w)
       THEN /\ flight' = [flight EXCEPT ![w] = [batch |-> pending[w], ends |-> FALSE, by |-> "timer"]]
            /\ pending' = [pending EXCEPT ![w] = {}]
       ELSE UNCHANGED <<flight, pending>>
    /\ UNCHANGED <<store, seq, phase, left, ids, op, tries, faults, reader, written, lost,
                   refused, unpublished, overtaken>>

-----------------------------------------------------------------------------
(* The end of a flush *)

(* Mutant: the status is a call of its own, ahead of the script. *)
StoreStatusFirst(w) ==
    LET kept == Newest(EventLimit, stream \cup flight[w].batch) IN
    \/ /\ stream' = kept
       /\ meta' = [meta EXCEPT !.earliest = Earliest(kept),
                               !.status = IF flight[w].ends THEN "over" ELSE @]
    \/ stream' = stream /\ flight[w].ends /\ meta' = [meta EXCEPT !.status = "over"]

(* The script: stores the batch, prunes the oldest events, and sets the     *)
(* status and the earliest event.                                           *)
Store(w) ==
    LET kept == Newest(EventLimit, stream \cup flight[w].batch) IN
    /\ stream' = kept
    /\ meta' = [meta EXCEPT !.earliest = Earliest(kept),
                            !.status = IF flight[w].ends THEN "over" ELSE @]

(* Who started the flush takes what has come in since, before whoever waits *)
(* for it goes on.                                                          *)
Stored(w) ==
    /\ Store(w)
    /\ IF pending[w] # {}
       THEN /\ flight' = [flight EXCEPT ![w].batch = pending[w]]
            /\ pending' = [pending EXCEPT ![w] = {}]
            /\ op' = [op EXCEPT ![w] = IF @ = "close" THEN "drain" ELSE @]
            /\ UNCHANGED <<phase, tries>>
       ELSE /\ flight' = [flight EXCEPT ![w] = NoFlight]
            /\ op' = [op EXCEPT ![w] = "none"]
            /\ phase' = [phase EXCEPT ![w] = CASE op[w] = "end" -> "closing"
                                               [] op[w] \in {"close", "drain"} -> "over"
                                               [] OTHER -> @]
            /\ tries' = [tries EXCEPT ![w] = IF op[w] = "end" THEN 1 ELSE @]
            /\ UNCHANGED pending
    /\ UNCHANGED <<timer, faults, lost, refused, unpublished>>

(* The call that waits for a flush goes on without it. *)
GoesOn(w) ==
    /\ flight' = [flight EXCEPT ![w] = NoFlight]
    /\ op' = [op EXCEPT ![w] = "none"]
    /\ CASE op[w] = "end" -> EndFails(w)
         [] op[w] \in {"close", "drain"} ->
              /\ phase' = [phase EXCEPT ![w] = IF tries[w] > 1 THEN @ ELSE "over"]
              /\ tries' = [tries EXCEPT ![w] = @ - 1]
              /\ UNCHANGED unpublished
         [] OTHER -> UNCHANGED <<phase, tries, unpublished>>

(* Mutant: only a full batch is tried again. *)
RetriesBatch(w) == flight[w].by = "batch"

(* Whether a flush that fails sets a timer to try again. *)
Retries(w) == flight[w].by \in {"timer", "batch"}

(* A flush fails, perhaps after the script has run: its batch is put back,  *)
(* the oldest events are dropped, and a write or a timer tries again later. *)
(* An end is taken back; a close that has only waited flushes itself.       *)
Failed(w) ==
    LET all == flight[w].batch \cup pending[w]
        kept == Newest(MaxPending, all)
        back == IF op[w] = "end" THEN {e \in kept : e.id = Latest(all)} ELSE {}
    IN
    /\ Fails
    /\ Store(w) \/ UNCHANGED store
    /\ lost' = lost \cup (all \ kept) \cup back
    /\ timer' = [timer EXCEPT ![w] = @ \/ Retries(w)]
    /\ IF op[w] = "close"
       THEN /\ flight' = [flight EXCEPT ![w] = [batch |-> kept, ends |-> FALSE, by |-> "drain"]]
            /\ pending' = [pending EXCEPT ![w] = {}]
            /\ op' = [op EXCEPT ![w] = "drain"]
            /\ UNCHANGED <<phase, tries, unpublished>>
       ELSE pending' = [pending EXCEPT ![w] = kept \ back] /\ GoesOn(w)
    /\ UNCHANGED refused

(* The budget of the execution or the user refuses the batch: it is kept,   *)
(* and nobody tries again before the next write.                            *)
Refused(w) ==
    /\ Fails
    /\ pending' = [pending EXCEPT ![w] = flight[w].batch \cup @]
    /\ refused' = refused \cup {w}
    /\ GoesOn(w)
    /\ UNCHANGED <<store, lost, timer>>

EndFlush(w) ==
    /\ Flushing(w)
    /\ Stored(w) \/ Failed(w) \/ Refused(w)
    /\ UNCHANGED <<seq, left, ids, reader, written, overtaken>>

-----------------------------------------------------------------------------
(* A reconnection stream *)

GoTo(r, place) == at' = [at EXCEPT ![r] = place]

(* A client comes back with the last event that it has seen, or with none. *)
Connect(r) ==
    /\ at[r] = "off" /\ meta.status # "none"
    /\ \E n \in {0} \cup {e.id : e \in {f \in written : ~IsEnd(f)}} :
          last' = [last EXCEPT ![r] = n] /\ from' = [from EXCEPT ![r] = n]
    /\ GoTo(r, "meta")
    /\ UNCHANGED <<store, seq, phase, left, ids, pending, flight, op, timer, tries, faults, held,
                   final, got, written, lost, refused, unpublished, overtaken>>

(* Mutant: who has seen nothing is never behind. *)
PrunedSinceLast(r) == last[r] # 0 /\ last[r] + 1 < meta.earliest

(* Whether events after the last one that was sent have been pruned. *)
Pruned(r) ==
    /\ meta.earliest # 0
    /\ IF last[r] = 0 /\ meta.start # 0 THEN meta.earliest > meta.start
       ELSE last[r] + 1 < meta.earliest

(* The stream ends with an error, and the client forgets what it got. *)
Fail(r) ==
    /\ GoTo(r, "error")
    /\ last' = [last EXCEPT ![r] = 0] /\ from' = [from EXCEPT ![r] = 0]
    /\ held' = [held EXCEPT ![r] = {}] /\ got' = [got EXCEPT ![r] = {}]
    /\ final' = [final EXCEPT ![r] = FALSE]

ReadMeta(r) ==
    /\ at[r] = "meta"
    /\ \/ Pruned(r) /\ Fail(r)
       \/ ~Pruned(r) /\ GoTo(r, "range") /\ UNCHANGED <<last, held, final, from, got>>

(* Mutant: the range leaves out the next event. *)
ReadRangePastNext(r) ==
    /\ at[r] = "range"
    /\ held' = [held EXCEPT ![r] = {e \in stream : e.id > last[r] + 1}]
    /\ GoTo(r, "recheck")
    /\ UNCHANGED <<last, final, from, got>>

ReadRange(r) ==
    /\ at[r] = "range"
    /\ held' = [held EXCEPT ![r] = {e \in stream : e.id > last[r]}]
    /\ GoTo(r, "recheck")
    /\ UNCHANGED <<last, final, from, got>>

(* Looks at the metadata again, and sends what it has read. *)
Recheck(r) ==
    /\ at[r] = "recheck"
    /\ \/ Pruned(r) /\ Fail(r)
       \/ /\ ~Pruned(r)
          /\ got' = [got EXCEPT ![r] = @ \cup held[r]]
          /\ last' = [last EXCEPT ![r] = IF held[r] = {} THEN @ ELSE Latest(held[r])]
          /\ held' = [held EXCEPT ![r] = {}]
          /\ GoTo(r, IF \E e \in held[r] : IsEnd(e) THEN "done"
                     ELSE IF final[r] THEN "stranded" ELSE "status")
          /\ UNCHANGED <<final, from>>

(* After a terminal status, or none, it looks for events once more. *)
ReadStatus(r) ==
    /\ at[r] = "status"
    /\ final' = [final EXCEPT ![r] = meta.status # "active"]
    /\ GoTo(r, "meta")
    /\ UNCHANGED <<last, held, from, got>>

Poll(r) ==
    /\ ReadMeta(r) \/ ReadRange(r) \/ Recheck(r) \/ ReadStatus(r)
    /\ UNCHANGED <<store, seq, phase, left, ids, pending, flight, op, timer, tries, faults, written,
                   lost, refused, unpublished, overtaken>>

(* Redis cannot be read, or the deadline has passed. *)
GiveUp(r) ==
    /\ Reading(r)
    /\ Fail(r)
    /\ UNCHANGED <<store, seq, phase, left, ids, pending, flight, op, timer, tries, faults,
                   written, lost, refused, unpublished, overtaken>>

-----------------------------------------------------------------------------

Proceed(w) == Write(w) \/ WriteEnd(w) \/ Close(w) \/ TimerFires(w) \/ EndFlush(w)

Next ==
    \/ StartRun \/ ResetStream \/ StartResume \/ StartCancel
    \/ \E w \in Writers : Proceed(w)
    \/ \E r \in Readers : Connect(r) \/ Poll(r) \/ GiveUp(r)

(* A run comes to its end, timers fire, Redis answers or fails, a resume    *)
(* that has begun goes on, and a reader polls.                              *)
Fairness ==
    /\ \A w \in Writers : WF_vars(Proceed(w))
    /\ WF_vars(StartResume)
    /\ \A r \in Readers : WF_vars(Poll(r))

Spec == Init /\ [][Next]_vars /\ Fairness

-----------------------------------------------------------------------------
(* Properties *)

Events == [id : Nat, by : Writers, kind : {"block", "early", "end"}]

(* Types of the variables.                                                  *)
TypeOK ==
    /\ stream \in SUBSET Events /\ seq \in Nat
    /\ meta \in [status : {"none", "active", "over"}, earliest : Nat, start : Nat]
    /\ phase \in [Writers -> {"idle", "reset", "writing", "closing", "over"}]
    /\ left \in [Writers -> Nat]
    /\ ids \in [Writers -> [next : Nat, max : Nat]]
    /\ pending \in [Writers -> SUBSET Events]
    /\ flight \in [Writers -> [batch : SUBSET Events, ends : BOOLEAN,
                               by : {"nobody", "timer", "batch", "end", "drain"}]]
    /\ op \in [Writers -> {"none", "batch", "end", "close", "drain"}]
    /\ timer \in [Writers -> BOOLEAN]
    /\ tries \in [Writers -> 0 .. 2] /\ faults \in 0 .. MaxFaults
    /\ at \in [Readers -> {"off", "meta", "range", "recheck", "status", "done", "error", "stranded"}]
    /\ last \in [Readers -> Nat] /\ from \in [Readers -> Nat]
    /\ held \in [Readers -> SUBSET Events] /\ got \in [Readers -> SUBSET Events]
    /\ final \in [Readers -> BOOLEAN]
    /\ written \in SUBSET Events /\ lost \in SUBSET Events
    /\ refused \in SUBSET Writers /\ unpublished \in BOOLEAN /\ overtaken \in BOOLEAN

(* A reader that sends an event has sent every event that the same writer   *)
(* gave an id before it, from where the reader started: flushes that fail   *)
(* or overtake the reader, and pruning between its three reads of Redis,    *)
(* leave no silent gap.  Not counted are events that the writer dropped or  *)
(* took back; and nothing is promised of the run's once a resume has reset  *)
(* the stream under its writer or the reader, and with it the record of     *)
(* what was pruned.                                                         *)
NoSilentGap ==
    \A r \in Readers : \A e \in got[r] : \A f \in written \ lost :
        /\ f.by = e.by /\ from[r] < f.id /\ f.id < e.id
        /\ e.by = "run" => ~overtaken
        => f \in got[r]

(* A reader that sees the terminal status finds the end when it looks once  *)
(* more: the two are stored together, and pruning spares the end.  Excepted *)
(* is a resume that resets the stream under the reader, or before the run   *)
(* has written its own end, which then ends the stream of the resume.       *)
NeverStranded == (\E r \in Readers : at[r] = "stranded") => overtaken

(* While a run goes on, no event is left in memory that nothing will flush, *)
(* however timers, full batches and failures meet; unless a budget has      *)
(* refused a flush, after which only the next write sets a timer.           *)
NoneForgotten ==
    \A w \in Writers :
        phase[w] = "writing" /\ left[w] > 0 /\ pending[w] # {}
            => timer[w] \/ Flushing(w) \/ w \in refused

(* Every reader comes to an end without waiting for its deadline, through   *)
(* pauses, resets, lost flushes and pruning; unless an end could not be     *)
(* written, or a resume failed between its reset of the stream and its      *)
(* first event, which leaves the status active and no end for good.         *)
EndsReachReaders == \A r \in Readers : Reading(r) ~> ~Reading(r) \/ unpublished

=============================================================================
