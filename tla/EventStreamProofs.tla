-------------------------- MODULE EventStreamProofs --------------------------
(* Proofs about EventStream: a writer leaves no event in memory behind, and  *)
(* a reader neither misses an event without being told nor waits for an end  *)
(* that is not there.                                                        *)
EXTENDS EventStream, TLAPS, FiniteSetTheorems, WellFoundedInduction

Flights == [batch : SUBSET Events, ends : BOOLEAN, by : {"nobody", "timer", "batch", "end", "drain"}]

(* The state of the writers: what the proof has to know of the types. *)
WriterTypes ==
    /\ seq \in Nat
    /\ phase \in [Writers -> {"idle", "reset", "writing", "closing", "over"}]
    /\ left \in [Writers -> Nat]
    /\ ids \in [Writers -> [next : Nat, max : Nat]]
    /\ pending \in [Writers -> SUBSET Events]
    /\ flight \in [Writers -> Flights]
    /\ op \in [Writers -> {"none", "batch", "end", "close", "drain"}]
    /\ timer \in [Writers -> BOOLEAN]
    /\ refused \in SUBSET Writers

(* Who does not retry has no block events to come: an end is flushed when   *)
(* there are none left, and closing begins behind it.  And a writer that    *)
(* has not started holds nothing.                                           *)
Roles ==
    \A w \in Writers :
        /\ flight[w].by = "end" => left[w] = 0
        /\ flight[w].by = "drain" \/ op[w] \in {"close", "drain"} => phase[w] = "closing"
        /\ phase[w] \in {"idle", "reset"} => pending[w] = {} /\ ~Flushing(w)

Kept == WriterTypes /\ Roles /\ NoneForgotten

writers == <<seq, phase, left, ids, pending, flight, op, timer, refused>>

(* Initially nothing is held. *)
LEMMA KeptInit == Init => Kept
BY StreamAssumption DEF Init, Kept, WriterTypes, Flights, Roles, NoneForgotten, NoFlight, Flushing, Writers, Events

(* A flush of held events is a flight, and none is one. *)
LEMMA FlightType ==
    /\ NoFlight \in Flights
    /\ \A events \in SUBSET Events, ends \in BOOLEAN, by \in {"timer", "batch", "end", "drain"} :
          [batch |-> events, ends |-> ends, by |-> by] \in Flights
BY DEF NoFlight, Flights

(* Asking for a flush keeps the types. *)
LEMMA AskFlushType ==
    ASSUME WriterTypes, NEW w \in Writers, NEW events \in SUBSET Events,
           NEW call \in {"batch", "end", "close", "drain"}, AskFlush(w, events, call),
           call = "close" => Flushing(w)
    PROVE  /\ pending' \in [Writers -> SUBSET Events]
           /\ flight' \in [Writers -> Flights]
           /\ op' \in [Writers -> {"none", "batch", "end", "close", "drain"}]
<1>1. CASE Flushing(w)
      BY <1>1 DEF AskFlush, WriterTypes
<1>2. CASE ~Flushing(w)
  <2>1. [batch |-> events, ends |-> call = "end", by |-> call] \in Flights
        BY <1>2, FlightType
  <2>2. flight' = [flight EXCEPT ![w] = [batch |-> events, ends |-> call = "end", by |-> call]]
        BY <1>2 DEF AskFlush
  <2>3. flight' \in [Writers -> Flights]
        BY <2>1, <2>2 DEF WriterTypes
  <2> QED
      BY <1>2, <2>3 DEF AskFlush, WriterTypes
<1> QED
    BY <1>1, <1>2

(* The events are numbered with natural numbers. *)
LEMMA UpcomingType ==
    ASSUME WriterTypes, NEW w \in Writers
    PROVE  Upcoming(w) \in Events
BY DEF WriterTypes, Upcoming, NextId, Exhausted, Events, Writers

(* Taking an id keeps the counters natural numbers. *)
LEMMA TakeIdType ==
    ASSUME WriterTypes, NEW w \in Writers, TakeId(w)
    PROVE  /\ seq' \in Nat
           /\ ids' \in [Writers -> [next : Nat, max : Nat]]
<1> ReserveBatch \in Nat
    BY StreamAssumption
<1> QED
    BY DEF WriterTypes, TakeId, NextId, Exhausted

(* An event that is not held changes nothing but the counters. *)
LEMMA CannotHoldType ==
    ASSUME WriterTypes, NEW w \in Writers, CannotHold(w)
    PROVE  /\ seq' \in Nat
           /\ ids' \in [Writers -> [next : Nat, max : Nat]]
           /\ UNCHANGED <<pending, flight, op>>
<1> ReserveBatch \in Nat
    BY StreamAssumption
<1>1. CASE TakeId(w)
      BY <1>1, TakeIdType DEF CannotHold
<1>2. CASE ~TakeId(w)
      BY <1>2 DEF CannotHold, WriterTypes
<1> QED
    BY <1>1, <1>2

(* What starts and resets a writer finds it holding nothing. *)
LEMMA KeptStart ==
    ASSUME Kept, StartRun \/ ResetStream \/ StartResume \/ StartCancel
    PROVE  Kept'
<1>1. PICK w \in Writers, p \in {"reset", "writing", "over"} :
         phase[w] \in {"idle", "reset"} /\ phase' = [phase EXCEPT ![w] = p]
      BY DEF StartRun, ResetStream, StartResume, StartCancel, Abandons, Writers
<1>2. UNCHANGED <<seq, left, ids, pending, flight, op, timer, refused>>
      BY DEF StartRun, ResetStream, StartResume, StartCancel
<1>3. WriterTypes'
      BY <1>1, <1>2 DEF Kept, WriterTypes
<1>4. Roles'
      BY <1>1, <1>2 DEF Kept, WriterTypes, Roles, Flushing
<1>5. NoneForgotten'
      BY <1>1, <1>2 DEF Kept, WriterTypes, Roles, NoneForgotten, Flushing
<1> QED
    BY <1>3, <1>4, <1>5 DEF Kept

(* A write sets the timer, or asks for a flush. *)
LEMMA KeptWrite ==
    ASSUME Kept, NEW w \in Writers, Write(w)
    PROVE  Kept'
<1> DEFINE events == pending[w] \cup {Upcoming(w)}
<1>0. events \in SUBSET Events
      BY UpcomingType DEF Kept, WriterTypes
<1>a. /\ phase[w] = "writing" /\ left[w] > 0 /\ op[w] = "none"
      /\ left' = [left EXCEPT ![w] = @ - 1]
      /\ UNCHANGED refused
      BY DEF Write
<1>1. CASE CannotHold(w) /\ UNCHANGED timer
  <2>0. phase' = phase \/ phase' = [phase EXCEPT ![w] = "over"]
        BY <1>1 DEF Write, Abandons, AskFlush, CannotHold
  <2>1. WriterTypes'
        BY <1>1, <1>a, <2>0, CannotHoldType DEF Kept, WriterTypes
  <2>2. Roles' /\ NoneForgotten'
    <3>1. \A v \in Writers : \/ phase'[v] = phase[v]
                             \/ phase[v] = "writing" /\ phase'[v] = "over"
          BY <1>a, <2>0 DEF Kept, WriterTypes
    <3>2. flight[w].by # "drain" /\ op[w] # "close" /\ op[w] # "drain"
          BY <1>a DEF Kept, Roles
    <3>3. Roles'
          BY <1>1, <1>a, <3>1, <3>2, CannotHoldType DEF Kept, WriterTypes, Roles, Flushing
    <3>4. NoneForgotten'
          BY <1>1, <1>a, <3>1, CannotHoldType DEF Kept, WriterTypes, NoneForgotten, Flushing
    <3> QED
        BY <3>3, <3>4
  <2> QED
      BY <2>1, <2>2 DEF Kept
<1>2. CASE TakeId(w) /\ AskFlush(w, events, "batch") /\ UNCHANGED <<timer, phase>>
  <2>1. WriterTypes'
        BY <1>2, <1>a, <1>0, TakeIdType, AskFlushType DEF Kept, WriterTypes
  <2>2. Roles' /\ NoneForgotten'
        BY <1>2, <1>a DEF Kept, WriterTypes, Roles, NoneForgotten, Flushing, AskFlush
  <2> QED
      BY <2>1, <2>2 DEF Kept
<1>3. CASE /\ TakeId(w)
           /\ pending' = [pending EXCEPT ![w] = events]
           /\ timer' = [timer EXCEPT ![w] = TRUE]
           /\ UNCHANGED <<flight, op, phase>>
  <2>1. WriterTypes'
        BY <1>3, <1>a, <1>0, TakeIdType DEF Kept, WriterTypes
  <2>2. Roles' /\ NoneForgotten'
        BY <1>3, <1>a DEF Kept, WriterTypes, Roles, NoneForgotten, Flushing
  <2> QED
      BY <2>1, <2>2 DEF Kept
<1> QED
    BY <1>1, <1>2, <1>3 DEF Write

(* The end is written when no block events are left. *)
LEMMA KeptWriteEnd ==
    ASSUME Kept, NEW w \in Writers, WriteEnd(w)
    PROVE  Kept'
<1> DEFINE events == pending[w] \cup {Upcoming(w)}
<1>0. events \in SUBSET Events
      BY UpcomingType DEF Kept, WriterTypes
<1>a. /\ phase[w] = "writing" /\ left[w] = 0 /\ op[w] = "none"
      /\ timer' = [timer EXCEPT ![w] = FALSE]
      /\ UNCHANGED <<left, refused>>
      BY DEF WriteEnd
<1>1. CASE CannotHold(w) /\ EndFails(w)
  <2>1. phase' = phase \/ phase' = [phase EXCEPT ![w] = "closing"]
        BY <1>1 DEF EndFails
  <2>2. WriterTypes'
        BY <1>1, <1>a, <2>1, CannotHoldType DEF Kept, WriterTypes
  <2>3. Roles' /\ NoneForgotten'
        BY <1>1, <1>a, <2>1, CannotHoldType
        DEF Kept, WriterTypes, Roles, NoneForgotten, Flushing
  <2> QED
      BY <2>2, <2>3 DEF Kept
<1>2. CASE TakeId(w) /\ AskFlush(w, events, "end") /\ UNCHANGED phase
  <2>1. WriterTypes'
        BY <1>2, <1>a, <1>0, TakeIdType, AskFlushType DEF Kept, WriterTypes
  <2>2. Roles' /\ NoneForgotten'
        BY <1>2, <1>a DEF Kept, WriterTypes, Roles, NoneForgotten, Flushing, AskFlush
  <2> QED
      BY <2>1, <2>2 DEF Kept
<1> QED
    BY <1>1, <1>2 DEF WriteEnd

(* A close flushes, waits, or ends with nothing held. *)
LEMMA KeptClose ==
    ASSUME Kept, NEW w \in Writers, Close(w)
    PROVE  Kept'
<1>a. /\ phase[w] = "closing" /\ op[w] = "none"
      /\ timer' = [timer EXCEPT ![w] = FALSE]
      /\ UNCHANGED <<seq, left, ids, refused>>
      BY DEF Close
<1>1. CASE /\ pending[w] = {} /\ ~Flushing(w)
           /\ phase' = [phase EXCEPT ![w] = "over"] /\ UNCHANGED <<pending, flight, op>>
      BY <1>1, <1>a DEF Kept, WriterTypes, Roles, NoneForgotten, Flushing
<1>2. CASE Flushing(w) /\ AskFlush(w, pending[w], "close") /\ UNCHANGED phase
  <2>1. WriterTypes'
        BY <1>2, <1>a, AskFlushType DEF Kept, WriterTypes
  <2>2. Roles' /\ NoneForgotten'
        BY <1>2, <1>a DEF Kept, WriterTypes, Roles, NoneForgotten, Flushing, AskFlush
  <2> QED
      BY <2>1, <2>2 DEF Kept
<1>3. CASE ~Flushing(w) /\ AskFlush(w, pending[w], "drain") /\ UNCHANGED phase
  <2>1. WriterTypes'
        BY <1>3, <1>a, AskFlushType DEF Kept, WriterTypes
  <2>2. Roles' /\ NoneForgotten'
        BY <1>3, <1>a DEF Kept, WriterTypes, Roles, NoneForgotten, Flushing, AskFlush
  <2> QED
      BY <2>1, <2>2 DEF Kept
<1> QED
    BY <1>1, <1>2, <1>3 DEF Close

(* A timer flushes what is held, unless a flush is in flight. *)
LEMMA KeptTimer ==
    ASSUME Kept, NEW w \in Writers, TimerFires(w)
    PROVE  Kept'
<1>1. WriterTypes'
  <2>1. CASE pending[w] # {} /\ ~Flushing(w)
    <3>1. [batch |-> pending[w], ends |-> FALSE, by |-> "timer"] \in Flights
          BY FlightType DEF Kept, WriterTypes
    <3>2. flight' = [flight EXCEPT ![w] = [batch |-> pending[w], ends |-> FALSE, by |-> "timer"]]
          BY <2>1 DEF TimerFires
    <3>3. flight' \in [Writers -> Flights]
          BY <3>1, <3>2 DEF Kept, WriterTypes
    <3> QED
        BY <2>1, <3>3 DEF Kept, WriterTypes, TimerFires
  <2>2. CASE ~(pending[w] # {} /\ ~Flushing(w))
        BY <2>2 DEF Kept, WriterTypes, TimerFires
  <2> QED
      BY <2>1, <2>2
<1>2. Roles' /\ NoneForgotten'
      BY DEF Kept, WriterTypes, Roles, NoneForgotten, Flushing, TimerFires
<1> QED
    BY <1>1, <1>2 DEF Kept

(* A flush that has succeeded takes what has come in since. *)
LEMMA KeptStored ==
    ASSUME Kept, NEW w \in Writers, Flushing(w), Stored(w), UNCHANGED <<seq, left, ids>>
    PROVE  Kept'
<1>1. CASE pending[w] # {}
  <2>a. /\ flight' = [flight EXCEPT ![w].batch = pending[w]]
        /\ pending' = [pending EXCEPT ![w] = {}]
        /\ op' = [op EXCEPT ![w] = IF @ = "close" THEN "drain" ELSE @]
        /\ UNCHANGED <<phase, timer, refused>>
        BY <1>1 DEF Stored
  <2>1. WriterTypes'
    <3>1. [flight[w] EXCEPT !.batch = pending[w]] \in Flights
          BY DEF Kept, WriterTypes, Flights
    <3>2. flight' \in [Writers -> Flights]
          BY <2>a, <3>1 DEF Kept, WriterTypes
    <3> QED
        BY <2>a, <3>2 DEF Kept, WriterTypes
  <2>2. Roles' /\ NoneForgotten'
        BY <2>a DEF Kept, WriterTypes, Roles, NoneForgotten, Flushing
  <2> QED
      BY <2>1, <2>2 DEF Kept
<1>2. CASE pending[w] = {}
  <2>a. /\ flight' = [flight EXCEPT ![w] = NoFlight]
        /\ op' = [op EXCEPT ![w] = "none"]
        /\ UNCHANGED <<pending, timer, refused>>
        /\ \E p \in {phase[w], "closing", "over"} :
              /\ phase' = [phase EXCEPT ![w] = p]
              /\ p = phase[w] \/ op[w] = "end" \/ phase[w] = "closing"
        BY <1>2 DEF Stored, Kept, Roles
  <2>1. WriterTypes'
    <3>1. flight' \in [Writers -> Flights]
          BY <2>a, FlightType DEF Kept, WriterTypes
    <3>2. PICK p \in {"idle", "reset", "writing", "closing", "over"} :
             phase' = [phase EXCEPT ![w] = p]
          BY <2>a DEF Kept, WriterTypes
    <3> QED
        BY <2>a, <3>1, <3>2 DEF Kept, WriterTypes
  <2>2. Roles' /\ NoneForgotten'
        BY <1>2, <2>a DEF Kept, WriterTypes, Roles, NoneForgotten, Flushing, NoFlight
  <2> QED
      BY <2>1, <2>2 DEF Kept
<1> QED
    BY <1>1, <1>2

(* Whoever waited for a flush goes on, or stays what it is. *)
LEMMA GoesOnPhase ==
    ASSUME Kept, NEW w \in Writers, GoesOn(w)
    PROVE  /\ flight' = [flight EXCEPT ![w] = NoFlight]
           /\ flight' \in [Writers -> Flights]
           /\ op' = [op EXCEPT ![w] = "none"]
           /\ phase' = phase \/ phase' = [phase EXCEPT ![w] = "closing"]
                             \/ phase' = [phase EXCEPT ![w] = "over"]
<1>1. flight' = [flight EXCEPT ![w] = NoFlight]
      BY DEF GoesOn
<1>2. flight' \in [Writers -> Flights]
      BY <1>1, FlightType DEF Kept, WriterTypes
<1> QED
    BY <1>1, <1>2 DEF GoesOn, EndFails, Kept, WriterTypes

(* What a failed flush puts back is held under a timer, unless no block     *)
(* events are to come.                                                      *)
LEMMA KeptFailed ==
    ASSUME Kept, NEW w \in Writers, Flushing(w), Failed(w), UNCHANGED <<seq, left, ids>>
    PROVE  Kept'
<1> DEFINE all == flight[w].batch \cup pending[w]
           kept == Newest(MaxPending, all)
           back == IF op[w] = "end" THEN {e \in kept : e.id = Latest(all)} ELSE {}
<1>0. kept \in SUBSET Events
      BY DEF Kept, WriterTypes, Flights, Newest
<1>a. timer' = [timer EXCEPT ![w] = @ \/ Retries(w)] /\ UNCHANGED refused
      BY DEF Failed
<1>b. Retries(w) \/ left[w] = 0 \/ phase[w] = "closing"
      BY DEF Kept, WriterTypes, Flights, Roles, Retries, Flushing
<1>c. phase[w] \notin {"idle", "reset"}
      BY DEF Kept, Roles
<1>1. CASE op[w] = "close"
  <2>a. /\ flight' = [flight EXCEPT ![w] = [batch |-> kept, ends |-> FALSE, by |-> "drain"]]
        /\ pending' = [pending EXCEPT ![w] = {}]
        /\ op' = [op EXCEPT ![w] = "drain"]
        /\ UNCHANGED phase
        BY <1>1 DEF Failed
  <2> HIDE DEF kept
  <2>1. WriterTypes'
    <3>1. [batch |-> kept, ends |-> FALSE, by |-> "drain"] \in Flights
          BY <1>0, FlightType
    <3>2. flight' \in [Writers -> Flights]
          BY <2>a, <3>1 DEF Kept, WriterTypes
    <3>3. timer' \in [Writers -> BOOLEAN]
          BY <1>a DEF Kept, WriterTypes, Retries
    <3> QED
        BY <1>a, <2>a, <3>2, <3>3 DEF Kept, WriterTypes
  <2>2. Roles' /\ NoneForgotten'
        BY <1>1, <1>a, <2>a DEF Kept, WriterTypes, Roles, NoneForgotten, Flushing
  <2> QED
      BY <2>1, <2>2 DEF Kept
<1>2. CASE op[w] # "close"
  <2>a. pending' = [pending EXCEPT ![w] = kept \ back] /\ GoesOn(w)
        BY <1>2 DEF Failed
  <2> HIDE DEF kept, back
  <2>1. WriterTypes'
        BY <1>0, <1>a, <2>a, GoesOnPhase DEF Kept, WriterTypes
  <2>2. Roles'
        BY <1>c, <2>a, GoesOnPhase DEF Kept, WriterTypes, Roles, NoFlight, Flushing
  <2>3. NoneForgotten'
    <3>1. timer'[w] \/ left[w] = 0 \/ phase'[w] # "writing"
          BY <1>a, <1>b, <2>a, GoesOnPhase DEF Kept, WriterTypes
    <3>2. \A v \in Writers \ {w} :
            /\ phase'[v] = phase[v] /\ pending'[v] = pending[v]
            /\ timer'[v] = timer[v] /\ flight'[v] = flight[v]
          BY <1>a, <2>a, GoesOnPhase DEF Kept, WriterTypes
    <3> QED
        BY <1>a, <3>1, <3>2 DEF Kept, WriterTypes, NoneForgotten, Flushing
  <2> QED
      BY <2>1, <2>2, <2>3 DEF Kept
<1> QED
    BY <1>1, <1>2

(* A refusal is remembered. *)
LEMMA KeptRefused ==
    ASSUME Kept, NEW w \in Writers, Flushing(w), Refused(w), UNCHANGED <<seq, left, ids>>
    PROVE  Kept'
<1>a. /\ pending' = [pending EXCEPT ![w] = flight[w].batch \cup @]
      /\ refused' = refused \cup {w}
      /\ GoesOn(w) /\ UNCHANGED timer
      BY DEF Refused
<1>c. phase[w] \notin {"idle", "reset"}
      BY DEF Kept, Roles
<1>0. flight[w].batch \cup pending[w] \in SUBSET Events
      BY DEF Kept, WriterTypes, Flights
<1>1. WriterTypes'
      BY <1>a, <1>0, GoesOnPhase DEF Kept, WriterTypes
<1>2. Roles'
      BY <1>a, <1>c, GoesOnPhase DEF Kept, WriterTypes, Roles, NoFlight, Flushing
<1>3. NoneForgotten'
      BY <1>a, GoesOnPhase DEF Kept, WriterTypes, NoneForgotten, NoFlight, Flushing
<1> QED
    BY <1>1, <1>2, <1>3 DEF Kept

(* Readers do not touch the writers, and neither do stuttering steps. *)
LEMMA KeptReader ==
    ASSUME Kept, UNCHANGED writers
    PROVE  Kept'
BY DEF Kept, writers, WriterTypes, Roles, NoneForgotten, Flushing

(* Every step keeps it. *)
LEMMA KeptStep ==
    ASSUME Kept, [Next]_vars
    PROVE  Kept'
<1>1. CASE StartRun \/ ResetStream \/ StartResume \/ StartCancel
      BY <1>1, KeptStart
<1>2. ASSUME NEW w \in Writers, Proceed(w)
      PROVE  Kept'
  <2>1. CASE EndFlush(w)
    <3>1. Flushing(w) /\ UNCHANGED <<seq, left, ids>> /\ (Stored(w) \/ Failed(w) \/ Refused(w))
          BY <2>1 DEF EndFlush
    <3> QED
        BY <3>1, KeptStored, KeptFailed, KeptRefused
  <2> QED
      BY <1>2, <2>1, KeptWrite, KeptWriteEnd, KeptClose, KeptTimer DEF Proceed
<1>3. CASE \E r \in Readers : Connect(r) \/ Poll(r) \/ GiveUp(r)
      BY <1>3, KeptReader DEF Connect, Poll, GiveUp, writers
<1>4. CASE UNCHANGED vars
      BY <1>4, KeptReader DEF vars, writers
<1> QED
    BY <1>1, <1>2, <1>3, <1>4 DEF Next

(* While a run goes on, no event is left in memory with neither a timer nor *)
(* a flush, unless a budget has refused one: for any sizes of batches and   *)
(* any number of failures.                                                  *)
THEOREM NothingForgotten == Spec => []NoneForgotten
<1>1. Kept => NoneForgotten
      BY DEF Kept
<1> QED
    BY KeptInit, KeptStep, <1>1, PTL DEF Spec

-----------------------------------------------------------------------------
(* What the script keeps: the events above a pruned one are at least as many *)
(* as Redis retains, and the latest event is never pruned.                   *)

Above(e, S) == {f \in S : f.id > e.id}
Below(e, S) == {f \in S : f.id < e.id}

(* Of some of the events of a finite set one has the highest id. *)
LEMMA Topmost ==
    ASSUME NEW S \in SUBSET Events, IsFiniteSet(S), NEW T \in SUBSET S, T # {}
    PROVE  \E e \in T : \A h \in T : h.id <= e.id
<1> DEFINE Tails == {Above(e, S) : e \in T}
<1>1. Tails \subseteq FiniteSubsetsOf(S) /\ Tails # {}
  <2>1. ASSUME NEW e \in S PROVE Above(e, S) \in FiniteSubsetsOf(S)
    <3>1. Above(e, S) \in SUBSET S
          BY DEF Above
    <3> QED
        BY <3>1, FS_Subset DEF FiniteSubsetsOf
  <2> QED
      BY <2>1
<1>2. PICK U \in Tails : \A V \in Tails : ~ (<<V, U>> \in StrictSubsetOrdering(S))
  <2> HIDE DEF Tails
  <2> QED
      BY <1>1, WFMin, FS_StrictSubsetOrderingWellFounded, Zenon
<1>3. PICK e \in T : U = Above(e, S)
      OBVIOUS
<1>4. ASSUME NEW h \in T, h.id > e.id PROVE FALSE
  <2>1. h.id \in Nat /\ e.id \in Nat /\ \A f \in S : f.id \in Nat
        BY DEF Events
  <2>2. Above(h, S) \subseteq U /\ h \in U /\ h \notin Above(h, S)
        BY <1>3, <1>4, <2>1 DEF Above
  <2>3. <<Above(h, S), U>> \in StrictSubsetOrdering(S)
        BY <1>3, <2>2 DEF StrictSubsetOrdering, Above
  <2> QED
      BY <1>2, <2>3
<1>5. ASSUME NEW h \in T PROVE h.id <= e.id
  <2>1. h.id \in Nat /\ e.id \in Nat
        BY DEF Events
  <2> QED
      BY <1>4, <2>1
<1> QED
    BY <1>5

(* And one has the lowest. *)
LEMMA Bottommost ==
    ASSUME NEW S \in SUBSET Events, IsFiniteSet(S), S # {}
    PROVE  \E e \in S : \A h \in S : e.id <= h.id
<1> DEFINE Heads == {Below(e, S) : e \in S}
<1>1. Heads \subseteq FiniteSubsetsOf(S) /\ Heads # {}
  <2>1. ASSUME NEW e \in S PROVE Below(e, S) \in FiniteSubsetsOf(S)
    <3>1. Below(e, S) \in SUBSET S
          BY DEF Below
    <3> QED
        BY <3>1, FS_Subset DEF FiniteSubsetsOf
  <2> QED
      BY <2>1
<1>2. PICK U \in Heads : \A V \in Heads : ~ (<<V, U>> \in StrictSubsetOrdering(S))
  <2> HIDE DEF Heads
  <2> QED
      BY <1>1, WFMin, FS_StrictSubsetOrderingWellFounded, Zenon
<1>3. PICK e \in S : U = Below(e, S)
      OBVIOUS
<1>4. ASSUME NEW h \in S, h.id < e.id PROVE FALSE
  <2>1. h.id \in Nat /\ e.id \in Nat /\ \A f \in S : f.id \in Nat
        BY DEF Events
  <2>2. Below(h, S) \subseteq U /\ h \in U /\ h \notin Below(h, S)
        BY <1>3, <1>4, <2>1 DEF Below
  <2>3. <<Below(h, S), U>> \in StrictSubsetOrdering(S)
        BY <1>3, <2>2 DEF StrictSubsetOrdering, Below
  <2> QED
      BY <1>2, <2>3
<1>5. ASSUME NEW h \in S PROVE e.id <= h.id
  <2>1. h.id \in Nat /\ e.id \in Nat
        BY DEF Events
  <2> QED
      BY <1>4, <2>1
<1> QED
    BY <1>5

(* The latest of some events is one of them, and none is later. *)
LEMMA LatestIs ==
    ASSUME NEW S \in SUBSET Events, IsFiniteSet(S), S # {}
    PROVE  \E e \in S : Latest(S) = e.id /\ \A f \in S : f.id <= e.id
<1>1. \E e \in S : \A f \in S : f.id <= e.id
      BY Topmost
<1> QED
    BY <1>1 DEF Latest

(* The earliest is one of them, and none is earlier. *)
LEMMA EarliestIs ==
    ASSUME NEW S \in SUBSET Events, IsFiniteSet(S), S # {}
    PROVE  \E e \in S : Earliest(S) = e.id /\ \A f \in S : e.id <= f.id
<1>1. \E e \in S : \A f \in S : e.id <= f.id
      BY Bottommost
<1> QED
    BY <1>1 DEF Earliest

(* Every event that is kept is above every one that is pruned. *)
LEMMA PrunedIsBelow ==
    ASSUME NEW S \in SUBSET Events, IsFiniteSet(S), NEW n \in Nat,
           NEW e \in S, e \notin Newest(n, S), NEW k \in Newest(n, S)
    PROVE  e.id < k.id
<1>1. IsFiniteSet(Above(e, S)) /\ IsFiniteSet(Above(k, S))
      BY FS_Subset DEF Above
<1>2. Cardinality(Above(k, S)) < n /\ ~(Cardinality(Above(e, S)) < n)
      BY DEF Newest, Above
<1>3. SUFFICES ASSUME k.id <= e.id PROVE FALSE
      BY DEF Newest, Events
<1>4. Above(e, S) \subseteq Above(k, S)
      BY <1>3 DEF Above, Newest, Events
<1>5. Cardinality(Above(e, S)) <= Cardinality(Above(k, S))
      BY <1>1, <1>4, FS_Subset
<1>6. Cardinality(Above(e, S)) \in Nat /\ Cardinality(Above(k, S)) \in Nat
      BY <1>1, FS_CardinalityType
<1> QED
    BY <1>2, <1>5, <1>6

(* What is pruned makes room for as many as are retained. *)
LEMMA PrunedWhenFull ==
    ASSUME NEW S \in SUBSET Events, IsFiniteSet(S), NEW n \in Nat, Newest(n, S) # S
    PROVE  Cardinality(Newest(n, S)) >= n
<1> DEFINE T == S \ Newest(n, S)
<1>1. T \in SUBSET S /\ T # {}
      BY DEF Newest
<1>2. PICK e \in T : \A h \in T : h.id <= e.id
      BY <1>1, Topmost
<1>3. Above(e, S) \subseteq Newest(n, S)
      BY <1>2 DEF Above, Events
<1>4. IsFiniteSet(Above(e, S)) /\ IsFiniteSet(Newest(n, S))
      BY FS_Subset DEF Above, Newest
<1>5. Cardinality(Above(e, S)) \in Nat /\ Cardinality(Newest(n, S)) \in Nat
      BY <1>4, FS_CardinalityType
<1>6. ~(Cardinality(Above(e, S)) < n)
      BY DEF Newest, Above
<1>7. Cardinality(Above(e, S)) <= Cardinality(Newest(n, S))
      BY <1>3, <1>4, FS_Subset
<1> QED
    BY <1>5, <1>6, <1>7

(* The latest is kept. *)
LEMMA LatestIsKept ==
    ASSUME NEW S \in SUBSET Events, IsFiniteSet(S), S # {}, NEW n \in Nat \ {0}
    PROVE  \E e \in Newest(n, S) : \A f \in S : f.id <= e.id
<1>1. PICK e \in S : \A f \in S : f.id <= e.id
      BY Topmost
<1>2. Above(e, S) = {}
      BY <1>1 DEF Above, Events
<1>3. Cardinality(Above(e, S)) < n
      BY <1>2, FS_EmptySet
<1> QED
    BY <1>1, <1>3 DEF Newest, Above

-----------------------------------------------------------------------------
(* What is in flight.                                                       *)

(* A batch is in flight only while a flush is, and the flush that stores    *)
(* the status has an end in its batch, with nothing behind it.              *)
Batches ==
    \A w \in Writers :
        /\ ~Flushing(w) => flight[w].batch = {}
        /\ flight[w].ends => flight[w].by = "end"
        /\ flight[w].by = "end" => /\ op[w] = "end" /\ pending[w] = {}
                                   /\ \E e \in flight[w].batch : e.kind = "end"

(* A step of one writer leaves the others alone. *)
Alone(w) ==
    \A v \in Writers \ {w} :
        /\ phase'[v] = phase[v] /\ left'[v] = left[v] /\ ids'[v] = ids[v]
        /\ pending'[v] = pending[v] /\ flight'[v] = flight[v] /\ op'[v] = op[v] /\ timer'[v] = timer[v]

(* A writer that keeps its own flight in order keeps all of them. *)
LEMMA BatchesAlone ==
    ASSUME Batches, NEW w \in Writers, Alone(w),
           ~Flushing(w)' => flight'[w].batch = {},
           flight'[w].ends => flight'[w].by = "end",
           flight'[w].by = "end" => /\ op'[w] = "end" /\ pending'[w] = {}
                                    /\ \E e \in flight'[w].batch : e.kind = "end"
    PROVE  Batches'
BY DEF Batches, Alone, Flushing

LEMMA AloneStep ==
    ASSUME Kept, NEW w \in Writers, Proceed(w)
    PROVE  Alone(w)
<1>1. CASE Write(w)
      BY <1>1 DEF Write, Abandons, CannotHold, TakeId, AskFlush, Kept, WriterTypes, Alone
<1>2. CASE WriteEnd(w)
      BY <1>2 DEF WriteEnd, EndFails, CannotHold, TakeId, AskFlush, Kept, WriterTypes, Alone
<1>3. CASE Close(w) \/ TimerFires(w)
      BY <1>3 DEF Close, TimerFires, AskFlush, Kept, WriterTypes, Alone
<1>4. CASE EndFlush(w) /\ Stored(w)
      BY <1>4 DEF EndFlush, Stored, Kept, WriterTypes, Alone
<1>5. CASE EndFlush(w) /\ Refused(w)
      BY <1>5, GoesOnPhase DEF EndFlush, Refused, Kept, WriterTypes, Alone
<1>6. CASE EndFlush(w) /\ Failed(w)
  <2>1. CASE op[w] = "close"
        BY <1>6, <2>1 DEF EndFlush, Failed, Kept, WriterTypes, Alone
  <2>2. CASE op[w] # "close"
        BY <1>6, <2>2, GoesOnPhase DEF EndFlush, Failed, Kept, WriterTypes, Alone
  <2> QED
      BY <2>1, <2>2
<1> QED
    BY <1>1, <1>2, <1>3, <1>4, <1>5, <1>6 DEF Proceed, EndFlush

(* Asking for a flush keeps it so: with an end, of which nobody has written *)
(* another while a call was waiting.                                        *)
LEMMA BatchesAsk ==
    ASSUME Kept, Batches, NEW w \in Writers, Alone(w), op[w] = "none",
           NEW events \in SUBSET Events, NEW call \in {"batch", "end", "close", "drain"},
           AskFlush(w, events, call), call = "close" => Flushing(w),
           call = "end" => \E e \in events : e.kind = "end"
    PROVE  Batches'
<1>1. flight[w].by # "end"
      BY DEF Batches
<1>2. CASE Flushing(w)
  <2>1. flight'[w] = flight[w]
        BY <1>2 DEF AskFlush
  <2> QED
      BY <1>1, <1>2, <2>1, BatchesAlone DEF Batches, Flushing
<1>3. CASE ~Flushing(w)
  <2>1. /\ flight'[w] = [batch |-> events, ends |-> call = "end", by |-> call]
        /\ pending'[w] = {} /\ op'[w] = call
        BY <1>3 DEF AskFlush, Kept, WriterTypes
  <2>2. flight'[w].batch = events /\ flight'[w].by = call
        BY <2>1
  <2>3. flight'[w].ends => call = "end"
    <3>1. CASE call # "end"
      <4>1. flight'[w] = [batch |-> events, ends |-> FALSE, by |-> call]
            BY <2>1, <3>1
      <4> QED
          BY <4>1
    <3> QED
        BY <3>1
  <2> QED
      BY <2>1, <2>2, <2>3, BatchesAlone DEF Flushing
<1> QED
    BY <1>2, <1>3

(* No flush is in flight behind the one that has ended. *)
LEMMA BatchesGoesOn ==
    ASSUME Kept, Batches, NEW w \in Writers, Alone(w), GoesOn(w)
    PROVE  Batches'
<1>1. flight'[w] = NoFlight
      BY GoesOnPhase DEF Kept, WriterTypes
<1> QED
    BY <1>1, BatchesAlone DEF NoFlight

LEMMA BatchesProceed ==
    ASSUME Kept, Batches, NEW w \in Writers, Proceed(w)
    PROVE  Batches'
<1>0. Alone(w)
      BY AloneStep
<1> DEFINE events == pending[w] \cup {Upcoming(w)}
<1>e. events \in SUBSET Events
      BY UpcomingType DEF Kept, WriterTypes
<1>1. CASE Write(w)
  <2>1. op[w] = "none"
        BY <1>1 DEF Write
  <2>2. CASE AskFlush(w, events, "batch")
        BY <1>0, <1>e, <2>1, <2>2, BatchesAsk
  <2>3. CASE flight' = flight
        BY <1>0, <2>1, <2>3, BatchesAlone DEF Batches, Flushing
  <2> QED
      BY <1>1, <2>2, <2>3 DEF Write, CannotHold
<1>2. CASE WriteEnd(w)
  <2>1. op[w] = "none" /\ left[w] = 0
        BY <1>2 DEF WriteEnd
  <2>2. CASE AskFlush(w, events, "end")
    <3>1. Upcoming(w) \in events /\ Upcoming(w).kind = "end"
          BY <2>1 DEF Upcoming
    <3> HIDE DEF events
    <3> QED
        BY <1>0, <1>e, <2>1, <2>2, <3>1, BatchesAsk
  <2>3. CASE flight' = flight
        BY <1>0, <2>1, <2>3, BatchesAlone DEF Batches, Flushing
  <2> QED
      BY <1>2, <2>2, <2>3 DEF WriteEnd, CannotHold
<1>3. CASE Close(w)
  <2>1. op[w] = "none" /\ pending[w] \in SUBSET Events
        BY <1>3 DEF Close, Kept, WriterTypes
  <2>2. CASE flight' = flight
        BY <1>0, <2>1, <2>2, BatchesAlone DEF Batches, Flushing
  <2>3. CASE AskFlush(w, pending[w], IF Flushing(w) THEN "close" ELSE "drain")
    <3>1. PICK call \in {"close", "drain"} :
             AskFlush(w, pending[w], call) /\ (call = "close" => Flushing(w))
          BY <2>3
    <3> QED
        BY <1>0, <2>1, <3>1, BatchesAsk
  <2> QED
      BY <1>3, <2>2, <2>3 DEF Close
<1>4. CASE TimerFires(w)
  <2>0. op' = op
        BY <1>4 DEF TimerFires
  <2>1. CASE pending[w] # {} /\ ~Flushing(w)
    <3>1. flight'[w] = [batch |-> pending[w], ends |-> FALSE, by |-> "timer"]
          BY <1>4, <2>1 DEF TimerFires, Kept, WriterTypes
    <3> QED
        BY <1>0, <3>1, BatchesAlone DEF Flushing
  <2>2. CASE ~(pending[w] # {} /\ ~Flushing(w))
    <3>1. flight' = flight /\ pending' = pending
          BY <1>4, <2>2 DEF TimerFires
    <3> QED
        BY <1>0, <2>0, <3>1, BatchesAlone DEF Batches, Flushing
  <2> QED
      BY <2>1, <2>2
<1>5. CASE EndFlush(w) /\ Stored(w)
  <2>1. CASE pending[w] # {}
    <3>1. /\ flight'[w] = [flight[w] EXCEPT !.batch = pending[w]]
          BY <1>5, <2>1 DEF Stored, Kept, WriterTypes
    <3>2. flight'[w].by = flight[w].by /\ flight'[w].ends = flight[w].ends
          BY <3>1 DEF Kept, WriterTypes, Flights
    <3>3. flight[w].by # "end" /\ flight[w].by # "nobody"
          BY <1>5, <2>1 DEF Batches, EndFlush, Flushing
    <3> QED
        BY <1>0, <3>2, <3>3, BatchesAlone DEF Batches, Flushing
  <2>2. CASE pending[w] = {}
    <3>1. flight'[w] = NoFlight
          BY <1>5, <2>2 DEF Stored, Kept, WriterTypes
    <3> QED
        BY <1>0, <3>1, BatchesAlone DEF NoFlight
  <2> QED
      BY <2>1, <2>2
<1>6. CASE EndFlush(w) /\ Failed(w)
  <2>1. CASE op[w] = "close"
    <3>1. flight'[w].by = "drain" /\ flight'[w].ends = FALSE
          BY <1>6, <2>1 DEF Failed, Kept, WriterTypes
    <3> QED
        BY <1>0, <3>1, BatchesAlone DEF Flushing
  <2>2. CASE op[w] # "close"
        BY <1>0, <1>6, <2>2, BatchesGoesOn DEF Failed
  <2> QED
      BY <2>1, <2>2
<1>7. CASE EndFlush(w) /\ Refused(w)
      BY <1>0, <1>7, BatchesGoesOn DEF Refused
<1> QED
    BY <1>1, <1>2, <1>3, <1>4, <1>5, <1>6, <1>7 DEF Proceed, EndFlush

-----------------------------------------------------------------------------
(* The shapes of the writers' steps: a writer numbers an event, moves what  *)
(* it holds to a flush, or comes to the end of a flush.                     *)

(* What a writer holds, in flight or not. *)
Memory(w) == pending[w] \cup flight[w].batch

(* No writer has an id that has not been reserved. *)
IdsReserved == \A w \in Writers : ids[w].max <= seq /\ ids[w].next <= seq + 1

(* An event is given the next id, and held. *)
Holds(w) ==
    /\ Upcoming(w) \in Events
    /\ 1 <= NextId(w) /\ NextId(w) <= seq' /\ ids[w].next <= NextId(w) /\ NextId(w) < ids'[w].next
    /\ ids[w].next = 0 => NextId(w) = seq + 1
    /\ written' = written \cup {Upcoming(w)}
    /\ Memory(w)' = Memory(w) \cup {Upcoming(w)}
    /\ \/ pending'[w] = {}
       \/ pending'[w] = pending[w] \cup {Upcoming(w)} /\ flight'[w].batch = flight[w].batch

Numbers(w) ==
    /\ phase[w] = "writing" /\ phase'[w] \in {"writing", "closing", "over"}
    /\ left'[w] = IF left[w] = 0 THEN 0 ELSE left[w] - 1
    /\ seq <= seq' /\ ids[w].next <= ids'[w].next
    /\ ids'[w].next <= seq' + 1 /\ ids'[w].max <= seq'
    /\ ids[w].next = 0 => ids'[w].next = 0 \/ seq < ids'[w].next
    /\ Holds(w) \/ UNCHANGED <<written, pending, flight>>
    /\ UNCHANGED <<store, reader, lost, overtaken>>

Moves(w) ==
    /\ Unsettled(w)
    /\ phase'[w] = phase[w] \/ (phase[w] = "closing" /\ phase'[w] = "over")
    /\ Memory(w)' = Memory(w)
    /\ pending'[w] = {} \/ (pending'[w] = pending[w] /\ flight'[w].batch = flight[w].batch)
    /\ UNCHANGED <<store, seq, left, ids, reader, written, lost, overtaken>>

(* What was held is held still, or is lost, or was in the batch stored. *)
Flushed(w) ==
    /\ Flushing(w)
    /\ phase'[w] = phase[w] \/ phase'[w] \in {"closing", "over"}
    /\ Store(w) \/ UNCHANGED store
    /\ Memory(w)' \subseteq Memory(w)
    /\ \A e \in Memory(w) : e \in Memory(w)' \cup lost' \/ (e \in flight[w].batch /\ Store(w))
    /\ lost \subseteq lost'
    /\ pending'[w] = {} \/ flight'[w].batch = {}
    /\ UNCHANGED <<seq, left, ids, reader, written, overtaken>>

(* The next id is above those that the writer has had. *)
LEMMA TakeIdBounds ==
    ASSUME Kept, IdsReserved, NEW w \in Writers, TakeId(w)
    PROVE  /\ seq <= seq' /\ ids[w].next <= ids'[w].next
           /\ ids'[w].next <= seq' + 1 /\ ids'[w].max <= seq'
           /\ 1 <= NextId(w) /\ NextId(w) <= seq' /\ ids[w].next <= NextId(w)
           /\ NextId(w) < ids'[w].next
           /\ ids[w].next = 0 => NextId(w) = seq + 1 /\ seq < ids'[w].next
<1>1. ReserveBatch \in Nat /\ ReserveBatch >= 1
      BY StreamAssumption
<1>2. /\ seq \in Nat /\ ids[w].next \in Nat /\ ids[w].max \in Nat
      /\ ids[w].max <= seq /\ ids[w].next <= seq + 1
      BY DEF Kept, WriterTypes, IdsReserved
<1>3. ids'[w] = [next |-> NextId(w) + 1, max |-> IF Exhausted(w) THEN seq + ReserveBatch ELSE ids[w].max]
      BY DEF TakeId, Kept, WriterTypes
<1>4. seq' = IF Exhausted(w) THEN seq + ReserveBatch ELSE seq
      BY DEF TakeId
<1>5. CASE Exhausted(w)
      BY <1>1, <1>2, <1>3, <1>4, <1>5 DEF Exhausted, NextId
<1>6. CASE ~Exhausted(w)
      BY <1>1, <1>2, <1>3, <1>4, <1>6 DEF Exhausted, NextId
<1> QED
    BY <1>5, <1>6

LEMMA CannotHoldBounds ==
    ASSUME Kept, IdsReserved, NEW w \in Writers, CannotHold(w)
    PROVE  /\ seq <= seq' /\ ids[w].next <= ids'[w].next
           /\ ids'[w].next <= seq' + 1 /\ ids'[w].max <= seq'
           /\ ids[w].next = 0 => ids'[w].next = 0 \/ seq < ids'[w].next
           /\ UNCHANGED <<written, pending, flight>>
<1>1. CASE TakeId(w)
      BY <1>1, TakeIdBounds DEF CannotHold
<1>2. CASE ids' = ids /\ seq' \in {seq, seq + ReserveBatch}
  <2>1. ReserveBatch \in Nat
        BY StreamAssumption
  <2>2. /\ seq \in Nat /\ ids[w].next \in Nat /\ ids[w].max \in Nat
        /\ ids[w].max <= seq /\ ids[w].next <= seq + 1
        BY DEF Kept, WriterTypes, IdsReserved
  <2> QED
      BY <1>2, <2>1, <2>2 DEF CannotHold
<1> QED
    BY <1>1, <1>2 DEF CannotHold

(* What is asked to be flushed stays in memory. *)
LEMMA AskFlushShape ==
    ASSUME Kept, Batches, NEW w \in Writers, NEW events, NEW call, AskFlush(w, events, call),
           pending[w] \subseteq events
    PROVE  /\ Memory(w)' = events \cup flight[w].batch
           /\ pending'[w] = {} \/ (pending'[w] = events /\ flight'[w].batch = flight[w].batch)
<1>1. CASE Flushing(w)
      BY <1>1 DEF AskFlush, Memory, Kept, WriterTypes
<1>2. CASE ~Flushing(w)
  <2>1. /\ flight'[w] = [batch |-> events, ends |-> call = "end", by |-> call]
        BY <1>2 DEF AskFlush, Kept, WriterTypes
  <2>2. flight'[w].batch = events
        BY <2>1
  <2>3. pending'[w] = {} /\ flight[w].batch = {}
        BY <1>2 DEF AskFlush, Batches, Kept, WriterTypes
  <2> QED
      BY <2>2, <2>3 DEF Memory
<1> QED
    BY <1>1, <1>2

LEMMA NumbersShape ==
    ASSUME Kept, Batches, IdsReserved, NEW w \in Writers, Write(w) \/ WriteEnd(w)
    PROVE  Numbers(w)
<1> DEFINE events == pending[w] \cup {Upcoming(w)}
<1>1. /\ phase[w] = "writing" /\ phase'[w] \in {"writing", "closing", "over"}
      /\ left'[w] = IF left[w] = 0 THEN 0 ELSE left[w] - 1
      /\ UNCHANGED <<store, reader, lost, overtaken>>
      BY DEF Write, WriteEnd, EndFails, Abandons, Kept, WriterTypes
<1>2. CASE CannotHold(w)
      BY <1>1, <1>2, CannotHoldBounds DEF Numbers
<1>3. CASE /\ TakeId(w) /\ written' = written \cup {Upcoming(w)}
           /\ \/ \E call \in {"batch", "end"} : AskFlush(w, events, call)
              \/ pending' = [pending EXCEPT ![w] = events] /\ UNCHANGED flight
  <2>1. /\ Memory(w)' = events \cup flight[w].batch
        /\ pending'[w] = {} \/ (pending'[w] = events /\ flight'[w].batch = flight[w].batch)
    <3>1. CASE pending' = [pending EXCEPT ![w] = events] /\ UNCHANGED flight
          BY <3>1 DEF Memory, Kept, WriterTypes
    <3> QED
        BY <1>3, <3>1, AskFlushShape
  <2>2. Memory(w)' = Memory(w) \cup {Upcoming(w)}
        BY <2>1 DEF Memory
  <2>3. Holds(w)
        BY <1>3, <2>1, <2>2, UpcomingType, TakeIdBounds DEF Holds, Kept
  <2> QED
      BY <1>1, <1>3, <2>3, TakeIdBounds DEF Numbers
<1> QED
    BY <1>2, <1>3 DEF Write, WriteEnd

LEMMA MovesShape ==
    ASSUME Kept, Batches, NEW w \in Writers, Close(w) \/ TimerFires(w)
    PROVE  Moves(w)
<1>1. /\ phase'[w] = phase[w] \/ (phase[w] = "closing" /\ phase'[w] = "over")
      /\ UNCHANGED <<store, seq, left, ids, reader, written, lost, overtaken>>
      /\ Unsettled(w)
  <2>1. CASE Close(w)
        BY <2>1 DEF Close, Unsettled, Kept, WriterTypes
  <2>2. CASE TimerFires(w)
        BY <2>2 DEF TimerFires, Unsettled
  <2> QED
      BY <2>1, <2>2
<1>2. /\ Memory(w)' = Memory(w)
      /\ pending'[w] = {} \/ (pending'[w] = pending[w] /\ flight'[w].batch = flight[w].batch)
  <2>1. CASE pending' = pending /\ flight' = flight
        BY <2>1 DEF Memory
  <2>2. ASSUME NEW call, AskFlush(w, pending[w], call)
        PROVE  /\ Memory(w)' = Memory(w)
               /\ \/ pending'[w] = {}
                  \/ pending'[w] = pending[w] /\ flight'[w].batch = flight[w].batch
        BY <2>2, AskFlushShape DEF Memory
  <2>3. CASE /\ pending[w] # {} /\ ~Flushing(w)
             /\ flight' = [flight EXCEPT ![w] = [batch |-> pending[w], ends |-> FALSE, by |-> "timer"]]
             /\ pending' = [pending EXCEPT ![w] = {}]
    <3>1. flight'[w].batch = pending[w] /\ pending'[w] = {} /\ flight[w].batch = {}
          BY <2>3 DEF Batches, Kept, WriterTypes
    <3> QED
        BY <3>1 DEF Memory
  <2>4. CASE Close(w)
        BY <2>1, <2>2, <2>4 DEF Close
  <2>5. CASE TimerFires(w)
        BY <2>1, <2>3, <2>5 DEF TimerFires
  <2> QED
      BY <2>4, <2>5
<1> QED
    BY <1>1, <1>2 DEF Moves

LEMMA FlushedFrom ==
    ASSUME NEW w \in Writers, NEW P, NEW B, pending'[w] = P, flight'[w].batch = B,
           P \cup B \subseteq pending[w] \cup flight[w].batch,
           \A e \in pending[w] \cup flight[w].batch :
              e \in P \cup B \cup lost' \/ (e \in flight[w].batch /\ Store(w)),
           P = {} \/ B = {}, lost \subseteq lost', Flushing(w),
           phase'[w] = phase[w] \/ phase'[w] \in {"closing", "over"},
           Store(w) \/ UNCHANGED store,
           UNCHANGED <<seq, left, ids, reader, written, overtaken>>
    PROVE  Flushed(w)
<1>1. /\ Memory(w)' = P \cup B
      /\ Memory(w) = pending[w] \cup flight[w].batch
      BY DEF Memory
<1>2. /\ Memory(w)' \subseteq Memory(w)
      /\ \A e \in Memory(w) : e \in Memory(w)' \cup lost' \/ (e \in flight[w].batch /\ Store(w))
  <2> HIDE DEF Memory
  <2> QED
      BY <1>1
<1> QED
    BY <1>2 DEF Flushed

LEMMA FlushedShape ==
    ASSUME Kept, NEW w \in Writers, EndFlush(w)
    PROVE  Flushed(w)
<1>1. /\ Flushing(w)
      /\ Store(w) \/ UNCHANGED store
      /\ UNCHANGED <<seq, left, ids, reader, written, overtaken>>
      BY DEF EndFlush, Stored, Failed, Refused
<1>2. CASE Stored(w)
  <2>1. phase'[w] = phase[w] \/ phase'[w] \in {"closing", "over"}
        BY <1>2 DEF Stored, Kept, WriterTypes
  <2>2. Store(w) /\ lost' = lost
        BY <1>2 DEF Stored
  <2>3. CASE pending[w] # {}
    <3>1. flight'[w].batch = pending[w] /\ pending'[w] = {}
          BY <1>2, <2>3 DEF Stored, Kept, WriterTypes, Flights
    <3> QED
        BY <1>1, <2>1, <2>2, <3>1, FlushedFrom
  <2>4. CASE pending[w] = {}
    <3>1. flight'[w].batch = {} /\ pending'[w] = {}
          BY <1>2, <2>4 DEF Stored, Kept, WriterTypes, NoFlight
    <3> QED
        BY <1>1, <2>1, <2>2, <2>4, <3>1, FlushedFrom
  <2> QED
      BY <2>3, <2>4
<1>3. CASE Failed(w)
  <2> DEFINE all == flight[w].batch \cup pending[w]
             kept == Newest(MaxPending, all)
             back == IF op[w] = "end" THEN {e \in kept : e.id = Latest(all)} ELSE {}
  <2>1. lost' = lost \cup (all \ kept) \cup back /\ kept \subseteq all
        BY <1>3 DEF Failed, Newest
  <2>2. CASE op[w] = "close"
    <3>1. /\ flight'[w].batch = kept /\ pending'[w] = {} /\ phase' = phase /\ back = {}
          BY <1>3, <2>2 DEF Failed, Kept, WriterTypes
    <3> HIDE DEF kept, back
    <3> QED
        BY <1>1, <2>1, <3>1, FlushedFrom
  <2>3. CASE op[w] # "close"
    <3>1. GoesOn(w) /\ pending'[w] = kept \ back
          BY <1>3, <2>3 DEF Failed, Kept, WriterTypes
    <3> HIDE DEF kept, back
    <3>2. /\ flight'[w].batch = {}
          /\ phase'[w] = phase[w] \/ phase'[w] \in {"closing", "over"}
          BY <3>1, GoesOnPhase DEF Kept, WriterTypes, NoFlight
    <3> QED
        BY <1>1, <2>1, <3>1, <3>2, FlushedFrom
  <2> QED
      BY <2>2, <2>3
<1>4. CASE Refused(w)
  <2>1. GoesOn(w) /\ pending'[w] = flight[w].batch \cup pending[w] /\ lost' = lost
        BY <1>4 DEF Refused, Kept, WriterTypes
  <2>2. /\ flight'[w].batch = {}
        /\ phase'[w] = phase[w] \/ phase'[w] \in {"closing", "over"}
        BY <2>1, GoesOnPhase DEF Kept, WriterTypes, NoFlight
  <2> QED
      BY <1>1, <2>1, <2>2, FlushedFrom
<1> QED
    BY <1>2, <1>3, <1>4 DEF EndFlush

(* The start of a writer. *)
Starts == StartRun \/ ResetStream \/ StartResume \/ StartCancel

Reads(r) == Connect(r) \/ Poll(r) \/ GiveUp(r)

(* Every step is one of these. *)
LEMMA StepShape ==
    ASSUME Kept, Batches, IdsReserved, [Next]_vars
    PROVE  \/ Starts
           \/ \E w \in Writers : Alone(w) /\ (Numbers(w) \/ Moves(w) \/ Flushed(w))
           \/ \E r \in Readers : Reads(r)
           \/ UNCHANGED vars
<1>1. ASSUME NEW w \in Writers, Proceed(w)
      PROVE  Alone(w) /\ (Numbers(w) \/ Moves(w) \/ Flushed(w))
      BY <1>1, AloneStep, NumbersShape, MovesShape, FlushedShape DEF Proceed
<1> QED
    BY <1>1 DEF Next, Starts, Reads

-----------------------------------------------------------------------------
(* How the events are numbered.                                             *)

WrittenTypes == written \in SUBSET Events /\ IsFiniteSet(written)

MemoryIsWritten == \A w \in Writers : \A e \in Memory(w) : e \in written /\ e.by = w

(* The ids of a writer go up, and no two of its events have the same. *)
IdsAreTaken ==
    /\ \A e \in written : 1 <= e.id /\ e.id <= seq /\ e.id < ids[e.by].next
    /\ \A e, f \in written : e.by = f.by /\ e.id = f.id => e = f

(* A batch in flight is older than what has come in since. *)
InOrder == \A w \in Writers : \A e \in flight[w].batch : \A f \in pending[w] : e.id < f.id

EndsComeLast ==
    \A e \in written :
        IsEnd(e) => left[e.by] = 0 /\ \A b \in written : b.by = e.by /\ ~IsEnd(b) => b.id < e.id

(* A resume, or the cancellation of the pause, numbers its events when the  *)
(* run has numbered all but its ends; and there is only one of the two.     *)
RunComesFirst ==
    /\ \A v \in {"resume", "cancel"} :
          /\ phase[v] \in {"idle", "reset"} => ids[v].next = 0 /\ \A e \in written : e.by # v
          /\ phase[v] # "idle" =>
               /\ left["run"] <= 1 /\ phase["run"] # "idle"
               /\ \A b \in written : b.by = "run" /\ ~IsEnd(b) =>
                      /\ ids[v].next = 0 \/ b.id < ids[v].next
                      /\ \A f \in written : f.by = v => b.id < f.id
    /\ phase["resume"] = "idle" \/ phase["cancel"] = "idle"
    /\ left["cancel"] = 0 /\ \A e \in written : e.by = "cancel" => IsEnd(e)

Numbered ==
    /\ Kept /\ Batches /\ IdsReserved /\ WrittenTypes /\ MemoryIsWritten
    /\ IdsAreTaken /\ InOrder /\ EndsComeLast /\ RunComesFirst

(* A new event is its writer's latest, and an end when no others are to come. *)
LEMMA NewEvent ==
    ASSUME Kept, WrittenTypes, IdsAreTaken, NEW w \in Writers, Holds(w), Numbers(w)
    PROVE  /\ Upcoming(w).by = w /\ Upcoming(w).id = NextId(w)
           /\ \A f \in written : f.by = w => f.id < Upcoming(w).id
           /\ left[w] = 0 \/ (w = "run" /\ left[w] <= 1) => IsEnd(Upcoming(w))
           /\ IsEnd(Upcoming(w)) => left'[w] = 0
<1>1. /\ Upcoming(w).by = w /\ Upcoming(w).id = NextId(w)
      /\ Upcoming(w).kind = IF left[w] > 0 THEN IF w = "run" /\ left[w] = 1 THEN "early" ELSE "block"
                            ELSE "end"
      BY DEF Upcoming
<1>2. \A f \in written : f.by = w => f.id < Upcoming(w).id
  <2>1. ids[w].next \in Nat /\ ids[w].next <= NextId(w) /\ NextId(w) \in Nat
        BY <1>1 DEF Holds, Kept, WriterTypes, Events
  <2>2. \A f \in written : f.id \in Nat
        BY DEF WrittenTypes, Events
  <2> QED
      BY <1>1, <2>1, <2>2 DEF IdsAreTaken
<1>3. left[w] \in Nat /\ left'[w] = IF left[w] = 0 THEN 0 ELSE left[w] - 1
      BY DEF Numbers, Kept, WriterTypes
<1> QED
    BY <1>1, <1>2, <1>3 DEF IsEnd

LEMMA NumberedInit == Init => Numbered
<1> SUFFICES ASSUME Init PROVE Numbered
    OBVIOUS
<1>1. /\ written = {} /\ seq = 0 /\ phase = [w \in Writers |-> "idle"]
      /\ ids = [w \in Writers |-> [next |-> 0, max |-> 0]]
      /\ left["cancel"] = 0
      BY DEF Init, Writers
<1>2. \A w \in Writers : pending[w] = {} /\ flight[w] = NoFlight
      BY DEF Init
<1>3. WrittenTypes
      BY <1>1, FS_EmptySet DEF WrittenTypes
<1>4. Batches /\ MemoryIsWritten /\ InOrder
      BY <1>2 DEF Batches, MemoryIsWritten, InOrder, Memory, NoFlight
<1>5. IdsReserved /\ IdsAreTaken /\ EndsComeLast /\ RunComesFirst
      BY <1>1 DEF IdsReserved, IdsAreTaken, EndsComeLast, RunComesFirst, Writers
<1> QED
    BY <1>3, <1>4, <1>5, KeptInit DEF Numbered

(* Nothing of it changes. *)
LEMMA NumberedSame ==
    ASSUME Numbered, Kept',
           UNCHANGED <<seq, phase, left, ids, pending, flight, op, written>>
    PROVE  Numbered'
BY DEF Numbered, Batches, IdsReserved, WrittenTypes, MemoryIsWritten, IdsAreTaken, InOrder,
       EndsComeLast, RunComesFirst, Memory, Flushing

LEMMA NumberedStarts ==
    ASSUME Numbered, Kept', Starts
    PROVE  Numbered'
<1>1. UNCHANGED <<seq, left, ids, pending, flight, op, timer, written, lost>>
      BY DEF Starts, StartRun, ResetStream, StartResume, StartCancel
<1>2. /\ Batches' /\ IdsReserved' /\ WrittenTypes' /\ MemoryIsWritten' /\ IdsAreTaken'
      /\ InOrder' /\ EndsComeLast'
      BY <1>1 DEF Numbered, Batches, IdsReserved, WrittenTypes, MemoryIsWritten, IdsAreTaken,
                  InOrder, EndsComeLast, Memory, Flushing
<1>3. RunComesFirst'
  <2>1. CASE StartRun
        BY <1>1, <2>1 DEF StartRun, Numbered, RunComesFirst, Kept, WriterTypes, Writers
  <2>2. CASE ResetStream
        BY <1>1, <2>2 DEF ResetStream, Paused, Numbered, RunComesFirst, Kept, WriterTypes, Writers
  <2>3. CASE StartResume
        BY <1>1, <2>3 DEF StartResume, Abandons, Numbered, RunComesFirst, Kept, WriterTypes, Writers
  <2>4. CASE StartCancel
        BY <1>1, <2>4 DEF StartCancel, Paused, Numbered, RunComesFirst, Kept, WriterTypes, Writers
  <2> QED
      BY <2>1, <2>2, <2>3, <2>4 DEF Starts
<1> QED
    BY <1>2, <1>3 DEF Numbered

(* Moving events between memory and flight numbers nothing. *)
LEMMA NumberedQuiet ==
    ASSUME Numbered, Kept', Batches', NEW w \in Writers, Alone(w),
           phase'[w] = phase[w] \/ (phase[w] \notin {"idle", "reset"} /\ phase'[w] \in {"closing", "over"}),
           Memory(w)' \subseteq Memory(w),
           \/ pending'[w] = {} \/ flight'[w].batch = {}
           \/ pending'[w] = pending[w] /\ flight'[w].batch = flight[w].batch,
           UNCHANGED <<seq, left, ids, written>>
    PROVE  Numbered'
<1>1. IdsReserved' /\ WrittenTypes' /\ IdsAreTaken' /\ EndsComeLast'
      BY DEF Numbered, IdsReserved, WrittenTypes, IdsAreTaken, EndsComeLast
<1>2. MemoryIsWritten'
  <2>1. \A v \in Writers : Memory(v)' \subseteq Memory(v)
        BY DEF Alone, Memory
  <2> QED
      BY <2>1 DEF Numbered, MemoryIsWritten
<1>3. InOrder'
      BY DEF Numbered, InOrder, Alone
<1>4. \A v \in Writers : \/ phase'[v] = phase[v]
                         \/ phase[v] \notin {"idle", "reset"} /\ phase'[v] \in {"closing", "over"}
      BY DEF Alone
<1>5. RunComesFirst'
      BY <1>4 DEF Numbered, RunComesFirst, Writers
<1> QED
    BY <1>1, <1>2, <1>3, <1>5 DEF Numbered

(* Numbering an event. *)
LEMMA NumberedNumbers ==
    ASSUME Numbered, Kept', Batches', NEW w \in Writers, Alone(w), Numbers(w)
    PROVE  Numbered'
<1> DEFINE e == Upcoming(w)
<1>a. /\ seq \in Nat /\ seq' \in Nat /\ \A v \in Writers : ids[v].next \in Nat /\ ids'[v].next \in Nat
      /\ \A v \in Writers : left[v] \in Nat /\ left'[v] \in Nat /\ left'[v] <= left[v]
      /\ \A f \in written : f.id \in Nat /\ f.by \in Writers
  <2>1. seq \in Nat /\ seq' \in Nat /\ \A v \in Writers : ids[v].next \in Nat /\ ids'[v].next \in Nat
        BY DEF Numbered, Kept, WriterTypes
  <2>2. \A v \in Writers : left[v] \in Nat /\ left'[v] \in Nat
        BY DEF Numbered, Kept, WriterTypes
  <2>3. \A v \in Writers : left'[v] = left[v] \/ left'[v] = left[v] - 1
        BY <2>2 DEF Numbers, Alone
  <2>4. \A f \in written : f.id \in Nat /\ f.by \in Writers
        BY DEF Numbered, WrittenTypes, Events
  <2> QED
      BY <2>1, <2>2, <2>3, <2>4
<1>b. /\ \A v \in Writers \ {w} : ids'[v] = ids[v] /\ phase'[v] = phase[v] /\ left'[v] = left[v]
      /\ phase[w] = "writing" /\ phase'[w] \in {"writing", "closing", "over"}
      /\ seq <= seq' /\ ids[w].next <= ids'[w].next
      /\ left[w] = 0 => left'[w] = 0
      /\ ids[w].next = 0 => ids'[w].next = 0 \/ seq < ids'[w].next
      BY DEF Alone, Numbers
<1>1. IdsReserved'
  <2>1. \A v \in Writers : ids[v].max \in Nat
        BY DEF Numbered, Kept, WriterTypes
  <2> QED
      BY <1>a, <1>b, <2>1 DEF Numbered, IdsReserved, Numbers
<1>2. CASE UNCHANGED <<written, pending, flight>>
  <2>1. WrittenTypes' /\ MemoryIsWritten' /\ InOrder'
        BY <1>2 DEF Numbered, WrittenTypes, MemoryIsWritten, InOrder, Memory
  <2>2. IdsAreTaken' /\ EndsComeLast'
        BY <1>2, <1>a, <1>b DEF Numbered, IdsAreTaken, EndsComeLast
  <2>3. RunComesFirst'
    <3>1. \A v \in Writers : ids[v].next = 0 \/ ids'[v].next >= ids[v].next
          BY <1>a, <1>b
    <3>2. \A v \in Writers : ids[v].next = 0 => ids'[v].next = 0 \/ seq < ids'[v].next
          BY <1>a, <1>b
    <3>3. \A b \in written : b.id \in Nat /\ b.id <= seq
          BY <1>a DEF Numbered, IdsAreTaken
    <3>4. ASSUME NEW v \in {"resume", "cancel"}, NEW b \in written, ids[v].next = 0 \/ b.id < ids[v].next
          PROVE  ids'[v].next = 0 \/ b.id < ids'[v].next
          BY <1>a, <3>1, <3>2, <3>3, <3>4 DEF Writers
    <3>5. \A v \in Writers : /\ phase'[v] \in {"idle", "reset"} => phase[v] = phase'[v] /\ ids'[v] = ids[v]
                             /\ phase[v] = "idle" => phase'[v] = "idle"
          BY <1>b
    <3>6. left'["run"] <= left["run"] /\ left'["cancel"] <= left["cancel"]
          BY <1>a DEF Writers
    <3>7. left["run"] <= 1 => left'["run"] <= 1
          BY <1>a, <3>6 DEF Writers
    <3>8. left'["cancel"] = 0
          BY <1>a, <3>6 DEF Writers, Numbered, RunComesFirst
    <3> QED
        BY <1>2, <3>4, <3>5, <3>7, <3>8 DEF Numbered, RunComesFirst, Writers
  <2> QED
      BY <1>1, <2>1, <2>2, <2>3 DEF Numbered
<1>3. CASE Holds(w)
  <2>1. /\ e.by = w /\ e.id = NextId(w) /\ e \in Events /\ e.id \in Nat
        /\ \A f \in written : f.by = w => f.id < e.id
        /\ left[w] = 0 \/ (w = "run" /\ left[w] <= 1) => IsEnd(e)
        /\ IsEnd(e) => left'[w] = 0
        /\ written' = written \cup {e}
        /\ 1 <= e.id /\ e.id <= seq' /\ ids[w].next <= e.id /\ e.id < ids'[w].next
        /\ ids[w].next = 0 => e.id = seq + 1
        BY <1>3, NewEvent DEF Numbered, Holds, Events
  <2>2. WrittenTypes'
        BY <2>1, FS_AddElement DEF Numbered, WrittenTypes
  <2>3. MemoryIsWritten'
    <3>1. \A v \in Writers : Memory(v)' \subseteq Memory(v) \cup (IF v = w THEN {e} ELSE {})
          BY <1>3 DEF Holds, Alone, Memory
    <3> QED
        BY <2>1, <3>1 DEF Numbered, MemoryIsWritten
  <2>4. InOrder'
    <3>1. \A f \in flight[w].batch : f.id < e.id
          BY <2>1 DEF Numbered, MemoryIsWritten, Memory
    <3> QED
        BY <1>3, <3>1 DEF Numbered, InOrder, Alone, Holds
  <2> HIDE DEF e
  <2>5. IdsAreTaken'
    <3>1. \A f \in written : f.id < ids'[f.by].next /\ f.id <= seq'
          BY <1>a, <1>b DEF Numbered, IdsAreTaken
    <3>2. \A f \in written : f.by = e.by => f.id # e.id
          BY <1>a, <2>1
    <3> QED
        BY <2>1, <3>1, <3>2 DEF Numbered, IdsAreTaken
  <2>6. EndsComeLast'
    <3>1. ASSUME NEW f \in written, f.by = w, IsEnd(f) PROVE IsEnd(e) /\ left'[w] = 0
          BY <1>b, <2>1, <3>1 DEF Numbered, EndsComeLast
    <3>2. \A f \in written : f.by # w => left'[f.by] = left[f.by]
          BY <1>a, <1>b
    <3> QED
        BY <2>1, <3>1, <3>2 DEF Numbered, EndsComeLast
  <2>7. RunComesFirst'
    <3>1. ASSUME NEW v \in {"resume", "cancel"}
          PROVE  /\ phase'[v] \in {"idle", "reset"} => ids'[v].next = 0 /\ \A f \in written' : f.by # v
                 /\ phase'[v] # "idle" =>
                      /\ left'["run"] <= 1 /\ phase'["run"] # "idle"
                      /\ \A b \in written' : b.by = "run" /\ ~IsEnd(b) =>
                             /\ ids'[v].next = 0 \/ b.id < ids'[v].next
                             /\ \A f \in written' : f.by = v => b.id < f.id
      <4>1. v \in Writers /\ "run" \in Writers /\ v # "run"
            BY DEF Writers
      <4>2. CASE phase'[v] \in {"idle", "reset"}
        <5>1. v # w /\ phase[v] = phase'[v] /\ ids'[v] = ids[v]
              BY <1>b, <4>1, <4>2
        <5>2. ids'[v].next = 0 /\ \A f \in written' : f.by # v
              BY <2>1, <4>2, <5>1 DEF Numbered, RunComesFirst
        <5>3. phase'[v] # "idle" => left'["run"] <= 1 /\ phase'["run"] # "idle"
              BY <1>a, <1>b, <4>1, <5>1 DEF Numbered, RunComesFirst
        <5> QED
            BY <5>2, <5>3
      <4>3. CASE phase'[v] \notin {"idle", "reset"}
        <5>1. phase[v] \notin {"idle", "reset"}
              BY <1>b, <4>1, <4>3
        <5>2. left'["run"] <= 1 /\ phase'["run"] # "idle"
              BY <1>a, <1>b, <4>1, <5>1 DEF Numbered, RunComesFirst
        <5>3. ASSUME NEW b \in written', b.by = "run", ~IsEnd(b)
              PROVE  b \in written
              BY <2>1, <5>1, <5>3 DEF Numbered, RunComesFirst
        <5>4. ASSUME NEW b \in written, b.by = "run", ~IsEnd(b)
              PROVE  /\ ids'[v].next = 0 \/ b.id < ids'[v].next
                     /\ \A f \in written' : f.by = v => b.id < f.id
          <6>1. /\ ids[v].next = 0 \/ b.id < ids[v].next
                /\ \A f \in written : f.by = v => b.id < f.id
                BY <5>1, <5>4 DEF Numbered, RunComesFirst
          <6>2. b.id <= seq /\ b.id \in Nat
                BY <1>a DEF Numbered, IdsAreTaken
          <6>3. v = w => b.id < e.id
                BY <1>a, <2>1, <6>1, <6>2
          <6> QED
              BY <1>a, <1>b, <2>1, <4>1, <6>1, <6>2, <6>3
        <5> QED
            BY <4>3, <5>2, <5>3, <5>4
      <4> QED
          BY <4>2, <4>3
    <3>2. phase'["resume"] = "idle" \/ phase'["cancel"] = "idle"
          BY <1>b DEF Numbered, RunComesFirst, Writers
    <3>3. left'["cancel"] = 0 /\ \A f \in written' : f.by = "cancel" => IsEnd(f)
          BY <1>b, <2>1 DEF Numbered, RunComesFirst, Writers
    <3> QED
        BY <3>1, <3>2, <3>3 DEF RunComesFirst
  <2> QED
      BY <1>1, <2>2, <2>3, <2>4, <2>5, <2>6, <2>7 DEF Numbered
<1> QED
    BY <1>2, <1>3 DEF Numbers

LEMMA NumberedStep ==
    ASSUME Numbered, [Next]_vars
    PROVE  Numbered'
<1>1. Kept'
      BY KeptStep DEF Numbered
<1>2. Batches'
  <2>1. CASE Starts
        BY <2>1 DEF Starts, StartRun, ResetStream, StartResume, StartCancel, Numbered, Batches, Flushing
  <2>2. CASE \E r \in Readers : Reads(r)
        BY <2>2 DEF Reads, Connect, Poll, GiveUp, Numbered, Batches, Flushing
  <2>3. CASE UNCHANGED vars
        BY <2>3 DEF vars, Numbered, Batches, Flushing
  <2>4. CASE \E w \in Writers : Proceed(w)
        BY <2>4, BatchesProceed DEF Numbered
  <2> QED
      BY <2>1, <2>2, <2>3, <2>4 DEF Next, Starts, Reads
<1>3. CASE Starts
      BY <1>1, <1>3, NumberedStarts
<1>4. ASSUME NEW w \in Writers, Alone(w), Numbers(w) \/ Moves(w) \/ Flushed(w) PROVE Numbered'
  <2>1. CASE Moves(w)
        BY <1>1, <1>2, <1>4, <2>1, NumberedQuiet DEF Moves
  <2>2. CASE Flushed(w)
    <3>1. phase[w] \notin {"idle", "reset"} \/ phase'[w] = phase[w]
          BY <2>2 DEF Flushed, Numbered, Kept, Roles
    <3> QED
        BY <1>1, <1>2, <1>4, <2>2, <3>1, NumberedQuiet DEF Flushed
  <2> QED
      BY <1>1, <1>2, <1>4, <2>1, <2>2, NumberedNumbers
<1>5. CASE (\E r \in Readers : Reads(r)) \/ UNCHANGED vars
      BY <1>1, <1>5, NumberedSame DEF Reads, Connect, Poll, GiveUp, vars
<1> QED
    BY <1>3, <1>4, <1>5, StepShape DEF Numbered

-----------------------------------------------------------------------------
(* What Redis retains.                                                      *)

(* No resume has reset the stream. Once one has, the run's events are not   *)
(* followed any further.                                                    *)
Unreset == phase["resume"] = "idle"
Followed(w) == w = "run" => Unreset

(* As many events as Redis retains are later than this one. *)
Gone(f) == Cardinality(stream) >= EventLimit /\ \A g \in stream : f.id < g.id

StreamTypes ==
    /\ stream \subseteq written
    /\ meta \in [status : {"none", "active", "over"}, earliest : Nat, start : Nat]

(* The metadata record where the stream starts. *)
StartIsRecorded ==
    /\ meta.earliest = Earliest(stream)
    /\ Unreset => meta.start = 0 /\ ~overtaken
    /\ ~Unreset => /\ 1 <= meta.start /\ meta.start <= seq + 1
                   /\ ids["resume"].next = 0 \/ meta.start <= ids["resume"].next
                   /\ \A f \in written : f.by = "resume" => meta.start <= f.id

(* After a reset that came when the run had flushed its last event, nothing *)
(* more of the run comes.                                                   *)
RunIsSettled ==
    ~Unreset /\ ~overtaken => ~Unsettled("run") /\ \A e \in stream : e.by # "run"

(* An event that was not lost is in memory, in the stream, or pruned. *)
NoneMissing ==
    \A f \in written \ lost : Followed(f.by) => f \in Memory(f.by) \/ f \in stream \/ Gone(f)

(* With an event the stream has had all that came before it. *)
NoHoles ==
    \A e \in stream : \A f \in written \ lost :
        f.by = e.by /\ Followed(f.by) /\ f.id < e.id => f \in stream \/ Gone(f)

Streamed ==
    /\ Numbered /\ StreamTypes /\ StartIsRecorded /\ RunIsSettled /\ NoneMissing /\ NoHoles

(* What the script stores is retained or pruned, and what is pruned stays   *)
(* pruned.                                                                  *)
LEMMA StoreKeeps ==
    ASSUME Numbered, StreamTypes, NEW w \in Writers, Store(w)
    PROVE  /\ stream' \subseteq stream \cup flight[w].batch
           /\ \A f \in stream \cup flight[w].batch : f \in stream' \/ Gone(f)'
           /\ \A f \in Events : Gone(f) => Gone(f)'
           /\ stream \cup flight[w].batch # {} =>
                 \E e \in stream' : \A f \in stream \cup flight[w].batch : f.id <= e.id
<1> DEFINE all == stream \cup flight[w].batch
<1>1. stream' = Newest(EventLimit, all)
      BY DEF Store
<1>2. all \in SUBSET Events /\ IsFiniteSet(all)
  <2>1. all \in SUBSET written
        BY DEF Numbered, MemoryIsWritten, Memory, StreamTypes
  <2> QED
      BY <2>1, FS_Subset DEF Numbered, WrittenTypes
<1>3. EventLimit \in Nat \ {0}
      BY StreamAssumption
<1>4. stream \subseteq all
      OBVIOUS
<1>5. stream' \subseteq all
      BY <1>1 DEF Newest
<1> HIDE DEF all
<1>6. ASSUME NEW f \in all, f \notin stream' PROVE Gone(f)'
  <2>1. Cardinality(stream') >= EventLimit
        BY <1>1, <1>2, <1>3, <1>6, PrunedWhenFull
  <2>2. \A g \in stream' : f.id < g.id
        BY <1>1, <1>2, <1>3, <1>6, PrunedIsBelow
  <2> QED
      BY <2>1, <2>2 DEF Gone
<1>7. ASSUME NEW f \in Events, Gone(f) PROVE Gone(f)'
  <2>1. Cardinality(stream) >= EventLimit /\ \A g \in stream : f.id < g.id
        BY <1>7 DEF Gone
  <2>2. Cardinality(stream') >= EventLimit
    <3>1. CASE stream' = all
      <4>1. /\ Cardinality(stream) <= Cardinality(all)
            /\ Cardinality(stream) \in Nat /\ Cardinality(all) \in Nat
            BY <1>2, <1>4, FS_Subset, FS_CardinalityType
      <4> QED
          BY <1>3, <2>1, <3>1, <4>1
    <3> QED
        BY <1>1, <1>2, <1>3, <3>1, PrunedWhenFull
  <2>3. ASSUME NEW g \in stream' PROVE f.id < g.id
    <3>1. SUFFICES ASSUME g.id <= f.id PROVE FALSE
          BY <1>2, <1>5 DEF Events
    <3>2. \A h \in stream : h.id > g.id
      <4>1. f.id \in Nat /\ g.id \in Nat /\ \A h \in stream : h.id \in Nat
            BY <1>2, <1>4, <1>5 DEF Events
      <4> QED
          BY <2>1, <3>1, <4>1
    <3>3. stream \subseteq Above(g, all)
          BY <1>4, <3>2 DEF Above
    <3>4. IsFiniteSet(Above(g, all)) /\ IsFiniteSet(stream)
          BY <1>2, <1>4, FS_Subset DEF Above
    <3>5. /\ Cardinality(stream) <= Cardinality(Above(g, all))
          /\ Cardinality(stream) \in Nat /\ Cardinality(Above(g, all)) \in Nat
          BY <3>3, <3>4, FS_Subset, FS_CardinalityType
    <3>6. Cardinality(Above(g, all)) < EventLimit
          BY <1>1 DEF Newest, Above
    <3> QED
        BY <1>3, <2>1, <3>5, <3>6
  <2> QED
      BY <2>2, <2>3 DEF Gone
<1>8. all # {} => \E e \in stream' : \A f \in all : f.id <= e.id
      BY <1>1, <1>2, <1>3, LatestIsKept
<1> QED
    BY <1>5, <1>6, <1>7, <1>8 DEF all

(* A writer's step leaves it as it was whether there has been a reset. *)
LEMMA ResetStays ==
    ASSUME Numbered, NEW w \in Writers, Alone(w), Numbers(w) \/ Moves(w) \/ Flushed(w)
    PROVE  /\ Unreset' <=> Unreset
           /\ overtaken' = overtaken
           /\ Unsettled(w)
<1>1. Flushing(w) => phase[w] # "idle"
      BY DEF Numbered, Kept, Roles
<1>2. phase'[w] = "idle" <=> phase[w] = "idle"
      BY <1>1 DEF Numbers, Moves, Flushed
<1>3. Unreset' <=> Unreset
      BY <1>2 DEF Unreset, Alone, Writers
<1> QED
    BY <1>3 DEF Numbers, Moves, Flushed, Unsettled

LEMMA StreamedInit == Init => Streamed
<1> SUFFICES ASSUME Init PROVE Streamed
    OBVIOUS
<1>1. /\ stream = {} /\ written = {} /\ phase["resume"] = "idle" /\ overtaken = FALSE
      /\ meta = [status |-> "none", earliest |-> 0, start |-> 0]
      BY DEF Init, Writers
<1> QED
    BY <1>1, NumberedInit
    DEF Streamed, StreamTypes, StartIsRecorded, Unreset, RunIsSettled, NoneMissing, NoHoles, Earliest

(* A reset is the start of another stream. *)
LEMMA StreamedReset ==
    ASSUME Streamed, Numbered', ResetStream
    PROVE  Streamed'
<1>1. /\ stream' = {} /\ written' = written /\ seq' = seq /\ ids' = ids
      /\ meta' = [status |-> "none", earliest |-> 0, start |-> seq + 1]
      /\ phase' = [phase EXCEPT !["resume"] = "reset"] /\ phase["resume"] = "idle"
      /\ phase["cancel"] = "idle"
      /\ overtaken' = (Unsettled("run") \/ \E r \in Readers : Reading(r))
      /\ UNCHANGED <<timer, flight>>
      BY DEF ResetStream
<1>2. ~Unreset' /\ phase'["run"] = phase["run"] /\ seq \in Nat
      BY <1>1 DEF Unreset, Streamed, Numbered, Kept, WriterTypes, Writers
<1>3. /\ ids["resume"].next = 0
      /\ \A f \in written : f.by # "resume" /\ f.by # "cancel"
      BY <1>1 DEF Streamed, Numbered, RunComesFirst
<1>4. StreamTypes'
      BY <1>1, <1>2 DEF StreamTypes
<1>5. StartIsRecorded'
      BY <1>1, <1>2, <1>3 DEF StartIsRecorded, Earliest
<1>6. RunIsSettled'
  <2>1. Unsettled("run")' <=> Unsettled("run")
        BY <1>1, <1>2 DEF Unsettled, Flushing
  <2>2. ~overtaken' => ~Unsettled("run")
        BY <1>1
  <2> QED
      BY <1>1, <2>1, <2>2 DEF RunIsSettled
<1>7. NoneMissing' /\ NoHoles'
  <2>1. \A f \in written' : ~Followed(f.by)'
        BY <1>1, <1>2, <1>3 DEF Followed, Streamed, Numbered, WrittenTypes, Events, Writers
  <2> QED
      BY <1>1, <2>1 DEF NoneMissing, NoHoles
<1> QED
    BY <1>4, <1>5, <1>6, <1>7 DEF Streamed

(* The other starts change only the status. *)
LEMMA StreamedSame ==
    ASSUME Streamed, Numbered',
           UNCHANGED <<stream, seq, ids, pending, flight, timer, written, lost, overtaken>>,
           phase'["run"] = phase["run"] \/ phase["run"] = "idle", Unreset' <=> Unreset,
           meta' = meta \/ \E st \in {"none", "active", "over"} : meta' = [meta EXCEPT !.status = st]
    PROVE  Streamed'
<1>1. StreamTypes' /\ meta'.earliest = meta.earliest /\ meta'.start = meta.start
      BY DEF Streamed, StreamTypes
<1>2. StartIsRecorded'
      BY <1>1 DEF Streamed, StartIsRecorded, Earliest
<1>3. RunIsSettled'
      BY DEF Streamed, RunIsSettled, Unsettled, Flushing
<1>4. NoneMissing' /\ NoHoles'
      BY DEF Streamed, NoneMissing, NoHoles, Followed, Gone, Memory
<1> QED
    BY <1>1, <1>2, <1>3, <1>4 DEF Streamed

LEMMA StreamedStarts ==
    ASSUME Streamed, Numbered', Starts
    PROVE  Streamed'
<1>1. CASE StartRun
  <2>1. /\ UNCHANGED <<stream, seq, ids, pending, flight, timer, written, lost, overtaken>>
        /\ phase["run"] = "idle" /\ (Unreset' <=> Unreset) /\ meta' = [meta EXCEPT !.status = "active"]
        BY <1>1 DEF StartRun, Unreset, Streamed, Numbered, Kept, WriterTypes, Writers
  <2> QED
      BY <2>1, StreamedSame
<1>2. CASE StartResume
  <2>1. /\ UNCHANGED <<stream, seq, ids, pending, flight, timer, written, lost, overtaken>>
        /\ phase'["run"] = phase["run"] /\ (Unreset' <=> Unreset)
        /\ meta' = meta \/ meta' = [meta EXCEPT !.status = "active"]
        BY <1>2 DEF StartResume, Abandons, Unreset, Streamed, Numbered, Kept, WriterTypes, Writers
  <2> QED
      BY <2>1, StreamedSame
<1>3. CASE StartCancel
  <2>1. /\ UNCHANGED <<stream, seq, ids, pending, flight, timer, written, lost, overtaken, meta>>
        /\ phase'["run"] = phase["run"] /\ (Unreset' <=> Unreset)
        BY <1>3 DEF store, StartCancel, Unreset, Streamed, Numbered, Kept, WriterTypes, Writers
  <2> QED
      BY <2>1, StreamedSame
<1> QED
    BY <1>1, <1>2, <1>3, StreamedReset DEF Starts

(* A new event is held, and is above all that its writer has written. *)
LEMMA StreamedNumbers ==
    ASSUME Streamed, Numbered', NEW w \in Writers, Alone(w), Numbers(w)
    PROVE  Streamed'
<1>1. (Unreset' <=> Unreset) /\ overtaken' = overtaken /\ Unsettled(w)
      BY ResetStays DEF Streamed
<1>2. /\ UNCHANGED <<stream, meta, lost>> /\ seq <= seq' /\ written \subseteq written'
      /\ ids[w].next <= ids'[w].next
      BY DEF Numbers, Holds, store
<1>3. StreamTypes'
      BY <1>2 DEF Streamed, StreamTypes
<1>4. RunIsSettled'
      BY <1>1, <1>2 DEF Streamed, RunIsSettled, Unsettled, Flushing, Alone, Writers
<1>5. /\ ids["resume"].next = 0 =>
            ids'["resume"].next = 0 \/ seq < ids'["resume"].next
      /\ ids["resume"].next <= ids'["resume"].next
      /\ seq \in Nat /\ seq' \in Nat /\ ids["resume"].next \in Nat /\ ids'["resume"].next \in Nat
      /\ meta.start \in Nat
  <2>1. "resume" \in Writers
        BY DEF Writers
  <2>2. /\ seq \in Nat /\ seq' \in Nat /\ ids["resume"].next \in Nat /\ ids'["resume"].next \in Nat
        /\ meta.start \in Nat
        BY <2>1 DEF Streamed, StreamTypes, Numbered, Kept, WriterTypes
  <2> QED
      BY <2>1, <2>2 DEF Numbers, Alone
<1>6. /\ ~Unreset => ids'["resume"].next = 0 \/ meta.start <= ids'["resume"].next
      /\ meta'.earliest = Earliest(stream')
      BY <1>2, <1>5 DEF Streamed, StartIsRecorded
<1>7. CASE UNCHANGED <<written, pending, flight>>
  <2>1. StartIsRecorded'
        BY <1>1, <1>2, <1>5, <1>6, <1>7 DEF Streamed, StartIsRecorded
  <2>2. NoneMissing' /\ NoHoles'
        BY <1>1, <1>2, <1>7 DEF Streamed, NoneMissing, NoHoles, Followed, Gone, Memory
  <2> QED
      BY <1>3, <1>4, <2>1, <2>2 DEF Streamed
<1>8. CASE Holds(w)
  <2> DEFINE e == Upcoming(w)
  <2>1. /\ e.by = w /\ e.id = NextId(w) /\ \A f \in written : f.by = w => f.id < e.id
        /\ written' = written \cup {e} /\ Memory(w)' = Memory(w) \cup {e}
        /\ e.id \in Nat /\ ids[w].next <= e.id
        /\ ids[w].next = 0 => e.id = seq + 1
        BY <1>8, NewEvent DEF Holds, Streamed, Numbered, Events
  <2> HIDE DEF e
  <2>2. ~Unreset /\ w = "resume" => meta.start <= e.id
        BY <1>5, <2>1 DEF Streamed, StartIsRecorded
  <2>3. StartIsRecorded'
        BY <1>1, <1>2, <1>5, <1>6, <2>1, <2>2 DEF Streamed, StartIsRecorded
  <2>4. \A v \in Writers : Memory(v) \subseteq Memory(v)'
        BY <2>1 DEF Alone, Memory
  <2>5. NoneMissing'
        BY <1>1, <1>2, <2>1, <2>4
        DEF Streamed, NoneMissing, Followed, Gone, Numbered, WrittenTypes, Events
  <2>6. NoHoles'
    <3>1. \A g \in stream : g \in written /\ g.id \in Nat
          BY DEF Streamed, StreamTypes, Numbered, WrittenTypes, Events
    <3>2. \A g \in stream : g.by = e.by => ~(e.id < g.id)
          BY <2>1, <3>1
    <3> QED
        BY <1>1, <1>2, <2>1, <3>2 DEF Streamed, NoHoles, Followed, Gone
  <2> QED
      BY <1>3, <1>4, <2>3, <2>5, <2>6 DEF Streamed
<1> QED
    BY <1>7, <1>8 DEF Numbers

(* What moves to a flight is in memory still. *)
LEMMA StreamedMoves ==
    ASSUME Streamed, Numbered', NEW w \in Writers, Alone(w), Moves(w)
    PROVE  Streamed'
<1>1. (Unreset' <=> Unreset) /\ overtaken' = overtaken /\ Unsettled(w)
      BY ResetStays DEF Streamed
<1>2. /\ UNCHANGED <<stream, meta, seq, ids, written, lost>>
      /\ \A v \in Writers : Memory(v)' = Memory(v)
      BY DEF Moves, Alone, Memory, store
<1>3. StreamTypes' /\ StartIsRecorded'
      BY <1>1, <1>2 DEF Streamed, StreamTypes, StartIsRecorded, Earliest
<1>4. RunIsSettled'
      BY <1>1, <1>2 DEF Streamed, RunIsSettled, Unsettled, Flushing, Alone, Writers
<1>5. NoneMissing' /\ NoHoles'
      BY <1>1, <1>2 DEF Streamed, NoneMissing, NoHoles, Followed, Gone, Numbered, WrittenTypes, Events
<1> QED
    BY <1>3, <1>4, <1>5 DEF Streamed

(* A flush stores its batch, or does not; what it does not hold any longer  *)
(* it has stored or lost.                                                   *)
LEMMA StreamedFlushed ==
    ASSUME Streamed, Numbered', NEW w \in Writers, Alone(w), Flushed(w)
    PROVE  Streamed'
<1>1. (Unreset' <=> Unreset) /\ overtaken' = overtaken /\ Unsettled(w)
      BY ResetStays DEF Streamed
<1>2. /\ UNCHANGED <<seq, ids, written>> /\ lost \subseteq lost'
      /\ Store(w) \/ (stream' = stream /\ meta' = meta)
      BY DEF Flushed, store
<1>3. /\ stream' \subseteq stream \cup flight[w].batch
      /\ \A f \in stream : f \in stream' \/ Gone(f)'
      /\ Store(w) => \A f \in flight[w].batch : f \in stream' \/ Gone(f)'
      /\ \A f \in Events : Gone(f) => Gone(f)'
      /\ stream' # stream => Store(w)
  <2>1. CASE Store(w)
        BY <2>1, StoreKeeps DEF Streamed
  <2>2. CASE ~Store(w)
        BY <1>2, <2>2 DEF Gone
  <2> QED
      BY <2>1, <2>2
<1>4. \A e \in flight[w].batch : e \in written /\ e.by = w /\ e \in Memory(w)
      BY DEF Streamed, Numbered, MemoryIsWritten, Memory
<1>5. StreamTypes' /\ StartIsRecorded'
  <2>1. StreamTypes' /\ meta'.earliest = Earliest(stream') /\ meta'.start = meta.start
    <3>1. stream' \subseteq written'
          BY <1>2, <1>3, <1>4 DEF Streamed, StreamTypes
    <3>2. CASE Store(w)
      <4>1. Earliest(stream') \in Nat
        <5>1. CASE stream' = {}
              BY <5>1 DEF Earliest
        <5>2. CASE stream' # {}
          <6>1. stream' \in SUBSET Events /\ IsFiniteSet(stream')
                BY <3>1, FS_Subset DEF Numbered, WrittenTypes
          <6> QED
              BY <5>2, <6>1, EarliestIs DEF Events
        <5> QED
            BY <5>1, <5>2
      <4>2. PICK st \in {"none", "active", "over"} :
               meta' = [meta EXCEPT !.earliest = Earliest(stream'), !.status = st]
            BY <3>2 DEF Store, Streamed, StreamTypes
      <4> QED
          BY <3>1, <4>1, <4>2 DEF Streamed, StreamTypes
    <3>3. CASE stream' = stream /\ meta' = meta
          BY <3>1, <3>3 DEF Streamed, StreamTypes, StartIsRecorded
    <3> QED
        BY <1>2, <3>2, <3>3
  <2>2. StartIsRecorded'
        BY <1>1, <1>2, <2>1 DEF Streamed, StartIsRecorded
  <2> QED
      BY <2>1, <2>2
<1>6. RunIsSettled'
  <2>1. ASSUME ~Unreset, ~overtaken PROVE w # "run" /\ \A e \in stream : e.by # "run"
        BY <1>1, <2>1 DEF Streamed, RunIsSettled
  <2> QED
      BY <1>1, <1>3, <1>4, <2>1 DEF Streamed, RunIsSettled, Unsettled, Flushing, Alone, Writers
<1>7. ASSUME NEW f \in written' \ lost', Followed(f.by)'
      PROVE  /\ f \in written \ lost /\ Followed(f.by) /\ f \in Events
             /\ f \in Memory(f.by) \/ f \in stream \/ Gone(f)
      BY <1>1, <1>2, <1>7 DEF Streamed, NoneMissing, Followed, Numbered, WrittenTypes
<1>8. NoneMissing'
  <2>1. ASSUME NEW f \in written' \ lost', Followed(f.by)', f \in Memory(f.by)
        PROVE  f \in Memory(f.by)' \/ f \in stream' \/ Gone(f)'
    <3>1. CASE f.by = w
          BY <1>3, <2>1, <3>1 DEF Flushed
    <3>2. CASE f.by # w
      <4>1. f.by \in Writers
            BY <1>7, <2>1 DEF Events
      <4> QED
          BY <2>1, <3>2, <4>1 DEF Alone, Memory
    <3> QED
        BY <3>1, <3>2
  <2> QED
      BY <1>3, <1>7, <2>1 DEF NoneMissing
<1>9. NoHoles'
  <2>1. SUFFICES ASSUME NEW e \in stream', NEW f \in written' \ lost', f.by = e.by,
                        Followed(f.by)', f.id < e.id
                 PROVE  f \in stream' \/ Gone(f)'
        BY DEF NoHoles
  <2>2. f \in stream \/ Gone(f) => f \in stream' \/ Gone(f)'
        BY <1>3, <1>7, <2>1
  <2>3. CASE e \in stream
        BY <1>7, <2>1, <2>2, <2>3 DEF Streamed, NoHoles
  <2>4. CASE e \in flight[w].batch /\ e \notin stream
    <3>1. Store(w) /\ f.by = w
          BY <1>3, <1>4, <2>1, <2>4
    <3>2. f \notin pending[w]
      <4>1. e.id \in Nat /\ f.id \in Nat
            BY <1>4, <1>7, <2>1, <2>4 DEF Streamed, Numbered, WrittenTypes, Events
      <4> QED
          BY <2>1, <2>4, <4>1 DEF Streamed, Numbered, InOrder
    <3>3. f \in flight[w].batch \/ f \in stream \/ Gone(f)
          BY <1>7, <2>1, <3>1, <3>2 DEF Memory
    <3> QED
        BY <1>3, <2>2, <3>1, <3>3
  <2> QED
      BY <1>3, <2>3, <2>4
<1> QED
    BY <1>5, <1>6, <1>8, <1>9 DEF Streamed

LEMMA StreamedStep ==
    ASSUME Streamed, [Next]_vars
    PROVE  Streamed'
<1>1. Numbered'
      BY NumberedStep DEF Streamed
<1>2. CASE (\E r \in Readers : Reads(r)) \/ UNCHANGED vars
  <2>1. UNCHANGED <<stream, meta, seq, ids, phase, pending, flight, timer, written, lost, overtaken>>
        BY <1>2 DEF Reads, Connect, Poll, GiveUp, vars, store
  <2>2. phase'["run"] = phase["run"] /\ (Unreset' <=> Unreset) /\ meta' = meta
        BY <2>1 DEF Unreset
  <2> QED
      BY <1>1, <2>1, <2>2, StreamedSame
<1>3. ASSUME NEW w \in Writers, Alone(w), Numbers(w) \/ Moves(w) \/ Flushed(w) PROVE Streamed'
      BY <1>1, <1>3, StreamedNumbers, StreamedMoves, StreamedFlushed
<1> QED
    BY <1>1, <1>2, <1>3, StreamedStarts, StepShape DEF Streamed, Numbered

-----------------------------------------------------------------------------
(* What the readers have seen.                                              *)

ReaderTypes ==
    /\ at \in [Readers -> {"off", "meta", "range", "recheck", "status", "done", "error", "stranded"}]
    /\ last \in [Readers -> Nat] /\ from \in [Readers -> Nat]
    /\ held \in [Readers -> SUBSET Events] /\ got \in [Readers -> SUBSET Events]
    /\ final \in [Readers -> BOOLEAN]

(* A reader has events that were written, and none before it connects; and  *)
(* it goes on only behind a block event.                                    *)
ReadsWritten(r) ==
    /\ held[r] \subseteq written /\ got[r] \subseteq written
    /\ at[r] = "off" => ~final[r] /\ got[r] = {}
    /\ Reading(r) => last[r] = 0 \/ \E b \in written : ~IsEnd(b) /\ last[r] = b.id

(* It has sent everything up to its last event. *)
SentUpToLast(r) ==
    Reading(r) => \A f \in written \ lost :
        Followed(f.by) /\ from[r] < f.id /\ f.id <= last[r] => f \in got[r]

(* What it has read has no holes but those that it will notice. *)
ReadInOrder(r) ==
    at[r] = "recheck" =>
        /\ \A e \in held[r] : \A f \in written \ lost :
              f.by = e.by /\ Followed(f.by) /\ last[r] < f.id /\ f.id < e.id => f \in held[r] \/ Gone(f)
        /\ ~Unreset /\ ~overtaken => \A e \in held[r] : e.by # "run"

(* And it has no gap: the property, of one reader. *)
NoGap(r) ==
    \A e \in got[r] : \A f \in written \ lost :
        /\ f.by = e.by /\ from[r] < f.id /\ f.id < e.id
        /\ e.by = "run" => ~overtaken
        => f \in got[r]

Follows(r) == ReadsWritten(r) /\ SentUpToLast(r) /\ ReadInOrder(r) /\ NoGap(r)

Gapless == Streamed /\ ReaderTypes /\ \A r \in Readers : Follows(r)

(* Of two writers that are followed, the one that comes later has the       *)
(* higher ids than the blocks of the other.                                 *)
BlocksFirst ==
    \A b, f \in written : ~IsEnd(b) /\ Followed(f.by) /\ f.by # b.by => b.id < f.id

LEMMA BlocksComeFirst == Numbered => BlocksFirst
<1> SUFFICES ASSUME Numbered, NEW b \in written, ~IsEnd(b),
                    NEW f \in written, Followed(f.by), f.by # b.by
             PROVE  b.id < f.id
    BY DEF BlocksFirst
<1>1. b.by \in Writers /\ f.by \in Writers
      BY DEF Numbered, WrittenTypes, Events
<1>2. b.by # "cancel"
      BY DEF Numbered, RunComesFirst
<1>3. ASSUME NEW e \in written, e.by \in {"resume", "cancel"} PROVE phase[e.by] # "idle"
      BY <1>3 DEF Numbered, RunComesFirst
<1>4. CASE b.by = "resume"
      BY <1>1, <1>3, <1>4 DEF Numbered, RunComesFirst, Followed, Unreset, Writers
<1>5. CASE b.by = "run"
  <2>1. f.by \in {"resume", "cancel"} /\ phase[f.by] # "idle"
        BY <1>1, <1>3, <1>5 DEF Writers
  <2> QED
      BY <1>5, <2>1 DEF Numbered, RunComesFirst
<1> QED
    BY <1>1, <1>2, <1>4, <1>5 DEF Writers

(* A reader that an event pruned ahead of it concerns notices. *)
LEMMA PrunedIsNoticed ==
    ASSUME Streamed, NEW r \in Readers, last[r] \in Nat,
           NEW f \in written, Followed(f.by), Gone(f), last[r] < f.id
    PROVE  Pruned(r)
<1>1. stream \in SUBSET Events /\ IsFiniteSet(stream) /\ f \in Events
      BY FS_Subset DEF Streamed, StreamTypes, Numbered, WrittenTypes
<1>2. stream # {}
  <2>1. EventLimit \in Nat \ {0} /\ Cardinality(stream) >= EventLimit
        BY StreamAssumption DEF Gone
  <2> QED
      BY <1>1, <2>1, FS_EmptySet
<1>3. PICK g \in stream : Earliest(stream) = g.id
      BY <1>1, <1>2, EarliestIs
<1>4. /\ meta.earliest = g.id /\ f.id < g.id
      /\ f.id \in Nat /\ g.id \in Nat
      BY <1>1, <1>3 DEF Streamed, StartIsRecorded, Gone, Events
<1>5. CASE last[r] = 0 /\ meta.start # 0
  <2>1. ~Unreset /\ f.by # "run"
        BY <1>5 DEF Streamed, StartIsRecorded, Followed
  <2>2. f.by = "resume"
        BY <1>1, <2>1 DEF Events, Writers, Unreset, Streamed, Numbered, RunComesFirst
  <2>3. meta.start <= f.id /\ meta.start \in Nat
        BY <2>1, <2>2 DEF Streamed, StartIsRecorded, StreamTypes
  <2> QED
      BY <1>4, <1>5, <2>3 DEF Pruned
<1>6. CASE ~(last[r] = 0 /\ meta.start # 0)
      BY <1>4, <1>6 DEF Pruned
<1> QED
    BY <1>5, <1>6

(* What a step of a writer, or a start, is to the readers: a new event that *)
(* is followed is later than what they have, and what is pruned stays so.   *)
Aside ==
    /\ UNCHANGED reader
    /\ written \subseteq written' /\ lost \subseteq lost'
    /\ overtaken => overtaken'
    /\ ~Unreset => ~Unreset' /\ overtaken' = overtaken
    /\ Unreset => Unreset' \/ overtaken' \/ \A r \in Readers : ~Reading(r)
    /\ \A f \in written' \ written : \A e \in written : f.by = e.by => e.id < f.id
    /\ \A f \in written \ lost' : Followed(f.by)' => Followed(f.by) /\ (Gone(f) => Gone(f)')

LEMMA StepAside ==
    ASSUME Streamed, [Next]_vars, ~(\E r \in Readers : Reads(r))
    PROVE  Aside
<1>1. ASSUME NEW w \in Writers, Alone(w), Numbers(w) \/ Moves(w) \/ Flushed(w)
      PROVE  Aside
  <2>1. UNCHANGED reader /\ lost \subseteq lost' /\ (Unreset' <=> Unreset) /\ overtaken' = overtaken
    <3>1. UNCHANGED reader /\ lost \subseteq lost'
          BY <1>1 DEF Numbers, Moves, Flushed
    <3> QED
        BY <1>1, <3>1, ResetStays DEF Streamed
  <2>2. /\ written \subseteq written'
        /\ \A f \in written' \ written : \A e \in written : f.by = e.by => e.id < f.id
    <3>1. CASE Numbers(w) /\ Holds(w)
          BY <3>1, NewEvent DEF Holds, Streamed, Numbered
    <3>2. CASE written' = written
          BY <3>2
    <3> QED
        BY <1>1, <3>1, <3>2 DEF Numbers, Moves, Flushed
  <2>3. \A f \in written : Gone(f) => Gone(f)'
    <3>1. CASE stream' = stream
          BY <3>1 DEF Gone
    <3>2. CASE Store(w)
          BY <3>2, StoreKeeps DEF Streamed, Numbered, WrittenTypes
    <3> QED
        BY <1>1, <3>1, <3>2 DEF Numbers, Moves, Flushed, store
  <2> QED
      BY <2>1, <2>2, <2>3 DEF Aside, Followed
<1>2. CASE Starts
  <2>1. UNCHANGED <<reader, written, lost>>
        BY <1>2 DEF Starts, StartRun, ResetStream, StartResume, StartCancel
  <2>2. CASE ResetStream
    <3>1. /\ overtaken' = (Unsettled("run") \/ \E r \in Readers : Reading(r))
          /\ Unreset /\ ~Unreset'
          /\ phase["resume"] = "idle" /\ phase["cancel"] = "idle"
          BY <2>2 DEF ResetStream, Unreset, Streamed, Numbered, Kept, WriterTypes, Writers
    <3>2. ~overtaken
          BY <3>1 DEF Streamed, StartIsRecorded
    <3>3. \A f \in written : ~Followed(f.by)'
          BY <3>1 DEF Followed, Streamed, Numbered, RunComesFirst, WrittenTypes, Events, Writers
    <3>4. Unreset => Unreset' \/ overtaken' \/ \A r \in Readers : ~Reading(r)
          BY <3>1
    <3> QED
        BY <2>1, <3>1, <3>2, <3>3, <3>4 DEF Aside
  <2>3. CASE StartRun \/ StartResume \/ StartCancel
    <3>1. /\ stream' = stream /\ overtaken' = overtaken
          /\ Unreset' <=> Unreset
          BY <2>3 DEF StartRun, StartResume, StartCancel, Abandons, store, Unreset, Streamed, Numbered, Kept, WriterTypes, Writers
    <3> QED
        BY <2>1, <3>1 DEF Aside, Followed, Gone
  <2> QED
      BY <1>2, <2>2, <2>3 DEF Starts
<1>3. CASE UNCHANGED vars
      BY <1>3 DEF vars, reader, Aside, Followed, Unreset, Gone
<1> QED
    BY <1>1, <1>2, <1>3, StepShape DEF Streamed, Numbered

LEMMA GaplessAside ==
    ASSUME Gapless, Streamed', Aside
    PROVE  Gapless'
<1>1. UNCHANGED <<at, last, held, final, from, got>>
      BY DEF Aside, reader
<1>2. ReaderTypes' /\ \A r \in Readers : Reading(r)' <=> Reading(r)
      BY <1>1 DEF Gapless, ReaderTypes, Reading
<1>3. ASSUME NEW r \in Readers PROVE Follows(r)'
  <2>0. ReadsWritten(r) /\ SentUpToLast(r) /\ ReadInOrder(r) /\ NoGap(r)
        BY DEF Gapless, Follows
  <2>1. ReadsWritten(r)'
        BY <1>1, <1>2, <2>0 DEF ReadsWritten, Aside
  <2>2. SentUpToLast(r)'
    <3>1. SUFFICES ASSUME Reading(r), NEW f \in written' \ lost', Followed(f.by)',
                          from[r] < f.id, f.id <= last[r]
                   PROVE  f \in got[r]
          BY <1>1, <1>2 DEF SentUpToLast
    <3>2. CASE f \in written
          BY <2>0, <3>1, <3>2 DEF SentUpToLast, Aside
    <3>3. CASE f \notin written
      <4>1. 1 <= f.id /\ f.id \in Nat
            BY DEF Streamed, Numbered, IdsAreTaken, WrittenTypes, Events
      <4>2. PICK b \in written : ~IsEnd(b) /\ last[r] = b.id
            BY <2>0, <3>1, <4>1 DEF ReadsWritten
      <4>3. b.id < f.id
        <5>1. CASE f.by = b.by
              BY <3>3, <5>1 DEF Aside
        <5>2. CASE f.by # b.by
          <6>1. BlocksFirst'
                BY BlocksComeFirst, PTL DEF Streamed
          <6> QED
              BY <3>1, <4>2, <5>2, <6>1 DEF BlocksFirst, Aside
        <5> QED
            BY <5>1, <5>2
      <4>4. b.id \in Nat
            BY DEF Gapless, Streamed, Numbered, WrittenTypes, Events
      <4> QED
          BY <3>1, <4>1, <4>2, <4>3, <4>4
    <3> QED
        BY <3>2, <3>3
  <2>3. \A e \in written : \A f \in written' \ written : f.by = e.by => ~(f.id < e.id)
    <3>1. \A e \in written' : e.id \in Nat
          BY DEF Streamed, Numbered, WrittenTypes, Events
    <3> QED
        BY <3>1 DEF Aside
  <2>4. ReadInOrder(r)'
    <3>1. SUFFICES ASSUME at[r] = "recheck"
                   PROVE  /\ \A e \in held[r] : \A f \in written' \ lost' :
                                f.by = e.by /\ Followed(f.by)' /\ last[r] < f.id /\ f.id < e.id
                                    => f \in held[r] \/ Gone(f)'
                          /\ ~Unreset' /\ ~overtaken' => \A e \in held[r] : e.by # "run"
          BY <1>1 DEF ReadInOrder
    <3>2. ASSUME NEW e \in held[r], NEW f \in written' \ lost',
                 f.by = e.by, Followed(f.by)', last[r] < f.id, f.id < e.id
          PROVE  f \in held[r] \/ Gone(f)'
      <4>1. e \in written
            BY <2>0 DEF ReadsWritten
      <4>2. f \in written /\ f \notin lost
            BY <2>3, <3>2, <4>1 DEF Aside
      <4>3. Followed(f.by) /\ (Gone(f) => Gone(f)')
            BY <3>2, <4>2 DEF Aside
      <4> QED
          BY <2>0, <3>1, <3>2, <4>2, <4>3 DEF ReadInOrder
    <3>3. ASSUME ~Unreset', ~overtaken' PROVE \A e \in held[r] : e.by # "run"
      <4>1. Reading(r)
            BY <3>1 DEF Reading
      <4>2. ~Unreset /\ ~overtaken
            BY <3>3, <4>1 DEF Aside
      <4> QED
          BY <2>0, <3>1, <4>2 DEF ReadInOrder
    <3> QED
        BY <3>2, <3>3
  <2>5. NoGap(r)'
    <3>1. SUFFICES ASSUME NEW e \in got[r], NEW f \in written' \ lost', f.by = e.by,
                          from[r] < f.id, f.id < e.id, e.by = "run" => ~overtaken'
                   PROVE  f \in got[r]
          BY <1>1 DEF NoGap
    <3>2. e \in written
          BY <2>0 DEF ReadsWritten
    <3>3. f \in written \ lost
          BY <2>3, <3>1, <3>2 DEF Aside
    <3>4. e.by = "run" => ~overtaken
          BY <3>1 DEF Aside
    <3> QED
        BY <2>0, <3>1, <3>3, <3>4 DEF NoGap
  <2> QED
      BY <2>1, <2>2, <2>4, <2>5 DEF Follows
<1> QED
    BY <1>2, <1>3 DEF Gapless

(* A reader's step leaves everything but the reader alone. *)
ReadsAlone(r) ==
    /\ UNCHANGED <<store, phase, timer, flight, written, lost, overtaken>>
    /\ ReaderTypes'
    /\ \A q \in Readers \ {r} :
          /\ at'[q] = at[q] /\ last'[q] = last[q] /\ from'[q] = from[q]
          /\ held'[q] = held[q] /\ got'[q] = got[q] /\ final'[q] = final[q]

(* The stream's earliest and latest events are found by their ids. *)
LEMMA ReadsAloneStep ==
    ASSUME Gapless, NEW r \in Readers, Reads(r)
    PROVE  ReadsAlone(r)
<1>t. /\ written \in SUBSET Events /\ stream \in SUBSET Events
      /\ held[r] \in SUBSET Events /\ IsFiniteSet(held[r])
  <2>1. stream \subseteq written /\ held[r] \subseteq written
        /\ written \in SUBSET Events /\ IsFiniteSet(written)
        BY DEF Gapless, Streamed, StreamTypes, Numbered, WrittenTypes, Follows, ReadsWritten
  <2> QED
      BY <2>1, FS_Subset
<1>0. UNCHANGED <<store, phase, timer, flight, written, lost, overtaken>>
      BY DEF Reads, Connect, Poll, GiveUp
<1>1. CASE Connect(r)
  <2>1. PICK n \in Nat : last' = [last EXCEPT ![r] = n] /\ from' = [from EXCEPT ![r] = n]
        BY <1>1, <1>t DEF Connect, Events
  <2> QED
      BY <1>0, <1>1, <2>1 DEF Connect, GoTo, Gapless, ReaderTypes, ReadsAlone
<1>2. CASE Fail(r)
      BY <1>0, <1>2 DEF Fail, GoTo, Gapless, ReaderTypes, ReadsAlone
<1>3. CASE GoTo(r, "range") /\ UNCHANGED <<last, held, final, from, got>>
      BY <1>0, <1>3 DEF GoTo, Gapless, ReaderTypes, ReadsAlone
<1>4. CASE ReadRange(r)
  <2>1. {e \in stream : e.id > last[r]} \in SUBSET Events
        BY <1>t
  <2> QED
      BY <1>0, <1>4, <2>1 DEF ReadRange, GoTo, Gapless, ReaderTypes, ReadsAlone
<1>5. CASE ReadStatus(r)
  <2>1. PICK b \in BOOLEAN : final' = [final EXCEPT ![r] = b]
        BY <1>5 DEF ReadStatus
  <2> QED
      BY <1>0, <1>5, <2>1 DEF ReadStatus, GoTo, Gapless, ReaderTypes, ReadsAlone
<1>6. CASE Recheck(r) /\ ~Fail(r)
  <2>1. PICK n \in Nat : last' = [last EXCEPT ![r] = n]
    <3>1. CASE held[r] = {}
          BY <1>6, <3>1 DEF Recheck, Gapless, ReaderTypes
    <3>2. CASE held[r] # {}
      <4>1. Latest(held[r]) \in Nat
            BY <1>t, <3>2, LatestIs DEF Events
      <4> QED
          BY <1>6, <3>2, <4>1 DEF Recheck
    <3> QED
        BY <3>1, <3>2
  <2>2. PICK p \in {"done", "stranded", "status"} : GoTo(r, p)
        BY <1>6 DEF Recheck
  <2>3. got[r] \cup held[r] \in SUBSET Events
        BY <1>t DEF Gapless, ReaderTypes
  <2>4. /\ got' = [got EXCEPT ![r] = @ \cup held[r]] /\ held' = [held EXCEPT ![r] = {}]
        /\ UNCHANGED <<final, from>>
        BY <1>6 DEF Recheck
  <2>5. ReaderTypes'
        BY <2>1, <2>2, <2>3, <2>4 DEF GoTo, Gapless, ReaderTypes
  <2> QED
      BY <1>0, <2>1, <2>2, <2>4, <2>5 DEF GoTo, Gapless, ReaderTypes, ReadsAlone
<1> QED
    BY <1>1, <1>2, <1>3, <1>4, <1>5, <1>6 DEF Reads, Poll, ReadMeta, Recheck, GiveUp

(* Whether a reader follows is its own matter. *)
LEMMA FollowsAlone ==
    ASSUME Gapless, Streamed', NEW r \in Readers, ReadsAlone(r), Follows(r)'
    PROVE  Gapless'
<1>1. /\ stream' = stream /\ written' = written /\ lost' = lost /\ overtaken' = overtaken
      /\ phase' = phase
      BY DEF ReadsAlone, store
<1>2. ASSUME NEW q \in Readers, q # r PROVE Follows(q)'
  <2>1. /\ at'[q] = at[q] /\ last'[q] = last[q] /\ from'[q] = from[q]
        /\ held'[q] = held[q] /\ got'[q] = got[q] /\ final'[q] = final[q]
        BY <1>2 DEF ReadsAlone
  <2>2. Follows(q)
        BY DEF Gapless
  <2> QED
      BY <1>1, <2>1, <2>2
      DEF Follows, ReadsWritten, SentUpToLast, ReadInOrder, NoGap, Reading, Followed, Unreset, Gone
<1> QED
    BY <1>2 DEF Gapless, ReadsAlone

(* What a reader sends has no gap to what it has sent. *)
LEMMA FollowsRecheck ==
    ASSUME Gapless, Streamed', NEW r \in Readers, ReadsAlone(r), Recheck(r), ~Fail(r)
    PROVE  Follows(r)'
<1>1. /\ stream' = stream /\ written' = written /\ lost' = lost /\ overtaken' = overtaken
      /\ phase' = phase
      BY DEF ReadsAlone, store
<1>2. /\ at[r] = "recheck" /\ ~Pruned(r)
      /\ got'[r] = got[r] \cup held[r] /\ held'[r] = {} /\ from'[r] = from[r] /\ final'[r] = final[r]
      /\ last'[r] = IF held[r] = {} THEN last[r] ELSE Latest(held[r])
      /\ at'[r] = IF \E e \in held[r] : IsEnd(e) THEN "done"
                  ELSE IF final[r] THEN "stranded" ELSE "status"
      BY DEF Recheck, GoTo, Gapless, ReaderTypes
<1>3. Follows(r) /\ Reading(r)
      BY <1>2 DEF Gapless, Reading
<1>4. /\ held[r] \in SUBSET Events /\ IsFiniteSet(held[r]) /\ held[r] \subseteq written
      /\ got[r] \subseteq written /\ \A e \in written : e.id \in Nat
      /\ last[r] \in Nat
  <2>1. /\ held[r] \subseteq written /\ got[r] \subseteq written
        /\ written \in SUBSET Events /\ IsFiniteSet(written)
        BY <1>3 DEF Gapless, Streamed, Numbered, WrittenTypes, Follows, ReadsWritten
  <2>2. last[r] \in Nat
        BY DEF Gapless, ReaderTypes
  <2> QED
      BY <2>1, <2>2, FS_Subset DEF Events
<1>5. ASSUME NEW e \in held[r], NEW f \in written \ lost, f.by = e.by, Followed(f.by),
             last[r] < f.id, f.id < e.id
      PROVE  f \in held[r]
  <2>1. ~Gone(f)
        BY <1>2, <1>4, <1>5, PrunedIsNoticed DEF Gapless
  <2> QED
      BY <1>2, <1>3, <1>5, <2>1 DEF Follows, ReadInOrder
<1>6. ReadsWritten(r)'
  <2>1. ASSUME Reading(r)' PROVE last'[r] = 0 \/ \E b \in written : ~IsEnd(b) /\ last'[r] = b.id
    <3>1. \A e \in held[r] : ~IsEnd(e)
          BY <1>2, <2>1 DEF Reading
    <3>2. CASE held[r] = {}
          BY <1>2, <1>3, <3>2 DEF Follows, ReadsWritten
    <3>3. CASE held[r] # {}
          BY <1>2, <1>4, <3>1, <3>3, LatestIs
    <3> QED
        BY <3>2, <3>3
  <2> QED
      BY <1>1, <1>2, <1>4, <2>1 DEF ReadsWritten
<1>7. SentUpToLast(r)'
  <2>1. SUFFICES ASSUME Reading(r)', NEW f \in written \ lost, Followed(f.by), from[r] < f.id,
                        f.id <= last'[r]
                 PROVE  f \in got[r] \cup held[r]
        BY <1>1, <1>2 DEF SentUpToLast, Followed, Unreset
  <2>2. CASE f.id <= last[r]
        BY <1>3, <2>1, <2>2 DEF Follows, SentUpToLast
  <2>3. CASE last[r] < f.id
    <3>1. held[r] # {}
          BY <1>2, <1>4, <2>1, <2>3
    <3>2. PICK e \in held[r] : last'[r] = e.id
          BY <1>2, <1>4, <3>1, LatestIs
    <3>3. ~IsEnd(e)
          BY <1>2, <2>1 DEF Reading
    <3>4. e \in written /\ e.id \in Nat /\ f.id \in Nat
          BY <1>4
    <3>5. f.by = e.by
      <4>1. BlocksFirst
            BY BlocksComeFirst DEF Gapless, Streamed
      <4> QED
          BY <2>1, <3>2, <3>3, <3>4, <4>1 DEF BlocksFirst
    <3>6. CASE f.id = e.id
          BY <3>4, <3>5, <3>6 DEF Gapless, Streamed, Numbered, IdsAreTaken
    <3>7. CASE f.id < e.id
          BY <1>5, <2>1, <2>3, <3>5, <3>7
    <3> QED
        BY <2>1, <3>2, <3>4, <3>6, <3>7
  <2> QED
      BY <1>4, <2>2, <2>3
<1>8. ReadInOrder(r)'
      BY <1>2 DEF ReadInOrder
<1>9. NoGap(r)'
  <2>1. SUFFICES ASSUME NEW e \in got[r] \cup held[r], NEW f \in written \ lost, f.by = e.by,
                        from[r] < f.id, f.id < e.id, e.by = "run" => ~overtaken
                 PROVE  f \in got[r] \cup held[r]
        BY <1>1, <1>2 DEF NoGap
  <2>2. CASE e \in got[r]
        BY <1>3, <2>1, <2>2 DEF Follows, NoGap
  <2>3. CASE e \in held[r]
    <3>1. Followed(f.by)
          BY <1>2, <1>3, <2>1, <2>3 DEF Follows, ReadInOrder, Followed
    <3>2. CASE f.id <= last[r]
          BY <1>3, <2>1, <3>1, <3>2 DEF Follows, SentUpToLast
    <3>3. CASE last[r] < f.id
          BY <1>5, <2>1, <2>3, <3>1, <3>3
    <3> QED
        BY <1>4, <3>2, <3>3
  <2> QED
      BY <2>2, <2>3
<1> QED
    BY <1>6, <1>7, <1>8, <1>9 DEF Follows

LEMMA FollowsReads ==
    ASSUME Gapless, Streamed', NEW r \in Readers, ReadsAlone(r), Reads(r)
    PROVE  Follows(r)'
<1>1. /\ stream' = stream /\ written' = written /\ lost' = lost /\ overtaken' = overtaken
      /\ phase' = phase
      BY DEF ReadsAlone, store
<1>2. Follows(r)
      BY DEF Gapless
<1> USE DEF GoTo, ReaderTypes
<1>3. CASE Connect(r)
  <2>1. /\ at[r] = "off" /\ at'[r] = "meta" /\ last'[r] = from'[r]
        /\ \E n \in {0} \cup {e.id : e \in {f \in written : ~IsEnd(f)}} : last'[r] = n
        /\ held'[r] = held[r] /\ got'[r] = got[r] /\ final'[r] = final[r]
        BY <1>3 DEF Connect, Gapless
  <2>2. last'[r] = 0 \/ \E b \in written : ~IsEnd(b) /\ last'[r] = b.id
        BY <2>1
  <2>3. got[r] = {} /\ last'[r] \in Nat /\ \A f \in written : f.id \in Nat
        BY <1>2, <2>1 DEF Follows, ReadsWritten, ReadsAlone, Gapless, Streamed, Numbered, WrittenTypes, Events
  <2>4. ReadsWritten(r)'
        BY <1>1, <1>2, <2>1, <2>2 DEF Follows, ReadsWritten, Reading
  <2>5. SentUpToLast(r)' /\ ReadInOrder(r)' /\ NoGap(r)'
        BY <1>1, <2>1, <2>3 DEF SentUpToLast, ReadInOrder, NoGap, Reading
  <2> QED
      BY <2>4, <2>5 DEF Follows
<1>4. CASE Fail(r)
  <2>1. at'[r] = "error" /\ got'[r] = {} /\ held'[r] = {}
        BY <1>4 DEF Fail, Gapless
  <2> QED
      BY <2>1 DEF Follows, ReadsWritten, SentUpToLast, ReadInOrder, NoGap, Reading
<1>5. CASE \/ at[r] = "meta" /\ GoTo(r, "range") /\ UNCHANGED <<last, held, final, from, got>>
           \/ ReadStatus(r)
  <2>1. /\ at'[r] \in {"meta", "range"} /\ Reading(r)
        /\ UNCHANGED <<last, held, from, got>>
        BY <1>5 DEF ReadStatus, Reading, Gapless
  <2>2. ReadsWritten(r)' /\ SentUpToLast(r)' /\ ReadInOrder(r)' /\ NoGap(r)'
        BY <1>1, <1>2, <2>1
        DEF Follows, ReadsWritten, SentUpToLast, ReadInOrder, NoGap, Reading, Followed, Unreset
  <2> QED
      BY <2>2 DEF Follows
<1>6. CASE ReadRange(r)
  <2>1. /\ at'[r] = "recheck" /\ Reading(r)
        /\ UNCHANGED <<last, from, got>>
        /\ held'[r] = {e \in stream : e.id > last[r]}
        BY <1>6 DEF ReadRange, Reading, Gapless
  <2>2. ReadsWritten(r)'
        BY <1>1, <1>2, <2>1 DEF Follows, ReadsWritten, Reading, Gapless, Streamed, StreamTypes
  <2>3. SentUpToLast(r)' /\ NoGap(r)'
        BY <1>1, <1>2, <2>1 DEF Follows, SentUpToLast, NoGap, Reading, Followed, Unreset
  <2>4. ReadInOrder(r)'
    <3>1. ASSUME NEW e \in stream, NEW f \in written \ lost, f.by = e.by, Followed(f.by),
                 last[r] < f.id, f.id < e.id
          PROVE  f \in held'[r] \/ Gone(f)
      <4>1. f \in stream \/ Gone(f)
            BY <3>1 DEF Gapless, Streamed, NoHoles
      <4>2. f.id \in Nat /\ last[r] \in Nat
            BY DEF Gapless, Streamed, Numbered, WrittenTypes, Events
      <4> QED
          BY <2>1, <3>1, <4>1, <4>2
    <3>2. ~Unreset /\ ~overtaken => \A e \in stream : e.by # "run"
          BY DEF Gapless, Streamed, RunIsSettled
    <3> QED
        BY <1>1, <2>1, <3>1, <3>2 DEF ReadInOrder, Followed, Unreset, Gone
  <2> QED
      BY <2>2, <2>3, <2>4 DEF Follows
<1>7. CASE Recheck(r) /\ ~Fail(r)
      BY <1>7, FollowsRecheck
<1> QED
    BY <1>3, <1>4, <1>5, <1>6, <1>7 DEF Reads, Poll, ReadMeta, GiveUp

LEMMA GaplessInit == Init => Gapless
<1> SUFFICES ASSUME Init PROVE Gapless
    OBVIOUS
<1>1. /\ at = [r \in Readers |-> "off"] /\ last = [r \in Readers |-> 0]
      /\ held = [r \in Readers |-> {}] /\ final = [r \in Readers |-> FALSE]
      /\ from = [r \in Readers |-> 0] /\ got = [r \in Readers |-> {}]
      BY DEF Init
<1>2. ReaderTypes /\ \A r \in Readers : Follows(r)
      BY <1>1 DEF ReaderTypes, Follows, ReadsWritten, SentUpToLast, ReadInOrder, NoGap, Reading
<1> QED
    BY <1>2, StreamedInit DEF Gapless

LEMMA GaplessStep ==
    ASSUME Gapless, [Next]_vars
    PROVE  Gapless'
<1>1. Streamed'
      BY StreamedStep DEF Gapless
<1>2. CASE \E r \in Readers : Reads(r)
      BY <1>1, <1>2, ReadsAloneStep, FollowsReads, FollowsAlone
<1>3. CASE ~(\E r \in Readers : Reads(r))
      BY <1>1, <1>3, StepAside, GaplessAside DEF Gapless
<1> QED
    BY <1>2, <1>3

(* A reader that sends an event has sent every event of its writer before   *)
(* it, from where the reader started: for any number of readers and blocks, *)
(* any sizes of batches, limits of memory and retention, and any failures.  *)
(* Not counted are the events that were dropped or taken back, and the      *)
(* run's once a resume has reset the stream under its writer or a reader.   *)
THEOREM NoGapIsSilent == Spec => []NoSilentGap
<1>1. Gapless => NoSilentGap
      BY DEF Gapless, Follows, NoGap, NoSilentGap
<1> QED
    BY GaplessInit, GaplessStep, <1>1, PTL DEF Spec

-----------------------------------------------------------------------------
(* The end of a stream.                                                     *)

(* Readers connect when there is a status, and it is not taken back under   *)
(* them but by a reset.                                                     *)
StatusIsKnown == meta.status = "none" => overtaken \/ \A r \in Readers : ~Reading(r)

(* With the terminal status an end is stored that no block event follows,   *)
(* and no block event is to come.                                           *)
EndIsStored ==
    meta.status = "over" /\ ~overtaken =>
        /\ \E e \in stream : IsEnd(e) /\ \A b \in written : ~IsEnd(b) => b.id < e.id
        /\ left["run"] <= 1 /\ phase["run"] # "idle"
        /\ Unreset \/ (phase["resume"] # "reset" /\ left["resume"] = 0)

(* A reader that has seen a terminal status reads the end, *)
SeesEnd(r) ==
    /\ Reading(r) /\ final[r] /\ ~overtaken => meta.status = "over"
    /\ at[r] = "recheck" /\ final[r] /\ ~overtaken => \E e \in held[r] : IsEnd(e)
    /\ at[r] = "stranded" => overtaken

Ended == Gapless /\ StatusIsKnown /\ EndIsStored /\ \A r \in Readers : SeesEnd(r)

LEMMA EndedInit == Init => Ended
<1> SUFFICES ASSUME Init PROVE Ended
    OBVIOUS
<1>1. /\ at = [r \in Readers |-> "off"] /\ meta.status = "none"
      BY DEF Init
<1>2. StatusIsKnown /\ EndIsStored /\ \A r \in Readers : SeesEnd(r)
      BY <1>1 DEF StatusIsKnown, EndIsStored, SeesEnd, Reading
<1> QED
    BY <1>2, GaplessInit DEF Ended

(* The start of a writer finds no reader that has seen an end, or overtakes *)
(* it.                                                                      *)
LEMMA EndedStarts ==
    ASSUME Ended, Starts, Gapless'
    PROVE  Ended'
<1>1. UNCHANGED <<at, final, held, written, left>>
      BY DEF Starts, StartRun, ResetStream, StartResume, StartCancel, reader
<1>2. \A r \in Readers : Reading(r)' <=> Reading(r)
      BY <1>1 DEF Reading
<1>3. CASE ResetStream
  <2>1. /\ meta'.status = "none" /\ overtaken' = (Unsettled("run") \/ \E r \in Readers : Reading(r))
        /\ Unreset
        BY <1>3 DEF ResetStream, Unreset
  <2>2. ~overtaken
        BY <2>1 DEF Ended, Gapless, Streamed, StartIsRecorded
  <2>3. overtaken' \/ \A r \in Readers : ~Reading(r)
        BY <2>1
  <2>4. StatusIsKnown' /\ EndIsStored'
        BY <1>2, <2>1, <2>3 DEF StatusIsKnown, EndIsStored
  <2>5. ASSUME NEW r \in Readers PROVE SeesEnd(r)'
    <3>1. at[r] # "stranded"
          BY <2>2 DEF Ended, SeesEnd
    <3> QED
        BY <1>1, <1>2, <2>3, <3>1 DEF SeesEnd, Reading
  <2> QED
      BY <2>4, <2>5 DEF Ended
<1>4. CASE StartRun \/ StartResume
  <2>1. /\ meta'.status = "active" \/ meta' = meta
        /\ overtaken' = overtaken
        BY <1>4 DEF StartRun, StartResume, Ended, Gapless, Streamed, StreamTypes
  <2>2. meta.status # "over" \/ overtaken
        BY <1>4 DEF StartRun, StartResume, Ended, EndIsStored, Unreset
  <2>3. \A r \in Readers : SeesEnd(r)'
        BY <1>1, <1>2, <2>1, <2>2 DEF SeesEnd, Ended
  <2>4. StatusIsKnown' /\ EndIsStored'
        BY <1>2, <2>1, <2>2 DEF Ended, StatusIsKnown, EndIsStored
  <2> QED
      BY <2>3, <2>4 DEF Ended
<1>5. CASE StartCancel
  <2>1. /\ meta' = meta /\ stream' = stream /\ overtaken' = overtaken
        /\ phase'["run"] = phase["run"] /\ phase'["resume"] = phase["resume"]
        BY <1>5 DEF StartCancel, store, Ended, Gapless, Streamed, Numbered, Kept, WriterTypes, Writers
  <2>2. StatusIsKnown' /\ EndIsStored'
        BY <1>1, <1>2, <2>1 DEF Ended, StatusIsKnown, EndIsStored, Unreset
  <2>3. \A r \in Readers : SeesEnd(r)'
        BY <1>1, <1>2, <2>1 DEF SeesEnd, Ended
  <2> QED
      BY <2>2, <2>3 DEF Ended
<1> QED
    BY <1>3, <1>4, <1>5 DEF Starts

(* A flush that stores the status has an end in its batch, above all blocks. *)
LEMMA StoredEnd ==
    ASSUME Ended, NEW w \in Writers, Flushing(w), flight[w].ends, ~overtaken
    PROVE  /\ \E e \in flight[w].batch : IsEnd(e) /\ \A b \in written : ~IsEnd(b) => b.id < e.id
           /\ left["run"] <= 1 /\ phase["run"] # "idle"
           /\ Unreset \/ (phase["resume"] # "reset" /\ left["resume"] = 0)
<1>1. PICK e \in flight[w].batch : e.kind = "end"
      BY DEF Ended, Gapless, Streamed, Numbered, Batches
<1>2. /\ e \in written /\ e.by = w /\ IsEnd(e)
      BY <1>1 DEF IsEnd, Ended, Gapless, Streamed, Numbered, MemoryIsWritten, Memory
<1>3. left[w] = 0 /\ \A b \in written : b.by = w /\ ~IsEnd(b) => b.id < e.id
      BY <1>2 DEF Ended, Gapless, Streamed, Numbered, EndsComeLast
<1>4. phase[w] \notin {"idle", "reset"}
      BY DEF Ended, Gapless, Streamed, Numbered, Kept, Roles
<1>5. Followed(w)
      BY DEF Followed, Ended, Gapless, Streamed, RunIsSettled, Unsettled
<1>6. \A b \in written : ~IsEnd(b) => b.id < e.id
      BY <1>2, <1>3, <1>5, BlocksComeFirst DEF BlocksFirst, Ended, Gapless, Streamed
<1>7. /\ left["run"] <= 1 /\ phase["run"] # "idle"
      /\ Unreset \/ (phase["resume"] # "reset" /\ left["resume"] = 0)
  <2>1. CASE w = "run"
        BY <1>3, <1>4, <1>5, <2>1 DEF Followed
  <2>2. CASE w \in {"resume", "cancel"}
        BY <1>3, <1>4, <2>2 DEF Unreset, Ended, Gapless, Streamed, Numbered, RunComesFirst
  <2> QED
      BY <2>1, <2>2 DEF Writers
<1> QED
    BY <1>1, <1>2, <1>6, <1>7

LEMMA EndIsStoredStep ==
    ASSUME Ended, NEW w \in Writers, Alone(w), Numbers(w) \/ Moves(w) \/ Flushed(w)
    PROVE  EndIsStored'
<1>1. /\ Unreset' <=> Unreset
      /\ overtaken' = overtaken
      BY ResetStays DEF Ended, Gapless, Streamed
<1>2. SUFFICES ASSUME meta'.status = "over", ~overtaken
               PROVE  EndIsStored'
      BY <1>1 DEF EndIsStored
<1>3. \A v \in Writers : /\ phase'[v] = "idle" => phase[v] = "idle"
                         /\ phase'[v] = "reset" => phase[v] = "reset"
                         /\ left'[v] \in Nat /\ left[v] \in Nat
                         /\ left'[v] = left[v] \/ (left[v] # 0 /\ left'[v] = left[v] - 1)
  <2>1. \A v \in Writers : left[v] \in Nat
        BY DEF Ended, Gapless, Streamed, Numbered, Kept, WriterTypes
  <2>2. Flushing(w) => phase[w] \notin {"idle", "reset"}
        BY DEF Ended, Gapless, Streamed, Numbered, Kept, Roles
  <2>3. \A v \in Writers : /\ phase'[v] = "idle" => phase[v] = "idle"
                           /\ phase'[v] = "reset" => phase[v] = "reset"
        BY <2>2 DEF Alone, Numbers, Moves, Flushed
  <2>4. \A v \in Writers : left'[v] = left[v] \/ (left[v] # 0 /\ left'[v] = left[v] - 1)
        BY DEF Alone, Numbers, Moves, Flushed
  <2> QED
      BY <2>1, <2>3, <2>4
<1>4. ASSUME left["run"] <= 1, phase["run"] # "idle",
             Unreset \/ (phase["resume"] # "reset" /\ left["resume"] = 0)
      PROVE  /\ left'["run"] <= 1 /\ phase'["run"] # "idle"
             /\ Unreset' \/ (phase'["resume"] # "reset" /\ left'["resume"] = 0)
  <2>1. left'["run"] <= left["run"] /\ (left["resume"] = 0 => left'["resume"] = 0)
        BY <1>3 DEF Writers
  <2>2. left["run"] \in Nat /\ left'["run"] \in Nat
        BY <1>3 DEF Writers
  <2> QED
      BY <1>1, <1>3, <1>4, <2>1, <2>2 DEF Writers
<1>5. CASE Flushed(w) /\ Store(w)
  <2>1. written' = written /\ Flushing(w)
        BY <1>5 DEF Flushed
  <2>2. /\ \E e \in stream \cup flight[w].batch : IsEnd(e) /\ \A b \in written : ~IsEnd(b) => b.id < e.id
        /\ left["run"] <= 1 /\ phase["run"] # "idle"
        /\ Unreset \/ (phase["resume"] # "reset" /\ left["resume"] = 0)
    <3>1. CASE flight[w].ends
          BY <1>2, <2>1, <3>1, StoredEnd
    <3>2. CASE ~flight[w].ends
      <4>1. meta.status = "over"
            BY <1>2, <1>5, <3>2 DEF Store, Ended, Gapless, Streamed, StreamTypes
      <4> QED
          BY <1>2, <4>1 DEF Ended, EndIsStored
    <3> QED
        BY <3>1, <3>2
  <2>3. PICK e \in stream \cup flight[w].batch : \A b \in written : ~IsEnd(b) => b.id < e.id
        BY <2>2
  <2>4. PICK z \in stream' : \A f \in stream \cup flight[w].batch : f.id <= z.id
        BY <1>5, <2>3, StoreKeeps DEF Ended, Gapless, Streamed
  <2>5. /\ stream' \subseteq stream \cup flight[w].batch
        /\ stream \cup flight[w].batch \subseteq written
        /\ \A f \in written : f.id \in Nat
        BY <1>5, StoreKeeps
        DEF Ended, Gapless, Streamed, StreamTypes, Numbered, MemoryIsWritten, Memory, WrittenTypes, Events
  <2>6. \A b \in written : ~IsEnd(b) => b.id < z.id
        BY <2>3, <2>4, <2>5
  <2>7. IsEnd(z)
        BY <2>4, <2>5, <2>6
  <2> QED
      BY <1>4, <2>1, <2>2, <2>4, <2>6, <2>7 DEF EndIsStored
<1>6. CASE stream' = stream /\ meta' = meta
  <2>1. /\ \E e \in stream : IsEnd(e) /\ \A b \in written : ~IsEnd(b) => b.id < e.id
        /\ left["run"] <= 1 /\ phase["run"] # "idle"
        /\ Unreset \/ (phase["resume"] # "reset" /\ left["resume"] = 0)
        BY <1>2, <1>6 DEF Ended, EndIsStored
  <2>2. \A b \in written' : ~IsEnd(b) => b \in written
    <3>1. CASE Numbers(w) /\ Holds(w)
      <4>1. left[w] = 0 \/ (w = "run" /\ left[w] <= 1)
        <5>1. CASE w = "run"
              BY <2>1, <5>1
        <5>2. CASE w = "resume"
              BY <2>1, <3>1, <5>2 DEF Unreset, Numbers
        <5>3. CASE w = "cancel"
              BY <5>3 DEF Ended, Gapless, Streamed, Numbered, RunComesFirst
        <5> QED
            BY <5>1, <5>2, <5>3 DEF Writers
      <4>2. IsEnd(Upcoming(w))
            BY <3>1, <4>1, NewEvent DEF Ended, Gapless, Streamed, Numbered
      <4> QED
          BY <3>1, <4>2 DEF Holds
    <3>2. CASE written' = written
          BY <3>2
    <3> QED
        BY <3>1, <3>2 DEF Numbers, Moves, Flushed
  <2> QED
      BY <1>4, <1>6, <2>1, <2>2 DEF EndIsStored
<1> QED
    BY <1>5, <1>6 DEF Numbers, Moves, Flushed, store

LEMMA EndedProceed ==
    ASSUME Ended, Gapless', NEW w \in Writers, Alone(w), Numbers(w) \/ Moves(w) \/ Flushed(w)
    PROVE  Ended'
<1>1. UNCHANGED <<at, final, held>> /\ overtaken' = overtaken
      BY ResetStays DEF Numbers, Moves, Flushed, reader, Ended, Gapless, Streamed
<1>2. /\ meta'.status = "none" => meta.status = "none"
      /\ meta.status = "over" => meta'.status = "over"
  <2>1. CASE Store(w)
        BY <2>1 DEF Store, Ended, Gapless, Streamed, StreamTypes
  <2> QED
      BY <2>1 DEF Numbers, Moves, Flushed, store
<1>3. \A r \in Readers : Reading(r)' <=> Reading(r)
      BY <1>1 DEF Reading
<1>4. StatusIsKnown' /\ \A r \in Readers : SeesEnd(r)'
      BY <1>1, <1>2, <1>3 DEF Ended, StatusIsKnown, SeesEnd
<1> QED
    BY <1>4, EndIsStoredStep DEF Ended

(* A reader that looks once more after a terminal status reads its end. *)
LEMMA EndedReads ==
    ASSUME Ended, Gapless', NEW r \in Readers, Reads(r)
    PROVE  Ended'
<1>1. ReadsAlone(r) /\ left' = left
      BY ReadsAloneStep DEF Ended, Reads, Connect, Poll, GiveUp
<1>2. /\ stream' = stream /\ meta' = meta /\ written' = written /\ overtaken' = overtaken
      /\ phase' = phase
      BY <1>1 DEF ReadsAlone, store
<1>3. EndIsStored'
      BY <1>1, <1>2 DEF Ended, EndIsStored, Unreset
<1>4. \A q \in Readers \ {r} : (Reading(q)' <=> Reading(q)) /\ SeesEnd(q)'
      BY <1>1, <1>2 DEF ReadsAlone, Reading, SeesEnd, Ended
<1> USE DEF GoTo, ReaderTypes
<1>5. Reading(r)' => Reading(r) \/ meta.status # "none"
      BY DEF Reads, Connect, Poll, ReadMeta, ReadRange, Recheck, ReadStatus, GiveUp, Fail, Reading,
             Ended, Gapless
<1>6. StatusIsKnown'
      BY <1>2, <1>4, <1>5 DEF Ended, StatusIsKnown
<1>7. SeesEnd(r)'
  <2>0. SeesEnd(r) /\ Follows(r)
        BY DEF Ended, Gapless
  <2>1. CASE Connect(r)
    <3>1. at[r] = "off" /\ at'[r] = "meta" /\ final'[r] = final[r]
          BY <2>1 DEF Connect, Ended, Gapless
    <3>2. ~final[r]
          BY <2>0, <3>1 DEF Follows, ReadsWritten
    <3> QED
        BY <3>1, <3>2 DEF SeesEnd
  <2>2. CASE Fail(r)
    <3>1. at'[r] = "error"
          BY <2>2 DEF Fail, Ended, Gapless
    <3> QED
        BY <3>1 DEF SeesEnd, Reading
  <2>3. CASE at[r] = "meta" /\ GoTo(r, "range") /\ UNCHANGED final
    <3>1. at'[r] = "range" /\ Reading(r) /\ final'[r] = final[r]
          BY <2>3 DEF Ended, Gapless, Reading
    <3> QED
        BY <1>2, <2>0, <3>1 DEF SeesEnd
  <2>4. CASE ReadStatus(r)
    <3>1. at'[r] = "meta" /\ Reading(r) /\ final'[r] = (meta.status # "active")
          BY <2>4 DEF ReadStatus, Ended, Gapless, Reading
    <3>2. meta.status = "none" => overtaken
          BY <3>1 DEF Ended, StatusIsKnown
    <3>3. meta.status \in {"none", "active", "over"}
          BY DEF Ended, Gapless, Streamed, StreamTypes
    <3> QED
        BY <1>2, <3>1, <3>2, <3>3 DEF SeesEnd
  <2>5. CASE ReadRange(r)
    <3>1. /\ at'[r] = "recheck" /\ Reading(r) /\ final'[r] = final[r]
          /\ held'[r] = {e \in stream : e.id > last[r]}
          BY <2>5 DEF ReadRange, Ended, Gapless, Reading
    <3>2. ASSUME final[r], ~overtaken
          PROVE  meta.status = "over" /\ \E e \in held'[r] : IsEnd(e)
      <4>1. meta.status = "over"
            BY <2>0, <3>1, <3>2 DEF SeesEnd
      <4>2. PICK e \in stream : IsEnd(e) /\ \A b \in written : ~IsEnd(b) => b.id < e.id
            BY <3>2, <4>1 DEF Ended, EndIsStored
      <4>3. last[r] = 0 \/ \E b \in written : ~IsEnd(b) /\ last[r] = b.id
            BY <2>0, <3>1 DEF Follows, ReadsWritten
      <4>4. e.id \in Nat /\ 1 <= e.id /\ \A b \in written : b.id \in Nat
            BY DEF Ended, Gapless, Streamed, StreamTypes, Numbered, IdsAreTaken, WrittenTypes, Events
      <4>5. e.id > last[r]
            BY <4>2, <4>3, <4>4
      <4> QED
          BY <3>1, <4>1, <4>2, <4>5
    <3> QED
        BY <1>2, <3>1, <3>2 DEF SeesEnd
  <2>6. CASE Recheck(r) /\ ~Fail(r)
    <3>1. /\ at[r] = "recheck" /\ Reading(r) /\ final'[r] = final[r]
          /\ at'[r] = IF \E e \in held[r] : IsEnd(e) THEN "done"
                      ELSE IF final[r] THEN "stranded" ELSE "status"
          BY <2>6 DEF Recheck, Ended, Gapless, Reading
    <3> QED
        BY <1>2, <2>0, <3>1 DEF SeesEnd
  <2> QED
      BY <2>1, <2>2, <2>3, <2>4, <2>5, <2>6 DEF Reads, Poll, ReadMeta, GiveUp
<1> QED
    BY <1>3, <1>4, <1>6, <1>7 DEF Ended

LEMMA EndedStep ==
    ASSUME Ended, [Next]_vars
    PROVE  Ended'
<1>1. Gapless'
      BY GaplessStep DEF Ended
<1>2. CASE UNCHANGED vars
      BY <1>1, <1>2
      DEF vars, Ended, StatusIsKnown, EndIsStored, SeesEnd, Reading, Unreset
<1> QED
    BY <1>1, <1>2, EndedStarts, EndedProceed, EndedReads, StepShape
    DEF Ended, Gapless, Streamed, Numbered

(* A reader that sees a terminal status finds the end of the stream when it *)
(* looks once more, however pruning, failed flushes and the two statuses of *)
(* a pause and its resume meet; unless a resume has reset the stream under  *)
(* a reader, or before the run had flushed its last event.                  *)
THEOREM EndIsFound == Spec => []NeverStranded
<1>1. Ended => NeverStranded
      BY DEF Ended, SeesEnd, NeverStranded
<1> QED
    BY EndedInit, EndedStep, <1>1, PTL DEF Spec
=============================================================================
