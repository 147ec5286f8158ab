---------------------------- MODULE EngineProofs ----------------------------
(* The shape of the engine's state; that no block is launched twice; and     *)
(* that none is launched before its feeders are settled or cut off, nor sees *)
(* one launched later, nor behind an edge that was not taken. For any DAG,   *)
(* without even its acyclicity.                                              *)
EXTENDS Engine, TLAPS

\* The neighbourhood of a node lies in the graph.
LEMMA Shapes == ASSUME NEW n \in Nodes
                PROVE  /\ Out(n) \subseteq Edges /\ In(n) \subseteq Edges
                       /\ Sources(n) \subseteq Nodes
                       /\ \A E \in SUBSET Edges : Targets(E) \subseteq Nodes
BY EngineAssumption DEF Out, In, Sources, Targets

\* A cascade consists of edges.
LEMMA CascadeShape == \A D, inc, act : Cascade(D, inc, act) \subseteq Edges
BY DEF Cascade

\* The cascade contains what it starts from, is closed, and is in every
\* closed set that contains what it starts from.
LEMMA CascadeExtends ==
    ASSUME NEW D \in SUBSET Edges, NEW inc, NEW act
    PROVE  D \subseteq Cascade(D, inc, act)
BY DEF Cascade, EdgesOff

\* A cascade lies in every set closed under it.
LEMMA CascadeLeast ==
    ASSUME NEW D, NEW inc, NEW act, NEW S \in SUBSET Edges,
           D \subseteq S, Cascaded(S, inc, act)
    PROVE  Cascade(D, inc, act) \subseteq S
<1> DEFINE open == {m \in Nodes \ act : In(m) # {} /\ ~ Out(m) \subseteq D}
           M == {m \in open : Out(m) \subseteq S}
           live(m) == {e \in In(m) : e.src \in inc[m]}
<1>1. EdgesOff(M, D) \subseteq S
  BY DEF EdgesOff, Out
<1>2. ASSUME NEW m \in Nodes \ act, live(m) # {}, live(m) \subseteq EdgesOff(M, D),
             NEW f \in Out(m)
      PROVE  f \in EdgesOff(M, D)
  <2>1. Out(m) \subseteq S
    BY <1>1, <1>2 DEF Cascaded
  <2>2. CASE Out(m) \subseteq D
    BY <1>2, <2>2 DEF EdgesOff, Out
  <2>3. CASE ~ Out(m) \subseteq D
    <3>1. m \in M
      BY <1>2, <2>1, <2>3
    <3> QED
      BY <1>2, <3>1 DEF EdgesOff, Out
  <2> QED
    BY <2>2, <2>3
<1>3. Cascaded(EdgesOff(M, D), inc, act)
  BY <1>2 DEF Cascaded
<1>4. M \in SUBSET open
  OBVIOUS
<1> QED
  BY <1>1, <1>3, <1>4 DEF Cascade

\* A cascade is closed.
LEMMA CascadeClosed ==
    ASSUME NEW D, NEW inc, NEW act
    PROVE  Cascaded(Cascade(D, inc, act), inc, act)
<1> DEFINE open == {m \in Nodes \ act : In(m) # {} /\ ~ Out(m) \subseteq D}
           C == Cascade(D, inc, act)
           live(m) == {e \in In(m) : e.src \in inc[m]}
<1>1. ASSUME NEW m \in Nodes \ act, live(m) # {}, live(m) \subseteq C,
             NEW f \in Out(m)
      PROVE  f \in C
  <2>1. ASSUME NEW M \in SUBSET open, Cascaded(EdgesOff(M, D), inc, act)
        PROVE  f \in EdgesOff(M, D)
    <3>1. C \subseteq EdgesOff(M, D)
      BY <2>1 DEF Cascade
    <3>2. live(m) \subseteq EdgesOff(M, D)
      BY <1>1, <3>1
    <3> QED
      BY <1>1, <2>1, <3>2 DEF Cascaded
  <2>2. f \in Edges
    BY <1>1 DEF Out
  <2> QED
    BY <2>1, <2>2 DEF Cascade
<1> QED
  BY <1>1 DEF Cascaded
-----------------------------------------------------------------------------
\* The initial state is well-typed.
LEMMA TypeInit == ASSUME Init PROVE TypeOK
BY EngineAssumption, Shapes DEF Init, TypeOK, PC

\* Processing the edges of a node keeps the types.
LEMMA TypePropagate ==
    ASSUME TypeOK, NEW n \in Nodes, NEW r, Propagate(n, r)
    PROVE  /\ incoming' \in [Nodes -> SUBSET Nodes]
           /\ deactivated' \in SUBSET Edges /\ activated' \in SUBSET Nodes
           /\ ready' \in SUBSET Nodes /\ settled' \in SUBSET Nodes /\ taken' \in SUBSET Edges
<1> DEFINE on   == {e \in Out(n) : Activates(e, r)}
           off  == Out(n) \ on
           act  == activated \cup Targets(on)
           inc  == [m \in Nodes |-> IF m \in Targets(on) THEN incoming[m] \ {n} ELSE incoming[m]]
           dead == Cascade(deactivated \cup off, incoming, act)
           next == {m \in Targets(on) \cup Released(off, act) : IsReady(m, inc, dead)}
<1>1. /\ activated' = act /\ incoming' = inc /\ deactivated' = dead
      /\ ready' = ready \cup next /\ settled' = settled \cup {n} /\ taken' = taken \cup on
  BY DEF Propagate
<1>2. on \subseteq Edges /\ off \subseteq Edges
  BY Shapes
<1>3. Targets(on) \subseteq Nodes /\ Targets(off) \subseteq Nodes
  BY <1>2, Shapes
<1>4. act \subseteq Nodes
  BY <1>3 DEF TypeOK
<1>5. dead \subseteq Edges
  BY CascadeShape
<1>6. inc \in [Nodes -> SUBSET Nodes]
  BY DEF TypeOK
<1>7. next \subseteq Nodes
  BY <1>3 DEF Released
<1> QED
  BY <1>1, <1>2, <1>4, <1>5, <1>6, <1>7 DEF TypeOK

\* Every step keeps the types.
LEMMA TypeStep == ASSUME TypeOK, [Next]_vars PROVE TypeOK'
<1> USE DEF edgeVars, flagVars, historyVars
<1>1. CASE Dispatch
  BY <1>1 DEF Dispatch, TypeOK, PC
<1>2. CASE LeaveLoop
  BY <1>2 DEF LeaveLoop, TypeOK, PC
<1>3. CASE Drain
  BY <1>3 DEF Drain, TypeOK, PC
<1>4. CASE Return
  BY <1>4 DEF Return, TypeOK, PC, Stopping
<1>5. CASE Cancel
  BY <1>5 DEF Cancel, TypeOK, PC
<1>6. ASSUME NEW n \in Nodes, Finish(n) PROVE TypeOK'
  <2>1. CASE Throw(n)
    BY <2>1 DEF Throw, Settles, TypeOK, PC
  <2>2. CASE LateCompletion(n)
    BY <2>2 DEF LateCompletion, Settles, TypeOK, PC
  <2>3. CASE SkipWorkflow(n)
    BY <2>3 DEF SkipWorkflow, Settles, TypeOK, PC
  <2>4. CASE Pause(n)
    BY <2>4 DEF Pause, Settles, TypeOK, PC
  <2>5. CASE Respond(n)
    BY <2>5 DEF Respond, Settles, TypeOK, PC
  <2>6. ASSUME NEW r \in Results(n), Complete(n, r) PROVE TypeOK'
    <3>1. CASE n = StopAfter
      BY <2>6, <3>1 DEF Complete, Settles, TypeOK, PC
    <3>2. CASE n # StopAfter
      <4>1. Propagate(n, r)
        BY <2>6, <3>2 DEF Complete
      <4>2. QED
        BY <2>6, <4>1, TypePropagate DEF Complete, Settles, TypeOK, PC
    <3> QED
      BY <3>1, <3>2
  <2> QED
    BY <1>6, <2>1, <2>2, <2>3, <2>4, <2>5, <2>6 DEF Finish
<1>7. ASSUME NEW x \in Nodes, Resume(x) PROVE TypeOK'
  <2>1. Targets(Out(x)) \subseteq Nodes
    BY Shapes
  <2>2. /\ incoming' \in [Nodes -> SUBSET Nodes] /\ activated' \in SUBSET Nodes
        /\ ready' \in SUBSET Nodes
    BY <1>7, <2>1 DEF Resume, Detach, TypeOK
  <2> QED
    BY <1>7, <2>2, Shapes DEF Resume, Restart, TypeOK, PC
<1>8. CASE UNCHANGED vars
  BY <1>8 DEF vars, TypeOK
<1> QED
  BY <1>1, <1>2, <1>3, <1>4, <1>5, <1>6, <1>7, <1>8 DEF Next, Loop

\* The engine's collections keep to the DAG in every workflow.
THEOREM EngineTypeCorrect == Spec => []TypeOK
<1>1. Init => TypeOK
  BY TypeInit
<1>2. TypeOK /\ [Next]_vars => TypeOK'
  BY TypeStep
<1> QED
  BY <1>1, <1>2, PTL DEF Spec

-----------------------------------------------------------------------------
(* The inductive invariant.                                                 *)

\* m was cut off: every edge into it is deactivated, and it has not run.
CutOff(m) ==
    /\ m # Start /\ m \notin activated /\ starts[m] = 0
    /\ In(m) # {} /\ In(m) \subseteq deactivated

\* What the edge manager knows: a node that no edge has activated still has
\* all its feeders; a deactivated edge leaves a settled or a cut-off node; an
\* unsettled feeder is still among the incoming ones.
EdgesInv ==
    /\ \A m \in Nodes \ activated : incoming[m] = Sources(m)
    /\ \A e \in deactivated : e.src \in settled \/ CutOff(e.src)
    /\ \A e \in Edges : e.src \in settled \/ e.src \in incoming[e.dst]

\* What was launched, or is about to be, was activated, and has its feeders
\* behind it.
LaunchInv ==
    /\ \A m \in Nodes : starts[m] > 0 \/ m \in ready => m = Start \/ m \in activated
    /\ \A e \in Edges : starts[e.dst] > 0 \/ e.dst \in ready
                            => e.src \in settled \/ e \in deactivated

\* A node is queued only before its one launch; it is settled once, from its
\* completion or from its resume.
OnceInv ==
    /\ \A m \in Nodes : starts[m] <= 1
    /\ \A m \in ready \cup running : m \notin settled /\ m \notin paused \cup waiting
    /\ \A m \in ready : starts[m] = 0
    /\ \A m \in running \cup settled \cup paused \cup waiting : starts[m] > 0
    /\ \A m \in paused \cup waiting : m \notin settled
    /\ pc = "done" => running = {}

IInv == TypeOK /\ EdgesInv /\ LaunchInv /\ OnceInv

-----------------------------------------------------------------------------
(* The handler of a completion that propagates.                             *)

\* Processing the edges of a node keeps what is said of them.
LEMMA PropagateEdges ==
    ASSUME IInv, NEW n \in running, NEW r, Propagate(n, r), UNCHANGED starts
    PROVE  EdgesInv'
<1> DEFINE on   == {e \in Out(n) : Activates(e, r)}
           off  == Out(n) \ on
           act  == activated \cup Targets(on)
           inc  == [m \in Nodes |-> IF m \in Targets(on) THEN incoming[m] \ {n} ELSE incoming[m]]
           D    == deactivated \cup off
           C    == Cascade(D, incoming, act)
<1>1. /\ activated' = act /\ incoming' = inc /\ deactivated' = C /\ settled' = settled \cup {n}
  BY DEF Propagate
<1>2. n \in Nodes /\ n \notin settled /\ starts[n] > 0 /\ starts[n] # 0
  BY DEF IInv, TypeOK, OnceInv
<1>3. on \subseteq Edges /\ off \subseteq Edges /\ D \subseteq Edges /\ C \subseteq Edges
  BY <1>2, Shapes, CascadeShape DEF IInv, TypeOK
<1>4. D \subseteq C
  BY <1>3, CascadeExtends
<1>5. \A e \in on \cup off : e.src = n
  BY DEF Out
<1>6. ASSUME NEW m \in Nodes \ act PROVE inc[m] = Sources(m)
  BY <1>6 DEF IInv, EdgesInv
<1>7. ASSUME NEW e \in Edges, e.src \notin settled \cup {n} PROVE e.src \in inc[e.dst]
  <2>1. e.dst \in Nodes
    BY EngineAssumption
  <2>2. e.src \in incoming[e.dst]
    BY <1>7 DEF IInv, EdgesInv
  <2> QED
    BY <1>7, <2>1, <2>2
<1> DEFINE Off(m) == m # Start /\ m \notin act /\ starts[m] = 0 /\ In(m) # {} /\ In(m) \subseteq C
           S == {e \in C : e.src \in settled \cup {n} \/ Off(e.src)}
<1>8. D \subseteq S
  <2>1. off \subseteq S
    BY <1>4, <1>5
  <2>2. ASSUME NEW e \in deactivated, e.src \notin settled PROVE Off(e.src)
    <3>1. CutOff(e.src)
      BY <2>2 DEF IInv, EdgesInv
    <3>2. e.src \notin Targets(on)
      <4>1. SUFFICES ASSUME NEW f \in on, f.dst = e.src PROVE FALSE
        BY DEF Targets
      <4>2. f \in deactivated
        BY <1>3, <3>1, <4>1 DEF CutOff, In
      <4>3. CutOff(n)
        BY <1>2, <1>5, <4>2 DEF IInv, EdgesInv
      <4> QED
        BY <1>2, <4>3 DEF CutOff
    <3> QED
      BY <1>4, <3>1, <3>2 DEF CutOff
  <2> QED
    BY <1>4, <2>1, <2>2
<1>9. Cascaded(S, incoming, act)
  <2> DEFINE live(m) == {e \in In(m) : e.src \in incoming[m]}
  <2>1. SUFFICES ASSUME NEW m \in Nodes \ act, live(m) # {}, live(m) \subseteq S
                 PROVE  Out(m) \subseteq S
    BY DEF Cascaded
  <2>2. live(m) = In(m)
    BY <2>1 DEF IInv, EdgesInv, Sources
  <2>3. In(m) # {} /\ In(m) \subseteq C
    BY <2>1, <2>2
  <2>4. Out(m) \subseteq C
    BY <2>1, <2>2, <2>3, CascadeClosed DEF Cascaded
  <2>5. m # Start
    BY <2>3, EngineAssumption DEF In
  <2>6. starts[m] = 0
    BY <2>1, <2>5 DEF IInv, LaunchInv, TypeOK
  <2>7. Off(m)
    BY <2>1, <2>3, <2>5, <2>6
  <2> QED
    BY <2>4, <2>7 DEF Out
<1>10. C \subseteq S
  <2>1. S \in SUBSET Edges
    BY <1>3
  <2> HIDE DEF S, D, act
  <2> QED
    BY <1>8, <1>9, <2>1, CascadeLeast
<1>11. ASSUME NEW e \in C PROVE e.src \in settled \cup {n} \/ CutOff(e.src)'
  BY <1>1, <1>10 DEF CutOff, In
<1> QED
  BY <1>1, <1>6, <1>7, <1>11 DEF EdgesInv

\* What a completion queues has never been launched, and waits for nothing.
LEMMA PropagateReady ==
    ASSUME IInv, NEW n \in running, NEW r, Propagate(n, r)
    PROVE  /\ deactivated \subseteq deactivated'
           /\ activated \subseteq activated'
           /\ ready \subseteq ready'
           /\ settled' = settled \cup {n}
           /\ \A m \in ready' \ ready :
                  /\ m \in activated' /\ m \in Nodes
                  /\ starts[m] = 0
                  /\ \A e \in In(m) : e.src \in settled' \/ e \in deactivated'
<1> DEFINE on   == {e \in Out(n) : Activates(e, r)}
           off  == Out(n) \ on
           act  == activated \cup Targets(on)
           inc  == [m \in Nodes |-> IF m \in Targets(on) THEN incoming[m] \ {n} ELSE incoming[m]]
           D    == deactivated \cup off
           C    == Cascade(D, incoming, act)
           next == {m \in Targets(on) \cup Released(off, act) : IsReady(m, inc, C)}
<1>1. /\ activated' = act /\ deactivated' = C /\ settled' = settled \cup {n}
      /\ ready' = ready \cup next
  BY DEF Propagate
<1>2. n \in Nodes /\ n \notin settled /\ starts[n] # 0
  BY DEF IInv, TypeOK, OnceInv
<1>3. D \subseteq C
  BY <1>2, Shapes, CascadeExtends DEF IInv, TypeOK
<1>4. ASSUME NEW m \in next
      PROVE  /\ m \in act /\ m \in Nodes /\ starts[m] = 0
             /\ \A e \in In(m) : e.src \in settled \cup {n} \/ e \in C
  <2>1. m \in act /\ m \in Targets(Out(n))
    BY DEF Released, Targets
  <2>2. m \in Nodes
    BY <1>2, <2>1, Shapes
  <2>3. PICK f \in Out(n) : f.dst = m
    BY <2>1 DEF Targets
  <2>4. f \in Edges /\ f.src = n
    BY DEF Out
  <2>5. starts[m] = 0
    <3>1. SUFFICES ASSUME starts[m] > 0 PROVE FALSE
      BY <2>2 DEF IInv, TypeOK
    <3>2. f \in deactivated
      BY <1>2, <2>3, <2>4, <3>1 DEF IInv, LaunchInv
    <3>3. CutOff(n)
      BY <1>2, <2>4, <3>2 DEF IInv, EdgesInv
    <3> QED
      BY <1>2, <3>3 DEF CutOff
  <2>6. ASSUME NEW e \in In(m), e.src \notin settled \cup {n} PROVE e \in C
    <3>1. e \in Edges /\ e.dst = m
      BY DEF In
    <3>2. e.src \in incoming[m]
      BY <2>6, <3>1 DEF IInv, EdgesInv
    <3>3. e.src \in inc[m]
      BY <2>2, <2>6, <3>2
    <3> QED
      BY <3>3 DEF IsReady
  <2> QED
    BY <2>1, <2>2, <2>5, <2>6
<1> QED
  BY <1>1, <1>3, <1>4

-----------------------------------------------------------------------------
(* Every step keeps the invariant.                                          *)

\* Where nothing is propagated, launched or resumed, the edges stay as they are.
LEMMA EdgesFrame ==
    ASSUME EdgesInv, UNCHANGED <<edgeVars, settled, starts>>
    PROVE  EdgesInv'
BY DEF EdgesInv, CutOff, edgeVars

\* A launch keeps the edge invariants.
LEMMA DispatchKeeps == ASSUME IInv, Dispatch PROVE EdgesInv' /\ LaunchInv' /\ OnceInv'
<1> USE DEF Dispatch, edgeVars
<1>1. \A m \in Nodes : /\ m \in ready => starts[m] = 0
                       /\ starts'[m] > 0 => starts[m] > 0 \/ m \in ready
                       /\ starts'[m] = starts[m] \/ (starts'[m] = 1 /\ m \in ready)
  BY DEF IInv, TypeOK, OnceInv
<1>2. EdgesInv'
  <2>1. ASSUME NEW m \in Nodes, CutOff(m) PROVE CutOff(m)'
    <3>1. m \notin ready
      BY <2>1 DEF IInv, LaunchInv, CutOff
    <3> QED
      BY <1>1, <2>1, <3>1 DEF CutOff, IInv, TypeOK
  <2>2. \A e \in deactivated : e.src \in Nodes
    BY EngineAssumption DEF IInv, TypeOK
  <2> QED
    BY <2>1, <2>2 DEF IInv, EdgesInv
<1>3. LaunchInv'
  <2>1. \A e \in Edges : e.dst \in Nodes
    BY EngineAssumption
  <2> QED
    BY <1>1, <2>1 DEF IInv, LaunchInv
<1>4. \A m \in running' : m \in running \/ (m \in ready /\ starts'[m] = 1)
  <2>1. ASSUME NEW m \in ready \ executed PROVE starts'[m] = 1
    <3>1. m \in Nodes /\ starts[m] = 0 /\ starts[m] \in Nat
      BY DEF IInv, TypeOK, OnceInv
    <3> QED
      BY <3>1
  <2> QED
    BY <2>1
<1>5. \A m \in Nodes : starts'[m] <= 1 /\ (starts[m] > 0 => starts'[m] > 0)
  <2>1. \A m \in Nodes : starts[m] <= 1
    BY DEF IInv, OnceInv
  <2> QED
    BY <1>1, <2>1
<1>6. OnceInv'
  <2>1. ready' = {} /\ pc' # "done" /\ UNCHANGED <<settled, paused, waiting>>
    OBVIOUS
  <2>2. \A m \in running' : m \notin settled /\ m \notin paused \cup waiting
    BY <1>4 DEF IInv, OnceInv
  <2>3. running' \cup settled \cup paused \cup waiting \subseteq Nodes
    BY EngineAssumption DEF IInv, TypeOK
  <2>4. \A m \in running' \cup settled \cup paused \cup waiting : starts'[m] > 0
    <3>1. ASSUME NEW m \in running' PROVE starts'[m] > 0
      BY <1>4, <1>5, <2>3 DEF IInv, OnceInv
    <3>2. ASSUME NEW m \in settled \cup paused \cup waiting PROVE starts'[m] > 0
      BY <1>5, <2>3 DEF IInv, OnceInv
    <3> QED
      BY <3>1, <3>2
  <2>5. \A m \in paused \cup waiting : m \notin settled
    BY DEF IInv, OnceInv
  <2> HIDE DEF Dispatch
  <2> QED
    BY <1>5, <2>1, <2>2, <2>4, <2>5 DEF OnceInv
<1> QED
  BY <1>2, <1>3, <1>6

\* The steps of the main loop keep them.
LEMMA LoopKeeps ==
    ASSUME IInv, LeaveLoop \/ Drain \/ Return \/ Cancel
    PROVE  EdgesInv' /\ LaunchInv' /\ OnceInv'
<1>1. UNCHANGED <<edgeVars, settled, starts, ready, paused>>
  BY DEF LeaveLoop, Drain, Return, Cancel, historyVars, edgeVars
<1>2. EdgesInv'
  BY <1>1, EdgesFrame DEF IInv
<1>3. LaunchInv'
  BY <1>1 DEF IInv, LaunchInv, edgeVars
<1>4. CASE LeaveLoop \/ Drain \/ Cancel
  <2>1. UNCHANGED <<running, waiting>> /\ (pc' = "done" => pc = "done")
    BY <1>4 DEF LeaveLoop, Drain, Cancel, IInv, TypeOK, PC
  <2> QED
    BY <1>1, <1>2, <1>3, <2>1 DEF IInv, OnceInv
<1>5. CASE Return
  <2>1. running' = {} /\ waiting' \subseteq waiting \cup paused
    BY <1>5 DEF Return
  <2>2. OnceInv'
    BY <1>1, <2>1 DEF IInv, OnceInv
  <2> QED
    BY <1>2, <1>3, <2>2
<1> QED
  BY <1>4, <1>5

\* A completion keeps them.
LEMMA FinishKeeps ==
    ASSUME IInv, NEW n \in Nodes, Finish(n)
    PROVE  EdgesInv' /\ LaunchInv' /\ OnceInv'
<1>1. /\ n \in running /\ running' = running \ {n}
      /\ UNCHANGED <<starts, waiting>>
      /\ pc' = "done" => pc = "done"
  BY DEF Finish, Throw, LateCompletion, SkipWorkflow, Pause, Respond, Complete, Settles
<1>2. ASSUME UNCHANGED <<edgeVars, settled>>, ready' \subseteq ready, paused' \subseteq paused \cup {n}
      PROVE  EdgesInv' /\ LaunchInv' /\ OnceInv'
  <2>1. EdgesInv'
    BY <1>1, <1>2, EdgesFrame DEF IInv, edgeVars
  <2>2. LaunchInv'
    BY <1>1, <1>2 DEF IInv, LaunchInv, edgeVars
  <2>3. OnceInv'
    BY <1>1, <1>2 DEF IInv, TypeOK, OnceInv
  <2> QED
    BY <2>1, <2>2, <2>3
<1>3. CASE Throw(n) \/ LateCompletion(n) \/ SkipWorkflow(n) \/ Pause(n) \/ Respond(n)
  <2>1. UNCHANGED <<edgeVars, settled>> /\ ready' \subseteq ready /\ paused' \subseteq paused \cup {n}
    BY <1>3 DEF Throw, LateCompletion, SkipWorkflow, Pause, Respond, edgeVars
  <2> QED
    BY <1>2, <2>1
<1>4. ASSUME NEW r \in Results(n), Complete(n, r)
      PROVE  EdgesInv' /\ LaunchInv' /\ OnceInv'
  <2>1. CASE n = StopAfter
    <3>1. UNCHANGED <<edgeVars, settled, ready, paused>>
      BY <1>4, <2>1 DEF Complete, edgeVars
    <3> QED
      BY <1>2, <3>1
  <2>2. CASE n # StopAfter
    <3>1. Propagate(n, r) /\ paused' = paused
      BY <1>4, <2>2 DEF Complete
    <3>2. EdgesInv'
      BY <1>1, <3>1, PropagateEdges
    <3>3. /\ deactivated \subseteq deactivated' /\ activated \subseteq activated'
          /\ ready \subseteq ready' /\ settled' = settled \cup {n}
          /\ \A m \in ready' \ ready :
                 /\ m \in activated' /\ m \in Nodes
                 /\ starts[m] = 0
                 /\ \A e \in In(m) : e.src \in settled' \/ e \in deactivated'
      BY <1>1, <3>1, PropagateReady
    <3>4. LaunchInv'
      <4>1. ASSUME NEW m \in Nodes, starts'[m] > 0 \/ m \in ready'
            PROVE  m = Start \/ m \in activated'
        BY <1>1, <3>3, <4>1 DEF IInv, LaunchInv
      <4>2. ASSUME NEW e \in Edges, starts'[e.dst] > 0 \/ e.dst \in ready'
            PROVE  e.src \in settled' \/ e \in deactivated'
        <5>1. CASE e.dst \in ready' \ ready
          BY <3>3, <5>1 DEF In
        <5>2. CASE e.dst \notin ready' \ ready
          BY <1>1, <3>3, <4>2, <5>2 DEF IInv, LaunchInv
        <5> QED
          BY <5>1, <5>2
      <4> QED
        BY <4>1, <4>2 DEF LaunchInv
    <3>5. OnceInv'
      <4>1. ASSUME NEW m \in ready' \cup running'
            PROVE  m \notin settled' /\ m \notin paused' \cup waiting'
        <5>1. CASE m \in ready' \ ready
          <6>1. starts[m] = 0 /\ starts[n] > 0 /\ m \in Nodes
            BY <1>1, <3>3, <5>1 DEF IInv, OnceInv
          <6>2. m \notin settled /\ m \notin paused \cup waiting /\ m # n
            BY <6>1 DEF IInv, OnceInv
          <6> QED
            BY <1>1, <3>1, <3>3, <6>2
        <5>2. CASE m \notin ready' \ ready
          <6>1. m # n
            BY <1>1, <4>1, <5>2 DEF IInv, OnceInv
          <6> QED
            BY <1>1, <3>1, <3>3, <4>1, <5>2, <6>1 DEF IInv, OnceInv
        <5> QED
          BY <5>1, <5>2
      <4>2. n \notin paused \cup waiting /\ starts[n] > 0
        BY <1>1 DEF IInv, OnceInv
      <4> QED
        BY <1>1, <3>1, <3>3, <4>1, <4>2 DEF IInv, OnceInv
    <3> QED
      BY <3>2, <3>4, <3>5
  <2> QED
    BY <2>1, <2>2
<1> QED
  BY <1>3, <1>4 DEF Finish

\* A resume keeps them.
LEMMA ResumeKeeps ==
    ASSUME IInv, NEW p \in Nodes, Resume(p)
    PROVE  EdgesInv' /\ LaunchInv' /\ OnceInv'
<1>1. /\ pc = "done" /\ p \in waiting /\ pc' = "queueing" /\ paused' = {}
      /\ waiting' = waiting \ {p} /\ settled' = settled \cup {p}
      /\ UNCHANGED <<deactivated, running, starts>>
  BY DEF Resume, Restart
<1>2. /\ incoming' = [m \in Nodes |-> incoming[m] \ {p}]
      /\ activated' = activated \cup {m \in Nodes : p \in incoming[m]}
      /\ ready' = {m \in Targets(Out(p)) : IsReady(m, incoming', deactivated)}
  BY DEF Resume, Detach
<1>3. running = {} /\ starts[p] > 0 /\ starts[p] # 0 /\ p \notin settled
  BY <1>1 DEF IInv, OnceInv
<1>4. ASSUME NEW e \in Edges, e.src = p
      PROVE  /\ p \in incoming[e.dst] /\ e.dst \in Nodes
             /\ e \notin deactivated /\ starts[e.dst] = 0
  <2>1. e.dst \in Nodes
    BY EngineAssumption
  <2>2. p \in incoming[e.dst]
    BY <1>3, <1>4 DEF IInv, EdgesInv
  <2>3. e \notin deactivated
    BY <1>3, <1>4 DEF IInv, EdgesInv, CutOff
  <2>4. starts[e.dst] = 0
    BY <1>3, <1>4, <2>1, <2>3 DEF IInv, LaunchInv, TypeOK
  <2> QED
    BY <2>1, <2>2, <2>3, <2>4
<1>5. ASSUME NEW m \in ready'
      PROVE  /\ m \in Nodes /\ m \in activated' /\ starts[m] = 0
             /\ \A e \in In(m) : e.src \in settled' \/ e \in deactivated
  <2>1. PICK f \in Edges : f.src = p /\ f.dst = m
    BY <1>2 DEF Targets, Out
  <2>2. m \in Nodes /\ m \in activated' /\ starts[m] = 0
    BY <1>2, <1>4, <2>1
  <2>3. ASSUME NEW e \in In(m), e.src \notin settled' PROVE e \in deactivated
    <3>1. e \in Edges /\ e.dst = m
      BY DEF In
    <3>2. e.src \in incoming'[m]
      BY <1>1, <1>2, <2>2, <2>3, <3>1 DEF IInv, EdgesInv
    <3> QED
      BY <1>2, <3>2 DEF IsReady
  <2> QED
    BY <2>2, <2>3
<1>6. EdgesInv'
  <2>1. ASSUME NEW m \in Nodes \ activated' PROVE incoming'[m] = Sources(m)
    BY <1>2 DEF IInv, EdgesInv
  <2>2. ASSUME NEW e \in deactivated PROVE e.src \in settled' \/ CutOff(e.src)'
    <3>1. CASE e.src \in settled
      BY <1>1, <3>1
    <3>2. CASE CutOff(e.src)
      <4>1. e.src \notin activated'
        <5>1. SUFFICES ASSUME e.src \in Nodes, p \in incoming[e.src] PROVE FALSE
          BY <1>2, <3>2 DEF CutOff
        <5>2. p \in Sources(e.src)
          BY <3>2, <5>1 DEF IInv, EdgesInv, CutOff
        <5>3. PICK f \in In(e.src) : f.src = p
          BY <5>2 DEF Sources
        <5> QED
          BY <1>4, <3>2, <5>3 DEF CutOff, In
      <4> QED
        BY <1>1, <3>2, <4>1 DEF CutOff
    <3> QED
      BY <3>1, <3>2 DEF IInv, EdgesInv
  <2>3. ASSUME NEW e \in Edges, e.src \notin settled' PROVE e.src \in incoming'[e.dst]
    BY <1>1, <1>2, <2>3, EngineAssumption DEF IInv, EdgesInv
  <2> QED
    BY <1>1, <2>1, <2>2, <2>3 DEF EdgesInv
<1>7. LaunchInv'
  <2>1. ASSUME NEW m \in Nodes, starts'[m] > 0 \/ m \in ready'
        PROVE  m = Start \/ m \in activated'
    BY <1>1, <1>2, <1>5, <2>1 DEF IInv, LaunchInv
  <2>2. ASSUME NEW e \in Edges, starts'[e.dst] > 0 \/ e.dst \in ready'
        PROVE  e.src \in settled' \/ e \in deactivated'
    <3>1. CASE e.dst \in ready'
      BY <1>1, <1>5, <3>1 DEF In
    <3>2. CASE starts'[e.dst] > 0
      BY <1>1, <3>2 DEF IInv, LaunchInv
    <3> QED
      BY <2>2, <3>1, <3>2
  <2> QED
    BY <2>1, <2>2 DEF LaunchInv
<1>8. OnceInv'
  <2>1. ASSUME NEW m \in ready' PROVE m \notin settled' /\ m \notin waiting
    <3>1. starts[m] = 0
      BY <1>5
    <3> QED
      BY <1>1, <1>3, <3>1 DEF IInv, OnceInv
  <2> QED
    BY <1>1, <1>3, <1>5, <2>1 DEF IInv, OnceInv
<1> QED
  BY <1>6, <1>7, <1>8

\* The invariant holds initially.
LEMMA InvInit == Init => IInv
<1> SUFFICES ASSUME Init PROVE IInv
  OBVIOUS
<1>1. TypeOK
  BY TypeInit
<1>2. EdgesInv
  BY EngineAssumption DEF Init, EdgesInv, Sources, In
<1>3. LaunchInv
  BY EngineAssumption DEF Init, LaunchInv
<1>4. OnceInv
  BY EngineAssumption DEF Init, OnceInv
<1> QED
  BY <1>1, <1>2, <1>3, <1>4 DEF IInv

\* Every step keeps the invariant.
LEMMA InvStep == IInv /\ [Next]_vars => IInv'
<1> SUFFICES ASSUME IInv, [Next]_vars PROVE IInv'
  OBVIOUS
<1>1. TypeOK'
  BY TypeStep DEF IInv
<1>2. CASE UNCHANGED vars
  <2>1. UNCHANGED <<edgeVars, settled, starts, ready, running, paused, waiting, pc>>
    BY <1>2 DEF vars, historyVars
  <2> QED
    BY <1>1, <2>1, EdgesFrame DEF IInv, LaunchInv, OnceInv, edgeVars
<1>3. CASE Next
  BY <1>1, <1>3, DispatchKeeps, LoopKeeps, FinishKeeps, ResumeKeeps DEF Next, Loop, IInv
<1> QED
  BY <1>2, <1>3

\* The invariant holds of every behaviour.
LEMMA Invariance == Spec => []IInv
BY InvInit, InvStep, PTL DEF Spec

-----------------------------------------------------------------------------
\* No block of any workflow is launched twice in an execution: across joins,
\* deactivations, pauses and resumes.
THEOREM LaunchedOnce == Spec => []RunsOnce
<1>1. IInv => RunsOnce
  BY DEF IInv, OnceInv, RunsOnce
<1> QED
  BY <1>1, Invariance, PTL

\* No block of any workflow is launched while one of its feeders is neither
\* settled nor cut off.
THEOREM LaunchedBehindFeeders == Spec => []FeedersDone
<1>1. IInv => FeedersDone
  BY DEF IInv, LaunchInv, FeedersDone
<1> QED
  BY <1>1, Invariance, PTL

\* No block of any workflow is launched after a block it feeds.
THEOREM NeverBehind == Spec => NoLateFeeder
<1>1. IInv /\ [Next]_vars
        => [\A e \in Edges : starts[e.dst] > 0 /\ starts[e.src] = 0 => starts'[e.src] = 0]_vars
  <2> SUFFICES ASSUME IInv, Next, NEW e \in Edges, starts[e.dst] > 0, starts[e.src] = 0
               PROVE  starts'[e.src] = 0
    OBVIOUS
  <2>1. e.src \in Nodes /\ e.dst # Start
    BY EngineAssumption
  <2>2. e.src \notin settled
    BY DEF IInv, OnceInv
  <2>3. e \in deactivated
    BY <2>2 DEF IInv, LaunchInv
  <2>4. CutOff(e.src)
    BY <2>2, <2>3 DEF IInv, EdgesInv
  <2>5. e.src \notin ready
    BY <2>1, <2>4 DEF IInv, LaunchInv, CutOff
  <2>6. CASE Dispatch
    BY <2>1, <2>5, <2>6 DEF Dispatch, IInv, TypeOK
  <2>7. CASE ~ Dispatch
    <3>1. UNCHANGED starts
      BY <2>7 DEF Next, Loop, LeaveLoop, Drain, Return, Cancel, historyVars, Finish, Throw,
                  LateCompletion, SkipWorkflow, Pause, Respond, Complete, Settles, Resume, Restart
    <3> QED
      BY <3>1
  <2> QED
    BY <2>6, <2>7
<1> QED
  BY <1>1, Invariance, PTL DEF Spec, NoLateFeeder

-----------------------------------------------------------------------------
\* The lock of the answer is only ever taken together with the stop, which is
\* why a handler that runs after it does nothing.
LockInv == locked \in BOOLEAN /\ stopped \in BOOLEAN /\ (locked => stopped)

\* Every step keeps the lock of the answer.
LEMMA LockStep == LockInv /\ [Next]_vars => LockInv'
<1> SUFFICES ASSUME LockInv, [Next]_vars PROVE LockInv'
  OBVIOUS
<1> USE DEF LockInv, flagVars
<1>1. CASE UNCHANGED vars
  BY <1>1 DEF vars
<1>2. CASE Loop \/ Cancel
  BY <1>2 DEF Loop, Dispatch, LeaveLoop, Drain, Return, Cancel
<1>3. ASSUME NEW n \in Nodes, Finish(n) PROVE LockInv'
  <2>1. CASE \E r \in Results(n) : Complete(n, r)
    <3>1. locked' = locked /\ stopped' = (stopped \/ n = StopAfter)
      BY <2>1 DEF Complete
    <3> QED
      BY <3>1
  <2>2. CASE Respond(n)
    BY <2>2 DEF Respond
  <2>3. CASE Throw(n) \/ LateCompletion(n) \/ SkipWorkflow(n) \/ Pause(n)
    <3>1. UNCHANGED <<locked, stopped>>
      BY <2>3 DEF Throw, LateCompletion, SkipWorkflow, Pause
    <3> QED
      BY <3>1
  <2> QED
    BY <1>3, <2>1, <2>2, <2>3 DEF Finish
<1>4. ASSUME NEW p \in Nodes, Resume(p) PROVE LockInv'
  BY <1>4 DEF Resume, Restart
<1> QED
  BY <1>1, <1>2, <1>3, <1>4 DEF Next

\* In every workflow the first Response block to complete answers for the run:
\* nothing that completes after it replaces the answer.
THEOREM AnswerStands == Spec => ResponseFinal
<1>1. Init => LockInv
  BY DEF Init, LockInv
<1>2. LockInv /\ [Next]_vars => [locked /\ locked' => output' = output]_vars
  <2> SUFFICES ASSUME LockInv, Next, locked, locked' PROVE output' = output
    OBVIOUS
  <2>1. CASE Loop \/ Cancel
    BY <2>1 DEF Loop, Dispatch, LeaveLoop, Drain, Return, Cancel, flagVars
  <2>2. ASSUME NEW n \in Nodes, Finish(n) PROVE output' = output
    <3>1. Ignores
      BY DEF LockInv, Ignores
    <3> QED
      BY <2>2, <3>1 DEF Finish, Throw, LateCompletion, SkipWorkflow, Pause, Respond, Complete,
                        flagVars
  <2>3. ASSUME NEW p \in Nodes, Resume(p) PROVE output' = output
    BY <2>3 DEF Resume, Restart
  <2> QED
    BY <2>1, <2>2, <2>3 DEF Next
<1> QED
  BY <1>1, <1>2, LockStep, PTL DEF Spec, ResponseFinal

-----------------------------------------------------------------------------
(* A skipped workflow, and a run that returns.                              *)

\* While the trigger is ahead, it is alone; and the skip leaves it alone.
Alone ==
    /\ ready \subseteq {Start} /\ running \subseteq {Start}
    /\ \A n \in Nodes \ {Start} : starts[n] = 0

SkipInv ==
    /\ Start \in ready \cup running => Alone /\ waiting = {} /\ paused = {} /\ ~ skipped
    /\ skipped => Alone /\ ready = {} /\ running = {}

\* The edge manager queues targets only, so never the trigger.
LEMMA TargetsNotStart == \A E \in SUBSET Edges : Start \notin Targets(E)
BY EngineAssumption DEF Targets

\* Processing the edges of a node queues only what they lead to.
LEMMA PropagateQueues ==
    ASSUME NEW n \in Nodes, NEW r, Propagate(n, r)
    PROVE  ready' \ ready \subseteq Targets(Out(n))
<1> DEFINE on   == {e \in Out(n) : Activates(e, r)}
           off  == Out(n) \ on
<1>1. /\ Targets(on) \subseteq Targets(Out(n)) /\ Targets(off) \subseteq Targets(Out(n))
  BY DEF Targets
<1>2. \A act : Released(off, act) \subseteq Targets(Out(n))
  BY <1>1 DEF Released
<1> QED
  BY <1>1, <1>2 DEF Propagate

\* The end of a block takes it from what is running, and queues targets.
LEMMA FinishQueues ==
    ASSUME TypeOK, NEW n \in Nodes, Finish(n)
    PROVE  /\ n \in running /\ running' = running \ {n} /\ Start \notin ready' \ ready
           /\ starts' = starts /\ waiting' = waiting /\ orphans' = orphans
           /\ cancelled' = cancelled /\ status' = status
           /\ pc' = IF pc = "waiting" THEN "queueing" ELSE pc
           /\ skipped' = skipped \/ SkipWorkflow(n)
<1>1. Settles(n)
  BY DEF Finish, Throw, LateCompletion, SkipWorkflow, Pause, Respond, Complete
<1>2. Start \notin ready' \ ready
  <2>1. ASSUME NEW r \in Results(n), Complete(n, r) PROVE Start \notin ready' \ ready
    <3>1. Start \notin Targets(Out(n))
      BY Shapes, TargetsNotStart
    <3> QED
      BY <2>1, <3>1, PropagateQueues DEF Complete
  <2> QED
    BY <2>1 DEF Finish, Throw, LateCompletion, SkipWorkflow, Pause, Respond, flagVars
<1>3. cancelled' = cancelled /\ (skipped' = skipped \/ SkipWorkflow(n))
  BY DEF Finish, Throw, LateCompletion, Pause, Respond, Complete, SkipWorkflow, flagVars
<1> QED
  BY <1>1, <1>2, <1>3 DEF Settles

\* Every step keeps a skipped workflow skipped.
LEMMA SkipStep == ASSUME IInv, SkipInv, [Next]_vars PROVE SkipInv'
<1> USE DEF IInv, edgeVars, flagVars, historyVars
<1>1. CASE Dispatch
  <2>1. ready' = {} /\ running' = running \cup (ready \ executed) /\ ~ skipped
        /\ UNCHANGED <<waiting, paused, skipped>>
    BY <1>1 DEF Dispatch
  <2>2. \A n \in Nodes : starts'[n] = IF n \in ready \ executed THEN starts[n] + 1 ELSE starts[n]
    BY <1>1 DEF Dispatch
  <2>3. Start \in running' => Start \in ready \cup running
    BY <2>1
  <2> QED
    BY <2>1, <2>2, <2>3 DEF SkipInv, Alone
<1>2. CASE LeaveLoop \/ Drain \/ Cancel \/ UNCHANGED vars
  <2>1. UNCHANGED <<ready, running, starts, waiting, paused, skipped>>
    BY <1>2 DEF LeaveLoop, Drain, Cancel, vars
  <2> QED
    BY <2>1 DEF SkipInv, Alone
<1>3. CASE Return
  <2>1. /\ UNCHANGED <<ready, starts, paused, skipped>> /\ running' = {}
        /\ waiting' \subseteq waiting \cup paused
    BY <1>3 DEF Return
  <2> QED
    BY <2>1 DEF SkipInv, Alone
<1>4. ASSUME NEW n \in Nodes, Finish(n) PROVE SkipInv'
  <2>1. /\ n \in running /\ running' = running \ {n} /\ Start \notin ready' \ ready
        /\ starts' = starts /\ (skipped' = skipped \/ SkipWorkflow(n))
    BY <1>4, FinishQueues
  <2>2. ~ skipped
    BY <2>1 DEF SkipInv
  <2>3. Start \notin ready' \cup running'
    <3>1. CASE Start \in ready \cup running
      <4>1. n = Start
        BY <2>1, <3>1 DEF SkipInv, Alone
      <4>2. Start \notin ready
        BY <2>1, <4>1, EngineAssumption DEF OnceInv, TypeOK
      <4> QED
        BY <2>1, <4>1, <4>2
    <3>2. CASE Start \notin ready \cup running
      BY <2>1, <3>2
    <3> QED
      BY <3>1, <3>2
  <2>4. CASE SkipWorkflow(n)
    <3>1. n = Start /\ ready' = {}
      BY <2>4 DEF SkipWorkflow
    <3>2. Alone
      BY <2>1, <3>1 DEF SkipInv
    <3> QED
      BY <2>1, <2>3, <3>1, <3>2 DEF SkipInv, Alone
  <2>5. CASE skipped' = skipped
    BY <2>2, <2>3, <2>5 DEF SkipInv
  <2> QED
    BY <2>1, <2>4, <2>5
<1>5. ASSUME NEW x \in Nodes, Resume(x) PROVE SkipInv'
  <2>1. x \in waiting /\ running' = running /\ skipped' = FALSE
    BY <1>5 DEF Resume, Restart
  <2>2. Start \notin ready'
    <3>1. Start \notin Targets(Out(x))
      BY Shapes, TargetsNotStart
    <3> QED
      BY <1>5, <3>1 DEF Resume, Detach
  <2> QED
    BY <2>1, <2>2 DEF SkipInv
<1> QED
  BY <1>1, <1>2, <1>3, <1>4, <1>5 DEF Next, Loop

\* A skipped workflow stays skipped.
LEMMA SkipInvariance == Spec => []SkipInv
<1>1. Init => SkipInv
  BY DEF Init, SkipInv, Alone
<1> QED
  BY <1>1, SkipStep, Invariance, PTL DEF Spec

\* In every workflow a skip lets nothing run but the trigger.
THEOREM NothingBehindSkip == Spec => []SkipIsTotal
<1>1. SkipInv => SkipIsTotal
  BY DEF SkipInv, Alone, SkipIsTotal
<1> QED
  BY <1>1, SkipInvariance, PTL

\* What is left in flight when run() is about to return, or has returned, is
\* the doing of a cancellation.
QuietInv ==
    /\ pc # "done" => orphans = {}
    /\ pc = "returning" /\ running # {} => cancelled
    /\ pc = "done" => status = "cancelled" \/ orphans = {}

\* Every step keeps a returned run quiet.
LEMMA QuietStep ==
    ASSUME Pauses = {}, IInv, SkipInv, QuietInv, [Next]_vars
    PROVE  QuietInv'
<1> USE DEF IInv, edgeVars, flagVars, historyVars, QuietInv
<1>1. paused = {} /\ waiting = {}
  BY DEF TypeOK
<1>2. CASE Dispatch
  BY <1>2 DEF Dispatch
<1>3. CASE LeaveLoop
  BY <1>3 DEF LeaveLoop, SkipInv
<1>4. CASE Drain \/ Cancel \/ UNCHANGED vars
  BY <1>4 DEF Drain, Cancel, vars
<1>5. CASE Return
  <2>1. CASE running = {}
    BY <1>5, <2>1 DEF Return
  <2>2. CASE running # {}
    <3>1. cancelled
      BY <1>5, <2>2 DEF Return
    <3> QED
      BY <1>1, <1>5, <3>1 DEF Return
  <2> QED
    BY <2>1, <2>2
<1>6. ASSUME NEW n \in Nodes, Finish(n) PROVE QuietInv'
  BY <1>6, FinishQueues
<1>7. ASSUME NEW x \in Nodes, Resume(x) PROVE QuietInv'
  BY <1>1, <1>7 DEF Resume, Restart
<1> QED
  BY <1>2, <1>3, <1>4, <1>5, <1>6, <1>7 DEF Next, Loop

\* In every workflow without pause blocks, run() returns with nothing in flight
\* unless it reports a cancellation. (With them it does not hold: a cancelled
\* run that has paused reports the pause.)
THEOREM QuietReturn == ASSUME Pauses = {} PROVE Spec => []Quiescent
<1>1. Init => QuietInv
  BY DEF Init, QuietInv
<1>2. IInv /\ SkipInv /\ QuietInv /\ [Next]_vars => QuietInv'
  BY QuietStep
<1>3. QuietInv => Quiescent
  BY DEF QuietInv, Quiescent
<1> QED
  BY <1>1, <1>2, <1>3, Invariance, SkipInvariance, PTL DEF Spec

-----------------------------------------------------------------------------
(* Only what is called for runs.                                            *)

\* No edge leaves the error port of a pause block: a resume launches whatever
\* the block leads to, without looking at the handles (see the README).
NoErrorBehindPause == \A e \in Edges : e.src \in Pauses => e.handle # "error"

\* A node is activated along an edge that was called for, and waits for its
\* feeders only.
TakenInv ==
    /\ activated \subseteq Targets(taken)
    /\ \A m \in Nodes : incoming[m] \subseteq Sources(m)

\* Steps that leave the edges alone keep what is said of them.
LEMMA TakenFrame ==
    ASSUME TakenInv, UNCHANGED <<edgeVars, taken>>
    PROVE  TakenInv'
BY DEF TakenInv, edgeVars

\* Processing the edges of a node activates along those it calls for.
LEMMA PropagateTaken ==
    ASSUME TakenInv, NEW n \in Nodes, NEW r, Propagate(n, r)
    PROVE  TakenInv'
<1> DEFINE on == {e \in Out(n) : Activates(e, r)}
<1>1. activated' = activated \cup Targets(on) /\ taken' = taken \cup on
  BY DEF Propagate
<1>2. \A m \in Nodes : incoming'[m] \subseteq incoming[m]
  BY DEF Propagate
<1> HIDE DEF on
<1>3. activated' \subseteq Targets(taken')
  BY <1>1 DEF TakenInv, Targets
<1> QED
  BY <1>2, <1>3 DEF TakenInv

\* A resume activates what the resumed block leads to.
LEMMA ResumeTaken ==
    ASSUME NoErrorBehindPause, TypeOK, TakenInv, NEW p \in Nodes, Resume(p)
    PROVE  TakenInv'
<1>1. p \in Pauses
  BY DEF Resume, Restart, TypeOK
<1>2. /\ incoming' = [m \in Nodes |-> incoming[m] \ {p}]
      /\ activated' = activated \cup {m \in Nodes : incoming[m] \cap {p} # {}}
      /\ taken' = taken \cup {e \in Out(p) : e.handle # "error"}
  BY DEF Resume, Restart, Detach
<1>3. ASSUME NEW m \in Nodes, p \in incoming[m] PROVE m \in Targets(taken')
  <2>1. PICK e \in In(m) : e.src = p
    BY <1>3 DEF TakenInv, Sources
  <2>2. e \in Out(p) /\ e.dst = m /\ e.handle # "error"
    BY <1>1, <2>1 DEF In, Out, NoErrorBehindPause
  <2> QED
    BY <1>2, <2>2 DEF Targets
<1>4. Targets(taken) \subseteq Targets(taken')
  BY <1>2 DEF Targets
<1>5. activated' \subseteq Targets(taken')
  BY <1>2, <1>3, <1>4 DEF TakenInv
<1>6. \A m \in Nodes : incoming'[m] \subseteq incoming[m]
  BY <1>2
<1> QED
  BY <1>5, <1>6 DEF TakenInv

\* Every step activates only what is called for.
LEMMA TakenStep ==
    ASSUME NoErrorBehindPause, TypeOK, TakenInv, [Next]_vars
    PROVE  TakenInv'
<1> USE DEF flagVars, historyVars
<1>1. CASE Loop \/ Cancel \/ UNCHANGED vars
  BY <1>1, TakenFrame DEF Loop, Dispatch, LeaveLoop, Drain, Return, Cancel, vars
<1>2. ASSUME NEW n \in Nodes, Finish(n) PROVE TakenInv'
  <2>1. ASSUME NEW r \in Results(n), Complete(n, r) PROVE TakenInv'
    BY <2>1, PropagateTaken, TakenFrame DEF Complete
  <2>2. CASE Throw(n) \/ LateCompletion(n) \/ SkipWorkflow(n) \/ Pause(n) \/ Respond(n)
    BY <2>2, TakenFrame DEF Throw, LateCompletion, SkipWorkflow, Pause, Respond
  <2> QED
    BY <1>2, <2>1, <2>2 DEF Finish
<1>3. ASSUME NEW p \in Nodes, Resume(p) PROVE TakenInv'
  BY <1>3, ResumeTaken
<1> QED
  BY <1>1, <1>2, <1>3 DEF Next

\* In every workflow without an edge from the error port of a pause block, a
\* block runs only along an edge that the outcome of a block calls for: no deactivation, no
\* join that is released late and no resume launches a branch not taken.
THEOREM OnlyTakenIsLaunched ==
    ASSUME NoErrorBehindPause
    PROVE  Spec => []OnlyTakenRuns
<1>1. Init => TakenInv
  BY DEF Init, TakenInv, Targets
<1>2. TypeOK /\ TakenInv /\ [Next]_vars => TakenInv'
  BY TakenStep
<1>3. IInv /\ TakenInv => OnlyTakenRuns
  BY DEF IInv, LaunchInv, TakenInv, OnlyTakenRuns
<1>4. IInv => TypeOK
  BY DEF IInv
<1> QED
  BY <1>1, <1>2, <1>3, <1>4, Invariance, PTL DEF Spec
=============================================================================
