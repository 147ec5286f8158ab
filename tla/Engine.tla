------------------------------- MODULE Engine -------------------------------
(***************************************************************************)
(* One execution of a workflow by ExecutionEngineV2 and EdgeManagerV2       *)
(* (executor/execution/engine-v2.ts, edge-manager-v2.ts), for workflows     *)
(* without loops and parallels: the main loop of run(), the blocks it       *)
(* launches, the handler of each completion, edge activation and the        *)
(* cascade of deactivations, Response blocks, failures, cancellation, and   *)
(* human-in-the-loop pauses with the runs that resume from them.            *)
(*                                                                         *)
(* The engine is one JavaScript thread: an action is what runs between two  *)
(* awaits that can yield. Launching the whole ready queue is one action,    *)
(* and so is the handler of one completion, which runs under queueLock.     *)
(***************************************************************************)
EXTENDS Integers, FiniteSets

CONSTANTS
    Nodes,      \* the nodes of the DAG
    Start,      \* the trigger block
    Edges,      \* records [src, dst, handle]
    Responses,  \* the Response blocks
    Pauses,     \* the human-in-the-loop and wait blocks
    Options,    \* Options[n]: the handles a run of n may select, "source" when it selects none
    MayFail,    \* the blocks whose handler may throw
    StopAfter,  \* context.stopAfterBlockId, or None
    MaySkip,    \* whether the intent analyzer may decide to skip the workflow
    MayCancel,  \* whether the user may cancel
    None

\* The builder gives the trigger no incoming edge.
ASSUME EngineAssumption ==
    /\ Start \in Nodes /\ None \notin Nodes /\ "skipped" \notin Nodes
    /\ Edges \subseteq [src : Nodes, dst : Nodes, handle : STRING]
    /\ \A e \in Edges : e.dst # Start /\ e.src # e.dst
    /\ Responses \subseteq Nodes /\ Pauses \subseteq Nodes /\ MayFail \subseteq Nodes
    /\ Responses \cap Pauses = {} /\ Start \notin Responses \cup Pauses
    /\ Options \in [Nodes -> SUBSET STRING]
    /\ StopAfter \in Nodes \cup {None}
    /\ MaySkip \in BOOLEAN /\ MayCancel \in BOOLEAN

VARIABLES
    \* EdgeManagerV2 and the DAG it consumes
    incoming,      \* incoming[n]: node.incomingEdges, the feeders not yet arrived
    deactivated,   \* deactivatedEdges
    activated,     \* nodesWithActivatedEdge
    \* ExecutionEngineV2
    pc,            \* where run() is
    ready,         \* readyQueue: all of it is launched at once, so a set
    running,       \* the nodes behind `executing`
    executed,      \* context.executedBlocks
    output,        \* the block that wrote finalOutput
    locked,        \* responseOutputLocked
    stopped,       \* stoppedEarlyFlag
    skipped,       \* skippedFlag
    failed,        \* errorFlag
    cancelled,     \* cancelledFlag
    paused,        \* pausedBlocks
    status,        \* what run() returned, or threw
    \* across the runs of one execution
    waiting,       \* pause points stored and not resumed yet
    \* history
    starts,        \* how often each block was launched
    settled,       \* the nodes whose outgoing edges were processed
    taken,         \* the edges the outcomes of the blocks call for
    orphans,       \* blocks still running when run() returned
    cut            \* some run was cut short: failed, stopped, skipped or cancelled

edgeVars == <<incoming, deactivated, activated>>
flagVars == <<output, locked, stopped, skipped, failed, cancelled>>
historyVars == <<starts, settled, taken, orphans, cut>>
vars == <<edgeVars, pc, ready, running, executed, flagVars, paused, status, waiting, historyVars>>

Out(n)     == {e \in Edges : e.src = n}
In(n)      == {e \in Edges : e.dst = n}
Sources(n) == {e.src : e \in In(n)}
Targets(E) == {e.dst : e \in E}

Init ==
    /\ incoming = [n \in Nodes |-> Sources(n)]
    /\ deactivated = {} /\ activated = {}
    /\ pc = "queueing" /\ ready = {Start}
    /\ running = {} /\ executed = {}
    /\ output = None
    /\ locked = FALSE /\ stopped = FALSE /\ skipped = FALSE /\ failed = FALSE /\ cancelled = FALSE
    /\ paused = {} /\ status = "none" /\ waiting = {}
    /\ starts = [n \in Nodes |-> 0]
    /\ settled = {} /\ taken = {} /\ orphans = {} /\ cut = FALSE

-----------------------------------------------------------------------------
(* EdgeManagerV2.                                                           *)

\* shouldActivateEdge: r is the handle the block's outcome selects, "error"
\* when it failed.
Activates(e, r) ==
    CASE e.handle = "default" -> TRUE
      [] e.handle = "source"  -> r # "error"
      [] OTHER                -> e.handle = r

\* deactivateEdgeAndDescendants adds D and, through every node that is left
\* with no live feeder and was never activated, that node's outgoing edges:
\* the least set that contains D and is Cascaded.
Cascaded(S, inc, act) ==
    \A m \in Nodes \ act :
        LET live == {e \in In(m) : e.src \in inc[m]}
        IN  live # {} /\ live \subseteq S => Out(m) \subseteq S

\* Mutant: the branches below are left as they are.
CascadeNone(D, inc, act) == D

\* A closed set is D with all the edges out of some nodes M.
EdgesOff(M, D) == {e \in Edges : e \in D \/ e.src \in M}

Cascade(D, inc, act) ==
    LET open == {m \in Nodes \ act : In(m) # {} /\ ~ Out(m) \subseteq D}
        cuts == {M \in SUBSET open : Cascaded(EdgesOff(M, D), inc, act)}
    IN  {e \in Edges : \A M \in cuts : e \in EdgesOff(M, D)}

\* Mutant: the first arrival is enough.
IsReadyAny(n, inc, dead) == TRUE

\* isNodeReady: every feeder has arrived, or all its edges are deactivated.
IsReady(n, inc, dead) == \A e \in In(n) : e.src \in inc[n] => e \in dead

\* Mutants: no deselected node is released; any of them is.
ReleasedNone(off, act) == {}
ReleasedAll(off, act)  == Targets(off)

\* A node that had been activated by another feeder is queued when the last
\* edge it waits for is deactivated, if the deselecting block feeds it itself.
Released(off, act) == Targets(off) \cap act

\* processOutgoingEdges of n with outcome r, and queueing what it returns.
Propagate(n, r) ==
    LET on   == {e \in Out(n) : Activates(e, r)}
        off  == Out(n) \ on
        act  == activated \cup Targets(on)
        inc  == [m \in Nodes |-> IF m \in Targets(on) THEN incoming[m] \ {n} ELSE incoming[m]]
        dead == Cascade(deactivated \cup off, incoming, act)
        next == {m \in Targets(on) \cup Released(off, act) : IsReady(m, inc, dead)}
    IN  /\ activated' = act
        /\ incoming' = inc
        /\ deactivated' = dead
        /\ ready' = ready \cup next
        /\ settled' = settled \cup {n}
        /\ taken' = taken \cup on

-----------------------------------------------------------------------------
(* The main loop.                                                           *)

HasWork == ready # {} \/ running # {}
Stopping == cancelled \/ failed \/ stopped

\* processQueue launches all that is ready. A node that has been executed
\* returns its stored output and its completion is not handled again.
Dispatch ==
    /\ pc = "queueing" /\ HasWork /\ ~ Stopping /\ ~ skipped
    /\ running' = running \cup (ready \ executed)
    /\ starts' = [n \in Nodes |-> IF n \in ready \ executed THEN starts[n] + 1 ELSE starts[n]]
    /\ ready' = {}
    /\ pc' = IF running' = {} \/ ready \cap executed # {} THEN "queueing" ELSE "waiting"
    /\ UNCHANGED <<edgeVars, executed, flagVars, paused, status, waiting, settled, taken, orphans,
                   cut>>

\* Mutant: a failed run does not wait either.
LeaveLoopAtOnce ==
    /\ pc = "queueing"
    /\ ~ HasWork \/ Stopping
    /\ pc' = IF cancelled \/ skipped \/ failed THEN "returning" ELSE "draining"
    /\ UNCHANGED <<edgeVars, ready, running, executed, flagVars, paused, status, waiting, historyVars>>

\* A cancelled or skipped run does not wait for what it launched.
LeaveLoop ==
    /\ pc = "queueing"
    /\ ~ HasWork \/ Stopping
    /\ pc' = IF cancelled \/ skipped THEN "returning" ELSE "draining"
    /\ UNCHANGED <<edgeVars, ready, running, executed, flagVars, paused, status, waiting, historyVars>>

\* waitForAllExecutions: a cancellation wakes the race, but allSettled follows.
Drain ==
    /\ pc = "draining" /\ running = {}
    /\ pc' = "returning"
    /\ UNCHANGED <<edgeVars, ready, running, executed, flagVars, paused, status, waiting, historyVars>>

\* The end of run(), in the order of its tests. The pause points of a paused
\* run are stored with the state as it is.
Return ==
    /\ pc = "returning"
    /\ pc' = "done"
    /\ status' = IF failed /\ ~ locked
                 THEN IF cancelled THEN "cancelled" ELSE "failed"
                 ELSE IF paused # {} THEN "paused"
                 ELSE IF cancelled THEN "cancelled" ELSE "success"
    /\ waiting' = IF status' = "paused" THEN waiting \cup paused ELSE waiting
    /\ orphans' = orphans \cup running
    /\ cut' = (cut \/ Stopping \/ skipped)
    /\ running' = {}
    /\ UNCHANGED <<edgeVars, ready, executed, flagVars, paused, starts, settled, taken>>

\* Mutant: the wait of the loop is not raced against the cancellation.
CancelUnheard ==
    /\ MayCancel /\ pc # "done" /\ ~ cancelled
    /\ cancelled' = TRUE
    /\ UNCHANGED <<edgeVars, pc, ready, running, executed, output, locked, stopped, skipped, failed,
                   paused, status, waiting, historyVars>>

\* The abort signal or the cancellation channel fires.
Cancel ==
    /\ MayCancel /\ pc # "done" /\ ~ cancelled
    /\ cancelled' = TRUE
    /\ pc' = IF pc = "waiting" THEN "queueing" ELSE pc
    /\ UNCHANGED <<edgeVars, ready, running, executed, output, locked, stopped, skipped, failed,
                   paused, status, waiting, historyVars>>

-----------------------------------------------------------------------------
(* Completions.                                                             *)

\* Mutant: a completion does not wake the loop.
SettlesUnheard(n) ==
    /\ n \in running
    /\ running' = running \ {n}
    /\ executed' = executed \cup {n}
    /\ UNCHANGED <<pc, status, waiting, starts, orphans, cut>>

\* The block executor stores n's output, or its error, as n's state; then n's
\* promise settles and wakes waitForAnyExecution.
Settles(n) ==
    /\ n \in running
    /\ running' = running \ {n}
    /\ executed' = executed \cup {n}
    /\ pc' = IF pc = "waiting" THEN "queueing" ELSE pc
    /\ UNCHANGED <<status, waiting, starts, orphans, cut>>

HasErrorPort(n) == \E e \in Out(n) : e.handle = "error"

\* The block throws and no error port takes the error: trackExecution
\* records it, no completion is handled.
Throw(n) ==
    /\ n \in MayFail /\ ~ HasErrorPort(n)
    /\ Settles(n)
    /\ failed' = TRUE
    /\ UNCHANGED <<edgeVars, ready, output, locked, stopped, skipped, cancelled, paused,
                   settled, taken>>

\* The rest run handleNodeCompletion, unless the workflow is over.
Ignores == skipped \/ (stopped /\ locked)

LateCompletion(n) ==
    /\ Ignores
    /\ Settles(n)
    /\ UNCHANGED <<edgeVars, ready, flagVars, paused, settled, taken>>

\* The intent analyzer runs once, when the trigger completes.
SkipWorkflow(n) ==
    /\ ~ Ignores /\ n = Start /\ MaySkip
    /\ Settles(n)
    /\ skipped' = TRUE /\ output' = "skipped" /\ ready' = {}
    /\ UNCHANGED <<edgeVars, locked, stopped, failed, cancelled, paused, settled, taken>>

Pause(n) ==
    /\ ~ Ignores /\ n \in Pauses
    /\ Settles(n)
    /\ paused' = paused \cup {n}
    /\ UNCHANGED <<edgeVars, ready, flagVars, settled, taken>>

\* Mutant: the run goes on, and the last Response block answers.
RespondLast(n) ==
    /\ ~ Ignores /\ n \in Responses
    /\ Settles(n)
    /\ output' = n
    /\ locked' = TRUE
    /\ UNCHANGED <<edgeVars, ready, stopped, skipped, failed, cancelled, paused, settled, taken>>

\* A Response block outside loops ends the workflow; the first one answers.
Respond(n) ==
    /\ ~ Ignores /\ n \in Responses
    /\ Settles(n)
    /\ output' = IF locked THEN output ELSE n
    /\ locked' = TRUE /\ stopped' = TRUE
    /\ UNCHANGED <<edgeVars, ready, skipped, failed, cancelled, paused, settled, taken>>

\* The handle chosen by a plain block: an error leaves by the error port. So
\* does that of a pause block that fails to pause.
Results(n) == Options[n] \cup IF n \in MayFail /\ HasErrorPort(n) THEN {"error"} ELSE {}

Complete(n, r) ==
    /\ ~ Ignores /\ n \notin Responses /\ (n \in Pauses => r = "error")
    /\ Settles(n)
    /\ output' = IF Out(n) = {} /\ ~ locked THEN n ELSE output
    /\ stopped' = (stopped \/ n = StopAfter)
    /\ IF n = StopAfter
       THEN UNCHANGED <<edgeVars, ready, settled, taken>>
       ELSE Propagate(n, r)
    /\ UNCHANGED <<locked, skipped, failed, cancelled, paused>>

Finish(n) ==
    \/ Throw(n) \/ LateCompletion(n) \/ SkipWorkflow(n) \/ Pause(n) \/ Respond(n)
    \/ \E r \in Results(n) : Complete(n, r)

-----------------------------------------------------------------------------
(* Resuming.                                                                *)

\* The engine of a resumed run starts from the stored state, with new flags.
Restart(p) ==
    /\ pc = "done" /\ status \in {"paused", "success"} /\ p \in waiting
    /\ waiting' = waiting \ {p}
    /\ pc' = "queueing" /\ status' = "none"
    /\ paused' = {}
    /\ output' = None
    /\ locked' = FALSE /\ stopped' = FALSE /\ skipped' = FALSE /\ failed' = FALSE
    /\ cancelled' = FALSE
    /\ settled' = settled \cup {p}
    /\ taken' = taken \cup {e \in Out(p) : e.handle # "error"}
    /\ UNCHANGED <<deactivated, running, executed, starts, orphans, cut>>

\* initializeQueue without the edges of the blocks S: each target counts as
\* activated, whatever the handle of the edge.
Detach(S, p) ==
    LET inc == [m \in Nodes |-> incoming[m] \ S]
    IN  /\ incoming' = inc
        /\ activated' = activated \cup {m \in Nodes : incoming[m] \cap S # {}}
        /\ ready' = {m \in Targets(Out(p)) : IsReady(m, inc, deactivated)}

\* Mutant: every open pause point counts as resumed.
ResumeAll(p)   == Restart(p) /\ Detach(waiting, p)

\* runResumeExecution takes away the edges of the resumed pause block.
Resume(p) == Restart(p) /\ Detach({p}, p)

-----------------------------------------------------------------------------
Loop == Dispatch \/ LeaveLoop \/ Drain \/ Return

Next ==
    \/ Loop \/ Cancel
    \/ \E n \in Nodes : Finish(n)
    \/ \E p \in Nodes : Resume(p)

Spec == Init /\ [][Next]_vars

\* The event loop runs what is runnable.
FairSpec == Spec /\ WF_vars(Loop)

-----------------------------------------------------------------------------
PC == {"queueing", "waiting", "draining", "returning", "done"}

\* The engine's collections keep to the nodes and edges of the DAG.
TypeOK ==
    /\ incoming \in [Nodes -> SUBSET Nodes]
    /\ deactivated \in SUBSET Edges /\ activated \in SUBSET Nodes
    /\ pc \in PC
    /\ ready \in SUBSET Nodes /\ running \in SUBSET Nodes /\ executed \in SUBSET Nodes
    /\ output \in Nodes \cup {None, "skipped"}
    /\ locked \in BOOLEAN /\ stopped \in BOOLEAN /\ skipped \in BOOLEAN
    /\ failed \in BOOLEAN /\ cancelled \in BOOLEAN
    /\ paused \in SUBSET Pauses /\ waiting \in SUBSET Pauses
    /\ status \in {"none", "success", "paused", "failed", "cancelled"}
    /\ starts \in [Nodes -> Nat]
    /\ settled \in SUBSET Nodes /\ taken \in SUBSET Edges /\ orphans \in SUBSET Nodes
    /\ cut \in BOOLEAN

\* No block is launched twice in an execution, however its feeders' completions,
\* the deactivations and the resumes are ordered: isNodeReady turns true once.
RunsOnce == \A n \in Nodes : starts[n] <= 1

\* A block runs only along an edge that the outcome of a block calls for.
OnlyTakenRuns == \A n \in Nodes : starts[n] > 0 => n = Start \/ n \in Targets(taken)

\* A block is launched only when each of its feeders has been settled, or is
\* cut off: no join starts ahead of a slower branch or of a pause point that
\* has not been resumed.
FeedersDone == \A e \in Edges : starts[e.dst] > 0 => e.src \in settled \/ e \in deactivated

\* A block that has started sees none of its feeders start later.
NoLateFeeder ==
    [][\A e \in Edges : starts[e.dst] > 0 /\ starts[e.src] = 0 => starts'[e.src] = 0]_vars

\* An execution that reports success and was never cut short has followed
\* every edge that the outcomes of its blocks called for.
NoStranded ==
    pc = "done" /\ status = "success" /\ waiting = {} /\ ~ cut
        => \A e \in taken : starts[e.dst] > 0

\* The answer of the first Response block is the answer of the run: no block
\* that was in flight, and no later Response block, overwrites it.
ResponseFinal == [][locked /\ locked' => output' = output]_vars

\* When the intent analyzer skips the workflow, nothing runs but the trigger.
SkipIsTotal == skipped => \A n \in Nodes \ {Start} : starts[n] = 0

\* run() returns with nothing in flight, unless it reports a cancellation:
\* the state it hands over or stores is not behind a block that still runs.
Quiescent == pc = "done" /\ status # "cancelled" => orphans = {}

\* Every block comes to an end, by its result, its error or its timeout.
BlocksEnd == \A n \in Nodes : WF_vars(Finish(n))

\* If its blocks end, every run comes to an end: no wake-up of the main loop
\* is lost.
Termination == BlocksEnd => (pc = "queueing" ~> pc = "done")

\* A cancellation that reaches the engine in its main loop ends the run without
\* waiting for any block.
CancelIsPrompt == cancelled /\ pc \in {"queueing", "waiting"} ~> pc = "done"
=============================================================================
