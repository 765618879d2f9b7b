--------------------------- MODULE ExecutableGraph ---------------------------
(***************************************************************************)
(* The control of ExecutableGraph (graph/graph.ts): which engine a graph   *)
(* has, in which state it is, which definition it holds, and whether the   *)
(* flags and the subscriptions of the graph agree with it.                 *)
(*                                                                         *)
(* An engine is reduced to its EngineState and to the definition it holds. *)
(* One subscription handler stands for those of withNodesConfig.           *)
(***************************************************************************)
CONSTANTS
    Engine,        \* bound: the engines that can ever be created
    Definition,    \* graph definitions: of createGraph, updateGraph, snapshots
    Refused,       \* definitions with a plugin that is not registered
    Malformed,     \* nodes that have a cycle or an unknown input
    NoEngine,
    NoSnapshot,
    Partial        \* nodes of no one definition: what a failed import leaves

ASSUME GraphAssumption ==
    /\ Refused \subseteq Definition
    /\ NoEngine \notin Engine
    /\ {NoSnapshot, Partial, Malformed} \cap Definition = {}

VARIABLES
    engine,          \* the engine of the graph
    estate,          \* the EngineState of each engine
    content,         \* the definition each engine holds, and if updates to it are late
    definition,      \* the nodes and edges of the graph
    isRunning,
    isLongRunning,   \* run() was called
    isDestroyed,
    handlers,        \* the engine whose subjects the handlers listen to
    waiting,         \* an execute() polls
    importing,       \* an importState that has not ended
    used             \* history: what callers have done out of the ordinary

engines == <<engine, estate, content>>
flags == <<isRunning, isLongRunning, isDestroyed>>
vars == <<engines, definition, flags, handlers, waiting, importing, used>>

NoImport == [engine |-> NoEngine, snapshot |-> NoSnapshot, resume |-> FALSE]

Content == [held : Definition \cup {Partial}, late : BOOLEAN]

\* "observe": observeNode before the graph runs.  "peek": exportState or getStats
\* before the graph has an engine.  "restore": run({initialState}).  "reimport":
\* importing into a live engine.  "retry": starting an engine after its import
\* failed.  "abandon": destroy or updateGraph while execute waits.  "overlap": a call
\* made before importState has ended.  "defer": updateNode of a paused graph.
Habit == {"observe", "peek", "restore", "reimport", "retry", "abandon", "overlap",
          "defer"}

TypeOK ==
    /\ engine \in Engine \cup {NoEngine}
    /\ estate \in [Engine -> {"absent", "initialized", "running", "paused", "destroyed"}]
    /\ content \in [Engine -> Content]
    /\ definition \in Definition
    /\ {isRunning, isLongRunning, isDestroyed, waiting} \subseteq BOOLEAN
    /\ handlers \in Engine \cup {NoEngine}
    /\ importing \in [engine : Engine, snapshot : Definition, resume : BOOLEAN]
                     \cup {NoImport}
    /\ used \subseteq Habit

-----------------------------------------------------------------------------
(* Engines *)

Live == {"running", "paused"}
HasEngine == engine # NoEngine
EngineIs(states) == HasEngine /\ estate[engine] \in states

Note(habits) ==
    used' = used \cup habits \cup (IF importing = NoImport THEN {} ELSE {"overlap"})

\* exportState saves this state whatever state the engine is in.
SnapshotState == "initialized"

\* What the import of d makes of an engine: its nodes up to the one that is refused,
\* and the state that a snapshot restores, or the state it was in.
Imported(d) == IF d \in Refused THEN Partial ELSE d
AfterImport(s, kept) == IF s \in Refused THEN kept ELSE SnapshotState

\* createGraphEngine and importGraph (or importState of the engine) of d, over the
\* engine states `states`; e is left in state s.
Create(e, states, d, s) ==
    /\ states[e] = "absent"
    /\ engine' = e
    /\ content' = [content EXCEPT ![e].held = Imported(d)]
    /\ estate' = [states EXCEPT ![e] = s]

\* A definition that is refused throws before the start.
Launch(e, states, d) ==
    Create(e, states, d, IF d \in Refused THEN "initialized" ELSE "running")

LaunchOver(states, d, listening) ==
    \E e \in Engine :
        /\ Launch(e, states, d)
        /\ isRunning' = (d \notin Refused)
        /\ handlers' = IF d \in Refused THEN listening ELSE e

StartEngine ==
    /\ estate' = [estate EXCEPT ![engine] = "running"]
    /\ isRunning' = TRUE
    /\ UNCHANGED <<engine, content>>

HandlersForgotten == StartEngine /\ UNCHANGED handlers           \* mutant
FlagForgotten ==                                                \* mutant
    /\ estate' = [estate EXCEPT ![engine] = "running"]
    /\ handlers' = engine
    /\ UNCHANGED <<engine, content, isRunning>>
StartAndSubscribe == StartEngine /\ handlers' = engine

\* It throws if the engine already runs, and leaves all as it is.
StartInternal ==
    \/ /\ isRunning \/ EngineIs({"running"})
       /\ UNCHANGED <<engines, isRunning, handlers>>
    \/ /\ ~isRunning /\ (~HasEngine \/ EngineIs({"destroyed"}))
       /\ LaunchOver(estate, definition, handlers)
    \/ /\ ~isRunning /\ EngineIs({"initialized", "paused"})
       /\ StartAndSubscribe

\* The start of an engine whose import has failed before.
Retry == IF HasEngine /\ content[engine].held = Partial THEN {"retry"} ELSE {}

Reimport == IF isRunning \/ EngineIs(Live) THEN {"reimport"} ELSE {}
Abandon == IF waiting THEN {"abandon"} ELSE {}

KeepEngine == estate                                            \* mutant
DestroyEngine ==
    IF HasEngine THEN [estate EXCEPT ![engine] = "destroyed"] ELSE estate

\* The subjects of e, and with them what its handlers listen to, are gone.
Unheard(e) == IF handlers = e THEN NoEngine ELSE handlers

-----------------------------------------------------------------------------
(* Calls *)

Run ==
    /\ ~isDestroyed
    /\ StartInternal
    /\ isLongRunning' = (isLongRunning \/ isRunning')
    /\ Note(Retry)
    /\ UNCHANGED <<definition, isDestroyed, waiting, importing>>

\* run({initialState: s}).  The import is not awaited but, with no cache to restore, it
\* is over before startInternal; if it fails the engine keeps its state.
RestoreFirst(s) ==
    \/ /\ ~HasEngine
       /\ definition \in Refused
       /\ LaunchOver(estate, definition, handlers)
    \/ /\ ~HasEngine
       /\ definition \notin Refused
       /\ \E e \in Engine : Create(e, estate, s, "running") /\ handlers' = e
       /\ isRunning' = TRUE
    \/ /\ EngineIs({"destroyed"})
       /\ \/ isRunning /\ UNCHANGED <<engines, isRunning, handlers>>
          \/ ~isRunning /\ LaunchOver(estate, definition, handlers)
    \/ /\ EngineIs({"initialized", "running", "paused"})
       /\ content' = [content EXCEPT ![engine].held = Imported(s)]
       /\ UNCHANGED engine
       /\ \/ /\ isRunning
             /\ estate' = [estate EXCEPT ![engine] = AfterImport(s, @)]
             /\ handlers' = Unheard(engine)
             /\ UNCHANGED isRunning
          \/ /\ ~isRunning
             /\ s \in Refused /\ EngineIs({"running"})     \* start throws
             /\ handlers' = Unheard(engine)
             /\ UNCHANGED <<estate, isRunning>>
          \/ /\ ~isRunning
             /\ s \notin Refused \/ ~EngineIs({"running"})
             /\ estate' = [estate EXCEPT ![engine] = "running"]
             /\ isRunning' = TRUE
             /\ handlers' = engine

RunRestored(s) ==
    /\ ~isDestroyed
    /\ RestoreFirst(s)
    /\ isLongRunning' = (isLongRunning \/ isRunning')
    /\ Note({"restore"} \cup Reimport)
    /\ UNCHANGED <<definition, isDestroyed, waiting, importing>>

\* execute, up to the poll of waitForStabilization.  Bound: one execute at a time.
Execute ==
    /\ ~isDestroyed
    /\ ~waiting
    /\ StartInternal
    /\ waiting' = isRunning'
    /\ Note(Retry)
    /\ UNCHANGED <<definition, isLongRunning, isDestroyed, importing>>

\* exportState or getStats of a graph without an engine, which they create and start.
PeekFirst ==
    /\ ~HasEngine
    /\ \E e \in Engine : Launch(e, estate, definition)

PeekByCaller ==
    /\ PeekFirst
    /\ Note({"peek"})
    /\ UNCHANGED <<definition, flags, handlers, waiting, importing>>

\* One tick of the stability check, which may find the graph stabilized.
Poll ==
    /\ waiting
    /\ PeekFirst \/ (HasEngine /\ UNCHANGED engines)
    /\ waiting' \in BOOLEAN
    /\ UNCHANGED <<definition, flags, handlers, importing, used>>

\* The wait ends by a skip, an exception or its timeout.
WaitEnds ==
    /\ waiting
    /\ waiting' = FALSE
    /\ UNCHANGED <<engines, definition, flags, handlers, importing, used>>

\* observeNode, which ignores that importGraph throws.
ObserveNode ==
    \/ EngineIs({"initialized", "paused"}) /\ StartEngine
    \/ /\ ~HasEngine
       /\ \E e \in Engine : Create(e, estate, definition, "running")
       /\ isRunning' = TRUE

ObserveSubscribedNodes ==
    \/ EngineIs({"initialized", "paused"}) /\ StartEngine
    \/ /\ ~HasEngine
       /\ \E e \in Engine : Launch(e, estate, definition)
       /\ isRunning' = (definition \notin Refused)

Observe ==
    /\ ~isRunning
    /\ ObserveNode \/ ObserveSubscribedNodes
    /\ Note({"observe"} \cup Retry)
    /\ UNCHANGED <<definition, isLongRunning, isDestroyed, handlers, waiting, importing>>

\* on, before the graph has an engine.
On ==
    /\ ~HasEngine
    /\ \E e \in Engine : Create(e, estate, definition, "initialized")
    /\ Note({})
    /\ UNCHANGED <<definition, flags, handlers, waiting, importing>>

\* It throws, with the handlers gone, if the engine is destroyed already.
Stop ==
    /\ handlers' = NoEngine
    /\ \/ /\ isRunning /\ EngineIs({"initialized", "running", "paused"})
          /\ estate' = DestroyEngine
          /\ isRunning' = FALSE
       \/ /\ ~(isRunning /\ EngineIs({"initialized", "running", "paused"}))
          /\ UNCHANGED <<estate, isRunning>>
    /\ Note({})
    /\ UNCHANGED <<engine, content, definition, isLongRunning, isDestroyed, waiting, importing>>

Pause ==
    /\ isRunning /\ EngineIs({"running"})
    /\ estate' = [estate EXCEPT ![engine] = "paused"]
    /\ Note({})
    /\ UNCHANGED <<engine, content, definition, flags, handlers, waiting, importing>>

Resume ==
    /\ isRunning /\ EngineIs({"paused"})
    /\ estate' = [estate EXCEPT ![engine] = "running"]
    /\ Note({})
    /\ UNCHANGED <<engine, content, definition, flags, handlers, waiting, importing>>

Destroy ==
    /\ estate' = DestroyEngine
    /\ engine' = NoEngine
    /\ isDestroyed' = TRUE
    /\ isRunning' = FALSE
    /\ Note(Abandon)
    /\ UNCHANGED <<content, definition, isLongRunning, handlers, waiting, importing>>

\* It destroys the engine, checks the new nodes and starts a new engine with them if
\* autoStart asks for it.
UpdateGraph(d, autoStart) ==
    /\ isLongRunning /\ ~isDestroyed
    /\ ~(isRunning /\ EngineIs({"destroyed"}))         \* stop throws
    /\ LET listening == IF HasEngine THEN NoEngine ELSE handlers IN
       \/ /\ autoStart /\ d # Malformed
          /\ definition' = d
          /\ LaunchOver(DestroyEngine, d, listening)
       \/ /\ ~autoStart \/ d = Malformed
          /\ definition' = IF d = Malformed THEN definition ELSE d
          /\ engine' = NoEngine
          /\ estate' = DestroyEngine
          /\ isRunning' = FALSE
          /\ handlers' = listening
          /\ UNCHANGED content
    /\ Note(Abandon)
    /\ UNCHANGED <<isLongRunning, isDestroyed, waiting, importing>>

\* What updateNode makes of an engine that is not paused; the graph shows d then.  A
\* node that is not there, a cycle or an unknown input makes it throw instead.
UpdateEngine(d) ==
    \E h \in IF d \in Refused THEN {Partial}
            ELSE IF content[engine].held = definition THEN {d} ELSE {d, Partial} :
        content' = [content EXCEPT ![engine].held = h]

\* updateNode, which keeps the type of the node.  A paused engine defers the update
\* unchecked, and the graph shows it at once.
UpdateNode(d) ==
    /\ isLongRunning /\ ~isDestroyed
    /\ d \in Refused <=> definition \in Refused
    /\ \/ /\ EngineIs({"initialized", "running"})
          /\ UpdateEngine(d)
          /\ Note({})
       \/ /\ EngineIs({"paused"})
          /\ content' = [content EXCEPT ![engine].late = TRUE]
          /\ Note({"defer"})
    /\ definition' = d
    /\ UNCHANGED <<engine, estate, flags, handlers, waiting, importing>>

\* The timer of deferred updates, after a resume.  An exception drops the rest of
\* them, calls since then may have left other nodes to apply them to, and an import
\* may have dropped them all.
LateUpdates(e) ==
    /\ estate[e] = "running"
    /\ content[e].late
    /\ \E h \in (Definition \ Refused) \cup {Partial, content[e].held} :
          content' = [content EXCEPT ![e] = [held |-> h, late |-> FALSE]]
    /\ UNCHANGED <<engine, estate, definition, flags, handlers, waiting, importing, used>>

ImportIntoCurrent(e, s, resume) ==                              \* mutant
    importing' = [engine |-> engine, snapshot |-> s, resume |-> resume]
ImportInto(e, s, resume) ==
    importing' = [engine |-> e, snapshot |-> s, resume |-> resume]

\* importState, up to its await: a long-running graph is paused, and e loses its
\* nodes and gets those of s and the state of every snapshot.  If s is refused, e is
\* left as it was found, without its nodes.  Bound: one import at a time.
ImportState(s) ==
    /\ importing = NoImport
    /\ LET resume == isLongRunning /\ isRunning IN
       \E e \in Engine :
          /\ engine' = e
          /\ content' = [content EXCEPT ![e].held = Imported(s)]
          /\ \/ ~HasEngine /\ estate[e] = "absent"
             \/ /\ e = engine
                /\ estate[e] \in IF resume THEN {"running"}
                                 ELSE {"initialized", "running", "paused"}
          /\ estate' = [estate EXCEPT ![e] =
                AfterImport(s, IF resume THEN "paused"
                               ELSE IF HasEngine THEN @ ELSE "initialized")]
          /\ \/ s \notin Refused /\ ImportInto(e, s, resume)
             \/ s \in Refused /\ UNCHANGED importing
          /\ handlers' = Unheard(e)
    /\ Note(Reimport)
    /\ UNCHANGED <<definition, flags, waiting>>

DefinitionKept(s) == definition                                 \* mutant
UpdateGraphFromState(s) == s

\* The rest of importState.  resume throws unless the engine is paused.
ImportEnds ==
    /\ importing # NoImport
    /\ engine' = importing.engine
    /\ definition' = UpdateGraphFromState(importing.snapshot)
    /\ estate' = IF importing.resume /\ estate[importing.engine] = "paused"
                 THEN [estate EXCEPT ![importing.engine] = "running"] ELSE estate
    /\ importing' = NoImport
    /\ UNCHANGED <<content, flags, handlers, waiting, used>>

\* In ASYNC mode a skip pauses a running engine.
SkipPauses(e) ==
    /\ estate[e] = "running"
    /\ estate' = [estate EXCEPT ![e] = "paused"]
    /\ UNCHANGED <<engine, content, definition, flags, handlers, waiting, importing, used>>

-----------------------------------------------------------------------------

Init ==
    /\ engine = NoEngine
    /\ estate = [e \in Engine |-> "absent"]
    /\ content = [e \in Engine |-> [held |-> Partial, late |-> FALSE]]
    /\ definition \in Definition
    /\ isRunning = FALSE
    /\ isLongRunning = FALSE
    /\ isDestroyed = FALSE
    /\ handlers = NoEngine
    /\ waiting = FALSE
    /\ importing = NoImport
    /\ used = {}

Next ==
    \/ Run \/ Execute \/ Poll \/ WaitEnds
    \/ Observe \/ On \/ PeekByCaller
    \/ Stop \/ Pause \/ Resume \/ Destroy
    \/ \E s \in Definition : RunRestored(s) \/ ImportState(s)
    \/ \E d \in Definition \cup {Malformed}, autoStart \in BOOLEAN :
          UpdateGraph(d, autoStart)
    \/ ImportEnds
    \/ \E d \in Definition : UpdateNode(d)
    \/ \E e \in Engine : SkipPauses(e) \/ LateUpdates(e)

Spec == Init /\ [][Next]_vars

-----------------------------------------------------------------------------
(* Properties *)

Never(habits) == used \cap habits = {}

\* No engine runs that the graph cannot reach: stop(), updateGraph() and destroy()
\* leave none behind, whatever callers did before, unless calls overlapped an import.
NoOrphan ==
    Never({"overlap"}) => \A e \in Engine : estate[e] \in Live => e = engine

\* A graph says that it runs exactly if its engine does, so that the next run() or
\* execute() neither throws nor returns without a running engine.
FlagAgrees ==
    Never(Habit \ {"observe", "restore", "retry", "defer"}) /\ ~isDestroyed
        => (isRunning <=> EngineIs(Live))

\* The handlers of withNodesConfig listen to the engine that runs now, after any
\* number of stops, restarts, updates and imports.
HandlersAttached ==
    Never({"observe", "peek", "reimport", "overlap"}) /\ isRunning => handlers = engine

\* A running engine computes the definition that the graph shows, which the
\* stabilization check reads its subscribed nodes from.
RunsDefinition ==
    Never({"observe", "restore", "reimport", "retry", "overlap", "defer"}) /\ EngineIs(Live)
        => content[engine].held = definition

\* A destroyed graph runs nothing.
DestroyedRunsNothing ==
    Never({"observe", "peek", "abandon", "overlap"}) /\ isDestroyed
        => \A e \in Engine : estate[e] \notin Live

\* "For long-running graphs: pauses graph, imports state, then resumes"
\* (graph.ts:614): a graph that ran before importState runs after it.
ImportResumes ==
    [][ /\ importing.resume
        /\ importing' = NoImport
        /\ "overlap" \notin used
        => estate'[engine'] = "running" ]_vars
=============================================================================
