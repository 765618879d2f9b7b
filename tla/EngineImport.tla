---------------------------- MODULE EngineImport ----------------------------
(***************************************************************************)
(* Snapshots of ReactiveGraphEngine: exportState and importState           *)
(* (src/lib/dexrx/src/engine/engine.ts:2046-2439).  importState clears the *)
(* engine and puts the nodes of a snapshot in one by one, sources first,   *)
(* without a cycle check and without subscriptions.  It is asynchronous:   *)
(* it waits for the cache provider after a node with cached data, and      *)
(* while it waits any other call of the engine may run.                    *)
(*                                                                         *)
(* Values and cached data are left out: restoring the value of a node      *)
(* reaches nobody, since nothing is subscribed to its new subject.  So are *)
(* imports that take over the options of the snapshot (preserveOptions =   *)
(* false, engine.ts:2203-2205): here the options are constants.            *)
(***************************************************************************)
EXTENDS EngineLifecycle

CONSTANTS
    Snapshot,        \* the definitions in snapshots taken earlier or elsewhere
    SnapshotState,   \* the engine states snapshots name
    MaxOverlaps      \* bound: calls that run while an import waits for the cache;
                     \* none if the provider has no importNodeCache

Graph == [Node -> Def \cup {NoDef}]

\* Snapshots come from engines, whose definitions contain no cycle.
ASSUME SnapshotAssumption ==
    /\ Snapshot \subseteq {g \in Graph : Acyclic(g)}
    /\ SnapshotState \subseteq State
    /\ MaxOverlaps \in Nat

VARIABLES
    importing,       \* the importState under way
    overlaps,        \* calls that have run while an import was waiting
    unsubscribed     \* a failed import says "running" over nodes it left idle

importVars == <<vars, importing, overlaps, unsubscribed>>

\* The nodes still to restore, what importState keeps from its call and from
\* its beginning, and whether it is waiting, so that others may run.
Import == [rest : SUBSET Node, graph : Graph, next : State,
           previous : State, waiting : BOOLEAN]
NoImport == [rest |-> {}, graph |-> [n \in Node |-> NoDef], next |-> "initialized",
             previous |-> "initialized", waiting |-> TRUE]

ImportTypeOK ==
    /\ TypeOK
    /\ importing \in Import
    /\ overlaps \in 0..MaxOverlaps
    /\ unsubscribed \in BOOLEAN

-----------------------------------------------------------------------------

\* The definitions exportState writes: a node without subject is left out.
Exported == [n \in Node |-> IF n \in subjects THEN defs[n] ELSE NoDef]

\* clearAllData.  It forgets the deferred updates, but their timers still run.
ClearAllData ==
    /\ defs' = [n \in Node |-> NoDef]
    /\ order' = <<>>
    /\ subjects' = {}
    /\ wrappers' = [n \in Node |-> NoDef]
    /\ destructors' = {}
    /\ Silence
    /\ deferred' = <<>>
    /\ UNCHANGED timers

\* What importState throws at before it does anything.
NeverRefused == FALSE                                           \* mutant
ImportRefused == state = "destroyed"

\* importState, up to the first node.  Bound: one import at a time.
BeginImport(g, next) ==
    /\ Idle
    /\ importing = NoImport
    /\ ~ImportRefused
    /\ state' = IF state = "running" THEN "paused" ELSE state
    /\ ClearAllData
    /\ importing' = [rest |-> {n \in Node : g[n] # NoDef}, graph |-> g,
                     next |-> next, previous |-> state, waiting |-> FALSE]
    /\ unsubscribed' = FALSE
    /\ UNCHANGED <<leaked, resources, todo, overlaps>>

\* The nodes without inputs go first, in the order of the snapshot, which may be
\* any order.
Sources == {n \in importing.rest : importing.graph[n].inputs = {}}
Due == IF Sources # {} THEN Sources ELSE importing.rest

\* addNodeWithoutCompute, where nothing fails.
RestoreSubject(n) ==                                            \* mutant
    /\ subjects' = subjects \cup {n}
    /\ UNCHANGED <<wrappers, destructors>>
RestoreResources(n) ==
    /\ subjects' = subjects \cup {n}
    /\ wrappers' = [wrappers EXCEPT ![n] = importing.graph[n]]
    /\ destructors' = destructors \cup {n}

RestoreNode(n) ==
    /\ Idle
    /\ n \in Due
    /\ ~Defined(n)
    /\ importing.graph[n].config \notin BadConfig
    /\ defs' = [defs EXCEPT ![n] = importing.graph[n]]
    /\ order' = Append(order, n)
    /\ RestoreResources(n)
    /\ subscriptions' = Unwire(subscriptions, n)
    /\ \E waits \in BOOLEAN :
          /\ waits => overlaps < MaxOverlaps
          /\ importing' = [importing EXCEPT !.rest = @ \ {n}, !.waiting = waits]
    /\ UNCHANGED <<state, leaked, deferred, timers, resources, todo, overlaps, unsubscribed>>

\* The end of an import that throws: the state is what it was, the nodes are not.
KeepState(found) == state                                       \* mutant
StateAfterFailure(found) == found
GiveUp ==
    /\ state' = StateAfterFailure(importing.previous)
    /\ importing' = NoImport
    /\ unsubscribed' = (importing.previous = "running")

\* A node that another call added meanwhile, or that has no plugin.  Without
\* validateTypes the definition goes in before its plugin is looked up.
FailNode(n) ==
    /\ Idle
    /\ n \in Due
    /\ \/ /\ Defined(n) \/ importing.graph[n].config \in BadConfig
          /\ UNCHANGED <<defs, order>>
       \/ /\ ~Defined(n)
          /\ importing.graph[n].config \in BadConfig
          /\ defs' = [defs EXCEPT ![n] = importing.graph[n]]
          /\ order' = Append(order, n)
    /\ GiveUp
    /\ UNCHANGED <<subjects, wrappers, destructors, subscriptions, leaked, deferred,
                   timers, resources, todo, overlaps>>

KeepFound(next) == importing.previous                           \* mutant
StateAfterImport(next) == next

\* The end of importState: a snapshot of a running engine starts this one, which
\* throws if it is running or destroyed by now; any other state is just set.
EndImport ==
    /\ Idle
    /\ importing # NoImport
    /\ importing.rest = {}
    /\ \/ /\ importing.next # "running"
          /\ state' = StateAfterImport(importing.next)
          /\ importing' = NoImport
          /\ UNCHANGED <<todo, unsubscribed>>
       \/ /\ importing.next = "running"
          /\ state \in {"initialized", "paused"}
          /\ state = "paused" => RoomForTimer
          /\ state' = "running"
          /\ RestoreSubscriptions(state = "paused")
          /\ importing' = NoImport
          /\ UNCHANGED unsubscribed
       \/ /\ importing.next = "running"
          /\ state \in {"running", "destroyed"}
          /\ GiveUp
          /\ UNCHANGED todo
    /\ UNCHANGED <<registries, subscriptions, leaked, deferred, timers, resources, overlaps>>

ImportStep ==
    \/ \E g \in Snapshot \cup {Exported}, next \in SnapshotState : BeginImport(g, next)
    \/ \E n \in Node : RestoreNode(n) \/ FailNode(n)
    \/ EndImport

\* Everything else the engine does, when no import holds the thread.
OtherStep ==
    /\ importing.waiting
    /\ Next
    /\ IF Idle /\ importing # NoImport
       THEN overlaps < MaxOverlaps /\ overlaps' = overlaps + 1
       ELSE UNCHANGED overlaps
    /\ unsubscribed' = (unsubscribed /\ state' = "running")
    /\ UNCHANGED importing

-----------------------------------------------------------------------------

ImportInit ==
    /\ Init
    /\ importing = NoImport
    /\ overlaps = 0
    /\ unsubscribed = FALSE

ImportNext == ImportStep \/ OtherStep

ImportSpec == ImportInit /\ [][ImportNext]_importVars

-----------------------------------------------------------------------------
(* Properties.  RegistriesAgree and DeferredHandedOver of EngineLifecycle      *)
(* hold here too, whatever calls an import overlaps.                           *)

\* While no call overlaps an import, the engine implements ImportContract: no call,
\* turn, timer or import brings a destroyed engine back or closes a cycle, an import
\* that put in the whole snapshot ends in the state it names, and any other in the
\* state it found.  A destroy() while the import waits is undone by its last line,
\* which sets the state whatever it is by now (engine.ts:2270).
Underway ==
    IF importing = NoImport
    THEN [found |-> "none", next |-> "none", snapshot |-> [n \in Node |-> NoDef]]
    ELSE [found |-> importing.previous, next |-> importing.next, snapshot |-> importing.graph]
Importing == INSTANCE ImportContract WITH phase <- state, graph <- defs, underway <- Underway
ImportKeepsContract ==
    /\ Importing!ImportInit
    /\ [][overlaps' = 0 => Importing!ImportNext]_<<state, defs, Underway>>

\* No cycle gets in by importState either, which does not look for one: a snapshot
\* has none, and no part of a snapshot has one.  Only a call that adds nodes while
\* the import waits can close a cycle with those still to come (engine.ts:2371).
ImportedIsAcyclic == overlaps = 0 => AcyclicDefs

\* A running engine at rest has subscribed every node with inputs, also after
\* importState, unless it failed or other calls ran while it waited
\* (engine.ts:2327).
ImportedIsSubscribed == overlaps = 0 /\ ~unsubscribed => RunningMeansSubscribed
=============================================================================
