------------------------- MODULE EngineImportProofs -------------------------
(***************************************************************************)
(* What holds of an engine that imports snapshots, for every set of nodes  *)
(* and snapshots and any number of calls that run while an import waits.   *)
(***************************************************************************)
EXTENDS EngineImport, EngineLifecycleProofs

-----------------------------------------------------------------------------
(* Types *)

LEMMA NoImportType == NoImport \in Import
BY DEF NoImport, Import, Graph, State

LEMMA ExportedType ==
    ASSUME TypeOK
    PROVE  Exported \in Graph
BY DEF Exported, Graph, TypeOK

LEMMA DueType ==
    ASSUME NEW n \in Due, ImportTypeOK
    PROVE  n \in importing.rest /\ n \in Node
BY DEF Due, Sources, ImportTypeOK, Import

LEMMA BeginType ==
    ASSUME ImportTypeOK, NEW g \in Graph, NEW next \in State, BeginImport(g, next)
    PROVE  ImportTypeOK'
<1>1. state' \in State
  BY DEF BeginImport, ImportTypeOK, TypeOK, State
<1>2. importing' \in Import
  BY DEF BeginImport, ImportTypeOK, TypeOK, Import
<1>3. subscriptions' \in [Node -> Subscription]
  BY NobodyType DEF BeginImport, ClearAllData, Silence
<1>4. /\ defs' \in [Node -> Def \cup {NoDef}]
      /\ order' \in Seq(Node)
      /\ subjects' \subseteq Node
      /\ wrappers' \in [Node -> Def \cup {NoDef}]
      /\ destructors' \subseteq Node
      /\ deferred' \in Seq(UpdateItem)
      /\ timers' = timers
  BY DEF BeginImport, ClearAllData
<1> QED
  BY <1>1, <1>2, <1>3, <1>4 DEF BeginImport, ImportTypeOK, TypeOK

LEMMA RestoreNodeType ==
    ASSUME ImportTypeOK, NEW n, RestoreNode(n)
    PROVE  ImportTypeOK'
<1>1. n \in importing.rest /\ n \in Node
  BY DueType DEF RestoreNode
<1>2. importing.graph[n] \in Def \cup {NoDef}
  BY <1>1 DEF ImportTypeOK, Import, Graph
<1>3. order' \in Seq(Node)
  BY <1>1, AppendProperties DEF RestoreNode, ImportTypeOK, TypeOK
<1>4. subscriptions' \in [Node -> Subscription]
  BY <1>1, UnwireType DEF RestoreNode, ImportTypeOK, TypeOK
<1>5. importing' \in Import
  <2>1. PICK waits \in BOOLEAN :
            importing' = [importing EXCEPT !.rest = @ \ {n}, !.waiting = waits]
    BY DEF RestoreNode
  <2> QED
    BY <2>1 DEF ImportTypeOK, Import
<1>6. /\ defs' \in [Node -> Def \cup {NoDef}]
      /\ wrappers' \in [Node -> Def \cup {NoDef}]
      /\ subjects' \subseteq Node
      /\ destructors' \subseteq Node
  BY <1>1, <1>2 DEF RestoreNode, RestoreResources, ImportTypeOK, TypeOK
<1>7. UNCHANGED <<state, leaked, deferred, timers, resources, todo, overlaps, unsubscribed>>
  BY DEF RestoreNode
<1> QED
  BY <1>3, <1>4, <1>5, <1>6, <1>7 DEF ImportTypeOK, TypeOK

LEMMA FailNodeType ==
    ASSUME ImportTypeOK, NEW n, FailNode(n)
    PROVE  ImportTypeOK'
<1>1. n \in importing.rest /\ n \in Node
  BY DueType DEF FailNode
<1>2. importing.graph[n] \in Def \cup {NoDef}
  BY <1>1 DEF ImportTypeOK, Import, Graph
<1>3. order' \in Seq(Node) /\ defs' \in [Node -> Def \cup {NoDef}]
  <2>1. CASE UNCHANGED <<defs, order>>
    BY <2>1 DEF ImportTypeOK, TypeOK
  <2>2. CASE /\ defs' = [defs EXCEPT ![n] = importing.graph[n]]
             /\ order' = Append(order, n)
    BY <1>1, <1>2, <2>2, AppendProperties DEF ImportTypeOK, TypeOK
  <2> QED
    BY <2>1, <2>2 DEF FailNode
<1>4. state' \in State /\ importing' \in Import /\ unsubscribed' \in BOOLEAN
  BY NoImportType DEF FailNode, GiveUp, StateAfterFailure, ImportTypeOK, Import
<1>5. UNCHANGED <<subjects, wrappers, destructors, subscriptions, leaked, deferred,
                   timers, resources, todo, overlaps>>
  BY DEF FailNode
<1> QED
  BY <1>3, <1>4, <1>5 DEF ImportTypeOK, TypeOK

LEMMA EndImportType ==
    ASSUME ImportTypeOK, EndImport
    PROVE  ImportTypeOK'
<1>1. state' \in State /\ importing' \in Import /\ unsubscribed' \in BOOLEAN
  BY NoImportType DEF EndImport, GiveUp, StateAfterFailure, StateAfterImport, ImportTypeOK, Import,
                      State
<1>2. todo' \in Seq(Item)
  <2>1. CASE UNCHANGED todo
    BY <2>1 DEF ImportTypeOK, TypeOK
  <2>2. CASE RestoreSubscriptions(state = "paused")
    BY <2>2, RestoreType DEF ImportTypeOK
  <2> QED
    BY <2>1, <2>2 DEF EndImport
<1>3. UNCHANGED <<registries, subscriptions, leaked, deferred, timers, resources, overlaps>>
  BY DEF EndImport
<1> QED
  BY <1>1, <1>2, <1>3 DEF registries, ImportTypeOK, TypeOK

LEMMA ImportTypeInit == ImportInit => ImportTypeOK
<1> SUFFICES ASSUME ImportInit PROVE ImportTypeOK
  OBVIOUS
<1>1. TypeOK
  BY TypeInit DEF ImportInit
<1>2. importing \in Import /\ unsubscribed \in BOOLEAN
  BY NoImportType DEF ImportInit
<1>3. overlaps \in 0..MaxOverlaps
  BY SnapshotAssumption DEF ImportInit
<1> QED
  BY <1>1, <1>2, <1>3 DEF ImportTypeOK

LEMMA ImportTypeStep == ImportTypeOK /\ [ImportNext]_importVars => ImportTypeOK'
<1> SUFFICES ASSUME ImportTypeOK, [ImportNext]_importVars PROVE ImportTypeOK'
  OBVIOUS
<1>1. CASE ImportStep
  <2>1. ASSUME NEW g \in Snapshot \cup {Exported}, NEW next \in SnapshotState,
               BeginImport(g, next)
        PROVE  ImportTypeOK'
    BY <2>1, BeginType, ExportedType, SnapshotAssumption DEF ImportTypeOK
  <2> QED
    BY <1>1, <2>1, RestoreNodeType, FailNodeType, EndImportType DEF ImportStep
<1>2. CASE OtherStep
  <2>1. TypeOK'
    BY <1>2, TypeStep DEF OtherStep, ImportTypeOK
  <2>2. overlaps' \in 0..MaxOverlaps
    BY <1>2, SnapshotAssumption DEF OtherStep, ImportTypeOK
  <2> QED
    BY <1>2, <2>1, <2>2 DEF OtherStep, ImportTypeOK
<1>3. CASE UNCHANGED importVars
  BY <1>3 DEF importVars, vars, ImportTypeOK, TypeOK
<1> QED
  BY <1>1, <1>2, <1>3 DEF ImportNext

\* The variables keep their types.
THEOREM ImportTypes == ImportSpec => []ImportTypeOK
BY ImportTypeInit, ImportTypeStep, PTL DEF ImportSpec

-----------------------------------------------------------------------------
(* Cycles *)

LEMMA PartAcyclic ==
    ASSUME NEW g, NEW h, Acyclic(g), \A n \in Node : h[n] \in {NoDef, g[n]}
    PROVE  Acyclic(h)
<1>1. \A n \in Node : InputsOf(h, n) \subseteq InputsOf(g, n)
  BY DEF InputsOf
<1>2. ASSUME NEW S \in SUBSET Node, S # {}
      PROVE  \E n \in S : InputsOf(h, n) \cap S = {}
  <2>1. PICK n \in S : InputsOf(g, n) \cap S = {}
    BY <1>2 DEF Acyclic
  <2> QED
    BY <1>1, <2>1
<1> QED
  BY <1>2 DEF Acyclic

\* Of the snapshot, everything is there that is not still to restore.
Restored ==
    \A n \in Node : defs[n] = IF n \in importing.rest THEN NoDef ELSE importing.graph[n]

\* Unless calls overlap it, an import runs in an engine that does nothing else, and has
\* put in a part of an acyclic snapshot.
ImportInv ==
    /\ importing.rest \subseteq {n \in Node : importing.graph[n] # NoDef}
    /\ overlaps = 0 =>
          /\ AcyclicDefs
          /\ Acyclic(importing.graph)
          /\ importing # NoImport =>
                /\ Idle
                /\ state \in {"initialized", "paused"}
                /\ Restored

LEMMA EmptyAcyclic == Acyclic(NoImport.graph)
BY DEF Acyclic, InputsOf, NoImport

LEMMA ImportInvInit == ImportInit => ImportInv
BY AcyclicInit, EmptyAcyclic DEF ImportInit, ImportInv, NoImport

LEMMA BeginInv ==
    ASSUME ImportTypeOK, ImportInv, NEW g \in Snapshot \cup {Exported}, NEW next,
           BeginImport(g, next)
    PROVE  ImportInv'
<1>1. importing'.graph = g /\ importing'.rest = {n \in Node : g[n] # NoDef}
  BY DEF BeginImport
<1>2. \A n \in Node : defs'[n] = NoDef
  BY DEF BeginImport, ClearAllData
<1>3. Idle' /\ overlaps' = overlaps
  BY DEF BeginImport, Idle
<1>4. ASSUME overlaps = 0 PROVE Acyclic(g)
  <2>1. Acyclic(defs)
    BY <1>4 DEF ImportInv, AcyclicDefs
  <2>2. \A n \in Node : Exported[n] \in {NoDef, defs[n]}
    BY DEF Exported
  <2>3. Acyclic(Exported)
    BY <2>1, <2>2, PartAcyclic
  <2> QED
    BY <2>3, SnapshotAssumption
<1>5. overlaps = 0 => AcyclicDefs'
  BY <1>2, <1>4, PartAcyclic DEF AcyclicDefs
<1>6. Restored'
  BY <1>1, <1>2 DEF Restored
<1>7. state' \in {"initialized", "paused"}
  BY DEF BeginImport, ImportRefused, ImportTypeOK, TypeOK, State
<1> QED
  BY <1>1, <1>3, <1>4, <1>5, <1>6, <1>7 DEF ImportInv

LEMMA RestoreNodeInv ==
    ASSUME ImportTypeOK, ImportInv, NEW n, RestoreNode(n)
    PROVE  ImportInv'
<1>1. n \in importing.rest /\ n \in Node
  BY DueType DEF RestoreNode
<1>2. /\ importing'.graph = importing.graph
      /\ importing'.rest = importing.rest \ {n}
  <2>1. PICK waits \in BOOLEAN :
            importing' = [importing EXCEPT !.rest = @ \ {n}, !.waiting = waits]
    BY DEF RestoreNode
  <2> QED
    BY <2>1 DEF ImportTypeOK, Import
<1>3. importing # NoImport
  BY <1>1 DEF NoImport
<1>4. \A m \in Node : defs'[m] = IF m = n THEN importing.graph[m] ELSE defs[m]
  BY <1>1 DEF RestoreNode, ImportTypeOK, TypeOK
<1>5. ASSUME overlaps = 0
      PROVE  Acyclic(importing.graph) /\ Restored'
             /\ state \in {"initialized", "paused"}
  BY <1>2, <1>3, <1>4, <1>5 DEF ImportInv, Restored
<1>6. overlaps = 0 => AcyclicDefs'
  <2>1. ASSUME overlaps = 0 PROVE \A m \in Node : defs'[m] \in {NoDef, importing.graph[m]}
    BY <1>2, <1>5, <2>1 DEF Restored
  <2> QED
    BY <1>5, <2>1, PartAcyclic DEF AcyclicDefs
<1>7. Idle' /\ overlaps' = overlaps /\ state' = state
  BY DEF RestoreNode, Idle
<1> QED
  BY <1>2, <1>5, <1>6, <1>7 DEF ImportInv

LEMMA FailNodeInv ==
    ASSUME ImportTypeOK, ImportInv, NEW n, FailNode(n)
    PROVE  ImportInv'
<1>1. n \in importing.rest /\ n \in Node
  BY DueType DEF FailNode
<1>2. importing' = NoImport /\ overlaps' = overlaps
  BY DEF FailNode, GiveUp
<1>3. importing # NoImport
  BY <1>1 DEF NoImport
<1>4. \A m \in Node : defs'[m] \in {defs[m], importing.graph[m]}
  <2>1. CASE UNCHANGED defs
    BY <2>1
  <2>2. CASE defs' = [defs EXCEPT ![n] = importing.graph[n]]
    BY <1>1, <2>2 DEF ImportTypeOK, TypeOK
  <2> QED
    BY <2>1, <2>2 DEF FailNode
<1>5. ASSUME overlaps = 0 PROVE AcyclicDefs'
  <2>1. \A m \in Node : defs'[m] \in {NoDef, importing.graph[m]}
    BY <1>3, <1>4, <1>5 DEF ImportInv, Restored
  <2> QED
    BY <1>5, <2>1, PartAcyclic DEF AcyclicDefs, ImportInv
<1> QED
  BY <1>2, <1>5, EmptyAcyclic DEF ImportInv, NoImport

LEMMA EndImportInv ==
    ASSUME ImportInv, EndImport
    PROVE  ImportInv'
<1>1. importing' = NoImport /\ overlaps' = overlaps /\ UNCHANGED defs
  BY DEF EndImport, GiveUp, registries
<1> QED
  BY <1>1, EmptyAcyclic DEF ImportInv, NoImport, AcyclicDefs

LEMMA ImportInvStep ==
    ImportTypeOK /\ ImportInv /\ [ImportNext]_importVars => ImportInv'
<1> SUFFICES ASSUME ImportTypeOK, ImportInv, [ImportNext]_importVars
             PROVE  ImportInv'
  OBVIOUS
<1>1. CASE ImportStep
  BY <1>1, BeginInv, RestoreNodeInv, FailNodeInv, EndImportInv DEF ImportStep
<1>2. CASE OtherStep
  <2>1. CASE Idle /\ importing # NoImport
    <3>1. overlaps' # 0 /\ UNCHANGED importing
      BY <1>2, <2>1 DEF OtherStep, ImportTypeOK
    <3> QED
      BY <3>1 DEF ImportInv
  <2>2. CASE ~(Idle /\ importing # NoImport)
    <3>1. UNCHANGED <<importing, overlaps>>
      BY <1>2, <2>2 DEF OtherStep
    <3>2. ASSUME overlaps = 0 PROVE importing = NoImport /\ AcyclicDefs'
      BY <1>2, <2>2, <3>2, AcyclicStep DEF OtherStep, ImportInv, ImportTypeOK
    <3> QED
      BY <3>1, <3>2 DEF ImportInv
  <2> QED
    BY <2>1, <2>2
<1>3. CASE UNCHANGED importVars
  BY <1>3 DEF importVars, vars, ImportInv, AcyclicDefs, Idle, Restored
<1> QED
  BY <1>1, <1>2, <1>3 DEF ImportNext

LEMMA ImportInvariant == ImportSpec => [](ImportTypeOK /\ ImportInv)
BY ImportTypeInit, ImportTypeStep, ImportInvInit, ImportInvStep, PTL DEF ImportSpec

\* importState closes no cycle although it looks for none, as long as no other call
\* runs while it waits.
THEOREM ImportAcyclicity == ImportSpec => []ImportedIsAcyclic
<1>1. ImportInv => ImportedIsAcyclic
  BY DEF ImportInv, ImportedIsAcyclic
<1> QED
  BY <1>1, ImportInvariant, PTL

-----------------------------------------------------------------------------
(* Registries *)

LEMMA BeginAgrees ==
    ASSUME NEW g, NEW next, BeginImport(g, next)
    PROVE  RegistriesAgree'
<1>1. ASSUME NEW n \in Node PROVE Agrees(n)'
  BY VacantAgrees DEF BeginImport, ClearAllData, Silence, NobodySubscribed
<1> QED
  BY <1>1 DEF RegistriesAgree, Agrees

LEMMA RestoreNodeAgrees ==
    ASSUME ImportTypeOK, ImportInv, RegistriesAgree, NEW n, RestoreNode(n)
    PROVE  RegistriesAgree'
<1> DEFINE d == importing.graph[n]
           Old == Unwire(subscriptions, n)
<1>1. n \in importing.rest /\ n \in Node
  BY DueType DEF RestoreNode
<1>2. d \in Def
  BY <1>1 DEF ImportInv, ImportTypeOK, Import, Graph
<1>3. /\ defs'[n] = d /\ wrappers'[n] = d
      /\ \A m \in Node \ {n} : defs'[m] = defs[m] /\ wrappers'[m] = wrappers[m]
      /\ subjects' = subjects \cup {n}
      /\ destructors' = destructors \cup {n}
      /\ subscriptions' = Old
  BY <1>1 DEF RestoreNode, RestoreResources, ImportTypeOK, TypeOK
<1>4. subscriptions \in [Node -> Subscription]
  BY DEF ImportTypeOK, TypeOK
<1>5. subscriptions[n] = NoSubscription
  BY <1>1 DEF RestoreNode, Defined, RegistriesAgree, Live
<1>6. \A m \in Node : /\ Old[m].def = subscriptions[m].def
                      /\ Old[m].wired = subscriptions[m].wired \ {n}
                      /\ subscriptions[m] = NoSubscription => Old[m] = NoSubscription
  BY <1>1, <1>4, UnwireOne
<1> HIDE DEF Old
<1>7. ASSUME NEW m \in Node \ {n} PROVE Agrees(m)'
  <2>1. Agrees(m)
    BY DEF RegistriesAgree, Agrees
  <2>2. Live(m)' => Live(m) /\ subscriptions'[m].def = subscriptions[m].def
    BY <1>3, <1>6 DEF Live
  <2>3. subscriptions'[m].wired \subseteq subscriptions[m].wired \cap subjects'
    BY <1>3, <1>6, <2>1 DEF Agrees
  <2> QED
    BY <1>3, <2>1, <2>2, <2>3, UntouchedAgrees
<1>8. Agrees(n)'
  <2>1. subscriptions'[n] = NoSubscription
    BY <1>1, <1>3, <1>5, <1>6
  <2> QED
    BY <1>1, <1>2, <1>3, <2>1, FreshAgrees
<1> QED
  BY <1>7, <1>8 DEF RegistriesAgree, Agrees

LEMMA FailNodeAgrees ==
    ASSUME ImportTypeOK, ImportInv, RegistriesAgree, NEW n, FailNode(n)
    PROVE  RegistriesAgree'
<1>1. n \in importing.rest /\ n \in Node
  BY DueType DEF FailNode
<1>2. importing.graph[n] \in Def
  BY <1>1 DEF ImportInv, ImportTypeOK, Import, Graph
<1>3. UNCHANGED <<subjects, wrappers, destructors, subscriptions>>
  BY DEF FailNode
<1>4. CASE UNCHANGED defs
  BY <1>3, <1>4 DEF RegistriesAgree, Live, Defined, InputsOf
<1>5. CASE /\ ~Defined(n)
           /\ importing.graph[n].config \in BadConfig
           /\ defs' = [defs EXCEPT ![n] = importing.graph[n]]
  <2>1. /\ defs'[n] = importing.graph[n]
        /\ \A m \in Node \ {n} : defs'[m] = defs[m]
    BY <1>1, <1>5 DEF ImportTypeOK, TypeOK
  <2>2. wrappers[n] = NoDef /\ subscriptions[n] = NoSubscription
    BY <1>1, <1>5 DEF Defined, RegistriesAgree, Live
  <2>3. ASSUME NEW m \in Node \ {n} PROVE Agrees(m)'
    BY <1>3, <2>1, UntouchedAgrees DEF RegistriesAgree, Agrees, Live
  <2>4. Agrees(n)'
    BY <1>1, <1>2, <1>3, <1>5, <2>1, <2>2, UnknownAgrees
  <2> QED
    BY <2>3, <2>4 DEF RegistriesAgree, Agrees
<1> QED
  BY <1>4, <1>5 DEF FailNode

LEMMA ImportRegistriesStep ==
    /\ ImportTypeOK /\ ImportTypeOK' /\ ImportInv /\ RegistriesAgree
    /\ [ImportNext]_importVars
    => RegistriesAgree'
<1> SUFFICES ASSUME ImportTypeOK, ImportTypeOK', ImportInv, RegistriesAgree,
                    [ImportNext]_importVars
             PROVE  RegistriesAgree'
  OBVIOUS
<1>1. CASE UNCHANGED <<registries, subscriptions>>
  BY <1>1 DEF RegistriesAgree, Live, Defined, InputsOf, registries
<1>2. CASE ImportStep
  <2>1. CASE EndImport
    BY <1>1, <2>1 DEF EndImport
  <2> QED
    BY <1>2, <2>1, BeginAgrees, RestoreNodeAgrees, FailNodeAgrees DEF ImportStep
<1>3. CASE OtherStep
  BY <1>3, RegistriesStep DEF OtherStep, ImportTypeOK
<1>4. CASE UNCHANGED importVars
  BY <1>1, <1>4 DEF importVars, vars, registries
<1> QED
  BY <1>2, <1>3, <1>4 DEF ImportNext

\* The maps of an engine agree through imports too: failed ones, and those that any
\* number of other calls run into.
THEOREM ImportRegistries == ImportSpec => []RegistriesAgree
<1>1. ImportInit => RegistriesAgree
  BY RegistriesInit DEF ImportInit
<1> QED
  BY <1>1, ImportRegistriesStep, ImportInvariant, PTL DEF ImportSpec

-----------------------------------------------------------------------------
(* The order and the running turn *)

\* What is restored has a definition.
LEMMA RestDefined ==
    ASSUME ImportTypeOK, ImportInv, NEW n \in Due
    PROVE  n \in Node /\ importing.graph[n] # NoDef
BY DueType DEF ImportInv

LEMMA ImportOrderStep ==
    ImportTypeOK /\ ImportInv /\ OrderInv /\ [ImportNext]_importVars => OrderInv'
<1> SUFFICES ASSUME ImportTypeOK, ImportInv, OrderInv, [ImportNext]_importVars
             PROVE  OrderInv'
  OBVIOUS
<1>1. TypeOK
  BY DEF ImportTypeOK
<1>2. ASSUME NEW g, NEW next, BeginImport(g, next) PROVE OrderInv'
  BY <1>2, EmptyOrder DEF BeginImport, ClearAllData
<1>3. ASSUME NEW n \in Node, RestoreNode(n) PROVE OrderInv'
  <2>1. n \in Due /\ ~Defined(n)
    BY <1>3 DEF RestoreNode
  <2>. PICK d : d = importing.graph[n]
    OBVIOUS
  <2>2. d # NoDef /\ defs' = [defs EXCEPT ![n] = d] /\ order' = Append(order, n)
    BY <1>3, <2>1, RestDefined DEF RestoreNode
  <2> QED
    BY <1>1, <2>1, <2>2, AppendOrder
<1>4. ASSUME NEW n \in Node, FailNode(n) PROVE OrderInv'
  <2>1. n \in Due
    BY <1>4 DEF FailNode
  <2>. PICK d : d = importing.graph[n]
    OBVIOUS
  <2>2. d # NoDef
    BY <2>1, RestDefined
  <2>3. \/ UNCHANGED <<defs, order>>
        \/ ~Defined(n) /\ defs' = [defs EXCEPT ![n] = d] /\ order' = Append(order, n)
    BY <1>4 DEF FailNode
  <2> QED
    BY <1>1, <2>2, <2>3, AppendOrder, SameOrder DEF Defined
<1>5. CASE EndImport \/ UNCHANGED importVars
  BY <1>5, SameOrder DEF EndImport, registries, importVars, vars, Defined
<1>6. CASE OtherStep
  BY <1>1, <1>6, OrderStep DEF OtherStep
<1> QED
  BY <1>2, <1>3, <1>4, <1>5, <1>6 DEF ImportNext, ImportStep

LEMMA ImportTurnStep ==
    ImportTypeOK /\ OrderInv /\ TurnInv /\ [ImportNext]_importVars => TurnInv'
<1> SUFFICES ASSUME ImportTypeOK, OrderInv, TurnInv, [ImportNext]_importVars
             PROVE  TurnInv'
  OBVIOUS
<1>1. TypeOK
  BY DEF ImportTypeOK
<1>2. CASE UNCHANGED todo
  BY <1>2 DEF TurnInv
<1>3. CASE OtherStep
  BY <1>1, <1>3, TurnInvStep DEF OtherStep
<1>4. CASE EndImport
  <2>1. UNCHANGED todo \/ RestoreSubscriptions(state = "paused")
    BY <1>4 DEF EndImport
  <2> QED
    BY <1>1, <1>2, <2>1, RestoreFacts
<1> QED
  BY <1>2, <1>3, <1>4 DEF ImportNext, ImportStep, BeginImport, RestoreNode, FailNode, importVars, vars

LEMMA ImportTurnAlways == ImportSpec => [](OrderInv /\ TurnInv)
<1>1. ImportInit => OrderInv /\ TurnInv
  BY EmptySeq DEF ImportInit, Init, OrderInv, TurnInv, Defined, Range
<1> QED
  BY <1>1, ImportOrderStep, ImportTurnStep, ImportInvariant, PTL DEF ImportSpec

-----------------------------------------------------------------------------
(* The contract *)

\* The contract's notions are the engine's here too, and an import is under way when it
\* has found the engine in some state.
LEMMA SameImportNotions ==
    /\ Importing!Def = Def
    /\ Importing!Nothing = [n \in Node |-> NoDef]
    /\ Importing!Phase = State
    /\ \A g : Importing!Acyclic(g) = Acyclic(g)
BY DEF Importing!Def, Def, Importing!Nothing, Importing!Phase, State, Importing!Acyclic, Acyclic,
       Importing!InputsOf, InputsOf

LEMMA UnderwayIsImport ==
    ASSUME ImportTypeOK
    PROVE  /\ importing = NoImport <=> Underway = Importing!NoImport
           /\ importing # NoImport =>
                 /\ Underway.found = importing.previous
                 /\ Underway.next = importing.next
                 /\ Underway.snapshot = importing.graph
                 /\ Underway \in Importing!Import
<1>1. importing = NoImport => Underway = Importing!NoImport
  BY SameImportNotions DEF Underway, Importing!NoImport
<1>2. ASSUME importing # NoImport
      PROVE  /\ Underway.found = importing.previous
             /\ Underway.next = importing.next
             /\ Underway.snapshot = importing.graph
             /\ Underway \in Importing!Import
  BY <1>2, SameImportNotions DEF Underway, ImportTypeOK, Import, Graph, Importing!Import
<1>3. importing # NoImport => Underway # Importing!NoImport
  BY <1>2 DEF Importing!NoImport, ImportTypeOK, Import, State
<1> QED
  BY <1>1, <1>2, <1>3

LEMMA NextIsOwn == Contract!Next => Importing!Next
BY DEF Contract!Next, Importing!Next, Contract!Start, Importing!Start, Contract!Pause, Importing!Pause,
       Contract!Stop, Importing!Stop, Contract!Remove, Importing!Remove, Contract!Put, Importing!Put,
       Contract!Turn, Importing!Turn, Contract!KeepsRunning, Importing!KeepsRunning,
       Contract!Nothing, Importing!Nothing, Contract!Def, Importing!Def,
       Contract!Acyclic, Importing!Acyclic, Contract!InputsOf, Importing!InputsOf

LEMMA BeginKeeps ==
    ASSUME ImportTypeOK, ImportTypeOK', ImportInv', overlaps' = 0, NEW g, NEW next,
           BeginImport(g, next)
    PROVE  Importing!ImportNext
<1>1. importing = NoImport /\ state # "destroyed"
  BY DEF BeginImport, ImportRefused
<1>2. importing' # NoImport /\ importing'.previous = state
  BY DEF BeginImport, NoImport
<1>3. /\ Underway'.found = state
      /\ Underway'.snapshot = importing'.graph
      /\ Underway' \in Importing!Import
  BY <1>2, SameImportNotions DEF Underway, ImportTypeOK, Import, Graph, Importing!Import
<1>4. Acyclic(importing'.graph)
  BY DEF ImportInv
<1>5. defs' = Importing!Nothing
  BY SameImportNotions DEF BeginImport, ClearAllData
<1>6. Underway = Importing!NoImport
  BY <1>1, UnderwayIsImport
<1>7. Importing!Acyclic(Underway'.snapshot)
  BY <1>3, <1>4, SameImportNotions
<1>8. state' = IF state = "running" THEN "paused" ELSE state
  BY DEF BeginImport
<1>9. Importing!Begin
  BY <1>1, <1>3, <1>5, <1>6, <1>7, <1>8 DEF Importing!Begin
<1> QED
  BY <1>9 DEF Importing!ImportNext

LEMMA PutsNext ==
    ASSUME ImportTypeOK, ImportInv, importing # NoImport, NEW n \in Due, ~Defined(n),
           defs' = [defs EXCEPT ![n] = importing.graph[n]], AcyclicDefs'
    PROVE  \E m \in Node : Importing!PutNext(m)
<1>1. n \in Node /\ importing.graph[n] # NoDef
  BY RestDefined
<1>2. Underway.snapshot = importing.graph
  BY UnderwayIsImport
<1>3. Importing!PutNext(n)
  BY <1>1, <1>2, SameImportNotions DEF Importing!PutNext, Defined, AcyclicDefs
<1> QED
  BY <1>1, <1>3

LEMMA RestoreNodeKeeps ==
    ASSUME ImportTypeOK, ImportInv, AcyclicDefs', NEW n \in Node, RestoreNode(n)
    PROVE  Importing!ImportNext
<1>1. n \in Due /\ ~Defined(n) /\ defs' = [defs EXCEPT ![n] = importing.graph[n]]
  BY DEF RestoreNode
<1>2. n \in importing.rest /\ importing.graph[n] # NoDef
  BY <1>1, RestDefined, DueType
<1>3. /\ importing'.graph = importing.graph
      /\ importing'.previous = importing.previous
      /\ importing'.next = importing.next
  <2>1. PICK waits \in BOOLEAN :
            importing' = [importing EXCEPT !.rest = @ \ {n}, !.waiting = waits]
    BY DEF RestoreNode
  <2> QED
    BY <2>1 DEF ImportTypeOK, Import
<1>4. importing # NoImport /\ importing' # NoImport
  BY <1>2, <1>3 DEF NoImport
<1>5. Underway # Importing!NoImport /\ Underway' = Underway
  BY <1>3, <1>4, UnderwayIsImport DEF Underway
<1>6. \E m \in Node : Importing!PutNext(m)
  BY <1>1, <1>4, PutsNext
<1>7. Importing!Restore
  BY <1>5, <1>6 DEF RestoreNode, Importing!Restore
<1> QED
  BY <1>7 DEF Importing!ImportNext

\* An import that throws has a node still to restore, and leaves the state it found.
LEMMA FailNodeKeeps ==
    ASSUME ImportTypeOK, ImportInv, overlaps = 0, AcyclicDefs', NEW n \in Node, FailNode(n)
    PROVE  Importing!ImportNext
<1>1. n \in Due /\ n \in importing.rest /\ importing.graph[n] # NoDef
  BY RestDefined, DueType DEF FailNode
<1>2. importing # NoImport /\ importing' = NoImport
  BY <1>1 DEF NoImport, FailNode, GiveUp
<1>3. Underway # Importing!NoImport /\ Underway' = Importing!NoImport
  BY <1>2, UnderwayIsImport, SameImportNotions DEF Underway, Importing!NoImport
<1>4. Underway.snapshot = importing.graph /\ Underway.found = importing.previous
  BY <1>2, UnderwayIsImport
<1>5. defs[n] = NoDef
  BY <1>1, <1>2 DEF ImportInv, Restored
<1>6. defs # Underway.snapshot
  BY <1>1, <1>4, <1>5
<1>7. state' = Underway.found
  BY <1>4 DEF FailNode, GiveUp, StateAfterFailure
<1>8. \/ UNCHANGED defs
      \/ \E m \in Node : Importing!PutNext(m)
  <2>1. \/ UNCHANGED defs
        \/ ~Defined(n) /\ defs' = [defs EXCEPT ![n] = importing.graph[n]]
    BY DEF FailNode
  <2> QED
    BY <1>1, <1>2, <2>1, PutsNext
<1>9. Importing!Fail
  BY <1>3, <1>6, <1>7, <1>8 DEF Importing!Fail
<1> QED
  BY <1>9 DEF Importing!ImportNext

\* With nothing left to restore the graph is the snapshot's, and a snapshot of a running
\* engine finds this one neither running nor destroyed.
LEMMA EndImportKeeps ==
    ASSUME ImportTypeOK, ImportInv, overlaps = 0, EndImport
    PROVE  Importing!ImportNext
<1>1. importing # NoImport /\ importing.rest = {} /\ UNCHANGED defs
  BY DEF EndImport, registries
<1>2. state \in {"initialized", "paused"} /\ Restored
  BY <1>1 DEF ImportInv
<1>3. importing' = NoImport /\ state' = importing.next
  BY <1>2 DEF EndImport, StateAfterImport
<1>4. Underway # Importing!NoImport /\ Underway' = Importing!NoImport
  BY <1>1, <1>3, UnderwayIsImport, SameImportNotions DEF Underway, Importing!NoImport
<1>5. Underway.snapshot = importing.graph /\ Underway.next = importing.next
  BY <1>1, UnderwayIsImport
<1>6. defs = importing.graph
  <2>1. \A n \in Node : defs[n] = importing.graph[n]
    BY <1>1, <1>2 DEF Restored
  <2>2. /\ defs \in [Node -> Def \cup {NoDef}]
        /\ importing.graph \in [Node -> Def \cup {NoDef}]
    BY DEF ImportTypeOK, TypeOK, Import, Graph
  <2> QED
    BY <2>1, <2>2
<1>7. Importing!Finish
  BY <1>1, <1>3, <1>4, <1>5, <1>6 DEF Importing!Finish
<1> QED
  BY <1>7 DEF Importing!ImportNext

\* Without an overlap, other calls find no import under way.
LEMMA OtherKeeps ==
    ASSUME ImportTypeOK, ImportInv, AcyclicDefs', overlaps' = 0, OtherStep
    PROVE  [Importing!ImportNext]_<<state, defs, Underway>>
<1>1. importing = NoImport /\ importing' = NoImport
  BY DEF OtherStep, ImportInv, ImportTypeOK
<1>2. Underway = Importing!NoImport /\ UNCHANGED Underway
  BY <1>1, UnderwayIsImport DEF Underway
<1>3. [Contract!Next]_<<state, defs>>
  BY ContractStep DEF OtherStep, ImportTypeOK
<1>4. CASE UNCHANGED <<state, defs>>
  BY <1>2, <1>4
<1>5. CASE Contract!Next
  <2>1. Importing!Otherwise
    BY <1>2, <1>5, NextIsOwn DEF Importing!Otherwise
  <2> QED
    BY <2>1 DEF Importing!ImportNext
<1> QED
  BY <1>3, <1>4, <1>5

LEMMA ImportContractStep ==
    ImportTypeOK /\ ImportTypeOK' /\ ImportInv /\ ImportInv' /\ [ImportNext]_importVars
    => [overlaps' = 0 => Importing!ImportNext]_<<state, defs, Underway>>
<1> SUFFICES ASSUME ImportTypeOK, ImportTypeOK', ImportInv, ImportInv',
                    [ImportNext]_importVars, overlaps' = 0
             PROVE  [Importing!ImportNext]_<<state, defs, Underway>>
  OBVIOUS
<1>1. AcyclicDefs'
  BY DEF ImportInv
<1>2. CASE ImportStep
  <2>1. ASSUME NEW g, NEW next, BeginImport(g, next) PROVE Importing!ImportNext
    BY <2>1, BeginKeeps
  <2>2. ASSUME NEW n \in Node, FailNode(n) PROVE Importing!ImportNext
    BY <1>1, <2>2, FailNodeKeeps DEF FailNode
  <2>3. CASE EndImport
    BY <2>3, EndImportKeeps DEF EndImport
  <2> QED
    BY <1>1, <1>2, <2>1, <2>2, <2>3, RestoreNodeKeeps DEF ImportStep
<1>3. CASE OtherStep
  BY <1>1, <1>3, OtherKeeps
<1>4. CASE UNCHANGED importVars
  BY <1>4 DEF importVars, vars, Underway
<1> QED
  BY <1>2, <1>3, <1>4 DEF ImportNext

\* As long as no call overlaps an import, the engine implements the contract: nothing
\* brings a destroyed engine back or closes a cycle; an import ends in the snapshot's
\* state with the whole graph of the snapshot, or fails and leaves the state it found
\* over a part of that graph.
THEOREM ImportContractKept == ImportSpec => ImportKeepsContract
<1>1. ImportInit => Importing!ImportInit
  BY SameImportNotions DEF ImportInit, Init, Underway, Importing!NoImport, Importing!ImportInit,
         Importing!Init
<1> QED
  BY <1>1, ImportContractStep, ImportInvariant, PTL DEF ImportSpec, ImportKeepsContract

-----------------------------------------------------------------------------
(* Subscriptions *)

\* Unless calls overlap it, an import runs in an engine that does not, and leaves no node
\* of a running engine without its subscription, except by failing.
ImportServed ==
    overlaps = 0 =>
        /\ ~unsubscribed => ServedInv
        /\ importing # NoImport => state # "running"

LEMMA NotRunningServed ==
    ASSUME state' # "running" \/ (unsubscribed' /\ importing' = NoImport)
    PROVE  ImportServed'
BY DEF ImportServed, ServedInv

LEMMA GiveUpServed ==
    ASSUME GiveUp
    PROVE  ImportServed'
<1>1. state' # "running" \/ (unsubscribed' /\ importing' = NoImport)
  BY DEF GiveUp, StateAfterFailure
<1> QED
  BY <1>1, NotRunningServed

LEMMA RestoredServed ==
    ASSUME TypeOK, RegistriesAgree, OrderInv, NEW b \in BOOLEAN, RestoreSubscriptions(b),
           UNCHANGED registries
    PROVE  ServedInv'
<1>1. \A n \in Node : Defined(n) => Pending(n)'
  BY RestoreFacts
<1> QED
  BY <1>1 DEF ServedInv, Served, Defined, RegistriesAgree, registries

LEMMA EndImportServed ==
    ASSUME ImportTypeOK, RegistriesAgree, OrderInv, EndImport
    PROVE  ImportServed'
<1>1. CASE GiveUp
  BY <1>1, GiveUpServed
<1>2. CASE importing.next # "running" /\ state' = importing.next
  BY <1>2, NotRunningServed
<1>3. CASE RestoreSubscriptions(state = "paused") /\ importing' = NoImport
  <2>1. TypeOK /\ UNCHANGED registries
    BY DEF ImportTypeOK, EndImport
  <2>2. ServedInv'
    BY <1>3, <2>1, RestoredServed
  <2> QED
    BY <1>3, <2>2 DEF ImportServed
<1> QED
  BY <1>1, <1>2, <1>3 DEF EndImport, StateAfterImport

LEMMA OtherServed ==
    ASSUME ImportTypeOK, ImportInv, RegistriesAgree, OrderInv, TurnInv, ImportServed, OtherStep
    PROVE  ImportServed'
<1> SUFFICES ASSUME overlaps' = 0
             PROVE  (~unsubscribed' => ServedInv') /\ (importing' # NoImport => state' # "running")
  BY DEF ImportServed
<1>1. overlaps = 0 /\ importing = NoImport /\ importing' = NoImport
  BY DEF OtherStep, ImportInv, ImportTypeOK
<1>2. CASE unsubscribed
  BY <1>1, <1>2 DEF OtherStep, ServedInv
<1>3. CASE ~unsubscribed
  <2>1. TypeOK /\ ServedInv /\ [Next]_vars
    BY <1>1, <1>3 DEF ImportServed, ImportTypeOK, OtherStep
  <2> QED
    BY <1>1, <2>1, ServedStep
<1> QED
  BY <1>2, <1>3

LEMMA ImportServedStep ==
    /\ ImportTypeOK /\ ImportInv /\ RegistriesAgree /\ OrderInv /\ TurnInv /\ ImportServed
    /\ [ImportNext]_importVars
    => ImportServed'
<1> SUFFICES ASSUME ImportTypeOK, ImportInv, RegistriesAgree, OrderInv, TurnInv, ImportServed,
                    [ImportNext]_importVars
             PROVE  ImportServed'
  OBVIOUS
<1>1. ASSUME NEW g, NEW next, BeginImport(g, next) PROVE ImportServed'
  <2>1. state' # "running"
    BY <1>1 DEF BeginImport
  <2> QED
    BY <2>1, NotRunningServed
<1>2. ASSUME NEW n \in Node, RestoreNode(n) PROVE ImportServed'
  <2>1. n \in importing.rest
    BY <1>2, DueType DEF RestoreNode
  <2>2. importing # NoImport
    BY <2>1 DEF NoImport
  <2>3. UNCHANGED <<state, overlaps, unsubscribed>>
    BY <1>2 DEF RestoreNode
  <2> QED
    BY <2>2, <2>3 DEF ImportServed, ServedInv
<1>3. ASSUME NEW n \in Node, FailNode(n) PROVE ImportServed'
  BY <1>3, GiveUpServed DEF FailNode
<1>4. CASE UNCHANGED importVars
  <2>1. UNCHANGED <<state, overlaps, unsubscribed, importing>> /\ UNCHANGED vars
    BY <1>4 DEF importVars, vars
  <2>2. ServedInv => ServedInv'
    BY <2>1, SameServed DEF vars, Pending
  <2> QED
    BY <2>1, <2>2 DEF ImportServed
<1> QED
  BY <1>1, <1>2, <1>3, <1>4, EndImportServed, OtherServed DEF ImportNext, ImportStep

\* A snapshot of a running engine is imported into one where every node with inputs is
\* subscribed, unless the import failed or other calls ran while it waited.
THEOREM ImportSubscribes == ImportSpec => []ImportedIsSubscribed
<1>1. ImportInit => ImportServed
  BY DEF ImportInit, Init, ImportServed, ServedInv
<1>2. ImportTypeOK /\ ImportServed => ImportedIsSubscribed
  BY ServedEnough DEF ImportServed, ImportedIsSubscribed, ImportTypeOK
<1> QED
  BY <1>1, <1>2, ImportServedStep, ImportInvariant, ImportRegistries, ImportTurnAlways, PTL DEF ImportSpec

\* Nor does an engine that imports forget a deferred update while it keeps its nodes.
THEOREM ImportForgetsNothing == ImportSpec => DeferredHandedOver
<1>1. ASSUME ImportTypeOK, ImportNext PROVE HandOver \/ UNCHANGED deferred
  <2>1. CASE OtherStep
    BY <1>1, <2>1, TurnHandsOver, NodeCallHandsOver, OtherHandsOver DEF OtherStep, Next, ImportTypeOK
  <2>2. CASE ImportStep
    BY <2>2 DEF ImportStep, BeginImport, ClearAllData, RestoreNode, FailNode, EndImport, HandOver
  <2> QED
    BY <1>1, <2>1, <2>2 DEF ImportNext
<1>2. ImportTypeOK /\ [ImportNext]_importVars => [HandOver]_deferred
  BY <1>1 DEF importVars, vars
<1>3. HandOver <=> (\/ DeferredIds \subseteq {deferred'[k].id : k \in DOMAIN deferred'}
                    \/ timers' = Append(timers, deferred)
                    \/ order' = <<>>)
  BY DEF HandOver, DeferredIds
<1> QED
  BY <1>2, <1>3, ImportTypes, PTL DEF ImportSpec, DeferredHandedOver
=============================================================================
