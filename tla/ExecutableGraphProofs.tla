------------------------ MODULE ExecutableGraphProofs ------------------------
(***************************************************************************)
(* ExecutableGraph has its types; no engine runs out of its reach; and     *)
(* what it says of its engine is true: that it runs, that the handlers     *)
(* listen to it, that it computes the graph's definition, and that a       *)
(* destroyed graph has none that runs; each but for the habits that the    *)
(* property names, for any number of engines and definitions.              *)
(***************************************************************************)
EXTENDS ExecutableGraph, TLAPS

Status == {"absent", "initialized", "running", "paused", "destroyed"}

\* DestroyEngine leaves engine states, and none of them live if only the engine of the
\* graph was.
LEMMA DestroyedStates ==
    ASSUME TypeOK
    PROVE  /\ DestroyEngine \in [Engine -> Status]
           /\ (\A x \in Engine : estate[x] \in Live => x = engine)
              => \A x \in Engine : DestroyEngine[x] \notin Live
<1> USE GraphAssumption DEF TypeOK, Status, DestroyEngine, HasEngine, Live
<1>1. CASE HasEngine
    <2>1. engine \in Engine
        BY <1>1
    <2> QED BY <2>1, <1>1
<1>2. CASE ~HasEngine
    BY <1>2
<1> QED BY <1>1, <1>2

\* An engine that holds something else has its place in the types.
LEMMA ContentHeld ==
    ASSUME TypeOK, NEW e \in Engine, NEW h \in Definition \cup {Partial}
    PROVE  [content EXCEPT ![e].held = h] \in [Engine -> Content]
BY DEF TypeOK, Content

LEMMA ImportHeld ==
    ASSUME NEW d \in Definition
    PROVE  Imported(d) \in Definition \cup {Partial}
BY DEF Imported

\* A new engine has its place in the types, and is the only one that lives if none did.
LEMMA Created ==
    ASSUME TypeOK,
           NEW e \in Engine, NEW states \in [Engine -> Status],
           NEW d \in Definition, NEW s \in Status,
           Create(e, states, d, s)
    PROVE  /\ engine' = e
           /\ estate' \in [Engine -> Status]
           /\ content' \in [Engine -> Content]
           /\ (\A x \in Engine : states[x] \notin Live)
              => \A x \in Engine : estate'[x] \in Live => x = engine'
BY ContentHeld, ImportHeld DEF TypeOK, Create, Status

LEMMA Launched ==
    ASSUME TypeOK,
           NEW e \in Engine, NEW states \in [Engine -> Status],
           NEW d \in Definition,
           Launch(e, states, d)
    PROVE  /\ engine' = e
           /\ estate' \in [Engine -> Status]
           /\ content' \in [Engine -> Content]
           /\ (\A x \in Engine : states[x] \notin Live)
              => \A x \in Engine : estate'[x] \in Live => x = engine'
<1> DEFINE s == IF d \in Refused THEN "initialized" ELSE "running"
<1>1. s \in Status
    BY DEF Status
<1>2. Create(e, states, d, s)
    BY DEF Launch
<1> QED BY <1>1, <1>2, Created

-----------------------------------------------------------------------------
(* Type correctness *)

EngineTypes ==
    /\ engine \in Engine \cup {NoEngine}
    /\ estate \in [Engine -> Status]
    /\ content \in [Engine -> Content]

\* The history keeps its type.
LEMMA NoteType ==
    ASSUME TypeOK, NEW h \in SUBSET Habit, Note(h)
    PROVE  used' \subseteq Habit
BY DEF TypeOK, Note, Habit

LEMMA HabitTypes ==
    /\ Retry \in SUBSET Habit
    /\ Reimport \in SUBSET Habit
    /\ Abandon \in SUBSET Habit
BY DEF Retry, Reimport, Abandon, Habit

\* LaunchOver, from any engine states.
LEMMA LaunchOverTypes ==
    ASSUME TypeOK, NEW states \in [Engine -> Status], NEW d \in Definition,
           NEW h \in Engine \cup {NoEngine},
           LaunchOver(states, d, h)
    PROVE  EngineTypes' /\ isRunning' \in BOOLEAN /\ handlers' \in Engine \cup {NoEngine}
<1>1. PICK e \in Engine :
         /\ Launch(e, states, d)
         /\ isRunning' = (d \notin Refused)
         /\ handlers' = IF d \in Refused THEN h ELSE e
    BY DEF LaunchOver
<1> QED BY <1>1, Launched DEF EngineTypes

\* What the graph has after a start.
LEMMA StartTypes ==
    ASSUME TypeOK, HasEngine, StartEngine
    PROVE  EngineTypes' /\ isRunning' \in BOOLEAN
BY DEF TypeOK, HasEngine, StartEngine, EngineTypes, Status

LEMMA StartInternalTypes ==
    ASSUME TypeOK, StartInternal
    PROVE  EngineTypes' /\ isRunning' \in BOOLEAN /\ handlers' \in Engine \cup {NoEngine}
<1> USE DEF TypeOK
<1>1. CASE UNCHANGED <<engines, isRunning, handlers>>
    BY <1>1 DEF engines, EngineTypes, Status
<1>2. CASE LaunchOver(estate, definition, handlers)
    BY <1>2, LaunchOverTypes DEF Status
<1>3. CASE HasEngine /\ StartAndSubscribe
    BY <1>3, StartTypes DEF StartAndSubscribe, HasEngine
<1> QED BY <1>1, <1>2, <1>3 DEF StartInternal, EngineIs

\* An import leaves the engine as it was, or in the state of the snapshot.
LEMMA ImportOutcome ==
    ASSUME TypeOK, NEW e, NEW s
    PROVE  [estate EXCEPT ![e] = AfterImport(s, @)]
             \in {estate, [estate EXCEPT ![e] = "initialized"]}
<1>1. [estate EXCEPT ![e] = estate[e]] = estate
    BY DEF TypeOK
<1> QED BY <1>1 DEF AfterImport, SnapshotState

\* importState, up to its await.
LEMMA ImportBegins ==
    ASSUME TypeOK, NEW s \in Definition, ImportState(s)
    PROVE  \E e \in Engine :
             /\ engine' = e
             /\ ~HasEngine \/ e = engine
             /\ content' = [content EXCEPT ![e].held = Imported(s)]
             /\ estate' \in {estate, [estate EXCEPT ![e] = "initialized"],
                             [estate EXCEPT ![e] = "paused"]}
             /\ ImportInto(e, s, isLongRunning /\ isRunning) \/ UNCHANGED importing
             /\ handlers' = Unheard(e)
<1> DEFINE resume == isLongRunning /\ isRunning
           kept(e) == IF resume THEN "paused" ELSE IF HasEngine THEN estate[e] ELSE "initialized"
<1>1. PICK e \in Engine :
         /\ engine' = e
         /\ ~HasEngine \/ e = engine
         /\ content' = [content EXCEPT ![e].held = Imported(s)]
         /\ estate' = [estate EXCEPT ![e] = AfterImport(s, kept(e))]
         /\ ImportInto(e, s, resume) \/ UNCHANGED importing
         /\ handlers' = Unheard(e)
    BY DEF ImportState
<1>2. kept(e) \in {"paused", "initialized", estate[e]}
    OBVIOUS
<1>3. [estate EXCEPT ![e] = estate[e]] = estate
    BY DEF TypeOK
<1> HIDE DEF kept
<1>4. estate' \in {estate, [estate EXCEPT ![e] = "initialized"], [estate EXCEPT ![e] = "paused"]}
    BY <1>1, <1>2, <1>3 DEF AfterImport, SnapshotState
<1> QED BY <1>1, <1>4

LEMMA RestoreTypes ==
    ASSUME TypeOK, NEW s \in Definition, RestoreFirst(s)
    PROVE  EngineTypes' /\ isRunning' \in BOOLEAN /\ handlers' \in Engine \cup {NoEngine}
<1> USE DEF TypeOK
<1>1. CASE LaunchOver(estate, definition, handlers)
    BY <1>1, LaunchOverTypes DEF Status
<1>2. CASE /\ \E e \in Engine : Create(e, estate, s, "running") /\ handlers' = e
           /\ isRunning' = TRUE
    BY <1>2, Created DEF EngineTypes, Status
<1>3. CASE UNCHANGED <<engines, isRunning, handlers>>
    BY <1>3 DEF engines, EngineTypes, Status
<1>4. CASE /\ HasEngine
           /\ content' = [content EXCEPT ![engine].held = Imported(s)]
           /\ UNCHANGED engine
           /\ estate' \in {estate, [estate EXCEPT ![engine] = "initialized"],
                           [estate EXCEPT ![engine] = "running"]}
           /\ isRunning' \in {isRunning, TRUE}
           /\ handlers' \in {Unheard(engine), engine}
    <2>1. engine \in Engine
        BY <1>4 DEF HasEngine
    <2>2. estate' \in [Engine -> Status]
        BY <1>4, <2>1 DEF Status
    <2>3. content' \in [Engine -> Content]
        BY <1>4, <2>1, ContentHeld, ImportHeld
    <2> QED BY <1>4, <2>1, <2>2, <2>3 DEF EngineTypes, Unheard
<1> QED BY <1>1, <1>2, <1>3, <1>4, ImportOutcome DEF RestoreFirst, EngineIs

\* The initial state and every call keep the types.
LEMMA TypeInit == Init => TypeOK
<1> SUFFICES ASSUME Init
             PROVE  TypeOK
    OBVIOUS
<1>1. content \in [Engine -> Content]
    BY DEF Init, Content
<1> QED BY <1>1, GraphAssumption DEF Init, TypeOK, NoImport

LEMMA TypeStep == TypeOK /\ [Next]_vars => TypeOK'
<1> SUFFICES ASSUME TypeOK, [Next]_vars
             PROVE  TypeOK'
    OBVIOUS
<1> USE DEF TypeOK
<1>0. EngineTypes
    BY DEF EngineTypes, Status
<1>1. CASE Run
    BY <1>1, StartInternalTypes, HabitTypes, NoteType DEF Run, EngineTypes, Status
<1>2. CASE Execute
    BY <1>2, StartInternalTypes, HabitTypes, NoteType DEF Execute, EngineTypes, Status
<1>3. ASSUME PeekFirst
      PROVE  EngineTypes'
    BY <1>3, Launched DEF PeekFirst, EngineTypes, Status
<1>4. CASE Poll
    BY <1>4, <1>3, <1>0 DEF Poll, engines, flags, EngineTypes, Status
<1>5. CASE WaitEnds
    BY <1>5 DEF WaitEnds, engines, flags
<1>6. CASE Observe
    <2>1. {"observe"} \cup Retry \in SUBSET Habit
        BY HabitTypes DEF Habit
    <2>2. ASSUME NEW e \in Engine, Create(e, estate, definition, "running")
          PROVE  EngineTypes'
        BY <2>2, Created DEF EngineTypes, Status
    <2>3. ASSUME NEW e \in Engine, Launch(e, estate, definition)
          PROVE  EngineTypes'
        BY <2>3, Launched DEF EngineTypes, Status
    <2>4. EngineTypes' /\ isRunning' \in BOOLEAN
        BY <1>6, <2>2, <2>3, StartTypes
           DEF Observe, ObserveNode, ObserveSubscribedNodes, EngineIs
    <2>5. used' \subseteq Habit
        BY <1>6, <2>1, NoteType DEF Observe
    <2> QED BY <1>6, <2>4, <2>5 DEF Observe, EngineTypes, Status
<1>7. CASE On
    BY <1>7, Created, NoteType DEF On, flags, Status
<1>8. CASE PeekByCaller
    BY <1>8, <1>3, NoteType DEF PeekByCaller, flags, EngineTypes, Status, Habit
<1>9. CASE Stop
    BY <1>9, DestroyedStates, NoteType DEF Stop, Status
<1>10. CASE Pause
    BY <1>10, NoteType DEF Pause, EngineIs, HasEngine, flags
<1>11. CASE Resume
    BY <1>11, NoteType DEF Resume, EngineIs, HasEngine, flags
<1>12. CASE Destroy
    BY <1>12, DestroyedStates, HabitTypes, NoteType DEF Destroy, Status
<1>13. CASE \E s \in Definition : RunRestored(s)
    <2>1. {"restore"} \cup Reimport \in SUBSET Habit
        BY HabitTypes DEF Habit
    <2> QED BY <1>13, <2>1, RestoreTypes, NoteType DEF RunRestored, EngineTypes, Status
<1>14. CASE \E s \in Definition : ImportState(s)
    <2>1. PICK s \in Definition : ImportState(s)
        BY <1>14
    <2>2. PICK e \in Engine :
             /\ engine' = e
             /\ content' = [content EXCEPT ![e].held = Imported(s)]
             /\ estate' \in {estate, [estate EXCEPT ![e] = "initialized"],
                             [estate EXCEPT ![e] = "paused"]}
             /\ ImportInto(e, s, isLongRunning /\ isRunning) \/ UNCHANGED importing
             /\ handlers' = Unheard(e)
        BY <2>1, ImportBegins
    <2>3. estate' \in [Engine -> Status]
        BY <2>2 DEF Status
    <2>4. content' \in [Engine -> Content]
        BY <2>2, ContentHeld, ImportHeld
    <2>5. handlers' \in Engine \cup {NoEngine}
        BY <2>2 DEF Unheard
    <2>6. importing' \in [engine : Engine, snapshot : Definition, resume : BOOLEAN]
                         \cup {NoImport}
        BY <2>2 DEF ImportInto
    <2>7. used' \subseteq Habit
        BY <2>1, HabitTypes, NoteType DEF ImportState
    <2> QED BY <2>1, <2>2, <2>3, <2>4, <2>5, <2>6, <2>7 DEF ImportState, flags, Status
<1>15. CASE \E d \in Definition \cup {Malformed}, autoStart \in BOOLEAN :
               UpdateGraph(d, autoStart)
    <2>1. PICK d \in Definition \cup {Malformed}, autoStart \in BOOLEAN :
             UpdateGraph(d, autoStart)
        BY <1>15
    <2> DEFINE listening == IF HasEngine THEN NoEngine ELSE handlers
    <2>2. CASE /\ d # Malformed
               /\ definition' = d
               /\ LaunchOver(DestroyEngine, d, listening)
        BY <2>1, <2>2, LaunchOverTypes, DestroyedStates, HabitTypes, NoteType
           DEF UpdateGraph, EngineTypes, Status
    <2>3. CASE /\ definition' = IF d = Malformed THEN definition ELSE d
               /\ engine' = NoEngine
               /\ estate' = DestroyEngine
               /\ isRunning' = FALSE
               /\ handlers' = listening
               /\ UNCHANGED content
        BY <2>1, <2>3, DestroyedStates, HabitTypes, NoteType DEF UpdateGraph, Status
    <2> QED BY <2>1, <2>2, <2>3 DEF UpdateGraph
<1>16. CASE ImportEnds
    BY <1>16 DEF ImportEnds, UpdateGraphFromState, flags, NoImport
<1>17. CASE \E e \in Engine : SkipPauses(e)
    BY <1>17 DEF SkipPauses, flags
<1>18. CASE UNCHANGED vars
    BY <1>18 DEF vars, engines, flags
<1>19. CASE \E d \in Definition : UpdateNode(d)
    <2>1. PICK d \in Definition : UpdateNode(d)
        BY <1>19
    <2>2. engine \in Engine
        BY <2>1 DEF UpdateNode, EngineIs, HasEngine
    <2>3. content' \in [Engine -> Content]
        <3>1. CASE UpdateEngine(d)
            <4>1. PICK h \in Definition \cup {Partial} :
                     content' = [content EXCEPT ![engine].held = h]
                BY <3>1 DEF UpdateEngine
            <4> QED BY <2>2, <4>1, ContentHeld
        <3>2. CASE content' = [content EXCEPT ![engine].late = TRUE]
            BY <2>2, <3>2 DEF Content
        <3> QED BY <2>1, <3>1, <3>2 DEF UpdateNode
    <2>4. used' \subseteq Habit
        BY <2>1, NoteType DEF UpdateNode, Habit
    <2> QED BY <2>1, <2>3, <2>4 DEF UpdateNode, flags
<1>20. CASE \E e \in Engine : LateUpdates(e)
    <2>1. PICK e \in Engine : LateUpdates(e)
        BY <1>20
    <2>2. PICK h \in Definition \cup {Partial} :
             content' = [content EXCEPT ![e] = [held |-> h, late |-> FALSE]]
        BY <2>1 DEF LateUpdates, Content
    <2>3. content' \in [Engine -> Content]
        BY <2>2 DEF Content
    <2> QED BY <2>1, <2>3 DEF LateUpdates, flags
<1> QED BY <1>1, <1>2, <1>4, <1>5, <1>6, <1>7, <1>8, <1>9, <1>10, <1>11, <1>12, <1>13,
           <1>14, <1>15, <1>16, <1>17, <1>18, <1>19, <1>20 DEF Next

\* Type correctness of the graph's engines, flags and import.
THEOREM TypeCorrect == Spec => []TypeOK
BY TypeInit, TypeStep, PTL DEF Spec

-----------------------------------------------------------------------------
(* No orphans *)

\* Unless calls overlap an import, it ends with the engine that the graph has.
ImportKept ==
    Never({"overlap"}) /\ importing # NoImport => importing.engine = engine

\* Engines that only the graph's engine may be alive among.
OnlyOurs == \A x \in Engine : estate[x] \in Live => x = engine

\* A call notes an overlap, so that without one nothing was being imported.
LEMMA NoteOverlap ==
    ASSUME NEW h, Note(h), Never({"overlap"})'
    PROVE  Never({"overlap"}) /\ importing = NoImport
<1>1. "overlap" \notin used'
    BY DEF Never
<1>2. used \subseteq used' /\ importing = NoImport
    BY <1>1 DEF Note
<1> QED BY <1>1, <1>2 DEF Never

\* Without an engine, or with a destroyed one, nothing lives.
LEMMA NothingLives ==
    ASSUME TypeOK, OnlyOurs, ~HasEngine \/ EngineIs({"destroyed"})
    PROVE  \A x \in Engine : estate[x] \notin Live
BY GraphAssumption DEF TypeOK, OnlyOurs, HasEngine, EngineIs, Live

\* A start, over engine states in which nothing lives.
LEMMA LaunchOverOurs ==
    ASSUME TypeOK, NEW states \in [Engine -> Status], NEW d \in Definition, NEW h,
           \A x \in Engine : states[x] \notin Live,
           LaunchOver(states, d, h)
    PROVE  OnlyOurs'
BY Launched DEF LaunchOver, OnlyOurs

\* An engine of the graph that changes its state in place.
LEMMA InPlace ==
    ASSUME TypeOK, OnlyOurs, UNCHANGED engine,
           NEW s, estate' = [estate EXCEPT ![engine] = s]
    PROVE  OnlyOurs'
BY DEF TypeOK, OnlyOurs

LEMMA StartInternalOurs ==
    ASSUME TypeOK, OnlyOurs, StartInternal
    PROVE  OnlyOurs'
<1> USE DEF TypeOK
<1>1. CASE UNCHANGED <<engines, isRunning, handlers>>
    BY <1>1 DEF engines, OnlyOurs
<1>2. CASE (~HasEngine \/ EngineIs({"destroyed"})) /\ LaunchOver(estate, definition, handlers)
    BY <1>2, NothingLives, LaunchOverOurs DEF Status
<1>3. CASE StartAndSubscribe
    BY <1>3, InPlace DEF StartAndSubscribe, StartEngine
<1> QED BY <1>1, <1>2, <1>3 DEF StartInternal

LEMMA RestoreOurs ==
    ASSUME TypeOK, OnlyOurs, NEW s \in Definition, RestoreFirst(s)
    PROVE  OnlyOurs'
<1> USE DEF TypeOK
<1>1. CASE (~HasEngine \/ EngineIs({"destroyed"})) /\ LaunchOver(estate, definition, handlers)
    BY <1>1, NothingLives, LaunchOverOurs DEF Status
<1>2. CASE ~HasEngine /\ \E e \in Engine : Create(e, estate, s, "running")
    BY <1>2, NothingLives, Created DEF Status, OnlyOurs
<1>3. CASE UNCHANGED <<engines, isRunning, handlers>>
    BY <1>3 DEF engines, OnlyOurs
<1>4. CASE UNCHANGED <<engine, estate>>
    BY <1>4 DEF OnlyOurs
<1>5. CASE UNCHANGED engine /\ estate' = [estate EXCEPT ![engine] = "initialized"]
    BY <1>5, InPlace
<1>6. CASE UNCHANGED engine /\ estate' = [estate EXCEPT ![engine] = "running"]
    BY <1>6, InPlace
<1> QED BY <1>1, <1>2, <1>3, <1>4, <1>5, <1>6, ImportOutcome DEF RestoreFirst

\* NoOrphan alone is not inductive: importState gives the graph back the engine that
\* it imported into, which must be the one the graph has.
LEMMA OrphanInit == Init => NoOrphan /\ ImportKept
BY DEF Init, NoOrphan, ImportKept, Live

LEMMA OrphanStep ==
    TypeOK /\ NoOrphan /\ ImportKept /\ [Next]_vars => (NoOrphan /\ ImportKept)'
<1> SUFFICES ASSUME TypeOK, NoOrphan, ImportKept, [Next]_vars, Never({"overlap"})'
             PROVE  OnlyOurs' /\ (importing' # NoImport => importing'.engine = engine')
    BY DEF NoOrphan, ImportKept, OnlyOurs, NoImport
<1> USE DEF TypeOK
<1>a. ASSUME NEW h, Note(h)
      PROVE  OnlyOurs /\ importing = NoImport
    BY <1>a, NoteOverlap DEF NoOrphan, OnlyOurs
<1>b. ASSUME UNCHANGED used
      PROVE  OnlyOurs /\ (importing # NoImport => importing.engine = engine)
    BY <1>b DEF NoOrphan, ImportKept, OnlyOurs, Never
<1>c. ASSUME OnlyOurs, PeekFirst
      PROVE  OnlyOurs'
    BY <1>c, NothingLives, Launched DEF PeekFirst, OnlyOurs, Status
<1>1. CASE Run
    BY <1>1, <1>a, StartInternalOurs DEF Run
<1>2. CASE Execute
    BY <1>2, <1>a, StartInternalOurs DEF Execute
<1>4. CASE Poll
    <2>1. OnlyOurs /\ (importing # NoImport => importing.engine = engine)
        BY <1>4, <1>b DEF Poll
    <2>2. CASE PeekFirst
        <3>1. importing = NoImport
            BY <2>1, <2>2, GraphAssumption DEF PeekFirst, HasEngine
        <3> QED BY <1>4, <2>1, <2>2, <3>1, <1>c DEF Poll
    <2>3. CASE UNCHANGED engines
        BY <1>4, <2>1, <2>3 DEF Poll, engines, OnlyOurs
    <2> QED BY <1>4, <2>2, <2>3 DEF Poll
<1>5. CASE WaitEnds
    BY <1>5, <1>b DEF WaitEnds, engines, OnlyOurs
<1>6. CASE Observe
    <2>1. OnlyOurs /\ importing = NoImport /\ UNCHANGED importing
        BY <1>6, <1>a DEF Observe
    <2>2. CASE StartEngine
        BY <2>1, <2>2, InPlace DEF StartEngine
    <2>3. CASE ~HasEngine /\ \E e \in Engine : Create(e, estate, definition, "running")
        BY <2>1, <2>3, NothingLives, Created DEF Status, OnlyOurs
    <2>4. CASE ~HasEngine /\ \E e \in Engine : Launch(e, estate, definition)
        BY <2>1, <2>4, NothingLives, Launched DEF Status, OnlyOurs
    <2> QED BY <1>6, <2>2, <2>3, <2>4 DEF Observe, ObserveNode, ObserveSubscribedNodes
<1>7. CASE On
    <2>1. OnlyOurs /\ importing = NoImport /\ UNCHANGED importing /\ ~HasEngine
        BY <1>7, <1>a DEF On
    <2>2. PICK e \in Engine : Create(e, estate, definition, "initialized")
        BY <1>7 DEF On
    <2> QED BY <2>1, <2>2, NothingLives, Created DEF Status, OnlyOurs
<1>8. CASE PeekByCaller
    BY <1>8, <1>a, <1>c DEF PeekByCaller
<1>9. CASE Stop
    <2>1. OnlyOurs /\ importing = NoImport /\ UNCHANGED <<importing, engine>>
        BY <1>9, <1>a DEF Stop
    <2>2. CASE estate' = DestroyEngine
        BY <2>1, <2>2, DestroyedStates DEF OnlyOurs
    <2>3. CASE UNCHANGED estate
        BY <2>1, <2>3 DEF OnlyOurs
    <2> QED BY <1>9, <2>1, <2>2, <2>3 DEF Stop
<1>10. CASE Pause
    BY <1>10, <1>a, InPlace DEF Pause
<1>11. CASE Resume
    BY <1>11, <1>a, InPlace DEF Resume
<1>12. CASE Destroy
    BY <1>12, <1>a, DestroyedStates DEF Destroy, OnlyOurs
<1>13. CASE \E s \in Definition : RunRestored(s)
    BY <1>13, <1>a, RestoreOurs DEF RunRestored
<1>14. CASE \E s \in Definition : ImportState(s)
    <2>1. PICK s \in Definition : ImportState(s)
        BY <1>14
    <2>2. OnlyOurs /\ importing = NoImport
        BY <2>1, <1>a DEF ImportState
    <2>3. PICK e \in Engine :
             /\ engine' = e
             /\ ~HasEngine \/ e = engine
             /\ \/ estate' = [estate EXCEPT ![e] = "initialized"]
                \/ estate' = [estate EXCEPT ![e] = "paused"]
                \/ estate' = estate
             /\ ImportInto(e, s, isLongRunning /\ isRunning) \/ UNCHANGED importing
        BY <2>1, ImportBegins
    <2>4. \A x \in Engine : estate[x] \in Live => x = e
        BY <2>2, <2>3, NothingLives DEF OnlyOurs
    <2>5. OnlyOurs'
        BY <2>3, <2>4 DEF OnlyOurs
    <2>6. importing' # NoImport => importing'.engine = e
        BY <2>2, <2>3 DEF ImportInto
    <2> QED BY <2>3, <2>5, <2>6
<1>15. CASE \E d \in Definition \cup {Malformed}, autoStart \in BOOLEAN :
               UpdateGraph(d, autoStart)
    <2>1. PICK d \in Definition \cup {Malformed}, autoStart \in BOOLEAN :
             UpdateGraph(d, autoStart)
        BY <1>15
    <2>2. OnlyOurs /\ importing = NoImport /\ UNCHANGED importing
        BY <2>1, <1>a DEF UpdateGraph
    <2>3. /\ DestroyEngine \in [Engine -> Status]
          /\ \A x \in Engine : DestroyEngine[x] \notin Live
        BY <2>2, DestroyedStates DEF OnlyOurs
    <2>4. CASE d # Malformed /\ \E h : LaunchOver(DestroyEngine, d, h)
        BY <2>2, <2>3, <2>4, LaunchOverOurs
    <2>5. CASE estate' = DestroyEngine
        BY <2>2, <2>3, <2>5 DEF OnlyOurs
    <2> QED BY <2>1, <2>4, <2>5 DEF UpdateGraph
<1>16. CASE ImportEnds
    <2>1. OnlyOurs /\ importing.engine = engine /\ UNCHANGED engine
        BY <1>16, <1>b DEF ImportEnds
    <2> QED BY <1>16, <2>1, InPlace DEF ImportEnds, OnlyOurs
<1>17. CASE \E e \in Engine : SkipPauses(e)
    <2>1. PICK e \in Engine : SkipPauses(e)
        BY <1>17
    <2>2. OnlyOurs /\ (importing # NoImport => importing.engine = engine)
        BY <2>1, <1>b DEF SkipPauses
    <2>3. e = engine
        BY <2>1, <2>2 DEF SkipPauses, OnlyOurs, Live
    <2> QED BY <2>1, <2>2, <2>3, InPlace DEF SkipPauses
<1>18. CASE UNCHANGED vars
    BY <1>18, <1>b DEF vars, engines, OnlyOurs
<1>19. CASE \E d \in Definition : UpdateNode(d)
    BY <1>19, <1>a DEF UpdateNode, OnlyOurs
<1>20. CASE \E e \in Engine : LateUpdates(e)
    BY <1>20, <1>b DEF LateUpdates, OnlyOurs
<1> QED BY <1>1, <1>2, <1>4, <1>5, <1>6, <1>7, <1>8, <1>9, <1>10, <1>11, <1>12, <1>13,
           <1>14, <1>15, <1>16, <1>17, <1>18, <1>19, <1>20 DEF Next

\* Unless calls overlap an import, every engine that runs is the graph's engine, so
\* that stop() and destroy() reach it.
THEOREM NoOrphanEver == Spec => []NoOrphan
<1>1. Init => TypeOK /\ NoOrphan /\ ImportKept
    BY TypeInit, OrphanInit
<1>2. TypeOK /\ NoOrphan /\ ImportKept /\ [Next]_vars
      => (TypeOK /\ NoOrphan /\ ImportKept)'
    BY TypeStep, OrphanStep
<1> QED BY <1>1, <1>2, PTL DEF Spec

-----------------------------------------------------------------------------
(* What importState leaves *)

\* The engine of an import that no call has overlapped is the graph's, and is in the
\* state of the snapshot: nothing else that may happen meanwhile changes it.
AtRest ==
    Never({"overlap"}) /\ importing # NoImport
    => importing.engine = engine /\ estate[engine] = "initialized"

LEMMA RestStep == TypeOK /\ AtRest /\ [Next]_vars => AtRest'
<1> SUFFICES ASSUME TypeOK, AtRest, [Next]_vars, Never({"overlap"})', importing' # NoImport
             PROVE  importing'.engine = engine' /\ estate'[engine'] = "initialized"
    BY DEF AtRest, NoImport
<1> USE DEF TypeOK
\* Calls other than importState find no import and leave it at that.
<1>a. ASSUME NEW h, Note(h), UNCHANGED importing
      PROVE  FALSE
    BY <1>a, NoteOverlap
<1>b. ASSUME UNCHANGED <<importing, used>>
      PROVE  importing.engine = engine /\ estate[engine] = "initialized"
    BY <1>b DEF AtRest, Never
<1>1. CASE Run \/ Execute \/ Observe \/ On \/ PeekByCaller \/ Stop \/ Pause \/ Resume \/ Destroy
    BY <1>1, <1>a DEF Run, Execute, Observe, On, PeekByCaller, Stop, Pause, Resume, Destroy
<1>2. CASE Poll
    <2>1. importing.engine = engine /\ estate[engine] = "initialized" /\ UNCHANGED importing
        BY <1>2, <1>b DEF Poll
    <2>2. ~PeekFirst
        BY <1>2, <2>1, GraphAssumption DEF PeekFirst, HasEngine, Poll
    <2> QED BY <1>2, <2>1, <2>2 DEF Poll, engines
<1>3. CASE WaitEnds
    BY <1>3, <1>b DEF WaitEnds, engines
<1>4. CASE \E s \in Definition : RunRestored(s)
    BY <1>4, <1>a DEF RunRestored
<1>5. CASE \E s \in Definition : ImportState(s)
    <2>1. PICK s \in Definition : ImportState(s)
        BY <1>5
    <2>2. s \notin Refused
        BY <2>1 DEF ImportState
    <2>3. PICK e \in Engine :
             /\ engine' = e
             /\ ImportInto(e, s, isLongRunning /\ isRunning)
             /\ estate' = [estate EXCEPT ![e] = "initialized"]
        BY <2>1, <2>2 DEF ImportState, AfterImport, SnapshotState
    <2> QED BY <2>3 DEF ImportInto
<1>6. CASE \E d \in Definition \cup {Malformed}, autoStart \in BOOLEAN : UpdateGraph(d, autoStart)
    BY <1>6, <1>a DEF UpdateGraph
<1>7. CASE ImportEnds
    BY <1>7 DEF ImportEnds
<1>8. CASE \E d \in Definition : UpdateNode(d)
    BY <1>8, <1>a DEF UpdateNode
<1>9. CASE \E e \in Engine : SkipPauses(e)
    BY <1>9, <1>b DEF SkipPauses
<1>10. CASE \E e \in Engine : LateUpdates(e)
    BY <1>10, <1>b DEF LateUpdates
<1>11. CASE UNCHANGED vars
    BY <1>11, <1>b DEF vars, engines
<1> QED BY <1>1, <1>2, <1>3, <1>4, <1>5, <1>6, <1>7, <1>8, <1>9, <1>10, <1>11 DEF Next

\* The end of an import that no call has overlapped leaves the engine as the snapshot
\* says, never running, whatever the graph was: what the run graph_import finds once is
\* so of every import.
ImportNeverResumes ==
    [][ /\ importing # NoImport
        /\ importing' = NoImport
        /\ "overlap" \notin used
        => estate'[engine'] = "initialized" ]_vars

\* The end of an import that no call overlapped never finds the engine paused, so the
\* resume() in importState is never reached in the state it needs (graph.ts:632).
THEOREM ImportStopsGraph == Spec => ImportNeverResumes
<1>1. Init => AtRest
    BY DEF Init, AtRest
<1>2. TypeOK /\ AtRest /\ [Next]_vars
      => ( /\ importing # NoImport
           /\ importing' = NoImport
           /\ "overlap" \notin used
           => estate'[engine'] = "initialized" )
    <2> SUFFICES ASSUME TypeOK, AtRest, [Next]_vars, importing # NoImport,
                        importing' = NoImport, "overlap" \notin used
                 PROVE  estate'[engine'] = "initialized"
        OBVIOUS
    <2>1. importing.engine = engine /\ estate[engine] = "initialized"
        BY DEF AtRest, Never
    <2>2. ImportEnds
        BY DEF Next, vars, Run, Execute, Poll, WaitEnds, Observe, On, PeekByCaller, Stop,
               Pause, Resume, Destroy, RunRestored, ImportState, ImportInto, UpdateGraph,
               UpdateNode, SkipPauses, LateUpdates, NoImport
    <2> QED BY <2>1, <2>2 DEF ImportEnds
<1> QED BY <1>1, <1>2, RestStep, TypeInit, TypeStep, PTL DEF Spec, ImportNeverResumes

-----------------------------------------------------------------------------
(* The habits of callers, and the flag that the graph runs *)

\* A call notes its habits: if none of F has been seen after it, none was before, the
\* call has none of them, and nothing was being imported.
LEMMA NoteNever ==
    ASSUME NEW F, "overlap" \in F, NEW h, Note(h), Never(F)'
    PROVE  Never(F) /\ importing = NoImport /\ h \cap F = {}
<1>1. used' \cap F = {}
    BY DEF Never
<1>2. /\ used \subseteq used'
      /\ h \subseteq used'
      /\ importing # NoImport => "overlap" \in used'
    BY DEF Note
<1> QED BY <1>1, <1>2 DEF Never

LEMMA QuietNever ==
    ASSUME NEW F, UNCHANGED used, Never(F)'
    PROVE  Never(F)
BY DEF Never

\* Creating an engine, over any engine states.
LEMMA CreatedIs ==
    ASSUME NEW e \in Engine, NEW states \in [Engine -> Status], NEW d, NEW s,
           Create(e, states, d, s)
    PROVE  /\ states[e] = "absent"
           /\ engine' = e
           /\ HasEngine'
           /\ estate'[e] = s
BY GraphAssumption DEF Create, HasEngine

\* The states an engine may be in when LaunchOver has been tried.
LEMMA LaunchedIs ==
    ASSUME NEW states \in [Engine -> Status], NEW d, NEW h, LaunchOver(states, d, h)
    PROVE  /\ HasEngine'
           /\ engine' \in Engine
           /\ estate'[engine'] = IF d \in Refused THEN "initialized" ELSE "running"
           /\ isRunning' = (d \notin Refused)
           /\ handlers' = IF d \in Refused THEN h ELSE engine'
<1>1. PICK e \in Engine :
         /\ Launch(e, states, d)
         /\ isRunning' = (d \notin Refused)
         /\ handlers' = IF d \in Refused THEN h ELSE e
    BY DEF LaunchOver
<1>2. Create(e, states, d, IF d \in Refused THEN "initialized" ELSE "running")
    BY <1>1 DEF Launch
<1> QED BY <1>1, <1>2, CreatedIs

-----------------------------------------------------------------------------
(* The running flag *)

Unseen == Habit \ {"observe", "restore", "retry", "defer"}

\* Besides the flag: an import that was not noted as one into a running engine resumes
\* nothing, and execute() waits for an engine that is there.
FlagInv ==
    Never(Unseen) =>
        /\ ~isDestroyed => (isRunning <=> EngineIs(Live))
        /\ importing # NoImport => importing.engine = engine /\ ~importing.resume
        /\ waiting => HasEngine

LEMMA FlagInit == Init => FlagInv
BY GraphAssumption DEF Init, FlagInv, EngineIs, HasEngine

LEMMA StartInternalFlag ==
    ASSUME TypeOK, isRunning <=> EngineIs(Live), StartInternal
    PROVE  (isRunning' <=> EngineIs(Live)') /\ (HasEngine \/ isRunning' => HasEngine')
<1> USE DEF TypeOK
<1>1. CASE UNCHANGED <<engines, isRunning, handlers>>
    BY <1>1 DEF engines, EngineIs, HasEngine
<1>2. CASE LaunchOver(estate, definition, handlers)
    BY <1>2, LaunchedIs DEF Status, EngineIs, Live
<1>3. CASE HasEngine /\ StartAndSubscribe
    BY <1>3 DEF StartAndSubscribe, StartEngine, EngineIs, HasEngine, Live
<1> QED BY <1>1, <1>2, <1>3 DEF StartInternal, EngineIs

LEMMA FlagStep == TypeOK /\ FlagInv /\ [Next]_vars => FlagInv'
<1> SUFFICES ASSUME TypeOK, FlagInv, [Next]_vars, Never(Unseen)'
             PROVE  /\ ~isDestroyed' => (isRunning' <=> EngineIs(Live)')
                    /\ importing' # NoImport
                       => importing'.engine = engine' /\ ~importing'.resume
                    /\ waiting' => HasEngine'
    BY DEF FlagInv, NoImport
<1> DEFINE Now == /\ ~isDestroyed => (isRunning <=> EngineIs(Live))
                  /\ importing # NoImport => importing.engine = engine /\ ~importing.resume
                  /\ waiting => HasEngine
<1>0. "overlap" \in Unseen /\ "peek" \in Unseen /\ "reimport" \in Unseen /\ "abandon" \in Unseen
    BY DEF Unseen, Habit
<1>a. ASSUME NEW h, Note(h)
      PROVE  Now /\ importing = NoImport /\ h \cap Unseen = {}
    BY <1>a, <1>0, NoteNever DEF FlagInv
<1>b. ASSUME UNCHANGED used
      PROVE  Now
    BY <1>b, QuietNever DEF FlagInv
<1> USE DEF TypeOK
<1>1. CASE Run
    BY <1>1, <1>a, StartInternalFlag DEF Run
<1>2. CASE Execute
    BY <1>2, <1>a, StartInternalFlag DEF Execute
<1>3. CASE Poll
    BY <1>3, <1>b DEF Poll, PeekFirst, engines, flags, EngineIs, HasEngine
<1>4. CASE WaitEnds
    BY <1>4, <1>b DEF WaitEnds, engines, flags, EngineIs, HasEngine
<1>5. CASE Observe
    <2>1. Now /\ importing = NoImport /\ UNCHANGED <<importing, waiting, isDestroyed>>
        BY <1>5, <1>a DEF Observe
    <2>2. CASE EngineIs({"initialized", "paused"}) /\ StartEngine
        BY <2>1, <2>2 DEF StartEngine, EngineIs, HasEngine, Live
    <2>3. CASE ~HasEngine /\ isRunning' = TRUE
               /\ \E e \in Engine : Create(e, estate, definition, "running")
        BY <2>1, <2>3, CreatedIs DEF EngineIs, Live, Status
    <2>4. CASE ~HasEngine /\ isRunning' = (definition \notin Refused)
               /\ \E e \in Engine : Launch(e, estate, definition)
        <3>1. PICK e \in Engine : Launch(e, estate, definition)
            BY <2>4
        <3>2. Create(e, estate, definition,
                     IF definition \in Refused THEN "initialized" ELSE "running")
            BY <3>1 DEF Launch
        <3> QED BY <2>1, <2>4, <3>2, CreatedIs DEF EngineIs, Live, Status
    <2> QED BY <1>5, <2>2, <2>3, <2>4 DEF Observe, ObserveNode, ObserveSubscribedNodes
<1>6. CASE On
    <2>1. Now /\ importing = NoImport /\ UNCHANGED <<importing, waiting, flags>> /\ ~HasEngine
        BY <1>6, <1>a DEF On
    <2>2. PICK e \in Engine : Create(e, estate, definition, "initialized")
        BY <1>6 DEF On
    <2> QED BY <2>1, <2>2, CreatedIs DEF EngineIs, Live, Status, flags, HasEngine
<1>7. CASE PeekByCaller
    BY <1>7, <1>a, <1>0 DEF PeekByCaller
<1>8. CASE Stop
    BY <1>8, <1>a DEF Stop, DestroyEngine, EngineIs, HasEngine, Live
<1>9. CASE Pause
    BY <1>9, <1>a DEF Pause, EngineIs, HasEngine, Live, flags
<1>10. CASE Resume
    BY <1>10, <1>a DEF Resume, EngineIs, HasEngine, Live, flags
<1>11. CASE Destroy
    BY <1>11, <1>a, <1>0 DEF Destroy, Abandon
<1>12. CASE \E s \in Definition : RunRestored(s)
    <2>1. PICK s \in Definition : RunRestored(s)
        BY <1>12
    <2>2. Now /\ importing = NoImport /\ UNCHANGED <<importing, waiting, isDestroyed>>
          /\ ~isRunning /\ ~EngineIs(Live)
        BY <2>1, <1>a, <1>0 DEF RunRestored, Reimport
    <2>3. CASE LaunchOver(estate, definition, handlers)
        BY <2>2, <2>3, LaunchedIs DEF EngineIs, Live, Status
    <2>4. CASE isRunning' = TRUE /\ \E e \in Engine : Create(e, estate, s, "running")
        BY <2>2, <2>4, CreatedIs DEF EngineIs, Live, Status
    <2>5. CASE /\ HasEngine
               /\ estate' = [estate EXCEPT ![engine] = "running"]
               /\ isRunning' = TRUE
               /\ UNCHANGED engine
        BY <2>2, <2>5 DEF EngineIs, HasEngine, Live
    <2> QED BY <2>1, <2>2, <2>3, <2>4, <2>5 DEF RunRestored, RestoreFirst, EngineIs, Live
<1>13. CASE \E s \in Definition : ImportState(s)
    <2>1. PICK s \in Definition : ImportState(s)
        BY <1>13
    <2>2. Now /\ importing = NoImport /\ UNCHANGED <<flags, waiting>>
          /\ ~isRunning /\ ~EngineIs(Live)
        BY <2>1, <1>a, <1>0 DEF ImportState, Reimport
    <2>3. PICK e \in Engine :
             /\ engine' = e
             /\ ~HasEngine \/ e = engine
             /\ estate[e] \in {"absent", "initialized", "running", "paused"}
             /\ estate' = [estate EXCEPT ![e] = AfterImport(s, IF HasEngine THEN @ ELSE "initialized")]
             /\ ImportInto(e, s, FALSE) \/ UNCHANGED importing
        <3>1. (isLongRunning /\ isRunning) = FALSE
            BY <2>2
        <3> QED BY <2>1, <3>1 DEF ImportState
    <2>4. estate'[e] \notin Live
        BY <2>2, <2>3 DEF AfterImport, SnapshotState, EngineIs, HasEngine, Live
    <2>5. HasEngine'
        BY <2>3, GraphAssumption DEF HasEngine
    <2> QED BY <2>2, <2>3, <2>4, <2>5 DEF EngineIs, flags, ImportInto
<1>14. CASE \E d \in Definition \cup {Malformed}, autoStart \in BOOLEAN :
               UpdateGraph(d, autoStart)
    <2>1. PICK d \in Definition \cup {Malformed}, autoStart \in BOOLEAN :
             UpdateGraph(d, autoStart)
        BY <1>14
    <2>2. Now /\ importing = NoImport /\ UNCHANGED <<importing, waiting>> /\ ~waiting
        BY <2>1, <1>a, <1>0 DEF UpdateGraph, Abandon
    <2>3. CASE \E h : LaunchOver(DestroyEngine, d, h)
        BY <2>2, <2>3, LaunchedIs, DestroyedStates DEF EngineIs, Live
    <2>4. CASE engine' = NoEngine /\ isRunning' = FALSE
        BY <2>2, <2>4 DEF EngineIs, HasEngine
    <2> QED BY <2>1, <2>3, <2>4 DEF UpdateGraph
<1>15. CASE ImportEnds
    BY <1>15, <1>b DEF ImportEnds, EngineIs, HasEngine, flags
<1>16. CASE \E e \in Engine : SkipPauses(e)
    BY <1>16, <1>b DEF SkipPauses, EngineIs, HasEngine, Live, flags
<1>17. CASE \E d \in Definition : UpdateNode(d)
    BY <1>17, <1>a DEF UpdateNode, EngineIs, HasEngine, flags
<1>18. CASE \E e \in Engine : LateUpdates(e)
    BY <1>18, <1>b DEF LateUpdates, EngineIs, HasEngine, flags
<1>19. CASE UNCHANGED vars
    BY <1>19, <1>b DEF vars, engines, flags, EngineIs, HasEngine
<1> QED BY <1>1, <1>2, <1>3, <1>4, <1>5, <1>6, <1>7, <1>8, <1>9, <1>10, <1>11, <1>12, <1>13,
           <1>14, <1>15, <1>16, <1>17, <1>18, <1>19 DEF Next

\* A graph whose callers neither look at it before it runs, import into it while it
\* runs, nor leave an execute() behind, says that it runs exactly if its engine does.
THEOREM FlagTrue == Spec => []FlagAgrees
<1>1. Init => TypeOK /\ FlagInv
    BY TypeInit, FlagInit
<1>2. TypeOK /\ FlagInv /\ [Next]_vars => (TypeOK /\ FlagInv)'
    BY TypeStep, FlagStep
<1>3. FlagInv => FlagAgrees
    BY DEF FlagInv, FlagAgrees, Unseen
<1> QED BY <1>1, <1>2, <1>3, PTL DEF Spec

-----------------------------------------------------------------------------
(* The handlers *)

Unattached == {"observe", "peek", "reimport", "overlap"}

\* A graph that says it runs has an engine that is not destroyed, whatever it does.
HandlersInv ==
    Never(Unattached) =>
        /\ isRunning =>
              /\ EngineIs({"initialized", "running", "paused"})
              /\ handlers = engine
        /\ importing # NoImport => importing.engine = engine

LEMMA HandlersInit == Init => HandlersInv
BY DEF Init, HandlersInv

LEMMA StartInternalHandlers ==
    ASSUME TypeOK, StartInternal,
           isRunning => EngineIs({"initialized", "running", "paused"}) /\ handlers = engine
    PROVE  isRunning' =>
              EngineIs({"initialized", "running", "paused"})' /\ handlers' = engine'
<1> USE DEF TypeOK
<1>1. CASE UNCHANGED <<engines, isRunning, handlers>>
    BY <1>1 DEF engines, EngineIs, HasEngine
<1>2. CASE LaunchOver(estate, definition, handlers)
    BY <1>2, LaunchedIs DEF Status, EngineIs
<1>3. CASE HasEngine /\ StartAndSubscribe
    BY <1>3 DEF StartAndSubscribe, StartEngine, EngineIs, HasEngine
<1> QED BY <1>1, <1>2, <1>3 DEF StartInternal, EngineIs

LEMMA HandlersStep == TypeOK /\ HandlersInv /\ [Next]_vars => HandlersInv'
<1> DEFINE Now == /\ isRunning =>
                        /\ EngineIs({"initialized", "running", "paused"})
                        /\ handlers = engine
                  /\ importing # NoImport => importing.engine = engine
<1> SUFFICES ASSUME TypeOK, HandlersInv, [Next]_vars, Never(Unattached)'
             PROVE  Now'
    BY DEF HandlersInv, NoImport
<1>0. /\ "overlap" \in Unattached /\ "peek" \in Unattached
      /\ "reimport" \in Unattached /\ "observe" \in Unattached
    BY DEF Unattached
<1>a. ASSUME NEW h, Note(h)
      PROVE  Now /\ importing = NoImport /\ h \cap Unattached = {}
    BY <1>a, <1>0, NoteNever DEF HandlersInv
<1>b. ASSUME UNCHANGED used
      PROVE  Now
    BY <1>b, QuietNever DEF HandlersInv
<1> USE DEF TypeOK
<1>1. CASE Run \/ Execute
    BY <1>1, <1>a, StartInternalHandlers DEF Run, Execute
<1>2. CASE Poll \/ WaitEnds
    BY <1>2, <1>b, GraphAssumption
       DEF Poll, WaitEnds, PeekFirst, engines, flags, EngineIs, HasEngine
<1>3. CASE Observe \/ PeekByCaller
    BY <1>3, <1>a, <1>0 DEF Observe, PeekByCaller
<1>4. CASE On
    BY <1>4, <1>a DEF On, EngineIs, flags
<1>5. CASE Stop
    BY <1>5, <1>a DEF Stop
<1>6. CASE Pause \/ Resume
    BY <1>6, <1>a DEF Pause, Resume, EngineIs, HasEngine, flags
<1>7. CASE Destroy
    BY <1>7, <1>a DEF Destroy
<1>8. CASE \E s \in Definition : RunRestored(s)
    <2>1. PICK s \in Definition : RunRestored(s)
        BY <1>8
    <2>2. Now /\ UNCHANGED importing /\ importing = NoImport /\ ~isRunning
        BY <2>1, <1>a, <1>0 DEF RunRestored, Reimport
    <2>3. CASE LaunchOver(estate, definition, handlers)
        BY <2>2, <2>3, LaunchedIs DEF EngineIs, Status
    <2>4. CASE \E e \in Engine : Create(e, estate, s, "running") /\ handlers' = e
        BY <2>2, <2>4, CreatedIs DEF EngineIs, Status
    <2>5. CASE /\ HasEngine
               /\ estate' = [estate EXCEPT ![engine] = "running"]
               /\ handlers' = engine
               /\ UNCHANGED engine
        BY <2>2, <2>5 DEF EngineIs, HasEngine
    <2>6. CASE ~isRunning /\ UNCHANGED isRunning
        BY <2>2, <2>6
    <2> QED BY <2>1, <2>2, <2>3, <2>4, <2>5, <2>6 DEF RunRestored, RestoreFirst, EngineIs
<1>9. CASE \E s \in Definition : ImportState(s)
    BY <1>9, <1>a, <1>0 DEF ImportState, Reimport, ImportInto, flags
<1>10. CASE \E d \in Definition \cup {Malformed}, autoStart \in BOOLEAN :
               UpdateGraph(d, autoStart)
    <2>1. PICK d \in Definition \cup {Malformed}, autoStart \in BOOLEAN :
             UpdateGraph(d, autoStart)
        BY <1>10
    <2>2. importing = NoImport /\ UNCHANGED importing
        BY <2>1, <1>a DEF UpdateGraph
    <2>3. CASE \E h : LaunchOver(DestroyEngine, d, h)
        BY <2>2, <2>3, LaunchedIs, DestroyedStates DEF EngineIs
    <2>4. CASE isRunning' = FALSE
        BY <2>2, <2>4
    <2> QED BY <2>1, <2>3, <2>4 DEF UpdateGraph
<1>11. CASE ImportEnds
    BY <1>11, <1>b DEF ImportEnds, EngineIs, HasEngine, flags
<1>12. CASE \E e \in Engine : SkipPauses(e)
    BY <1>12, <1>b DEF SkipPauses, EngineIs, HasEngine, flags
<1>13. CASE \E d \in Definition : UpdateNode(d)
    BY <1>13, <1>a DEF UpdateNode, EngineIs, HasEngine, flags
<1>14. CASE \E e \in Engine : LateUpdates(e)
    BY <1>14, <1>b DEF LateUpdates, EngineIs, HasEngine, flags
<1>15. CASE UNCHANGED vars
    BY <1>15, <1>b DEF vars, engines, flags, EngineIs, HasEngine
<1> QED BY <1>1, <1>2, <1>3, <1>4, <1>5, <1>6, <1>7, <1>8, <1>9, <1>10, <1>11, <1>12, <1>13,
           <1>14, <1>15 DEF Next

\* The handlers of a graph listen to its engine whenever it says that it runs, unless
\* observeNode, a look at the graph or an import started the engine past them.
THEOREM HandlersListen == Spec => []HandlersAttached
<1>1. Init => TypeOK /\ HandlersInv
    BY TypeInit, HandlersInit
<1>2. TypeOK /\ HandlersInv /\ [Next]_vars => (TypeOK /\ HandlersInv)'
    BY TypeStep, HandlersStep
<1>3. HandlersInv => HandlersAttached
    BY DEF HandlersInv, HandlersAttached, Unattached
<1> QED BY <1>1, <1>2, <1>3, PTL DEF Spec

-----------------------------------------------------------------------------
(* Destroyed graphs *)

Revived == {"observe", "peek", "abandon", "overlap"}

\* After destroy nobody waits, nothing is resumed, and what engine the graph has been
\* given since does not live.
DestroyedInv ==
    Never(Revived) =>
        /\ isDestroyed =>
              /\ ~waiting /\ ~isRunning /\ ~EngineIs(Live)
              /\ importing # NoImport => ~importing.resume
        /\ importing # NoImport => importing.engine = engine

LEMMA DestroyedInit == Init => DestroyedInv
BY DEF Init, DestroyedInv

LEMMA DestroyedStep == TypeOK /\ DestroyedInv /\ [Next]_vars => DestroyedInv'
<1> DEFINE Now == /\ isDestroyed =>
                        /\ ~waiting /\ ~isRunning /\ ~EngineIs(Live)
                        /\ importing # NoImport => ~importing.resume
                  /\ importing # NoImport => importing.engine = engine
<1> SUFFICES ASSUME TypeOK, DestroyedInv, [Next]_vars, Never(Revived)'
             PROVE  Now'
    BY DEF DestroyedInv, NoImport
<1>0. /\ "overlap" \in Revived /\ "peek" \in Revived
      /\ "abandon" \in Revived /\ "observe" \in Revived
    BY DEF Revived
<1>a. ASSUME NEW h, Note(h)
      PROVE  Now /\ importing = NoImport /\ h \cap Revived = {}
    BY <1>a, <1>0, NoteNever DEF DestroyedInv
<1>b. ASSUME UNCHANGED used
      PROVE  Now
    BY <1>b, QuietNever DEF DestroyedInv
<1> USE DEF TypeOK
<1>1. CASE Run \/ Execute \/ \E s \in Definition : RunRestored(s)
    BY <1>1, <1>a DEF Run, Execute, RunRestored
<1>2. CASE Poll \/ WaitEnds
    BY <1>2, <1>b, GraphAssumption
       DEF Poll, WaitEnds, PeekFirst, engines, flags, EngineIs, HasEngine
<1>3. CASE Observe \/ PeekByCaller
    BY <1>3, <1>a, <1>0 DEF Observe, PeekByCaller
<1>4. CASE On
    BY <1>4, <1>a, CreatedIs DEF On, EngineIs, Live, flags, Status
<1>5. CASE Stop
    <2>1. Now /\ UNCHANGED <<engine, isDestroyed, waiting, importing>>
        BY <1>5, <1>a DEF Stop
    <2>2. isRunning \/ UNCHANGED <<estate, isRunning>>
        BY <1>5 DEF Stop
    <2>3. isDestroyed => ~EngineIs(Live)' /\ ~isRunning'
        BY <2>1, <2>2 DEF EngineIs, HasEngine
    <2> QED BY <2>1, <2>3
<1>6. CASE Pause \/ Resume
    BY <1>6, <1>a DEF Pause, Resume, flags
<1>7. CASE Destroy
    BY <1>7, <1>a, <1>0 DEF Destroy, Abandon, EngineIs, HasEngine
<1>8. CASE \E s \in Definition : ImportState(s)
    <2>1. PICK s \in Definition : ImportState(s)
        BY <1>8
    <2>2. Now /\ importing = NoImport /\ UNCHANGED <<flags, waiting>>
        BY <2>1, <1>a DEF ImportState
    <2>3. PICK e \in Engine :
             /\ engine' = e
             /\ ~HasEngine \/ e = engine
             /\ estate' = [estate EXCEPT ![e] =
                    AfterImport(s, IF isLongRunning /\ isRunning THEN "paused"
                                   ELSE IF HasEngine THEN @ ELSE "initialized")]
             /\ ImportInto(e, s, isLongRunning /\ isRunning) \/ UNCHANGED importing
        BY <2>1 DEF ImportState
    <2>4. isDestroyed => estate'[e] \notin Live
        BY <2>2, <2>3 DEF AfterImport, SnapshotState, EngineIs, HasEngine, Live
    <2> QED BY <2>2, <2>3, <2>4 DEF EngineIs, flags, ImportInto
<1>9. CASE \E d \in Definition \cup {Malformed}, autoStart \in BOOLEAN :
               UpdateGraph(d, autoStart)
    BY <1>9, <1>a DEF UpdateGraph
<1>10. CASE ImportEnds
    BY <1>10, <1>b DEF ImportEnds, EngineIs, HasEngine, flags
<1>11. CASE \E e \in Engine : SkipPauses(e)
    BY <1>11, <1>b DEF SkipPauses, EngineIs, HasEngine, Live, flags
<1>12. CASE \E d \in Definition : UpdateNode(d)
    BY <1>12, <1>a DEF UpdateNode, flags
<1>13. CASE \E e \in Engine : LateUpdates(e)
    BY <1>13, <1>b DEF LateUpdates, EngineIs, HasEngine, flags
<1>14. CASE UNCHANGED vars
    BY <1>14, <1>b DEF vars, engines, flags, EngineIs, HasEngine
<1> QED BY <1>1, <1>2, <1>3, <1>4, <1>5, <1>6, <1>7, <1>8, <1>9, <1>10, <1>11, <1>12, <1>13,
           <1>14 DEF Next

\* A destroyed graph has no engine that runs, neither its own nor one it lost, unless an
\* execute() was left waiting or a caller started an engine past run().
THEOREM DestroyedIsIdle == Spec => []DestroyedRunsNothing
<1> DEFINE Inv == TypeOK /\ NoOrphan /\ ImportKept /\ DestroyedInv
<1>1. Init => Inv
    BY TypeInit, OrphanInit, DestroyedInit
<1>2. Inv /\ [Next]_vars => Inv'
    BY TypeStep, OrphanStep, DestroyedStep
<1>3. Inv => DestroyedRunsNothing
    BY GraphAssumption
       DEF TypeOK, NoOrphan, DestroyedInv, DestroyedRunsNothing, Revived, Never, EngineIs,
           HasEngine, Live
<1> QED BY <1>1, <1>2, <1>3, PTL DEF Spec

-----------------------------------------------------------------------------
(* The definition *)

Diverged == {"observe", "restore", "reimport", "retry", "overlap", "defer"}

Startable == {"initialized", "running", "paused"}

\* What a new engine holds, over any engine states.
LEMMA CreatedHolds ==
    ASSUME TypeOK, NEW e \in Engine, NEW states, NEW d, NEW s, Create(e, states, d, s)
    PROVE  /\ engine' = e
           /\ content' = [content EXCEPT ![e].held = Imported(d)]
           /\ content'[e].held = Imported(d)
BY DEF TypeOK, Content, Create

LEMMA LaunchedHolds ==
    ASSUME TypeOK, NEW e \in Engine, NEW states \in [Engine -> Status], NEW d \in Definition,
           Launch(e, states, d)
    PROVE  /\ engine' = e
           /\ content' = [content EXCEPT ![e].held = Imported(d)]
           /\ content'[e].held \in {d, Partial}
           /\ estate'[e] \in Live => content'[e].held = d
<1>1. Create(e, states, d, IF d \in Refused THEN "initialized" ELSE "running")
    BY DEF Launch
<1> QED BY <1>1, CreatedIs, CreatedHolds DEF Imported, Live

\* No engine holds a plugin that is not registered, or has updates to come.
Sound == \A e \in Engine : ~content[e].late /\ content[e].held \notin Refused

LEMMA SoundKept ==
    ASSUME TypeOK, Sound, NEW e \in Engine, NEW d \in Definition,
           content' = [content EXCEPT ![e].held = Imported(d)]
    PROVE  Sound'
BY GraphAssumption DEF TypeOK, Content, Sound, Imported

\* An engine that can still be started holds the definition of the graph or was left
\* half imported; one that lives has been started with the whole of it.  An import has
\* given its engine the definition that it gives the graph in the end.
Holds ==
    /\ importing = NoImport /\ EngineIs(Startable) => content[engine].held \in {definition, Partial}
    /\ EngineIs(Live) => content[engine].held = definition
    /\ importing # NoImport =>
          /\ importing.engine = engine
          /\ ~EngineIs(Live)
          /\ content[engine].held = importing.snapshot

RunsInv == Never(Diverged) => Sound /\ Holds

LEMMA RunsInit == Init => RunsInv
BY GraphAssumption DEF Init, RunsInv, Sound, Holds, EngineIs, HasEngine

LEMMA StartInternalRuns ==
    ASSUME TypeOK, Sound, Holds, StartInternal, importing = NoImport,
           UNCHANGED <<definition, importing>>,
           HasEngine => content[engine].held # Partial
    PROVE  Sound' /\ Holds'
<1> USE DEF TypeOK
<1>1. CASE UNCHANGED <<engines, isRunning, handlers>>
    BY <1>1 DEF engines, EngineIs, HasEngine, Sound, Holds
<1>2. CASE LaunchOver(estate, definition, handlers)
    <2>1. PICK e \in Engine : Launch(e, estate, definition)
        BY <1>2 DEF LaunchOver
    <2> QED BY <2>1, LaunchedHolds, SoundKept DEF EngineIs, Holds, Status
<1>3. CASE EngineIs({"initialized", "paused"}) /\ StartAndSubscribe
    BY <1>3 DEF StartAndSubscribe, StartEngine, EngineIs, HasEngine, Live, Startable,
                Sound, Holds
<1> QED BY <1>1, <1>2, <1>3 DEF StartInternal

LEMMA RunsStep == TypeOK /\ RunsInv /\ [Next]_vars => RunsInv'
<1> SUFFICES ASSUME TypeOK, RunsInv, [Next]_vars, Never(Diverged)'
             PROVE  Sound' /\ Holds'
    BY DEF RunsInv
<1>0. Diverged = {"observe", "restore", "reimport", "retry", "overlap", "defer"}
    BY DEF Diverged
<1>a. ASSUME NEW h, Note(h)
      PROVE  Sound /\ Holds /\ importing = NoImport /\ h \cap Diverged = {}
    BY <1>a, <1>0, NoteNever DEF RunsInv
<1>b. ASSUME UNCHANGED used
      PROVE  Sound /\ Holds
    BY <1>b, QuietNever DEF RunsInv
<1>c. ASSUME Sound, Holds, importing = NoImport, UNCHANGED <<definition, importing>>, PeekFirst
      PROVE  Sound' /\ Holds'
    <2>1. PICK e \in Engine : Launch(e, estate, definition)
        BY <1>c DEF PeekFirst
    <2> QED BY <1>c, <2>1, LaunchedHolds, SoundKept DEF TypeOK, EngineIs, Holds, Status
<1>d. ASSUME Sound, Holds, UNCHANGED <<engine, content, definition, importing>>,
             EngineIs(Live)' => EngineIs(Live), EngineIs(Startable)' => EngineIs(Startable)
      PROVE  Sound' /\ Holds'
    BY <1>d DEF Sound, Holds
<1> USE DEF TypeOK
<1>1. CASE Run \/ Execute
    <2>1. Sound /\ Holds /\ importing = NoImport /\ UNCHANGED <<definition, importing>>
          /\ Retry \cap Diverged = {} /\ StartInternal
        BY <1>1, <1>a DEF Run, Execute
    <2> QED BY <2>1, <1>0, StartInternalRuns DEF Retry
<1>2. CASE Poll
    <2>1. Sound /\ Holds /\ UNCHANGED <<definition, importing>>
        BY <1>2, <1>b DEF Poll
    <2>2. CASE PeekFirst
        <3>1. importing = NoImport
            BY <2>1, <2>2, GraphAssumption DEF PeekFirst, HasEngine, Holds
        <3> QED BY <2>1, <2>2, <3>1, <1>c
    <2>3. CASE UNCHANGED engines
        BY <2>1, <2>3, <1>d DEF engines, EngineIs, HasEngine
    <2> QED BY <1>2, <2>2, <2>3 DEF Poll
<1>3. CASE WaitEnds
    BY <1>3, <1>b, <1>d DEF WaitEnds, engines, EngineIs, HasEngine
<1>4. CASE Observe
    BY <1>4, <1>a, <1>0 DEF Observe
<1>5. CASE PeekByCaller
    BY <1>5, <1>a, <1>c DEF PeekByCaller
<1>6. CASE On
    <2>1. Sound /\ Holds /\ importing = NoImport /\ UNCHANGED <<definition, importing>>
        BY <1>6, <1>a DEF On
    <2>2. PICK e \in Engine : Create(e, estate, definition, "initialized")
        BY <1>6 DEF On
    <2>3. content'[e].held \in {definition, Partial} /\ estate'[e] = "initialized" /\ engine' = e
        BY <2>2, CreatedIs, CreatedHolds DEF Imported, Status
    <2>4. Sound'
        BY <2>1, <2>2, CreatedHolds, SoundKept
    <2> QED BY <2>1, <2>3, <2>4 DEF Holds, EngineIs, Live
<1>7. CASE Stop
    <2>1. Sound /\ Holds /\ UNCHANGED <<engine, content, definition, importing>>
        BY <1>7, <1>a DEF Stop
    <2>2. estate' = DestroyEngine \/ UNCHANGED estate
        BY <1>7 DEF Stop
    <2> QED BY <2>1, <2>2, <1>d DEF EngineIs, HasEngine, DestroyEngine, Live, Startable
<1>8. CASE Pause \/ Resume
    <2>1. Sound /\ Holds /\ UNCHANGED <<engine, content, definition, importing>>
        BY <1>8, <1>a DEF Pause, Resume
    <2> QED BY <1>8, <2>1, <1>d DEF Pause, Resume, EngineIs, HasEngine, Live, Startable
<1>9. CASE Destroy
    BY <1>9, <1>a DEF Destroy, EngineIs, HasEngine, Sound, Holds
<1>10. CASE \E s \in Definition : RunRestored(s)
    BY <1>10, <1>a, <1>0 DEF RunRestored
<1>11. CASE \E s \in Definition : ImportState(s)
    <2>1. PICK s \in Definition : ImportState(s)
        BY <1>11
    <2>2. Sound /\ Holds /\ importing = NoImport /\ UNCHANGED definition
          /\ ~isRunning /\ ~EngineIs(Live)
        BY <2>1, <1>a, <1>0 DEF ImportState, Reimport
    <2>3. (isLongRunning /\ isRunning) = FALSE
        BY <2>2
    <2>4. PICK e \in Engine :
             /\ engine' = e
             /\ ~HasEngine \/ e = engine
             /\ content' = [content EXCEPT ![e].held = Imported(s)]
             /\ estate' = [estate EXCEPT ![e] = AfterImport(s, IF HasEngine THEN @ ELSE "initialized")]
             /\ \/ s \notin Refused /\ ImportInto(e, s, FALSE)
                \/ s \in Refused /\ UNCHANGED importing
        BY <2>1, <2>3 DEF ImportState
    <2>5. estate'[e] \notin Live
        BY <2>2, <2>4 DEF AfterImport, SnapshotState, EngineIs, HasEngine, Live
    <2>6. content'[e].held = IF s \in Refused THEN Partial ELSE s
        BY <2>4 DEF Content, Imported
    <2>7. Sound'
        BY <2>2, <2>4, SoundKept
    <2> QED BY <2>2, <2>4, <2>5, <2>6, <2>7, GraphAssumption
            DEF Holds, EngineIs, ImportInto, NoImport
<1>12. CASE \E d \in Definition \cup {Malformed}, autoStart \in BOOLEAN :
               UpdateGraph(d, autoStart)
    <2>1. PICK d \in Definition \cup {Malformed}, autoStart \in BOOLEAN :
             UpdateGraph(d, autoStart)
        BY <1>12
    <2>2. Sound /\ Holds /\ importing = NoImport /\ UNCHANGED importing
        BY <2>1, <1>a DEF UpdateGraph
    <2>3. CASE /\ d # Malformed
               /\ definition' = d
               /\ \E h : LaunchOver(DestroyEngine, d, h)
        <3>1. PICK e \in Engine : Launch(e, DestroyEngine, d)
            BY <2>3 DEF LaunchOver
        <3> QED BY <2>2, <2>3, <3>1, LaunchedHolds, DestroyedStates, SoundKept DEF EngineIs, Holds
    <2>4. CASE engine' = NoEngine /\ UNCHANGED content
        BY <2>2, <2>4 DEF EngineIs, HasEngine, Sound, Holds
    <2> QED BY <2>1, <2>3, <2>4 DEF UpdateGraph
<1>13. CASE ImportEnds
    <2>1. Sound /\ Holds /\ UNCHANGED content
        BY <1>13, <1>b DEF ImportEnds
    <2>2. UNCHANGED <<engine, estate>> \/ estate[engine] = "paused"
        BY <1>13, <2>1 DEF ImportEnds, Holds
    <2>3. HasEngine /\ ~EngineIs(Live)
        BY <1>13, <2>1, GraphAssumption DEF ImportEnds, Holds, HasEngine
    <2>4. UNCHANGED <<engine, estate>>
        BY <2>2, <2>3 DEF EngineIs, Live
    <2> QED BY <1>13, <2>1, <2>3, <2>4
            DEF ImportEnds, UpdateGraphFromState, Sound, Holds, EngineIs, HasEngine
<1>14. CASE \E e \in Engine : SkipPauses(e)
    <2>1. Sound /\ Holds /\ UNCHANGED <<engine, content, definition, importing>>
        BY <1>14, <1>b DEF SkipPauses
    <2> QED BY <1>14, <2>1, <1>d DEF SkipPauses, EngineIs, HasEngine, Live, Startable
<1>15. CASE \E d \in Definition : UpdateNode(d)
    <2>1. PICK d \in Definition : UpdateNode(d)
        BY <1>15
    <2>2. /\ EngineIs({"initialized", "running"}) /\ UpdateEngine(d)
          /\ d \in Refused <=> definition \in Refused
          /\ definition' = d
          /\ UNCHANGED <<engine, estate, importing>>
        BY <2>1, <1>a, <1>0 DEF UpdateNode
    <2>3. Sound /\ Holds /\ importing = NoImport
        BY <2>1, <1>a DEF UpdateNode
    <2>4. PICK h \in {d, Partial} :
             /\ content' = [content EXCEPT ![engine].held = h]
             /\ d \in Refused => h = Partial
             /\ d \notin Refused /\ content[engine].held = definition => h = d
        BY <2>2 DEF UpdateEngine
    <2>5. engine \in Engine
        BY <2>2 DEF EngineIs, HasEngine
    <2>6. EngineIs(Live) => content[engine].held = definition /\ definition \notin Refused
        BY <2>3, <2>5 DEF Sound, Holds
    <2>7. content'[engine].held = h /\ Sound'
        BY <2>3, <2>4, <2>5, GraphAssumption DEF Sound, Content
    <2> QED BY <2>2, <2>3, <2>4, <2>6, <2>7 DEF Holds, EngineIs, HasEngine
<1>16. CASE \E e \in Engine : LateUpdates(e)
    BY <1>16, <1>b DEF LateUpdates, Sound
<1>17. CASE UNCHANGED vars
    BY <1>17, <1>b, <1>d DEF vars, engines, EngineIs, HasEngine
<1> QED BY <1>1, <1>2, <1>3, <1>4, <1>5, <1>6, <1>7, <1>8, <1>9, <1>10, <1>11, <1>12, <1>13,
           <1>14, <1>15, <1>16, <1>17 DEF Next

\* An engine that runs computes the definition that the graph shows, after any updates
\* of the graph and its nodes, failed starts and imports, unless one of the habits of
\* RunsDefinition made them part.
THEOREM DefinitionRuns == Spec => []RunsDefinition
<1>1. Init => TypeOK /\ RunsInv
    BY TypeInit, RunsInit
<1>2. TypeOK /\ RunsInv /\ [Next]_vars => (TypeOK /\ RunsInv)'
    BY TypeStep, RunsStep
<1>3. RunsInv => RunsDefinition
    BY DEF RunsInv, RunsDefinition, Holds, Diverged
<1> QED BY <1>1, <1>2, <1>3, PTL DEF Spec
=============================================================================
