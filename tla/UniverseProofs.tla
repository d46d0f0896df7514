--------------------------- MODULE UniverseProofs ---------------------------
(***************************************************************************)
(* Theorems about the Universe controller, for every pipeline, set of      *)
(* names, specs and faults, and every number of edits and crashes.         *)
(***************************************************************************)
EXTENDS Universe, TLAPS

(* Steps taken at an element of the current stage. *)
ElementSteps == {"creating", "reconciling", "update", "wait", "running"}

(* Where a pass is, in the list it walks. *)
PositionOK ==
  /\ pc \in {"idle", "repo", "refetch", "pr"} => stage = 1 /\ elem = 1
  /\ pc \in ElementSteps \cup {"walk"} => stage <= Len(Pipeline)
  /\ pc \in ElementSteps => elem <= Len(StageList)
  /\ pc = "reconciling" => Stage.announces # "none"

TypeInv == TypeOK /\ PositionOK

-----------------------------------------------------------------------------
(* What the operators of the specification return.                         *)

(* A stage of the pipeline names kinds of the pipeline only. *)
LEMMA StageFacts ==
  ASSUME TypeOK, stage <= Len(Pipeline)
  PROVE  /\ stage \in DOMAIN Pipeline
         /\ Stage.kind \in Kinds /\ Stage.polls \in Kinds
         /\ Stage.removes \in Kinds /\ Stage.keeps \in Kinds
         /\ Stage.announces \in Kinds \cup {"none"}
         /\ StageList \in Seq(Elements)
<1>1. stage \in DOMAIN Pipeline
  BY PipelineAssumption DEF TypeOK
<1>2. Stage.kind \in Kinds
  BY <1>1 DEF Stage, Kinds
<1>3. mem.spec \in [Kinds -> Seq(Elements)]
  BY DEF TypeOK, UniverseType
<1> QED
  BY <1>1, <1>2, <1>3, PipelineAssumption DEF Stage, StageList

(* The element a pass is at is an element of the spec. *)
LEMMA ElementFacts ==
  ASSUME TypeOK, stage <= Len(Pipeline), elem <= Len(StageList)
  PROVE  /\ elem \in DOMAIN StageList
         /\ Element \in Elements /\ Element.name \in Names /\ Element.val \in Vals
         /\ Resource \in Resources
         /\ Entry(Stage.kind, Element.name) \in StatusKeys
<1>1. StageList \in Seq(Elements) /\ Stage.kind \in Kinds
  BY StageFacts
<1>2. elem \in 1 .. Len(StageList)
  BY <1>1 DEF TypeOK
<1>3. Element \in Elements
  BY <1>1, <1>2 DEF Element
<1> QED
  BY <1>1, <1>2, <1>3 DEF Elements, Resource, Resources, StatusKeys, Entry

(* No Universe is a value of the type, and so is a fresh one. *)
LEMMA GoneType == Gone \in UniverseType /\ \A s \in Specs : NewUniverse(s) \in UniverseType
<1>1. \A s \in [Kinds -> Seq(Elements)] : NewUniverse(s) \in UniverseType
  BY DEF NewUniverse, UniverseType, Progress
<1>2. [k \in Kinds |-> << >>] \in [Kinds -> Seq(Elements)]
  OBVIOUS
<1> QED
  BY <1>1, <1>2, SpecsAssumption DEF Gone, NewUniverse, UniverseType

(* No resource and no listing. *)
LEMMA AbsentType == Absent \in ResourceType /\ NoLists \in [Kinds -> SUBSET Names]
  BY ValsAssumption DEF Absent, ResourceType, NoLists

(* A status write keeps the API server and the cache to their values. *)
LEMMA PersistType ==
  ASSUME TypeOK, NEW m \in UniverseType, Persist(m)
  PROVE  api' \in UniverseType /\ cacheFresh' \in BOOLEAN /\ cache' \in UniverseType
  BY DEF TypeOK, Persist, UniverseType

(* A status entry is all that updateStatus changes. *)
LEMMA StatusType ==
  ASSUME NEW m \in UniverseType, NEW k \in Kinds, NEW n \in Names \cup {Blank},
         NEW p \in Progress
  PROVE  LET u == updateStatus(m, k, n, p) IN
           /\ u \in UniverseType
           /\ u.exists = m.exists /\ u.gen = m.gen /\ u.obs = m.obs /\ u.spec = m.spec
           /\ u.del = m.del /\ u.fin = m.fin
<1>1. Entry(k, n) \in StatusKeys
  BY DEF StatusKeys, Entry
<1> QED
  BY <1>1 DEF updateStatus, UniverseType

(* A pass that ends leaves nothing behind. *)
LEMMA ForgetType ==
  ASSUME ForgetPass
  PROVE  /\ pc' \in Steps /\ stage' \in 1 .. Len(Pipeline) + 1 /\ elem' \in Nat \ {0}
         /\ found' \in Names \cup {Blank} /\ foundFresh' \in BOOLEAN
         /\ lists' \in [Kinds -> SUBSET Names] /\ walked' \subseteq Resources
         /\ mem' \in UniverseType /\ memFresh' \in BOOLEAN
         /\ PositionOK'
<1>1. Len(Pipeline) \in Nat /\ Len(Pipeline) >= 1
  BY PipelineAssumption
<1>2. mem' \in UniverseType /\ lists' \in [Kinds -> SUBSET Names]
  BY GoneType, AbsentType DEF ForgetPass
<1>3. PositionOK'
  BY DEF ForgetPass, PositionOK, ElementSteps
<1>4. stage' \in 1 .. Len(Pipeline) + 1 /\ elem' \in Nat \ {0}
  BY <1>1 DEF ForgetPass
<1>5. /\ pc' \in Steps /\ found' \in Names \cup {Blank} /\ foundFresh' \in BOOLEAN
      /\ walked' \subseteq Resources /\ memFresh' \in BOOLEAN
  BY DEF ForgetPass, Steps
<1> QED
  BY <1>2, <1>3, <1>4, <1>5

(* The step after an element's Get, update or wait is a step at that element. *)
LEMMA FlowType ==
  /\ SyncedStep \in {"wait", "running"}
  /\ SyncStep \in {"wait", "running", "update", "reconciling"}
  /\ FoundStep \in {"wait", "running", "update", "reconciling"}
  /\ WaitedStep \in {"wait", "running", "update", "reconciling"}
  /\ SyncStep = "reconciling" \/ FoundStep = "reconciling" \/ WaitedStep = "reconciling"
       => Stage.announces # "none"
  BY DEF SyncedStep, SyncStep, FoundStep, WaitedStep

-----------------------------------------------------------------------------
(* Type correctness.                                                       *)

(* The initial states have the types. *)
LEMMA TypeInit == Init => TypeInv
<1> SUFFICES ASSUME Init PROVE TypeInv
  OBVIOUS
<1>1. api \in UniverseType /\ cache \in UniverseType /\ mem \in UniverseType
  BY GoneType DEF Init
<1>2. lists \in [Kinds -> SUBSET Names]
  BY AbsentType DEF Init
<1>3. res \in [Resources -> ResourceType]
  BY AbsentType DEF Init, ResourceType
<1>4. Len(Pipeline) \in Nat /\ Len(Pipeline) >= 1
  BY PipelineAssumption
<1>5. stage \in 1 .. Len(Pipeline) + 1 /\ elem \in Nat \ {0} /\ crashes \in 0 .. MaxCrashes
  BY <1>4, BoundsAssumption DEF Init
<1>6. PositionOK
  BY DEF Init, PositionOK, ElementSteps
<1>7. /\ cacheFresh \in BOOLEAN /\ queued \in BOOLEAN /\ memFresh \in BOOLEAN
      /\ pc \in Steps /\ found \in Names \cup {Blank} /\ foundFresh \in BOOLEAN
      /\ walked \subseteq Resources /\ missed \subseteq Resources
  BY DEF Init, Steps
<1> QED
  BY <1>1, <1>2, <1>3, <1>5, <1>6, <1>7 DEF TypeInv, TypeOK

(* Steps that end the pass. *)
LEMMA TypeEnd ==
  ASSUME TypeInv, ForgetPass, queued' \in BOOLEAN,
         api' \in UniverseType, cache' \in UniverseType, cacheFresh' \in BOOLEAN,
         res' = res, crashes' \in 0 .. MaxCrashes, missed' = missed
  PROVE  TypeInv'
  BY ForgetType DEF TypeInv, TypeOK

(* Every step keeps the types and the position in the walk. *)
LEMMA TypeStep == TypeInv /\ [Next]_vars => TypeInv'
<1> SUFFICES ASSUME TypeInv, [Next]_vars PROVE TypeInv'
  OBVIOUS
<1>t. TypeOK
  BY DEF TypeInv
<1>l. Len(Pipeline) \in Nat /\ Len(Pipeline) >= 1
  BY PipelineAssumption
<1>1. CASE BeginPass
  BY <1>1, <1>l DEF BeginPass, universeVars, TypeInv, TypeOK, PositionOK, ElementSteps, Steps
<1>2. CASE DropRequest
  BY <1>2 DEF DropRequest, universeVars, passVars, TypeInv, TypeOK, PositionOK, StageList, Stage
<1>3. CASE RecordRepo
  <2>1. mem' \in UniverseType
    BY <1>3, <1>t DEF RecordRepo, TypeOK, UniverseType
  <2>2. api' \in UniverseType /\ cacheFresh' \in BOOLEAN /\ cache' \in UniverseType
    BY <1>3, <1>t, <2>1, PersistType DEF RecordRepo, universeVars, TypeOK
  <2> QED
    BY <1>3, <1>l, <2>1, <2>2 DEF RecordRepo, TypeInv, TypeOK, PositionOK, ElementSteps, Steps
<1>4. CASE Refetch
  BY <1>4, <1>l DEF Refetch, universeVars, TypeInv, TypeOK, PositionOK, ElementSteps, Steps
<1>5. CASE RecordPR
  <2>1. mem' \in UniverseType
    BY <1>5, <1>t DEF RecordPR, TypeOK, UniverseType
  <2>2. api' \in UniverseType /\ cacheFresh' \in BOOLEAN /\ cache' \in UniverseType
    BY <1>5, <1>t, <2>1, PersistType DEF RecordPR
  <2> QED
    BY <1>5, <1>l, <2>1, <2>2 DEF RecordPR, TypeInv, TypeOK, PositionOK, ElementSteps, Steps
<1>6. ASSUME NEW got \in BOOLEAN, FindResource(got) PROVE TypeInv'
  <2>1. stage <= Len(Pipeline) /\ elem <= Len(StageList)
    BY <1>6 DEF FindResource, AtElement
  <2>2. Element.name \in Names /\ Resource \in Resources
    BY <1>t, <2>1, ElementFacts
  <2>3. pc' \in {"wait", "running", "update", "reconciling"}
    BY <1>6, FlowType DEF FindResource
  <2>4. StageList' = StageList
    BY <1>6 DEF FindResource, StageList, Stage
  <2>5. PositionOK'
    BY <1>6, <2>1, <2>3, <2>4, FlowType DEF FindResource, PositionOK, ElementSteps, Stage
  <2> QED
    BY <1>6, <1>t, <2>2, <2>3, <2>5 DEF FindResource, universeVars, TypeInv, TypeOK, Steps
<1>7. CASE CreateResource
  <2>1. stage <= Len(Pipeline) /\ elem <= Len(StageList)
    BY <1>7 DEF CreateResource, AtElement
  <2>2. Element.val \in Vals /\ Resource \in Resources
    BY <1>t, <2>1, ElementFacts
  <2>3. res' \in [Resources -> ResourceType]
    BY <1>7, <1>t, <2>2 DEF CreateResource, TypeOK, ResourceType
  <2>4. StageList' = StageList
    BY <1>7 DEF CreateResource, StageList, Stage
  <2>5. PositionOK'
    BY <1>7, <2>1, <2>4 DEF CreateResource, PositionOK, ElementSteps
  <2> QED
    BY <1>7, <1>t, <2>3, <2>5 DEF CreateResource, universeVars, TypeInv, TypeOK, Steps
<1>8. CASE CreateFails
  BY <1>8, <1>t, TypeEnd DEF CreateFails, EndPass, universeVars, TypeOK
<1>9. CASE ReportCreating
  <2>1. stage <= Len(Pipeline) /\ elem <= Len(StageList)
    BY <1>9 DEF ReportCreating, TypeInv, PositionOK, ElementSteps
  <2>2. updateStatus(mem, Stage.kind, Element.name, "Creating") \in UniverseType
    BY <1>t, <2>1, StageFacts, ElementFacts, StatusType DEF TypeOK, Progress
  <2>3. api' \in UniverseType /\ cacheFresh' \in BOOLEAN /\ cache' \in UniverseType
    BY <1>9, <1>t, <2>2, PersistType DEF ReportCreating
  <2> QED
    BY <1>9, <1>t, <2>3, TypeEnd DEF ReportCreating, EndPass, TypeOK
<1>10. CASE ReportReconciling
  <2>1. stage <= Len(Pipeline) /\ elem <= Len(StageList)
    BY <1>10 DEF ReportReconciling, TypeInv, PositionOK, ElementSteps
  <2>2. Stage.announces \in Kinds
    BY <1>10, <1>t, <2>1, StageFacts DEF ReportReconciling, TypeInv, PositionOK
  <2>3. (IF Stage.announcesAs = "spec" THEN Element.name ELSE found) \in Names \cup {Blank}
    BY <1>t, <2>1, ElementFacts DEF TypeOK
  <2>4. mem' \in UniverseType /\ mem'.spec = mem.spec
    BY <1>10, <1>t, <2>2, <2>3, StatusType DEF ReportReconciling, TypeOK, Progress
  <2>5. api' \in UniverseType /\ cacheFresh' \in BOOLEAN /\ cache' \in UniverseType
    BY <1>10, <1>t, <2>4, PersistType DEF ReportReconciling
  <2>6. StageList' = StageList
    BY <1>10, <2>4 DEF ReportReconciling, StageList, Stage
  <2>7. PositionOK'
    BY <1>10, <2>1, <2>6 DEF ReportReconciling, PositionOK, ElementSteps
  <2> QED
    BY <1>10, <1>t, <2>4, <2>5, <2>7 DEF ReportReconciling, TypeInv, TypeOK, Steps
<1>11. ASSUME NEW accepted \in BOOLEAN, UpdateResource(accepted) PROVE TypeInv'
  <2>1. stage <= Len(Pipeline) /\ elem <= Len(StageList)
    BY <1>11 DEF UpdateResource, TypeInv, PositionOK, ElementSteps
  <2>2. Element.val \in Vals /\ Resource \in Resources
    BY <1>t, <2>1, ElementFacts
  <2>3. res' \in [Resources -> ResourceType] /\ missed' \subseteq Resources
    BY <1>11, <1>t, <2>2 DEF UpdateResource, TypeOK, ResourceType
  <2>4. StageList' = StageList
    BY <1>11 DEF UpdateResource, StageList, Stage
  <2>5. PositionOK'
    BY <1>11, <2>1, <2>4 DEF UpdateResource, PositionOK, ElementSteps
  <2> QED
    BY <1>11, <1>t, <2>3, <2>5 DEF UpdateResource, universeVars, TypeInv, TypeOK, Steps
<1>12. CASE WaitReturns
  <2>1. stage <= Len(Pipeline) /\ elem <= Len(StageList)
    BY <1>12 DEF WaitReturns, TypeInv, PositionOK, ElementSteps
  <2>2. pc' \in {"wait", "running", "update", "reconciling"}
    BY <1>12, FlowType DEF WaitReturns
  <2>3. StageList' = StageList
    BY <1>12 DEF WaitReturns, StageList, Stage
  <2>4. PositionOK'
    BY <1>12, <2>1, <2>2, <2>3, FlowType DEF WaitReturns, PositionOK, ElementSteps, Stage
  <2> QED
    BY <1>12, <1>t, <2>2, <2>4 DEF WaitReturns, universeVars, TypeInv, TypeOK, Steps
<1>13. CASE ReportRunning
  <2>1. stage <= Len(Pipeline) /\ elem <= Len(StageList)
    BY <1>13 DEF ReportRunning, TypeInv, PositionOK, ElementSteps
  <2>2. Stage.kind \in Kinds
    BY <1>t, <2>1, StageFacts
  <2>3. (IF Stage.healthyAs = "spec" THEN Element.name ELSE found) \in Names \cup {Blank}
    BY <1>t, <2>1, ElementFacts DEF TypeOK
  <2>4. mem' \in UniverseType
    BY <1>13, <1>t, <2>2, <2>3, StatusType DEF ReportRunning, TypeOK, Progress
  <2>5. api' \in UniverseType /\ cacheFresh' \in BOOLEAN /\ cache' \in UniverseType
    BY <1>13, <1>t, <2>4, PersistType DEF ReportRunning
  <2>6. PositionOK'
    BY <1>13, <2>1 DEF ReportRunning, PositionOK, ElementSteps
  <2>7. elem' \in Nat \ {0}
    BY <1>13, <1>t DEF ReportRunning, TypeOK
  <2> QED
    BY <1>13, <1>t, <2>4, <2>5, <2>6, <2>7 DEF ReportRunning, TypeInv, TypeOK, Steps
<1>14. CASE Prune
  <2>1. stage <= Len(Pipeline)
    BY <1>14 DEF Prune
  <2>2. Stage.kind \in Kinds
    BY <1>t, <2>1, StageFacts
  <2>3. lists' \in [Kinds -> SUBSET Names]
    <3>1. PICK listed \in {Labelled(Stage.kind)} \cup (IF "list" \in Faults THEN {{}} ELSE {}) :
            lists' = [lists EXCEPT ![Stage.kind] = listed]
      BY <1>14 DEF Prune
    <3>2. listed \in SUBSET Names
      BY DEF Labelled
    <3> QED
      BY <3>1, <3>2, <2>2, <1>t DEF TypeOK
  <2>4. \A x \in ResourceType : Deleting(x) \in ResourceType
    BY DEF Deleting, ResourceType
  <2>5. res' \in [Resources -> ResourceType]
    <3>1. PICK gone : res' = [r \in Resources |->
                                IF r[1] = Stage.removes /\ r[2] \in gone
                                  THEN Deleting(res[r]) ELSE res[r]]
      BY <1>14 DEF Prune
    <3> QED
      BY <3>1, <2>4, <1>t DEF TypeOK
  <2>6. stage' \in 1 .. Len(Pipeline) + 1 /\ elem' \in Nat \ {0}
    BY <1>14, <1>t, <1>l DEF Prune, TypeOK
  <2>7. PositionOK'
    BY <1>14, <1>t, <1>l DEF Prune, PositionOK, ElementSteps, TypeOK
  <2> QED
    BY <1>14, <1>t, <2>3, <2>5, <2>6, <2>7 DEF Prune, universeVars, TypeInv, TypeOK, Steps
<1>15. CASE PreviewCluster
  <2>1. PositionOK'
    BY <1>15 DEF PreviewCluster, PositionOK, ElementSteps
  <2> QED
    BY <1>15, <1>t, <2>1 DEF PreviewCluster, universeVars, TypeInv, TypeOK
<1>16. CASE PreviewClusterMissing
  BY <1>16, <1>t, TypeEnd DEF PreviewClusterMissing, EndPass, universeVars, TypeOK
<1>17. CASE CheckDeletion
  <2>1. PositionOK'
    BY <1>17 DEF CheckDeletion, PositionOK, ElementSteps
  <2> QED
    BY <1>17, <1>t, <2>1 DEF CheckDeletion, universeVars, TypeInv, TypeOK, Steps
<1>18. CASE Finalize
  <2>1. api' \in UniverseType /\ cacheFresh' \in BOOLEAN /\ queued' \in BOOLEAN
    BY <1>18, <1>t, GoneType DEF Finalize, EndPass, TypeOK
  <2> QED
    BY <1>18, <1>t, <2>1, TypeEnd DEF Finalize, EndPass, TypeOK
<1>19. CASE AddFinalizer
  <2>1. CASE EndPass(TRUE) /\ UNCHANGED universeVars
    BY <1>19, <2>1, <1>t, TypeEnd DEF AddFinalizer, EndPass, universeVars, TypeOK
  <2>2. CASE pc' = "ttl" /\ api' = [api EXCEPT !.fin = TRUE] /\ mem' = api' /\ cacheFresh' = FALSE
             /\ UNCHANGED <<cache, queued, memFresh, stage, elem, found, foundFresh, lists, walked>>
    <3>1. api' \in UniverseType
      BY <2>2, <1>t DEF TypeOK, UniverseType
    <3>2. PositionOK'
      BY <2>2 DEF PositionOK, ElementSteps
    <3> QED
      BY <1>19, <2>2, <1>t, <3>1, <3>2 DEF AddFinalizer, TypeInv, TypeOK, Steps
  <2> QED
    BY <1>19, <2>1, <2>2 DEF AddFinalizer
<1>20. CASE HasFinalizer
  <2>1. PositionOK'
    BY <1>20 DEF HasFinalizer, PositionOK, ElementSteps
  <2> QED
    BY <1>20, <1>t, <2>1 DEF HasFinalizer, universeVars, TypeInv, TypeOK, Steps
<1>21. CASE NotExpired
  <2>1. PositionOK'
    BY <1>21 DEF NotExpired, PositionOK, ElementSteps
  <2> QED
    BY <1>21, <1>t, <2>1 DEF NotExpired, universeVars, TypeInv, TypeOK, Steps
<1>m. MarkDeleted(api) \in UniverseType
  <2>0. api.gen + 1 \in Nat
    BY <1>t DEF TypeOK, UniverseType
  <2>1. [api EXCEPT !.del = TRUE, !.gen = api.gen + 1] \in UniverseType
    BY <1>t, <2>0 DEF TypeOK, UniverseType
  <2> QED
    BY <1>t, <2>1, GoneType DEF MarkDeleted, TypeOK
<1>22. CASE Expire
  <2>1. CASE EndPass(TRUE) /\ UNCHANGED universeVars
    BY <1>22, <2>1, <1>t, TypeEnd DEF Expire, EndPass, universeVars, TypeOK
  <2>2. CASE pc' = "observe" /\ api' = MarkDeleted(api)
             /\ cacheFresh' = (cacheFresh /\ api' = api) /\ memFresh' = (memFresh /\ api' = api)
             /\ UNCHANGED <<cache, queued, mem, stage, elem, found, foundFresh, lists, walked>>
    <3>1. PositionOK'
      BY <2>2 DEF PositionOK, ElementSteps
    <3> QED
      BY <1>22, <2>2, <1>t, <1>m, <3>1 DEF Expire, TypeInv, TypeOK, Steps
  <2> QED
    BY <1>22, <2>1, <2>2 DEF Expire
<1>23. CASE Observe
  <2>1. [mem EXCEPT !.obs = mem.gen] \in UniverseType
    BY <1>t DEF TypeOK, UniverseType
  <2>2. api' \in UniverseType /\ cacheFresh' \in BOOLEAN /\ cache' \in UniverseType
    BY <1>23, <1>t, <2>1, PersistType DEF Observe
  <2> QED
    BY <1>23, <1>t, <2>2, TypeEnd DEF Observe, EndPass, TypeOK
<1>24. CASE Edit
  <2>1. api' \in UniverseType
    <3>1. PICK s \in Specs : api' = [api EXCEPT !.spec = s, !.gen = api.gen + 1]
      BY <1>24 DEF Edit
    <3>2. s \in [Kinds -> Seq(Elements)]
      BY SpecsAssumption
    <3>3. api.gen + 1 \in Nat
      BY <1>t DEF TypeOK, UniverseType
    <3> QED
      BY <3>1, <3>2, <3>3, <1>t DEF TypeOK, UniverseType
  <2> QED
    BY <1>24, <2>1 DEF Edit, passVars, TypeInv, TypeOK, PositionOK, StageList, Stage
<1>25. CASE DeleteUniverse
  BY <1>25, <1>m DEF DeleteUniverse, passVars, TypeInv, TypeOK, PositionOK, StageList, Stage
<1>26. CASE WatchDeliver
  BY <1>26 DEF WatchDeliver, passVars, TypeInv, TypeOK, PositionOK, StageList, Stage
<1>27. CASE Resync
  BY <1>27 DEF Resync, universeVars, passVars, TypeInv, TypeOK, PositionOK, StageList, Stage
<1>28. CASE CrashRestart
  <2>1. crashes' \in 0 .. MaxCrashes
    BY <1>28, <1>t, BoundsAssumption DEF CrashRestart, TypeOK
  <2> QED
    BY <1>28, <1>t, <2>1, TypeEnd DEF CrashRestart, TypeOK, UniverseType
<1>29. ASSUME NEW r \in Resources, Provision(r) \/ Deprovision(r) \/ CollectGarbage(r)
       PROVE TypeInv'
  <2>1. res' \in [Resources -> ResourceType]
    BY <1>29, <1>t, AbsentType DEF Provision, Deprovision, CollectGarbage, TypeOK, ResourceType
  <2>2. UNCHANGED <<universeVars, queued, mem, memFresh, pc, stage, elem, found, lists,
                    crashes, walked, missed>>
    BY <1>29 DEF Provision, Deprovision, CollectGarbage
  <2>3. foundFresh' \in BOOLEAN
    BY <1>29 DEF Provision, Deprovision, CollectGarbage, Touch
  <2> QED
    BY <2>1, <2>2, <2>3 DEF universeVars, TypeInv, TypeOK, PositionOK, StageList, Stage
<1>30. CASE UNCHANGED vars
  BY <1>30 DEF vars, TypeInv, TypeOK, PositionOK, StageList, Stage
<1> QED
  BY <1>1, <1>2, <1>3, <1>4, <1>5, <1>6, <1>7, <1>8, <1>9, <1>10, <1>11, <1>12, <1>13,
     <1>14, <1>15, <1>16, <1>17, <1>18, <1>19, <1>20, <1>21, <1>22, <1>23, <1>24, <1>25,
     <1>26, <1>27, <1>28, <1>29, <1>30
  DEF Next, ReconcileStep, CloudStep, GetResource, GetFails

(* Every variable keeps to its values, in every behaviour of the           *)
(* controller and its surroundings.                                        *)
THEOREM TypeCorrect == Spec => []TypeOK
<1>1. TypeInv => TypeOK
  BY DEF TypeInv
<1> QED
  BY <1>1, TypeInit, TypeStep, PTL DEF Spec

-----------------------------------------------------------------------------
(* No lost wake-up.                                                        *)

(* Two copies agree on everything but the status entries and annotations. *)
Agree(u, v) ==
  /\ u.gen = v.gen /\ u.obs = v.obs /\ u.spec = v.spec
  /\ u.del = v.del /\ u.fin = v.fin

(* What the freshness flags mean. *)
FlagsOK ==
  /\ cacheFresh => cache = api
  /\ memFresh => api.exists /\ Agree(mem, api)

(* A pass works on the newest version unless a newer one has been, or will *)
(* be, announced to the workqueue.                                         *)
WakeUpOK == pc # "idle" /\ cacheFresh /\ ~queued => memFresh

(* The Universe as a pass finds it at its last steps. *)
LifecycleOK ==
  /\ api.exists /\ api.del => api.fin
  /\ api.obs <= api.gen
  /\ pc = "finalize" => mem.del
  /\ pc = "adopt" => ~mem.del
  /\ pc \in {"ttl", "observe"} => mem.fin /\ ~mem.del

FreshInv == FlagsOK /\ WakeUpOK /\ LifecycleOK /\ QuiescentObserved

(* A status write that leaves the observed generation alone changes        *)
(* nothing a pass relies on, and is not accepted from an old copy.         *)
LEMMA PersistAgree ==
  ASSUME TypeOK, FlagsOK, NEW m \in UniverseType, m.obs = mem.obs, Persist(m)
  PROVE  /\ Agree(api', api) /\ api'.exists = api.exists /\ cache' = cache
         /\ cacheFresh' => cacheFresh /\ api' = api
<1>1. PICK accepted \in Outcomes(memFresh, "status") :
        /\ api' = IF accepted
                    THEN [api EXCEPT !.obs = m.obs, !.status = m.status,
                                     !.repo = m.repo, !.pr = m.pr]
                    ELSE api
        /\ cacheFresh' = (cacheFresh /\ api' = api)
        /\ cache' = cache
  BY DEF Persist
<1>2. CASE accepted
  <2>1. memFresh
    BY <1>2 DEF Outcomes
  <2>2. api' = [api EXCEPT !.obs = m.obs, !.status = m.status,
                           !.repo = m.repo, !.pr = m.pr]
    BY <1>1, <1>2
  <2>3. api.obs = m.obs
    BY <2>1 DEF FlagsOK, Agree
  <2>4. api \in UniverseType
    BY DEF TypeOK
  <2>5. Agree(api', api) /\ api'.exists = api.exists
    BY <2>2, <2>3, <2>4 DEF Agree, UniverseType
  <2> QED
    BY <1>1, <2>5
<1>3. CASE ~accepted
  BY <1>1, <1>3 DEF Agree
<1> QED
  BY <1>2, <1>3

(* The status entries a pass writes are all it changes in its copy. *)
LEMMA CreatingWrite ==
  ASSUME TypeInv, ReportCreating
  PROVE  \E m \in UniverseType : m.obs = mem.obs /\ Persist(m)
<1>1. TypeOK /\ stage <= Len(Pipeline) /\ elem <= Len(StageList)
  BY DEF ReportCreating, TypeInv, PositionOK, ElementSteps
<1>2. /\ mem \in UniverseType /\ Stage.kind \in Kinds /\ "Creating" \in Progress
      /\ Element.name \in Names \cup {Blank}
  BY <1>1, StageFacts, ElementFacts DEF TypeOK, Progress
<1> DEFINE m == updateStatus(mem, Stage.kind, Element.name, "Creating")
<1>3. m \in UniverseType /\ m.obs = mem.obs
  BY <1>2, StatusType
<1>4. Persist(m)
  BY DEF ReportCreating
<1> QED
  BY <1>3, <1>4

(* So does the report before a synchronisation, *)
LEMMA ReconcilingWrite ==
  ASSUME TypeInv, ReportReconciling
  PROVE  mem' \in UniverseType /\ Agree(mem', mem)
<1>1. TypeOK /\ stage <= Len(Pipeline) /\ elem <= Len(StageList) /\ Stage.announces # "none"
  BY DEF ReportReconciling, TypeInv, PositionOK, ElementSteps
<1>2. mem \in UniverseType /\ Stage.announces \in Kinds
  BY <1>1, StageFacts DEF TypeOK
<1>3. (IF Stage.announcesAs = "spec" THEN Element.name ELSE found) \in Names \cup {Blank}
  BY <1>1, ElementFacts DEF TypeOK
<1> QED
  BY <1>2, <1>3, StatusType DEF ReportReconciling, Progress, Agree

(* and the one after it. *)
LEMMA RunningWrite ==
  ASSUME TypeInv, ReportRunning
  PROVE  mem' \in UniverseType /\ Agree(mem', mem)
<1>1. TypeOK /\ stage <= Len(Pipeline) /\ elem <= Len(StageList)
  BY DEF ReportRunning, TypeInv, PositionOK, ElementSteps
<1>2. mem \in UniverseType /\ Stage.kind \in Kinds
  BY <1>1, StageFacts DEF TypeOK
<1>3. (IF Stage.healthyAs = "spec" THEN Element.name ELSE found) \in Names \cup {Blank}
  BY <1>1, ElementFacts DEF TypeOK
<1> QED
  BY <1>2, <1>3, StatusType DEF ReportRunning, Progress, Agree

(* Steps inside a pass that write no more than a status, by which the copy *)
(* keeps what the API server has too.                                      *)
LEMMA FreshStatusWrite ==
  ASSUME TypeOK, FreshInv, mem' \in UniverseType, Agree(mem', mem), Persist(mem'),
         memFresh' = memFresh, queued' = queued, pc # "idle",
         pc' \in {"refetch", "walk", "update"}
  PROVE  FreshInv'
<1>1. mem'.obs = mem.obs
  BY DEF Agree
<1>2. /\ Agree(api', api) /\ api'.exists = api.exists /\ cache' = cache
      /\ cacheFresh' => cacheFresh /\ api' = api
  BY <1>1, PersistAgree DEF FreshInv
<1>3. FlagsOK'
  BY <1>2 DEF FreshInv, FlagsOK, Agree
<1>4. WakeUpOK'
  BY <1>2 DEF FreshInv, WakeUpOK
<1>5. LifecycleOK'
  BY <1>2 DEF FreshInv, LifecycleOK, Agree
<1>6. QuiescentObserved'
  BY DEF QuiescentObserved, Quiescent
<1> QED
  BY <1>3, <1>4, <1>5, <1>6 DEF FreshInv

(* Steps inside a pass that leave the Universe alone. *)
LEMMA FreshWalk ==
  ASSUME FreshInv, UNCHANGED <<api, cache, cacheFresh, queued, mem, memFresh>>, pc # "idle",
         pc' \in Steps \ {"idle", "finalize", "adopt", "ttl", "observe"}
  PROVE  FreshInv'
<1>1. FlagsOK'
  BY DEF FreshInv, FlagsOK, Agree
<1>2. WakeUpOK'
  BY DEF FreshInv, WakeUpOK
<1>3. LifecycleOK'
  BY DEF FreshInv, LifecycleOK
<1>4. QuiescentObserved'
  BY DEF QuiescentObserved, Quiescent, Steps
<1> QED
  BY <1>1, <1>2, <1>3, <1>4 DEF FreshInv

(* A pass that ends with the key in the queue. *)
LEMMA FreshRequeue ==
  ASSUME FreshInv, EndPass(TRUE), Agree(api', api), api'.exists = api.exists, cache' = cache,
         cacheFresh' => cacheFresh /\ api' = api
  PROVE  FreshInv'
<1>1. pc' = "idle" /\ ~memFresh' /\ queued'
  BY DEF EndPass, ForgetPass
<1>2. FlagsOK'
  BY <1>1 DEF FreshInv, FlagsOK
<1>3. WakeUpOK' /\ QuiescentObserved'
  BY <1>1 DEF WakeUpOK, QuiescentObserved, Quiescent
<1>4. LifecycleOK'
  BY <1>1 DEF FreshInv, LifecycleOK, Agree
<1> QED
  BY <1>2, <1>3, <1>4 DEF FreshInv

(* Nothing is queued, cached or copied at first. *)
LEMMA FreshInit == Init => FreshInv
<1> SUFFICES ASSUME Init PROVE FreshInv
  OBVIOUS
<1>1. \A s \in Specs : LET u == NewUniverse(s) IN ~u.del /\ u.obs = 0 /\ u.gen = 1
  BY DEF NewUniverse
<1>2. ~api.del /\ api.obs = 0 /\ api.gen = 1
  BY <1>1 DEF Init
<1> QED
  BY <1>2 DEF Init, FreshInv, FlagsOK, WakeUpOK, LifecycleOK, QuiescentObserved, Quiescent

(* No step loses a wake-up or mistakes an old copy for a new one. *)
LEMMA FreshStep == TypeInv /\ FreshInv /\ [Next]_vars => FreshInv'
<1> SUFFICES ASSUME TypeInv, FreshInv, [Next]_vars PROVE FreshInv'
  OBVIOUS
<1>t. TypeOK
  BY DEF TypeInv
<1>s. /\ api \in UniverseType /\ mem \in UniverseType
      /\ api.gen \in Nat /\ api.obs \in Nat /\ mem.gen \in Nat
  BY <1>t DEF TypeOK, UniverseType
<1>g. Gone.exists = FALSE /\ Gone.obs = 0 /\ Gone.gen = 0
  BY DEF Gone, NewUniverse
<1>e. Agree(api, api)
  BY DEF Agree
<1>1. CASE BeginPass
  <2>1. pc' = "repo" /\ mem' = cache /\ memFresh' = cacheFresh /\ cache.exists
        /\ UNCHANGED <<api, cache, cacheFresh>>
    BY <1>1 DEF BeginPass, universeVars
  <2>2. FlagsOK'
    BY <2>1 DEF FreshInv, FlagsOK, Agree
  <2>3. LifecycleOK'
    BY <2>1 DEF FreshInv, LifecycleOK
  <2> QED
    BY <2>1, <2>2, <2>3 DEF FreshInv, WakeUpOK, QuiescentObserved, Quiescent
<1>2. CASE DropRequest
  <2>1. pc = "idle" /\ ~cache.exists /\ UNCHANGED <<api, cache, cacheFresh, mem, memFresh, pc>>
    BY <1>2 DEF DropRequest, universeVars, passVars
  <2>2. cacheFresh => ~api.exists
    BY <2>1 DEF FreshInv, FlagsOK
  <2>3. FlagsOK' /\ LifecycleOK'
    BY <2>1 DEF FreshInv, FlagsOK, Agree, LifecycleOK
  <2> QED
    BY <2>1, <2>2, <2>3 DEF FreshInv, WakeUpOK, QuiescentObserved, Quiescent
<1>3. CASE RecordRepo
  <2>1. pc # "idle" /\ pc' \in {"refetch", "walk"} /\ memFresh' = memFresh /\ queued' = queued
    BY <1>3 DEF RecordRepo
  <2>2. CASE "repo" \in Annotations
    <3>1. mem' = [mem EXCEPT !.repo = TRUE] /\ Persist(mem')
      BY <1>3, <2>2 DEF RecordRepo
    <3>2. mem' \in UniverseType /\ Agree(mem', mem)
      BY <3>1, <1>s DEF Agree, UniverseType
    <3> QED
      BY <1>t, <2>1, <3>1, <3>2, FreshStatusWrite
  <2>3. CASE "repo" \notin Annotations
    <3>1. UNCHANGED <<api, cache, cacheFresh, mem>>
      BY <1>3, <2>3 DEF RecordRepo, universeVars
    <3> QED
      BY <2>1, <3>1, FreshWalk DEF Steps
  <2> QED
    BY <2>2, <2>3
<1>4. CASE Refetch
  <2>1. pc = "refetch" /\ pc' = "pr" /\ UNCHANGED <<api, cache, cacheFresh, queued>>
    BY <1>4 DEF Refetch, universeVars
  <2>2. CASE cache.exists
    <3>1. mem' = cache /\ memFresh' = cacheFresh
      BY <1>4, <2>2 DEF Refetch
    <3>2. FlagsOK'
      BY <2>1, <2>2, <3>1 DEF FreshInv, FlagsOK, Agree
    <3>3. LifecycleOK'
      BY <2>1 DEF FreshInv, LifecycleOK
    <3> QED
      BY <2>1, <3>1, <3>2, <3>3 DEF FreshInv, WakeUpOK, QuiescentObserved, Quiescent
  <2>3. CASE ~cache.exists
    <3>1. UNCHANGED <<mem, memFresh>>
      BY <1>4, <2>3 DEF Refetch
    <3> QED
      BY <2>1, <3>1, FreshWalk DEF Steps
  <2> QED
    BY <2>2, <2>3
<1>5. CASE RecordPR
  <2>1. mem' = [mem EXCEPT !.pr = TRUE] /\ Persist(mem') /\ pc = "pr" /\ pc' = "walk"
        /\ memFresh' = memFresh /\ queued' = queued
    BY <1>5 DEF RecordPR
  <2>2. mem' \in UniverseType /\ Agree(mem', mem)
    BY <2>1, <1>s DEF Agree, UniverseType
  <2> QED
    BY <1>t, <2>1, <2>2, FreshStatusWrite
<1>6. ASSUME NEW got \in BOOLEAN, FindResource(got) PROVE FreshInv'
  <2>1. pc = "walk" /\ UNCHANGED <<api, cache, cacheFresh, queued, mem, memFresh>>
    BY <1>6 DEF FindResource, AtElement, universeVars
  <2>2. pc' \in {"wait", "running", "update", "reconciling"}
    BY <1>6, FlowType DEF FindResource
  <2> QED
    BY <2>1, <2>2, FreshWalk DEF Steps
<1>7. CASE CreateResource
  <2>1. pc = "walk" /\ pc' = "creating" /\ UNCHANGED <<api, cache, cacheFresh, queued, mem, memFresh>>
    BY <1>7 DEF CreateResource, AtElement, universeVars
  <2> QED
    BY <2>1, FreshWalk DEF Steps
<1>8. CASE CreateFails
  BY <1>8, <1>e, FreshRequeue DEF CreateFails, universeVars
<1>9. CASE ReportCreating
  <2>1. PICK m \in UniverseType : m.obs = mem.obs /\ Persist(m)
    BY <1>9, CreatingWrite
  <2>2. /\ Agree(api', api) /\ api'.exists = api.exists /\ cache' = cache
        /\ cacheFresh' => cacheFresh /\ api' = api
    BY <1>t, <2>1, PersistAgree DEF FreshInv
  <2> QED
    BY <1>9, <2>2, FreshRequeue DEF ReportCreating
<1>10. CASE ReportReconciling
  BY <1>10, <1>t, ReconcilingWrite, FreshStatusWrite DEF ReportReconciling
<1>11. ASSUME NEW accepted \in BOOLEAN, UpdateResource(accepted) PROVE FreshInv'
  <2>1. pc = "update" /\ pc' \in {"wait", "running"}
        /\ UNCHANGED <<api, cache, cacheFresh, queued, mem, memFresh>>
    BY <1>11 DEF UpdateResource, universeVars
  <2> QED
    BY <2>1, FreshWalk DEF Steps
<1>12. CASE WaitReturns
  <2>1. pc = "wait" /\ UNCHANGED <<api, cache, cacheFresh, queued, mem, memFresh>>
    BY <1>12 DEF WaitReturns, universeVars
  <2>2. pc' \in {"wait", "running", "update", "reconciling"}
    BY <1>12, FlowType DEF WaitReturns
  <2> QED
    BY <2>1, <2>2, FreshWalk DEF Steps
<1>13. CASE ReportRunning
  BY <1>13, <1>t, RunningWrite, FreshStatusWrite DEF ReportRunning
<1>14. CASE Prune
  <2>1. pc = "walk" /\ pc' \in {"clusters", "walk"}
        /\ UNCHANGED <<api, cache, cacheFresh, queued, mem, memFresh>>
    BY <1>14 DEF Prune, universeVars
  <2> QED
    BY <2>1, FreshWalk DEF Steps
<1>15. CASE PreviewCluster
  <2>1. pc = "clusters" /\ pc' = pc /\ UNCHANGED <<api, cache, cacheFresh, queued, mem, memFresh>>
    BY <1>15 DEF PreviewCluster, universeVars
  <2> QED
    BY <2>1, FreshWalk DEF Steps
<1>16. CASE PreviewClusterMissing
  BY <1>16, <1>e, FreshRequeue DEF PreviewClusterMissing, universeVars
<1>17. CASE CheckDeletion
  <2>1. pc = "clusters" /\ pc' = (IF mem.del THEN "finalize" ELSE "adopt")
        /\ UNCHANGED <<api, cache, cacheFresh, queued, mem, memFresh>>
    BY <1>17 DEF CheckDeletion, universeVars
  <2>2. FlagsOK' /\ LifecycleOK'
    BY <2>1 DEF FreshInv, FlagsOK, Agree, LifecycleOK
  <2> QED
    BY <2>1, <2>2 DEF FreshInv, WakeUpOK, QuiescentObserved, Quiescent
<1>18. CASE Finalize
  <2>1. PICK accepted \in Outcomes(memFresh, "finalizer") :
          /\ api' = IF mem.fin /\ accepted THEN Gone ELSE api
          /\ cacheFresh' = (cacheFresh /\ api' = api)
          /\ EndPass(mem.fin /\ ~accepted)
    BY <1>18 DEF Finalize
  <2>2. /\ pc = "finalize" /\ cache' = cache /\ pc' = "idle" /\ ~memFresh'
        /\ queued' = (queued \/ (mem.fin /\ ~accepted))
    BY <1>18, <2>1 DEF Finalize, EndPass, ForgetPass
  <2>3. mem.del
    BY <2>2 DEF FreshInv, LifecycleOK
  <2>4. FlagsOK'
    BY <2>1, <2>2 DEF FreshInv, FlagsOK
  <2>5. LifecycleOK'
    BY <2>1, <2>2, <1>g DEF FreshInv, LifecycleOK
  <2>6. ASSUME ~queued', cacheFresh', api'.exists PROVE FALSE
    <3>1. memFresh /\ api' = api /\ ~mem.fin
      BY <2>1, <2>2, <2>6, <1>g DEF FreshInv, WakeUpOK
    <3> QED
      BY <2>3, <2>6, <3>1 DEF FreshInv, FlagsOK, Agree, LifecycleOK
  <2> QED
    BY <2>2, <2>4, <2>5, <2>6 DEF FreshInv, WakeUpOK, QuiescentObserved, Quiescent
<1>19. CASE AddFinalizer
  <2>1. CASE EndPass(TRUE) /\ UNCHANGED universeVars
    BY <2>1, <1>e, FreshRequeue DEF universeVars
  <2>2. CASE /\ memFresh /\ pc' = "ttl" /\ api' = [api EXCEPT !.fin = TRUE] /\ mem' = api'
             /\ cacheFresh' = FALSE /\ UNCHANGED <<cache, queued, memFresh>>
    <3>1. api'.exists /\ api'.fin /\ api'.del = api.del /\ api'.gen = api.gen /\ api'.obs = api.obs
      BY <2>2, <1>s DEF UniverseType, FreshInv, FlagsOK
    <3>2. ~api.del
      BY <1>19, <2>2 DEF AddFinalizer, FreshInv, LifecycleOK, FlagsOK, Agree
    <3>3. FlagsOK'
      BY <2>2, <3>1 DEF FlagsOK, Agree
    <3>4. LifecycleOK'
      BY <2>2, <3>1, <3>2 DEF FreshInv, LifecycleOK
    <3> QED
      BY <2>2, <3>3, <3>4 DEF FreshInv, WakeUpOK, QuiescentObserved, Quiescent
  <2> QED
    <3>1. PICK accepted \in Outcomes(memFresh, "finalizer") :
            IF accepted
              THEN /\ api' = [api EXCEPT !.fin = TRUE] /\ mem' = api' /\ cacheFresh' = FALSE
                   /\ pc' = "ttl" /\ UNCHANGED <<cache, queued, memFresh>>
              ELSE EndPass(TRUE) /\ UNCHANGED universeVars
      BY <1>19 DEF AddFinalizer
    <3>2. accepted => memFresh
      BY DEF Outcomes
    <3> QED
      BY <2>1, <2>2, <3>1, <3>2
<1>20. CASE HasFinalizer
  <2>1. pc = "adopt" /\ mem.fin /\ pc' = "ttl"
        /\ UNCHANGED <<api, cache, cacheFresh, queued, mem, memFresh>>
    BY <1>20 DEF HasFinalizer, universeVars
  <2>2. FlagsOK' /\ LifecycleOK'
    BY <2>1 DEF FreshInv, FlagsOK, Agree, LifecycleOK
  <2> QED
    BY <2>1, <2>2 DEF FreshInv, WakeUpOK, QuiescentObserved, Quiescent
<1>21. CASE NotExpired
  <2>1. pc = "ttl" /\ pc' = "observe" /\ UNCHANGED <<api, cache, cacheFresh, queued, mem, memFresh>>
    BY <1>21 DEF NotExpired, universeVars
  <2>2. FlagsOK' /\ LifecycleOK'
    BY <2>1 DEF FreshInv, FlagsOK, Agree, LifecycleOK
  <2> QED
    BY <2>1, <2>2 DEF FreshInv, WakeUpOK, QuiescentObserved, Quiescent
<1>m. LET u == MarkDeleted(api) IN u.obs <= u.gen /\ (u.exists /\ u.del => u.fin)
  <2>1. CASE api.del
    BY <2>1 DEF MarkDeleted, FreshInv, LifecycleOK
  <2>2. CASE ~api.del /\ api.fin
    BY <2>2, <1>s DEF MarkDeleted, UniverseType, FreshInv, LifecycleOK
  <2>3. CASE ~api.del /\ ~api.fin
    BY <2>3, <1>g DEF MarkDeleted
  <2> QED
    BY <2>1, <2>2, <2>3, <1>s DEF UniverseType
<1>22. CASE Expire
  <2>1. CASE EndPass(TRUE) /\ UNCHANGED universeVars
    BY <2>1, <1>e, FreshRequeue DEF universeVars
  <2>2. CASE /\ pc' = "observe" /\ api' = MarkDeleted(api)
             /\ cacheFresh' = (cacheFresh /\ api' = api) /\ memFresh' = (memFresh /\ api' = api)
             /\ UNCHANGED <<cache, queued, mem>>
    <3>1. pc = "ttl"
      BY <1>22 DEF Expire
    <3>2. FlagsOK'
      BY <2>2 DEF FreshInv, FlagsOK, Agree
    <3>3. LifecycleOK'
      BY <2>2, <3>1, <1>m DEF FreshInv, LifecycleOK
    <3> QED
      BY <2>2, <3>1, <3>2, <3>3 DEF FreshInv, WakeUpOK, QuiescentObserved, Quiescent
  <2> QED
    BY <1>22, <2>1, <2>2 DEF Expire
<1>23. CASE Observe
  <2> DEFINE m == [mem EXCEPT !.obs = mem.gen]
  <2>1. PICK accepted \in Outcomes(memFresh, "status") :
          /\ api' = IF accepted
                      THEN [api EXCEPT !.obs = m.obs, !.status = m.status,
                                       !.repo = m.repo, !.pr = m.pr]
                      ELSE api
          /\ cacheFresh' = (cacheFresh /\ api' = api)
          /\ cache' = cache
    BY <1>23 DEF Observe, Persist
  <2>2. pc = "observe" /\ pc' = "idle" /\ ~memFresh' /\ queued' = queued
    BY <1>23, <1>t DEF Observe, EndPass, ForgetPass, TypeOK
  <2>3. mem.fin /\ ~mem.del
    BY <2>2 DEF FreshInv, LifecycleOK
  <2>4. accepted => /\ memFresh /\ api'.exists = api.exists /\ api'.obs = mem.gen
                    /\ api'.gen = api.gen /\ api'.del = api.del /\ api'.fin = api.fin
    BY <2>1, <1>s DEF UniverseType, Outcomes
  <2>5. FlagsOK'
    BY <2>1, <2>2 DEF FreshInv, FlagsOK
  <2>6. LifecycleOK'
    BY <2>1, <2>2, <2>4, <1>s DEF FreshInv, FlagsOK, Agree, LifecycleOK
  <2>7. ASSUME "status" \notin Faults, ~queued', cacheFresh', api'.exists
        PROVE  api'.obs = api'.gen /\ api'.fin /\ ~api'.del
    <3>1. memFresh
      BY <2>1, <2>2, <2>7 DEF FreshInv, WakeUpOK
    <3>2. accepted
      BY <3>1, <2>7 DEF Outcomes
    <3> QED
      BY <2>3, <2>4, <3>1, <3>2 DEF FreshInv, FlagsOK, Agree
  <2> QED
    BY <2>2, <2>5, <2>6, <2>7 DEF FreshInv, WakeUpOK, QuiescentObserved, Quiescent
<1>24. CASE Edit
  <2>1. PICK s \in Specs : api' = [api EXCEPT !.spec = s, !.gen = api.gen + 1]
    BY <1>24 DEF Edit
  <2>2. /\ api'.exists = api.exists /\ api'.obs = api.obs /\ api'.gen = api.gen + 1
        /\ api'.del = api.del /\ api'.fin = api.fin
    BY <2>1, <1>s DEF UniverseType
  <2>3. ~cacheFresh' /\ ~memFresh' /\ mem' = mem /\ pc' = pc
    BY <1>24 DEF Edit, passVars
  <2>4. LifecycleOK'
    BY <2>2, <2>3, <1>s DEF FreshInv, LifecycleOK
  <2> QED
    BY <2>3, <2>4 DEF FreshInv, FlagsOK, WakeUpOK, QuiescentObserved, Quiescent
<1>25. CASE DeleteUniverse
  <2>1. ~cacheFresh' /\ ~memFresh' /\ mem' = mem /\ pc' = pc /\ api' = MarkDeleted(api)
    BY <1>25 DEF DeleteUniverse, passVars
  <2>2. LifecycleOK'
    BY <2>1, <1>m DEF FreshInv, LifecycleOK
  <2> QED
    BY <2>1, <2>2 DEF FreshInv, FlagsOK, WakeUpOK, QuiescentObserved, Quiescent
<1>26. CASE WatchDeliver
  <2>1. cache' = api /\ queued' = TRUE /\ UNCHANGED <<api, mem, memFresh, pc>>
    BY <1>26 DEF WatchDeliver, passVars
  <2>2. FlagsOK' /\ LifecycleOK'
    BY <2>1 DEF FreshInv, FlagsOK, Agree, LifecycleOK
  <2> QED
    BY <2>1, <2>2 DEF FreshInv, WakeUpOK, QuiescentObserved, Quiescent
<1>27. CASE Resync
  <2>1. queued' = TRUE /\ UNCHANGED <<api, cache, cacheFresh, mem, memFresh, pc>>
    BY <1>27 DEF Resync, universeVars, passVars
  <2>2. FlagsOK' /\ LifecycleOK'
    BY <2>1 DEF FreshInv, FlagsOK, Agree, LifecycleOK
  <2> QED
    BY <2>1, <2>2 DEF FreshInv, WakeUpOK, QuiescentObserved, Quiescent
<1>28. CASE CrashRestart
  <2>1. cache' = api /\ queued' = api.exists /\ api' = api /\ ~memFresh' /\ pc' = "idle"
    BY <1>28 DEF CrashRestart, ForgetPass
  <2>2. FlagsOK' /\ LifecycleOK'
    BY <2>1 DEF FreshInv, FlagsOK, LifecycleOK
  <2> QED
    BY <2>1, <2>2 DEF FreshInv, WakeUpOK, QuiescentObserved, Quiescent
<1>29. CASE UNCHANGED <<api, cache, cacheFresh, queued, mem, memFresh, pc>>
  <2>1. FlagsOK' /\ LifecycleOK'
    BY <1>29 DEF FreshInv, FlagsOK, Agree, LifecycleOK
  <2> QED
    BY <1>29, <2>1 DEF FreshInv, WakeUpOK, QuiescentObserved, Quiescent
<1>30. CASE CloudStep
  BY <1>29, <1>30 DEF CloudStep, Provision, Deprovision, CollectGarbage, universeVars
<1>31. CASE UNCHANGED vars
  BY <1>29, <1>31 DEF vars
<1> QED
  BY <1>1, <1>2, <1>3, <1>4, <1>5, <1>6, <1>7, <1>8, <1>9, <1>10, <1>11, <1>12, <1>13,
     <1>14, <1>15, <1>16, <1>17, <1>18, <1>19, <1>20, <1>21, <1>22, <1>23, <1>24, <1>25,
     <1>26, <1>27, <1>28, <1>30, <1>31
  DEF Next, ReconcileStep, GetResource, GetFails

(* The controller never rests on a Universe it has not dealt with, for any *)
(* pipeline, any specs, and any failures but those of status writes.       *)
THEOREM NoLostWakeUp == Spec => []QuiescentObserved
<1>1. FreshInv => QuiescentObserved
  BY DEF FreshInv
<1> QED
  BY <1>1, TypeInit, TypeStep, FreshInit, FreshStep, PTL DEF Spec

-----------------------------------------------------------------------------
(* The observed generation.                                                *)

(* What one step can do to the observed generation: only the last write of *)
(* a pass moves it, from a copy of the newest version, to the generation.  *)
LEMMA ObservedStep ==
  ASSUME TypeInv, FreshInv, [Next]_vars, api'.exists, api'.obs # api.obs
  PROVE  /\ pc = "observe" /\ memFresh
         /\ api'.obs = api.gen /\ api'.spec = api.spec
<1>t. TypeOK
  BY DEF TypeInv
<1>s. api \in UniverseType /\ mem \in UniverseType
  BY <1>t DEF TypeOK
<1>g. Gone.exists = FALSE
  BY DEF Gone, NewUniverse
<1>p. ASSUME NEW m \in UniverseType, Persist(m), m.obs = mem.obs PROVE FALSE
  BY <1>t, <1>p, PersistAgree DEF FreshInv, Agree
<1>1. CASE RecordRepo
  <2>1. [mem EXCEPT !.repo = TRUE] \in UniverseType /\ [mem EXCEPT !.repo = TRUE].obs = mem.obs
    BY <1>s DEF UniverseType
  <2> QED
    BY <1>1, <1>p, <2>1 DEF RecordRepo, universeVars
<1>2. CASE RecordPR
  <2>1. [mem EXCEPT !.pr = TRUE] \in UniverseType /\ [mem EXCEPT !.pr = TRUE].obs = mem.obs
    BY <1>s DEF UniverseType
  <2> QED
    BY <1>2, <1>p, <2>1 DEF RecordPR
<1>3. CASE ReportCreating
  BY <1>3, <1>p, CreatingWrite
<1>4. CASE ReportReconciling
  BY <1>4, <1>p, ReconcilingWrite DEF ReportReconciling, Agree
<1>5. CASE ReportRunning
  BY <1>5, <1>p, RunningWrite DEF ReportRunning, Agree
<1>6. CASE Observe
  <2> DEFINE m == [mem EXCEPT !.obs = mem.gen]
  <2>1. PICK accepted \in Outcomes(memFresh, "status") :
          api' = IF accepted
                   THEN [api EXCEPT !.obs = m.obs, !.status = m.status,
                                    !.repo = m.repo, !.pr = m.pr]
                   ELSE api
    BY <1>6 DEF Observe, Persist
  <2>2. accepted /\ memFresh
    BY <2>1 DEF Outcomes
  <2>3. api'.obs = mem.gen /\ api'.spec = api.spec
    BY <2>1, <2>2, <1>s DEF UniverseType
  <2> QED
    BY <1>6, <2>2, <2>3 DEF Observe, FreshInv, FlagsOK, Agree
<1>7. CASE Finalize
  BY <1>7, <1>g DEF Finalize
<1>8. CASE AddFinalizer
  BY <1>8, <1>s DEF AddFinalizer, universeVars, UniverseType
<1>9. CASE Expire \/ DeleteUniverse
  <2>1. api' = api \/ api' = MarkDeleted(api)
    BY <1>9 DEF Expire, DeleteUniverse, universeVars
  <2> QED
    BY <2>1, <1>s, <1>g DEF MarkDeleted, UniverseType
<1>10. CASE Edit
  BY <1>10, <1>s DEF Edit, UniverseType
<1>11. CASE api' = api
  BY <1>11
<1> QED
  BY <1>1, <1>2, <1>3, <1>4, <1>5, <1>6, <1>7, <1>8, <1>9, <1>10, <1>11
  DEF Next, ReconcileStep, CloudStep, GetResource, GetFails, BeginPass, DropRequest, Refetch,
      FindResource, CreateResource, CreateFails, UpdateResource, WaitReturns, Prune,
      PreviewCluster, PreviewClusterMissing, CheckDeletion, HasFinalizer, NotExpired,
      WatchDeliver, Resync, CrashRestart, Provision, Deprovision, CollectGarbage,
      universeVars, vars

(* The observed generation only grows and never overtakes the generation,  *)
(* whatever old copies passes work on and however they are interrupted.    *)
THEOREM ObservedNeverBack == Spec => ObservedMonotone
<1>1. ASSUME TypeInv, FreshInv, FreshInv', [Next]_vars, api'.exists
      PROVE  api.obs <= api'.obs /\ api'.obs <= api'.gen
  <2>1. api'.obs <= api'.gen
    BY <1>1 DEF FreshInv, LifecycleOK
  <2>2. api.obs \in Nat /\ api.obs <= api.gen
    BY <1>1 DEF TypeInv, TypeOK, UniverseType, FreshInv, LifecycleOK
  <2>3. api'.obs # api.obs => api'.obs = api.gen
    BY <1>1, ObservedStep
  <2> QED
    BY <2>1, <2>2, <2>3
<1>2. TypeInv /\ FreshInv /\ FreshInv' /\ [Next]_vars
        => [api'.exists => api.obs <= api'.obs /\ api'.obs <= api'.gen]_vars
  BY <1>1
<1> QED
  BY <1>2, TypeInit, TypeStep, FreshInit, FreshStep, PTL DEF Spec, ObservedMonotone

-----------------------------------------------------------------------------
(* The lifecycle.                                                          *)

(* A status write of a pass that leaves the observed generation alone is a *)
(* stutter of the lifecycle.                                               *)
LEMMA LifePersist ==
  ASSUME TypeInv, FreshInv, NEW m \in UniverseType, m.obs = mem.obs, Persist(m)
  PROVE  UNCHANGED Life!lifeVars
<1>1. Agree(api', api) /\ api'.exists = api.exists
  BY PersistAgree DEF TypeInv, FreshInv
<1> QED
  BY <1>1 DEF Agree, Life!lifeVars, Phase

(* A deletion takes the lifecycle from live to deleting or absent. *)
LEMMA LifeDelete ==
  ASSUME api \in UniverseType, api.exists, api' = MarkDeleted(api)
  PROVE  Life!Next \/ UNCHANGED Life!lifeVars
<1>1. CASE api.del
  BY <1>1 DEF MarkDeleted, Life!lifeVars, Phase
<1>2. CASE ~api.del /\ api.fin
  <2>1. api'.exists /\ api'.del /\ api'.gen = api.gen + 1 /\ api'.obs = api.obs /\ api.gen \in Nat
    BY <1>2 DEF MarkDeleted, UniverseType
  <2> QED
    BY <1>2, <2>1 DEF Life!Next, Life!Delete, Phase
<1>3. CASE ~api.del /\ ~api.fin
  <2>1. ~api'.exists /\ api'.gen = 0 /\ api'.obs = 0
    BY <1>3 DEF MarkDeleted, Gone, NewUniverse
  <2> QED
    BY <1>3, <2>1 DEF Life!Next, Life!Delete, Phase
<1> QED
  BY <1>1, <1>2, <1>3

(* Every step of the controller and its surroundings is one of a Lifecycle *)
(* or leaves it alone.                                                     *)
LEMMA LifeStep == TypeInv /\ FreshInv /\ [Next]_vars => [Life!Next]_Life!lifeVars
<1> SUFFICES ASSUME TypeInv, FreshInv, [Next]_vars
             PROVE  Life!Next \/ UNCHANGED Life!lifeVars
  OBVIOUS
<1>s. api \in UniverseType /\ mem \in UniverseType
  BY DEF TypeInv, TypeOK
<1>1. CASE RecordRepo
  <2>1. [mem EXCEPT !.repo = TRUE] \in UniverseType /\ [mem EXCEPT !.repo = TRUE].obs = mem.obs
    BY <1>s DEF UniverseType
  <2>2. Persist([mem EXCEPT !.repo = TRUE]) \/ api' = api
    BY <1>1 DEF RecordRepo, universeVars
  <2> QED
    BY <2>1, <2>2, LifePersist DEF Life!lifeVars, Phase
<1>2. CASE RecordPR
  <2>1. [mem EXCEPT !.pr = TRUE] \in UniverseType /\ [mem EXCEPT !.pr = TRUE].obs = mem.obs
    BY <1>s DEF UniverseType
  <2> QED
    BY <1>2, <2>1, LifePersist DEF RecordPR
<1>3. CASE ReportCreating
  BY <1>3, LifePersist, CreatingWrite
<1>4. CASE ReportReconciling
  BY <1>4, LifePersist, ReconcilingWrite DEF ReportReconciling, Agree
<1>5. CASE ReportRunning
  BY <1>5, LifePersist, RunningWrite DEF ReportRunning, Agree
<1>6. CASE Observe
  <2> DEFINE m == [mem EXCEPT !.obs = mem.gen]
  <2>1. PICK accepted \in Outcomes(memFresh, "status") :
          api' = IF accepted
                   THEN [api EXCEPT !.obs = m.obs, !.status = m.status,
                                    !.repo = m.repo, !.pr = m.pr]
                   ELSE api
    BY <1>6 DEF Observe, Persist
  <2>2. CASE accepted
    <3>1. memFresh
      BY <2>2 DEF Outcomes
    <3>2. api.exists /\ ~api.del /\ mem.gen = api.gen
      BY <1>6, <3>1 DEF Observe, FreshInv, FlagsOK, LifecycleOK, Agree
    <3>3. /\ api'.obs = api.gen /\ api'.gen = api.gen
          /\ api'.exists = api.exists /\ api'.del = api.del
      BY <2>1, <2>2, <3>2, <1>s DEF UniverseType
    <3> QED
      BY <3>2, <3>3 DEF Life!Next, Life!Observe, Phase
  <2>3. CASE ~accepted
    BY <2>1, <2>3 DEF Life!lifeVars, Phase
  <2> QED
    BY <2>2, <2>3
<1>7. CASE Finalize
  <2>1. PICK accepted \in Outcomes(memFresh, "finalizer") :
          api' = IF mem.fin /\ accepted THEN Gone ELSE api
    BY <1>7 DEF Finalize
  <2>2. CASE mem.fin /\ accepted
    <3>1. memFresh
      BY <2>2 DEF Outcomes
    <3>2. api.exists /\ api.del
      BY <1>7, <3>1 DEF Finalize, FreshInv, FlagsOK, LifecycleOK, Agree
    <3>3. ~api'.exists /\ api'.gen = 0 /\ api'.obs = 0
      BY <2>1, <2>2 DEF Gone, NewUniverse
    <3> QED
      BY <3>2, <3>3 DEF Life!Next, Life!Vanish, Phase
  <2>3. CASE ~(mem.fin /\ accepted)
    BY <2>1, <2>3 DEF Life!lifeVars, Phase
  <2> QED
    BY <2>2, <2>3
<1>8. CASE AddFinalizer
  <2>1. api' = [api EXCEPT !.fin = TRUE] \/ api' = api
    BY <1>8 DEF AddFinalizer, universeVars
  <2> QED
    BY <2>1, <1>s DEF UniverseType, Life!lifeVars, Phase
<1>9. CASE Expire
  <2>1. api' = api \/ (api.exists /\ api' = MarkDeleted(api))
    BY <1>9 DEF Expire, Outcomes, universeVars
  <2> QED
    BY <2>1, <1>s, LifeDelete DEF Life!lifeVars, Phase
<1>10. CASE DeleteUniverse
  BY <1>10, <1>s, LifeDelete DEF DeleteUniverse
<1>11. CASE Edit
  <2>1. PICK s \in Specs : api' = [api EXCEPT !.spec = s, !.gen = api.gen + 1]
    BY <1>11 DEF Edit
  <2>2. /\ api'.gen = api.gen + 1 /\ api.gen \in Nat /\ api'.obs = api.obs
        /\ api'.exists = api.exists /\ api'.del = api.del /\ api.exists
    BY <1>11, <2>1, <1>s DEF Edit, UniverseType
  <2> QED
    BY <2>2 DEF Life!Next, Life!Change, Phase
<1>12. CASE api' = api
  BY <1>12 DEF Life!lifeVars, Phase
<1> QED
  BY <1>1, <1>2, <1>3, <1>4, <1>5, <1>6, <1>7, <1>8, <1>9, <1>10, <1>11, <1>12
  DEF Next, ReconcileStep, CloudStep, GetResource, GetFails, BeginPass, DropRequest, Refetch,
      FindResource, CreateResource, CreateFails, UpdateResource, WaitReturns, Prune,
      PreviewCluster, PreviewClusterMissing, CheckDeletion, HasFinalizer, NotExpired,
      WatchDeliver, Resync, CrashRestart, Provision, Deprovision, CollectGarbage,
      universeVars, vars

(* The Universe controller implements the abstract lifecycle for every     *)
(* pipeline, every spec and any failures: passes working on old copies     *)
(* neither observe an outdated generation nor revive a deleted Universe.   *)
THEOREM LifecycleImplemented == Spec => ImplementsLifecycle
<1>1. Init => Life!Init
  <2> SUFFICES ASSUME Init PROVE Life!Init
    OBVIOUS
  <2>1. api.exists /\ ~api.del /\ api.gen = 1 /\ api.obs = 0
    BY DEF Init, NewUniverse
  <2> QED
    BY <2>1 DEF Life!Init, Phase
<1> QED
  BY <1>1, LifeStep, TypeInit, TypeStep, FreshInit, FreshStep, PTL
  DEF Spec, ImplementsLifecycle, Life!Spec

-----------------------------------------------------------------------------
(* Resources of others.                                                    *)

(* No listing holds a resource without the Universe's label. *)
ForeignInv ==
  /\ ForeignKept
  /\ \A k \in Kinds : \A n \in lists[k] : <<k, n>> \notin Foreign

(* Foreign resources are running at first and in no listing. *)
LEMMA ForeignInit == Init => ForeignInv
  BY ForeignAssumption DEF Init, ForeignInv, ForeignKept, NoLists

(* No step labels, lists or deletes a foreign resource. *)
LEMMA ForeignStep == TypeInv /\ ForeignInv /\ [Next]_vars => ForeignInv'
<1> SUFFICES ASSUME TypeInv, ForeignInv, [Next]_vars PROVE ForeignInv'
  OBVIOUS
<1>t. TypeOK
  BY DEF TypeInv
<1>r. res \in [Resources -> ResourceType] /\ Foreign \subseteq Resources
  BY <1>t, ForeignAssumption DEF TypeOK
<1>1. CASE UNCHANGED <<res, lists>>
  BY <1>1 DEF ForeignInv, ForeignKept
<1>2. CASE res' = res /\ lists' = NoLists
  BY <1>2 DEF ForeignInv, ForeignKept, NoLists
<1>3. CASE CreateResource
  <2>1. Resource \in Resources
    BY <1>3, <1>t, ElementFacts DEF CreateResource, AtElement
  <2>2. Resource \notin Foreign
    BY <1>3 DEF CreateResource, ForeignInv, ForeignKept
  <2>3. \A r \in Foreign : res'[r] = res[r]
    BY <1>3, <1>r, <2>1, <2>2 DEF CreateResource
  <2> QED
    BY <1>3, <2>3 DEF CreateResource, ForeignInv, ForeignKept
<1>4. ASSUME NEW accepted \in BOOLEAN, UpdateResource(accepted) PROVE ForeignInv'
  <2>1. \A r \in Foreign : res'[r].state = res[r].state /\ res'[r].mine = res[r].mine
    BY <1>4, <1>r DEF UpdateResource, ResourceType
  <2> QED
    BY <1>4, <2>1 DEF UpdateResource, ForeignInv, ForeignKept
<1>5. CASE Prune
  <2>1. Stage.kind \in Kinds /\ Stage.removes \in Kinds
    BY <1>5, <1>t, StageFacts DEF Prune
  <2>2. \A n \in Labelled(Stage.kind) : <<Stage.kind, n>> \notin Foreign
    BY DEF Labelled, ForeignInv, ForeignKept
  <2>3. PICK listed \in {Labelled(Stage.kind)} \cup (IF "list" \in Faults THEN {{}} ELSE {}) :
          /\ lists' = [lists EXCEPT ![Stage.kind] = listed]
          /\ \E gone \in (IF "delete" \in Faults THEN SUBSET Victims(lists')
                                                  ELSE {Victims(lists')}) :
               res' = [r \in Resources |->
                         IF r[1] = Stage.removes /\ r[2] \in gone
                           THEN Deleting(res[r]) ELSE res[r]]
    BY <1>5 DEF Prune
  <2>4. \A k \in Kinds : \A n \in lists'[k] : <<k, n>> \notin Foreign
    BY <2>1, <2>2, <2>3, <1>t DEF ForeignInv, TypeOK
  <2>5. PICK gone \in (IF "delete" \in Faults THEN SUBSET Victims(lists')
                                              ELSE {Victims(lists')}) :
          res' = [r \in Resources |->
                    IF r[1] = Stage.removes /\ r[2] \in gone
                      THEN Deleting(res[r]) ELSE res[r]]
    BY <2>3
  <2>6. gone \subseteq lists'[Stage.removes]
    BY <2>5 DEF Victims
  <2>7. \A r \in Foreign : res'[r] = res[r]
    <3> SUFFICES ASSUME NEW r \in Foreign PROVE res'[r] = res[r]
      OBVIOUS
    <3>1. r \in Resources /\ r = <<r[1], r[2]>>
      BY <1>r DEF Resources
    <3>2. ~(r[1] = Stage.removes /\ r[2] \in gone)
      BY <3>1, <2>1, <2>4, <2>6
    <3> QED
      BY <2>5, <3>1, <3>2
  <2> QED
    BY <2>4, <2>7 DEF ForeignInv, ForeignKept
<1>6. ASSUME NEW r \in Resources, Provision(r) \/ Deprovision(r) \/ CollectGarbage(r)
      PROVE ForeignInv'
  <2>1. r \notin Foreign
    BY <1>6 DEF Provision, Deprovision, CollectGarbage, Owned, ForeignInv, ForeignKept
  <2>2. \A q \in Foreign : res'[q] = res[q]
    BY <1>6, <1>r, <2>1 DEF Provision, Deprovision, CollectGarbage
  <2> QED
    BY <1>6, <2>2 DEF Provision, Deprovision, CollectGarbage, ForeignInv, ForeignKept
<1> QED
  BY <1>1, <1>2, <1>3, <1>4, <1>5, <1>6
  DEF Next, ReconcileStep, CloudStep, GetResource, GetFails, BeginPass, DropRequest, RecordRepo,
      Refetch, RecordPR, FindResource, CreateFails, ReportCreating, ReportReconciling,
      WaitReturns, ReportRunning, PreviewCluster, PreviewClusterMissing, CheckDeletion,
      Finalize, AddFinalizer, HasFinalizer, NotExpired, Expire, Observe, Edit,
      DeleteUniverse, WatchDeliver, Resync, CrashRestart, EndPass, ForgetPass, passVars, vars

(* Pruning, whichever listing it ranges over and whichever spec it         *)
(* compares with, never deletes a resource the controller did not create.  *)
THEOREM ForeignSafe == Spec => []ForeignKept
<1>1. ForeignInv => ForeignKept
  BY DEF ForeignInv
<1> QED
  BY <1>1, TypeInit, TypeStep, ForeignInit, ForeignStep, PTL DEF Spec

-----------------------------------------------------------------------------
(* A generation is observed after all its resources.                       *)

LastSteps == {"clusters", "finalize", "adopt", "ttl", "observe"}

(* The first n elements of kind k's list have been found in this pass. *)
FoundUpTo(k, n) == \A i \in DOMAIN mem.spec[k] : i <= n => <<k, mem.spec[k][i].name>> \in walked

(* How far the pass has come, provided every Get answers. *)
WalkInv ==
  "get" \notin Faults =>
    /\ pc \in LastSteps => stage = Len(Pipeline) + 1
    /\ pc \in ElementSteps \cup LastSteps \cup {"walk"} =>
         \A j \in DOMAIN Pipeline : j < stage =>
           FoundUpTo(Pipeline[j].kind, Len(mem.spec[Pipeline[j].kind]))
    /\ pc = "walk" => FoundUpTo(Stage.kind, elem - 1)
    /\ pc \in ElementSteps \ {"creating"} => FoundUpTo(Stage.kind, elem)

(* No pass has come anywhere at first. *)
LEMMA WalkInit == Init => WalkInv
  BY DEF Init, WalkInv, LastSteps, ElementSteps

(* Steps that end the pass, and steps before the first stage. *)
LEMMA WalkStart ==
  ASSUME pc' \in {"idle", "repo", "refetch", "pr"}
  PROVE  WalkInv'
  BY DEF WalkInv, LastSteps, ElementSteps

(* Steps that leave the pass where it is. *)
LEMMA WalkSame ==
  ASSUME WalkInv, UNCHANGED <<pc, stage, elem, walked>>, mem'.spec = mem.spec
  PROVE  WalkInv'
  BY DEF WalkInv, FoundUpTo, Stage

(* Steps from one of the last steps to another. *)
LEMMA WalkLast ==
  ASSUME WalkInv, pc \in LastSteps, pc' \in LastSteps,
         UNCHANGED <<stage, walked>>, mem'.spec = mem.spec
  PROVE  WalkInv'
  BY DEF WalkInv, FoundUpTo, LastSteps, ElementSteps

(* Steps from one step at an element to another, once it is found. *)
LEMMA WalkElement ==
  ASSUME WalkInv, pc \in ElementSteps \ {"creating"}, pc' \in ElementSteps \ {"creating"},
         UNCHANGED <<stage, elem, walked>>, mem'.spec = mem.spec
  PROVE  WalkInv'
  BY DEF WalkInv, FoundUpTo, LastSteps, ElementSteps, Stage

(* From the first steps into the first stage. *)
LEMMA WalkEnter ==
  ASSUME TypeInv, pc \in {"repo", "pr"}, pc' = "walk", UNCHANGED <<stage, elem>>,
         mem' \in UniverseType
  PROVE  WalkInv'
<1>1. stage' = 1 /\ elem' = 1 /\ Len(Pipeline) \in Nat /\ Len(Pipeline) >= 1
      /\ DOMAIN Pipeline = 1 .. Len(Pipeline)
  BY PipelineAssumption DEF TypeInv, PositionOK
<1>2. mem'.spec \in [Kinds -> Seq(Elements)] /\ Pipeline[1].kind \in Kinds
  BY <1>1 DEF UniverseType, Kinds
<1>3. \A i \in DOMAIN mem'.spec[Pipeline[1].kind] : ~(i <= 0)
  BY <1>2
<1>4. \A j \in DOMAIN Pipeline : ~(j < stage')
  BY <1>1
<1> QED
  BY <1>1, <1>3, <1>4 DEF WalkInv, FoundUpTo, LastSteps, ElementSteps, Stage

(* A pass comes no further than what it has found. *)
LEMMA WalkStep == TypeInv /\ TypeInv' /\ FreshInv /\ WalkInv /\ [Next]_vars => WalkInv'
<1> SUFFICES ASSUME TypeInv, TypeInv', FreshInv, WalkInv, [Next]_vars PROVE WalkInv'
  OBVIOUS
<1>t. TypeOK
  BY DEF TypeInv
<1>s. mem \in UniverseType /\ mem' \in UniverseType /\ api \in UniverseType
      /\ elem \in Nat /\ elem >= 1 /\ stage \in Nat
  BY DEF TypeInv, TypeOK
<1>1. CASE BeginPass
  BY <1>1, WalkStart DEF BeginPass
<1>2. CASE DropRequest
  BY <1>2, WalkSame DEF DropRequest, passVars
<1>3. CASE RecordRepo
  BY <1>3, <1>s, WalkStart, WalkEnter DEF RecordRepo
<1>4. CASE Refetch
  BY <1>4, WalkStart DEF Refetch
<1>5. CASE RecordPR
  BY <1>5, <1>s, WalkEnter DEF RecordPR
<1>6. CASE GetResource
  <2>1. /\ pc = "walk" /\ UNCHANGED <<stage, elem, mem>> /\ walked' = walked \cup {Resource}
    BY <1>6 DEF GetResource, FindResource, AtElement
  <2>2. pc' \in {"wait", "running", "update", "reconciling"}
    BY <1>6, FlowType DEF GetResource, FindResource
  <2>3. stage <= Len(Pipeline) /\ elem <= Len(StageList)
    BY <1>6 DEF GetResource, FindResource, AtElement
  <2>4. StageList \in Seq(Elements)
    BY <1>t, <2>3, StageFacts
  <2>5. "get" \notin Faults => FoundUpTo(Stage.kind, elem)'
    <3> SUFFICES ASSUME "get" \notin Faults, NEW i \in DOMAIN StageList, i <= elem
                 PROVE  <<Stage.kind, StageList[i].name>> \in walked'
      BY <2>1 DEF FoundUpTo, StageList, Stage
    <3>1. CASE i = elem
      BY <2>1, <3>1 DEF Resource, Element
    <3>2. CASE i <= elem - 1
      BY <2>1, <3>2 DEF WalkInv, FoundUpTo, StageList
    <3> QED
      BY <3>1, <3>2, <2>4, <1>s
  <2> QED
    BY <2>1, <2>2, <2>5 DEF WalkInv, FoundUpTo, LastSteps, ElementSteps
<1>7. CASE GetFails
  BY <1>7 DEF GetFails, WalkInv
<1>8. CASE CreateResource
  BY <1>8 DEF CreateResource, AtElement, WalkInv, FoundUpTo, LastSteps, ElementSteps
<1>9. CASE CreateFails \/ ReportCreating \/ PreviewClusterMissing \/ Finalize \/ Observe
  BY <1>9, WalkStart DEF CreateFails, ReportCreating, PreviewClusterMissing, Finalize, Observe,
                         EndPass, ForgetPass
<1>10. CASE ReportReconciling
  BY <1>10, ReconcilingWrite, WalkElement DEF ReportReconciling, ElementSteps, Agree
<1>11. ASSUME NEW accepted \in BOOLEAN, UpdateResource(accepted) PROVE WalkInv'
  BY <1>11, WalkElement DEF UpdateResource, ElementSteps
<1>12. CASE WaitReturns
  BY <1>12, FlowType, WalkElement DEF WaitReturns, ElementSteps
<1>13. CASE ReportRunning
  <2>1. pc = "running" /\ pc' = "walk" /\ elem' = elem + 1 /\ UNCHANGED <<stage, walked>>
    BY <1>13 DEF ReportRunning
  <2>2. mem'.spec = mem.spec
    BY <1>13, RunningWrite DEF Agree
  <2>3. elem' - 1 = elem
    BY <2>1, <1>s
  <2> QED
    BY <2>1, <2>2, <2>3 DEF WalkInv, FoundUpTo, LastSteps, ElementSteps, Stage
<1>14. CASE Prune
  <2>1. /\ pc = "walk" /\ stage <= Len(Pipeline) /\ elem > Len(StageList)
        /\ stage' = stage + 1 /\ elem' = 1 /\ UNCHANGED <<mem, walked>>
        /\ pc' = IF stage = Len(Pipeline) THEN "clusters" ELSE "walk"
    BY <1>14 DEF Prune
  <2>2. stage \in DOMAIN Pipeline /\ StageList \in Seq(Elements) /\ Len(Pipeline) \in Nat
        /\ DOMAIN Pipeline = 1 .. Len(Pipeline)
    BY <1>t, <2>1, StageFacts, PipelineAssumption
  <2>3. mem.spec \in [Kinds -> Seq(Elements)]
    BY <1>s DEF UniverseType
  <2> SUFFICES ASSUME "get" \notin Faults PROVE WalkInv'
    BY DEF WalkInv
  <2>4. FoundUpTo(Stage.kind, Len(StageList))
    <3>1. FoundUpTo(Stage.kind, elem - 1)
      BY <2>1 DEF WalkInv
    <3>2. Len(StageList) \in Nat /\ DOMAIN StageList = 1 .. Len(StageList)
      BY <2>2
    <3>3. \A i \in DOMAIN StageList : i <= elem - 1
      BY <3>2, <2>1, <1>s
    <3> QED
      BY <3>1, <3>3 DEF FoundUpTo, StageList
  <2>5. ASSUME NEW j \in DOMAIN Pipeline, j < stage'
        PROVE  FoundUpTo(Pipeline[j].kind, Len(mem.spec[Pipeline[j].kind]))
    <3>1. CASE j = stage
      BY <3>1, <2>4 DEF Stage, StageList
    <3>2. CASE j < stage
      BY <3>2, <2>1 DEF WalkInv
    <3> QED
      BY <2>1, <2>2, <2>5, <3>1, <3>2
  <2>6. \A j \in DOMAIN Pipeline : j < stage' =>
          FoundUpTo(Pipeline[j].kind, Len(mem.spec[Pipeline[j].kind]))'
    BY <2>1, <2>5 DEF FoundUpTo
  <2>7. CASE stage = Len(Pipeline)
    BY <2>1, <2>6, <2>7 DEF WalkInv, LastSteps, ElementSteps
  <2>8. CASE stage # Len(Pipeline)
    <3>1. stage' \in DOMAIN Pipeline
      BY <2>1, <2>2, <2>8
    <3>2. Pipeline[stage'].kind \in Kinds
      BY <3>1 DEF Kinds
    <3>3. \A i \in DOMAIN mem.spec[Pipeline[stage'].kind] : ~(i <= 0)
      BY <3>2, <2>3
    <3>4. FoundUpTo(Stage.kind, elem - 1)'
      BY <2>1, <3>3 DEF FoundUpTo, Stage
    <3> QED
      BY <2>1, <2>6, <2>8, <3>4 DEF WalkInv, LastSteps, ElementSteps
  <2> QED
    BY <2>7, <2>8
<1>15. CASE PreviewCluster
  BY <1>15, WalkLast DEF PreviewCluster, LastSteps
<1>16. CASE CheckDeletion
  BY <1>16, WalkLast DEF CheckDeletion, LastSteps
<1>17. CASE AddFinalizer
  <2>1. CASE pc' = "idle"
    BY <2>1, WalkStart
  <2>2. CASE pc' # "idle"
    <3>1. PICK accepted \in Outcomes(memFresh, "finalizer") :
            IF accepted
              THEN /\ api' = [api EXCEPT !.fin = TRUE] /\ mem' = api' /\ pc' = "ttl"
                   /\ UNCHANGED <<stage, walked>>
              ELSE pc' = "idle"
      BY <1>17 DEF AddFinalizer, EndPass, ForgetPass
    <3>2. accepted /\ memFresh
      <4>1. accepted = memFresh \/ accepted = FALSE
        BY DEF Outcomes
      <4>2. accepted
        BY <2>2, <3>1
      <4> QED
        BY <4>1, <4>2, Zenon
    <3>3. mem'.spec = mem.spec
      BY <3>1, <3>2, <1>s DEF UniverseType, FreshInv, FlagsOK, Agree
    <3> QED
      BY <1>17, <3>1, <3>2, <3>3, WalkLast DEF AddFinalizer, LastSteps
  <2> QED
    BY <2>1, <2>2
<1>18. CASE HasFinalizer \/ NotExpired
  BY <1>18, WalkLast DEF HasFinalizer, NotExpired, LastSteps
<1>19. CASE Expire
  <2>1. CASE pc' = "idle"
    BY <2>1, WalkStart
  <2>2. CASE pc' # "idle"
    <3>1. pc = "ttl" /\ pc' = "observe" /\ UNCHANGED <<mem, stage, walked>>
      BY <1>19, <2>2 DEF Expire, EndPass, ForgetPass
    <3> QED
      BY <3>1, WalkLast DEF LastSteps
  <2> QED
    BY <2>1, <2>2
<1>20. CASE Edit \/ DeleteUniverse \/ WatchDeliver \/ Resync
  BY <1>20, WalkSame DEF Edit, DeleteUniverse, WatchDeliver, Resync, passVars
<1>21. CASE CrashRestart
  BY <1>21, WalkStart DEF CrashRestart, ForgetPass
<1>22. CASE CloudStep
  BY <1>22, WalkSame DEF CloudStep, Provision, Deprovision, CollectGarbage
<1>23. CASE UNCHANGED vars
  BY <1>23, WalkSame DEF vars
<1> QED
  BY <1>1, <1>2, <1>3, <1>4, <1>5, <1>6, <1>7, <1>8, <1>9, <1>10, <1>11, <1>12, <1>13,
     <1>14, <1>15, <1>16, <1>17, <1>18, <1>19, <1>20, <1>21, <1>22, <1>23
  DEF Next, ReconcileStep

(* When a pass moves the observed generation it has found, in that pass,   *)
(* every resource the observed spec lists.                                 *)
THEOREM ObservedIsComplete == Spec => ObservedAfterWalk
<1>1. ASSUME TypeInv, FreshInv, WalkInv, [Next]_vars,
             api'.obs # api.obs, api'.exists, "get" \notin Faults
      PROVE  Listed(api') \subseteq walked
  <2>1. pc = "observe" /\ api'.spec = mem.spec
    BY <1>1, ObservedStep DEF FreshInv, FlagsOK, Agree
  <2>2. stage = Len(Pipeline) + 1 /\ \A j \in DOMAIN Pipeline : j < stage =>
          FoundUpTo(Pipeline[j].kind, Len(mem.spec[Pipeline[j].kind]))
    BY <1>1, <2>1 DEF WalkInv, LastSteps
  <2>3. mem.spec \in [Kinds -> Seq(Elements)]
    BY <1>1 DEF TypeInv, TypeOK, UniverseType
  <2> SUFFICES ASSUME NEW r \in Listed(api') PROVE r \in walked
    OBVIOUS
  <2>4. r \in Resources /\ r[2] \in SpecNames(mem.spec[r[1]])
    BY <2>1 DEF Listed
  <2>5. r[1] \in Kinds /\ r = <<r[1], r[2]>>
    BY <2>4 DEF Resources
  <2>6. PICK i \in DOMAIN mem.spec[r[1]] : r[2] = mem.spec[r[1]][i].name
    BY <2>4 DEF SpecNames
  <2>7. PICK j \in DOMAIN Pipeline : r[1] = Pipeline[j].kind
    BY <2>5 DEF Kinds
  <2>8. j < stage
    BY <2>2, PipelineAssumption
  <2>9. i <= Len(mem.spec[r[1]])
    BY <2>3, <2>5
  <2> QED
    BY <2>2, <2>5, <2>6, <2>7, <2>8, <2>9 DEF FoundUpTo
<1>2. TypeInv /\ FreshInv /\ WalkInv /\ [Next]_vars
        => [api'.obs # api.obs /\ api'.exists /\ "get" \notin Faults
              => Listed(api') \subseteq walked]_vars
  BY <1>1
<1> QED
  BY <1>2, TypeInit, TypeStep, FreshInit, FreshStep, WalkInit, WalkStep, PTL
  DEF Spec, ObservedAfterWalk

-----------------------------------------------------------------------------
(* How a pass moves along the lists of its spec.                           *)

(* The pass is among its stages, or past them. *)
Walking == ElementSteps \cup LastSteps \cup {"walk"}

(* The pass has dealt with element i of the list of stage j. *)
Passed(j, i) == pc \in Walking /\ (j < stage \/ (j = stage /\ i < elem))

(* The last steps come after all stages. *)
EndOK == pc \in LastSteps => stage = Len(Pipeline) + 1

(* A finalizer that is added leaves the rest of the copy as it is. *)
LEMMA AdoptCopy ==
  ASSUME TypeInv, FreshInv, AddFinalizer, pc' # "idle"
  PROVE  /\ memFresh /\ pc = "adopt" /\ pc' = "ttl" /\ UNCHANGED <<stage, elem, memFresh>>
         /\ mem' = [api EXCEPT !.fin = TRUE] /\ api' = mem'
         /\ mem'.spec = mem.spec /\ mem'.gen = mem.gen /\ mem'.obs = mem.obs
<1>s. mem \in UniverseType /\ api \in UniverseType
  BY DEF TypeInv, TypeOK
<1>1. PICK accepted \in Outcomes(memFresh, "finalizer") :
        IF accepted
          THEN /\ api' = [api EXCEPT !.fin = TRUE] /\ mem' = api' /\ pc' = "ttl"
               /\ UNCHANGED <<stage, elem, memFresh>>
          ELSE pc' = "idle"
  BY DEF AddFinalizer, EndPass, ForgetPass
<1>2. accepted /\ memFresh
  <2>1. accepted = memFresh \/ accepted = FALSE
    BY DEF Outcomes
  <2>2. accepted
    BY <1>1
  <2> QED
    BY <2>1, <2>2, Zenon
<1>3. mem'.spec = mem.spec /\ mem'.gen = mem.gen /\ mem'.obs = mem.obs
  BY <1>1, <1>2, <1>s DEF UniverseType, FreshInv, FlagsOK, Agree
<1> QED
  BY <1>1, <1>2, <1>3 DEF AddFinalizer

(* The steps of a pass among and after its stages: at an element, on to    *)
(* the next one, on to the next stage, or after all of them.               *)
LEMMA WalkMoves ==
  ASSUME TypeInv, FreshInv, EndOK, [Next]_vars, pc' \in Walking
  PROVE  \/ UNCHANGED <<pc, stage, elem, mem>>
         \/ /\ pc \in {"repo", "pr"} /\ pc' = "walk" /\ stage = 1 /\ elem = 1
            /\ UNCHANGED <<stage, elem>>
         \/ /\ pc \in ElementSteps \cup {"walk"} /\ pc' \in ElementSteps
            /\ UNCHANGED <<stage, elem>> /\ Agree(mem', mem)
         \/ /\ ReportRunning /\ pc = "running" /\ pc' = "walk" /\ stage' = stage
            /\ elem' = elem + 1 /\ Agree(mem', mem)
         \/ Prune /\ pc = "walk" /\ elem > Len(StageList) /\ stage' = stage + 1 /\ elem' = 1
                  /\ mem' = mem /\ pc' = IF stage = Len(Pipeline) THEN "clusters" ELSE "walk"
         \/ /\ pc \in LastSteps /\ pc' \in LastSteps /\ stage' = stage
            /\ mem'.spec = mem.spec /\ mem'.gen = mem.gen /\ mem'.obs = mem.obs
<1> USE DEF Walking, ElementSteps, LastSteps
<1>1. CASE BeginPass \/ Refetch
  BY <1>1 DEF BeginPass, Refetch
<1>2. CASE DropRequest
  BY <1>2 DEF DropRequest, passVars
<1>3. CASE RecordRepo \/ RecordPR
  BY <1>3 DEF RecordRepo, RecordPR, TypeInv, PositionOK
<1>6. ASSUME NEW got \in BOOLEAN, FindResource(got)
      PROVE  /\ pc = "walk" /\ pc' \in ElementSteps
             /\ UNCHANGED <<stage, elem>> /\ Agree(mem', mem)
  BY <1>6, FlowType DEF FindResource, AtElement, Agree
<1>8. CASE CreateResource
  BY <1>8 DEF CreateResource, AtElement, Agree
<1>9. CASE CreateFails \/ ReportCreating \/ PreviewClusterMissing \/ Finalize \/ Observe
  BY <1>9 DEF CreateFails, ReportCreating, PreviewClusterMissing, Finalize, Observe,
              EndPass, ForgetPass
<1>10. CASE ReportReconciling
  BY <1>10, ReconcilingWrite DEF ReportReconciling
<1>11. ASSUME NEW accepted \in BOOLEAN, UpdateResource(accepted)
       PROVE  /\ pc = "update" /\ pc' \in ElementSteps
              /\ UNCHANGED <<stage, elem>> /\ Agree(mem', mem)
  BY <1>11 DEF UpdateResource, Agree
<1>12. CASE WaitReturns
  BY <1>12, FlowType DEF WaitReturns, Agree
<1>13. CASE ReportRunning
  BY <1>13, RunningWrite DEF ReportRunning
<1>14. CASE Prune
  BY <1>14 DEF Prune
<1>15. CASE PreviewCluster \/ CheckDeletion \/ HasFinalizer \/ NotExpired
  BY <1>15 DEF PreviewCluster, CheckDeletion, HasFinalizer, NotExpired
<1>17. CASE AddFinalizer
  BY <1>17, AdoptCopy
<1>19. CASE Expire
  BY <1>19 DEF Expire, EndPass, ForgetPass
<1>20. CASE Edit \/ DeleteUniverse \/ WatchDeliver \/ Resync
  BY <1>20 DEF Edit, DeleteUniverse, WatchDeliver, Resync, passVars
<1>21. CASE CrashRestart
  BY <1>21 DEF CrashRestart, ForgetPass
<1>22. CASE CloudStep
  BY <1>22 DEF CloudStep, Provision, Deprovision, CollectGarbage
<1>23. CASE UNCHANGED vars
  BY <1>23 DEF vars
<1> QED
  BY <1>1, <1>2, <1>3, <1>6, <1>8, <1>9, <1>10, <1>11, <1>12, <1>13,
     <1>14, <1>15, <1>17, <1>19, <1>20, <1>21, <1>22, <1>23
  DEF Next, ReconcileStep, GetResource, GetFails

(* The steps that lead past a Get. *)
LEMMA FoundMoves ==
  ASSUME TypeInv, [Next]_vars, pc' \in ElementSteps \ {"creating"}
  PROVE  /\ UNCHANGED <<stage, elem>> /\ Agree(mem', mem)
         /\ \/ GetResource \/ GetFails
            \/ /\ pc \in ElementSteps \ {"creating"} /\ found' = found
               /\ pc' = pc \/ ReportReconciling \/ WaitReturns
                  \/ \E accepted \in BOOLEAN : UpdateResource(accepted)
         /\ pc' \in {"reconciling", "update"} => pc \in {"reconciling", "update"} \/ NeedsSync
<1> USE DEF ElementSteps, Agree, FoundStep, WaitedStep, SyncStep, SyncedStep
<1>1. CASE GetResource \/ GetFails
  BY <1>1 DEF GetResource, GetFails, FindResource
<1>2. CASE ReportReconciling
  BY <1>2, ReconcilingWrite DEF ReportReconciling, Agree
<1>3. CASE WaitReturns \/ \E accepted \in BOOLEAN : UpdateResource(accepted)
  BY <1>3 DEF WaitReturns, UpdateResource
<1>4. CASE CreateFails \/ ReportCreating \/ PreviewClusterMissing \/ Finalize \/ Observe
           \/ CrashRestart
  BY <1>4 DEF CreateFails, ReportCreating, PreviewClusterMissing, Finalize, Observe,
              CrashRestart, EndPass, ForgetPass
<1>5. CASE BeginPass \/ RecordRepo \/ Refetch \/ RecordPR \/ CreateResource
           \/ ReportRunning \/ Prune \/ CheckDeletion \/ HasFinalizer \/ NotExpired
           \/ PreviewCluster
  BY <1>5 DEF BeginPass, RecordRepo, Refetch, RecordPR, CreateResource,
     ReportRunning, Prune, CheckDeletion, HasFinalizer, NotExpired, PreviewCluster
<1>6. CASE AddFinalizer \/ Expire
  BY <1>6 DEF AddFinalizer, Expire, EndPass, ForgetPass
<1>7. CASE UNCHANGED <<pc, stage, elem, found, mem>>
  BY <1>7
<1> QED
  BY <1>1, <1>2, <1>3, <1>4, <1>5, <1>6, <1>7
  DEF Next, ReconcileStep, CloudStep, DropRequest, Edit, DeleteUniverse,
      WatchDeliver, Resync, Provision, Deprovision, CollectGarbage, passVars, vars

(* No step leaves the stages early. *)
LEMMA EndStep == TypeInv /\ FreshInv /\ EndOK /\ [Next]_vars => EndOK'
<1> SUFFICES ASSUME TypeInv, FreshInv, EndOK, [Next]_vars, pc' \in LastSteps
             PROVE  stage' = Len(Pipeline) + 1
  BY DEF EndOK
<1>1. pc' \in Walking
  BY DEF Walking
<1> QED
  BY <1>1, WalkMoves DEF EndOK, LastSteps, ElementSteps, TypeInv, PositionOK

(* A step deals with no element but the one whose section ends. *)
LEMMA PassedStep ==
  ASSUME TypeInv, FreshInv, EndOK, [Next]_vars, NEW j \in DOMAIN Pipeline,
         NEW i \in DOMAIN mem'.spec[Pipeline[j].kind], Passed(j, i)'
  PROVE  /\ mem'.spec = mem.spec /\ mem'.gen = mem.gen /\ mem'.obs = mem.obs
         /\ Passed(j, i) \/ (ReportRunning /\ j = stage /\ i = elem)
<1>s. /\ mem \in UniverseType /\ mem'.spec \in [Kinds -> Seq(Elements)]
      /\ elem \in Nat /\ stage \in Nat /\ elem >= 1
  <2>1. mem' \in UniverseType
    BY TypeStep DEF TypeInv, TypeOK
  <2>2. mem'.spec \in [Kinds -> Seq(Elements)]
    BY <2>1 DEF UniverseType
  <2> QED
    BY <2>2 DEF TypeInv, TypeOK
<1>p. Len(Pipeline) \in Nat /\ DOMAIN Pipeline = 1 .. Len(Pipeline) /\ Pipeline[j].kind \in Kinds
  BY PipelineAssumption DEF Kinds
<1>i. i \in Nat /\ i >= 1 /\ i <= Len(mem'.spec[Pipeline[j].kind])
  BY <1>s, <1>p
<1>w. pc' \in Walking /\ (j < stage' \/ (j = stage' /\ i < elem'))
  BY DEF Passed
<1>1. CASE UNCHANGED <<pc, stage, elem, mem>>
  BY <1>1, <1>w DEF Passed
<1>2. CASE stage = 1 /\ elem = 1 /\ UNCHANGED <<stage, elem>>
  BY <1>2, <1>w, <1>i, <1>p
<1>3. CASE /\ pc \in ElementSteps \cup {"walk"} /\ pc' \in ElementSteps
           /\ UNCHANGED <<stage, elem>> /\ Agree(mem', mem)
  BY <1>3, <1>w DEF Passed, Agree, Walking
<1>4. CASE /\ ReportRunning /\ pc = "running" /\ pc' = "walk" /\ stage' = stage
           /\ elem' = elem + 1 /\ Agree(mem', mem)
  BY <1>4, <1>w, <1>s, <1>i DEF Passed, Agree, Walking, ElementSteps
<1>5. CASE Prune /\ pc = "walk" /\ elem > Len(StageList) /\ stage' = stage + 1 /\ elem' = 1
                 /\ mem' = mem /\ pc' = IF stage = Len(Pipeline) THEN "clusters" ELSE "walk"
  <2>0. stage' = stage + 1 /\ elem' = 1 /\ j \in Nat
    BY <1>5, <1>p
  <2>1. j < stage \/ j = stage
    BY <2>0, <1>w, <1>s, <1>i
  <2>2. j = stage => i < elem
    <3>1. j = stage => i <= Len(StageList) /\ Len(StageList) \in Nat
      <4>1. mem'.spec = mem.spec
        BY <1>5
      <4>2. Len(mem'.spec[Pipeline[j].kind]) \in Nat
        BY <1>s, <1>p
      <4> QED
        BY <4>1, <4>2, <1>i DEF StageList, Stage
    <3> QED
      BY <1>5, <3>1, <1>i, <1>s
  <2> QED
    BY <1>5, <2>1, <2>2 DEF Passed, Walking
<1>6. CASE /\ pc \in LastSteps /\ pc' \in LastSteps /\ stage' = stage
           /\ mem'.spec = mem.spec /\ mem'.gen = mem.gen /\ mem'.obs = mem.obs
  <2>1. stage = Len(Pipeline) + 1
    BY <1>6 DEF EndOK
  <2>2. j < stage
    BY <2>1, <1>p
  <2> QED
    BY <1>6, <2>2 DEF Passed, Walking
<1> QED
  BY <1>1, <1>2, <1>3, <1>4, <1>5, <1>6, <1>w, WalkMoves

-----------------------------------------------------------------------------
(* How the controller comes to rest.                                       *)

(* It rests after the last write of a pass, if that changed nothing, and   *)
(* stays at rest while resources are provisioned.                          *)
LEMMA RestStep ==
  ASSUME TypeInv, FreshInv, [Next]_vars, Quiescent'
  PROVE  /\ api' = api /\ UNCHANGED missed
         /\ \/ Observe /\ memFresh
            \/ Quiescent /\ (CloudStep \/ UNCHANGED res)
<1>q. pc' = "idle" /\ ~queued' /\ cacheFresh' /\ api'.exists
  BY DEF Quiescent
<1>t. TypeOK
  BY DEF TypeInv
<1>g. Gone.exists = FALSE
  BY DEF Gone, NewUniverse
<1>e. ASSUME EndPass(TRUE) PROVE FALSE
  BY <1>e, <1>q DEF EndPass
<1>1. CASE Observe
  <2>1. pc = "observe" /\ queued' = queued /\ cacheFresh' = (cacheFresh /\ api' = api)
        /\ UNCHANGED missed
    BY <1>1, <1>t DEF Observe, Persist, EndPass, TypeOK
  <2>2. memFresh /\ api' = api
    BY <2>1, <1>q DEF FreshInv, WakeUpOK
  <2> QED
    BY <1>1, <2>1, <2>2
<1>2. CASE Finalize
  <2>1. PICK accepted \in Outcomes(memFresh, "finalizer") :
          /\ api' = IF mem.fin /\ accepted THEN Gone ELSE api
          /\ cacheFresh' = (cacheFresh /\ api' = api)
          /\ queued' = (queued \/ (mem.fin /\ ~accepted))
    BY <1>2 DEF Finalize, EndPass
  <2>2. mem.del /\ pc = "finalize"
    BY <1>2 DEF Finalize, FreshInv, LifecycleOK
  <2>3. memFresh /\ api' = api /\ ~mem.fin
    BY <2>1, <2>2, <1>q, <1>g DEF FreshInv, WakeUpOK
  <2> QED
    BY <2>2, <2>3, <1>q DEF FreshInv, FlagsOK, Agree, LifecycleOK
<1>3. CASE DropRequest
  BY <1>3, <1>q DEF DropRequest, universeVars, FreshInv, FlagsOK
<1>4. CASE CreateFails \/ ReportCreating \/ PreviewClusterMissing
  BY <1>4, <1>e DEF CreateFails, ReportCreating, PreviewClusterMissing
<1>5. CASE AddFinalizer \/ Expire
  BY <1>5, <1>e, <1>q DEF AddFinalizer, Expire
<1>6. CASE Edit \/ DeleteUniverse \/ WatchDeliver \/ Resync
  BY <1>6, <1>q DEF Edit, DeleteUniverse, WatchDeliver, Resync
<1>7. CASE CrashRestart
  BY <1>7, <1>q DEF CrashRestart
<1>8. CASE CloudStep
  <2>1. UNCHANGED <<api, cache, cacheFresh, queued, pc, missed>>
    BY <1>8 DEF CloudStep, Provision, Deprovision, CollectGarbage, universeVars
  <2> QED
    BY <1>8, <2>1 DEF Quiescent
<1>9. CASE UNCHANGED vars
  BY <1>9 DEF vars, Quiescent
<1>10. CASE BeginPass \/ RecordRepo \/ Refetch \/ RecordPR \/ CreateResource
            \/ ReportReconciling \/ ReportRunning \/ Prune \/ CheckDeletion
            \/ HasFinalizer \/ NotExpired \/ PreviewCluster
  BY <1>10, <1>q DEF BeginPass, RecordRepo, Refetch, RecordPR, CreateResource,
     ReportReconciling, ReportRunning, Prune, CheckDeletion, HasFinalizer, NotExpired,
     PreviewCluster
<1>11. CASE GetResource \/ GetFails \/ WaitReturns \/ \E accepted \in BOOLEAN : UpdateResource(accepted)
  BY <1>11, <1>q, FlowType DEF GetResource, GetFails, FindResource, WaitReturns, UpdateResource
<1> QED
  BY <1>1, <1>2, <1>3, <1>4, <1>5, <1>6, <1>7, <1>8, <1>9, <1>10, <1>11
  DEF Next, ReconcileStep

-----------------------------------------------------------------------------
(* Where specs come from.                                                  *)

(* Where the specs of the three copies come from. *)
LEMMA SpecMoves ==
  ASSUME TypeInv, FreshInv, [Next]_vars
  PROVE  /\ \/ api'.spec = api.spec /\ (api'.exists => api'.gen = api.gen \/ api'.gen = api.gen + 1)
            \/ api' = Gone
            \/ (\E s \in Specs : api'.spec = s) /\ api'.gen = api.gen + 1 /\ pc' = pc /\ mem' = mem
               /\ ~memFresh' /\ cache' = cache
         /\ cache'.spec = cache.spec \/ (cache' = api /\ api' = api)
         /\ \/ mem'.spec = mem.spec /\ (pc = "idle" => pc' = "idle")
            \/ mem' = Gone /\ pc' = "idle"
            \/ mem' = cache
         /\ memFresh' => (cacheFresh /\ cache' = cache /\ api' = api) \/ (memFresh /\ api'.spec = api.spec)
         /\ api'.exists => api.exists
<1>t. TypeOK
  BY DEF TypeInv
<1>s. api \in UniverseType /\ mem \in UniverseType /\ cache \in UniverseType
  BY <1>t DEF TypeOK
<1>p. ASSUME NEW m, Persist(m)
      PROVE  api'.spec = api.spec /\ api'.gen = api.gen /\ api'.exists = api.exists /\ cache' = cache
  BY <1>s, <1>p DEF Persist, UniverseType
<1>g. Gone.exists = FALSE
  BY DEF Gone, NewUniverse
<1>1. CASE RecordRepo \/ RecordPR
  <2>1. mem'.spec = mem.spec
    BY <1>1, <1>s DEF RecordRepo, RecordPR, UniverseType
  <2> QED
    BY <1>1, <2>1, <1>p DEF RecordRepo, RecordPR, universeVars
<1>2. CASE ReportCreating \/ Observe
  <2>1. mem' = Gone /\ pc' = "idle" /\ ~memFresh' /\ \E m : Persist(m)
    BY <1>2 DEF ReportCreating, Observe, EndPass, ForgetPass
  <2> QED
    BY <2>1, <1>p
<1>3. CASE ReportReconciling
  BY <1>3, <1>p, ReconcilingWrite DEF ReportReconciling, Agree
<1>4. CASE ReportRunning
  BY <1>4, <1>p, RunningWrite DEF ReportRunning, Agree
<1>5. CASE Finalize
  BY <1>5, <1>g DEF Finalize, EndPass, ForgetPass
<1>6. CASE AddFinalizer
  <2>1. CASE pc' = "idle"
    BY <1>6, <2>1 DEF AddFinalizer, EndPass, ForgetPass, universeVars
  <2>2. CASE pc' # "idle"
    <3>1. mem' = [api EXCEPT !.fin = TRUE] /\ api' = mem' /\ mem'.spec = mem.spec /\ memFresh
          /\ pc = "adopt"
      BY <1>6, <2>2, AdoptCopy
    <3>2. cache' = cache
      BY <1>6 DEF AddFinalizer, universeVars
    <3> QED
      BY <3>1, <3>2, <1>s DEF UniverseType
  <2> QED
    BY <2>1, <2>2
<1>7. CASE Expire \/ DeleteUniverse
  <2>1. api' = api \/ api' = MarkDeleted(api)
    BY <1>7 DEF Expire, DeleteUniverse, universeVars
  <2>2. cache' = cache /\ ((mem' = mem /\ (pc = "idle" => pc' = "idle")) \/ (mem' = Gone /\ pc' = "idle"))
        /\ (memFresh' => memFresh /\ api' = api)
    BY <1>7 DEF Expire, DeleteUniverse, universeVars, EndPass, ForgetPass, passVars
  <2> QED
    BY <2>1, <2>2, <1>s, <1>g DEF MarkDeleted, UniverseType
<1>8. CASE Edit
  BY <1>8, <1>s DEF Edit, UniverseType, passVars
<1>9. CASE BeginPass \/ Refetch
  BY <1>9 DEF BeginPass, Refetch, universeVars
<1>10. CASE CreateFails \/ PreviewClusterMissing \/ CrashRestart
  BY <1>10 DEF CreateFails, PreviewClusterMissing, CrashRestart, EndPass, ForgetPass, universeVars
<1>11. CASE WatchDeliver
  BY <1>11 DEF WatchDeliver, passVars
<1>12. CASE UNCHANGED <<api, cache, mem, memFresh>> /\ (pc = "idle" => pc' = "idle")
  BY <1>12
<1> QED
  BY <1>1, <1>2, <1>3, <1>4, <1>5, <1>6, <1>7, <1>8, <1>9, <1>10, <1>11, <1>12
  DEF Next, ReconcileStep, CloudStep, GetResource, GetFails, DropRequest,
      FindResource, CreateResource, UpdateResource, WaitReturns, Prune,
      PreviewCluster, CheckDeletion, HasFinalizer, NotExpired, AtElement,
      Resync, Provision, Deprovision, CollectGarbage, universeVars, passVars, vars

(* The three copies of the Universe have specs that a user wrote, or none. *)
SpecsInv ==
  /\ api.spec \in Specs \cup {Gone.spec}
  /\ cache.spec \in Specs \cup {Gone.spec}
  /\ mem.spec \in Specs \cup {Gone.spec}

LEMMA SpecsInit == Init => SpecsInv
  BY DEF Init, NewUniverse, SpecsInv

(* Every step keeps to them. *)
LEMMA SpecsStep == TypeInv /\ FreshInv /\ SpecsInv /\ [Next]_vars => SpecsInv'
<1> SUFFICES ASSUME TypeInv, FreshInv, SpecsInv, [Next]_vars PROVE SpecsInv'
  OBVIOUS
<1>1. api'.spec \in Specs \cup {Gone.spec}
  BY SpecMoves DEF SpecsInv
<1>2. cache'.spec \in Specs \cup {Gone.spec} /\ mem'.spec \in Specs \cup {Gone.spec}
  BY SpecMoves DEF SpecsInv
<1>3. UNCHANGED Gone
  BY DEF Gone, NewUniverse
<1> QED
  BY <1>1, <1>2, <1>3 DEF SpecsInv
=============================================================================
