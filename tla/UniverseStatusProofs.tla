------------------------ MODULE UniverseStatusProofs ------------------------
(* Theorems about what a Universe reports of its resources.                *)
EXTENDS UniverseProofs

-----------------------------------------------------------------------------
(* The copy and its original.                                              *)

(* As long as no status write fails by itself, a copy of the newest        *)
(* version is the newest version, status and all.                          *)
CopyOK == "status" \notin Faults /\ memFresh => mem = api

(* A status write that is not refused makes the original like the copy. *)
LEMMA PersistCopies ==
  ASSUME TypeOK, CopyOK, "status" \notin Faults, memFresh, NEW m \in UniverseType, Persist(m),
         m.exists = mem.exists, Agree(m, mem)
  PROVE  api' = m
<1>1. mem = api /\ api \in UniverseType
  BY DEF CopyOK, TypeOK
<1>2. api' = [api EXCEPT !.obs = m.obs, !.status = m.status, !.repo = m.repo, !.pr = m.pr]
  BY DEF Persist, Outcomes
<1>3. api' \in UniverseType
  BY <1>1, <1>2 DEF UniverseType
<1>4. /\ api'.exists = m.exists /\ api'.gen = m.gen /\ api'.obs = m.obs /\ api'.spec = m.spec
      /\ api'.status = m.status /\ api'.repo = m.repo /\ api'.pr = m.pr
      /\ api'.del = m.del /\ api'.fin = m.fin
  BY <1>1, <1>2 DEF UniverseType, Agree
<1> QED
  BY <1>3, <1>4 DEF UniverseType

(* Steps that write a status entry or an annotation. *)
LEMMA WritesCopy ==
  ASSUME TypeInv, RecordRepo \/ RecordPR \/ ReportReconciling \/ ReportRunning
  PROVE  /\ memFresh' = memFresh /\ mem' \in UniverseType
         /\ mem'.exists = mem.exists /\ Agree(mem', mem)
         /\ Persist(mem') \/ UNCHANGED <<api, mem>>
<1>s. TypeOK /\ mem \in UniverseType
  BY DEF TypeInv, TypeOK
<1>1. CASE RecordRepo
  BY <1>1, <1>s DEF RecordRepo, universeVars, UniverseType, Agree
<1>2. CASE RecordPR
  BY <1>2, <1>s DEF RecordPR, UniverseType, Agree
<1>3. CASE ReportReconciling
  <2>1. mem' \in UniverseType /\ Agree(mem', mem)
    BY <1>3, ReconcilingWrite
  <2>2. mem'.exists = mem.exists
    BY <1>3, <1>s DEF ReportReconciling, updateStatus, UniverseType
  <2> QED
    BY <1>3, <2>1, <2>2 DEF ReportReconciling
<1>4. CASE ReportRunning
  <2>1. mem' \in UniverseType /\ Agree(mem', mem)
    BY <1>4, RunningWrite
  <2>2. mem'.exists = mem.exists
    BY <1>4, <1>s DEF ReportRunning, updateStatus, UniverseType
  <2> QED
    BY <1>4, <2>1, <2>2 DEF ReportRunning
<1> QED
  BY <1>1, <1>2, <1>3, <1>4

(* Every step keeps the copy true. *)
LEMMA CopyStep == TypeInv /\ FreshInv /\ CopyOK /\ [Next]_vars => CopyOK'
<1> SUFFICES ASSUME TypeInv, FreshInv, CopyOK, [Next]_vars, "status" \notin Faults, memFresh'
             PROVE  mem' = api'
  BY DEF CopyOK
<1>t. TypeOK
  BY DEF TypeInv
<1>1. CASE BeginPass \/ Refetch
  BY <1>1 DEF BeginPass, Refetch, universeVars, FreshInv, FlagsOK, CopyOK
<1>2. CASE RecordRepo \/ RecordPR \/ ReportReconciling \/ ReportRunning
  BY <1>2, <1>t, WritesCopy, PersistCopies DEF CopyOK
<1>3. CASE ReportCreating \/ Finalize \/ Observe \/ CreateFails \/ PreviewClusterMissing
  BY <1>3 DEF ReportCreating, Finalize, Observe, CreateFails, PreviewClusterMissing,
              EndPass, ForgetPass
<1>4. CASE AddFinalizer
  BY <1>4 DEF AddFinalizer, EndPass, ForgetPass
<1>5. CASE Expire
  BY <1>5 DEF Expire, EndPass, ForgetPass, CopyOK
<1>6. CASE Edit \/ DeleteUniverse
  BY <1>6 DEF Edit, DeleteUniverse
<1>7. CASE CrashRestart
  BY <1>7 DEF CrashRestart, ForgetPass
<1>8. CASE UNCHANGED <<api, mem, memFresh>>
  BY <1>8 DEF CopyOK
<1> QED
  BY <1>1, <1>2, <1>3, <1>4, <1>5, <1>6, <1>7, <1>8
  DEF Next, ReconcileStep, CloudStep, GetResource, GetFails, DropRequest,
      FindResource, CreateResource, UpdateResource, WaitReturns, Prune,
      PreviewCluster, CheckDeletion, HasFinalizer, NotExpired,
      WatchDeliver, Resync, Provision, Deprovision, CollectGarbage, universeVars, vars

-----------------------------------------------------------------------------
(* The object a Get returned.                                              *)

(* Past its Get, and if that cannot fail, the pass holds the object of the *)
(* element it is at.                                                       *)
FoundInv == "get" \notin Faults /\ pc \in ElementSteps \ {"creating"} => found = Element.name

(* Every step keeps to it. *)
LEMMA FoundKept == TypeInv /\ FoundInv /\ [Next]_vars => FoundInv'
<1> SUFFICES ASSUME TypeInv, FoundInv, [Next]_vars, "get" \notin Faults,
                    pc' \in ElementSteps \ {"creating"}
             PROVE  found' = Element'.name
  BY DEF FoundInv, Element
<1>1. Element' = Element
  BY FoundMoves DEF Element, StageList, Stage, Agree
<1>2. CASE GetResource
  BY <1>1, <1>2 DEF GetResource, FindResource
<1>3. CASE ~GetResource
  BY <1>1, <1>3, FoundMoves DEF GetFails, FoundInv
<1> QED
  BY <1>2, <1>3

-----------------------------------------------------------------------------
(* Everything is healthy at rest.                                          *)

(* The status entry of element i of stage j's list. *)
EntryAt(j, i) == Entry(Pipeline[j].kind, mem.spec[Pipeline[j].kind][i].name)

(* The status entry of the resource a pass is at. *)
Current == Entry(Stage.kind, Element.name)

(* A pass over a generation that was observed before synchronises nothing, *)
(* and reports every resource it has dealt with as Healthy.                *)
HealthyInv ==
  {"status", "get"} \cap Faults = {} /\ mem.obs = mem.gen =>
    /\ pc \notin {"reconciling", "update"}
    /\ \A j \in DOMAIN Pipeline : \A i \in DOMAIN mem.spec[Pipeline[j].kind] :
         Passed(j, i) => mem.status[EntryAt(j, i)] = "Healthy"

(* An entry that says Healthy stays, but for a synchronisation. *)
LEMMA HealthyStays ==
  ASSUME TypeInv, FreshInv, CopyOK, "status" \notin Faults, [Next]_vars, pc' \in Walking,
         ~ReportReconciling, NEW key \in StatusKeys, mem.status[key] = "Healthy"
  PROVE  mem'.status[key] = "Healthy"
<1>s. TypeOK /\ mem \in UniverseType /\ api \in UniverseType
  BY DEF TypeInv, TypeOK
<1>1. CASE RecordRepo \/ RecordPR
  BY <1>1, <1>s DEF RecordRepo, RecordPR, UniverseType
<1>2. CASE ReportRunning
  <2>1. PICK k, n : mem' = updateStatus(mem, k, n, "Healthy")
    BY <1>2 DEF ReportRunning
  <2> QED
    BY <2>1, <1>s DEF updateStatus, UniverseType
<1>3. CASE AddFinalizer
  <2>1. memFresh /\ mem' = [api EXCEPT !.fin = TRUE]
    BY <1>3, AdoptCopy DEF Walking, ElementSteps, LastSteps
  <2>2. mem = api
    BY <2>1 DEF CopyOK
  <2> QED
    BY <2>1, <2>2, <1>s DEF UniverseType
<1>4. CASE CreateFails \/ ReportCreating \/ PreviewClusterMissing \/ Finalize \/ Observe
           \/ CrashRestart \/ BeginPass \/ Refetch
  BY <1>4 DEF CreateFails, ReportCreating, PreviewClusterMissing, Finalize, Observe,
              CrashRestart, EndPass, ForgetPass, BeginPass, Refetch, Walking, ElementSteps,
              LastSteps
<1>5. CASE Expire
  BY <1>5 DEF Expire, EndPass, ForgetPass, Walking, ElementSteps, LastSteps
<1>6. CASE mem' = mem
  BY <1>6
<1> QED
  BY <1>1, <1>2, <1>3, <1>4, <1>5, <1>6
  DEF Next, ReconcileStep, CloudStep, GetResource, GetFails, DropRequest,
      FindResource, CreateResource, UpdateResource, WaitReturns, Prune,
      PreviewCluster, CheckDeletion, HasFinalizer, NotExpired, Edit, DeleteUniverse,
      WatchDeliver, Resync, Provision, Deprovision, CollectGarbage, universeVars, vars

(* The entry that is written at the end of an element's section. *)
LEMMA RunningResult ==
  ASSUME TypeInv, FoundInv, "get" \notin Faults, ReportRunning
  PROVE  mem' = updateStatus(mem, Stage.kind, Element.name, "Healthy") /\ Current \in StatusKeys
<1>1. TypeOK /\ stage <= Len(Pipeline) /\ elem <= Len(StageList)
  BY DEF ReportRunning, TypeInv, PositionOK, ElementSteps
<1>2. found = Element.name
  BY DEF ReportRunning, FoundInv, ElementSteps
<1> QED
  BY <1>1, <1>2, ElementFacts DEF ReportRunning, Current

(* Every step keeps to that. *)
LEMMA HealthyStep ==
  TypeInv /\ FreshInv /\ CopyOK /\ EndOK /\ FoundInv /\ HealthyInv /\ [Next]_vars => HealthyInv'
<1> SUFFICES ASSUME TypeInv, FreshInv, CopyOK, EndOK, FoundInv, HealthyInv, [Next]_vars,
                    "status" \notin Faults, "get" \notin Faults, mem'.obs = mem'.gen
             PROVE  /\ pc' \notin {"reconciling", "update"}
                    /\ \A j \in DOMAIN Pipeline : \A i \in DOMAIN mem'.spec[Pipeline[j].kind] :
                         Passed(j, i)' => mem'.status[EntryAt(j, i)'] = "Healthy"
  BY DEF HealthyInv, EntryAt
<1>1. pc' \notin {"reconciling", "update"}
  <2> SUFFICES ASSUME pc' \in {"reconciling", "update"} PROVE FALSE
    OBVIOUS
  <2>1. Agree(mem', mem) /\ (pc \in {"reconciling", "update"} \/ NeedsSync)
    BY FoundMoves DEF ElementSteps
  <2>2. mem.gen \in Nat /\ mem.obs = mem.gen
    BY <2>1 DEF Agree, TypeInv, TypeOK, UniverseType
  <2> QED
    BY <2>1, <2>2 DEF HealthyInv, NeedsSync
<1>2. ASSUME NEW j \in DOMAIN Pipeline, NEW i \in DOMAIN mem'.spec[Pipeline[j].kind], Passed(j, i)'
      PROVE  mem'.status[EntryAt(j, i)'] = "Healthy"
  <2>1. /\ mem'.spec = mem.spec /\ mem'.gen = mem.gen /\ mem'.obs = mem.obs
        /\ Passed(j, i) \/ (ReportRunning /\ j = stage /\ i = elem)
    BY <1>2, PassedStep
  <2>2. EntryAt(j, i)' = EntryAt(j, i)
    BY <2>1 DEF EntryAt
  <2>3. CASE ReportRunning /\ j = stage /\ i = elem
    <3>1. mem' = updateStatus(mem, Stage.kind, Element.name, "Healthy") /\ Current \in StatusKeys
      BY <2>3, RunningResult
    <3>2. EntryAt(j, i) = Current
      BY <2>3 DEF EntryAt, Current, Element, StageList, Stage
    <3>3. mem \in UniverseType
      BY DEF TypeInv, TypeOK
    <3> QED
      BY <2>2, <3>1, <3>2, <3>3 DEF updateStatus, Current, UniverseType
  <2>4. CASE Passed(j, i)
    <3>1. mem.status[EntryAt(j, i)] = "Healthy" /\ pc \notin {"reconciling", "update"}
      BY <2>1, <2>4 DEF HealthyInv
    <3>2. ~ReportReconciling
      BY <3>1 DEF ReportReconciling
    <3>3. mem.spec \in [Kinds -> Seq(Elements)] /\ Pipeline[j].kind \in Kinds
      BY DEF TypeInv, TypeOK, UniverseType, Kinds
    <3>4. mem.spec[Pipeline[j].kind][i].name \in Names
      <4>1. i \in DOMAIN mem.spec[Pipeline[j].kind] /\ mem.spec[Pipeline[j].kind] \in Seq(Elements)
        BY <2>1, <3>3
      <4>2. mem.spec[Pipeline[j].kind][i] \in Elements
        BY <4>1
      <4> QED
        BY <4>2 DEF Elements
    <3>5. EntryAt(j, i) \in StatusKeys
      BY <3>3, <3>4 DEF EntryAt, StatusKeys, Entry
    <3>6. pc' \in Walking
      BY <1>2 DEF Passed
    <3> QED
      BY <2>2, <3>1, <3>2, <3>5, <3>6, HealthyStays
  <2> QED
    BY <2>1, <2>3, <2>4
<1> QED
  BY <1>1, <1>2

(* What a pass that comes to rest has reported. *)
LEMMA HealthyRest ==
  ASSUME TypeInv, FreshInv, CopyOK, EndOK, HealthyInv, QuiescentHealthy, [Next]_vars
  PROVE  QuiescentHealthy'
<1> SUFFICES ASSUME "status" \notin Faults, "get" \notin Faults, Quiescent',
                    NEW r \in Listed(api')
             PROVE  api'.status[Entry(r[1], r[2])] = "Healthy"
  BY DEF QuiescentHealthy, Listed
<1>1. api' = api /\ ((Observe /\ memFresh) \/ Quiescent)
  BY RestStep
<1>2. CASE Quiescent
  BY <1>1, <1>2 DEF QuiescentHealthy
<1>3. CASE Observe /\ memFresh
  <2>1. mem = api /\ pc = "observe" /\ stage = Len(Pipeline) + 1
    BY <1>3 DEF CopyOK, Observe, EndOK, LastSteps
  <2>2. api' = [api EXCEPT !.obs = mem.gen, !.status = mem.status, !.repo = mem.repo, !.pr = mem.pr]
    <3>1. api' = [api EXCEPT !.obs = [mem EXCEPT !.obs = mem.gen].obs,
                             !.status = [mem EXCEPT !.obs = mem.gen].status,
                             !.repo = [mem EXCEPT !.obs = mem.gen].repo,
                             !.pr = [mem EXCEPT !.obs = mem.gen].pr]
      BY <1>3 DEF Observe, Persist, Outcomes
    <3> QED
      BY <3>1 DEF TypeInv, TypeOK, UniverseType
  <2>3. mem.obs = mem.gen
    BY <1>1, <2>1, <2>2 DEF TypeInv, TypeOK, UniverseType
  <2>4. r \in Resources /\ r[2] \in SpecNames(mem.spec[r[1]])
    BY <1>1, <2>1 DEF Listed
  <2>5. r[1] \in Kinds /\ r = <<r[1], r[2]>>
    BY <2>4 DEF Resources
  <2>6. PICK i \in DOMAIN mem.spec[r[1]] : r[2] = mem.spec[r[1]][i].name
    BY <2>4 DEF SpecNames
  <2>7. PICK j \in DOMAIN Pipeline : r[1] = Pipeline[j].kind
    BY <2>5 DEF Kinds
  <2>8. j < stage
    BY <2>1, PipelineAssumption
  <2>9. Passed(j, i)
    BY <2>1, <2>8 DEF Passed, Walking, LastSteps
  <2>10. mem.status[EntryAt(j, i)] = "Healthy"
    BY <2>3, <2>6, <2>7, <2>9 DEF HealthyInv
  <2> QED
    BY <1>1, <2>1, <2>5, <2>6, <2>7, <2>10 DEF EntryAt
<1> QED
  BY <1>1, <1>2, <1>3

(* Although each status write's error is dropped, the controller comes to  *)
(* rest only on a Universe that reports all it lists as Healthy: for every *)
(* pipeline and every spec, whatever is refused because of a newer version, *)
(* and whatever crashes.                                                   *)
THEOREM HealthyAtRest == Spec => []QuiescentHealthy
<1>1. Init => CopyOK /\ EndOK /\ FoundInv /\ HealthyInv /\ QuiescentHealthy
  BY DEF Init, CopyOK, EndOK, FoundInv, HealthyInv, QuiescentHealthy, Quiescent, Passed, Walking,
         ElementSteps, LastSteps
<1> QED
  BY <1>1, TypeInit, TypeStep, FreshInit, FreshStep, CopyStep, EndStep, FoundKept, HealthyStep,
     HealthyRest, PTL DEF Spec

-----------------------------------------------------------------------------
(* Nothing is healthy too early.                                           *)

(* The pass has polled the resource it is at. *)
Polled ==
  \/ pc = "running" /\ Stage.waits # "never"
  \/ pc \in {"reconciling", "update"} /\ Stage.waits = "before"

(* A resource that polls itself, the only one of its name, is no longer    *)
(* being created once polled.                                              *)
ReadyInv ==
  {"get", "wait"} \cap Faults = {} /\ Polled /\ Stage.polls = Stage.kind /\ OwnEntry(Resource)
    => res[Resource].state # "created"

(* The steps that lead past a poll. *)
LEMMA PolledMoves ==
  ASSUME TypeInv, [Next]_vars, Polled'
  PROVE  /\ Stage' = Stage /\ Resource' = Resource
         /\ pc \in ElementSteps \ {"creating"} /\ stage <= Len(Pipeline) /\ elem <= Len(StageList)
         /\ \/ WaitReturns
            \/ Polled /\ (CloudStep \/ UNCHANGED res
                          \/ \E accepted \in BOOLEAN : UpdateResource(accepted))
<1>1. pc' \in ElementSteps \ {"creating"}
  BY DEF Polled, ElementSteps
<1>2. Stage' = Stage /\ Resource' = Resource
  BY <1>1, FoundMoves DEF Resource, Element, StageList, Stage, Agree
<1>3. CASE GetResource \/ GetFails
  <2>1. pc' = FoundStep
    BY <1>3 DEF GetResource, GetFails, FindResource
  <2>2. Stage.waits = "before" => pc' = "wait"
    BY <2>1 DEF FoundStep
  <2>3. Stage.waits = "after" => pc' # "running"
    BY <2>1 DEF FoundStep, SyncStep, SyncedStep
  <2>4. Stage.waits \in {"never", "before", "after"}
    <3>1. TypeOK /\ stage <= Len(Pipeline)
      BY <1>3 DEF GetResource, GetFails, FindResource, AtElement, TypeInv
    <3>2. Stage \in StageType
      BY <3>1, StageFacts, PipelineAssumption DEF Stage
    <3> QED
      BY <3>2 DEF StageType
  <2> QED
    BY <1>2, <2>2, <2>3, <2>4 DEF Polled
<1>4. CASE ~(GetResource \/ GetFails)
  <2>1. pc \in ElementSteps \ {"creating"}
    BY <1>1, <1>4, FoundMoves
  <2>2. stage <= Len(Pipeline) /\ elem <= Len(StageList)
    BY <2>1 DEF TypeInv, PositionOK
  <2>3. CASE WaitReturns
    BY <1>2, <2>1, <2>2, <2>3
  <2>4. CASE ReportReconciling
    BY <1>2, <2>1, <2>2, <2>4 DEF ReportReconciling, Polled
  <2>5. CASE \E accepted \in BOOLEAN : UpdateResource(accepted)
    <3>1. pc = "update" /\ pc' = IF Stage.waits = "after" THEN "wait" ELSE "running"
      BY <2>5 DEF UpdateResource
    <3>2. Stage.waits = "before"
      <4>1. Stage.waits # "never" /\ Stage.waits # "after"
        BY <1>2, <3>1 DEF Polled
      <4>2. Stage \in StageType
        BY <2>2, StageFacts, PipelineAssumption DEF Stage, TypeInv
      <4> QED
        BY <4>1, <4>2 DEF StageType
    <3> QED
      BY <1>2, <2>1, <2>2, <2>5, <3>1, <3>2 DEF Polled
  <2>6. CASE pc' = pc /\ (CloudStep \/ UNCHANGED res)
    BY <1>2, <2>1, <2>2, <2>6 DEF Polled
  <2>7. CASE CreateFails \/ ReportCreating \/ PreviewClusterMissing \/ Finalize \/ Observe
             \/ CrashRestart \/ AddFinalizer \/ Expire
    BY <1>1, <2>7 DEF CreateFails, ReportCreating, PreviewClusterMissing, Finalize, Observe,
                CrashRestart, AddFinalizer, Expire, EndPass, ForgetPass, ElementSteps
  <2>8. CASE BeginPass \/ RecordRepo \/ Refetch \/ RecordPR \/ CreateResource
             \/ ReportRunning \/ Prune \/ CheckDeletion \/ HasFinalizer \/ NotExpired
             \/ PreviewCluster
    BY <1>1, <2>1, <2>8 DEF BeginPass, RecordRepo, Refetch, RecordPR, CreateResource, ReportRunning,
       Prune, CheckDeletion, HasFinalizer, NotExpired, PreviewCluster, ElementSteps
  <2> QED
    BY <1>4, <2>3, <2>4, <2>5, <2>6, <2>7, <2>8
    DEF Next, ReconcileStep, CloudStep, DropRequest, Edit, DeleteUniverse,
        WatchDeliver, Resync, Provision, Deprovision, CollectGarbage, passVars, vars
<1> QED
  BY <1>3, <1>4

(* No step but a Create makes a resource one that is being created. *)
LEMMA CloudNeverCreates ==
  ASSUME TypeOK, CloudStep, NEW r \in Resources, res[r].state # "created"
  PROVE  res'[r].state # "created"
<1>1. PICK q \in Resources : Provision(q) \/ Deprovision(q) \/ CollectGarbage(q)
  BY DEF CloudStep
<1>2. res \in [Resources -> ResourceType]
  BY DEF TypeOK
<1>3. CASE Provision(q) \/ CollectGarbage(q)
  BY <1>2, <1>3 DEF Provision, CollectGarbage, ResourceType
<1>4. CASE Deprovision(q)
  BY <1>2, <1>4 DEF Deprovision, Absent
<1> QED
  BY <1>1, <1>3, <1>4

(* Every step keeps polled resources ready. *)
LEMMA ReadyStep == TypeInv /\ FoundInv /\ ReadyInv /\ [Next]_vars => ReadyInv'
<1> SUFFICES ASSUME TypeInv, FoundInv, ReadyInv, [Next]_vars, "get" \notin Faults,
                    "wait" \notin Faults, Polled', Stage'.polls = Stage'.kind,
                    OwnEntry(Resource')
             PROVE  res'[Resource'].state # "created"
  BY DEF ReadyInv, Stage, OwnEntry
<1>1. /\ Stage' = Stage /\ Resource' = Resource
      /\ pc \in ElementSteps \ {"creating"} /\ stage <= Len(Pipeline) /\ elem <= Len(StageList)
      /\ \/ WaitReturns
         \/ Polled /\ (CloudStep \/ UNCHANGED res
                       \/ \E accepted \in BOOLEAN : UpdateResource(accepted))
  BY PolledMoves
<1>2. TypeOK /\ Resource \in Resources /\ Element.name \in Names
  BY <1>1, ElementFacts DEF TypeInv
<1>3. CASE WaitReturns
  <2>1. found = Element.name /\ Element.name # Blank
    BY <1>1, <1>2, NamesAssumption DEF FoundInv
  <2>2. ~StillCreated(Stage.polls, Element.name) /\ res' = res
    BY <1>3, <2>1 DEF WaitReturns
  <2>3. Stage.polls = Stage.kind /\ OwnEntry(Resource)
    BY <1>1
  <2>4. \A n \in Names : NameOf[n] = NameOf[Element.name] => n = Element.name
    BY <2>3 DEF OwnEntry, Resource
  <2>5. res[Resource].state # "created"
    BY <2>2, <2>3, <2>4 DEF StillCreated, Resource
  <2> QED
    BY <1>1, <2>2, <2>5
<1>4. CASE Polled
  <2>1. res[Resource].state # "created"
    BY <1>1, <1>4 DEF ReadyInv
  <2>2. CASE CloudStep
    BY <1>1, <1>2, <2>1, <2>2, CloudNeverCreates
  <2>3. CASE UNCHANGED res \/ WaitReturns
    BY <1>1, <2>1, <2>3 DEF WaitReturns
  <2>4. ASSUME NEW accepted \in BOOLEAN, UpdateResource(accepted)
        PROVE  res'[Resource].state # "created"
    BY <1>2, <2>1, <2>4 DEF UpdateResource, TypeOK, ResourceType
  <2> QED
    BY <1>1, <2>2, <2>3, <2>4
<1> QED
  BY <1>1, <1>3, <1>4

(* An accepted write of a copy that was not changed before. *)
LEMMA PersistStatus ==
  ASSUME TypeOK, CopyOK, "status" \notin Faults, NEW m \in UniverseType, Persist(m)
  PROVE  api' = api \/ (mem = api /\ api'.status = m.status)
  BY DEF CopyOK, Persist, Outcomes, TypeOK, UniverseType

(* Only the report at the end of an element's section makes it Healthy. *)
LEMMA TurnsHealthy ==
  ASSUME TypeInv, FreshInv, CopyOK, FoundInv, "status" \notin Faults, "get" \notin Faults,
         [Next]_vars, NEW key \in StatusKeys, api.status[key] # "Healthy",
         api'.status[key] = "Healthy"
  PROVE  ReportRunning /\ key = Current
<1>s. TypeOK /\ mem \in UniverseType /\ api \in UniverseType
  BY DEF TypeInv, TypeOK
<1>1. CASE RecordRepo \/ RecordPR
  <2>1. mem' \in UniverseType /\ (Persist(mem') \/ UNCHANGED api)
    BY <1>1, WritesCopy
  <2>2. mem'.status = mem.status
    BY <1>1, <1>s DEF RecordRepo, RecordPR, UniverseType
  <2> QED
    BY <2>1, <2>2, <1>s, PersistStatus
<1>2. CASE ReportCreating
  <2> DEFINE m == updateStatus(mem, Stage.kind, Element.name, "Creating")
  <2>1. stage <= Len(Pipeline) /\ elem <= Len(StageList)
    BY <1>2 DEF ReportCreating, TypeInv, PositionOK, ElementSteps
  <2>2. m \in UniverseType
    BY <2>1, <1>s, StageFacts, ElementFacts, StatusType DEF Progress
  <2>3. api' = api \/ (mem = api /\ api'.status = m.status)
    BY <1>2, <1>s, <2>2, PersistStatus DEF ReportCreating
  <2>4. m.status[key] \in {mem.status[key], "Creating"}
    BY <1>s DEF updateStatus, UniverseType
  <2> QED
    BY <2>3, <2>4
<1>3. CASE ReportReconciling
  <2>1. PICK k, n : mem' = updateStatus(mem, k, n, "Reconciling")
    BY <1>3 DEF ReportReconciling
  <2>2. mem'.status[key] \in {mem.status[key], "Reconciling"}
    BY <2>1, <1>s DEF updateStatus, UniverseType
  <2> QED
    BY <1>3, <1>s, <2>2, WritesCopy, PersistStatus
<1>4. CASE ReportRunning
  <2>1. mem' = updateStatus(mem, Stage.kind, Element.name, "Healthy") /\ Current \in StatusKeys
    BY <1>4, RunningResult
  <2>2. key # Current => mem'.status[key] = mem.status[key]
    BY <2>1, <1>s DEF updateStatus, UniverseType, Current
  <2> QED
    BY <1>4, <1>s, <2>2, WritesCopy, PersistStatus
<1>5. CASE Observe
  <2> DEFINE m == [mem EXCEPT !.obs = mem.gen]
  <2>1. m \in UniverseType /\ m.status = mem.status
    BY <1>s DEF UniverseType
  <2> QED
    BY <1>5, <1>s, <2>1, PersistStatus DEF Observe
<1>g. Gone.status[key] = "none"
  BY <1>s DEF Gone, NewUniverse
<1>6. CASE Finalize
  BY <1>6, <1>g DEF Finalize
<1>7. CASE AddFinalizer
  BY <1>7, <1>s DEF AddFinalizer, universeVars, UniverseType
<1>8. CASE Expire \/ DeleteUniverse
  <2>1. api' = api \/ api' = MarkDeleted(api)
    BY <1>8 DEF Expire, DeleteUniverse, universeVars
  <2> QED
    BY <2>1, <1>s, <1>g DEF MarkDeleted, UniverseType
<1>9. CASE Edit
  BY <1>9, <1>s DEF Edit, UniverseType
<1>10. CASE api' = api
  BY <1>10
<1> QED
  BY <1>1, <1>2, <1>3, <1>4, <1>5, <1>6, <1>7, <1>8, <1>9, <1>10
  DEF Next, ReconcileStep, CloudStep, GetResource, GetFails, BeginPass, DropRequest, Refetch,
      FindResource, CreateResource, CreateFails, UpdateResource, WaitReturns, Prune,
      PreviewCluster, PreviewClusterMissing, CheckDeletion, HasFinalizer, NotExpired,
      WatchDeliver, Resync, CrashRestart, Provision, Deprovision, CollectGarbage,
      universeVars, vars

(* If polls are answered in time, no resource of a kind that polls itself  *)
(* is reported Healthy while Config Connector is still creating it, unless *)
(* it shares its name: the copy's older entries, the object at hand and    *)
(* the poll all speak of the same resource.                                *)
THEOREM ReadyBeforeHealthy == Spec => HealthyAfterReady
<1>1. ASSUME TypeInv, FreshInv, CopyOK, FoundInv, ReadyInv, [Next]_vars,
             {"status", "get", "wait"} \cap Faults = {}, NEW r \in Resources, WaitsForItself(r[1]),
             OwnEntry(r), NEW e, e = Entry(r[1], r[2]),
             api.status[e] # "Healthy", api'.status[e] = "Healthy"
      PROVE  res[r].state # "created"
  <2>e. e \in StatusKeys
    BY <1>1 DEF Resources, StatusKeys, Entry
  <2>1. ReportRunning /\ e = Current
    BY <1>1, <2>e, TurnsHealthy
  <2>2. pc = "running" /\ stage \in DOMAIN Pipeline
    BY <1>1, <2>1, StageFacts DEF ReportRunning, TypeInv, PositionOK, ElementSteps
  <2>3. Element.name \in Names
    BY <1>1, <2>1, <2>2, ElementFacts DEF ReportRunning, TypeInv, PositionOK, ElementSteps
  <2>4. r = Resource
    <3>1. r = <<r[1], r[2]>> /\ r[1] = Stage.kind /\ NameOf[r[2]] = NameOf[Element.name]
      BY <1>1, <2>1 DEF Resources, Entry, Current
    <3> QED
      BY <1>1, <2>3, <3>1 DEF OwnEntry, Resource
  <2>5. Stage.waits # "never" /\ Stage.polls = Stage.kind
    BY <1>1, <2>2, <2>4 DEF Resource, WaitsForItself, Stage
  <2> QED
    BY <1>1, <2>2, <2>4, <2>5 DEF ReadyInv, Polled
<1>2. TypeInv /\ FreshInv /\ CopyOK /\ FoundInv /\ ReadyInv /\ [Next]_vars
        => [{"status", "get", "wait"} \cap Faults = {} =>
             \A r \in Resources :
               LET e == Entry(r[1], r[2]) IN
               WaitsForItself(r[1]) /\ OwnEntry(r)
                 /\ api.status[e] # "Healthy" /\ api'.status[e] = "Healthy"
                 => res[r].state # "created"]_vars
  BY <1>1
<1>3. Init => CopyOK /\ FoundInv /\ ReadyInv
  BY DEF Init, CopyOK, FoundInv, ReadyInv, Polled, ElementSteps
<1> QED
  BY <1>2, <1>3, TypeInit, TypeStep, FreshInit, FreshStep, CopyStep, FoundKept, ReadyStep, PTL
  DEF Spec, HealthyAfterReady
=============================================================================
