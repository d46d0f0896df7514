------------------------- MODULE UniverseSyncProofs -------------------------
(* Theorems about the synchronisation of resources with the spec.          *)
EXTENDS UniverseProofs

-----------------------------------------------------------------------------
(* Specs.                                                                  *)

(* A spec does not ask for two values of one resource. *)
Consistent(s) ==
  \A k \in Kinds : \A i, j \in DOMAIN s[k] : s[k][i].name = s[k][j].name => s[k][i].val = s[k][j].val

SpecsConsistent == \A s \in Specs : Consistent(s)

(* No copy of the Universe has a spec that does. *)
CopiesConsistent == Consistent(api.spec) /\ Consistent(cache.spec) /\ Consistent(mem.spec)

(* No Universe asks for nothing. *)
LEMMA GoneConsistent == Consistent(Gone.spec)
<1>1. Gone.spec = [k \in Kinds |-> << >>]
  BY DEF Gone, NewUniverse
<1> QED
  BY <1>1 DEF Consistent

(* The copies have the specs that users write. *)
LEMMA WrittenConsistent ==
  ASSUME SpecsConsistent, SpecsInv
  PROVE  CopiesConsistent
  BY GoneConsistent DEF SpecsConsistent, SpecsInv, CopiesConsistent

-----------------------------------------------------------------------------
(* What the cache and the pass know of an observed spec.                   *)

(* While a pass works on the newest version, the cache has its spec, and   *)
(* an observed spec is known to the cache and to every pass from then on.  *)
KnownInv ==
  /\ memFresh => cache.spec = api.spec
  /\ api.exists /\ api.obs = api.gen =>
       cache.spec = api.spec /\ (pc # "idle" => mem.spec = api.spec)

(* An observed Universe was observed before, or the pass that ends now has *)
(* worked on a newer generation.                                           *)
LEMMA ObservedBefore ==
  ASSUME TypeInv, FreshInv, [Next]_vars, api'.exists, api'.obs = api'.gen
  PROVE  /\ api.exists /\ api'.spec = api.spec
         /\ api.obs = api.gen \/ (pc = "observe" /\ memFresh /\ api.obs < api.gen)
<1>g. Gone.exists = FALSE /\ api.gen \in Nat /\ api.obs \in Nat /\ api.obs <= api.gen
  BY DEF Gone, NewUniverse, TypeInv, TypeOK, UniverseType, FreshInv, LifecycleOK
<1>1. CASE api'.obs # api.obs
  <2>1. pc = "observe" /\ memFresh /\ api'.spec = api.spec /\ api'.obs = api.gen
    BY <1>1, ObservedStep
  <2> QED
    BY <1>1, <1>g, <2>1, SpecMoves
<1>2. CASE api'.obs = api.obs
  <2>1. api'.gen # api.gen + 1
    BY <1>2, <1>g
  <2>2. api.exists /\ api'.spec = api.spec /\ api'.gen = api.gen
    BY <2>1, <1>g, SpecMoves
  <2> QED
    BY <1>2, <2>2
<1> QED
  BY <1>1, <1>2

(* Every step keeps what is known. *)
LEMMA KnownStep == TypeInv /\ FreshInv /\ KnownInv /\ [Next]_vars => KnownInv'
<1> SUFFICES ASSUME TypeInv, FreshInv, KnownInv, [Next]_vars PROVE KnownInv'
  OBVIOUS
<1>1. memFresh' => cache'.spec = api'.spec
  BY SpecMoves DEF KnownInv, FreshInv, FlagsOK
<1>2. ASSUME api'.exists, api'.obs = api'.gen
      PROVE  cache'.spec = api'.spec /\ (pc' # "idle" => mem'.spec = api'.spec)
  <2>1. /\ api.exists /\ api'.spec = api.spec /\ cache.spec = api.spec
        /\ pc # "idle" => mem.spec = api.spec
    BY <1>2, ObservedBefore DEF KnownInv, FreshInv, FlagsOK, Agree
  <2>2. cache'.spec = api'.spec
    BY <2>1, SpecMoves
  <2>3. pc' # "idle" => mem'.spec = api'.spec
    BY <2>1, SpecMoves
  <2> QED
    BY <2>2, <2>3
<1> QED
  BY <1>1, <1>2 DEF KnownInv

-----------------------------------------------------------------------------
(* Synchronised resources.                                                 *)

(* A resource has the value, or is not there, or is known to miss it. *)
Synced(r, v) == res[r].state = "absent" \/ res[r].val = v \/ r \in missed

(* A step that writes to the resource of the element it is at. *)
Writes == CreateResource \/ \E accepted \in BOOLEAN : UpdateResource(accepted)

(* What such a step writes. *)
LEMMA WritesSync ==
  ASSUME TypeInv, Writes
  PROVE  /\ Synced(Resource, Element.val)'  /\ Resource' = Resource /\ Element' = Element
         /\ stage <= Len(Pipeline) /\ elem <= Len(StageList) /\ pc # "idle"
         /\ \A r \in Resources \ {Resource} : res'[r] = res[r] /\ (r \in missed' <=> r \in missed)
<1>1. TypeOK /\ stage <= Len(Pipeline) /\ elem <= Len(StageList)
  BY DEF Writes, CreateResource, AtElement, UpdateResource, TypeInv, PositionOK, ElementSteps
<1>2. Resource \in Resources /\ res \in [Resources -> ResourceType] /\ Element.val \in Vals
  BY <1>1, ElementFacts DEF TypeOK
<1>3. UNCHANGED <<stage, elem, mem>> /\ pc # "idle"
  BY DEF Writes, CreateResource, AtElement, UpdateResource
<1>4. Resource' = Resource /\ Element' = Element
  BY <1>3 DEF Resource, Element, StageList, Stage
<1>5. CASE CreateResource
  <2>1. res'[Resource].val = Element.val
    BY <1>2, <1>5 DEF CreateResource
  <2>2. \A r \in Resources \ {Resource} : res'[r] = res[r] /\ (r \in missed' <=> r \in missed)
    BY <1>2, <1>5 DEF CreateResource
  <2> QED
    BY <1>1, <1>3, <1>4, <2>1, <2>2 DEF Synced
<1>6. ASSUME NEW accepted \in BOOLEAN, UpdateResource(accepted)
      PROVE  /\ res'[Resource].val = Element.val \/ Resource \in missed'
             /\ \A r \in Resources \ {Resource} : res'[r] = res[r] /\ (r \in missed' <=> r \in missed)
  BY <1>2, <1>6 DEF UpdateResource, ResourceType
<1> QED
  BY <1>1, <1>3, <1>4, <1>5, <1>6 DEF Writes, Synced

(* No other step changes a value or forgets that one was missed. *)
LEMMA OthersSync ==
  ASSUME TypeInv, [Next]_vars, ~Writes, NEW r \in Resources, NEW v, Synced(r, v)
  PROVE  res'[r].state = "absent" \/ res'[r].val = v \/ r \in missed'
<1>1. res \in [Resources -> ResourceType]
  BY DEF TypeInv, TypeOK
<1>2. CASE GetResource \/ GetFails
  BY <1>2 DEF GetResource, GetFails, FindResource, Synced
<1>3. CASE Prune
  <2>1. PICK gone : res' = [q \in Resources |-> IF q[1] = Stage.removes /\ q[2] \in gone
                                                THEN Deleting(res[q]) ELSE res[q]]
    BY <1>3 DEF Prune
  <2>2. res'[r] = res[r] \/ res'[r] = Deleting(res[r])
    BY <2>1
  <2>3. UNCHANGED missed
    BY <1>3 DEF Prune
  <2> QED
    BY <1>1, <2>2, <2>3 DEF Deleting, ResourceType, Synced
<1>4. CASE CloudStep
  <2>1. PICK q \in Resources : Provision(q) \/ Deprovision(q) \/ CollectGarbage(q)
    BY <1>4 DEF CloudStep
  <2>2. UNCHANGED missed
    BY <2>1 DEF Provision, Deprovision, CollectGarbage
  <2>3. CASE Provision(q) \/ CollectGarbage(q)
    BY <1>1, <2>2, <2>3 DEF Provision, CollectGarbage, ResourceType, Synced
  <2>4. CASE Deprovision(q)
    BY <1>1, <2>2, <2>4 DEF Deprovision, Absent, Synced
  <2> QED
    BY <2>1, <2>3, <2>4
<1>5. CASE UNCHANGED <<res, missed>>
  BY <1>5 DEF Synced
<1> QED
  BY <1>2, <1>3, <1>4, <1>5
  DEF Next, ReconcileStep, Writes, BeginPass, DropRequest, RecordRepo, Refetch, RecordPR,
      CreateFails, ReportCreating, ReportReconciling, WaitReturns, ReportRunning,
      PreviewCluster, PreviewClusterMissing, CheckDeletion, Finalize, AddFinalizer,
      HasFinalizer, NotExpired, Expire, Observe, Edit, DeleteUniverse, WatchDeliver, Resync,
      CrashRestart, vars

(* An element of the list of kind k in a consistent copy stays synchronised. *)
LEMMA ElementSync ==
  ASSUME TypeInv, CopiesConsistent, [Next]_vars, NEW k \in Kinds, NEW i \in DOMAIN mem.spec[k],
         Synced(<<k, mem.spec[k][i].name>>, mem.spec[k][i].val)
  PROVE  LET r == <<k, mem.spec[k][i].name>>
         IN res'[r].state = "absent" \/ res'[r].val = mem.spec[k][i].val \/ r \in missed'
<1> DEFINE e == mem.spec[k][i]
           r == <<k, e.name>>
<1>1. e \in Elements /\ r \in Resources
  <2>1. mem.spec[k] \in Seq(Elements)
    BY DEF TypeInv, TypeOK, UniverseType
  <2>2. e \in Elements
    BY <2>1
  <2> QED
    BY <2>2 DEF Elements, Resources
<1>2. CASE ~Writes
  BY <1>1, <1>2, OthersSync
<1>3. CASE Writes
  <2>1. /\ Synced(Resource, Element.val)' /\ Resource' = Resource /\ Element' = Element
        /\ stage <= Len(Pipeline) /\ elem <= Len(StageList)
        /\ \A q \in Resources \ {Resource} : res'[q] = res[q] /\ (q \in missed' <=> q \in missed)
    BY <1>3, WritesSync
  <2>2. CASE r # Resource
    BY <1>1, <2>1, <2>2 DEF Synced
  <2>3. CASE r = Resource
    <3>1. elem \in DOMAIN StageList /\ Stage.kind = k /\ Element.name = e.name
      BY <2>1, <2>3, ElementFacts DEF Resource, TypeInv
    <3>2. e.val = Element.val
      BY <3>1 DEF CopiesConsistent, Consistent, Element, StageList
    <3> QED
      BY <2>1, <2>3, <3>2 DEF Synced
  <2> QED
    BY <2>2, <2>3
<1> QED
  BY <1>2, <1>3

-----------------------------------------------------------------------------
(* A pass synchronises what it passes.                                     *)

(* The element the pass is at has been synchronised, or found to miss its  *)
(* value: past the Update, or past the Get before the first observation.   *)
AtSynced ==
  \/ pc = "running" \/ (pc = "wait" /\ Stage.waits # "before")
  \/ pc \in ElementSteps \ {"creating"} /\ mem.obs = 0

PassSync ==
  mem.obs < mem.gen =>
    /\ \A j \in DOMAIN Pipeline : \A i \in DOMAIN mem.spec[Pipeline[j].kind] :
         LET k == Pipeline[j].kind
         IN Passed(j, i) => Synced(<<k, mem.spec[k][i].name>>, mem.spec[k][i].val)
    /\ AtSynced => Synced(Resource, Element.val)

(* The element at hand. *)
LEMMA AtSyncedStep ==
  ASSUME TypeInv, CopiesConsistent, PassSync, [Next]_vars, mem'.obs < mem'.gen, AtSynced'
  PROVE  Synced(Resource, Element.val)'
<1>1. pc' \in ElementSteps \ {"creating"}
  BY DEF AtSynced, ElementSteps
<1>2. /\ UNCHANGED <<stage, elem>> /\ Agree(mem', mem)
      /\ \/ GetResource \/ GetFails
         \/ /\ pc \in ElementSteps \ {"creating"}
            /\ pc' = pc \/ ReportReconciling \/ WaitReturns
               \/ \E accepted \in BOOLEAN : UpdateResource(accepted)
  BY <1>1, FoundMoves
<1>3. Stage' = Stage /\ Element' = Element /\ Resource' = Resource
  BY <1>2 DEF Resource, Element, StageList, Stage, Agree
<1>4. mem.obs < mem.gen /\ mem.obs \in Nat /\ mem.gen \in Nat /\ mem'.obs = mem.obs
  BY <1>2 DEF Agree, TypeInv, TypeOK, UniverseType
<1>5. CASE GetResource \/ GetFails
  <2>1. /\ pc' = FoundStep /\ res' = res
        /\ missed' = IF mem.obs = 0 /\ res[Resource].val # Element.val
                       THEN missed \cup {Resource} ELSE missed
    BY <1>5 DEF GetResource, GetFails, FindResource
  <2>2. CASE mem.obs = 0
    BY <1>3, <2>1, <2>2 DEF Synced
  <2>3. CASE mem.obs # 0
    <3>1. NeedsSync
      BY <1>4, <2>3 DEF NeedsSync
    <3>2. pc' = "wait" => Stage.waits = "before"
      BY <2>1, <3>1 DEF FoundStep, SyncStep
    <3>3. pc' # "running"
      BY <2>1, <3>1 DEF FoundStep, SyncStep
    <3> QED
      BY <1>3, <1>4, <2>3, <3>2, <3>3 DEF AtSynced
  <2> QED
    BY <2>2, <2>3
<1>6. CASE Writes
  BY <1>3, <1>6, WritesSync DEF Synced
<1>7. CASE ~Writes /\ ~GetResource /\ ~GetFails
  <2>1. pc \in ElementSteps \ {"creating"} /\ (pc' = pc \/ ReportReconciling \/ WaitReturns)
    BY <1>2, <1>7 DEF Writes
  <2>2. AtSynced
    <3>1. ASSUME ReportReconciling PROVE AtSynced
      <4>1. pc' = "update"
        BY <3>1 DEF ReportReconciling
      <4> QED
        BY <1>4, <2>1, <4>1 DEF AtSynced
    <3>2. ASSUME WaitReturns PROVE AtSynced
      <4>1. pc = "wait" /\ pc' = WaitedStep
        BY <3>2 DEF WaitReturns
      <4>2. Stage.waits = "before" /\ NeedsSync => pc' \in {"update", "reconciling"} /\ mem.obs # 0
        BY <1>4, <4>1 DEF WaitedStep, SyncStep, NeedsSync
      <4>3. ~NeedsSync => mem.obs = 0
        BY <1>4 DEF NeedsSync
      <4> QED
        BY <1>3, <1>4, <2>1, <4>1, <4>2, <4>3 DEF AtSynced
    <3>3. ASSUME pc' = pc PROVE AtSynced
      BY <1>3, <1>4, <2>1, <3>3 DEF AtSynced
    <3> QED
      BY <2>1, <3>1, <3>2, <3>3
  <2>3. Synced(Resource, Element.val)
    BY <1>4, <2>2 DEF PassSync
  <2>4. stage <= Len(Pipeline) /\ elem <= Len(StageList) /\ TypeOK
    BY <2>1 DEF TypeInv, PositionOK
  <2>5. Resource \in Resources
    BY <2>4, ElementFacts
  <2> QED
    BY <1>3, <1>7, <2>3, <2>5, OthersSync DEF Synced
<1> QED
  BY <1>5, <1>6, <1>7

(* Every step keeps what a pass has synchronised. *)
LEMMA PassSyncStep == TypeInv /\ FreshInv /\ EndOK /\ CopiesConsistent /\ PassSync /\ [Next]_vars => PassSync'
<1> SUFFICES ASSUME TypeInv, FreshInv, EndOK, CopiesConsistent, PassSync, [Next]_vars,
                    mem'.obs < mem'.gen
             PROVE  /\ \A j \in DOMAIN Pipeline : \A i \in DOMAIN mem'.spec[Pipeline[j].kind] :
                         LET k == Pipeline[j].kind
                         IN Passed(j, i)' => Synced(<<k, mem.spec[k][i].name>>, mem.spec[k][i].val)'
                    /\ AtSynced' => Synced(Resource, Element.val)'
  BY DEF PassSync
<1>1. ASSUME NEW j \in DOMAIN Pipeline, NEW i \in DOMAIN mem'.spec[Pipeline[j].kind],
             Passed(j, i)'
      PROVE  LET k == Pipeline[j].kind
             IN Synced(<<k, mem.spec[k][i].name>>, mem.spec[k][i].val)'
  <2> DEFINE k == Pipeline[j].kind
             e == mem.spec[k][i]
  <2>1. /\ mem'.spec = mem.spec /\ mem.obs < mem.gen
        /\ Passed(j, i) \/ (ReportRunning /\ j = stage /\ i = elem)
    BY <1>1, PassedStep
  <2>2. k \in Kinds /\ i \in DOMAIN mem.spec[k]
    BY <2>1 DEF Kinds
  <2>3. Synced(<<k, e.name>>, e.val)
    <3>1. CASE Passed(j, i)
      BY <2>1, <2>2, <3>1 DEF PassSync
    <3>2. CASE ReportRunning /\ j = stage /\ i = elem
      <4>1. AtSynced
        BY <3>2 DEF ReportRunning, AtSynced
      <4>2. Resource = <<k, e.name>> /\ Element = e
        BY <3>2 DEF Resource, Element, StageList, Stage
      <4> QED
        BY <2>1, <4>1, <4>2 DEF PassSync
    <3> QED
      BY <2>1, <3>1, <3>2
  <2>4. res'[<<k, e.name>>].state = "absent" \/ res'[<<k, e.name>>].val = e.val
        \/ <<k, e.name>> \in missed'
    BY <2>2, <2>3, ElementSync
  <2> QED
    BY <2>1, <2>4 DEF Synced
<1>2. AtSynced' => Synced(Resource, Element.val)'
  BY AtSyncedStep
<1> QED
  BY <1>1, <1>2

-----------------------------------------------------------------------------
(* Synchronised Universes.                                                 *)

(* Every listed resource of a Universe whose newest generation is observed *)
(* is synchronised.                                                        *)
SyncInv ==
  api.exists /\ api.obs = api.gen =>
    \A k \in Kinds : \A i \in DOMAIN api.spec[k] :
      Synced(<<k, api.spec[k][i].name>>, api.spec[k][i].val)

(* Every step keeps an observed Universe synchronised, and the last write  *)
(* of a pass reports one as observed that the pass has synchronised.       *)
LEMMA SyncInvStep ==
  TypeInv /\ FreshInv /\ EndOK /\ CopiesConsistent /\ KnownInv /\ PassSync /\ SyncInv /\ [Next]_vars
    => SyncInv'
<1> SUFFICES ASSUME TypeInv, FreshInv, EndOK, CopiesConsistent, KnownInv, PassSync, SyncInv,
                    [Next]_vars, api'.exists, api'.obs = api'.gen,
                    NEW k \in Kinds, NEW i \in DOMAIN api'.spec[k]
             PROVE  Synced(<<k, api.spec[k][i].name>>, api.spec[k][i].val)'
  BY DEF SyncInv
<1> DEFINE e == api.spec[k][i]
           r == <<k, e.name>>
<1>1. /\ api.exists /\ api'.spec = api.spec /\ i \in DOMAIN api.spec[k]
      /\ api.obs = api.gen \/ (pc = "observe" /\ memFresh /\ api.obs < api.gen)
  BY ObservedBefore
<1>2. SUFFICES res'[r].state = "absent" \/ res'[r].val = e.val \/ r \in missed'
  BY <1>1 DEF Synced
<1>3. CASE api.obs = api.gen
  <2>1. Synced(r, e.val)
    BY <1>1, <1>3 DEF SyncInv
  <2>2. CASE pc = "idle"
    <3>1. ~Writes
      BY <2>2 DEF Writes, CreateResource, AtElement, UpdateResource
    <3>2. r \in Resources
      <4>1. api.spec[k] \in Seq(Elements)
        BY DEF TypeInv, TypeOK, UniverseType
      <4>2. e \in Elements
        BY <1>1, <4>1
      <4> QED
        BY <4>2 DEF Elements, Resources
    <3> QED
      BY <2>1, <3>1, <3>2, OthersSync
  <2>3. CASE pc # "idle"
    <3>1. mem.spec = api.spec
      BY <1>1, <1>3, <2>3 DEF KnownInv
    <3> QED
      BY <1>1, <2>1, <3>1, ElementSync
  <2> QED
    BY <2>2, <2>3
<1>4. CASE pc = "observe" /\ memFresh /\ api.obs < api.gen
  <2>1. mem.spec = api.spec /\ mem.obs < mem.gen
    BY <1>4 DEF FreshInv, FlagsOK, Agree
  <2>2. PICK j \in DOMAIN Pipeline : Pipeline[j].kind = k
    BY DEF Kinds
  <2>3. Passed(j, i)
    <3>1. stage = Len(Pipeline) + 1
      BY <1>4 DEF EndOK, LastSteps
    <3>2. j < stage
      BY <3>1, PipelineAssumption
    <3> QED
      BY <1>4, <3>2 DEF Passed, Walking, LastSteps
  <2>4. Synced(r, e.val)
    BY <1>1, <2>1, <2>2, <2>3 DEF PassSync
  <2> QED
    BY <1>1, <2>1, <2>4, ElementSync
<1> QED
  BY <1>1, <1>3, <1>4

(* A listed resource of a Universe at rest has the value the spec asks     *)
(* for, is not there, or is known to have missed its synchronisation, for  *)
(* any pipeline and any failures but those of status writes, if no spec    *)
(* asks for two values of one resource.                                    *)
THEOREM SyncedAtRest ==
  ASSUME SpecsConsistent
  PROVE  Spec => []SyncedUnlessMissed
<1>1. Init => EndOK /\ KnownInv /\ PassSync /\ SyncInv
  <2> SUFFICES ASSUME Init PROVE EndOK /\ KnownInv /\ PassSync /\ SyncInv
    OBVIOUS
  <2>1. pc = "idle" /\ ~memFresh /\ api.obs = 0 /\ api.gen = 1 /\ mem = Gone
    BY DEF Init, NewUniverse
  <2>2. PassSync
    BY <2>1 DEF PassSync, Gone, NewUniverse
  <2> QED
    BY <2>1, <2>2 DEF EndOK, LastSteps, KnownInv, SyncInv
<1>2. SpecsInv => CopiesConsistent
  BY WrittenConsistent
<1>3. FreshInv /\ SyncInv => SyncedUnlessMissed
  BY DEF FreshInv, QuiescentObserved, Quiescent, SyncInv, SyncedUnlessMissed, Synced
<1> QED
  BY <1>1, <1>2, <1>3, TypeInit, TypeStep, FreshInit, FreshStep, EndStep, SpecsInit, SpecsStep,
     KnownStep, PassSyncStep, SyncInvStep, PTL DEF Spec
=============================================================================
