------------------------ MODULE UniversePruneProofs -------------------------
(* Theorems about what "Delete or scale to zero" deletes and leaves.       *)
EXTENDS UniverseProofs, FiniteSetTheorems

-----------------------------------------------------------------------------
(* What becomes of a resource.                                             *)

(* The resource is one the pruning loop of the stage may delete. *)
MayPrune(r) ==
  r[1] = Stage.removes /\ NameOf[r[2]] \notin BareNames(SpecNames(mem.spec[Stage.keeps]))

(* The steps that delete a resource are Prune and the garbage collector's. *)
LEMMA ResourceMoves ==
  ASSUME TypeInv, [Next]_vars, NEW r \in Resources
  PROVE  \/ res'[r].state = res[r].state /\ res'[r].mine = res[r].mine
         \/ CreateResource
         \/ res[r].state = "created" /\ res'[r].state = "running" /\ res'[r].mine = res[r].mine
         \/ res[r].state = "deleting" /\ res'[r].state = "absent"
         \/ /\ res[r].state # "absent" /\ res'[r].state = "deleting" /\ res'[r].mine = res[r].mine
            /\ ~api.exists \/ (Prune /\ MayPrune(r))
<1>1. res \in [Resources -> ResourceType]
  BY DEF TypeInv, TypeOK
<1>2. CASE GetResource \/ GetFails
  BY <1>2 DEF GetResource, GetFails, FindResource
<1>3. ASSUME NEW accepted \in BOOLEAN, UpdateResource(accepted)
      PROVE  res'[r].state = res[r].state /\ res'[r].mine = res[r].mine
  BY <1>1, <1>3 DEF UpdateResource, ResourceType
<1>4. CASE Prune
  <2>1. PICK gone :
          /\ gone \subseteq {n \in Names :
               NameOf[n] \notin BareNames(SpecNames(mem.spec[Stage.keeps]))}
          /\ res' = [q \in Resources |-> IF q[1] = Stage.removes /\ q[2] \in gone
                                           THEN Deleting(res[q]) ELSE res[q]]
    <3>1. lists' \in [Kinds -> SUBSET Names] /\ Stage.removes \in Kinds
      BY <1>4, TypeStep, StageFacts DEF TypeInv, TypeOK, Prune
    <3>2. PICK gone \in SUBSET Victims(lists') :
            res' = [q \in Resources |-> IF q[1] = Stage.removes /\ q[2] \in gone
                                          THEN Deleting(res[q]) ELSE res[q]]
      BY <1>4 DEF Prune
    <3> QED
      BY <3>1, <3>2 DEF Victims
  <2>2. res'[r] = res[r] \/ (res'[r] = Deleting(res[r]) /\ MayPrune(r))
    BY <2>1 DEF MayPrune
  <2> QED
    BY <1>1, <1>4, <2>2 DEF Deleting, ResourceType
<1>5. CASE CloudStep
  <2>1. PICK q \in Resources : Provision(q) \/ Deprovision(q) \/ CollectGarbage(q)
    BY <1>5 DEF CloudStep
  <2>2. CASE Provision(q)
    BY <1>1, <2>2 DEF Provision, ResourceType
  <2>3. CASE Deprovision(q)
    BY <1>1, <2>3 DEF Deprovision, Absent
  <2>4. CASE CollectGarbage(q)
    BY <1>1, <2>4 DEF CollectGarbage, ResourceType
  <2> QED
    BY <2>1, <2>2, <2>3, <2>4
<1>6. CASE UNCHANGED res
  BY <1>6
<1> QED
  BY <1>2, <1>3, <1>4, <1>5, <1>6
  DEF Next, ReconcileStep, BeginPass, DropRequest, RecordRepo, Refetch, RecordPR,
      CreateFails, ReportCreating, ReportReconciling, WaitReturns, ReportRunning,
      PreviewCluster, PreviewClusterMissing, CheckDeletion, Finalize, AddFinalizer,
      HasFinalizer, NotExpired, Expire, Observe, Edit, DeleteUniverse, WatchDeliver, Resync,
      CrashRestart, vars

-----------------------------------------------------------------------------
(* What is not listed is deleted.                                          *)

(* A spec names no resource twice. *)
Distinct(list) == \A i, j \in DOMAIN list : list[i].name = list[j].name => i = j

SpecsDistinct == \A s \in Specs : \A k \in Kinds : Distinct(s[k])

(* Then it names as many as its list is long. *)
LEMMA DistinctNames ==
  ASSUME NEW list \in Seq(Elements), Distinct(list)
  PROVE  Cardinality(SpecNames(list)) = Len(list)
<1> DEFINE f == [i \in 1 .. Len(list) |-> list[i].name]
<1>1. Len(list) \in Nat /\ DOMAIN list = 1 .. Len(list)
  OBVIOUS
<1>2. f \in [1 .. Len(list) -> SpecNames(list)]
  BY <1>1 DEF SpecNames
<1>3. IsInjective(f)
  BY <1>1 DEF Distinct, IsInjective
<1>4. f \in Injection(1 .. Len(list), SpecNames(list))
  BY <1>2, <1>3 DEF Injection
<1>5. f \in Surjection(1 .. Len(list), SpecNames(list))
  BY <1>1, <1>2 DEF Surjection, SpecNames
<1>6. ExistsBijection(1 .. Len(list), SpecNames(list))
  BY <1>4, <1>5 DEF Bijection, ExistsBijection
<1> QED
  BY <1>1, <1>6, FS_CountingElements

(* n has none of the names, in no namespace. *)
Nameless(n, names) == NameOf[n] \notin BareNames(names)

(* Every resource of the kind that carries the label and none of the names *)
(* is on its way out, if one of each name is there.                        *)
Clean(k, names) ==
  names \subseteq Labelled(k) =>
    \A n \in Labelled(k) : Nameless(n, names) => res[<<k, n>>].state = "deleting"

(* A Create apart, no step brings back what is on its way out. *)
LEMMA CleanStep ==
  ASSUME TypeInv, [Next]_vars, ~CreateResource, NEW k \in Kinds, NEW names, Clean(k, names)
  PROVE  Clean(k, names)'
<1> SUFFICES ASSUME names \subseteq Labelled(k)', NEW n \in Labelled(k)', Nameless(n, names)
             PROVE  res'[<<k, n>>].state = "deleting"
  BY DEF Clean, Nameless
<1>1. ASSUME NEW m \in Labelled(k)' PROVE m \in Labelled(k)
  <2>1. m \in Names /\ res'[<<k, m>>].state # "absent" /\ res'[<<k, m>>].mine
    BY <1>1 DEF Labelled
  <2>2. <<k, m>> \in Resources
    BY <2>1 DEF Resources
  <2> QED
    BY <2>1, <2>2, ResourceMoves DEF Labelled
<1>2. names \subseteq Labelled(k) /\ n \in Labelled(k)
  BY <1>1
<1>3. res[<<k, n>>].state = "deleting" /\ n \in Names /\ res'[<<k, n>>].state # "absent"
  BY <1>2 DEF Clean, Labelled
<1>4. <<k, n>> \in Resources
  BY <1>3 DEF Resources
<1> QED
  BY <1>3, <1>4, ResourceMoves

(* The section of a kind that prunes itself leaves it clean. *)
LEMMA PruneCleans ==
  ASSUME IsFiniteSet(Names), {"list", "delete"} \cap Faults = {}, TypeInv, Prune,
         NEW k, k = Stage.kind, PrunesItself(k), Distinct(StageList),
         NEW names, names = SpecNames(StageList)
  PROVE  Clean(k, names)'
<1>1. /\ k \in Kinds /\ Stage.removes = k /\ Stage.keeps = k /\ StageList \in Seq(Elements)
      /\ res \in [Resources -> ResourceType] /\ lists \in [Kinds -> SUBSET Names]
  BY StageFacts DEF Prune, TypeInv, TypeOK, PrunesItself, Stage
<1>2. lists' = [lists EXCEPT ![k] = Labelled(k)] /\ UNCHANGED mem
  BY DEF Prune
<1>3. res' = [r \in Resources |-> IF r[1] = k /\ r[2] \in Victims(lists')
                                    THEN Deleting(res[r]) ELSE res[r]]
  BY <1>1 DEF Prune
<1>4. Victims(lists') = IF Cardinality(Labelled(k)) > Len(StageList)
                          THEN {n \in Labelled(k) : Nameless(n, names)} ELSE {}
  <2>1. lists'[k] = Labelled(k)
    BY <1>1, <1>2
  <2> QED
    BY <1>1, <2>1 DEF Victims, StageList, Nameless
<1>5. ASSUME NEW n \in Names
      PROVE  /\ <<k, n>> \in Resources
             /\ res'[<<k, n>>] = IF n \in Victims(lists') THEN Deleting(res[<<k, n>>]) ELSE res[<<k, n>>]
  BY <1>1, <1>3 DEF Resources
<1>6. \A n \in Names : n \in Labelled(k)' <=> n \in Labelled(k)
  <2> SUFFICES ASSUME NEW n \in Names PROVE n \in Labelled(k)' <=> n \in Labelled(k)
    OBVIOUS
  <2>1. res[<<k, n>>] \in ResourceType
    BY <1>1, <1>5
  <2>2. res'[<<k, n>>].mine = res[<<k, n>>].mine
        /\ (res'[<<k, n>>].state = "absent" <=> res[<<k, n>>].state = "absent")
    BY <2>1, <1>5 DEF Deleting, ResourceType
  <2> QED
    BY <2>2 DEF Labelled
<1>7. ASSUME names \subseteq Labelled(k), NEW n \in Labelled(k), Nameless(n, names)
      PROVE  res'[<<k, n>>].state = "deleting"
  <2>1. IsFiniteSet(Labelled(k)) /\ Cardinality(Labelled(k)) \in Nat
    <3>1. Labelled(k) \in SUBSET Names
      BY DEF Labelled
    <3>2. IsFiniteSet(Labelled(k))
      BY <3>1, FS_Subset
    <3> QED
      BY <3>2, FS_CardinalityType
  <2>2. Cardinality(names) = Len(StageList) /\ Len(StageList) \in Nat
    BY <1>1, DistinctNames
  <2>3. Cardinality(names) <= Cardinality(Labelled(k)) /\ Cardinality(names) # Cardinality(Labelled(k))
    <3>1. n \notin names
      BY <1>7 DEF Nameless, BareNames
    <3> QED
      BY <1>7, <2>1, <3>1, FS_Subset
  <2>4. n \in Victims(lists') /\ n \in Names /\ res[<<k, n>>].state # "absent"
    BY <1>4, <1>7, <2>1, <2>2, <2>3 DEF Labelled
  <2>5. res[<<k, n>>] \in ResourceType /\ res'[<<k, n>>] = Deleting(res[<<k, n>>])
    BY <1>1, <1>5, <2>4
  <2> QED
    BY <2>4, <2>5 DEF Deleting, ResourceType
<1> QED
  BY <1>6, <1>7 DEF Clean, Labelled, Nameless

(* The copy of a pass names no resource twice. *)
LEMMA CopyDistinct ==
  ASSUME SpecsDistinct, SpecsInv, NEW k \in Kinds
  PROVE  Distinct(mem.spec[k])
<1>1. Gone.spec = [q \in Kinds |-> << >>]
  BY DEF Gone, NewUniverse
<1>2. Distinct(Gone.spec[k])
  BY <1>1 DEF Distinct
<1> QED
  BY <1>2 DEF SpecsInv, SpecsDistinct

(* The kinds whose sections a pass has behind it are clean. *)
PrunedInv ==
  {"list", "delete"} \cap Faults = {} /\ pc \in Walking \ {"creating"} =>
    \A j \in DOMAIN Pipeline :
      LET k == Pipeline[j].kind
      IN j < stage /\ PrunesItself(k) => Clean(k, SpecNames(mem.spec[k]))

(* Every step keeps them clean. *)
LEMMA PrunedStep ==
  ASSUME SpecsDistinct, IsFiniteSet(Names)
  PROVE  TypeInv /\ FreshInv /\ EndOK /\ SpecsInv /\ PrunedInv /\ [Next]_vars => PrunedInv'
<1> SUFFICES ASSUME TypeInv, FreshInv, EndOK, SpecsInv, PrunedInv, [Next]_vars,
                    {"list", "delete"} \cap Faults = {}, pc' \in Walking \ {"creating"},
                    NEW j \in DOMAIN Pipeline, j < stage', PrunesItself(Pipeline[j].kind)
             PROVE  Clean(Pipeline[j].kind, SpecNames(mem.spec[Pipeline[j].kind]))'
  BY DEF PrunedInv
<1>k. PICK k \in Kinds : k = Pipeline[j].kind
  BY DEF Kinds
<1>n. PICK names : names = SpecNames(mem.spec[k])
  OBVIOUS
<1>p. j \in Nat /\ j >= 1 /\ stage \in Nat
  BY PipelineAssumption DEF TypeInv, TypeOK
<1>c. ~CreateResource
  BY DEF CreateResource
<1>1. ASSUME mem'.spec = mem.spec, Clean(k, names)' PROVE Clean(k, SpecNames(mem.spec[k]))'
  <2>1. names = SpecNames(mem'.spec[k])
    BY <1>1, <1>n
  <2> QED
    BY <1>1, <2>1
<1>2. ASSUME mem'.spec = mem.spec, j < stage, pc \in Walking \ {"creating"}
      PROVE  Clean(k, SpecNames(mem.spec[k]))'
  <2>1. Clean(k, names)
    BY <1>2, <1>k, <1>n DEF PrunedInv
  <2>2. Clean(k, names)'
    BY <1>c, <2>1, CleanStep
  <2> QED
    BY <1>1, <1>2, <2>2
<1>3. CASE UNCHANGED <<pc, stage, elem, mem>>
  BY <1>2, <1>3, <1>k
<1>4. CASE stage = 1 /\ UNCHANGED <<stage, elem>>
  BY <1>4, <1>p
<1>5. CASE /\ pc \in ElementSteps \cup {"walk"} /\ pc' \in ElementSteps
           /\ UNCHANGED <<stage, elem>> /\ Agree(mem', mem)
  <2>1. pc \in ElementSteps \ {"creating"} \/ pc = "walk"
    BY <1>5, FoundMoves DEF GetResource, GetFails, FindResource, AtElement
  <2> QED
    BY <1>2, <1>5, <1>k, <2>1 DEF Agree, Walking, ElementSteps
<1>6. CASE ReportRunning /\ pc = "running" /\ stage' = stage /\ Agree(mem', mem)
  BY <1>2, <1>6, <1>k DEF Agree, Walking, ElementSteps
<1>7. CASE Prune /\ pc = "walk" /\ stage' = stage + 1 /\ mem' = mem
  <2>1. CASE j < stage
    BY <1>2, <1>7, <1>k, <2>1 DEF Walking
  <2>2. CASE j = stage
    <3>1. k = Stage.kind /\ PrunesItself(k) /\ names = SpecNames(StageList)
      BY <1>k, <1>n, <2>2 DEF Stage, StageList
    <3>2. Distinct(StageList)
      BY <3>1, CopyDistinct DEF StageList
    <3>3. Clean(k, names)'
      BY <1>7, <3>1, <3>2, PruneCleans
    <3> QED
      BY <1>1, <1>7, <1>k, <3>3
  <2> QED
    BY <1>7, <1>p, <2>1, <2>2
<1>8. CASE pc \in LastSteps /\ stage' = stage /\ mem'.spec = mem.spec
  BY <1>2, <1>8, <1>k DEF Walking, LastSteps
<1> QED
  BY <1>3, <1>4, <1>5, <1>6, <1>7, <1>8, WalkMoves

(* The kinds of a Universe at rest are clean. *)
RestClean ==
  {"list", "delete"} \cap Faults = {} /\ Quiescent =>
    \A k \in Kinds : PrunesItself(k) => Clean(k, SpecNames(api.spec[k]))

(* The controller comes to rest after a pass over the newest spec. *)
LEMMA RestCleanStep ==
  TypeInv /\ FreshInv /\ EndOK /\ PrunedInv /\ RestClean /\ [Next]_vars => RestClean'
<1> SUFFICES ASSUME TypeInv, FreshInv, EndOK, PrunedInv, RestClean, [Next]_vars,
                    {"list", "delete"} \cap Faults = {}, Quiescent',
                    NEW k \in Kinds, PrunesItself(k)
             PROVE  Clean(k, SpecNames(api.spec[k]))'
  BY DEF RestClean
<1>n. PICK names : names = SpecNames(api.spec[k])
  OBVIOUS
<1>1. /\ api' = api
      /\ (Observe /\ memFresh) \/ (Quiescent /\ (CloudStep \/ UNCHANGED res))
  BY RestStep
<1>2. Clean(k, names)
  <2>1. CASE Observe /\ memFresh
    <3>1. stage = Len(Pipeline) + 1 /\ mem.spec = api.spec /\ pc \in Walking \ {"creating"}
      BY <2>1 DEF Observe, EndOK, LastSteps, Walking, FreshInv, FlagsOK, Agree
    <3>2. PICK j \in DOMAIN Pipeline : Pipeline[j].kind = k
      BY DEF Kinds
    <3>3. j < stage
      BY <3>1, PipelineAssumption
    <3> QED
      BY <1>n, <3>1, <3>2, <3>3 DEF PrunedInv
  <2>2. CASE Quiescent
    BY <1>n, <2>2 DEF RestClean
  <2> QED
    BY <1>1, <2>1, <2>2
<1>3. ~CreateResource
  BY DEF CreateResource, Quiescent
<1>4. Clean(k, names)'
  BY <1>2, <1>3, CleanStep
<1>5. names = SpecNames(api'.spec[k])
  BY <1>n, <1>1
<1> QED
  BY <1>4, <1>5

(* Where a section prunes its own kind, by its own list, and the List and  *)
(* Delete calls do not fail, the controller rests only when every resource *)
(* it labelled and the spec does not name, in any namespace, is on its way *)
(* out, provided that every one the spec names is there, and that no spec  *)
(* names a resource twice.                                                 *)
THEOREM SurplusDeleted ==
  ASSUME SpecsDistinct, IsFiniteSet(Names)
  PROVE  Spec => []NoSurplus
<1>1. Init => EndOK /\ PrunedInv /\ RestClean
  BY DEF Init, EndOK, LastSteps, PrunedInv, RestClean, Walking, ElementSteps, Quiescent
<1>2. TypeInv /\ FreshInv /\ EndOK /\ SpecsInv /\ PrunedInv /\ [Next]_vars => PrunedInv'
  BY PrunedStep
<1>3. RestClean => NoSurplus
  BY DEF RestClean, Clean, Nameless, NoSurplus, Dropped, Namesakes, Labelled
<1> QED
  BY <1>1, <1>2, <1>3, TypeInit, TypeStep, FreshInit, FreshStep, EndStep, SpecsInit, SpecsStep,
     RestCleanStep, PTL DEF Spec
=============================================================================
