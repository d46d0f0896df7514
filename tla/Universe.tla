------------------------------ MODULE Universe ------------------------------
(***************************************************************************)
(* The Universe controller (controllers/universe_controller.go) running    *)
(* against the Kubernetes API for one Universe object.                     *)
(*                                                                         *)
(* A pass of Reconcile works on a copy (mem) of the Universe read from an  *)
(* informer cache that lags behind the API server.  It walks the resource  *)
(* kinds in a fixed order, finding, creating, synchronising and pruning    *)
(* Config Connector resources, and only then looks at the finalizer, the   *)
(* TTL and the observed generation.  One step of the model is one call to  *)
(* the API server or to Google Cloud; between two of them users edit and   *)
(* delete the Universe, Config Connector provisions, and the operator may  *)
(* crash.  resourceVersions are abstracted to what a write can tell:       *)
(* whether the copy it starts from is the newest (memFresh, foundFresh).   *)
(***************************************************************************)
EXTENDS Integers, Sequences, FiniteSets

CONSTANTS
  Names,         \* names of resources, each with its namespace
  Blank,         \* the empty name of an object no Get filled in
  NameOf,        \* of each of these, the name alone
  Local,         \* names in the Universe's own namespace
  Vals,          \* values of the mutable part of a resource's spec
  Pipeline,      \* the stages walked, a subsequence of ReconcileOrder
  Specs,         \* specs a user may write: per kind, a list of elements
  Foreign,       \* resources that exist before the Universe, without its label
  Annotations,   \* "repo" and "pr": which annotations the Universe carries
  TTL,           \* the ttl of its spec, in seconds
  Faults,        \* calls that may fail for reasons outside the model
  MaxGeneration, \* no spec edit beyond this generation
  MaxCrashes     \* no more crashes than this

-----------------------------------------------------------------------------
(* The stages of Reconcile.  kind: the section's resource kind.            *)
(* waits: whether it polls Google Cloud before or after synchronising, and *)
(* polls/pollsAs: which kind and which name it asks for.  announces: the   *)
(* kind under which "Reconciling" is reported ("none" when it is not), and *)
(* announcesAs/healthyAs: under the element's or the found object's name.  *)
(* removes: the listing the pruning loop ranges over; keeps: the spec list *)
(* it compares with.                                                       *)

IAMServiceAccount ==
  [kind |-> "IAMServiceAccount", waits |-> "never",
   polls |-> "IAMServiceAccount", pollsAs |-> "found",
   announces |-> "IAMServiceAccount", announcesAs |-> "spec", healthyAs |-> "spec",
   removes |-> "IAMServiceAccount", keeps |-> "IAMServiceAccount"]

ComputeNetwork ==
  [kind |-> "ComputeNetwork", waits |-> "before",
   polls |-> "ComputeNetwork", pollsAs |-> "spec",
   announces |-> "none", announcesAs |-> "spec", healthyAs |-> "found",
   removes |-> "ComputeNetwork", keeps |-> "ComputeNetwork"]

(* The loop over nwList, the networks, is the code's. *)
ComputeSubNetwork ==
  [kind |-> "ComputeSubNetwork", waits |-> "before",
   polls |-> "ComputeSubNetwork", pollsAs |-> "found",
   announces |-> "none", announcesAs |-> "spec", healthyAs |-> "found",
   removes |-> "ComputeNetwork", keeps |-> "ComputeSubNetwork"]

ContainerCluster ==
  [kind |-> "ContainerCluster", waits |-> "after",
   polls |-> "ContainerCluster", pollsAs |-> "found",
   announces |-> "ContainerCluster", announcesAs |-> "spec", healthyAs |-> "found",
   removes |-> "ContainerCluster", keeps |-> "ContainerCluster"]

ContainerNodePool ==
  [kind |-> "ContainerNodePool", waits |-> "after",
   polls |-> "ContainerNodePool", pollsAs |-> "found",
   announces |-> "ContainerNodePool", announcesAs |-> "spec", healthyAs |-> "found",
   removes |-> "ContainerNodePool", keeps |-> "ContainerNodePool"]

SQLInstance ==
  [kind |-> "SQLInstance", waits |-> "after",
   polls |-> "SQLInstance", pollsAs |-> "found",
   announces |-> "SQLInstance", announcesAs |-> "found", healthyAs |-> "found",
   removes |-> "SQLInstance", keeps |-> "SQLInstance"]

(* The loop over sList, the SQL instances, is the code's. *)
SQLDatabase ==
  [kind |-> "SQLDatabase", waits |-> "after",
   polls |-> "SQLDatabase", pollsAs |-> "found",
   announces |-> "SQLDatabase", announcesAs |-> "spec", healthyAs |-> "found",
   removes |-> "SQLInstance", keeps |-> "SQLDatabase"]

(* The loop over sList, the SQL instances, is the code's. *)
ComputeRouter ==
  [kind |-> "ComputeRouter", waits |-> "after",
   polls |-> "ComputeRouter", pollsAs |-> "found",
   announces |-> "ComputeRouter", announcesAs |-> "found", healthyAs |-> "found",
   removes |-> "SQLInstance", keeps |-> "ComputeRouter"]

(* The router in polls, announces and keeps is the code's. *)
ComputeRouterNAT ==
  [kind |-> "ComputeRouterNAT", waits |-> "after",
   polls |-> "ComputeRouter", pollsAs |-> "found",
   announces |-> "ComputeRouter", announcesAs |-> "found", healthyAs |-> "found",
   removes |-> "ComputeRouterNAT", keeps |-> "ComputeRouter"]

StorageBucket ==
  [kind |-> "StorageBucket", waits |-> "after",
   polls |-> "StorageBucket", pollsAs |-> "found",
   announces |-> "StorageBucket", announcesAs |-> "found", healthyAs |-> "found",
   removes |-> "StorageBucket", keeps |-> "StorageBucket"]

(* The order in which Reconcile visits the kinds. *)
ReconcileOrder ==
  <<IAMServiceAccount, ComputeNetwork, ComputeSubNetwork, ContainerCluster,
    ContainerNodePool, SQLInstance, SQLDatabase, ComputeRouter,
    ComputeRouterNAT, StorageBucket>>

StageType ==
  [kind : STRING, waits : {"never", "before", "after"},
   polls : STRING, pollsAs : {"spec", "found"},
   announces : STRING, announcesAs : {"spec", "found"}, healthyAs : {"spec", "found"},
   removes : STRING, keeps : STRING]

Kinds == {Pipeline[i].kind : i \in DOMAIN Pipeline}
Resources == Kinds \X Names
StatusKeys == Kinds \X {NameOf[n] : n \in Names \cup {Blank}}
Elements == [name : Names, val : Vals]

ASSUME NamesAssumption == Names # {} /\ Blank \notin Names /\ Local \subseteq Names
ASSUME NameOfAssumption ==
  /\ DOMAIN NameOf = Names \cup {Blank}
  /\ NameOf[Blank] = Blank
  /\ \A n \in Names : NameOf[n] # Blank
  /\ \A m, n \in Local : NameOf[m] = NameOf[n] => m = n
ASSUME ValsAssumption == Vals # {}
ASSUME PipelineAssumption ==
  /\ Pipeline \in Seq(StageType)
  /\ Len(Pipeline) >= 1
  /\ \A i \in DOMAIN Pipeline :
       /\ Pipeline[i].polls \in Kinds
       /\ Pipeline[i].announces \in Kinds \cup {"none"}
       /\ Pipeline[i].removes \in Kinds
       /\ Pipeline[i].keeps \in Kinds
ASSUME OrderAssumption ==
  Pipeline = SelectSeq(ReconcileOrder, LAMBDA d : d.kind \in Kinds)
ASSUME SpecsAssumption == Specs # {} /\ Specs \subseteq [Kinds -> Seq(Elements)]
ASSUME ForeignAssumption == Foreign \subseteq Resources
ASSUME AnnotationsAssumption == Annotations \subseteq {"repo", "pr"}
ASSUME TTLAssumption == TTL \in Int
ASSUME FaultsAssumption ==
  Faults \subseteq {"get", "create", "update", "wait", "list", "delete",
                    "status", "finalizer"}
ASSUME BoundsAssumption == MaxGeneration \in Nat \ {0} /\ MaxCrashes \in Nat

-----------------------------------------------------------------------------
VARIABLES
  api,        \* the Universe in the API server
  cache,      \* the Universe in the operator's informer cache
  cacheFresh, \* cache is api's newest version
  queued,     \* the workqueue holds (or marks dirty) the Universe's key
  mem,        \* the copy the running pass works on
  memFresh,   \* mem carries api's newest resourceVersion
  pc,         \* the call the pass makes next
  stage,      \* the stage of Pipeline the pass is in
  elem,       \* the element of the stage's spec list the pass is at
  found,      \* name of the object the last Get filled in
  foundFresh, \* that object is still the newest version
  lists,      \* the listings taken in this pass, by kind
  res,        \* the Config Connector resources
  crashes,    \* crashes so far
  walked,     \* history: resources a Get of this pass returned
  missed      \* history: resources found with another spec value and not updated

universeVars == <<api, cache, cacheFresh>>
passVars == <<pc, stage, elem, found, foundFresh, lists, walked>>
vars == <<api, cache, cacheFresh, queued, mem, memFresh, pc, stage, elem, found,
          foundFresh, lists, res, crashes, walked, missed>>

Progress == {"none", "Creating", "Reconciling", "Healthy"}
UniverseType ==
  [exists : BOOLEAN, gen : Nat, obs : Nat, spec : [Kinds -> Seq(Elements)],
   status : [StatusKeys -> Progress], repo : BOOLEAN, pr : BOOLEAN,
   del : BOOLEAN, fin : BOOLEAN]
ResourceType ==
  [state : {"absent", "created", "running", "deleting"}, val : Vals, mine : BOOLEAN]
Steps == {"idle", "repo", "refetch", "pr", "walk", "creating", "reconciling",
          "update", "wait", "running", "clusters", "finalize", "adopt", "ttl",
          "observe"}

(* A fresh Universe as a user or the Trigger controller creates it. *)
NewUniverse(s) ==
  [exists |-> TRUE, gen |-> 1, obs |-> 0, spec |-> s,
   status |-> [k \in StatusKeys |-> "none"], repo |-> FALSE, pr |-> FALSE,
   del |-> FALSE, fin |-> FALSE]

(* No Universe: what a Get that answers NotFound stands for. *)
Gone == [NewUniverse([k \in Kinds |-> << >>]) EXCEPT !.exists = FALSE, !.gen = 0]

Absent == [state |-> "absent", val |-> CHOOSE v \in Vals : TRUE, mine |-> FALSE]
NoLists == [k \in Kinds |-> {}]

SpecNames(list) == {list[i].name : i \in DOMAIN list}
BareNames(names) == {NameOf[n] : n \in names}
Listed(u) == {r \in Resources : r[2] \in SpecNames(u.spec[r[1]])}

Stage == Pipeline[stage]
StageList == mem.spec[Stage.kind]
Element == StageList[elem]
Resource == <<Stage.kind, Element.name>>

(* The resource that entry of the status is about: namesakes in two        *)
(* namespaces share theirs.                                                *)
Entry(kind, name) == <<kind, NameOf[name]>>

(* How a call that would be answered by ok may end. *)
Outcomes(ok, fault) == {ok} \cup (IF fault \in Faults THEN {FALSE} ELSE {})

-----------------------------------------------------------------------------
(* Writing the Universe.                                                   *)

\* Mutant: a status write that does not look at the version it starts from.
PersistBlindly(m) ==
  \E accepted \in Outcomes(api.exists, "status") :
    /\ api' = IF accepted
                THEN [api EXCEPT !.obs = m.obs, !.status = m.status,
                                 !.repo = m.repo, !.pr = m.pr]
                ELSE api
    /\ cacheFresh' = (cacheFresh /\ api' = api)
    /\ UNCHANGED cache

(* Status().Update of m: the API server takes the status part, and only    *)
(* from a copy of its newest version; a write that changes nothing makes   *)
(* no new version.  Every caller in Reconcile drops the error.             *)
Persist(m) ==
  \E accepted \in Outcomes(memFresh, "status") :
    /\ api' = IF accepted
                THEN [api EXCEPT !.obs = m.obs, !.status = m.status,
                                 !.repo = m.repo, !.pr = m.pr]
                ELSE api
    /\ cacheFresh' = (cacheFresh /\ api' = api)
    /\ UNCHANGED cache

\* Mutant: a second entry is appended instead of replacing the first.
updateStatusAppends(m, kind, name, progress) ==
  [m EXCEPT !.status[Entry(kind, name)] = IF @ = "none" THEN progress ELSE <<@, progress>>]

\* Mutant: an entry that exists already is not replaced.
updateStatusOnce(m, kind, name, progress) ==
  [m EXCEPT !.status[Entry(kind, name)] = IF @ = "none" THEN progress ELSE @]

(* The entry of a kind and name is replaced or appended. *)
updateStatus(m, kind, name, progress) ==
  [m EXCEPT !.status[Entry(kind, name)] = progress]

(* DELETE of the Universe: marked while it has a finalizer, gone otherwise. *)
MarkDeleted(u) ==
  IF u.del THEN u
  ELSE IF u.fin THEN [u EXCEPT !.del = TRUE, !.gen = u.gen + 1]
  ELSE Gone

ForgetPass ==
  /\ pc' = "idle" /\ stage' = 1 /\ elem' = 1
  /\ found' = Blank /\ foundFresh' = FALSE
  /\ lists' = NoLists /\ walked' = {}
  /\ mem' = Gone /\ memFresh' = FALSE

(* Reconcile returns; an error or Requeue puts the key back. *)
EndPass(requeue) ==
  /\ ForgetPass
  /\ queued' = (queued \/ requeue)

-----------------------------------------------------------------------------
(* The beginning of a pass.                                                *)

(* A worker takes the key and reads the Universe from the cache. *)
BeginPass ==
  /\ pc = "idle" /\ queued /\ cache.exists
  /\ queued' = FALSE
  /\ mem' = cache /\ memFresh' = cacheFresh
  /\ pc' = "repo"
  /\ UNCHANGED <<universeVars, stage, elem, found, foundFresh, lists, walked,
                 res, crashes, missed>>

(* The Universe is not in the cache: the request is dropped. *)
DropRequest ==
  /\ pc = "idle" /\ queued /\ ~cache.exists
  /\ queued' = FALSE
  /\ UNCHANGED <<universeVars, mem, memFresh, passVars, res, crashes, missed>>

(* The repo annotation is copied to the status. *)
RecordRepo ==
  /\ pc = "repo"
  /\ IF "repo" \in Annotations
       THEN /\ mem' = [mem EXCEPT !.repo = TRUE]
            /\ Persist(mem')
       ELSE UNCHANGED <<universeVars, mem>>
  /\ pc' = IF "pr" \in Annotations THEN "refetch" ELSE "walk"
  /\ UNCHANGED <<queued, memFresh, stage, elem, found, foundFresh, lists, walked,
                 res, crashes, missed>>

(* Before it records the pr annotation the pass reads the Universe again,  *)
(* from the same cache; an error leaves the copy as it is.                 *)
Refetch ==
  /\ pc = "refetch"
  /\ IF cache.exists THEN mem' = cache /\ memFresh' = cacheFresh
                     ELSE UNCHANGED <<mem, memFresh>>
  /\ pc' = "pr"
  /\ UNCHANGED <<universeVars, queued, stage, elem, found, foundFresh, lists,
                 walked, res, crashes, missed>>

RecordPR ==
  /\ pc = "pr"
  /\ mem' = [mem EXCEPT !.pr = TRUE]
  /\ Persist(mem')
  /\ pc' = "walk"
  /\ UNCHANGED <<queued, memFresh, stage, elem, found, foundFresh, lists, walked,
                 res, crashes, missed>>

-----------------------------------------------------------------------------
(* One element of one stage.                                               *)

AtElement == pc = "walk" /\ stage <= Len(Pipeline) /\ elem <= Len(StageList)

\* Mutant: off by one in the comparison of the generations.
NeedsSyncLate == mem.obs + 1 < mem.gen /\ mem.obs >= 1

(* Synchronise only when the spec moved since an observed generation. *)
NeedsSync == mem.obs < mem.gen /\ mem.obs >= 1

SyncedStep == IF Stage.waits = "after" THEN "wait" ELSE "running"
SyncStep ==
  IF ~NeedsSync THEN SyncedStep
  ELSE IF Stage.announces = "none" THEN "update" ELSE "reconciling"
FoundStep == IF Stage.waits = "before" THEN "wait" ELSE SyncStep
WaitedStep == IF Stage.waits = "before" THEN SyncStep ELSE "running"

(* The Get answers anything but NotFound: the object, or, on any other     *)
(* error, a blank one that is treated in the same way.                     *)
FindResource(got) ==
  /\ AtElement
  /\ got => res[Resource].state # "absent"
  /\ found' = IF got THEN Element.name ELSE Blank
  /\ foundFresh' = got
  /\ walked' = IF got THEN walked \cup {Resource} ELSE walked
  /\ missed' = IF mem.obs = 0 /\ res[Resource].val # Element.val
                 THEN missed \cup {Resource} ELSE missed
  /\ pc' = FoundStep
  /\ UNCHANGED <<universeVars, queued, mem, memFresh, stage, elem, lists, res, crashes>>

GetResource == FindResource(TRUE)
GetFails == "get" \in Faults /\ FindResource(FALSE)

(* NotFound: the resource is created with the Universe's label. *)
CreateResource ==
  /\ AtElement
  /\ res[Resource].state = "absent"
  /\ res' = [res EXCEPT ![Resource] = [state |-> "created", val |-> Element.val,
                                       mine |-> TRUE]]
  /\ missed' = missed \ {Resource}
  /\ pc' = "creating"
  /\ UNCHANGED <<universeVars, queued, mem, memFresh, stage, elem, found, foundFresh,
                 lists, crashes, walked>>

(* NotFound and a Create that fails, because the API server refuses it or  *)
(* because the object is there after all and the cache had not seen it.    *)
CreateFails ==
  /\ AtElement
  /\ "create" \in Faults
  /\ EndPass(TRUE)
  /\ UNCHANGED <<universeVars, res, crashes, missed>>

\* Mutant: after a Create the pass goes on to the next element.
ReportCreatingGoesOn ==
  /\ pc = "creating"
  /\ mem' = updateStatus(mem, Stage.kind, Element.name, "Creating")
  /\ Persist(mem')
  /\ pc' = "walk" /\ elem' = elem + 1
  /\ UNCHANGED <<queued, memFresh, stage, found, foundFresh, lists, walked, res,
                 crashes, missed>>

(* After a Create the pass reports it and ends with a requeue. *)
ReportCreating ==
  /\ pc = "creating"
  /\ Persist(updateStatus(mem, Stage.kind, Element.name, "Creating"))
  /\ EndPass(TRUE)
  /\ UNCHANGED <<res, crashes, missed>>

ReportReconciling ==
  /\ pc = "reconciling"
  /\ mem' = updateStatus(mem, Stage.announces,
                         IF Stage.announcesAs = "spec" THEN Element.name ELSE found,
                         "Reconciling")
  /\ Persist(mem')
  /\ pc' = "update"
  /\ UNCHANGED <<queued, memFresh, stage, elem, found, foundFresh, lists, walked,
                 res, crashes, missed>>

(* Update of the found object: refused when it changed since the Get (or   *)
(* is blank), and the refusal is only logged.                              *)
UpdateResource(accepted) ==
  /\ pc = "update"
  /\ accepted \in Outcomes(foundFresh, "update")
  /\ IF accepted
       THEN /\ res' = [res EXCEPT ![Resource].val = Element.val]
            /\ missed' = missed \ {Resource}
       ELSE /\ missed' = IF res[Resource].val # Element.val
                           THEN missed \cup {Resource} ELSE missed
            /\ UNCHANGED res
  /\ pc' = IF Stage.waits = "after" THEN "wait" ELSE "running"
  /\ UNCHANGED <<universeVars, queued, mem, memFresh, stage, elem, found, foundFresh,
                 lists, crashes, walked>>

\* Mutant: polling gives up at its first look.
WaitReturnsAtOnce ==
  /\ pc = "wait"
  /\ pc' = WaitedStep
  /\ UNCHANGED <<universeVars, queued, mem, memFresh, stage, elem, found, foundFresh,
                 lists, res, crashes, walked, missed>>

(* Whether Google Cloud answers that a resource is still being created.    *)
(* It is asked within the namespace's project, but for buckets, whose      *)
(* names are global: any namesake's will do.                               *)
StillCreated(kind, name) ==
  /\ res[<<kind, name>>].state = "created"
  /\ kind = "StorageBucket" =>
       \A n \in Names : NameOf[n] = NameOf[name] =>
         res[<<kind, n>>].state \in {"absent", "created"}

(* Polling ends when the resource runs, on an error, or at the deadline;   *)
(* none of them changes what follows.  Without the "wait" fault a resource *)
(* being provisioned is ready before the deadline.                         *)
WaitReturns ==
  /\ pc = "wait"
  /\ LET name == IF Stage.pollsAs = "spec" THEN Element.name ELSE found
     IN name # Blank /\ "wait" \notin Faults => ~StillCreated(Stage.polls, name)
  /\ pc' = WaitedStep
  /\ UNCHANGED <<universeVars, queued, mem, memFresh, stage, elem, found, foundFresh,
                 lists, res, crashes, walked, missed>>

ReportRunning ==
  /\ pc = "running"
  /\ mem' = updateStatus(mem, Stage.kind,
                         IF Stage.healthyAs = "spec" THEN Element.name ELSE found,
                         "Healthy")
  /\ Persist(mem')
  /\ pc' = "walk" /\ elem' = elem + 1
  /\ found' = Blank /\ foundFresh' = FALSE
  /\ UNCHANGED <<queued, memFresh, stage, lists, walked, res, crashes, missed>>

-----------------------------------------------------------------------------
(* The end of a stage: "Delete or scale to zero".                          *)

\* Mutant: the listing forgets the label selector.
LabelledOrNot(kind) == {n \in Names : res[<<kind, n>>].state # "absent"}

Labelled(kind) == {n \in Names : LET r == res[<<kind, n>>]
                                 IN r.state # "absent" /\ r.mine}

\* Mutant: off by one in the comparison of the lengths.
VictimsLate(ls) ==
  IF Cardinality(ls[Stage.kind]) > Len(StageList) + 1
    THEN {n \in ls[Stage.removes] :
            NameOf[n] \notin BareNames(SpecNames(mem.spec[Stage.keeps]))}
    ELSE {}

(* What the pruning loop deletes, given the listings of the pass, which    *)
(* are of all namespaces: it goes by the name alone, so a resource whose   *)
(* namesake the spec lists in another namespace is kept.                   *)
Victims(ls) ==
  IF Cardinality(ls[Stage.kind]) > Len(StageList)
    THEN {n \in ls[Stage.removes] :
            NameOf[n] \notin BareNames(SpecNames(mem.spec[Stage.keeps]))}
    ELSE {}

Deleting(r) == IF r.state = "absent" THEN r ELSE [r EXCEPT !.state = "deleting"]

(* List by label, then delete what the loop picks; a failed List is an     *)
(* empty one, a failed Delete is not noticed.                              *)
Prune ==
  /\ pc = "walk" /\ stage <= Len(Pipeline) /\ elem > Len(StageList)
  /\ \E listed \in {Labelled(Stage.kind)} \cup (IF "list" \in Faults THEN {{}} ELSE {}) :
       /\ lists' = [lists EXCEPT ![Stage.kind] = listed]
       /\ \E gone \in (IF "delete" \in Faults THEN SUBSET Victims(lists')
                                              ELSE {Victims(lists')}) :
            res' = [r \in Resources |->
                      IF r[1] = Stage.removes /\ r[2] \in gone
                        THEN Deleting(res[r]) ELSE res[r]]
  /\ stage' = stage + 1 /\ elem' = 1
  /\ pc' = IF stage = Len(Pipeline) THEN "clusters" ELSE "walk"
  /\ UNCHANGED <<universeVars, queued, mem, memFresh, found, foundFresh, crashes,
                 walked, missed>>

(* The List and the Deletes of this Prune are answered. *)
Answered ==
  /\ lists'[Stage.kind] = Labelled(Stage.kind)
  /\ \A n \in Victims(lists') : res'[<<Stage.removes, n>>].state \in {"absent", "deleting"}

-----------------------------------------------------------------------------
(* After the stages: backup and restore, deletion, finalizer, TTL.         *)

Clusters == IF "ContainerCluster" \in Kinds THEN mem.spec["ContainerCluster"] ELSE << >>

(* Every listed cluster must still be there for its backup and restore,    *)
(* which touch neither the Universe nor its resources.                     *)
PreviewCluster ==
  /\ pc = "clusters" /\ elem <= Len(Clusters)
  /\ res[<<"ContainerCluster", Clusters[elem].name>>].state # "absent"
  /\ elem' = elem + 1
  /\ UNCHANGED <<universeVars, queued, mem, memFresh, pc, stage, found, foundFresh,
                 lists, res, crashes, walked, missed>>

PreviewClusterMissing ==
  /\ pc = "clusters" /\ elem <= Len(Clusters)
  /\ \/ res[<<"ContainerCluster", Clusters[elem].name>>].state = "absent"
     \/ "get" \in Faults
  /\ EndPass(TRUE)
  /\ UNCHANGED <<universeVars, res, crashes, missed>>

\* Mutant: the deletion timestamp is not looked at.
CheckDeletionSkipped ==
  /\ pc = "clusters" /\ elem > Len(Clusters)
  /\ pc' = "adopt"
  /\ UNCHANGED <<universeVars, queued, mem, memFresh, stage, elem, found, foundFresh,
                 lists, res, crashes, walked, missed>>

CheckDeletion ==
  /\ pc = "clusters" /\ elem > Len(Clusters)
  /\ pc' = IF mem.del THEN "finalize" ELSE "adopt"
  /\ UNCHANGED <<universeVars, queued, mem, memFresh, stage, elem, found, foundFresh,
                 lists, res, crashes, walked, missed>>

\* Mutant: the finalizer stays until the resources are gone, which are owned
\* by the Universe and go only after it.
FinalizeLast ==
  /\ pc = "finalize"
  /\ \E accepted \in Outcomes(memFresh /\ \A r \in Resources : ~res[r].mine, "finalizer") :
       /\ api' = IF mem.fin /\ accepted THEN Gone ELSE api
       /\ cacheFresh' = (cacheFresh /\ api' = api)
       /\ EndPass(mem.fin /\ ~accepted)
  /\ UNCHANGED <<cache, res, crashes, missed>>

(* The Universe is being deleted: remove the finalizer, the last thing     *)
(* that holds it.  A refused Update is retried.                            *)
Finalize ==
  /\ pc = "finalize"
  /\ \E accepted \in Outcomes(memFresh, "finalizer") :
       /\ api' = IF mem.fin /\ accepted THEN Gone ELSE api
       /\ cacheFresh' = (cacheFresh /\ api' = api)
       /\ EndPass(mem.fin /\ ~accepted)
  /\ UNCHANGED <<cache, res, crashes, missed>>

\* Mutant: a refused Update is only logged and the pass ends without a retry.
AddFinalizerOnce ==
  /\ pc = "adopt" /\ ~mem.fin
  /\ \E accepted \in Outcomes(memFresh, "finalizer") :
       IF accepted
         THEN /\ api' = [api EXCEPT !.fin = TRUE]
              /\ mem' = api'
              /\ cacheFresh' = FALSE
              /\ pc' = "ttl"
              /\ UNCHANGED <<cache, queued, memFresh, stage, elem, found, foundFresh,
                             lists, walked>>
         ELSE EndPass(FALSE) /\ UNCHANGED universeVars
  /\ UNCHANGED <<res, crashes, missed>>

(* The Universe carries its finalizer, from before or from now on; the     *)
(* Update that adds it brings mem up to date, and ends the pass if refused. *)
AddFinalizer ==
  /\ pc = "adopt" /\ ~mem.fin
  /\ \E accepted \in Outcomes(memFresh, "finalizer") :
       IF accepted
         THEN /\ api' = [api EXCEPT !.fin = TRUE]
              /\ mem' = api'
              /\ cacheFresh' = FALSE
              /\ pc' = "ttl"
              /\ UNCHANGED <<cache, queued, memFresh, stage, elem, found, foundFresh,
                             lists, walked>>
         ELSE EndPass(TRUE) /\ UNCHANGED universeVars
  /\ UNCHANGED <<res, crashes, missed>>

HasFinalizer ==
  /\ pc = "adopt" /\ mem.fin
  /\ pc' = "ttl"
  /\ UNCHANGED <<universeVars, queued, mem, memFresh, stage, elem, found, foundFresh,
                 lists, res, crashes, walked, missed>>

(* The TTL is added to the second of the minute in which the Universe was  *)
(* created, and compared with the second of the current minute.            *)
TTLReached(created, now) == created + TTL < now
Seconds == 0 .. 59

(* What the clock, which is not modelled, may make of the comparison. *)
MayExpire == {t \in Seconds \X Seconds : TTLReached(t[1], t[2])} # {}
MayLive == {t \in Seconds \X Seconds : ~TTLReached(t[1], t[2])} # {}

(* The TTL is not over. *)
NotExpired ==
  /\ pc = "ttl"
  /\ MayLive
  /\ pc' = "observe"
  /\ UNCHANGED <<universeVars, queued, mem, memFresh, stage, elem, found, foundFresh,
                 lists, res, crashes, walked, missed>>

(* It is over: the Universe is deleted, and the pass goes on. *)
Expire ==
  /\ pc = "ttl"
  /\ MayExpire
  /\ \E accepted \in Outcomes(api.exists, "delete") :
       IF accepted
         THEN /\ api' = MarkDeleted(api)
              /\ cacheFresh' = (cacheFresh /\ api' = api)
              /\ memFresh' = (memFresh /\ api' = api)
              /\ pc' = "observe"
              /\ UNCHANGED <<cache, queued, mem, stage, elem, found, foundFresh,
                             lists, walked>>
         ELSE EndPass(TRUE) /\ UNCHANGED universeVars
  /\ UNCHANGED <<res, crashes, missed>>

(* The last write of a pass: the generation it worked on is the observed one. *)
Observe ==
  /\ pc = "observe"
  /\ Persist([mem EXCEPT !.obs = mem.gen])
  /\ EndPass(FALSE)
  /\ UNCHANGED <<res, crashes, missed>>

-----------------------------------------------------------------------------
(* The operator's surroundings.                                            *)

(* A user changes the spec. *)
Edit ==
  /\ api.exists /\ api.gen < MaxGeneration
  /\ \E s \in Specs \ {api.spec} :
       api' = [api EXCEPT !.spec = s, !.gen = api.gen + 1]
  /\ cacheFresh' = FALSE /\ memFresh' = FALSE
  /\ UNCHANGED <<cache, queued, mem, passVars, res, crashes, missed>>

(* A user, or the Trigger controller, deletes the Universe. *)
DeleteUniverse ==
  /\ api.exists /\ ~api.del
  /\ api' = MarkDeleted(api)
  /\ cacheFresh' = FALSE /\ memFresh' = FALSE
  /\ UNCHANGED <<cache, queued, mem, passVars, res, crashes, missed>>

\* Mutant: a predicate lets only new generations through to the queue.
WatchDeliverGenerations ==
  /\ ~cacheFresh
  /\ cache' = api /\ cacheFresh' = TRUE
  /\ queued' = (queued \/ api.gen # cache.gen)
  /\ UNCHANGED <<api, mem, memFresh, passVars, res, crashes, missed>>

(* The informer catches up and its handler queues the key. *)
WatchDeliver ==
  /\ ~cacheFresh
  /\ cache' = api /\ cacheFresh' = TRUE /\ queued' = TRUE
  /\ UNCHANGED <<api, mem, memFresh, passVars, res, crashes, missed>>

\* Mutant: a resync of a Universe whose generation is observed is ignored.
ResyncUnobserved ==
  /\ cache.exists /\ ~queued /\ cache.obs # cache.gen
  /\ queued' = TRUE
  /\ UNCHANGED <<universeVars, mem, memFresh, passVars, res, crashes, missed>>

(* The informer's periodic resync queues every object of the cache. *)
Resync ==
  /\ cache.exists /\ ~queued
  /\ queued' = TRUE
  /\ UNCHANGED <<universeVars, mem, memFresh, passVars, res, crashes, missed>>

(* The operator dies (a panic among others) and comes back: the pass is    *)
(* lost, the new informer lists the API server and queues what it finds.   *)
CrashRestart ==
  /\ crashes < MaxCrashes
  /\ crashes' = crashes + 1
  /\ ForgetPass
  /\ cache' = api /\ cacheFresh' = TRUE /\ queued' = api.exists
  /\ UNCHANGED <<api, res, missed>>

(* A resource that changes under the pass makes what its Get returned old. *)
Touch(r) ==
  foundFresh' = (foundFresh /\ ~(stage <= Len(Pipeline) /\ r = <<Stage.kind, found>>))

(* Config Connector finishes creating, or removing, a resource. *)
Provision(r) ==
  /\ res[r].state = "created"
  /\ res' = [res EXCEPT ![r].state = "running"]
  /\ Touch(r)
  /\ UNCHANGED <<universeVars, queued, mem, memFresh, pc, stage, elem, found, lists,
                 crashes, walked, missed>>

Deprovision(r) ==
  /\ res[r].state = "deleting"
  /\ res' = [res EXCEPT ![r] = Absent]
  /\ Touch(r)
  /\ UNCHANGED <<universeVars, queued, mem, memFresh, pc, stage, elem, found, lists,
                 crashes, walked, missed>>

\* Mutant: no owner reference is set.
OwnedByNobody(r) == FALSE

(* SetControllerReference fails across namespaces and nobody looks: only   *)
(* resources of the Universe's own namespace have it as their owner.       *)
Owned(r) == res[r].mine /\ r[2] \in Local

(* Kubernetes deletes what a Universe that is gone owned. *)
CollectGarbage(r) ==
  /\ ~api.exists
  /\ Owned(r) /\ res[r].state \in {"created", "running"}
  /\ res' = [res EXCEPT ![r].state = "deleting"]
  /\ Touch(r)
  /\ UNCHANGED <<universeVars, queued, mem, memFresh, pc, stage, elem, found, lists,
                 crashes, walked, missed>>

-----------------------------------------------------------------------------
Init ==
  /\ \E s \in Specs : api = NewUniverse(s)
  /\ cache = Gone /\ cacheFresh = FALSE /\ queued = FALSE
  /\ mem = Gone /\ memFresh = FALSE
  /\ pc = "idle" /\ stage = 1 /\ elem = 1
  /\ found = Blank /\ foundFresh = FALSE
  /\ lists = NoLists
  /\ \E vals \in [Foreign -> Vals] :
       res = [r \in Resources |->
                IF r \in Foreign
                  THEN [state |-> "running", val |-> vals[r], mine |-> FALSE]
                  ELSE Absent]
  /\ crashes = 0 /\ walked = {} /\ missed = {}

ReconcileStep ==
  \/ BeginPass \/ DropRequest \/ RecordRepo \/ Refetch \/ RecordPR
  \/ GetResource \/ GetFails \/ CreateResource \/ CreateFails \/ ReportCreating
  \/ ReportReconciling \/ \E accepted \in BOOLEAN : UpdateResource(accepted)
  \/ WaitReturns \/ ReportRunning \/ Prune
  \/ PreviewCluster \/ PreviewClusterMissing \/ CheckDeletion
  \/ Finalize \/ AddFinalizer \/ HasFinalizer \/ NotExpired \/ Expire \/ Observe

CloudStep == \E r \in Resources : Provision(r) \/ Deprovision(r) \/ CollectGarbage(r)

Next ==
  \/ ReconcileStep
  \/ CloudStep
  \/ Edit \/ DeleteUniverse \/ WatchDeliver \/ Resync \/ CrashRestart

Spec == Init /\ [][Next]_vars

(* What the surroundings guarantee: workers keep working (polling ends at  *)
(* its deadline), watches are delivered, informers resync, Config          *)
(* Connector and the garbage collector do their work, and a call that is   *)
(* tried again and again is answered some time.  Nobody has to edit or to  *)
(* delete, and nothing has to crash or to expire.                          *)
Fairness ==
  /\ WF_vars(ReconcileStep)
  /\ WF_vars(WatchDeliver)
  /\ WF_vars(Resync)
  /\ \A r \in Resources :
       WF_vars(Provision(r)) /\ WF_vars(Deprovision(r)) /\ WF_vars(CollectGarbage(r))
  /\ SF_vars(GetResource) /\ SF_vars(CreateResource)
  /\ SF_vars(Finalize /\ ~api'.exists)
  /\ SF_vars(AddFinalizer /\ api'.fin)
  /\ SF_vars(Observe /\ api'.obs = mem.gen)

LiveSpec == Spec /\ Fairness

(* With listings and Deletes that are answered again and again.            *)
PruneSpec == LiveSpec /\ SF_vars(Prune /\ Answered)

(* With a clock that finds the TTL over again and again, where it can. *)
TTLSpec == LiveSpec /\ SF_vars(Expire)

-----------------------------------------------------------------------------
(* Properties.                                                             *)

(* The values every variable ranges over (no variable is set to anything   *)
(* Reconcile could not hold at that point).                                *)
TypeOK ==
  /\ api \in UniverseType /\ cache \in UniverseType /\ mem \in UniverseType
  /\ cacheFresh \in BOOLEAN /\ queued \in BOOLEAN /\ memFresh \in BOOLEAN
  /\ pc \in Steps
  /\ stage \in 1 .. Len(Pipeline) + 1 /\ elem \in Nat \ {0}
  /\ found \in Names \cup {Blank} /\ foundFresh \in BOOLEAN
  /\ lists \in [Kinds -> SUBSET Names]
  /\ res \in [Resources -> ResourceType]
  /\ crashes \in 0 .. MaxCrashes
  /\ walked \subseteq Resources /\ missed \subseteq Resources

(* No worker is on the Universe and none will be until something happens   *)
(* to it or the informer resyncs.                                          *)
Quiescent == pc = "idle" /\ ~queued /\ cacheFresh /\ api.exists

(* No wake-up is lost.  Reconcile drops the errors of all its status       *)
(* writes, the last one included, and then returns without a requeue; still *)
(* the controller rests only on a Universe whose newest generation is      *)
(* observed, that carries its finalizer and is not being deleted: whatever *)
(* made a write conflict is a change the informer has yet to deliver.      *)
QuiescentObserved ==
  "status" \notin Faults /\ Quiescent =>
    api.obs = api.gen /\ api.fin /\ ~api.del

(* When the controller rests, every resource the spec lists is reported    *)
(* Healthy, although each report's error was dropped on the way.           *)
QuiescentHealthy ==
  {"status", "get"} \cap Faults = {} /\ Quiescent =>
    \A r \in Listed(api) : api.status[Entry(r[1], r[2])] = "Healthy"

(* The observed generation is advanced only by a pass in which a Get       *)
(* returned every resource the spec of that generation lists.              *)
ObservedAfterWalk ==
  [][api'.obs # api.obs /\ api'.exists /\ "get" \notin Faults
       => Listed(api') \subseteq walked]_vars

(* A pass working on an old copy never takes the observed generation back, *)
(* nor puts it ahead of the spec.                                          *)
ObservedMonotone ==
  [][api'.exists => api.obs <= api'.obs /\ api'.obs <= api'.gen]_vars

(* When the controller rests, a listed resource differs from the spec only *)
(* if its synchronisation was skipped before the first observed generation *)
(* or its Update was refused, and never because a pass overlooked it.      *)
SyncedUnlessMissed ==
  "status" \notin Faults /\ Quiescent =>
    \A k \in Kinds : \A i \in DOMAIN api.spec[k] :
      LET e == api.spec[k][i] IN
        \/ res[<<k, e.name>>].state = "absent"
        \/ res[<<k, e.name>>].val = e.val
        \/ <<k, e.name>> \in missed

(* Resources that were there before, without the Universe's label, are     *)
(* never deleted, whatever the specs list and prune.                       *)
ForeignKept == \A r \in Foreign : res[r].state = "running" /\ ~res[r].mine

(* A pass deletes no resource that the spec it works on lists. *)
PruneKeepsListed ==
  [][\A r \in Listed(mem) :
       api.exists /\ res'[r].state = "deleting" => res[r].state = "deleting"]_vars

(* Kinds whose section prunes what it lists by the list it walks. *)
PrunesItself(k) ==
  \A i \in DOMAIN Pipeline :
    Pipeline[i].kind = k => Pipeline[i].removes = k /\ Pipeline[i].keeps = k

(* Resources the Universe created and its spec no longer lists, in a kind  *)
(* whose loop runs for them: it does so only when more resources carry the *)
(* label than the spec lists, so one that is listed and not there, or      *)
(* there without the label, may hide one to be deleted.                    *)
Dropped(k) ==
  IF PrunesItself(k) /\ SpecNames(api.spec[k]) \subseteq Labelled(k)
    THEN Labelled(k) \ SpecNames(api.spec[k]) ELSE {}

(* Those of them whose name the spec lists in another namespace. *)
Namesakes(k) == {n \in Names : NameOf[n] \in BareNames(SpecNames(api.spec[k]))}

(* When the controller rests, every resource it created and the spec       *)
(* dropped has been deleted ("Delete or scale to zero"), unless the spec    *)
(* lists one of the same name in another namespace, which the loop takes   *)
(* for it.                                                                 *)
NoSurplus ==
  {"list", "delete"} \cap Faults = {} /\ Quiescent =>
    \A k \in Kinds : \A n \in Dropped(k) \ Namesakes(k) : res[<<k, n>>].state = "deleting"

(* A resource that the spec dropped goes away although the error of its    *)
(* Delete, or of the List before it, is dropped and the generation counts  *)
(* as observed: a later pass, which only the resync may cause, prunes      *)
(* again.                                                                  *)
SurplusDisappears ==
  \A r \in Resources :
    LET left == api.exists /\ r[2] \in Dropped(r[1]) \ Namesakes(r[1])
    IN left ~> ~left

(* A resource that the spec lists comes into being, or back, although a    *)
(* failing Get passes for finding it and the controller does not watch it: *)
(* one that is dropped and listed again is found while it is being         *)
(* removed, reported Healthy, and gone once the generation is observed.    *)
ListedAppear ==
  \A r \in Resources :
    api.exists /\ r \in Listed(api)
      ~> \/ res[r].state \in {"created", "running"}
         \/ ~api.exists \/ r \notin Listed(api)

(* Kinds whose section polls the resource itself before it reports. *)
WaitsForItself(k) ==
  \A i \in DOMAIN Pipeline :
    Pipeline[i].kind = k => Pipeline[i].waits # "never" /\ Pipeline[i].polls = k

(* Its entry in the status is about no other resource. *)
OwnEntry(r) == \A n \in Names \ {r[2]} : NameOf[n] # NameOf[r[2]]

(* A resource of such a kind, the only one of its name, turns Healthy only *)
(* once Config Connector is done with it, if the wait meets its deadline.  *)
(* Of two namesakes the entry would say that one of them is.               *)
HealthyAfterReady ==
  [][{"status", "get", "wait"} \cap Faults = {} =>
       \A r \in Resources :
         LET e == Entry(r[1], r[2]) IN
         WaitsForItself(r[1]) /\ OwnEntry(r)
           /\ api.status[e] # "Healthy" /\ api'.status[e] = "Healthy"
           => res[r].state # "created"]_vars

(* Towards the outside the controller and its surroundings are a Lifecycle. *)
Phase == IF ~api.exists THEN "absent" ELSE IF api.del THEN "deleting" ELSE "live"
Life == INSTANCE Lifecycle WITH phase <- Phase, gen <- api.gen, obs <- api.obs

(* Every step is one a Lifecycle allows: no pass, however old its copy,    *)
(* observes anything but the newest generation, observes a Universe that   *)
(* is being deleted, takes a deletion back, or removes a Universe that     *)
(* nobody deleted.                                                         *)
ImplementsLifecycle == Life!Spec

(* It also keeps the promises of a Lifecycle: a deleted Universe goes away *)
(* although a pass creates what is missing before it looks at the deletion, *)
(* and the newest generation of one that stays is observed.                *)
KeepsPromises == Life!Removed /\ Life!Observed

(* A Universe does not stay for ever: "TTL is the amount of time an        *)
(* environment exist before expired".                                      *)
Expires == <>(~api.exists)

(* What a Universe created in its own namespace disappears after it, even  *)
(* if a pass working on an old copy goes on creating when it is gone.      *)
OwnedDisappear ==
  ~api.exists ~> \A r \in Resources : res[r].mine => r[2] \notin Local
=============================================================================
