# Multiverse: TLA+ models and proofs

Multiverse is a Kubernetes operator that builds a preview environment on
Google Cloud for pull requests. This directory models its control logic in
TLA+, checks it with TLC on small instances and proves the most important
properties with TLAPS for every value of the constants.

## The system

| Part | Source | State | Operations | Correct when |
|---|---|---|---|---|
| Universe controller | `controllers/universe_controller.go`, `sync.go`, `finalizers.go`, `utils.go` | the `Universe` object (spec, generation, status entries, observed generation, finalizer, deletion mark), the informer cache, the workqueue, the copy a pass works on | one `Reconcile` pass: annotations to status, ten resource sections, preview of each cluster, deletion, finalizer, TTL, observed generation | it never rests with work left; observes only what it dealt with; deletes only what the spec dropped |
| Waiting | `controllers/wait.go`, `pkg/poll` | deadline and backoff of one wait | `waitFor*`, `poll.Wait` | a resource is reported `Healthy` once it runs |
| Trigger controller | `controllers/trigger_controller.go` | labels of pull requests, Universes by name, a CronJob and its role | list open and closed PRs, create or delete the Universe, comment, relabel | a labelled open PR gets one Universe, a closed one loses it |
| Addons, cluster admin | `controllers/{externaldns,nginx,external-secrets,resource-patcher,cluster-admin}.go`, `velero.go` (installation) | objects in remote clusters, process-global `HELM_*` variables, files in `/tmp` | install once | completely installed, into the right cluster |
| Backup and restore | `controllers/velero.go`, end of `Reconcile`, `ingressPatch` | Backup and Restore objects of Velero, restored deployments and ingresses | back up the primary cluster, restore in each target, annotate, rename hosts | each cluster ends up with its workload, under hosts of its own |
| Google Cloud, Git, GitHub clients | `pkg/gcloud`, `pkg/git`, `pkg/github` | none | API calls | - |
| Wiring, generated code, manifests | `main.go`, `zz_generated.deepcopy.go`, `config/` | none | - | - |

How they meet. The Trigger controller creates and deletes Universe objects
through the API server; the Universe controller is woken by watch events of
Universes only. It creates Config Connector resources, which Config Connector
provisions on its own time, and polls Google Cloud until they run. When a
Universe is gone, the Kubernetes garbage collector deletes the resources it
owns. Once clusters run, the pass installs software into them.

What is hard here. A pass takes hours (each wait has a 60 minute deadline) and
works all along on a copy of the Universe read from a cache that may already
be old; every status write is guarded by the resource version of that copy and
every one of those errors is dropped. Users edit and delete meanwhile. Deletion
is looked at only at the end of a pass. Ten workers run at once. The
operator may die between any two calls. `PROJECT.json` lists these hazards with
the line where each bites and the property that would catch it.

## Modules

### Universe

One Universe object, the controller's passes over it, and its surroundings.
The workqueue never runs two passes for one key, so one pass at a time is the
code's own concurrency here; the ten workers matter only between different
Universes.

| Variable | In the program |
|---|---|
| `api` | the object in the API server |
| `cache`, `cacheFresh` | the informer cache of the manager's client, and whether it has the newest version |
| `queued` | the key is in the workqueue (or marked dirty while a pass runs) |
| `mem`, `memFresh` | the local variable `universe`, and whether its resourceVersion is the newest |
| `pc`, `stage`, `elem` | where `Reconcile` is: the next call, the section, the element of its loop |
| `found`, `foundFresh` | the name in `foundResource` and whether its version is the newest |
| `lists` | `saList`, `nwList`, ... : the listings live to the end of the function, and later sections do use earlier ones |
| `res` | the Config Connector objects: state, the mutable part of the spec, the `universe=<name>` label |
| `crashes` | bound on crashes |
| `walked`, `missed` | history variables, for properties only |

`ReconcileStep` has one action per call that `Reconcile` makes, in its order,
with the code's early returns. The ten sections of the function are the
same text with variations, so each section is one record (`IAMServiceAccount`
... `StorageBucket`) that holds its variations (whether it waits before or
after synchronising, under which kind and name it reports, over which listing
its pruning loop ranges and with which list of the spec it compares) and the
actions are written once. `ReconcileOrder` is the order of the sections; the
constant `Pipeline` selects a subsequence of it, closed under the kinds its
sections refer to.

Writes go to `api` only from a copy of the newest version (`Persist`,
`AddFinalizer`, `Finalize`); a write that changes nothing makes no new version;
an accepted write leaves the copy fresh, because the client stores the answer
in it. `EndPass(requeue)` is every `return`.

`Faults` names the calls that may fail although nothing in the model makes
them fail. Without `"wait"`, a resource under creation is ready before the
deadline; without `"create"`, the cached Get of a child never answers NotFound
for a child that exists (a Create refused for this reason and one refused by
the API server have the same effect). The client reads lists and children from
informer caches too, and reading an old cache is one of these failures: a stale
List that misses a resource is `"list"`, a stale Get that finds one that is
gone skips it as `"get"` does. So a run or a theorem that leaves one of them out assumes that the
cache of the children has caught up when it is read: `NoSurplus` says nothing
of a pass whose List was stale, nor `ObservedAfterWalk` of one whose Get was.
`SurplusDisappears` and `ListedAppear` are checked with such failures.

The surroundings are external to `src/`: `Edit`, `DeleteUniverse`, `Resync`,
`CrashRestart`, `Provision`, `Deprovision`, `CollectGarbage`. `WatchDeliver`
is the watch `SetupWithManager` asks for: every version, no predicate, events
coalesced.

Abstractions. The spec of a resource is one value that stands for the fields
its section synchronises. A member of `Names` is a name with its namespace, which
is what Get, Create, Update and Delete go by; `NameOf` is the name alone, which
is all the code looks at in two places: the pruning loops compare the names of
a listing of all namespaces with those of the spec, so a dropped resource is
kept while the spec lists its namesake (`Victims`); and a status entry belongs to
a kind and a name, so namesakes share one (`Entry`). Google Cloud is asked within the
project of the namespace, but for buckets, whose names are global
(`StillCreated`). `Local` are the names in the Universe's own namespace, the only
ones for which `SetControllerReference` succeeds. Status entries are a function
from their keys, which is what `updateStatus` keeps up. A Universe is deleted for good (no
second incarnation under the same name). List and the deletes that follow it
are one step. A child deleted while it is found keeps its place as
`deleting` until Config Connector removes it. The wait for a resource is one
step. What a pass does inside remote clusters touches neither the Universe nor
its resources and has modules of its own (`Addons`, `Restore`): `PreviewCluster`
keeps the one thing that can end the pass. The TTL is compared as the code does
it (`TTLReached`), on seconds within a minute; the two seconds are a free
choice (`MayExpire`, `MayLive`).

### Lifecycle

What a Universe promises to those who create and delete it by name: it is
live, being deleted or absent; a deleted one goes away and is never revived; only
the newest generation of a live one is ever observed. `Universe` is shown to
implement it (`Life` maps the object in the API server to phase, generation
and observed generation; `ImplementsLifecycle` for the steps, `KeepsPromises`
for what must happen in the end). `Trigger` uses it in place of the Universe
controller: `UniversesAreLifecycles` says that what `Trigger` assumes of, and
does to, each Universe is a Lifecycle. So the two controllers are composed by
contract, without the product of their states. (A Universe of `Universe` is not created again
under its name; for `Lifecycle` a new one is another `Create`.)

### Trigger

One Trigger object, the controller's passes over it, the pull requests it
watches and the Universes it creates.

| Variable | In the program |
|---|---|
| `pr`, `said` | on GitHub: each pull request's state and labels; the controller's last comment |
| `universe` | the Universe objects by name: absent, live, being deleted |
| `account` | the service account all preview clusters share |
| `cron`, `schedule` | which of the CronJob's four objects exist, and its interval |
| `trigger`, `mem`, `queued` | the Trigger, the copy the pass works on, its key in the workqueue |
| `pc`, `repo`, `seen`, `todo`, `cur` | where `Reconcile` is: the next call, the repository, the labels of the last listing, the pull requests left in it, the one in hand |
| `moves`, `crashes` | bounds |
| `reopened`, `rushed` | history variables, for properties only: the reopened, and those whose request met a Universe still being deleted |

The actions follow one pass: `BeginPass`; `ListOpen`; for each request
`TakeOpen`, the two halves of `NewUniverse` (`FindAccount` or `CreateAccount`,
then `EnsureUniverse`), `CommentOpen`, `LabelOpen`; `OpenDone`, `FindCron`
and `CreateCronPart` for each of the four objects, `Observe`; `ListClosed`, and for each closed request `Teardown`,
`CommentClosed`, `LabelClosed`; `ClosedDone`. Errors are logged and the next
call follows, so each failure is an outcome of its action and never leaves the
sequence. `Relabel` writes back the labels of the listing, not the current
ones.

Abstractions. The Universe that `NewUniverse` assembles is one value, since its
spec is fixed text. The order in which a listing is worked through is left
open. `Observe` may be refused at any time, because a tick of the CronJob
annotates the Trigger and makes the pass's copy old. Universes and accounts are
read as the API server has them; a stale cache adds nothing to the failures where
they are in `Faults` (a Universe that is not found when it is to be deleted is
`"delete"`), but is an assumption of the runs and theorems that leave those out. A
Universe that is found in the cache although it is gone has the effect of one that
is being deleted, and is not counted in `rushed`: `MarkedCreatedIsLive` assumes
that the cache has caught up with a removal when the pull request is taken
up again. Deleting the Trigger is
not modelled: no code reacts to it. A Universe created here never expires, as
the run `ttl_never` shows of its TTL of 86400.

### Addons

What a pass installs in remote clusters once a cluster runs, by several workers
(passes over different Universes) in one process.

| Variable | In the program |
|---|---|
| `objects` | what exists in each cluster, as pairs of an installation and a part of it |
| `tokens` | the clusters whose admin secret Kubernetes has filled in |
| `environ`, `files` | `HELM_KUBETOKEN`, `HELM_KUBEAPISERVER`, `HELM_KUBECAFILE`; the CA files in `/tmp` |
| `pass` | per worker: the call, the installation and the part it is at, its admin secret (`nil`, `empty`, `filled`), its Helm settings |
| `failures` | bound on failed calls and crashes |
| `mixed`, `cut` | history variables: workers whose settings were written over, installations cut short |

Seven functions are seven records: `AdminToken`, `AdminUser` and
`ResourcePatcher` look for each of their objects and create what is missing
(`each`); `ExternalDns` looks for its first object only (`first`); `Velero`,
`NginxIngress` and `ExternalSecrets` install a Helm release behind a mark
(`helm`). `PassOrder` is the order of the calls in `Reconcile` and `Wanted` the
annotations; `task` is an index of `PassOrder`, and a pass moves on to the next
call that its annotations ask for (`TasksAfter`). A Helm installation is one action per shared step: `WriteCA`,
`SetToken`, `SetServer`, `SetCAFile`, `ReadSettings` (`cli.New`), the look for
the mark, the namespace whose Create is not looked at, `Install`. A nil secret
or configuration is a panic, which ends the passes of all workers and
loses environment and files; the new process starts with the clusters as they are.

Abstractions. A token, a certificate and an address are the cluster they belong
to. Helm gets through if the three match and the namespace exists
(`InstallWorks`, external). Writing to `/tmp` does not fail. The text of the
objects is left out.

### Restore

The preview of one Universe: the part of `Reconcile` after the resource
sections, the functions of `velero.go` it calls, `ingressPatch`, and the
annotation of deployments in the cluster section, for several clusters.

| Variable | In the program |
|---|---|
| `velero`, `backup`, `synced`, `restore` | where Velero is installed; the Backup in the primary cluster; the clusters that know it; each cluster's Restore |
| `annotated`, `hosts` | deployments with `image-update`; how often each ingress rule got the suffix (0, 1, more) |
| `pc`, `target`, `rule`, `connected` | where the pass is |
| `failures`, `early` | bound; history: Restores created before their cluster knew the Backup |

`waitForBackUp` ends at the first error of its Get, NotFound included, so it is a
step that can always be taken; `waitForRestore` polls through errors. An
ingress is written once per rule from one listed copy, so the Update for a
second rule conflicts (`Call(rule[3] = 1, ...)`) and ends the patching of the namespace.
Velero is external: a Restore of an unknown Backup is `FailedValidation` for
good, a Backup becomes known to other clusters once it is done. That Velero is
installed in the end is assumed here; `Addons` shows what can prevent it.

### Proof and model-checking modules

`UniverseProofs`, `TriggerProofs`, `RestoreProofs` and `AddonsProofs` extend the
component modules with their theorems; `UniverseStatusProofs`,
`UniverseSyncProofs` and `UniversePruneProofs` extend `UniverseProofs` with what
a Universe reports, how its resources are synchronised and what is deleted. `MCUniverse`, `MCTrigger`, `MCAddons` and `MCRestore` define the small
instances; a `.cfg` selects among them. The operators introduced by a comment
`Mutant:` in the component modules take no part in the specifications: each is a
plausible slip in the definition that follows it, and replacing the definition
by it makes the property that `PROJECT.json` pairs it with fail. They document
that the property can tell the difference.

## Runs

| Run | Instance | Shows |
|---|---|---|
| `walk` | a network and a cluster, three generations, deletion, annotations | `TypeOK`; no lost wake-up (`QuiescentObserved`); every report arrives (`QuiescentHealthy`); skipped synchronisations are the only reason for a difference (`SyncedUnlessMissed`); a generation is observed after all of it was found (`ObservedAfterWalk`); Healthy comes after ready (`HealthyAfterReady`) |
| `stages` | eight kinds in the code's order, one resource each, two generations, another namespace | `QuiescentHealthy`, `ObservedAfterWalk` across sections that write each other's entries |
| `faults` | buckets `a`, `b`, a foreign bucket `c`, `d` in another namespace under the name of `a`, two generations, one crash, failing creates, updates, waits, finalizer writes | the wake-ups survive failures; foreign resources are kept; what the spec dropped goes (`NoSurplus`); old copies do no harm (`ObservedMonotone`, `ImplementsLifecycle`) |
| `live` | one account that comes, goes and comes back, three generations, failing gets, deletes, finalizer writes | `KeepsPromises`, `OwnedDisappear`; with nothing but the resync to wake the controller, what was dropped goes in the end (`SurplusDisappears`) and what is listed comes (`ListedAppear`) |
| `trigger_live` | two pull requests in one repository whose page holds one, five moves by people, failing listings and comments | the marks are true (`MarkedCreatedIsLive`, `MarkedClosedIsDown`); on the first page `Answered`, `TornDown`; `UniversesAreLifecycles` |
| `trigger_faults` | two repositories with a pull request each, three moves, an edit, a crash, failing listings, account, Universe, labels and deletes, no account at first | `TypeOK`, `MarksExclude`, `CronWhole`, `OpenUntilClosed` |
| `restore` | two clusters, two namespaces (an ingress with two rules among them), two failures or crashes of every kind | `TypeOK`; no Restore is lost unless it came too early (`RestoredUnlessEarly`); `ServicesAnnotated`; `HostsRenamed`, `RenamedInOrder` |
| `addons` | one worker, a new cluster, every addon, two failures or crashes | `TypeOK`; an incomplete addon has one of the listed causes (`WholeUnlessCut`); `EachCompleted` |
| `addons_shared` | two workers, one new primary cluster, a CA file in common, an addon for one of them | an incomplete addon has one of the listed causes (`WholeUnlessCut`), and an addon strays only through the environment (`InstalledWhereAsked`); the races for the admin account end (`EachCompleted`) |
| `subnet_prune`, `first_preview`, `ttl_never` | the smallest instance that shows it | a disagreement between a comment or message and the code: see below |

Why these bounds are enough. The controller's state carries over from one pass
to the next only through the object, the resources and the listings, so
a difference between two generations needs two of them, an edit that meets
another edit's pass needs three (`walk`), and so does a resource that is dropped
and listed again (`live`). Two names let a list grow, shrink and
change places; a third is somebody else's and a fourth a namesake. Sections are alike, so kinds are
combined where one touches another (networks with subnetworks, routers with
NATs, all of them in `stages`), and clusters stand for node pools. Five moves
let one pull request be asked for, closed, reopened and closed again, with one
move of the other in between. One crash can fall between any two calls. Two
failures let one undo the repair of the other. Two workers are enough for one
to write between another's write and read; in `addons_shared` their own
clusters are set up already (`Ready`), since workers meet in the primary
cluster and in the process, and nothing fails but by their races.

Deadlock is not checked: a Universe that is gone, with the bounds used up,
rightly stays as it is.

### Fairness

`live`, `trigger_live`, `restore` and the two runs of `Addons` assume, and nothing else: workers take what is queued and go on with their pass (a worker
never waits for ever: each wait has a deadline); the watch delivers; the
informers resync every ten hours (the manager's default, `main.go` sets no
other); Config Connector, the garbage collector and Velero get on with their
work; and a call that is tried in infinitely many passes succeeds in some of
them (strong fairness of `GetResource`, `CreateResource`, the finalizer writes,
the status write, and of the two listings of the Trigger; a bound on the
number of failures in `Restore` and `Addons`). People do nothing they must:
edits, deletions, labels, expiry and crashes have no fairness. `live` leaves the
failures of status writes out, because a refused final write is not retried
before the next resync. It adds strong fairness of a `Prune` whose List and
Deletes are answered (`PruneSpec`): a call that is tried in every pass does not
fail in all of them. With one resource a failing List is a failing Delete, so the
run has the latter only. `ttl_never` adds strong fairness of `Expire`, which is
the most a clock could do; with a TTL below 59 the same run has no
counterexample.

### What disagrees

- `subnet_prune`: dropping a subnetwork deletes networks that are still listed;
  the loop ranges over the listing of another section (`nwList`). Three more sections
  have such a loop, as their records say: SQL databases
  (`universe_controller.go:786`) and routers (`:871`) range over the SQL instances
  (`sList`), and NATs (`:970`) range over their own listing but compare it with the
  routers of the spec. A surplus of databases or routers deletes SQL instances,
  listed ones too, and a surplus of NATs every NAT without a router of its name.
- `first_preview`: the first preview of a namespace is announced and marked but
  not created.
- `ttl_never`: a TTL of 60 or more never expires, because seconds within a minute
  are compared.

The models also show, by the exception a property has to make or by a cause it
lists:

- a listed resource that existed before hides a dropped one, because the loop
  compares counts of labelled and listed resources (`NoSurplus` is
  stated for kinds whose listed resources all carry the label);
- a resource moved to another namespace under the same name is created there and
  the old one is kept, in every section, because the loops compare names alone
  (`Namesakes` in `NoSurplus`), although the comment over each says "Delete or
  scale to zero";
- a spec change before the first observed generation is never synchronised, and a
  refused Update is not repeated (`missed` in `SyncedUnlessMissed`);
- synchronising a NAT reports about a router of the NAT's name (the record
  `ComputeRouterNAT`);
- a Get error other than NotFound counts as "exists" (`GetFails`; hence the
  condition on `"get"` in `ObservedAfterWalk`);
- a Restore created before its Backup is known stays invalid (`early`);
- ingress rules after the first of an ingress, and ingresses after one with two
  rules, keep their hosts, and each pass adds the suffix again (`hosts`);
- an addon with a mark is not repaired, and two workers can swap clusters (`cut`,
  `mixed`);
- a pull request reopened while its Universe is being deleted is marked and
  left without one (`rushed`), and one that is not on the first page waits.

A Backup is named after its Universe and outlives it, and an edited
`requeueAfterMinutes` never reaches an existing CronJob: both are plain in the
code and no property is stated about them.

`findings` in `PROJECT.json` quotes the line of code and the line that says
otherwise.

## Proofs

The theorems hold for all values of the constants that satisfy the named
assumptions of the modules: any names, specs, annotations, failures, bounds and
any subsequence of the sections (`PipelineAssumption`); any finite set of pull
requests, any repositories and page size; any clusters, workers and ingresses. No
theorem uses fairness. A theorem that needs more of the constants has it as a
named hypothesis, listed below; each is needed, because without it the property
is false of the code (that `Names` is finite only serves to count).

### Universe

| Theorem | States | Argument |
|---|---|---|
| `UniverseProofs!TypeCorrect` | `[]TypeOK` | `TypeInv`: types plus `PositionOK`, which says that at an element's steps the section and the index are within the list; without it the element's name has no type |
| `NoLostWakeUp` | `[]QuiescentObserved` | `FreshInv`: what the freshness flags mean (`FlagsOK`: a fresh copy agrees with the object), that a pass works on the newest version unless a newer one is queued or still to be delivered (`WakeUpOK`), and what holds of the Universe at the last steps of a pass (`LifecycleOK`). A dropped write error means an old copy, and an old copy means a wake-up to come |
| `ObservedNeverBack` | `ObservedMonotone` | `FreshInv`: the observed generation is written from a copy that agrees with the object |
| `ForeignSafe` | `[]ForeignKept` | `ForeignInv`: no listing, of any section and from any earlier moment, holds a foreign resource; hence even a loop over the wrong listing spares it |
| `ObservedIsComplete` | `ObservedAfterWalk` | `WalkInv`: unless Gets fail, every element before the current position of the pass has been found |
| `LifecycleImplemented` | `ImplementsLifecycle`, the refinement of `Lifecycle` | `FreshInv`: an accepted write comes from a copy that agrees with the object, so only `Observe` at the newest generation, `Finalize` of a deleted Universe, the deletes and `Edit` move the phase or the generations; every other step stutters |
| `UniverseStatusProofs!HealthyAtRest` | `[]QuiescentHealthy` | `CopyOK` strengthens what a fresh copy is: the object itself, status included. `HealthyInv`: in a pass over an observed generation, the entries of all elements before the current position say Healthy, and nothing is synchronised. The pass that brings rest has such a copy, because an observation is a new version and so a wake-up; so the entries two sections share (`ComputeRouterNAT`) are put right |
| `ReadyBeforeHealthy` | `HealthyAfterReady` | `FoundInv`: past its Get a pass holds the object of its element; `ReadyInv`: past the poll of a section that polls its own kind, that object, if it is the only one of its name, is no longer being created. An accepted write changes the entry of the element alone, since a fresh copy is the object |
| `UniverseSyncProofs!SyncedAtRest` | `[]SyncedUnlessMissed`, if `SpecsConsistent` | `PassSync`: in a pass over a generation that is not observed, what precedes its position has the spec's value, is absent or is in `missed`; `KnownInv`: once a generation is observed, the cache and any pass have its spec, so no older pass undoes it (`SyncInv`) |
| `UniversePruneProofs!SurplusDeleted` | `[]NoSurplus`, if `SpecsDistinct` and `Names` is finite | `PrunedInv`: the kinds of the sections behind the pass are clean; the comparison of counts is enough where all listed names are labelled, by the lemmas on the cardinality of sets and of lists without repetitions, and of these it keeps only namesakes of listed ones; `RestClean`: the pass that brings rest had the newest spec |

The hypotheses: `SpecsConsistent`, no spec asks for two values of one resource
(two entries of one name are written in turn, and the first is lost);
`SpecsDistinct`, no spec names a resource twice (the length of the list then
exceeds the number of its names, and hides as many to be deleted).

`NoSurplus` excepts a resource whose namesake the spec lists, which the code keeps
(`Victims`), and `HealthyAfterReady` a resource with a namesake, whose entry says
Healthy when either of them is. `HealthyAfterReady` is also conditional on polls
that are answered in time: after a deadline or an error the pass reports
Healthy all the same. That no pass deletes what it lists is not a theorem: four
sections of the pipeline violate it, as `subnet_prune` shows of one.

`NoSurplus` and `HealthyAfterReady` are stated kind by kind (`PrunesItself`,
`WaitsForItself`), so that one section that works on another's kind does not
empty them for the rest of the pipeline. `HealthyAtRest` and `SyncedAtRest` leave failing status writes out, as
their properties do: after a refused final write nothing wakes the controller
before the next resync.

### Trigger

| Theorem | States | Argument |
|---|---|---|
| `TriggerProofs!TypeCorrect` | `[]TypeOK` | `TypeOK` is inductive: a pull request is in hand exactly at the steps about one |
| `MarksApart` | `[]MarksExclude` | each edit that sets one mark takes the other away from the same set |
| `OpenIsKept` | `OpenUntilClosed`, if `NamesDistinct` | `TodoClosed`: what is left of the listing of closed pull requests is closed or was reopened; and only the teardown of its own pull request takes a Universe away |
| `CreatedIsLive` | `[]MarkedCreatedIsLive`, if `NamesDistinct` and `CreatesReliably` | `CreatedInv`: a mark stands for a live Universe or for one that was created too late (`rushed`), but for the pull request in hand after its teardown; between `EnsureUniverse` and the label the Universe in hand is live |
| `ClosedIsDown` | `[]MarkedClosedIsDown`, if `NamesDistinct` and `ClosesReliably` | `ClosedInv`: a mark of closing, of an open pull request too, stands for a Universe that is not live, but for the one in hand between its creation and its label; a torn down Universe in hand is not live |
| `ContractKept` | `UniversesAreLifecycles` | `PhaseStep`: each action moves each Universe's phase as `Lifecycle` allows; holds even when two pull requests share a name |
| `CronComplete` | `[]CronWhole` | `CronInv`: without failing Creates, what precedes the part the pass is at exists, and the CronJob comes last |

The hypotheses: `NamesDistinct`, since the owner is not part of a Universe's
name; `CreatesReliably`, that the account exists, Creates and edits of labels do
not fail and nothing crashes (`first_preview` shows what happens without
the account); `ClosesReliably`, that deletes and edits of labels do not fail and
nothing crashes, because the mark follows a failed Delete all the same. Listings,
comments, the CronJob and people are free in both. With `LifecycleImplemented`,
`ContractKept` closes the composition of the two controllers: what one assumes,
the other implements.

### Restore and Addons

| Theorem | States | Argument |
|---|---|---|
| `RestoreProofs!TypeCorrect` | `[]TypeOK` | `TypeOK` is inductive with the lemmas on positions (`RulesFacts`): a pass at a rule is at one that exists |
| `HostsInOrder` | `[]RenamedInOrder` | `RuleInv`: at a rule, every earlier one of the namespace has been renamed at least as often as this one will be after its patch; `Successor`: the next position skips no rule |
| `AddonsProofs!TypeCorrect` | `[]TypeOK` | `TypeInv` = `ValuesInv` and `PassInv`: where each worker is, what it does is asked for, and from the steps of Helm on its secret is not nil |
| `StraysByRaceOnly` | `InstalledWhereAsked` | `SettingsInv`: what a worker not in `mixed` has written to environment and file is still there, so its settings lead to its own cluster; every write of one worker puts the others in the middle of theirs into `mixed` |
| `HalfOnlyIfCut` | `[]WholeUnlessCut` | `FailedInv`: only a recorded failure leaves a failed release; `NamespaceInv`: a namespace has its release, or a worker that will install it, or a cause in `cut`; `DnsInv`: the objects of external-dns are made in order by the one worker of their cluster |

The proof of `HalfOnlyIfCut` corrected the history variable `cut`: a release that
failed in a cluster it had strayed into was not recorded there, and a later
worker of that cluster found the name used up for no cause listed. `InstallFails`
now records the cluster the release was sent to as well. The instances of the
runs are too small for it (it takes two workers and a failing chart at once); the
theorem covers every number of both.

### Only model-checked

Liveness, which is out of the prover's reach: `KeepsPromises`, `OwnedDisappear`,
`SurplusDisappears`, `ListedAppear`,
`Answered`, `TornDown`, `RestoredUnlessEarly`, `ServicesAnnotated`,
`HostsRenamed`, `EachCompleted`. Every invariant and action property of the
passing runs is also a theorem, under the hypotheses above.

## Not modelled

- the backoff schedule of `poll.Wait`, which decides when calls are made and
  not what comes of them; `WaitWithRetries` and `pkg/helm`, which no code calls;
- the Google Cloud, Git and GitHub clients: stateless calls of outside
  services, present as the answers the models let them give (a connection to a
  cluster is made, or is nil);
- `main.go`, generated code and manifests: no state;
- the fields of Config Connector specs: one value stands for those a section
  synchronises.

## Plan

The models cover what the code does, and each safety property the passing runs
check is proved. What is left:

1. the safe part of the liveness arguments, as theorems of their own: that a Restore
   is refused only if it came too early, that a pass which ends without a failure has
   annotated the services and renamed the hosts it gets to, and that a pass on an
   old copy leaves nothing behind that the garbage collector does not find;
2. fewer hypotheses: `MarkedCreatedIsLive` and `MarkedClosedIsDown` through crashes, with
   the pull requests a crash leaves between teardown and label as an exception.
