------------------------------ MODULE Restore -------------------------------
(***************************************************************************)
(* How a Universe's clusters get their workload: the end of Reconcile      *)
(* (controllers/universe_controller.go) and the backups and restores of    *)
(* controllers/velero.go.  Each pass asks Velero in the primary cluster    *)
(* for a Backup, waits until the target cluster's Velero knows it, asks    *)
(* there for a Restore, waits for that, and renames the hosts of the       *)
(* restored ingresses; near its beginning it annotates the deployments an  *)
(* earlier pass restored.  All errors are logged and dropped.  Velero      *)
(* works on its own time, and a connection that fails is a nil             *)
(* configuration, on which the operator panics.                            *)
(***************************************************************************)
EXTENDS Integers, Sequences, FiniteSets

CONSTANTS
  Targets,    \* the clusters of the Universe's spec, in its order
  Services,   \* the deployments its preview-services annotation names
  Ingresses,  \* per target namespace, the number of rules of each ingress
  Faults,     \* calls that may fail for reasons outside the model
  MaxFailures  \* no more failed calls and crashes than this

Clusters == {Targets[i] : i \in DOMAIN Targets}

(* The positions of rules: namespace, ingress, rule. *)
Rules ==
  UNION {UNION {{<<n, i, r>> : r \in 1 .. Ingresses[n][i]} : i \in DOMAIN Ingresses[n]} :
           n \in DOMAIN Ingresses}

ASSUME TargetsAssumption ==
  /\ Targets \in Seq(STRING) /\ Targets # << >> /\ "primary" \notin Clusters
  /\ \A i, j \in DOMAIN Targets : Targets[i] = Targets[j] => i = j
ASSUME IngressesAssumption == Ingresses \in Seq(Seq(Nat \ {0}))
ASSUME RestoreFaultsAssumption ==
  Faults \subseteq {"connect", "get", "create", "deadline", "velero", "annotate",
              "stages", "ingress"}
ASSUME RestoreBoundsAssumption == MaxFailures \in Nat

VARIABLES
  velero,    \* the clusters in which Velero is installed
  backup,    \* the Backup in the primary cluster
  synced,    \* the clusters whose Velero knows the Backup
  restore,   \* the Restore in each target cluster
  annotated, \* the annotated deployments of each
  hosts,     \* how often each rule's host got the suffix: not, once, again
  pc,        \* the call the pass makes next
  target,    \* the target cluster the pass is at
  rule,      \* the rule it is at
  connected, \* the pass has a configuration for the primary cluster
  failures,  \* failed calls and crashes so far
  early      \* history: clusters whose Restore was asked for before they knew the Backup

veleroVars == <<velero, backup, synced, restore>>
workload == <<annotated, hosts>>
pass == <<pc, target, rule, connected>>
vars == <<velero, backup, synced, restore, annotated, hosts, pc, target, rule,
          connected, failures, early>>

Phases == {"absent", "New", "Completed", "PartiallyFailed", "FailedValidation"}
Steps == {"idle", "annotate", "primary", "cluster", "backup", "createBackup",
          "waitForBackUp", "restore", "createRestore", "waitForRestore",
          "ingresses", "rule"}

(* Velero is done, and what it restored is there. *)
Done(phase) == phase \in {"Completed", "PartiallyFailed"}

MayFail(fault) == fault \in Faults /\ failures < MaxFailures

(* A call that would be answered by ok, and how it is answered. *)
Call(ok, fault, answer) ==
  /\ answer = ok \/ (MayFail(fault) /\ ~answer)
  /\ failures' = IF answer = ok THEN failures ELSE failures + 1

Here == Targets[target]
FirstRule == <<1, 1, 1>>

ForgetPass == pc' = "idle" /\ target' = 1 /\ rule' = FirstRule /\ connected' = FALSE

(* A nil configuration, or anything else, takes the operator down. *)
Panic ==
  /\ ForgetPass
  /\ failures' = failures + 1
  /\ UNCHANGED <<veleroVars, workload, early>>

Goto(step) == pc' = step /\ UNCHANGED <<target, rule, connected>>

-----------------------------------------------------------------------------
(* The part of a pass that follows a running cluster.                      *)

(* The informer wakes the controller again and again. *)
BeginPass ==
  /\ pc = "idle"
  /\ Goto("annotate")
  /\ UNCHANGED <<veleroVars, workload, failures, early>>

AnnotateStep == IF target < Len(Targets) THEN "annotate" ELSE "primary"

\* Mutant: the index runs on past the last cluster.
AnnotateTargetPast == target + 1

AnnotateTarget == IF target < Len(Targets) THEN target + 1 ELSE 1

\* Mutant: only deployments of a Restore that is Completed are looked at.
AnnotateCompleted ==
  /\ pc = "annotate"
  /\ annotated' = IF restore[Here] = "Completed"
                    THEN [annotated EXCEPT ![Here] = Services] ELSE annotated
  /\ pc' = AnnotateStep /\ target' = AnnotateTarget
  /\ UNCHANGED <<veleroVars, hosts, rule, connected, failures, early>>

(* The deployments named by preview-services are annotated, if they are    *)
(* there; each Update may fail.                                            *)
AnnotateServices ==
  /\ pc = "annotate"
  /\ \E done \in SUBSET Services :
       /\ Call(TRUE, "annotate", done = Services)
       /\ annotated' = IF Done(restore[Here])
                         THEN [annotated EXCEPT ![Here] = @ \cup done] ELSE annotated
  /\ pc' = AnnotateStep /\ target' = AnnotateTarget
  /\ UNCHANGED <<veleroVars, hosts, rule, connected, early>>

(* No connection to the primary or to the target cluster. *)
AnnotatePanics ==
  /\ pc = "annotate" /\ MayFail("connect")
  /\ Panic

-----------------------------------------------------------------------------
(* The part at the end of a pass: one target cluster after the other.      *)

(* A failed connection to the primary cluster is logged. *)
ConnectPrimary ==
  /\ pc = "primary"
  /\ \E ok \in BOOLEAN : Call(TRUE, "connect", ok) /\ connected' = ok
  /\ pc' = "cluster"
  /\ UNCHANGED <<veleroVars, workload, target, rule, early>>

(* The stages in between end the pass when they create something. *)
StageEndsPass ==
  /\ pc = "primary" /\ Call(TRUE, "stages", FALSE)
  /\ ForgetPass
  /\ UNCHANGED <<veleroVars, workload, early>>

(* The admin token (Addons.tla) is asked for once more and not used. *)
FindCluster ==
  /\ pc = "cluster"
  /\ Goto("backup")
  /\ UNCHANGED <<veleroVars, workload, failures, early>>

(* The pass ends with a requeue, whatever the other clusters need. *)
ClusterMissing ==
  /\ pc = "cluster" /\ Call(TRUE, "get", FALSE)
  /\ ForgetPass
  /\ UNCHANGED <<veleroVars, workload, early>>

(* No connection to the target cluster. *)
ClusterPanics ==
  /\ pc = "cluster" /\ MayFail("connect")
  /\ Panic

(* createBackUp.  Without Velero there are no Backups to be found. *)
GetBackup ==
  /\ pc = "backup" /\ connected
  /\ \E missing \in BOOLEAN :
       /\ Call(backup = "absent", "get", missing)
       /\ Goto(IF missing THEN "createBackup" ELSE "waitForBackUp")
  /\ UNCHANGED <<veleroVars, workload, early>>

(* The nil configuration of the primary cluster was counted before. *)
BackupPanics ==
  /\ pc = "backup" /\ ~connected
  /\ ForgetPass
  /\ UNCHANGED <<veleroVars, workload, failures, early>>

CreateBackup ==
  /\ pc = "createBackup"
  /\ \E ok \in BOOLEAN :
       /\ Call("primary" \in velero, "create", ok)
       /\ backup' = IF ok THEN "New" ELSE backup
  /\ Goto("waitForBackUp")
  /\ UNCHANGED <<velero, synced, restore, workload, early>>

(* waitForBackUp polls the target cluster.  An error of the Get, the Backup *)
(* not being known there included, ends the wait at once, as does a Backup *)
(* that is Completed; a Backup that is known and not Completed ends it at  *)
(* the deadline.  In all cases the pass goes on.                           *)
waitForBackUp ==
  /\ pc = "waitForBackUp"
  /\ Goto("restore")
  /\ UNCHANGED <<veleroVars, workload, failures, early>>

(* createRestore.  A Restore that exists, whatever became of it, stays. *)
GetRestore ==
  /\ pc = "restore"
  /\ \E missing \in BOOLEAN :
       /\ Call(restore[Here] = "absent", "get", missing)
       /\ Goto(IF missing THEN "createRestore" ELSE "waitForRestore")
  /\ UNCHANGED <<veleroVars, workload, early>>

CreateRestore ==
  /\ pc = "createRestore"
  /\ \E ok \in BOOLEAN :
       /\ Call(Here \in velero, "create", ok)
       /\ restore' = IF ok THEN [restore EXCEPT ![Here] = "New"] ELSE restore
       /\ early' = IF ok /\ Here \notin synced THEN early \cup {Here} ELSE early
  /\ Goto("waitForRestore")
  /\ UNCHANGED <<velero, backup, synced, workload>>

\* Mutant: off by one, the last cluster is not visited.
AfterIngressesShort ==
  IF target + 1 < Len(Targets)
    THEN pc' = "cluster" /\ target' = target + 1 /\ rule' = FirstRule /\ UNCHANGED connected
    ELSE ForgetPass

(* On to the next cluster, or to the rest of Reconcile. *)
AfterIngresses ==
  IF target < Len(Targets)
    THEN pc' = "cluster" /\ target' = target + 1 /\ rule' = FirstRule /\ UNCHANGED connected
    ELSE ForgetPass

(* waitForRestore polls on through errors, until the Restore is Completed  *)
(* or until the deadline; without the "deadline" fault Velero is faster.   *)
waitForRestore ==
  /\ pc = "waitForRestore"
  /\ restore[Here] = "New" => "deadline" \in Faults
  /\ IF Ingresses = << >> THEN AfterIngresses ELSE Goto("ingresses")
  /\ UNCHANGED <<veleroVars, workload, failures, early>>

-----------------------------------------------------------------------------
(* ingressPatch, for every target namespace.                               *)

\* Mutant: an error in one namespace ends the patching.
NextNamespaceStops == AfterIngresses

NextNamespace ==
  IF rule[1] < Len(Ingresses)
    THEN /\ pc' = "ingresses" /\ rule' = <<rule[1] + 1, 1, 1>>
         /\ UNCHANGED <<target, connected>>
    ELSE AfterIngresses

(* A failed List is an error of ingressPatch, which nobody looks at. *)
ListIngresses ==
  /\ pc = "ingresses"
  /\ \E some \in BOOLEAN :
       /\ Call(Done(restore[Here]) /\ rule \in Rules, "ingress", some)
       /\ IF some THEN Goto("rule") ELSE NextNamespace
  /\ UNCHANGED <<veleroVars, workload, early>>

(* The rule after this one in the listing. *)
NextRule ==
  LET next == <<rule[1], rule[2], rule[3] + 1>>
      jump == <<rule[1], rule[2] + 1, 1>>
  IN CASE next \in Rules -> rule' = next /\ UNCHANGED <<pc, target, connected>>
       [] next \notin Rules /\ jump \in Rules -> rule' = jump /\ UNCHANGED <<pc, target, connected>>
       [] OTHER -> NextNamespace

(* getHostName appends the suffix to whatever the host is now. *)
getHostName(n) == IF n < 2 THEN n + 1 ELSE n

\* Mutant: a refused Update is only logged.
PatchRuleGoesOn ==
  /\ pc = "rule"
  /\ \E ok \in BOOLEAN :
       /\ Call(rule[3] = 1, "ingress", ok)
       /\ hosts' = IF ok THEN [hosts EXCEPT ![Here][rule] = getHostName(@)] ELSE hosts
       /\ NextRule
  /\ UNCHANGED <<veleroVars, annotated, early>>

(* The listed ingress is updated once per rule, from the same copy, which  *)
(* is old after the first Update: the second one is refused, and a refusal *)
(* ends ingressPatch.                                                      *)
PatchRule ==
  /\ pc = "rule"
  /\ \E ok \in BOOLEAN :
       /\ Call(rule[3] = 1, "ingress", ok)
       /\ hosts' = IF ok THEN [hosts EXCEPT ![Here][rule] = getHostName(@)] ELSE hosts
       /\ IF ok THEN NextRule ELSE NextNamespace
  /\ UNCHANGED <<veleroVars, annotated, early>>

-----------------------------------------------------------------------------
(* Velero, and the operator's end.                                         *)

InstallVelero(c) ==
  /\ c \notin velero
  /\ velero' = velero \cup {c}
  /\ UNCHANGED <<backup, synced, restore, workload, pass, failures, early>>

VeleroEnds == {"Completed"} \cup (IF "velero" \in Faults THEN {"PartiallyFailed"} ELSE {})

(* A Backup that is found invalid is never known anywhere. *)
BackUp ==
  /\ backup = "New"
  /\ backup' \in VeleroEnds \cup (IF "velero" \in Faults THEN {"FailedValidation"} ELSE {})
  /\ UNCHANGED <<velero, synced, restore, workload, pass, failures, early>>

(* A Velero that shares the bucket learns of a Backup that is done. *)
SyncBackup(c) ==
  /\ c \in velero /\ c \notin synced /\ Done(backup)
  /\ synced' = synced \cup {c}
  /\ UNCHANGED <<velero, backup, restore, workload, pass, failures, early>>

(* A Restore of a Backup its cluster does not know is invalid for ever. *)
RunRestore(c) ==
  /\ restore[c] = "New"
  /\ \E end \in IF c \in synced THEN VeleroEnds ELSE {"FailedValidation"} :
       restore' = [restore EXCEPT ![c] = end]
  /\ UNCHANGED <<velero, backup, synced, workload, pass, failures, early>>

CrashRestart ==
  /\ failures < MaxFailures
  /\ Panic

-----------------------------------------------------------------------------
Init ==
  /\ velero = {} /\ backup = "absent" /\ synced = {}
  /\ restore = [c \in Clusters |-> "absent"]
  /\ annotated = [c \in Clusters |-> {}]
  /\ hosts = [c \in Clusters |-> [r \in Rules |-> 0]]
  /\ pc = "idle" /\ target = 1 /\ rule = FirstRule /\ connected = FALSE
  /\ failures = 0 /\ early = {}

ReconcileStep ==
  \/ BeginPass \/ AnnotateServices \/ AnnotatePanics
  \/ ConnectPrimary \/ StageEndsPass \/ FindCluster \/ ClusterMissing \/ ClusterPanics
  \/ GetBackup \/ BackupPanics \/ CreateBackup \/ waitForBackUp
  \/ GetRestore \/ CreateRestore \/ waitForRestore
  \/ ListIngresses \/ PatchRule

VeleroStep ==
  \/ BackUp
  \/ \E c \in Clusters \cup {"primary"} : InstallVelero(c)
  \/ \E c \in Clusters : SyncBackup(c) \/ RunRestore(c)

Next == ReconcileStep \/ VeleroStep \/ CrashRestart

Spec == Init /\ [][Next]_vars

(* Workers work and informers resync, and Velero gets installed and does   *)
(* what it is asked for.  That passes get past the other stages is what    *)
(* Universe.tla shows.                                                     *)
Fairness ==
  /\ WF_vars(ReconcileStep) /\ WF_vars(BackUp)
  /\ \A c \in Clusters \cup {"primary"} : WF_vars(InstallVelero(c))
  /\ \A c \in Clusters : WF_vars(SyncBackup(c)) /\ WF_vars(RunRestore(c))

LiveSpec == Spec /\ Fairness

-----------------------------------------------------------------------------
(* Properties.                                                             *)

(* The values every variable ranges over. *)
TypeOK ==
  /\ velero \subseteq Clusters \cup {"primary"} /\ backup \in Phases /\ synced \subseteq Clusters
  /\ restore \in [Clusters -> Phases]
  /\ annotated \in [Clusters -> SUBSET Services]
  /\ hosts \in [Clusters -> [Rules -> 0 .. 2]]
  /\ pc \in Steps /\ target \in 1 .. Len(Targets)
  /\ rule \in Nat \X Nat \X Nat /\ (pc = "rule" => rule \in Rules)
  /\ connected \in BOOLEAN /\ failures \in 0 .. MaxFailures /\ early \subseteq Clusters

(* No Restore is lost to failures, missing clusters, refused calls or the   *)
(* waits for other clusters: each cluster's workload is restored in the    *)
(* end, unless its Restore was asked for too early and is now invalid.     *)
RestoredUnlessEarly ==
  <>[](\A c \in Clusters :
         Done(restore[c]) \/ (c \in early /\ restore[c] = "FailedValidation"))

(* What was restored, if only in part, is annotated for image updates by a *)
(* later pass, although the pass that restores looks for deployments first. *)
ServicesAnnotated == \A c \in Clusters : Done(restore[c]) ~> annotated[c] = Services

(* The rules ingressPatch gets to: the first of each ingress, up to the    *)
(* first ingress that has a second one.                                    *)
Reached == {r \in Rules : r[3] = 1 /\ \A i \in 1 .. r[2] - 1 : Ingresses[r[1]][i] = 1}

(* The hosts of those rules get the Universe's name in the end, so that    *)
(* the preview does not answer for the primary cluster's hosts.            *)
HostsRenamed ==
  \A c \in Clusters : Done(restore[c]) ~> \A r \in Reached : hosts[c][r] > 0

(* A host is never renamed ahead of an earlier one of its namespace, since *)
(* the first refused Update ends a patch: failures and conflicts leave a    *)
(* prefix renamed.                                                         *)
RenamedInOrder ==
  \A c \in Clusters : \A r, q \in Rules :
    r[1] = q[1] /\ (r[2] < q[2] \/ (r[2] = q[2] /\ r[3] < q[3]))
      => hosts[c][r] >= hosts[c][q]
=============================================================================
