------------------------------- MODULE Addons -------------------------------
(***************************************************************************)
(* What the Universe controller installs in remote clusters once a cluster *)
(* of a Universe runs: an admin account and Velero in the primary cluster, *)
(* which all Universes share, and in the Universe's own; there also the    *)
(* addons its annotations ask for (controllers/cluster-admin.go,           *)
(* velero.go, externaldns.go, nginx.go, external-secrets.go,               *)
(* resource-patcher.go).  Up to ten workers do this at the same time in    *)
(* one process, and tell Helm which cluster is meant through the           *)
(* environment of that process and files in /tmp.  Some jobs look for each *)
(* of their objects; others take the first object they create as the mark  *)
(* of a complete installation.  A nil result makes the operator panic,     *)
(* which ends the passes of all workers.                                   *)
(***************************************************************************)
EXTENDS Integers, Sequences, FiniteSets

CONSTANTS
  Workers,     \* passes over different Universes that may run at one time
  Primary,     \* the primary cluster
  Target,      \* the cluster of each worker's Universe
  Wanted,      \* the addons the annotations of each Universe ask for
  Ready,       \* the clusters with their admin account and Velero in place
  Path,        \* the CA file of each cluster: its address without the dots
  None,        \* no cluster, no path
  Faults,      \* calls that may fail for reasons outside the model
  MaxFailures  \* no more failed calls and crashes than this

(* The jobs.  each: every part is looked up and created if it is missing.  *)
(* first: the first part stands for all.  helm: a release, marked by its   *)
(* namespace, or (ExternalSecrets, in kube-system) by its deployment.      *)
AdminToken ==
  [name |-> "temp", kind |-> "each", parts |-> <<"role", "binding", "account", "secret">>]
AdminUser ==
  [name |-> "pr-admin", kind |-> "each", parts |-> <<"role", "binding">>]
ResourcePatcher ==
  [name |-> "resource-patcher", kind |-> "each",
   parts |-> <<"role", "binding", "account", "deployment">>]
ExternalDns ==
  [name |-> "external-dns", kind |-> "first",
   parts |-> <<"deployment", "account", "role", "binding">>]
Velero == [name |-> "velero", kind |-> "helm", parts |-> <<"namespace", "release">>]
NginxIngress ==
  [name |-> "nginx-ingress", kind |-> "helm", parts |-> <<"namespace", "release">>]
ExternalSecrets == [name |-> "external-secrets", kind |-> "helm", parts |-> <<"release">>]

\* Mutant: ExternalSecrets gets the client and the secret of the primary cluster.
PassOrderSource ==
  <<[job |-> AdminToken, on |-> "primary"], [job |-> Velero, on |-> "primary"],
    [job |-> AdminToken, on |-> "target"], [job |-> Velero, on |-> "target"],
    [job |-> ExternalSecrets, on |-> "primary"]>>

(* The order in which a pass does them, and where. *)
PassOrder ==
  <<[job |-> AdminToken, on |-> "primary"], [job |-> Velero, on |-> "primary"],
    [job |-> AdminToken, on |-> "target"], [job |-> Velero, on |-> "target"],
    [job |-> AdminUser, on |-> "target"], [job |-> ResourcePatcher, on |-> "target"],
    [job |-> ExternalDns, on |-> "target"], [job |-> NginxIngress, on |-> "target"],
    [job |-> ExternalSecrets, on |-> "target"]>>

Clusters == {Primary} \cup {Target[w] : w \in Workers}
Paths == {Path[c] : c \in Clusters}
Optional == {"pr-admin", "resource-patcher", "external-dns", "nginx-ingress", "external-secrets"}

(* The tasks of PassOrder that a pass of w does, and those among them that *)
(* come after task n.                                                      *)
Does(w, i) == PassOrder[i].job.name \in {"temp", "velero"} \cup Wanted[w]
TasksAfter(w, n) == {i \in DOMAIN PassOrder : i > n /\ Does(w, i)}
PartsOf(job) == {<<job.name, job.parts[j]>> : j \in DOMAIN job.parts}
Objects ==
  UNION {PartsOf(PassOrder[i].job) \cup {<<PassOrder[i].job.name, "failed release">>} :
           i \in DOMAIN PassOrder}
SetUp == PartsOf(AdminToken) \cup PartsOf(Velero)

ASSUME ClustersAssumption ==
  /\ \A w \in Workers : Target[w] # Primary
  /\ \A v, w \in Workers : Target[v] = Target[w] => v = w
  /\ None \notin Clusters \cup Paths /\ Ready \subseteq Clusters
ASSUME WantedAssumption == Wanted \in [Workers -> SUBSET Optional]
ASSUME AddonsFaultsAssumption == Faults \subseteq {"connect", "get", "create", "chart"}
ASSUME AddonsBoundsAssumption == MaxFailures \in Nat

VARIABLES
  objects,  \* what exists in each cluster, pairs of a job's name and a part
  tokens,   \* the clusters whose admin secret has been filled in
  environ,  \* HELM_KUBETOKEN, HELM_KUBEAPISERVER and HELM_KUBECAFILE
  files,    \* the CA certificates in /tmp
  pass,     \* each worker's pass
  failures, \* failed calls and crashes so far
  mixed,    \* history: workers whose settings for Helm another one wrote over
  cut       \* history: jobs cut short, by cluster

vars == <<objects, tokens, environ, files, pass, failures, mixed, cut>>

NoSettings == [token |-> None, server |-> None, cafile |-> None]
Idle == [pc |-> "idle", task |-> 1, part |-> 1, secret |-> "nil", settings |-> NoSettings]

(* Between writing the first setting for Helm and the end of its use. *)
HelmSteps == {"token", "server", "cafile", "settings", "marker", "namespace", "install"}
Steps == HelmSteps \cup {"idle", "connect", "get", "create", "secret", "ca"}

On(w, i) == IF PassOrder[i].on = "primary" THEN Primary ELSE Target[w]
Cluster(w) == On(w, pass[w].task)
Job(w) == PassOrder[pass[w].task].job
Object(w) == <<Job(w).name, Job(w).parts[pass[w].part]>>
Exists(w) == Object(w) \in objects[Cluster(w)]

MayFail(fault) == fault \in Faults /\ failures < MaxFailures
Fail(fault) == MayFail(fault) /\ failures' = failures + 1

Goto(w, step) == pass' = [pass EXCEPT ![w].pc = step]

(* A connection is made before each admin token. *)
FirstStep(job) ==
  IF job = AdminToken THEN "connect" ELSE IF job.kind = "helm" THEN "ca" ELSE "get"

(* On to the next job with the secret of the last admin token, or to the   *)
(* rest of Reconcile.                                                      *)
NextTask(w, secret) ==
  LET later == TasksAfter(w, pass[w].task) IN
    \/ /\ later = {}
       /\ pass' = [pass EXCEPT ![w] = Idle]
    \/ \E next \in later :
         LET job == PassOrder[next].job IN
           /\ \A i \in later : next <= i
           /\ pass' = [pass EXCEPT ![w] =
                         [pc |-> FirstStep(job), task |-> next, part |-> 1,
                          secret |-> IF job = AdminToken THEN "nil" ELSE secret,
                          settings |-> NoSettings]]

(* A job returns an error, which is logged; the admin token is then nil. *)
JobFails(w) == NextTask(w, IF Job(w) = AdminToken THEN "nil" ELSE pass[w].secret)

JobDone(w) ==
  IF Job(w) = AdminToken THEN Goto(w, "secret") ELSE NextTask(w, pass[w].secret)

NextPart(w, step) ==
  IF pass[w].part < Len(Job(w).parts)
    THEN pass' = [pass EXCEPT ![w].pc = step, ![w].part = @ + 1]
    ELSE JobDone(w)

(* Jobs with a mark that are past the look at it. *)
InProgress(w) ==
  \/ pass[w].pc = "create" /\ Job(w).kind = "first"
  \/ pass[w].pc \in {"namespace", "install"}

(* The operator dies: all passes, its environment and its files are lost. *)
Panic ==
  /\ pass' = [w \in Workers |-> Idle]
  /\ environ' = NoSettings /\ files' = [p \in Paths |-> None]
  /\ mixed' = {}
  /\ cut' = cut \cup {<<Cluster(w), Job(w).name>> : w \in {v \in Workers : InProgress(v)}}
  /\ UNCHANGED <<objects, tokens>>

-----------------------------------------------------------------------------
(* Jobs that create objects.                                               *)

BeginPass(w) ==
  /\ pass[w].pc = "idle"
  /\ Goto(w, "connect")
  /\ UNCHANGED <<objects, tokens, environ, files, failures, mixed, cut>>

(* GetGKEClientset waits for the cluster to run and to answer. *)
Connect(w) ==
  /\ pass[w].pc = "connect"
  /\ Goto(w, "get")
  /\ UNCHANGED <<objects, tokens, environ, files, failures, mixed, cut>>

(* It gave up: the error is logged, and the nil configuration used. *)
ConnectPanics(w) ==
  /\ pass[w].pc = "connect" /\ Fail("connect")
  /\ Panic

\* Mutant: the first part of every job stands for all.
GetFoundFirst(w) ==
  /\ pass[w].pc = "get" /\ Exists(w)
  /\ JobDone(w)
  /\ UNCHANGED <<objects, tokens, environ, files, failures, mixed, cut>>

(* A part that exists, of a job that looks for each; or the mark. *)
GetFound(w) ==
  /\ pass[w].pc = "get" /\ Exists(w)
  /\ IF Job(w).kind = "each" THEN NextPart(w, "get") ELSE JobDone(w)
  /\ UNCHANGED <<objects, tokens, environ, files, failures, mixed, cut>>

GetNotFound(w) ==
  /\ pass[w].pc = "get" /\ ~Exists(w)
  /\ Goto(w, "create")
  /\ UNCHANGED <<objects, tokens, environ, files, failures, mixed, cut>>

(* Any other error ends the job, except that ResourcePatcher goes on when  *)
(* it cannot look for its account.                                         *)
GetFails(w) ==
  /\ pass[w].pc = "get" /\ Fail("get")
  /\ IF Object(w) = <<"resource-patcher", "account">> THEN NextPart(w, "get") ELSE JobFails(w)
  /\ UNCHANGED <<objects, tokens, environ, files, mixed, cut>>

Create(w) ==
  /\ pass[w].pc = "create" /\ ~Exists(w)
  /\ objects' = [objects EXCEPT ![Cluster(w)] = @ \cup {Object(w)}]
  /\ NextPart(w, IF Job(w).kind = "each" THEN "get" ELSE "create")
  /\ UNCHANGED <<tokens, environ, files, failures, mixed, cut>>

(* Another worker was faster. *)
CreateExists(w) ==
  /\ pass[w].pc = "create" /\ Exists(w)
  /\ JobFails(w)
  /\ UNCHANGED <<objects, tokens, environ, files, failures, mixed, cut>>

CreateFails(w) ==
  /\ pass[w].pc = "create" /\ Fail("create")
  /\ JobFails(w)
  /\ cut' = IF Job(w).kind = "first" THEN cut \cup {<<Cluster(w), Job(w).name>>} ELSE cut
  /\ UNCHANGED <<objects, tokens, environ, files, mixed>>

(* "Get secret with data filled": the wait ends with any secret, and with  *)
(* an empty one on an error.                                               *)
GetSecret(w) ==
  /\ pass[w].pc = "secret"
  /\ NextTask(w, IF Cluster(w) \in tokens THEN "filled" ELSE "empty")
  /\ UNCHANGED <<objects, tokens, environ, files, failures, mixed, cut>>

GetSecretFails(w) ==
  /\ pass[w].pc = "secret" /\ Fail("get")
  /\ NextTask(w, "empty")
  /\ UNCHANGED <<objects, tokens, environ, files, mixed, cut>>

-----------------------------------------------------------------------------
(* Jobs that install a Helm release.                                       *)

Filled(w) == IF pass[w].secret = "filled" THEN Cluster(w) ELSE None

(* A write to what all workers share, seen by those in the middle of it. *)
Shared(w) == mixed' = mixed \cup {v \in Workers \ {w} : pass[v].pc \in HelmSteps}

\* Mutant: a nil secret is an empty one.
WriteCAOfNil(w) ==
  /\ pass[w].pc = "ca"
  /\ files' = [files EXCEPT ![Path[Cluster(w)]] = Filled(w)]
  /\ Shared(w)
  /\ Goto(w, "token")
  /\ UNCHANGED <<objects, tokens, environ, failures, cut>>

WriteCA(w) ==
  /\ pass[w].pc = "ca" /\ pass[w].secret # "nil"
  /\ files' = [files EXCEPT ![Path[Cluster(w)]] = Filled(w)]
  /\ Shared(w)
  /\ Goto(w, "token")
  /\ UNCHANGED <<objects, tokens, environ, failures, cut>>

(* The Data of a nil secret. *)
SecretPanics(w) ==
  /\ pass[w].pc = "ca" /\ pass[w].secret = "nil"
  /\ Panic
  /\ UNCHANGED failures

SetToken(w) ==
  /\ pass[w].pc = "token"
  /\ environ' = [environ EXCEPT !.token = Filled(w)]
  /\ Shared(w) /\ Goto(w, "server")
  /\ UNCHANGED <<objects, tokens, files, failures, cut>>

SetServer(w) ==
  /\ pass[w].pc = "server"
  /\ environ' = [environ EXCEPT !.server = Cluster(w)]
  /\ Shared(w) /\ Goto(w, "cafile")
  /\ UNCHANGED <<objects, tokens, files, failures, cut>>

\* Mutant: HELM_KUBECAFILE is not set.
SetCAFileForgotten(w) ==
  /\ pass[w].pc = "cafile"
  /\ Shared(w) /\ Goto(w, "settings")
  /\ UNCHANGED <<objects, tokens, environ, files, failures, cut>>

SetCAFile(w) ==
  /\ pass[w].pc = "cafile"
  /\ environ' = [environ EXCEPT !.cafile = Path[Cluster(w)]]
  /\ Shared(w) /\ Goto(w, "settings")
  /\ UNCHANGED <<objects, tokens, files, failures, cut>>

(* cli.New takes the settings from the environment. *)
ReadSettings(w) ==
  /\ pass[w].pc = "settings"
  /\ pass' = [pass EXCEPT ![w].pc = "marker", ![w].settings = environ]
  /\ UNCHANGED <<objects, tokens, environ, files, failures, mixed, cut>>

(* The mark, in the cluster that is meant; an error is as good as finding it. *)
GetMarker(w) ==
  /\ pass[w].pc = "marker" /\ ~Exists(w)
  /\ Goto(w, IF Len(Job(w).parts) = 2 THEN "namespace" ELSE "install")
  /\ UNCHANGED <<objects, tokens, environ, files, failures, mixed, cut>>

MarkerFound(w) ==
  /\ pass[w].pc = "marker"
  /\ IF Exists(w) THEN UNCHANGED failures ELSE Fail("get")
  /\ NextTask(w, pass[w].secret) /\ mixed' = mixed \ {w}
  /\ UNCHANGED <<objects, tokens, environ, files, cut>>

(* The error of the Create is not looked at. *)
CreateNamespace(w) ==
  /\ pass[w].pc = "namespace"
  /\ \/ /\ objects' = [objects EXCEPT ![Cluster(w)] = @ \cup {Object(w)}]
        /\ UNCHANGED failures
     \/ Fail("create") /\ UNCHANGED objects
  /\ Goto(w, "install")
  /\ UNCHANGED <<tokens, environ, files, mixed, cut>>

(* Helm gets through to the cluster of its settings with that cluster's    *)
(* token and CA, finds the namespace there and the name unused.            *)
InstallWorks(w) ==
  LET s == pass[w].settings
      name == Job(w).name IN
    /\ s.server # None /\ s.token = s.server
    /\ s.cafile # None /\ files[s.cafile] = s.server
    /\ Len(Job(w).parts) = 2 => <<name, "namespace">> \in objects[s.server]
    /\ {<<name, "release">>, <<name, "failed release">>} \cap objects[s.server] = {}

(* After an Install that left no release in the cluster that is meant, for *)
(* a reason other than the code of this pass.                              *)
CutShort(w, failed) ==
  IF <<Job(w).name, "release">> \notin objects'[Cluster(w)]
     /\ (failed \/ w \in mixed \/ pass[w].secret = "empty")
    THEN cut \cup {<<Cluster(w), Job(w).name>>} ELSE cut

Install(w) ==
  /\ pass[w].pc = "install"
  /\ objects' = IF InstallWorks(w)
                  THEN [objects EXCEPT ![pass[w].settings.server] =
                          @ \cup {<<Job(w).name, "release">>}]
                  ELSE objects
  /\ cut' = CutShort(w, FALSE)
  /\ NextTask(w, pass[w].secret) /\ mixed' = mixed \ {w}
  /\ UNCHANGED <<tokens, environ, files, failures>>

(* The chart cannot be had, or not all of it can be created: then the name *)
(* is used up in the cluster the settings lead to.                         *)
InstallFails(w) ==
  /\ pass[w].pc = "install" /\ Fail("chart")
  /\ \/ UNCHANGED objects /\ cut' = CutShort(w, TRUE)
     \/ /\ InstallWorks(w)
        /\ objects' = [objects EXCEPT ![pass[w].settings.server] =
                         @ \cup {<<Job(w).name, "failed release">>}]
        /\ cut' = CutShort(w, TRUE) \cup {<<pass[w].settings.server, Job(w).name>>}
  /\ NextTask(w, pass[w].secret) /\ mixed' = mixed \ {w}
  /\ UNCHANGED <<tokens, environ, files>>

-----------------------------------------------------------------------------
(* Kubernetes fills in the token of an account, once both are there. *)
FillToken(c) ==
  /\ {<<"temp", "account">>, <<"temp", "secret">>} \subseteq objects[c]
  /\ c \notin tokens
  /\ tokens' = tokens \cup {c}
  /\ UNCHANGED <<objects, environ, files, pass, failures, mixed, cut>>

CrashRestart ==
  /\ failures < MaxFailures /\ failures' = failures + 1
  /\ Panic

(* The operator starts, perhaps not for the first time. *)
Init ==
  /\ objects = [c \in Clusters |-> IF c \in Ready THEN SetUp ELSE {}] /\ tokens = Ready
  /\ environ = NoSettings /\ files = [p \in Paths |-> None]
  /\ pass = [w \in Workers |-> Idle]
  /\ failures = 0 /\ mixed = {} /\ cut = {}

WorkerStep(w) ==
  \/ BeginPass(w) \/ Connect(w) \/ ConnectPanics(w)
  \/ GetFound(w) \/ GetNotFound(w) \/ GetFails(w)
  \/ Create(w) \/ CreateExists(w) \/ CreateFails(w) \/ GetSecret(w) \/ GetSecretFails(w)
  \/ WriteCA(w) \/ SecretPanics(w) \/ SetToken(w) \/ SetServer(w) \/ SetCAFile(w)
  \/ ReadSettings(w) \/ GetMarker(w) \/ MarkerFound(w) \/ CreateNamespace(w)
  \/ Install(w) \/ InstallFails(w)

Next ==
  \/ \E w \in Workers : WorkerStep(w)
  \/ \E c \in Clusters : FillToken(c)
  \/ CrashRestart

Spec == Init /\ [][Next]_vars

(* Every worker's Universe is reconciled again and again. *)
Fairness == \A w \in Workers : WF_vars(WorkerStep(w))

LiveSpec == Spec /\ Fairness

-----------------------------------------------------------------------------
(* Properties.                                                             *)

SettingsType ==
  [token : Clusters \cup {None}, server : Clusters \cup {None}, cafile : Paths \cup {None}]

(* The values every variable ranges over; Helm is never run on the token   *)
(* of a nil secret.                                                        *)
TypeOK ==
  /\ objects \in [Clusters -> SUBSET Objects] /\ tokens \subseteq Clusters
  /\ environ \in SettingsType /\ files \in [Paths -> Clusters \cup {None}]
  /\ \A w \in Workers :
       /\ pass[w].pc \in Steps /\ pass[w].task \in TasksAfter(w, 0)
       /\ pass[w].part \in 1 .. Len(Job(w).parts)
       /\ pass[w].secret \in {"nil", "empty", "filled"} /\ pass[w].settings \in SettingsType
       /\ pass[w].pc \in HelmSteps => pass[w].secret # "nil"
  /\ failures \in 0 .. MaxFailures /\ mixed \subseteq Workers

Asked(c, name) ==
  name \in {"temp", "velero"} \/ \E w \in Workers : Target[w] = c /\ name \in Wanted[w]

(* Whatever appears in a cluster, the annotations of the cluster's         *)
(* Universe ask for it there and a pass is about it, unless it is the      *)
(* release of a worker whose settings another one wrote over: the race for *)
(* the environment is the only way for an addon to stray.                  *)
InstalledWhereAsked ==
  [][\A c \in Clusters : \A o \in objects'[c] \ objects[c] :
       \/ Asked(c, o[1]) /\ \E w \in Workers : Cluster(w) = c /\ Job(w).name = o[1]
       \/ \E w \in mixed : pass[w].pc = "install" /\ pass'[w].pc # "install"]_vars

(* An addon whose mark exists is complete or being completed, unless its   *)
(* installation was cut short: by a crash or a panic (of any worker), a    *)
(* failed call (of any worker that was led here), a token that was not     *)
(* filled in yet, or an environment another worker wrote over.  Nothing    *)
(* else leaves one half installed.                                         *)
WholeUnlessCut ==
  \A w \in Workers : \A i \in TasksAfter(w, 0) :
    LET job == PassOrder[i].job
        c == On(w, i)
        Has(part) == <<job.name, part>> \in objects[c]
    IN job.kind # "each" /\ Has(job.parts[1]) =>
         \/ \A j \in DOMAIN job.parts : Has(job.parts[j])
         \/ <<c, job.name>> \in cut
         \/ \E v \in Workers : InProgress(v) /\ Cluster(v) = c /\ Job(v).name = job.name

(* Jobs that look for each of their objects are complete in the end,       *)
(* whatever was cut short: the races of workers in the primary cluster,    *)
(* though one of them takes the operator down, do not go on for ever.      *)
EachCompleted ==
  <>[](\A w \in Workers : \A i \in TasksAfter(w, 0) :
         LET job == PassOrder[i].job IN
           job.kind = "each" =>
             \A j \in DOMAIN job.parts : <<job.name, job.parts[j]>> \in objects[On(w, i)])
=============================================================================
