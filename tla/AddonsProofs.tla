---------------------------- MODULE AddonsProofs ----------------------------
(***************************************************************************)
(* Theorems about the installation of addons, for every number of workers, *)
(* failures and crashes, whatever files the clusters share in /tmp.        *)
(***************************************************************************)
EXTENDS Addons, TLAPS

-----------------------------------------------------------------------------
(* The jobs.                                                               *)

Each == {AdminToken, AdminUser, ResourcePatcher}
Helm == {Velero, NginxIngress, ExternalSecrets}

(* What distinguishes the jobs of a pass. *)
LEMMA OrderFacts ==
  ASSUME NEW i \in DOMAIN PassOrder
  PROVE  /\ i \in Nat /\ i >= 1
         /\ PassOrder[i].job \in Each \cup Helm \cup {ExternalDns}
         /\ PassOrder[i].on = "primary" => PassOrder[i].job \in {AdminToken, Velero}
<1>1. i \in 1 .. 9
  BY DEF PassOrder
<1>2. i = 1 \/ i = 2 \/ i = 3 \/ i = 4 \/ i = 5 \/ i = 6 \/ i = 7 \/ i = 8 \/ i = 9
  BY <1>1
<1> QED
  BY <1>1, <1>2 DEF PassOrder, Each, Helm

(* The names and parts of the jobs. *)
LEMMA JobFacts ==
  /\ \A job \in Each :
       /\ job.kind = "each" /\ job.name \notin {"external-dns", "velero", "nginx-ingress", "external-secrets"}
       /\ Len(job.parts) \in Nat \ {0} /\ DOMAIN job.parts = 1 .. Len(job.parts)
  /\ \A job \in Helm :
       /\ job.kind = "helm" /\ job.name \in {"velero", "nginx-ingress", "external-secrets"}
       /\ job # AdminToken /\ Len(job.parts) \in 1 .. 2 /\ DOMAIN job.parts = 1 .. Len(job.parts)
       /\ job.parts[Len(job.parts)] = "release"
       /\ Len(job.parts) = 2 => job.parts[1] = "namespace"
  /\ ExternalDns.kind = "first" /\ ExternalDns.name = "external-dns" /\ ExternalDns # AdminToken
  /\ Len(ExternalDns.parts) = 4 /\ DOMAIN ExternalDns.parts = 1 .. 4
  BY DEF Each, Helm, AdminToken, AdminUser, ResourcePatcher, Velero, NginxIngress,
         ExternalSecrets, ExternalDns

(* The first task of a pass, the admin token of the primary cluster. *)
LEMMA FirstTask ==
  /\ 1 \in DOMAIN PassOrder /\ PassOrder[1].job = AdminToken /\ PassOrder[1].on = "primary"
  /\ AdminToken.name = "temp" /\ AdminToken \in Each
  BY DEF PassOrder, AdminToken, Each

(* The objects of the clusters are those of the jobs. *)
LEMMA ObjectFacts ==
  ASSUME NEW i \in DOMAIN PassOrder
  PROVE  /\ PartsOf(PassOrder[i].job) \subseteq Objects
         /\ <<PassOrder[i].job.name, "failed release">> \in Objects
<1> DEFINE S(n) == PartsOf(PassOrder[n].job) \cup {<<PassOrder[n].job.name, "failed release">>}
<1>1. PartsOf(PassOrder[i].job) \subseteq S(i) /\ <<PassOrder[i].job.name, "failed release">> \in S(i)
  OBVIOUS
<1>2. Objects = UNION {S(n) : n \in DOMAIN PassOrder}
  BY DEF Objects
<1> HIDE DEF S
<1>3. S(i) \subseteq UNION {S(n) : n \in DOMAIN PassOrder}
  OBVIOUS
<1> QED
  BY <1>1, <1>2, <1>3

-----------------------------------------------------------------------------
(* Where a pass is.                                                        *)

PassType ==
  [pc : Steps, task : DOMAIN PassOrder, part : Nat \ {0},
   secret : {"nil", "empty", "filled"}, settings : SettingsType]

(* A pass of w may be at q: the steps of Helm belong to jobs that install  *)
(* a release, with a secret, and the others to jobs that create objects.   *)
PassOK(w, q) ==
  LET job == PassOrder[q.task].job IN
    /\ q \in PassType
    /\ Does(w, q.task) /\ q.part \in 1 .. Len(job.parts)
    /\ q.pc \in {"idle", "connect", "secret"} => job = AdminToken
    /\ q.pc \in {"get", "create"} => job \notin Helm
    /\ q.pc = "get" /\ job.kind # "each" => q.part = 1
    /\ q.pc \in HelmSteps \cup {"ca"} => job \in Helm /\ q.part = 1
    /\ q.pc \in HelmSteps => q.secret # "nil"
    /\ q.pc = "namespace" => Len(job.parts) = 2

PassInv == pass \in [Workers -> PassType] /\ \A w \in Workers : PassOK(w, pass[w])

ValuesInv ==
  /\ objects \in [Clusters -> SUBSET Objects] /\ tokens \subseteq Clusters
  /\ environ \in SettingsType /\ files \in [Paths -> Clusters \cup {None}]
  /\ failures \in 0 .. MaxFailures /\ mixed \subseteq Workers

TypeInv == ValuesInv /\ PassInv

(* What a worker is about. *)
LEMMA WorkerFacts ==
  ASSUME PassInv, NEW w \in Workers
  PROVE  /\ pass[w] \in PassType /\ PassOK(w, pass[w]) /\ pass[w].task \in DOMAIN PassOrder
         /\ Job(w) \in Each \cup Helm \cup {ExternalDns} /\ Does(w, pass[w].task)
         /\ pass[w].part \in 1 .. Len(Job(w).parts) /\ DOMAIN Job(w).parts = 1 .. Len(Job(w).parts)
         /\ Cluster(w) \in Clusters /\ Path[Cluster(w)] \in Paths
         /\ Object(w) \in Objects
<1>1. /\ pass[w] \in PassType /\ PassOK(w, pass[w]) /\ pass[w].task \in DOMAIN PassOrder
  BY DEF PassInv, PassType
<1>2. /\ Job(w) \in Each \cup Helm \cup {ExternalDns} /\ Does(w, pass[w].task)
      /\ pass[w].part \in 1 .. Len(Job(w).parts)
  BY <1>1, OrderFacts DEF PassOK, Job
<1>3. DOMAIN Job(w).parts = 1 .. Len(Job(w).parts)
  BY <1>2, JobFacts
<1>4. Cluster(w) \in Clusters /\ Path[Cluster(w)] \in Paths
  BY DEF Cluster, On, Clusters, Paths
<1>5. Object(w) \in PartsOf(PassOrder[pass[w].task].job)
  BY <1>2, <1>3 DEF Object, PartsOf, Job
<1>6. Object(w) \in Objects
  BY <1>1, <1>5, ObjectFacts
<1> QED
  BY <1>1, <1>2, <1>3, <1>4, <1>6

(* A worker at rest. *)
LEMMA IdleOK ==
  ASSUME NEW w \in Workers
  PROVE  Idle \in PassType /\ PassOK(w, Idle)
<1>1. Idle \in PassType
  BY FirstTask DEF Idle, PassType, Steps, NoSettings, SettingsType
<1>2. Len(AdminToken.parts) \in Nat \ {0}
  BY FirstTask, JobFacts
<1> QED
  BY <1>1, <1>2, FirstTask DEF PassOK, Idle, Does, HelmSteps

(* The next task begins at its first step. *)
LEMMA NextTaskOK ==
  ASSUME PassInv, NEW w \in Workers, NEW secret \in {"nil", "empty", "filled"},
         NextTask(w, secret)
  PROVE  \E q \in PassType : /\ PassOK(w, q) /\ pass' = [pass EXCEPT ![w] = q]
                             /\ q.pc \in {"idle", "connect", "ca", "get"}
<1>1. CASE pass' = [pass EXCEPT ![w] = Idle]
  BY <1>1, IdleOK DEF Idle
<1>2. CASE pass' # [pass EXCEPT ![w] = Idle]
  <2> DEFINE job(i) == PassOrder[i].job
             q(i) == [pc |-> FirstStep(job(i)), task |-> i, part |-> 1,
                      secret |-> IF job(i) = AdminToken THEN "nil" ELSE secret,
                      settings |-> NoSettings]
  <2>1. PICK next \in TasksAfter(w, pass[w].task) : pass' = [pass EXCEPT ![w] = q(next)]
    BY <1>2 DEF NextTask
  <2>2. next \in DOMAIN PassOrder /\ Does(w, next)
    BY <2>1 DEF TasksAfter
  <2>3. job(next) \in Each \cup Helm \cup {ExternalDns}
    BY <2>2, OrderFacts
  <2>4. Len(job(next).parts) \in Nat \ {0} /\ (job(next).kind = "helm" <=> job(next) \in Helm)
    <3>1. CASE job(next) \in Each
      BY <3>1, JobFacts
    <3>2. CASE job(next) \in Helm
      BY <3>2, JobFacts
    <3>3. CASE job(next) = ExternalDns
      BY <3>3, JobFacts
    <3> QED
      BY <2>3, <3>1, <3>2, <3>3
  <2>5. FirstStep(job(next)) \in {"connect", "ca", "get"}
    BY DEF FirstStep
  <2>6. NoSettings \in SettingsType
    BY DEF NoSettings, SettingsType
  <2>7. q(next) \in PassType
    BY <2>2, <2>5, <2>6 DEF PassType, Steps, HelmSteps
  <2>8. /\ FirstStep(job(next)) = "connect" => job(next) = AdminToken
        /\ FirstStep(job(next)) = "ca" => job(next) \in Helm
        /\ FirstStep(job(next)) = "get" => job(next) \notin Helm
    BY <2>4 DEF FirstStep
  <2>9. PassOK(w, q(next))
    BY <2>2, <2>4, <2>5, <2>7, <2>8 DEF PassOK, HelmSteps
  <2> QED
    BY <2>1, <2>5, <2>7, <2>9
<1> QED
  BY <1>1, <1>2

(* A step of the same job. *)
LEMMA GotoOK ==
  ASSUME PassInv, NEW w \in Workers, NEW step \in Steps, Goto(w, step),
         step = "secret" => Job(w) = AdminToken,
         step # "connect" /\ step # "idle",
         step \in {"get", "create"} => Job(w) \notin Helm,
         step = "get" => Job(w).kind = "each" \/ pass[w].part = 1,
         step \in HelmSteps \cup {"ca"} => Job(w) \in Helm /\ pass[w].part = 1,
         step \in HelmSteps => pass[w].secret # "nil",
         step = "namespace" => Len(Job(w).parts) = 2
  PROVE  \E q \in PassType : PassOK(w, q) /\ pass' = [pass EXCEPT ![w] = q] /\ q.pc = step
<1> DEFINE q == [pass[w] EXCEPT !.pc = step]
<1>1. pass[w] \in PassType /\ PassOK(w, pass[w]) /\ pass \in [Workers -> PassType]
  BY WorkerFacts DEF PassInv
<1>2. /\ q \in PassType /\ q.pc = step /\ q.task = pass[w].task /\ q.part = pass[w].part
      /\ q.secret = pass[w].secret
  BY <1>1 DEF PassType
<1>3. pass' = [pass EXCEPT ![w] = q]
  BY <1>1 DEF Goto
<1> HIDE DEF q
<1>4. PassOK(w, q)
  BY <1>1, <1>2 DEF PassOK, Job
<1> QED
  BY <1>2, <1>3, <1>4

(* A job is over, *)
LEMMA JobFailsOK ==
  ASSUME PassInv, NEW w \in Workers, JobFails(w)
  PROVE  \E q \in PassType : /\ PassOK(w, q) /\ pass' = [pass EXCEPT ![w] = q]
                             /\ q.pc \in {"idle", "connect", "ca", "get"}
<1>1. pass[w].secret \in {"nil", "empty", "filled"}
  BY WorkerFacts DEF PassType
<1> QED
  BY <1>1, NextTaskOK DEF JobFails

(* perhaps with a secret to wait for. *)
LEMMA JobDoneOK ==
  ASSUME PassInv, NEW w \in Workers, JobDone(w)
  PROVE  \E q \in PassType : /\ PassOK(w, q) /\ pass' = [pass EXCEPT ![w] = q]
                             /\ q.pc \in {"idle", "connect", "ca", "get", "secret"}
<1>1. pass[w].secret \in {"nil", "empty", "filled"}
  BY WorkerFacts DEF PassType
<1>2. CASE Job(w) = AdminToken
  <2>1. Goto(w, "secret") /\ "secret" \in Steps /\ "secret" \notin HelmSteps \cup {"ca", "get", "create"}
    BY <1>2 DEF JobDone, Steps, HelmSteps
  <2> QED
    BY <1>2, <2>1, GotoOK
<1>3. CASE Job(w) # AdminToken
  BY <1>1, <1>3, NextTaskOK DEF JobDone
<1> QED
  BY <1>2, <1>3

(* The next part is part of the same job. *)
LEMMA NextPartOK ==
  ASSUME PassInv, NEW w \in Workers, NEW step \in {"get", "create"},
         Job(w) \notin Helm, step = "get" => Job(w).kind = "each", NextPart(w, step)
  PROVE  \E q \in PassType : /\ PassOK(w, q) /\ pass' = [pass EXCEPT ![w] = q]
                             /\ \/ /\ q.pc = step /\ q.part = pass[w].part + 1 /\ q.task = pass[w].task
                                \/ /\ pass[w].part = Len(Job(w).parts)
                                   /\ q.pc \in {"idle", "connect", "ca", "get", "secret"}
<1>1. /\ pass[w] \in PassType /\ PassOK(w, pass[w]) /\ pass \in [Workers -> PassType]
      /\ pass[w].part \in 1 .. Len(Job(w).parts) /\ Len(Job(w).parts) \in Nat
  <2>1. Job(w) \in Each \cup {ExternalDns}
    BY WorkerFacts
  <2>2. Len(Job(w).parts) \in Nat
    BY <2>1, JobFacts
  <2> QED
    BY <2>2, WorkerFacts DEF PassInv
<1>2. CASE pass[w].part < Len(Job(w).parts)
  <2> DEFINE q == [pass[w] EXCEPT !.pc = step, !.part = pass[w].part + 1]
  <2>1. /\ q \in PassType /\ q.pc = step /\ q.task = pass[w].task
        /\ q.part = pass[w].part + 1 /\ q.part \in 1 .. Len(Job(w).parts)
    <3>1. step \in Steps
      BY DEF Steps
    <3>2. pass[w].part + 1 \in Nat \ {0} /\ pass[w].part + 1 \in 1 .. Len(Job(w).parts)
      BY <1>1, <1>2
    <3>3. \A n \in Nat \ {0} : LET r == [pass[w] EXCEPT !.pc = step, !.part = n] IN
            r \in PassType /\ r.pc = step /\ r.task = pass[w].task /\ r.part = n
      BY <1>1, <3>1 DEF PassType
    <3> QED
      BY <3>2, <3>3
  <2>2. pass' = [pass EXCEPT ![w] = q]
    BY <1>1, <1>2 DEF NextPart
  <2> HIDE DEF q
  <2>3. PassOK(w, q)
    BY <1>1, <2>1 DEF PassOK, Job, HelmSteps
  <2> QED
    BY <2>1, <2>2, <2>3
<1>3. CASE ~(pass[w].part < Len(Job(w).parts))
  BY <1>1, <1>3, JobDoneOK DEF NextPart
<1> QED
  BY <1>2, <1>3

(* The steps that lead to, or from one to another of, Helm's. *)
HelmMove(w) ==
  \/ WriteCA(w) \/ SetToken(w) \/ SetServer(w) \/ SetCAFile(w) \/ ReadSettings(w)
  \/ GetMarker(w) \/ CreateNamespace(w)

(* How a step of w moves its pass. *)
LEMMA PassMoves ==
  ASSUME PassInv, environ \in SettingsType, NEW w \in Workers, WorkerStep(w), ~Panic
  PROVE  \E q \in PassType : /\ PassOK(w, q) /\ pass' = [pass EXCEPT ![w] = q]
                             /\ q.pc \in HelmSteps => HelmMove(w)
                             /\ q.pc = "create" => GetNotFound(w) \/ Create(w)
<1>w. /\ pass[w] \in PassType /\ PassOK(w, pass[w]) /\ pass \in [Workers -> PassType]
      /\ pass[w].secret \in {"nil", "empty", "filled"}
      /\ Job(w) \in Each \cup Helm \cup {ExternalDns}
  BY WorkerFacts DEF PassInv, PassType
<1>h. /\ HelmSteps \subseteq Steps /\ {"get", "create", "ca", "connect"} \subseteq Steps
      /\ \A step \in {"idle", "connect", "ca", "get", "create", "secret"} : step \notin HelmSteps
      /\ \A step \in HelmSteps : step # "create"
  BY DEF Steps, HelmSteps
<1>1. CASE BeginPass(w)
  <2> DEFINE q == [pass[w] EXCEPT !.pc = "connect"]
  <2>1. q \in PassType /\ q.pc = "connect" /\ q.task = pass[w].task /\ q.part = pass[w].part
    BY <1>w, <1>h DEF PassType
  <2>2. pass' = [pass EXCEPT ![w] = q] /\ pass[w].pc = "idle"
    BY <1>1, <1>w DEF BeginPass, Goto
  <2> HIDE DEF q
  <2>3. PassOK(w, q)
    BY <1>w, <2>1, <2>2 DEF PassOK, HelmSteps
  <2> QED
    BY <1>h, <2>1, <2>2, <2>3
<1>2. CASE Connect(w)
  <2>1. Job(w) = AdminToken /\ AdminToken \notin Helm /\ AdminToken.kind = "each" /\ Goto(w, "get")
        /\ "get" \notin HelmSteps \cup {"ca"}
    BY <1>2, <1>w, FirstTask, JobFacts DEF Connect, PassOK, Job, HelmSteps
  <2> QED
    BY <1>h, <2>1, GotoOK
<1>3. CASE GetFound(w)
  <2>1. Job(w) \notin Helm
    BY <1>3, <1>w DEF GetFound, PassOK, Job
  <2>2. CASE Job(w).kind = "each"
    BY <1>h, <1>3, <2>1, <2>2, NextPartOK DEF GetFound
  <2>3. CASE Job(w).kind # "each"
    BY <1>h, <1>3, <2>3, JobDoneOK DEF GetFound
  <2> QED
    BY <2>2, <2>3
<1>4. CASE GetNotFound(w)
  <2>1. Job(w) \notin Helm /\ Goto(w, "create") /\ "create" \notin HelmSteps \cup {"ca"}
    BY <1>4, <1>w DEF GetNotFound, PassOK, Job, HelmSteps
  <2> QED
    BY <1>4, <1>h, <2>1, GotoOK
<1>5. CASE GetFails(w)
  <2>1. CASE Object(w) = <<"resource-patcher", "account">>
    <3>1. Job(w).name = "resource-patcher"
      BY <2>1 DEF Object
    <3>2. Job(w) \notin Helm /\ Job(w).kind = "each"
      BY <1>w, <3>1, JobFacts
    <3> QED
      BY <1>h, <1>5, <2>1, <3>2, NextPartOK DEF GetFails
  <2>2. CASE Object(w) # <<"resource-patcher", "account">>
    BY <1>h, <1>5, <2>2, JobFailsOK DEF GetFails
  <2> QED
    BY <2>1, <2>2
<1>6. CASE Create(w)
  <2>1. Job(w) \notin Helm
    BY <1>6, <1>w DEF Create, PassOK, Job
  <2>2. CASE Job(w).kind = "each"
    BY <1>h, <1>6, <2>1, <2>2, NextPartOK DEF Create
  <2>3. CASE Job(w).kind # "each"
    BY <1>h, <1>6, <2>1, <2>3, NextPartOK DEF Create
  <2> QED
    BY <2>2, <2>3
<1>7. CASE CreateExists(w) \/ CreateFails(w)
  BY <1>h, <1>7, JobFailsOK DEF CreateExists, CreateFails
<1>8. CASE GetSecret(w) \/ GetSecretFails(w)
  BY <1>h, <1>8, NextTaskOK DEF GetSecret, GetSecretFails
<1>9. CASE WriteCA(w)
  <2>1. /\ Goto(w, "token") /\ "token" \in HelmSteps /\ pass[w].secret # "nil"
        /\ Job(w) \in Helm /\ pass[w].part = 1
    BY <1>9, <1>w DEF WriteCA, HelmSteps, PassOK, Job
  <2> QED
    BY <1>9, <1>h, <2>1, GotoOK DEF HelmMove
<1>10. ASSUME pass[w].pc \in HelmSteps
       PROVE  Job(w) \in Helm /\ pass[w].part = 1 /\ pass[w].secret # "nil"
  BY <1>10, <1>w DEF PassOK, Job
<1>11. CASE SetToken(w) \/ SetServer(w) \/ SetCAFile(w)
  <2>1. PICK step \in {"server", "cafile", "settings"} : Goto(w, step) /\ pass[w].pc \in HelmSteps
    BY <1>11 DEF SetToken, SetServer, SetCAFile, HelmSteps
  <2>2. step \in HelmSteps
    BY DEF HelmSteps
  <2> QED
    BY <1>11, <1>h, <1>10, <2>1, <2>2, GotoOK DEF HelmMove
<1>12. CASE ReadSettings(w)
  <2> DEFINE q == [pass[w] EXCEPT !.pc = "marker", !.settings = environ]
  <2>1. /\ q \in PassType /\ q.pc = "marker" /\ q.task = pass[w].task /\ q.part = pass[w].part
        /\ q.secret = pass[w].secret
    BY <1>w DEF PassType, Steps, HelmSteps
  <2>2. pass' = [pass EXCEPT ![w] = q] /\ pass[w].pc = "settings"
    BY <1>12, <1>w DEF ReadSettings
  <2> HIDE DEF q
  <2>3. PassOK(w, q)
    BY <1>w, <2>1, <2>2 DEF PassOK, HelmSteps
  <2> QED
    BY <1>12, <1>h, <2>1, <2>2, <2>3 DEF HelmMove
<1>13. CASE GetMarker(w)
  <2>1. PICK step \in {"namespace", "install"} :
          /\ Goto(w, step) /\ pass[w].pc \in HelmSteps
          /\ step = "namespace" => Len(Job(w).parts) = 2
    BY <1>13 DEF GetMarker, HelmSteps
  <2>2. step \in HelmSteps
    BY DEF HelmSteps
  <2> QED
    BY <1>13, <1>h, <1>10, <2>1, <2>2, GotoOK DEF HelmMove
<1>14. CASE MarkerFound(w) \/ Install(w) \/ InstallFails(w)
  BY <1>h, <1>14, <1>w, NextTaskOK DEF MarkerFound, Install, InstallFails
<1>15. CASE CreateNamespace(w)
  <2>1. Goto(w, "install") /\ pass[w].pc \in HelmSteps /\ "install" \in HelmSteps
    BY <1>15 DEF CreateNamespace, HelmSteps
  <2> QED
    BY <1>15, <1>h, <1>10, <2>1, GotoOK DEF HelmMove
<1> QED
  BY <1>1, <1>2, <1>3, <1>4, <1>5, <1>6, <1>7, <1>8, <1>9, <1>11, <1>12, <1>13, <1>14, <1>15
  DEF WorkerStep, ConnectPanics, SecretPanics

-----------------------------------------------------------------------------
(* Type correctness.                                                       *)

(* The initial states have the types. *)
LEMMA TypeInit == Init => TypeInv
<1> SUFFICES ASSUME Init PROVE TypeInv
  OBVIOUS
<1>1. SetUp \subseteq Objects
  <2>1. 2 \in DOMAIN PassOrder /\ PassOrder[2].job = Velero
    BY DEF PassOrder
  <2>2. PartsOf(PassOrder[1].job) \subseteq Objects /\ PartsOf(PassOrder[2].job) \subseteq Objects
    BY <2>1, FirstTask, ObjectFacts
  <2> QED
    BY <2>1, <2>2, FirstTask DEF SetUp
<1>2. ValuesInv
  BY <1>1, ClustersAssumption, AddonsBoundsAssumption
  DEF Init, ValuesInv, NoSettings, SettingsType
<1>3. PassInv
  BY IdleOK DEF Init, PassInv
<1> QED
  BY <1>2, <1>3 DEF TypeInv

(* What Helm leaves in a cluster. *)
LEMMA ReleaseFacts ==
  ASSUME PassInv, NEW w \in Workers, Job(w) \in Helm
  PROVE  <<Job(w).name, "release">> \in Objects /\ <<Job(w).name, "failed release">> \in Objects
<1>1. pass[w].task \in DOMAIN PassOrder /\ Job(w) = PassOrder[pass[w].task].job
  BY WorkerFacts DEF Job
<1>2. Len(Job(w).parts) \in DOMAIN Job(w).parts /\ Job(w).parts[Len(Job(w).parts)] = "release"
  BY JobFacts
<1>3. <<Job(w).name, "release">> \in PartsOf(Job(w))
  BY <1>2 DEF PartsOf
<1> QED
  BY <1>1, <1>3, ObjectFacts

(* Every step of a worker keeps the values of what it shares with others. *)
LEMMA ValuesStep ==
  ASSUME TypeInv, NEW w \in Workers, WorkerStep(w)
  PROVE  ValuesInv'
<1>v. /\ objects \in [Clusters -> SUBSET Objects] /\ tokens \subseteq Clusters
      /\ environ \in SettingsType /\ files \in [Paths -> Clusters \cup {None}]
      /\ failures \in 0 .. MaxFailures /\ mixed \subseteq Workers /\ MaxFailures \in Nat /\ PassInv
  BY AddonsBoundsAssumption DEF TypeInv, ValuesInv
<1>w. /\ Cluster(w) \in Clusters /\ Path[Cluster(w)] \in Paths /\ Object(w) \in Objects
      /\ pass[w] \in PassType /\ PassOK(w, pass[w]) /\ pass[w].settings \in SettingsType
  BY <1>v, WorkerFacts DEF PassType
<1>f. Filled(w) \in Clusters \cup {None}
  BY <1>w DEF Filled
<1>m. failures' = failures \/ (\E fault : Fail(fault)) => failures' \in 0 .. MaxFailures
  BY <1>v DEF Fail, MayFail
<1>s. ASSUME Shared(w) PROVE mixed' \subseteq Workers
  BY <1>v, <1>s DEF Shared
<1>1. CASE BeginPass(w) \/ Connect(w) \/ GetFound(w) \/ GetNotFound(w) \/ CreateExists(w)
           \/ GetSecret(w) \/ ReadSettings(w) \/ GetMarker(w)
  BY <1>1, <1>v DEF BeginPass, Connect, GetFound, GetNotFound, CreateExists, GetSecret,
                    ReadSettings, GetMarker, ValuesInv
<1>2. CASE ConnectPanics(w) \/ SecretPanics(w)
  <2>1. environ' \in SettingsType /\ files' \in [Paths -> Clusters \cup {None}]
    BY <1>2 DEF ConnectPanics, SecretPanics, Panic, NoSettings, SettingsType
  <2> QED
    BY <1>2, <1>v, <1>m, <2>1 DEF ConnectPanics, SecretPanics, Panic, ValuesInv
<1>3. CASE GetFails(w) \/ CreateFails(w) \/ GetSecretFails(w)
  BY <1>3, <1>v, <1>m DEF GetFails, CreateFails, GetSecretFails, ValuesInv
<1>4. CASE Create(w) \/ CreateNamespace(w)
  <2>1. objects' \in [Clusters -> SUBSET Objects]
    BY <1>4, <1>v, <1>w DEF Create, CreateNamespace
  <2> QED
    BY <1>4, <1>v, <1>m, <2>1 DEF Create, CreateNamespace, ValuesInv
<1>5. CASE WriteCA(w)
  BY <1>5, <1>v, <1>w, <1>f, <1>s DEF WriteCA, ValuesInv
<1>6. CASE SetToken(w) \/ SetServer(w) \/ SetCAFile(w)
  <2>1. environ' \in SettingsType
    BY <1>6, <1>v, <1>w, <1>f DEF SetToken, SetServer, SetCAFile, SettingsType
  <2> QED
    BY <1>6, <1>v, <1>s, <2>1 DEF SetToken, SetServer, SetCAFile, ValuesInv
<1>7. CASE MarkerFound(w)
  BY <1>7, <1>v, <1>m DEF MarkerFound, ValuesInv
<1>8. CASE Install(w) \/ InstallFails(w)
  <2>1. Job(w) \in Helm
    BY <1>8, <1>w DEF Install, InstallFails, PassOK, Job, HelmSteps
  <2>2. <<Job(w).name, "release">> \in Objects /\ <<Job(w).name, "failed release">> \in Objects
    BY <1>v, <2>1, ReleaseFacts
  <2>3. InstallWorks(w) => pass[w].settings.server \in Clusters
    BY <1>w DEF InstallWorks, SettingsType
  <2>4. objects' \in [Clusters -> SUBSET Objects]
    <3>1. ASSUME NEW o \in Objects, NEW c \in Clusters
          PROVE  [objects EXCEPT ![c] = @ \cup {o}] \in [Clusters -> SUBSET Objects]
      BY <1>v
    <3>2. \/ objects' = objects
          \/ /\ InstallWorks(w)
             /\ \E o \in {<<Job(w).name, "release">>, <<Job(w).name, "failed release">>} :
                  objects' = [objects EXCEPT ![pass[w].settings.server] = @ \cup {o}]
      BY <1>8 DEF Install, InstallFails
    <3>3. CASE objects' = objects
      BY <1>v, <3>3
    <3>4. ASSUME InstallWorks(w),
                 NEW o \in {<<Job(w).name, "release">>, <<Job(w).name, "failed release">>},
                 objects' = [objects EXCEPT ![pass[w].settings.server] = @ \cup {o}]
          PROVE  objects' \in [Clusters -> SUBSET Objects]
      <4>1. o \in Objects /\ pass[w].settings.server \in Clusters
        BY <2>2, <2>3, <3>4
      <4> QED
        BY <3>1, <3>4, <4>1
    <3> QED
      BY <3>2, <3>3, <3>4
  <2> QED
    BY <1>8, <1>v, <1>m, <2>4 DEF Install, InstallFails, ValuesInv
<1> QED
  BY <1>1, <1>2, <1>3, <1>4, <1>5, <1>6, <1>7, <1>8 DEF WorkerStep

(* Every step keeps the types. *)
LEMMA TypeStep == TypeInv /\ [Next]_vars => TypeInv'
<1> SUFFICES ASSUME TypeInv, [Next]_vars PROVE TypeInv'
  OBVIOUS
<1>i. ValuesInv /\ PassInv /\ pass \in [Workers -> PassType] /\ environ \in SettingsType
  BY DEF TypeInv, PassInv, ValuesInv
<1>p. ASSUME Panic PROVE PassInv'
  BY <1>p, IdleOK DEF Panic, PassInv
<1>1. ASSUME NEW w \in Workers, WorkerStep(w) PROVE TypeInv'
  <2>1. CASE Panic
    BY <1>1, <1>p, <2>1, ValuesStep DEF TypeInv
  <2>2. CASE ~Panic
    <3>1. PICK q \in PassType : PassOK(w, q) /\ pass' = [pass EXCEPT ![w] = q]
      BY <1>1, <1>i, <2>2, PassMoves
    <3>2. \A v \in Workers : pass'[v] = IF v = w THEN q ELSE pass[v]
      BY <1>i, <3>1
    <3>3. PassInv'
      BY <1>i, <3>1, <3>2 DEF PassInv
    <3> QED
      BY <1>1, <3>3, ValuesStep DEF TypeInv
  <2> QED
    BY <2>1, <2>2
<1>2. ASSUME NEW c \in Clusters, FillToken(c) PROVE TypeInv'
  BY <1>2, <1>i DEF FillToken, TypeInv, ValuesInv, PassInv
<1>3. CASE CrashRestart
  <2>1. ValuesInv'
    BY <1>3, <1>i, AddonsBoundsAssumption
    DEF CrashRestart, Panic, ValuesInv, NoSettings, SettingsType
  <2> QED
    BY <1>3, <1>p, <2>1 DEF CrashRestart, TypeInv
<1>4. CASE UNCHANGED vars
  BY <1>4, <1>i DEF vars, TypeInv, ValuesInv, PassInv
<1> QED
  BY <1>1, <1>2, <1>3, <1>4 DEF Next

(* No worker, whatever others do to its settings, takes Helm's steps with  *)
(* a nil secret, and every variable keeps to its values.                   *)
THEOREM TypeCorrect == Spec => []TypeOK
<1>1. TypeInv => TypeOK
  <2> SUFFICES ASSUME TypeInv PROVE TypeOK
    OBVIOUS
  <2>1. ASSUME NEW w \in Workers
        PROVE  /\ pass[w].pc \in Steps /\ pass[w].task \in TasksAfter(w, 0)
               /\ pass[w].part \in 1 .. Len(Job(w).parts)
               /\ pass[w].secret \in {"nil", "empty", "filled"} /\ pass[w].settings \in SettingsType
               /\ pass[w].pc \in HelmSteps => pass[w].secret # "nil"
    <3>1. /\ pass[w] \in PassType /\ PassOK(w, pass[w]) /\ pass[w].task \in DOMAIN PassOrder
          /\ Does(w, pass[w].task) /\ pass[w].part \in 1 .. Len(Job(w).parts)
      BY WorkerFacts DEF TypeInv
    <3>2. pass[w].task \in TasksAfter(w, 0)
      BY <3>1, OrderFacts DEF TasksAfter
    <3> QED
      BY <3>1, <3>2 DEF PassType, PassOK
  <2> QED
    BY <2>1 DEF TypeInv, ValuesInv, TypeOK
<1> QED
  BY <1>1, TypeInit, TypeStep, PTL DEF Spec

-----------------------------------------------------------------------------
(* What Helm is told.                                                      *)

(* The cluster w means, as Helm should find it in its settings. *)
Meant(w) == [token |-> Filled(w), server |-> Cluster(w), cafile |-> Path[Cluster(w)]]

(* What w has written so far is still there. *)
SettingsOK(w) ==
  /\ files[Path[Cluster(w)]] = Filled(w)
  /\ pass[w].pc \in {"server", "cafile", "settings"} => environ.token = Filled(w)
  /\ pass[w].pc \in {"cafile", "settings"} => environ.server = Cluster(w)
  /\ pass[w].pc = "settings" => environ.cafile = Path[Cluster(w)]
  /\ pass[w].pc \in {"marker", "namespace", "install"} => pass[w].settings = Meant(w)

SettingsInv == \A w \in Workers \ mixed : pass[w].pc \in HelmSteps => SettingsOK(w)

(* A pass that does not move is about the same. *)
LEMMA SamePass ==
  ASSUME NEW w \in Workers, pass'[w] = pass[w]
  PROVE  /\ Job(w)' = Job(w) /\ Cluster(w)' = Cluster(w) /\ Filled(w)' = Filled(w)
         /\ InProgress(w)' = InProgress(w) /\ Meant(w)' = Meant(w)
  BY DEF Job, Cluster, On, Filled, InProgress, Meant

(* Whoever writes to what the workers share tells the others. *)
LEMMA SharedMoves ==
  ASSUME NEW w \in Workers, WorkerStep(w), ~Panic
  PROVE  \/ Shared(w) /\ HelmMove(w)
         \/ UNCHANGED <<environ, files>> /\ (mixed' = mixed \/ mixed' = mixed \ {w})
  BY DEF WorkerStep, HelmMove, BeginPass, Connect, ConnectPanics, GetFound, GetNotFound, GetFails,
         Create, CreateExists, CreateFails, GetSecret, GetSecretFails, WriteCA, SecretPanics,
         SetToken, SetServer, SetCAFile, ReadSettings, GetMarker, MarkerFound, CreateNamespace,
         Install, InstallFails

(* A worker nobody interferes with finds what it has written. *)
LEMMA OwnSettings ==
  ASSUME TypeInv, NEW w \in Workers, HelmMove(w), pass[w].pc \in HelmSteps => SettingsOK(w)
  PROVE  SettingsOK(w)'
<1>w. /\ pass \in [Workers -> PassType] /\ pass[w] \in PassType /\ environ \in SettingsType
      /\ files \in [Paths -> Clusters \cup {None}] /\ Path[Cluster(w)] \in Paths
  BY WorkerFacts DEF TypeInv, PassInv, ValuesInv
<1>1. pass'[w].task = pass[w].task /\ pass'[w].secret = pass[w].secret
  BY <1>w DEF HelmMove, WriteCA, SetToken, SetServer, SetCAFile, ReadSettings, GetMarker,
              CreateNamespace, Goto, PassType
<1>2. Cluster(w)' = Cluster(w) /\ Filled(w)' = Filled(w)
  BY <1>1 DEF Cluster, On, Filled
<1>g. ASSUME NEW step, Goto(w, step)
      PROVE  pass'[w].pc = step /\ pass'[w].settings = pass[w].settings
  BY <1>g, <1>w DEF Goto, PassType
<1>3. CASE WriteCA(w)
  <2>1. files'[Path[Cluster(w)]] = Filled(w) /\ pass'[w].pc = "token"
    BY <1>3, <1>w, <1>g DEF WriteCA
  <2> QED
    BY <1>2, <2>1 DEF SettingsOK
<1>4. CASE SetToken(w)
  <2>1. files' = files /\ environ'.token = Filled(w) /\ pass'[w].pc = "server" /\ SettingsOK(w)
    BY <1>4, <1>w, <1>g DEF SetToken, SettingsType, HelmSteps
  <2> QED
    BY <1>2, <2>1 DEF SettingsOK
<1>5. CASE SetServer(w)
  <2>1. /\ files' = files /\ environ'.token = environ.token /\ environ'.server = Cluster(w)
        /\ pass[w].pc = "server" /\ pass'[w].pc = "cafile" /\ SettingsOK(w)
    BY <1>5, <1>w, <1>g DEF SetServer, SettingsType, HelmSteps
  <2> QED
    BY <1>2, <2>1 DEF SettingsOK
<1>6. CASE SetCAFile(w)
  <2>1. /\ files' = files /\ environ'.token = environ.token /\ environ'.server = environ.server
        /\ environ'.cafile = Path[Cluster(w)]
        /\ pass[w].pc = "cafile" /\ pass'[w].pc = "settings" /\ SettingsOK(w)
    BY <1>6, <1>w, <1>g DEF SetCAFile, SettingsType, HelmSteps
  <2> QED
    BY <1>2, <2>1 DEF SettingsOK
<1>7. CASE ReadSettings(w)
  <2>1. /\ files' = files /\ pass'[w].settings = environ
        /\ pass[w].pc = "settings" /\ pass'[w].pc = "marker" /\ SettingsOK(w)
    BY <1>7, <1>w DEF ReadSettings, HelmSteps, PassType
  <2>2. environ = Meant(w)
    BY <2>1, <1>w DEF SettingsOK, Meant, SettingsType
  <2>3. Meant(w)' = Meant(w)
    BY <1>2 DEF Meant
  <2> QED
    BY <1>2, <2>1, <2>2, <2>3 DEF SettingsOK
<1>8. CASE GetMarker(w) \/ CreateNamespace(w)
  <2>1. /\ files' = files /\ pass'[w].settings = pass[w].settings
        /\ pass[w].pc \in {"marker", "namespace"} /\ pass'[w].pc \in {"namespace", "install"}
        /\ SettingsOK(w)
    BY <1>8, <1>w, <1>g DEF GetMarker, CreateNamespace, HelmSteps
  <2>2. Meant(w)' = Meant(w)
    BY <1>2 DEF Meant
  <2> QED
    BY <1>2, <2>1, <2>2 DEF SettingsOK
<1> QED
  BY <1>3, <1>4, <1>5, <1>6, <1>7, <1>8 DEF HelmMove

(* Every step keeps the settings of those nobody interferes with. *)
LEMMA SettingsStep == TypeInv /\ SettingsInv /\ [Next]_vars => SettingsInv'
<1> SUFFICES ASSUME TypeInv, SettingsInv, [Next]_vars, NEW v \in Workers, v \notin mixed',
                    pass'[v].pc \in HelmSteps
             PROVE  SettingsOK(v)'
  BY DEF SettingsInv
<1>p. ~Panic
  BY DEF Panic, Idle, HelmSteps
<1>s. ASSUME pass'[v] = pass[v], UNCHANGED <<environ, files>>, v \notin mixed PROVE SettingsOK(v)'
  BY <1>s, SamePass DEF SettingsInv, SettingsOK
<1>1. ASSUME NEW w \in Workers, WorkerStep(w) PROVE SettingsOK(v)'
  <2>1. PICK q \in PassType : /\ PassOK(w, q) /\ pass' = [pass EXCEPT ![w] = q]
                              /\ q.pc \in HelmSteps => HelmMove(w)
    BY <1>1, <1>p, PassMoves DEF TypeInv, ValuesInv
  <2>2. pass \in [Workers -> PassType]
    BY DEF TypeInv, PassInv
  <2>3. CASE v = w
    <3>1. HelmMove(w)
      BY <2>1, <2>2, <2>3
    <3>2. v \notin mixed
      BY <3>1, <2>3 DEF HelmMove, WriteCA, SetToken, SetServer, SetCAFile, ReadSettings, GetMarker,
                        CreateNamespace, Shared
    <3>3. pass[v].pc \in HelmSteps => SettingsOK(v)
      BY <3>2 DEF SettingsInv
    <3> QED
      BY <2>3, <3>1, <3>3, OwnSettings
  <2>4. CASE v # w
    <3>1. pass'[v] = pass[v]
      BY <2>1, <2>2, <2>4
    <3>2. ~Shared(w)
      BY <2>4, <3>1 DEF Shared
    <3>3. UNCHANGED <<environ, files>> /\ v \notin mixed
      BY <1>1, <1>p, <2>4, <3>2, SharedMoves
    <3> QED
      BY <1>s, <3>1, <3>3
  <2> QED
    BY <2>3, <2>4
<1>2. ASSUME NEW c \in Clusters, FillToken(c) PROVE SettingsOK(v)'
  BY <1>2, <1>s DEF FillToken
<1>3. CASE UNCHANGED vars
  BY <1>3, <1>s DEF vars
<1> QED
  BY <1>1, <1>2, <1>3, <1>p DEF Next, CrashRestart

-----------------------------------------------------------------------------
(* Who puts what into which cluster.                                       *)

(* The objects of a cluster come from a pass over it, or from Helm. *)
LEMMA ObjectMoves ==
  ASSUME TypeInv, [Next]_vars, NEW c \in Clusters, NEW o \in objects'[c], o \notin objects[c]
  PROVE  \E w \in Workers :
           \/ (Create(w) \/ CreateNamespace(w)) /\ c = Cluster(w) /\ o = Object(w)
           \/ /\ Install(w) /\ InstallWorks(w) /\ c = pass[w].settings.server
              /\ o = <<Job(w).name, "release">>
           \/ /\ InstallFails(w) /\ InstallWorks(w) /\ c = pass[w].settings.server
              /\ o = <<Job(w).name, "failed release">>
<1>1. objects \in [Clusters -> SUBSET Objects]
  BY DEF TypeInv, ValuesInv
<1>2. ASSUME NEW d, NEW x, objects' = [objects EXCEPT ![d] = @ \cup {x}]
      PROVE  c = d /\ o = x
  BY <1>1, <1>2
<1>3. PICK w \in Workers : Create(w) \/ CreateNamespace(w) \/ Install(w) \/ InstallFails(w)
  BY DEF Next, CrashRestart, FillToken, vars, WorkerStep, BeginPass, Connect, ConnectPanics, GetFound,
         GetNotFound, GetFails, CreateExists, CreateFails, GetSecret, GetSecretFails, WriteCA,
         SecretPanics, SetToken, SetServer, SetCAFile, ReadSettings, GetMarker, MarkerFound, Panic
<1>4. CASE Create(w) \/ CreateNamespace(w)
  BY <1>2, <1>4 DEF Create, CreateNamespace
<1>5. CASE Install(w)
  BY <1>2, <1>5 DEF Install
<1>6. CASE InstallFails(w)
  BY <1>2, <1>6 DEF InstallFails
<1> QED
  BY <1>3, <1>4, <1>5, <1>6

(* A pass is about what its cluster's Universe asks for. *)
LEMMA AskedHere ==
  ASSUME PassInv, NEW w \in Workers
  PROVE  Asked(Cluster(w), Job(w).name)
<1>1. pass[w].task \in DOMAIN PassOrder /\ Does(w, pass[w].task)
  BY WorkerFacts
<1>2. CASE PassOrder[pass[w].task].on = "primary"
  <2>1. Job(w) \in {AdminToken, Velero}
    BY <1>1, <1>2, OrderFacts DEF Job
  <2>2. AdminToken.name = "temp" /\ Velero.name = "velero"
    BY DEF AdminToken, Velero
  <2> QED
    BY <2>1, <2>2 DEF Asked
<1>3. CASE PassOrder[pass[w].task].on # "primary"
  BY <1>1, <1>3 DEF Asked, Does, Job, Cluster, On
<1> QED
  BY <1>2, <1>3

(* An addon strays into a cluster only by a race for the environment, for  *)
(* any number of workers and whatever fails.                               *)
THEOREM StraysByRaceOnly == Spec => InstalledWhereAsked
<1> DEFINE Here(c, o) == Asked(c, o[1]) /\ \E w \in Workers : Cluster(w) = c /\ Job(w).name = o[1]
           Strayed == \E w \in mixed : pass[w].pc = "install" /\ pass'[w].pc # "install"
<1>1. ASSUME TypeInv, SettingsInv, [Next]_vars, NEW c \in Clusters,
             NEW o \in objects'[c] \ objects[c]
      PROVE  Here(c, o) \/ Strayed
  <2>i. PassInv /\ mixed \subseteq Workers
    BY <1>1 DEF TypeInv, ValuesInv
  <2>1. ASSUME NEW w \in Workers, c = Cluster(w), o[1] = Job(w).name PROVE Here(c, o)
    BY <2>i, <2>1, AskedHere
  <2>2. PICK w \in Workers :
          \/ c = Cluster(w) /\ o = Object(w)
          \/ (Install(w) \/ InstallFails(w)) /\ c = pass[w].settings.server /\ o[1] = Job(w).name
    <3>1. o \in objects'[c] /\ o \notin objects[c]
      BY <1>1
    <3>2. PICK w \in Workers :
            \/ c = Cluster(w) /\ o = Object(w)
            \/ /\ Install(w) /\ c = pass[w].settings.server /\ o = <<Job(w).name, "release">>
            \/ /\ InstallFails(w) /\ c = pass[w].settings.server
               /\ o = <<Job(w).name, "failed release">>
      BY <1>1, <3>1, ObjectMoves, Zenon
    <3>3. \A name, part : <<name, part>>[1] = name
      OBVIOUS
    <3>4. (c = Cluster(w) /\ o = Object(w)) \/ o[1] = Job(w).name
      BY <3>2, <3>3
    <3> QED
      BY <3>2, <3>4, Zenon
  <2>3. CASE c = Cluster(w) /\ o = Object(w)
    BY <2>1, <2>3 DEF Object
  <2>4. CASE (Install(w) \/ InstallFails(w)) /\ c = pass[w].settings.server /\ o[1] = Job(w).name
    <3>1. pass[w].pc = "install" /\ NextTask(w, pass[w].secret)
      BY <2>4 DEF Install, InstallFails
    <3>2. CASE w \in mixed
      <4>1. pass[w].secret \in {"nil", "empty", "filled"} /\ pass \in [Workers -> PassType]
        BY <2>i, WorkerFacts DEF PassType, PassInv
      <4>2. PICK q \in PassType : /\ pass' = [pass EXCEPT ![w] = q]
                                  /\ q.pc \in {"idle", "connect", "ca", "get"}
        BY <2>i, <3>1, <4>1, NextTaskOK
      <4>3. pass'[w].pc # "install"
        BY <4>1, <4>2
      <4> QED
        BY <3>1, <3>2, <4>3
    <3>3. CASE w \notin mixed
      <4>1. pass[w].settings = Meant(w)
        BY <1>1, <3>1, <3>3 DEF SettingsInv, SettingsOK, HelmSteps
      <4> QED
        BY <2>1, <2>4, <4>1 DEF Meant
    <3> QED
      BY <3>2, <3>3
  <2> QED
    BY <2>2, <2>3, <2>4
<1>2. TypeInv /\ SettingsInv /\ [Next]_vars =>
        [\A c \in Clusters : \A o \in objects'[c] \ objects[c] :
           \/ Asked(c, o[1]) /\ \E w \in Workers : Cluster(w) = c /\ Job(w).name = o[1]
           \/ \E w \in mixed : pass[w].pc = "install" /\ pass'[w].pc # "install"]_vars
  BY <1>1
<1>3. Init => SettingsInv
  BY DEF Init, SettingsInv, Idle, HelmSteps
<1> QED
  BY <1>2, <1>3, TypeInit, TypeStep, SettingsStep, PTL DEF Spec, InstalledWhereAsked

-----------------------------------------------------------------------------
(* Complete installations.                                                 *)

(* Nothing is taken out of a cluster, and what was cut short stays so. *)
LEMMA GrowStep ==
  ASSUME TypeInv, [Next]_vars
  PROVE  /\ \A c \in Clusters : objects[c] \subseteq objects'[c]
         /\ cut \subseteq cut'
<1>1. objects \in [Clusters -> SUBSET Objects]
  BY DEF TypeInv, ValuesInv
<1>2. ASSUME NEW d, NEW x, objects' = [objects EXCEPT ![d] = @ \cup {x}]
      PROVE  \A c \in Clusters : objects[c] \subseteq objects'[c]
  BY <1>1, <1>2
<1>3. CASE Panic
  BY <1>3 DEF Panic
<1>4. ASSUME NEW w \in Workers, Create(w) \/ CreateNamespace(w)
      PROVE  /\ \A c \in Clusters : objects[c] \subseteq objects'[c]
             /\ cut \subseteq cut'
  BY <1>2, <1>4 DEF Create, CreateNamespace
<1>5. ASSUME NEW w \in Workers, Install(w) \/ InstallFails(w)
      PROVE  /\ \A c \in Clusters : objects[c] \subseteq objects'[c]
             /\ cut \subseteq cut'
  <2>1. cut \subseteq cut'
    BY <1>5 DEF Install, InstallFails, CutShort
  <2>2. objects' = objects \/ \E x : objects' = [objects EXCEPT ![pass[w].settings.server] = @ \cup {x}]
    BY <1>5 DEF Install, InstallFails
  <2> QED
    BY <1>2, <2>1, <2>2
<1>6. CASE objects' = objects /\ cut \subseteq cut'
  BY <1>6
<1> QED
  BY <1>3, <1>4, <1>5, <1>6
  DEF Next, CrashRestart, FillToken, vars, WorkerStep, BeginPass, Connect, ConnectPanics, GetFound,
      GetNotFound, GetFails, CreateExists, CreateFails, GetSecret, GetSecretFails, WriteCA,
      SecretPanics, SetToken, SetServer, SetCAFile, ReadSettings, GetMarker, MarkerFound

(* No job has a failed release for a part. *)
LEMMA NoPartFails ==
  ASSUME NEW job \in Each \cup Helm \cup {ExternalDns}, NEW j \in DOMAIN job.parts
  PROVE  job.parts[j] # "failed release"
<1>1. CASE job = AdminToken
  <2>1. j \in 1 .. 4
    BY <1>1 DEF AdminToken
  <2>2. j = 1 \/ j = 2 \/ j = 3 \/ j = 4
    BY <2>1
  <2>3. AdminToken.parts[1] # "failed release"
        /\ AdminToken.parts[2] # "failed release"
        /\ AdminToken.parts[3] # "failed release"
        /\ AdminToken.parts[4] # "failed release"
    BY DEF AdminToken
  <2> QED
    BY <1>1, <2>2, <2>3
<1>2. CASE job = AdminUser
  <2>1. j \in 1 .. 2
    BY <1>2 DEF AdminUser
  <2>2. j = 1 \/ j = 2
    BY <2>1
  <2>3. AdminUser.parts[1] # "failed release"
        /\ AdminUser.parts[2] # "failed release"
    BY DEF AdminUser
  <2> QED
    BY <1>2, <2>2, <2>3
<1>3. CASE job = ResourcePatcher
  <2>1. j \in 1 .. 4
    BY <1>3 DEF ResourcePatcher
  <2>2. j = 1 \/ j = 2 \/ j = 3 \/ j = 4
    BY <2>1
  <2>3. ResourcePatcher.parts[1] # "failed release"
        /\ ResourcePatcher.parts[2] # "failed release"
        /\ ResourcePatcher.parts[3] # "failed release"
        /\ ResourcePatcher.parts[4] # "failed release"
    BY DEF ResourcePatcher
  <2> QED
    BY <1>3, <2>2, <2>3
<1>4. CASE job = ExternalDns
  <2>1. j \in 1 .. 4
    BY <1>4 DEF ExternalDns
  <2>2. j = 1 \/ j = 2 \/ j = 3 \/ j = 4
    BY <2>1
  <2>3. ExternalDns.parts[1] # "failed release"
        /\ ExternalDns.parts[2] # "failed release"
        /\ ExternalDns.parts[3] # "failed release"
        /\ ExternalDns.parts[4] # "failed release"
    BY DEF ExternalDns
  <2> QED
    BY <1>4, <2>2, <2>3
<1>5. CASE job = Velero
  <2>1. j \in 1 .. 2
    BY <1>5 DEF Velero
  <2>2. j = 1 \/ j = 2
    BY <2>1
  <2>3. Velero.parts[1] # "failed release"
        /\ Velero.parts[2] # "failed release"
    BY DEF Velero
  <2> QED
    BY <1>5, <2>2, <2>3
<1>6. CASE job = NginxIngress
  <2>1. j \in 1 .. 2
    BY <1>6 DEF NginxIngress
  <2>2. j = 1 \/ j = 2
    BY <2>1
  <2>3. NginxIngress.parts[1] # "failed release"
        /\ NginxIngress.parts[2] # "failed release"
    BY DEF NginxIngress
  <2> QED
    BY <1>6, <2>2, <2>3
<1>7. CASE job = ExternalSecrets
  <2>1. j \in 1 .. 1
    BY <1>7 DEF ExternalSecrets
  <2>2. j = 1
    BY <2>1
  <2>3. ExternalSecrets.parts[1] # "failed release"
    BY DEF ExternalSecrets
  <2> QED
    BY <1>7, <2>2, <2>3
<1> QED
  BY <1>1, <1>2, <1>3, <1>4, <1>5, <1>6, <1>7 DEF Each, Helm

(* The jobs that create a namespace for their release. *)
Spaced == {Velero, NginxIngress}

LEMMA SpacedFacts ==
  /\ \A job \in Spaced : job \in Helm /\ Len(job.parts) = 2 /\ job.parts[1] = "namespace"
  /\ \A job \in Helm : Len(job.parts) = 2 => job \in Spaced
  /\ \A job \in Helm : \A other \in Each \cup Helm \cup {ExternalDns} :
       job.name = other.name => job = other
  BY DEF Spaced, Each, Helm, AdminToken, AdminUser, ResourcePatcher, Velero, NginxIngress,
         ExternalSecrets, ExternalDns

(* A release that failed was cut short, *)
FailedInv ==
  \A c \in Clusters : \A job \in Helm :
    <<job.name, "failed release">> \in objects[c] => <<c, job.name>> \in cut

(* and a namespace has its release, or will get it from a worker. *)
NamespaceInv ==
  \A c \in Clusters : \A job \in Spaced :
    <<job.name, "namespace">> \in objects[c] =>
      \/ <<job.name, "release">> \in objects[c]
      \/ <<c, job.name>> \in cut
      \/ \E v \in Workers : InProgress(v) /\ Cluster(v) = c /\ Job(v) = job

(* Only InstallFails leaves a failed release. *)
LEMMA FailedStep == TypeInv /\ FailedInv /\ [Next]_vars => FailedInv'
<1> SUFFICES ASSUME TypeInv, FailedInv, [Next]_vars, NEW c \in Clusters, NEW job \in Helm,
                    <<job.name, "failed release">> \in objects'[c]
             PROVE  <<c, job.name>> \in cut'
  BY DEF FailedInv, Clusters
<1> DEFINE o == <<job.name, "failed release">>
<1>1. CASE o \in objects[c]
  BY <1>1, GrowStep DEF FailedInv
<1>2. CASE o \notin objects[c]
  <2>1. PICK w \in Workers :
          \/ o = Object(w)
          \/ o = <<Job(w).name, "release">>
          \/ InstallFails(w) /\ InstallWorks(w) /\ c = pass[w].settings.server
             /\ o = <<Job(w).name, "failed release">>
    BY <1>2, ObjectMoves, Zenon
  <2>2. o # <<Job(w).name, "release">>
    OBVIOUS
  <2>3. o # Object(w)
    <3>1. Job(w) \in Each \cup Helm \cup {ExternalDns} /\ pass[w].part \in DOMAIN Job(w).parts
      BY WorkerFacts DEF TypeInv
    <3>2. \A j \in DOMAIN Job(w).parts : Job(w).parts[j] # "failed release"
      BY <3>1, NoPartFails
    <3> QED
      BY <3>1, <3>2 DEF Object
  <2>4. InstallFails(w) /\ c = pass[w].settings.server /\ Job(w).name = job.name
    BY <2>1, <2>2, <2>3
  <2>5. o \in objects'[c] /\ objects' # objects
    BY <1>2
  <2> QED
    BY <2>4, <2>5 DEF InstallFails
<1> QED
  BY <1>1, <1>2

(* An Install of a worker with a namespace leaves a release, or is known   *)
(* to be cut short.                                                        *)
LEMMA InstallLeaves ==
  ASSUME TypeInv, SettingsInv, FailedInv, [Next]_vars, NEW w \in Workers,
         Install(w) \/ InstallFails(w), <<Job(w).name, "namespace">> \in objects[Cluster(w)]
  PROVE  \/ <<Job(w).name, "release">> \in objects'[Cluster(w)]
         \/ <<Cluster(w), Job(w).name>> \in cut'
<1> DEFINE c == Cluster(w)
           name == Job(w).name
           s == pass[w].settings
<1>w. /\ pass[w].pc = "install" /\ Job(w) \in Helm /\ c \in Clusters /\ Path[c] \in Paths
      /\ pass[w].secret \in {"empty", "filled"}
      /\ objects \in [Clusters -> SUBSET Objects]
  <2>1. pass[w].pc = "install"
    BY DEF Install, InstallFails
  <2> QED
    BY <2>1, WorkerFacts DEF TypeInv, ValuesInv, PassOK, PassType, Job, HelmSteps
<1>1. CASE InstallFails(w)
  BY <1>1 DEF InstallFails, CutShort
<1>2. CASE Install(w) /\ (w \in mixed \/ pass[w].secret = "empty")
  BY <1>2 DEF Install, CutShort
<1>3. CASE Install(w) /\ w \notin mixed /\ pass[w].secret = "filled"
  <2>1. s = Meant(w) /\ files[Path[c]] = Filled(w) /\ Filled(w) = c
    BY <1>3, <1>w DEF SettingsInv, SettingsOK, HelmSteps, Filled
  <2>2. s.server = c /\ s.token = c /\ s.cafile = Path[c] /\ c # None /\ Path[c] # None
    BY <1>w, <2>1, ClustersAssumption DEF Meant
  <2>3. CASE InstallWorks(w)
    <3>1. objects' = [objects EXCEPT ![c] = @ \cup {<<name, "release">>}]
      BY <1>3, <2>2, <2>3 DEF Install
    <3> QED
      BY <1>w, <3>1
  <2>4. CASE ~InstallWorks(w)
    <3>1. <<name, "release">> \in objects[c] \/ <<name, "failed release">> \in objects[c]
      BY <2>1, <2>2, <2>4 DEF InstallWorks
    <3> QED
      BY <1>w, <3>1, GrowStep DEF FailedInv
  <2> QED
    BY <2>3, <2>4
<1> QED
  BY <1>w, <1>1, <1>2, <1>3

(* Every step keeps the promise of a namespace. *)
LEMMA NamespaceStep ==
  TypeInv /\ SettingsInv /\ FailedInv /\ NamespaceInv /\ [Next]_vars => NamespaceInv'
<1> SUFFICES ASSUME TypeInv, SettingsInv, FailedInv, NamespaceInv, [Next]_vars,
                    NEW c \in Clusters, NEW job \in Spaced,
                    <<job.name, "namespace">> \in objects'[c]
             PROVE  \/ <<job.name, "release">> \in objects'[c]
                    \/ <<c, job.name>> \in cut'
                    \/ \E v \in Workers : InProgress(v)' /\ Cluster(v)' = c /\ Job(v)' = job
  BY DEF NamespaceInv, Clusters, Spaced
<1>j. job \in Helm /\ Len(job.parts) = 2
  BY SpacedFacts
<1>i. PassInv /\ pass \in [Workers -> PassType] /\ environ \in SettingsType
  BY DEF TypeInv, PassInv, ValuesInv
<1>n. ASSUME NEW w \in Workers, CreateNamespace(w)
      PROVE  InProgress(w)' /\ Cluster(w)' = Cluster(w) /\ Job(w)' = Job(w)
  <2>1. pass'[w].pc = "install" /\ pass'[w].task = pass[w].task
    BY <1>n, <1>i DEF CreateNamespace, Goto, PassType
  <2> QED
    BY <2>1 DEF InProgress, Cluster, On, Job
<1>1. CASE <<job.name, "namespace">> \notin objects[c]
  <2> DEFINE o == <<job.name, "namespace">>
  <2>1. PICK w \in Workers :
          \/ (Create(w) \/ CreateNamespace(w)) /\ c = Cluster(w) /\ o = Object(w)
          \/ o = <<Job(w).name, "release">>
          \/ o = <<Job(w).name, "failed release">>
    BY <1>1, ObjectMoves, Zenon
  <2>2. (Create(w) \/ CreateNamespace(w)) /\ c = Cluster(w) /\ o = Object(w)
    BY <2>1
  <2>3. Job(w) = job
    <3>1. Job(w).name = job.name
      BY <2>2 DEF Object
    <3> QED
      BY <1>i, <1>j, <3>1, SpacedFacts, WorkerFacts
  <2>4. ~Create(w)
    BY <1>i, <1>j, <2>3, WorkerFacts DEF Create, PassOK, Job
  <2> QED
    BY <1>n, <2>2, <2>3, <2>4
<1>2. CASE <<job.name, "release">> \in objects[c] \/ <<c, job.name>> \in cut
  BY <1>2, GrowStep
<1>3. ASSUME <<job.name, "namespace">> \in objects[c],
             NEW v \in Workers, InProgress(v), Cluster(v) = c, Job(v) = job
      PROVE  \/ <<job.name, "release">> \in objects'[c]
             \/ <<c, job.name>> \in cut'
             \/ InProgress(v)' /\ Cluster(v)' = c /\ Job(v)' = job
  <2>1. pass[v].pc \in {"namespace", "install"}
    BY <1>3, <1>j, JobFacts DEF InProgress
  <2>2. CASE Panic
    BY <1>3, <2>2 DEF Panic
  <2>3. CASE pass'[v] = pass[v]
    BY <1>3, <2>3, SamePass
  <2>4. ASSUME NEW w \in Workers, WorkerStep(w), ~Panic, pass'[v] # pass[v]
        PROVE  \/ <<job.name, "release">> \in objects'[c]
               \/ <<c, job.name>> \in cut'
               \/ InProgress(v)' /\ Cluster(v)' = c /\ Job(v)' = job
    <3>1. PICK q \in PassType : pass' = [pass EXCEPT ![w] = q]
      BY <1>i, <2>4, PassMoves
    <3>2. v = w
      BY <1>i, <2>4, <3>1
    <3>3. CreateNamespace(v) \/ Install(v) \/ InstallFails(v)
      BY <2>1, <2>4, <3>2
      DEF WorkerStep, BeginPass, Connect, ConnectPanics, GetFound,
          GetNotFound, GetFails, Create, CreateExists, CreateFails, GetSecret, GetSecretFails, WriteCA,
          SecretPanics, SetToken, SetServer, SetCAFile, ReadSettings, GetMarker, MarkerFound
    <3> QED
      BY <1>3, <1>n, <3>3, InstallLeaves
  <2> QED
    BY <2>2, <2>3, <2>4 DEF Next, CrashRestart, FillToken, vars
<1> QED
  BY <1>1, <1>2, <1>3 DEF NamespaceInv

(* Object j of ExternalDns is in the cluster of w. *)
Dns(w, j) == <<"external-dns", ExternalDns.parts[j]>> \in objects[Target[w]]

(* w is past its look at the mark of ExternalDns. *)
MakesDns(w) == Job(w) = ExternalDns /\ pass[w].pc = "create"

(* The objects of ExternalDns appear in their order, the mark first, and   *)
(* all of them unless the pass that creates them is cut short.             *)
DnsInv ==
  \A w \in Workers :
    /\ \A j \in 1 .. 4 : Dns(w, j) => Dns(w, 1)
    /\ MakesDns(w) => \A j \in 1 .. 4 : Dns(w, j) <=> j < pass[w].part
    /\ Dns(w, 1) => \/ \A j \in 1 .. 4 : Dns(w, j)
                    \/ <<Target[w], "external-dns">> \in cut
                    \/ MakesDns(w)

(* ExternalDns is installed in the cluster of the Universe. *)
LEMMA DnsFacts ==
  ASSUME PassInv, NEW w \in Workers, Job(w) = ExternalDns
  PROVE  /\ Cluster(w) = Target[w] /\ pass[w].part \in 1 .. 4 /\ Job(w).kind = "first"
         /\ Object(w) = <<"external-dns", ExternalDns.parts[pass[w].part]>>
         /\ pass[w].pc = "get" => pass[w].part = 1
<1>1. ExternalDns # AdminToken /\ ExternalDns # Velero
  BY DEF ExternalDns, AdminToken, Velero
<1>2. pass[w].task \in DOMAIN PassOrder /\ PassOrder[pass[w].task].job = ExternalDns
  BY WorkerFacts DEF Job
<1>3. PassOrder[pass[w].task].on # "primary"
  BY <1>1, <1>2, OrderFacts
<1>4. pass[w].part \in 1 .. 4
  BY WorkerFacts, JobFacts
<1> QED
  BY <1>2, <1>3, <1>4, WorkerFacts, JobFacts DEF Cluster, On, Object, Job, PassOK

(* Its parts are four. *)
LEMMA DnsParts ==
  ASSUME NEW i \in 1 .. 4, NEW j \in 1 .. 4, ExternalDns.parts[i] = ExternalDns.parts[j]
  PROVE  i = j
<1>1. i = 1 \/ i = 2 \/ i = 3 \/ i = 4
  OBVIOUS
<1>2. j = 1 \/ j = 2 \/ j = 3 \/ j = 4
  OBVIOUS
<1>3. /\ ExternalDns.parts[1] = "deployment" /\ ExternalDns.parts[2] = "account"
      /\ ExternalDns.parts[3] = "role" /\ ExternalDns.parts[4] = "binding"
  BY DEF ExternalDns
<1> QED
  BY <1>1, <1>2, <1>3

(* Only a Create of w itself adds an object of ExternalDns to its cluster. *)
LEMMA DnsMoves ==
  ASSUME TypeInv, [Next]_vars, NEW w \in Workers, NEW j \in 1 .. 4, Dns(w, j)', ~Dns(w, j)
  PROVE  Create(w) /\ Job(w) = ExternalDns /\ j = pass[w].part
<1> DEFINE o == <<"external-dns", ExternalDns.parts[j]>>
<1>1. Target[w] \in Clusters /\ o \in objects'[Target[w]] /\ o \notin objects[Target[w]]
  BY DEF Clusters, Dns
<1>2. PICK v \in Workers :
        \/ (Create(v) \/ CreateNamespace(v)) /\ Target[w] = Cluster(v) /\ o = Object(v)
        \/ Install(v) /\ o = <<Job(v).name, "release">>
        \/ InstallFails(v) /\ o = <<Job(v).name, "failed release">>
  BY <1>1, ObjectMoves, Zenon
<1>3. Job(v).name = "external-dns"
  <2>1. o = Object(v) \/ o = <<Job(v).name, "release">> \/ o = <<Job(v).name, "failed release">>
    BY <1>2
  <2> QED
    BY <2>1 DEF Object
<1>4. Job(v) = ExternalDns
  BY <1>3, WorkerFacts, JobFacts DEF TypeInv
<1>5. Job(v) \notin Helm
  BY <1>3, JobFacts
<1>6. Create(v) /\ Target[w] = Cluster(v) /\ o = Object(v)
  BY <1>2, <1>5, WorkerFacts DEF CreateNamespace, Install, InstallFails, TypeInv, PassOK, Job, HelmSteps
<1>7. v = w /\ pass[v].part \in 1 .. 4 /\ ExternalDns.parts[j] = ExternalDns.parts[pass[v].part]
  BY <1>4, <1>6, DnsFacts, ClustersAssumption DEF TypeInv
<1> QED
  BY <1>4, <1>6, <1>7, DnsParts

(* Every step keeps the order of the objects of ExternalDns. *)
LEMMA DnsStep == TypeInv /\ DnsInv /\ [Next]_vars => DnsInv'
<1> SUFFICES ASSUME TypeInv, DnsInv, [Next]_vars, NEW w \in Workers
             PROVE  /\ \A j \in 1 .. 4 : Dns(w, j)' => Dns(w, 1)'
                    /\ MakesDns(w)' => \A j \in 1 .. 4 : Dns(w, j)' <=> j < pass'[w].part
                    /\ Dns(w, 1)' => \/ \A j \in 1 .. 4 : Dns(w, j)'
                                     \/ <<Target[w], "external-dns">> \in cut'
                                     \/ MakesDns(w)'
  BY DEF DnsInv
<1>i. PassInv /\ pass \in [Workers -> PassType] /\ environ \in SettingsType
  BY DEF TypeInv, PassInv, ValuesInv
<1>g. /\ \A j \in 1 .. 4 : Dns(w, j) => Dns(w, j)'
      /\ <<Target[w], "external-dns">> \in cut => <<Target[w], "external-dns">> \in cut'
  BY GrowStep DEF Dns, Clusters
<1>o. \A j \in 1 .. 4 : Dns(w, j)' /\ ~Dns(w, j) => Create(w) /\ MakesDns(w) /\ j = pass[w].part
  BY DnsMoves DEF Create, MakesDns
<1>d. /\ \A j \in 1 .. 4 : Dns(w, j) => Dns(w, 1)
      /\ MakesDns(w) => \A j \in 1 .. 4 : Dns(w, j) <=> j < pass[w].part
      /\ Dns(w, 1) => \/ \A j \in 1 .. 4 : Dns(w, j)
                      \/ <<Target[w], "external-dns">> \in cut
                      \/ MakesDns(w)
  BY DEF DnsInv
<1>1. CASE Create(w) /\ MakesDns(w)
  <2>1. /\ Job(w) = ExternalDns /\ pass[w].part \in 1 .. 4 /\ Cluster(w) = Target[w]
        /\ Object(w) = <<"external-dns", ExternalDns.parts[pass[w].part]>>
        /\ Len(Job(w).parts) = 4 /\ Job(w) \notin Helm /\ Job(w).kind = "first"
    BY <1>i, <1>1, DnsFacts, JobFacts DEF MakesDns
  <2>p. PICK n \in 1 .. 4 : n = pass[w].part
    BY <2>1
  <2>2. Dns(w, n)'
    <3>1. objects' = [objects EXCEPT ![Target[w]] = @ \cup {Object(w)}] /\ Target[w] \in Clusters
      BY <1>1, <2>1 DEF Create, Clusters
    <3> QED
      BY <2>1, <2>p, <3>1 DEF Dns, TypeInv, ValuesInv
  <2>3. \A j \in 1 .. 4 : Dns(w, j)' <=> j < pass[w].part + 1
    BY <1>1, <1>g, <1>o, <1>d, <2>1, <2>p, <2>2
  <2>4. PICK q \in PassType :
          /\ pass' = [pass EXCEPT ![w] = q]
          /\ \/ q.pc = "create" /\ q.part = pass[w].part + 1 /\ q.task = pass[w].task
             \/ pass[w].part = 4 /\ q.pc \in {"idle", "connect", "ca", "get", "secret"}
    <3>1. NextPart(w, "create")
      BY <1>1, <2>1 DEF Create
    <3> QED
      BY <1>i, <2>1, <3>1, NextPartOK
  <2>5. pass'[w] = q
    BY <1>i, <2>4
  <2>6. CASE q.pc = "create" /\ q.part = pass[w].part + 1 /\ q.task = pass[w].task
    <3>1. MakesDns(w)' /\ pass'[w].part = pass[w].part + 1
      BY <2>1, <2>5, <2>6 DEF MakesDns, Job
    <3> QED
      BY <2>1, <2>3, <3>1
  <2>7. CASE pass[w].part = 4 /\ q.pc \in {"idle", "connect", "ca", "get", "secret"}
    <3>1. ~MakesDns(w)'
      BY <2>5, <2>7 DEF MakesDns
    <3> QED
      BY <2>3, <2>7, <3>1
  <2> QED
    BY <2>4, <2>6, <2>7
<1>2. CASE ~(Create(w) /\ MakesDns(w))
  <2>s. \A j \in 1 .. 4 : Dns(w, j)' <=> Dns(w, j)
    BY <1>2, <1>g, <1>o
  <2>1. CASE pass'[w] = pass[w]
    <3>1. MakesDns(w)' <=> MakesDns(w)
      BY <2>1, SamePass DEF MakesDns
    <3> QED
      BY <1>d, <1>g, <2>s, <2>1, <3>1
  <2>2. CASE Panic
    <3>1. ~MakesDns(w)'
      BY <2>2 DEF MakesDns, Panic, Idle
    <3>2. MakesDns(w) => <<Target[w], "external-dns">> \in cut'
      <4>1. ASSUME MakesDns(w) PROVE InProgress(w) /\ Cluster(w) = Target[w] /\ Job(w).name = "external-dns"
        BY <1>i, <4>1, DnsFacts, JobFacts DEF MakesDns, InProgress
      <4> QED
        BY <2>2, <4>1 DEF Panic
    <3> QED
      BY <1>d, <1>g, <2>s, <3>1, <3>2
  <2>3. ASSUME NEW v \in Workers, WorkerStep(v), ~Panic, pass'[w] # pass[w]
        PROVE  /\ MakesDns(w)' => GetNotFound(w) /\ Job(w) = ExternalDns /\ pass'[w].part = pass[w].part
               /\ MakesDns(w) => CreateExists(w) \/ CreateFails(w)
    <3>1. PICK q \in PassType : /\ pass' = [pass EXCEPT ![v] = q]
                                /\ q.pc = "create" => GetNotFound(v) \/ Create(v)
      BY <1>i, <2>3, PassMoves
    <3>2. v = w /\ pass'[w] = q
      BY <1>i, <2>3, <3>1
    <3>3. ASSUME MakesDns(w)' PROVE GetNotFound(w) /\ Job(w) = ExternalDns /\ pass'[w].part = pass[w].part
      <4>1. CASE GetNotFound(w)
        BY <1>i, <3>3, <4>1 DEF GetNotFound, Goto, MakesDns, Job, PassType
      <4>2. CASE Create(w)
        <5>1. Job(w) \notin Helm
          BY <1>i, <4>2, WorkerFacts DEF Create, PassOK, Job
        <5>2. pass'[w].pc = "create" /\ PassOrder[pass'[w].task].job = ExternalDns
          BY <3>3 DEF MakesDns, Job
        <5>3. CASE Job(w).kind = "each"
          <6>1. PICK r \in PassType : pass' = [pass EXCEPT ![w] = r] /\ r.pc # "create"
            BY <1>i, <4>2, <5>1, <5>3, NextPartOK DEF Create
          <6> QED
            BY <1>i, <5>2, <6>1
        <5>4. CASE Job(w).kind # "each"
          <6>1. MakesDns(w)
            BY <1>i, <4>2, <5>1, <5>4, WorkerFacts, JobFacts DEF Create, MakesDns
          <6> QED
            BY <1>2, <4>2, <6>1
        <5> QED
          BY <5>3, <5>4
      <4> QED
        BY <3>1, <3>2, <3>3, <4>1, <4>2 DEF MakesDns
    <3>4. ASSUME MakesDns(w) PROVE CreateExists(w) \/ CreateFails(w)
      <4>1. pass[w].pc = "create" /\ ~Create(w)
        BY <1>2, <3>4 DEF MakesDns
      <4> QED
        BY <2>3, <3>2, <4>1
        DEF WorkerStep, BeginPass, Connect, ConnectPanics, GetFound, GetNotFound, GetFails,
            GetSecret, GetSecretFails, WriteCA, SecretPanics, SetToken, SetServer, SetCAFile,
            ReadSettings, GetMarker, MarkerFound, CreateNamespace, Install, InstallFails
    <3> QED
      BY <3>3, <3>4
  <2>4. ASSUME NEW v \in Workers, WorkerStep(v), ~Panic, pass'[w] # pass[w]
        PROVE  /\ \A j \in 1 .. 4 : Dns(w, j)' => Dns(w, 1)'
               /\ MakesDns(w)' => \A j \in 1 .. 4 : Dns(w, j)' <=> j < pass'[w].part
               /\ Dns(w, 1)' => \/ \A j \in 1 .. 4 : Dns(w, j)'
                                \/ <<Target[w], "external-dns">> \in cut'
                                \/ MakesDns(w)'
    <3>1. ASSUME MakesDns(w)' PROVE \A j \in 1 .. 4 : Dns(w, j)' <=> j < pass'[w].part
      <4>1. /\ pass'[w].part = 1 /\ Object(w) = <<"external-dns", ExternalDns.parts[1]>>
            /\ Cluster(w) = Target[w] /\ ~Exists(w)
        BY <1>i, <2>3, <2>4, <3>1, DnsFacts DEF GetNotFound
      <4>2. ~Dns(w, 1)
        BY <4>1 DEF Exists, Dns
      <4> QED
        BY <1>d, <2>s, <4>1, <4>2
    <3>2. ASSUME MakesDns(w) PROVE <<Target[w], "external-dns">> \in cut'
      <4>1. /\ Cluster(w) = Target[w] /\ Job(w).name = "external-dns" /\ Job(w).kind = "first"
            /\ pass[w].part \in 1 .. 4
            /\ Object(w) = <<"external-dns", ExternalDns.parts[pass[w].part]>>
        BY <1>i, <3>2, DnsFacts, JobFacts DEF MakesDns
      <4>2. ~Dns(w, pass[w].part)
        BY <1>d, <3>2, <4>1
      <4>3. ~CreateExists(w)
        BY <4>1, <4>2 DEF CreateExists, Exists, Dns
      <4>4. CreateFails(w)
        BY <2>3, <2>4, <3>2, <4>3
      <4> QED
        BY <4>1, <4>4 DEF CreateFails
    <3> QED
      BY <1>d, <1>g, <2>s, <3>1, <3>2
  <2> QED
    BY <2>1, <2>2, <2>4 DEF Next, CrashRestart, FillToken, vars
<1> QED
  BY <1>1, <1>2

(* An addon that is marked as installed is complete, being completed or    *)
(* known to be cut short, for any number of workers, failures and crashes, *)
(* and whatever clusters share a file in /tmp.                             *)
THEOREM HalfOnlyIfCut == Spec => []WholeUnlessCut
<1>1. ASSUME TypeInv, NamespaceInv, DnsInv PROVE WholeUnlessCut
  <2> SUFFICES ASSUME NEW w \in Workers, NEW i \in TasksAfter(w, 0),
                      PassOrder[i].job.kind # "each",
                      <<PassOrder[i].job.name, PassOrder[i].job.parts[1]>> \in objects[On(w, i)]
               PROVE  LET job == PassOrder[i].job
                          c == On(w, i)
                      IN \/ \A j \in DOMAIN job.parts : <<job.name, job.parts[j]>> \in objects[c]
                         \/ <<c, job.name>> \in cut
                         \/ \E v \in Workers :
                              InProgress(v) /\ Cluster(v) = c /\ Job(v).name = job.name
    BY DEF WholeUnlessCut
  <2> DEFINE job == PassOrder[i].job
             c == On(w, i)
  <2>1. /\ i \in DOMAIN PassOrder /\ job \in Helm \cup {ExternalDns} /\ c \in Clusters
        /\ PassOrder[i].on = "primary" => job \in {AdminToken, Velero}
    <3>1. i \in DOMAIN PassOrder
      BY DEF TasksAfter
    <3>2. job \notin Each
      BY JobFacts
    <3>3. c \in Clusters
      BY DEF On, Clusters
    <3> QED
      BY <3>1, <3>2, <3>3, OrderFacts
  <2>2. CASE job \in Helm /\ Len(job.parts) = 1
    BY <2>2, JobFacts
  <2>3. CASE job \in Helm /\ Len(job.parts) = 2
    <3>1. job \in Spaced /\ job.parts[1] = "namespace" /\ job.parts[2] = "release"
          /\ DOMAIN job.parts = 1 .. 2
      BY <2>3, JobFacts, SpacedFacts
    <3>2. <<job.name, "release">> \in objects[c] =>
            \A j \in DOMAIN job.parts : <<job.name, job.parts[j]>> \in objects[c]
      BY <3>1
    <3>3. \/ <<job.name, "release">> \in objects[c]
          \/ <<c, job.name>> \in cut
          \/ \E v \in Workers : InProgress(v) /\ Cluster(v) = c /\ Job(v) = job
      BY <1>1, <2>1, <3>1 DEF NamespaceInv
    <3> QED
      BY <3>2, <3>3
  <2>4. CASE job = ExternalDns
    <3>1. c = Target[w]
      <4>1. ExternalDns # AdminToken /\ ExternalDns # Velero
        BY DEF ExternalDns, AdminToken, Velero
      <4> QED
        BY <2>1, <2>4, <4>1 DEF On
    <3>2. Dns(w, 1)
      BY <2>4, <3>1, JobFacts DEF Dns
    <3>3. CASE \A j \in 1 .. 4 : Dns(w, j)
      BY <2>4, <3>1, <3>3, JobFacts DEF Dns
    <3>4. CASE <<Target[w], "external-dns">> \in cut
      BY <2>4, <3>1, <3>4, JobFacts
    <3>5. CASE MakesDns(w)
      BY <1>1, <2>4, <3>1, <3>5, DnsFacts DEF MakesDns, InProgress, TypeInv
    <3> QED
      BY <1>1, <3>2, <3>3, <3>4, <3>5 DEF DnsInv
  <2> QED
    BY <2>1, <2>2, <2>3, <2>4, JobFacts
<1>2. Init => SettingsInv /\ FailedInv /\ NamespaceInv /\ DnsInv
  <2> SUFFICES ASSUME Init PROVE SettingsInv /\ FailedInv /\ NamespaceInv /\ DnsInv
    OBVIOUS
  <2>1. \A c \in Clusters : objects[c] = SetUp \/ objects[c] = {}
    BY DEF Init
  <2>2. SettingsInv
    BY DEF Init, SettingsInv, Idle, HelmSteps
  <2>3. /\ \A part : part \notin {"namespace", "release"} => <<"velero", part>> \notin SetUp
        /\ \A name, part : name \notin {"temp", "velero"} => <<name, part>> \notin SetUp
        /\ <<"velero", "release">> \in SetUp
    <3>1. AdminToken.name = "temp" /\ Velero.name = "velero" /\ DOMAIN Velero.parts = 1 .. 2
          /\ Velero.parts[1] = "namespace" /\ Velero.parts[2] = "release"
      BY DEF AdminToken, Velero
    <3>2. \A j \in 1 .. 2 : j = 1 \/ j = 2
      OBVIOUS
    <3>3. \A j \in DOMAIN Velero.parts : Velero.parts[j] \in {"namespace", "release"}
      BY <3>1, <3>2
    <3>4. <<"velero", "release">> \in PartsOf(Velero)
      BY <3>1 DEF PartsOf
    <3>5. \A o \in SetUp : o[1] = "temp" \/ (o[1] = "velero" /\ o[2] \in {"namespace", "release"})
      BY <3>1, <3>3 DEF SetUp, PartsOf
    <3> QED
      BY <3>4, <3>5 DEF SetUp
  <2>4. FailedInv
    BY <2>1, <2>3, JobFacts DEF FailedInv
  <2>5. NamespaceInv
    <3>1. Velero.name = "velero" /\ NginxIngress.name = "nginx-ingress"
      BY DEF Velero, NginxIngress
    <3> QED
      BY <2>1, <2>3, <3>1 DEF NamespaceInv, Spaced
  <2>6. ASSUME NEW w \in Workers, NEW j \in 1 .. 4 PROVE ~Dns(w, j) /\ ~MakesDns(w)
    <3>1. Target[w] \in Clusters
      BY DEF Clusters
    <3> QED
      BY <2>1, <2>3, <3>1 DEF Dns, MakesDns, Init, Idle
  <2>7. DnsInv
    BY <2>6 DEF DnsInv
  <2> QED
    BY <2>2, <2>4, <2>5, <2>7
<1> QED
  BY <1>1, <1>2, TypeInit, TypeStep, SettingsStep, FailedStep, NamespaceStep, DnsStep, PTL DEF Spec
=============================================================================
