--------------------------- MODULE RestoreProofs ----------------------------
(* Theorems about backup and restore, for any clusters, ingresses,         *)
(* deployments and failures.                                               *)
EXTENDS Restore, TLAPS

-----------------------------------------------------------------------------
(* The positions of rules.                                                 *)

(* What a position of a rule is. *)
LEMMA RulesFacts ==
  /\ Rules \subseteq Nat \X Nat \X Nat
  /\ \A n, i, k \in Nat :
       <<n, i, k>> \in Rules <=>
         /\ n \in 1 .. Len(Ingresses) /\ i \in 1 .. Len(Ingresses[n])
         /\ k \in 1 .. Ingresses[n][i]
<1>1. /\ DOMAIN Ingresses = 1 .. Len(Ingresses) /\ Len(Ingresses) \in Nat
      /\ \A n \in 1 .. Len(Ingresses) :
           /\ DOMAIN Ingresses[n] = 1 .. Len(Ingresses[n]) /\ Len(Ingresses[n]) \in Nat
           /\ \A i \in 1 .. Len(Ingresses[n]) : Ingresses[n][i] \in Nat
  BY IngressesAssumption
<1>2. ASSUME NEW x \in Rules
      PROVE  \E n, i, k \in Nat :
               /\ x = <<n, i, k>> /\ n \in 1 .. Len(Ingresses)
               /\ i \in 1 .. Len(Ingresses[n]) /\ k \in 1 .. Ingresses[n][i]
  <2>1. PICK n \in DOMAIN Ingresses :
          \E i \in DOMAIN Ingresses[n] : \E k \in 1 .. Ingresses[n][i] : x = <<n, i, k>>
    BY DEF Rules
  <2>2. PICK i \in DOMAIN Ingresses[n] : \E k \in 1 .. Ingresses[n][i] : x = <<n, i, k>>
    BY <2>1
  <2>3. PICK k \in 1 .. Ingresses[n][i] : x = <<n, i, k>>
    BY <2>2
  <2> QED
    BY <2>3, <1>1
<1>3. ASSUME NEW n \in Nat, NEW i \in Nat, NEW k \in Nat, n \in 1 .. Len(Ingresses),
             i \in 1 .. Len(Ingresses[n]), k \in 1 .. Ingresses[n][i]
      PROVE  <<n, i, k>> \in Rules
  BY <1>1, <1>3 DEF Rules
<1> QED
  BY <1>2, <1>3

(* One rule comes before another of its namespace. *)
Before(r, q) == r[1] = q[1] /\ (r[2] < q[2] \/ (r[2] = q[2] /\ r[3] < q[3]))

(* The next rule of an ingress, or the first of the next ingress when there *)
(* is none, follows at once.                                               *)
LEMMA Successor ==
  ASSUME NEW q \in Rules, NEW s \in Rules, NEW r \in Rules, Before(r, s),
         \/ s = <<q[1], q[2], q[3] + 1>>
         \/ s = <<q[1], q[2] + 1, 1>> /\ <<q[1], q[2], q[3] + 1>> \notin Rules
  PROVE  r = q \/ Before(r, q)
<1>1. /\ q \in Nat \X Nat \X Nat /\ r \in Nat \X Nat \X Nat
      /\ q = <<q[1], q[2], q[3]>> /\ r = <<r[1], r[2], r[3]>>
  BY RulesFacts
<1>2. CASE s = <<q[1], q[2], q[3] + 1>>
  <2>1. s[1] = q[1] /\ s[2] = q[2] /\ s[3] = q[3] + 1
    BY <1>2
  <2> QED
    BY <1>1, <2>1 DEF Before
<1>3. CASE s = <<q[1], q[2] + 1, 1>> /\ <<q[1], q[2], q[3] + 1>> \notin Rules
  <2>1. s[1] = q[1] /\ s[2] = q[2] + 1 /\ s[3] = 1
    BY <1>3
  <2>2. r[3] >= 1 /\ r[1] \in 1 .. Len(Ingresses) /\ r[2] \in 1 .. Len(Ingresses[r[1]])
        /\ r[3] \in 1 .. Ingresses[r[1]][r[2]] /\ Ingresses[r[1]][r[2]] \in Nat
    <3>1. r[1] \in 1 .. Len(Ingresses) /\ r[2] \in 1 .. Len(Ingresses[r[1]])
          /\ r[3] \in 1 .. Ingresses[r[1]][r[2]]
      BY <1>1, RulesFacts
    <3>2. Ingresses[r[1]][r[2]] \in Nat
      BY <3>1, IngressesAssumption
    <3> QED
      BY <1>1, <3>1, <3>2
  <2>3. r[1] = q[1] /\ r[2] = q[2] => r[3] <= q[3]
    <3> SUFFICES ASSUME r[1] = q[1], r[2] = q[2], r[3] > q[3] PROVE FALSE
      BY <1>1
    <3>1. q[3] + 1 \in 1 .. Ingresses[q[1]][q[2]] /\ q[3] + 1 \in Nat
      BY <1>1, <2>2
    <3> QED
      BY <1>1, <1>3, <2>2, <3>1, RulesFacts
  <2> QED
    BY <1>1, <2>1, <2>2, <2>3 DEF Before
<1> QED
  BY <1>2, <1>3
-----------------------------------------------------------------------------
(* Type correctness.                                                       *)

(* The failure of a call counts, at most up to the bound. *)
LEMMA CallCounts ==
  ASSUME TypeOK, NEW ok \in BOOLEAN, NEW fault, NEW answer \in BOOLEAN, Call(ok, fault, answer)
  PROVE  failures' \in 0 .. MaxFailures /\ (answer => ok)
  BY RestoreBoundsAssumption DEF Call, MayFail, TypeOK

(* The pass is where a pass can be: not at a rule, unless it is one. *)
PassOK ==
  /\ pc \in Steps /\ target \in 1 .. Len(Targets) /\ connected \in BOOLEAN
  /\ rule \in Nat \X Nat \X Nat /\ (pc = "rule" => rule \in Rules)

(* The cluster the pass is at is one of the Universe's. *)
LEMMA HereFacts == ASSUME TypeOK PROVE Here \in Clusters
  BY TargetsAssumption DEF TypeOK, Here, Clusters

(* A pass that is forgotten, and one that goes on to the next cluster,     *)
(* namespace or rule.                                                      *)
LEMMA ForgetOK == ForgetPass => PassOK'
<1>1. Len(Targets) \in Nat /\ Len(Targets) >= 1
  BY TargetsAssumption
<1>2. <<1, 1, 1>> \in Nat \X Nat \X Nat
  OBVIOUS
<1> SUFFICES ASSUME ForgetPass PROVE PassOK'
  OBVIOUS
<1>3. connected' \in BOOLEAN
  BY DEF ForgetPass
<1>4. pc' \in Steps /\ pc' # "rule"
  BY DEF ForgetPass, Steps
<1>5. rule' \in Nat \X Nat \X Nat /\ target' \in 1 .. Len(Targets)
  BY <1>1, <1>2 DEF ForgetPass, FirstRule
<1> QED
  BY <1>3, <1>4, <1>5 DEF PassOK

LEMMA AfterIngressesOK == TypeOK /\ AfterIngresses => PassOK'
  BY ForgetOK, TargetsAssumption DEF AfterIngresses, TypeOK, PassOK, Steps, FirstRule

LEMMA NextNamespaceOK == TypeOK /\ NextNamespace => PassOK'
<1> SUFFICES ASSUME TypeOK, NextNamespace PROVE PassOK'
  OBVIOUS
<1>1. CASE rule[1] < Len(Ingresses)
  <2>1. <<rule[1] + 1, 1, 1>> \in Nat \X Nat \X Nat
    BY DEF TypeOK
  <2> QED
    BY <1>1, <2>1 DEF NextNamespace, TypeOK, PassOK, Steps
<1>2. CASE ~(rule[1] < Len(Ingresses))
  BY <1>2, AfterIngressesOK DEF NextNamespace
<1> QED
  BY <1>1, <1>2

LEMMA NextRuleOK == TypeOK /\ pc = "rule" /\ NextRule => PassOK'
  BY NextNamespaceOK, RulesFacts DEF NextRule, TypeOK, PassOK

LEMMA GotoOK ==
  ASSUME TypeOK, NEW step \in Steps, step = "rule" => rule \in Rules, Goto(step)
  PROVE  PassOK'
  BY DEF Goto, TypeOK, PassOK

LEMMA PanicOK == TypeOK /\ failures < MaxFailures /\ Panic => TypeOK'
<1> SUFFICES ASSUME TypeOK, failures < MaxFailures, Panic PROVE TypeOK'
  OBVIOUS
<1>1. PassOK'
  BY ForgetOK DEF Panic
<1>2. failures' \in 0 .. MaxFailures
  BY RestoreBoundsAssumption DEF Panic, TypeOK
<1> QED
  BY <1>1, <1>2 DEF Panic, PassOK, TypeOK, veleroVars, workload

(* Every step keeps the types. *)
LEMMA TypeStep == TypeOK /\ [Next]_vars => TypeOK'
<1> SUFFICES ASSUME TypeOK, [Next]_vars PROVE TypeOK'
  OBVIOUS
<1> USE DEF veleroVars, workload
<1>h. Here \in Clusters
  BY HereFacts
<1>1. CASE BeginPass
  BY <1>1, GotoOK DEF BeginPass, TypeOK, PassOK, Steps
<1>2. CASE AnnotateServices
  <2>1. PICK done \in SUBSET Services :
          /\ Call(TRUE, "annotate", done = Services)
          /\ annotated' = IF Done(restore[Here])
                            THEN [annotated EXCEPT ![Here] = @ \cup done] ELSE annotated
    BY <1>2 DEF AnnotateServices
  <2>2. annotated' \in [Clusters -> SUBSET Services]
    BY <2>1, <1>h DEF TypeOK
  <2>3. failures' \in 0 .. MaxFailures
    BY <2>1, CallCounts
  <2>4. PassOK'
    BY <1>2 DEF AnnotateServices, AnnotateStep, AnnotateTarget, TypeOK, PassOK, Steps
  <2> QED
    BY <1>2, <2>2, <2>3, <2>4 DEF AnnotateServices, TypeOK, PassOK
<1>3. CASE AnnotatePanics \/ ClusterPanics \/ CrashRestart
  BY <1>3, PanicOK DEF AnnotatePanics, ClusterPanics, CrashRestart, MayFail
<1>4. CASE ConnectPrimary
  <2>1. failures' \in 0 .. MaxFailures /\ connected' \in BOOLEAN
    BY <1>4, CallCounts DEF ConnectPrimary
  <2> QED
    BY <1>4, <2>1 DEF ConnectPrimary, TypeOK, Steps
<1>5. CASE StageEndsPass \/ ClusterMissing
  <2>1. failures' \in 0 .. MaxFailures /\ PassOK'
    BY <1>5, CallCounts, ForgetOK DEF StageEndsPass, ClusterMissing
  <2> QED
    BY <1>5, <2>1 DEF StageEndsPass, ClusterMissing, TypeOK, PassOK
<1>6. CASE FindCluster \/ waitForBackUp
  BY <1>6, GotoOK DEF FindCluster, waitForBackUp, TypeOK, PassOK, Steps
<1>7. CASE GetBackup
  <2>1. failures' \in 0 .. MaxFailures
    <3>1. PICK missing \in BOOLEAN : Call(backup = "absent", "get", missing)
      BY <1>7 DEF GetBackup
    <3> QED
      BY <3>1, CallCounts
  <2>2. PassOK'
    BY <1>7 DEF GetBackup, Goto, TypeOK, PassOK, Steps
  <2> QED
    BY <1>7, <2>1, <2>2 DEF GetBackup, TypeOK, PassOK
<1>8. CASE BackupPanics
  BY <1>8, ForgetOK DEF BackupPanics, TypeOK, PassOK
<1>9. CASE CreateBackup
  <2>1. failures' \in 0 .. MaxFailures
    <3>1. PICK ok \in BOOLEAN : Call("primary" \in velero, "create", ok)
      BY <1>9 DEF CreateBackup
    <3> QED
      BY <3>1, RestoreBoundsAssumption DEF Call, MayFail, TypeOK
  <2>2. PassOK'
    BY <1>9 DEF CreateBackup, Goto, TypeOK, PassOK, Steps
  <2>3. backup' \in Phases
    BY <1>9 DEF CreateBackup, TypeOK, Phases
  <2> QED
    BY <1>9, <2>1, <2>2, <2>3 DEF CreateBackup, TypeOK, PassOK
<1>10. CASE GetRestore
  <2>1. failures' \in 0 .. MaxFailures
    <3>1. PICK missing \in BOOLEAN : Call(restore[Here] = "absent", "get", missing)
      BY <1>10 DEF GetRestore
    <3> QED
      BY <3>1, CallCounts
  <2>2. PassOK'
    BY <1>10 DEF GetRestore, Goto, TypeOK, PassOK, Steps
  <2> QED
    BY <1>10, <2>1, <2>2 DEF GetRestore, TypeOK, PassOK
<1>11. CASE CreateRestore
  <2>1. failures' \in 0 .. MaxFailures
    <3>1. PICK ok \in BOOLEAN : Call(Here \in velero, "create", ok)
      BY <1>11 DEF CreateRestore
    <3> QED
      BY <3>1, RestoreBoundsAssumption DEF Call, MayFail, TypeOK
  <2>2. PassOK'
    BY <1>11 DEF CreateRestore, Goto, TypeOK, PassOK, Steps
  <2>3. restore' \in [Clusters -> Phases] /\ early' \subseteq Clusters
    BY <1>11, <1>h DEF CreateRestore, TypeOK, Phases
  <2> QED
    BY <1>11, <2>1, <2>2, <2>3 DEF CreateRestore, TypeOK, PassOK
<1>12. CASE waitForRestore
  <2>1. PassOK'
    BY <1>12, AfterIngressesOK, GotoOK DEF waitForRestore, Steps
  <2> QED
    BY <1>12, <2>1 DEF waitForRestore, TypeOK, PassOK
<1>13. CASE ListIngresses
  <2>1. PICK some \in BOOLEAN :
          /\ Call(Done(restore[Here]) /\ rule \in Rules, "ingress", some)
          /\ IF some THEN Goto("rule") ELSE NextNamespace
    BY <1>13 DEF ListIngresses
  <2>2. failures' \in 0 .. MaxFailures /\ (some => rule \in Rules)
    BY <2>1, CallCounts
  <2>3. PassOK'
    BY <2>1, <2>2, GotoOK, NextNamespaceOK DEF Steps
  <2> QED
    BY <1>13, <2>2, <2>3 DEF ListIngresses, TypeOK, PassOK
<1>14. CASE PatchRule
  <2>1. PICK ok \in BOOLEAN :
          /\ Call(rule[3] = 1, "ingress", ok)
          /\ hosts' = IF ok THEN [hosts EXCEPT ![Here][rule] = getHostName(@)] ELSE hosts
          /\ IF ok THEN NextRule ELSE NextNamespace
    BY <1>14 DEF PatchRule
  <2>2. failures' \in 0 .. MaxFailures
    BY <2>1, CallCounts
  <2>3. PassOK'
    BY <1>14, <2>1, NextRuleOK, NextNamespaceOK DEF PatchRule
  <2>4. hosts' \in [Clusters -> [Rules -> 0 .. 2]]
    <3>1. rule \in Rules /\ hosts[Here][rule] \in 0 .. 2
      BY <1>14, <1>h DEF PatchRule, TypeOK
    <3>2. getHostName(hosts[Here][rule]) \in 0 .. 2
      BY <3>1 DEF getHostName
    <3> QED
      BY <2>1, <3>1, <3>2, <1>h DEF TypeOK
  <2> QED
    BY <1>14, <2>2, <2>3, <2>4 DEF PatchRule, TypeOK, PassOK
<1>15. CASE BackUp
  BY <1>15 DEF BackUp, VeleroEnds, TypeOK, Phases, pass
<1>16. ASSUME NEW c \in Clusters \cup {"primary"}, InstallVelero(c) PROVE TypeOK'
  BY <1>16 DEF InstallVelero, TypeOK, pass
<1>17. ASSUME NEW c \in Clusters, SyncBackup(c) \/ RunRestore(c) PROVE TypeOK'
  <2>1. restore' \in [Clusters -> Phases]
    BY <1>17 DEF SyncBackup, RunRestore, VeleroEnds, TypeOK, Phases
  <2> QED
    BY <1>17, <2>1 DEF SyncBackup, RunRestore, TypeOK, pass
<1>18. CASE UNCHANGED vars
  BY <1>18 DEF vars, TypeOK
<1> QED
  BY <1>1, <1>2, <1>3, <1>4, <1>5, <1>6, <1>7, <1>8, <1>9, <1>10, <1>11, <1>12, <1>13,
     <1>14, <1>15, <1>16, <1>17, <1>18 DEF Next, ReconcileStep, VeleroStep

(* Every variable keeps to its values, whatever fails: the indices of the  *)
(* pass stay within the clusters and, while it patches, within the rules.  *)
THEOREM TypeCorrect == Spec => []TypeOK
<1>1. Init => TypeOK
  <2> SUFFICES ASSUME Init PROVE TypeOK
    OBVIOUS
  <2>1. Len(Targets) \in Nat /\ Len(Targets) >= 1
    BY TargetsAssumption
  <2>2. <<1, 1, 1>> \in Nat \X Nat \X Nat
    OBVIOUS
  <2>3. connected \in BOOLEAN /\ pc \in Steps /\ pc # "rule" /\ backup \in Phases
    BY DEF Init, Steps, Phases
  <2>4. restore \in [Clusters -> Phases] /\ annotated \in [Clusters -> SUBSET Services]
        /\ hosts \in [Clusters -> [Rules -> 0 .. 2]]
    BY DEF Init, Phases
  <2>5. velero \subseteq Clusters \cup {"primary"} /\ synced \subseteq Clusters /\ early \subseteq Clusters
    BY DEF Init
  <2>6. failures \in 0 .. MaxFailures /\ target \in 1 .. Len(Targets) /\ rule \in Nat \X Nat \X Nat
    BY <2>1, <2>2, RestoreBoundsAssumption DEF Init, FirstRule
  <2> QED
    BY <2>3, <2>4, <2>5, <2>6 DEF TypeOK
<1> QED
  BY <1>1, TypeStep, PTL DEF Spec

-----------------------------------------------------------------------------
(* Hosts are renamed in order.                                             *)

(* A namespace is entered at its first rule, and the host of the rule the  *)
(* pass is at is renamed no further than the ones before it, even once it  *)
(* is renamed again.                                                       *)
RuleInv ==
  /\ pc \notin {"ingresses", "rule"} => rule = FirstRule
  /\ pc = "ingresses" => rule[2] = 1 /\ rule[3] = 1
  /\ pc = "rule" =>
       \A r \in Rules : Before(r, rule) => hosts[Here][r] >= getHostName(hosts[Here][rule])

(* A step on to another cluster or namespace is not at a rule. *)
LEMMA EnterNamespace ==
  /\ TypeOK /\ NextNamespace => RuleInv'
  /\ AfterIngresses => RuleInv'
<1>1. AfterIngresses => RuleInv'
  BY DEF AfterIngresses, ForgetPass, RuleInv
<1>2. ASSUME TypeOK, rule[1] < Len(Ingresses), NextNamespace PROVE RuleInv'
  <2>1. pc' = "ingresses" /\ rule'[2] = 1 /\ rule'[3] = 1
    BY <1>2 DEF NextNamespace
  <2> QED
    BY <2>1 DEF RuleInv
<1> QED
  BY <1>1, <1>2 DEF NextNamespace

(* The first rule of a namespace comes before all others. *)
LEMMA FirstOfNamespace ==
  ASSUME NEW q \in Rules, q[2] = 1, q[3] = 1, NEW r \in Rules
  PROVE  ~Before(r, q)
<1>1. r = <<r[1], r[2], r[3]>> /\ r \in Nat \X Nat \X Nat
  BY RulesFacts
<1>2. r[1] \in 1 .. Len(Ingresses) /\ r[2] \in 1 .. Len(Ingresses[r[1]])
      /\ r[3] \in 1 .. Ingresses[r[1]][r[2]]
  BY <1>1, RulesFacts
<1> QED
  BY <1>1, <1>2 DEF Before

(* One host renamed once more, if those before it are further. *)
LEMMA RenameInOrder ==
  ASSUME TypeOK, RenamedInOrder, RuleInv, pc = "rule",
         hosts' = [hosts EXCEPT ![Here][rule] = getHostName(@)]
  PROVE  RenamedInOrder'
<1>1. Here \in Clusters /\ rule \in Rules
  BY HereFacts DEF TypeOK
<1>2. ASSUME NEW c \in Clusters, NEW r \in Rules, NEW q \in Rules, Before(r, q)
      PROVE  hosts'[c][r] >= hosts'[c][q]
  <2>1. \A x \in Rules : hosts[c][x] \in 0 .. 2
    BY DEF TypeOK
  <2>2. hosts[c][r] >= hosts[c][q]
    BY <1>2 DEF RenamedInOrder, Before
  <2>3. CASE c # Here
    BY <2>2, <2>3, <1>1 DEF TypeOK
  <2>4. CASE c = Here
    <3>1. \A x \in Rules : hosts'[c][x] = IF x = rule THEN getHostName(hosts[c][x]) ELSE hosts[c][x]
      BY <1>1, <2>4 DEF TypeOK
    <3>2. \A n \in 0 .. 2 : getHostName(n) \in 0 .. 2 /\ getHostName(n) >= n
      BY DEF getHostName
    <3>3. CASE q = rule
      <4>1. hosts[c][r] >= getHostName(hosts[c][rule]) /\ r # rule
        BY <1>2, <2>4, <3>3, <1>1, RulesFacts DEF RuleInv, Before
      <4> QED
        BY <3>1, <3>3, <4>1
    <3>4. CASE q # rule
      BY <2>1, <2>2, <3>1, <3>2, <3>4
    <3> QED
      BY <3>3, <3>4
  <2> QED
    BY <2>3, <2>4
<1> QED
  BY <1>2 DEF RenamedInOrder, Before

(* The next rule is no further than the one just renamed, nor than the     *)
(* ones before that.                                                       *)
LEMMA NextRuleInOrder ==
  ASSUME TypeOK, RenamedInOrder, RuleInv, pc = "rule", NextRule,
         hosts' = [hosts EXCEPT ![Here][rule] = getHostName(@)]
  PROVE  RuleInv'
<1> DEFINE next == <<rule[1], rule[2], rule[3] + 1>>
           jump == <<rule[1], rule[2] + 1, 1>>
<1>1. Here \in Clusters /\ rule \in Rules
  BY HereFacts DEF TypeOK
<1>2. ASSUME NEW s \in Rules, rule' = s, UNCHANGED <<pc, target>>, s = next \/ (s = jump /\ next \notin Rules)
      PROVE  RuleInv'
  <2>1. Here' = Here
    BY <1>2 DEF Here
  <2>2. \A x \in Rules :
          /\ hosts[Here][x] \in 0 .. 2
          /\ hosts'[Here][x] = IF x = rule THEN getHostName(hosts[Here][x]) ELSE hosts[Here][x]
    BY <1>1 DEF TypeOK
  <2>3. \A m, n \in 0 .. 2 : m >= n => getHostName(m) >= getHostName(n) /\ getHostName(m) \in 0 .. 2
    BY DEF getHostName
  <2>4. Before(rule, s) /\ s # rule
    BY <1>1, <1>2, RulesFacts DEF Before
  <2>5. hosts[Here][rule] >= hosts[Here][s]
    BY <1>1, <2>4 DEF RenamedInOrder, Before
  <2>6. getHostName(hosts[Here][rule]) >= getHostName(hosts[Here][s])
    BY <1>1, <2>2, <2>3, <2>5
  <2>7. ASSUME NEW r \in Rules, Before(r, s)
        PROVE  hosts'[Here][r] >= getHostName(hosts'[Here][s])
    <3>1. r = rule \/ Before(r, rule)
      BY <1>1, <1>2, <2>7, Successor
    <3>2. Before(r, rule) => hosts[Here][r] >= getHostName(hosts[Here][rule])
      BY DEF RuleInv
    <3>3. hosts'[Here][s] = hosts[Here][s]
      BY <2>2, <2>4
    <3>4. CASE r = rule
      BY <1>1, <2>2, <2>6, <3>3, <3>4
    <3>5. CASE r # rule
      <4>1. hosts'[Here][r] = hosts[Here][r] /\ hosts[Here][r] >= getHostName(hosts[Here][rule])
        BY <2>2, <3>1, <3>2, <3>5
      <4>2. getHostName(hosts[Here][rule]) \in 0 .. 2 /\ getHostName(hosts[Here][s]) \in 0 .. 2
        BY <1>1, <2>2, <2>3
      <4> QED
        BY <2>2, <2>6, <3>3, <4>1, <4>2
    <3> QED
      BY <3>4, <3>5
  <2> QED
    BY <1>2, <2>1, <2>7 DEF RuleInv, getHostName
<1>3. CASE next \in Rules
  BY <1>2, <1>3 DEF NextRule
<1>4. CASE next \notin Rules /\ jump \in Rules
  BY <1>2, <1>4 DEF NextRule
<1>5. CASE next \notin Rules /\ jump \notin Rules
  BY <1>5, EnterNamespace DEF NextRule
<1> QED
  BY <1>3, <1>4, <1>5

(* Every step keeps the order. *)
LEMMA OrderStep == TypeOK /\ RenamedInOrder /\ RuleInv /\ [Next]_vars => (RenamedInOrder /\ RuleInv)'
<1> SUFFICES ASSUME TypeOK, RenamedInOrder, RuleInv, [Next]_vars
             PROVE  (RenamedInOrder /\ RuleInv)'
  OBVIOUS
<1>1. CASE PatchRule
  <2>1. PICK ok \in BOOLEAN :
          /\ Call(rule[3] = 1, "ingress", ok)
          /\ hosts' = IF ok THEN [hosts EXCEPT ![Here][rule] = getHostName(@)] ELSE hosts
          /\ IF ok THEN NextRule ELSE NextNamespace
    BY <1>1 DEF PatchRule
  <2>2. pc = "rule"
    BY <1>1 DEF PatchRule
  <2>3. CASE ok
    BY <2>1, <2>2, <2>3, RenameInOrder, NextRuleInOrder
  <2>4. CASE ~ok
    BY <2>1, <2>4, EnterNamespace DEF RenamedInOrder
  <2> QED
    BY <2>3, <2>4
<1>2. CASE ListIngresses
  <2>1. PICK some \in BOOLEAN :
          /\ Call(Done(restore[Here]) /\ rule \in Rules, "ingress", some)
          /\ IF some THEN Goto("rule") ELSE NextNamespace
    BY <1>2 DEF ListIngresses
  <2>2. pc = "ingresses" /\ UNCHANGED hosts
    BY <1>2 DEF ListIngresses, workload
  <2>3. CASE some
    <3>1. rule \in Rules /\ rule[2] = 1 /\ rule[3] = 1 /\ pc' = "rule" /\ UNCHANGED <<rule, target>>
      BY <2>1, <2>2, <2>3 DEF Call, Goto, RuleInv
    <3>2. \A r \in Rules : ~Before(r, rule)
      BY <3>1, FirstOfNamespace
    <3>3. RuleInv'
      BY <3>1, <3>2 DEF RuleInv, Before
    <3> QED
      BY <2>2, <3>3 DEF RenamedInOrder
  <2>4. CASE ~some
    BY <2>1, <2>2, <2>4, EnterNamespace DEF RenamedInOrder
  <2> QED
    BY <2>3, <2>4
<1>3. CASE waitForRestore
  <2>1. UNCHANGED hosts /\ RuleInv'
    BY <1>3, EnterNamespace DEF waitForRestore, workload, Goto, RuleInv, FirstRule
  <2> QED
    BY <2>1 DEF RenamedInOrder
<1>4. CASE ~PatchRule /\ ~ListIngresses /\ ~waitForRestore
  <2>1. UNCHANGED hosts
    BY <1>4 DEF Next, ReconcileStep, VeleroStep, vars, workload, Panic, BeginPass,
       AnnotateServices, AnnotatePanics, ConnectPrimary, StageEndsPass, FindCluster,
       ClusterMissing, ClusterPanics, GetBackup, BackupPanics, CreateBackup, waitForBackUp,
       GetRestore, CreateRestore, BackUp, InstallVelero, SyncBackup, RunRestore, CrashRestart
  <2>2. \/ UNCHANGED <<pc, target, rule>>
        \/ pc' \notin {"ingresses", "rule"} /\ rule' = FirstRule
        \/ pc \notin {"ingresses", "rule"} /\ pc' \notin {"ingresses", "rule"} /\ UNCHANGED rule
    BY <1>4 DEF Next, ReconcileStep, VeleroStep, vars, pass, Panic, ForgetPass, Goto, BeginPass,
       AnnotateServices, AnnotatePanics, AnnotateStep, ConnectPrimary, StageEndsPass, FindCluster,
       ClusterMissing, ClusterPanics, GetBackup, BackupPanics, CreateBackup, waitForBackUp,
       GetRestore, CreateRestore, BackUp, InstallVelero, SyncBackup, RunRestore, CrashRestart
  <2>3. RuleInv'
    BY <2>1, <2>2 DEF RuleInv, Here, FirstRule
  <2> QED
    BY <2>1, <2>3 DEF RenamedInOrder
<1> QED
  BY <1>1, <1>2, <1>3, <1>4

(* Whatever fails, and wherever a pass breaks off, the renamed hosts of a  *)
(* namespace are a prefix of its rules, and those renamed twice a prefix   *)
(* of those.                                                               *)
THEOREM HostsInOrder == Spec => []RenamedInOrder
<1>1. Init => RenamedInOrder /\ RuleInv
  BY DEF Init, RenamedInOrder, RuleInv
<1> QED
  BY <1>1, TypeCorrect, OrderStep, PTL DEF Spec
=============================================================================
