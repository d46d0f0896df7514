--------------------------- MODULE TriggerProofs ----------------------------
(* Theorems about the Trigger controller, for any pull requests,           *)
(* repositories, page size, failures and crashes.                          *)
EXTENDS Trigger, TLAPS

-----------------------------------------------------------------------------
(* Type correctness.                                                       *)

(* The calls of the pass that are about one pull request. *)
InHand == {"account", "universe", "commentOpen", "labelOpen", "commentClosed", "labelClosed"}

(* A comment keeps the types. *)
LEMMA CommentType ==
  ASSUME TypeOK, NEW step \in InHand, NEW text \in {"created", "closed"},
         NEW next \in InHand, Comment(step, text, next)
  PROVE  TypeOK'
<1>1. PICK ok \in Outcomes(TRUE, "comment") :
        said' = IF ok THEN [said EXCEPT ![cur] = text] ELSE said
  BY DEF Comment
<1>2. said' \in [PRs -> {"nothing", "created", "closed"}]
  BY <1>1 DEF TypeOK
<1> QED
  BY <1>2 DEF Comment, TypeOK, InHand, Steps, cluster, env

(* So does an edit of the labels. *)
LEMMA RelabelType ==
  ASSUME TypeOK, NEW step \in InHand, NEW gained \in Labels, NEW lost,
         NEW next \in {"open", "closed"}, Relabel(step, gained, lost, next)
  PROVE  TypeOK'
<1>1. PICK ok \in Outcomes(TRUE, "label") :
        pr' = IF ok
                THEN [pr EXCEPT ![cur].labels = (seen[cur] \cup {gained}) \ {lost}]
                ELSE pr
  BY DEF Relabel
<1>2. cur \in PRs
  BY DEF Relabel, TypeOK, InHand
<1>3. (seen[cur] \cup {gained}) \ {lost} \in SUBSET Labels
  BY <1>2 DEF TypeOK
<1>4. pr' \in [PRs -> PRType]
  BY <1>1, <1>2, <1>3 DEF TypeOK, PRType
<1> QED
  BY <1>4 DEF Relabel, TypeOK, InHand, Steps, cluster, env

(* So does a change of a pull request by people. *)
LEMMA MoveType ==
  ASSUME TypeOK, NEW p \in PRs, NEW open \in BOOLEAN, NEW labels \in SUBSET Labels,
         Move(p, open, labels)
  PROVE  TypeOK'
<1>1. pr' \in [PRs -> PRType]
  BY DEF Move, TypeOK, PRType
<1>2. moves' \in 0 .. MaxMoves
  BY TriggerBoundsAssumption DEF Move, TypeOK
<1>3. reopened' \subseteq PRs /\ rushed' \subseteq PRs
  BY DEF Move, TypeOK
<1> QED
  BY <1>1, <1>2, <1>3 DEF Move, TypeOK, cluster, pass

(* The initial states have the types. *)
LEMMA TypeInit == Init => TypeOK
<1> SUFFICES ASSUME Init PROVE TypeOK
  OBVIOUS
<1>1. trigger \in TriggerType /\ mem \in TriggerType
  BY DEF Init, TriggerType
<1>2. pr \in [PRs -> PRType]
  BY DEF Init, PRType
<1>3. cur = NoPR /\ pc = "idle" /\ repo \in 1 .. Len(Repositories)
  BY RepositoriesAssumption DEF Init
<1>4. account \in BOOLEAN /\ moves \in 0 .. MaxMoves /\ crashes \in 0 .. MaxCrashes
  BY TriggerBoundsAssumption DEF Init
<1>5. seen \in [PRs -> SUBSET Labels] /\ todo \subseteq PRs /\ reopened \subseteq PRs
      /\ rushed \subseteq PRs
  BY DEF Init, NothingSeen
<1>6. /\ said \in [PRs -> {"nothing", "created", "closed"}]
      /\ universe \in [Universes -> {"absent", "live", "deleting"}]
      /\ cron \subseteq CronParts /\ schedule \in Nat /\ queued \in BOOLEAN
  BY DEF Init
<1> QED
  BY <1>1, <1>2, <1>3, <1>4, <1>5, <1>6 DEF TypeOK, Steps

(* Every step keeps them. *)
LEMMA TypeStep == TypeOK /\ [Next]_vars => TypeOK'
<1> SUFFICES ASSUME TypeOK, [Next]_vars PROVE TypeOK'
  OBVIOUS
<1>1. CASE BeginPass
  <2>1. repo' \in 1 .. Len(Repositories)
    BY <1>1, RepositoriesAssumption DEF BeginPass
  <2>2. queued' \in BOOLEAN
    BY <1>1 DEF BeginPass
  <2> QED
    BY <1>1, <2>1, <2>2 DEF BeginPass, TypeOK, Steps, github, cluster, env
<1>2. CASE ListOpen
  <2>1. todo' \subseteq PRs
    BY <1>2 DEF ListOpen, Page
  <2>2. seen' \in [PRs -> SUBSET Labels]
    BY <1>2 DEF ListOpen, TypeOK, PRType
  <2> QED
    BY <1>2, <2>1, <2>2 DEF ListOpen, TypeOK, Steps, github, cluster, env
<1>3. ASSUME NEW p \in PRs, TakeOpen(p) PROVE TypeOK'
  BY <1>3, PRsAssumption DEF TakeOpen, TypeOK, Steps, github, cluster, env
<1>4. CASE FindAccount
  BY <1>4 DEF FindAccount, TypeOK, Steps, github, cluster, env
<1>5. CASE CreateAccount
  <2>1. Outcomes(TRUE, "account") \subseteq BOOLEAN
    BY DEF Outcomes
  <2>2. account' \in BOOLEAN
    BY <1>5, <2>1 DEF CreateAccount
  <2> QED
    BY <1>5, <2>2 DEF CreateAccount, TypeOK, Steps, github, env
<1>6. CASE EnsureUniverse
  <2>1. universe' \in [Universes -> {"absent", "live", "deleting"}]
    BY <1>6 DEF EnsureUniverse, TypeOK
  <2>2. rushed' \subseteq PRs
    BY <1>6 DEF EnsureUniverse, TypeOK
  <2> QED
    BY <1>6, <2>1, <2>2 DEF EnsureUniverse, TypeOK, Steps, github
<1>7. CASE CommentOpen
  BY <1>7, CommentType DEF CommentOpen, InHand
<1>8. CASE LabelOpen
  BY <1>8, RelabelType DEF LabelOpen, InHand, Labels
<1>9. CASE OpenDone
  BY <1>9 DEF OpenDone, TypeOK, Steps, NothingSeen, github, cluster, env
<1>10. CASE FindCron
  BY <1>10 DEF FindCron, TypeOK, Steps, CronParts, github, cluster, env
<1>23. ASSUME NEW part \in CronParts, CreateCronPart(part) PROVE TypeOK'
  <2>1. mem.minutes \in Nat
    BY MinutesAssumption DEF TypeOK, TriggerType
  <2>2. cron' \subseteq CronParts /\ schedule' \in Nat
    BY <1>23, <2>1 DEF CreateCronPart, TypeOK
  <2>3. pc' \in Steps /\ pc' \notin InHand /\ pc \notin InHand
    BY <1>23 DEF CreateCronPart, AfterPart, CronParts, Steps, InHand
  <2> QED
    BY <1>23, <2>2, <2>3 DEF CreateCronPart, TypeOK, InHand, github, env
<1>11. CASE Observe
  <2>1. trigger' \in TriggerType /\ queued' \in BOOLEAN
    BY <1>11 DEF Observe, TypeOK, TriggerType
  <2> QED
    BY <1>11, <2>1 DEF Observe, TypeOK, Steps, github, cluster, env
<1>12. CASE ListClosed
  <2>1. todo' \subseteq PRs
    BY <1>12 DEF ListClosed, Page
  <2>2. seen' \in [PRs -> SUBSET Labels]
    BY <1>12 DEF ListClosed, TypeOK, PRType
  <2> QED
    BY <1>12, <2>1, <2>2 DEF ListClosed, TypeOK, Steps, github, cluster, env
<1>13. ASSUME NEW p \in PRs, Teardown(p) PROVE TypeOK'
  <2>1. universe' \in [Universes -> {"absent", "live", "deleting"}]
    BY <1>13 DEF Teardown, TypeOK
  <2> QED
    BY <1>13, <2>1, PRsAssumption DEF Teardown, TypeOK, Steps, github, env
<1>14. CASE CommentClosed
  BY <1>14, CommentType DEF CommentClosed, InHand
<1>15. CASE LabelClosed
  BY <1>15, RelabelType DEF LabelClosed, InHand, Labels
<1>16. CASE ClosedDone
  <2>1. repo' \in 1 .. Len(Repositories)
    BY <1>16, RepositoriesAssumption DEF ClosedDone, TypeOK
  <2> QED
    BY <1>16, <2>1 DEF ClosedDone, TypeOK, Steps, NothingSeen, github, cluster, env
<1>17. CASE Tick \/ Resync
  BY <1>17 DEF Tick, Resync, TypeOK, github, cluster, pass, env
<1>18. ASSUME NEW m \in Minutes, EditTrigger(m) PROVE TypeOK'
  <2>1. trigger' \in TriggerType
    <3>1. trigger \in [gen : Nat, obs : Nat, minutes : Minutes]
      BY DEF TypeOK, TriggerType
    <3>2. trigger.gen + 1 \in Nat
      BY <3>1
    <3> QED
      BY <1>18, <3>1, <3>2 DEF EditTrigger, TriggerType
  <2> QED
    BY <1>18, <2>1 DEF EditTrigger, TypeOK, github, cluster, pass, env
<1>19. ASSUME NEW p \in PRs, AskPreview(p) \/ Withdraw(p) \/ Close(p) \/ Reopen(p)
       PROVE  TypeOK'
  <2>1. pr[p].open \in BOOLEAN /\ pr[p].labels \in SUBSET Labels
    BY DEF TypeOK, PRType
  <2>2. /\ pr[p].labels \cup {"preview"} \in SUBSET Labels
        /\ pr[p].labels \ {"preview"} \in SUBSET Labels
    BY <2>1 DEF Labels
  <2> QED
    BY <1>19, <2>1, <2>2, MoveType DEF AskPreview, Withdraw, Close, Reopen
<1>20. ASSUME NEW name \in Universes, UniverseGone(name) PROVE TypeOK'
  BY <1>20 DEF UniverseGone, TypeOK, github, pass, env
<1>21. CASE CrashRestart
  <2>1. crashes' \in 0 .. MaxCrashes
    BY <1>21, TriggerBoundsAssumption DEF CrashRestart, TypeOK
  <2> QED
    BY <1>21, <2>1, RepositoriesAssumption
    DEF CrashRestart, TypeOK, Steps, NothingSeen, github, cluster
<1>22. CASE UNCHANGED vars
  BY <1>22 DEF vars, TypeOK
<1> QED
  BY <1>1, <1>2, <1>3, <1>4, <1>5, <1>6, <1>7, <1>8, <1>9, <1>10, <1>11, <1>12, <1>13,
     <1>14, <1>15, <1>16, <1>17, <1>18, <1>19, <1>20, <1>21, <1>22, <1>23
  DEF Next, ReconcileStep, People

(* Every variable keeps to its values, whatever fails, and a pull request  *)
(* is in hand exactly while the pass makes calls about one.                *)
THEOREM TypeCorrect == Spec => []TypeOK
  BY TypeInit, TypeStep, PTL DEF Spec

-----------------------------------------------------------------------------
(* Marks.                                                                  *)

(* An edit of the labels that puts one mark takes the other away, whatever *)
(* the old listing said.                                                   *)
LEMMA RelabelMarks ==
  ASSUME TypeOK, MarksExclude, NEW step, NEW next, NEW gained, NEW lost,
         {gained, lost} = {"preview-created", "preview-closed"}, gained # lost,
         Relabel(step, gained, lost, next), step \in InHand
  PROVE  MarksExclude'
<1>1. PICK ok \in Outcomes(TRUE, "label") :
        pr' = IF ok
                THEN [pr EXCEPT ![cur].labels = (seen[cur] \cup {gained}) \ {lost}]
                ELSE pr
  BY DEF Relabel
<1>2. cur \in PRs
  BY DEF Relabel, TypeOK, InHand
<1>3. lost \in {"preview-created", "preview-closed"}
  OBVIOUS
<1> QED
  BY <1>1, <1>2, <1>3 DEF MarksExclude, TypeOK, PRType

(* What people do to a pull request touches no mark. *)
LEMMA MoveMarks ==
  ASSUME TypeOK, MarksExclude, NEW p \in PRs,
         AskPreview(p) \/ Withdraw(p) \/ Close(p) \/ Reopen(p)
  PROVE  MarksExclude'
<1>1. PICK open \in BOOLEAN, labels \in {pr[p].labels, pr[p].labels \cup {"preview"},
                                        pr[p].labels \ {"preview"}} :
        pr' = [pr EXCEPT ![p] = [open |-> open, labels |-> labels]]
  BY DEF AskPreview, Withdraw, Close, Reopen, Move, TypeOK, PRType
<1> QED
  BY <1>1 DEF MarksExclude, TypeOK, PRType

(* Every step keeps the marks apart. *)
LEMMA MarksStep == TypeOK /\ MarksExclude /\ [Next]_vars => MarksExclude'
<1> SUFFICES ASSUME TypeOK, MarksExclude, [Next]_vars PROVE MarksExclude'
  OBVIOUS
<1>1. CASE LabelOpen
  BY <1>1, RelabelMarks DEF LabelOpen, InHand
<1>2. CASE LabelClosed
  BY <1>2, RelabelMarks DEF LabelClosed, InHand
<1>3. CASE People
  BY <1>3, MoveMarks DEF People
<1>4. CASE UNCHANGED pr
  BY <1>4 DEF MarksExclude
<1> QED
  BY <1>1, <1>2, <1>3, <1>4
  DEF Next, ReconcileStep, BeginPass, ListOpen, TakeOpen, FindAccount, CreateAccount,
      EnsureUniverse, CommentOpen, CommentClosed, Comment, OpenDone, FindCron, CreateCronPart, Observe,
      ListClosed, Teardown, ClosedDone, Tick, Resync, EditTrigger, UniverseGone,
      CrashRestart, vars, github

(* No pull request is ever marked created and closed at once, whatever     *)
(* people, failures and crashes do between a listing and the edit of the   *)
(* labels that rests on it.                                                *)
THEOREM MarksApart == Spec => []MarksExclude
<1>1. Init => MarksExclude
  BY DEF Init, MarksExclude
<1> QED
  BY <1>1, TypeCorrect, MarksStep, PTL DEF Spec

-----------------------------------------------------------------------------
(* The CronJob.                                                            *)

(* What a pass has created by the time it is at a part, and what is there  *)
(* once the CronJob is.                                                    *)
CronInv ==
  "cron" \notin Faults =>
    /\ pc \in {"cronRole", "cronBinding", "cronJob"} => "cronAccount" \in cron
    /\ pc \in {"cronBinding", "cronJob"} => "cronRole" \in cron
    /\ pc = "cronJob" => "cronBinding" \in cron
    /\ "cronJob" \in cron => CronParts \subseteq cron

(* Every step keeps this. *)
LEMMA CronStep == TypeOK /\ CronInv /\ [Next]_vars => CronInv'
<1> SUFFICES ASSUME TypeOK, CronInv, [Next]_vars PROVE CronInv'
  OBVIOUS
<1>1. CASE FindCron
  BY <1>1 DEF FindCron, CronInv, cluster
<1>2. ASSUME NEW part \in CronParts, CreateCronPart(part) PROVE CronInv'
  BY <1>2 DEF CreateCronPart, AfterPart, CronParts, CronInv, Outcomes
<1>3. CASE UNCHANGED cron /\ (pc' = pc \/ pc' \notin CronParts)
  BY <1>3 DEF CronInv, CronParts
<1> QED
  BY <1>1, <1>2, <1>3
  DEF Next, ReconcileStep, People, BeginPass, ListOpen, TakeOpen, FindAccount,
      CreateAccount, EnsureUniverse, CommentOpen, CommentClosed, Comment, LabelOpen,
      LabelClosed, Relabel, OpenDone, Observe, ListClosed, Teardown, ClosedDone, Tick,
      Resync, EditTrigger, AskPreview, Withdraw, Close, Reopen, Move, UniverseGone,
      CrashRestart, CronParts, vars, cluster, pass

(* As long as the API server takes what it is given, the CronJob is never  *)
(* there without its account, role and binding, whatever crashes between.  *)
THEOREM CronComplete == Spec => []CronWhole
<1>1. Init => CronInv
  BY DEF Init, CronInv
<1>2. TypeOK /\ CronInv => CronWhole
  BY DEF TypeOK, CronInv, CronWhole
<1> QED
  BY <1>1, <1>2, TypeCorrect, CronStep, PTL DEF Spec

-----------------------------------------------------------------------------
(* A preview is open until its pull request is closed.                     *)

(* No two pull requests of the instance share a Universe: the repositories *)
(* of one Trigger have different names, whoever owns them.                 *)
NamesDistinct == \A p, q \in PRs : makeUniverseName(p) = makeUniverseName(q) => p = q

(* What is still to be torn down was closed when it was listed, so that it *)
(* is closed, or was reopened since.                                       *)
TodoClosed ==
  pc \in {"closed", "commentClosed", "labelClosed"}
    => \A p \in todo : ~pr[p].open \/ p \in reopened

(* Every step keeps this. *)
LEMMA TodoClosedStep == TypeOK /\ TodoClosed /\ [Next]_vars => TodoClosed'
<1> SUFFICES ASSUME TypeOK, TodoClosed, [Next]_vars PROVE TodoClosed'
  OBVIOUS
<1>1. CASE ListClosed
  BY <1>1 DEF ListClosed, Page, TodoClosed, github
<1>2. ASSUME NEW p \in PRs, Teardown(p) PROVE TodoClosed'
  BY <1>2 DEF Teardown, TodoClosed, github, env
<1>3. CASE CommentClosed
  BY <1>3 DEF CommentClosed, Comment, TodoClosed, env
<1>4. CASE LabelClosed
  <2>1. \A p \in PRs : pr'[p].open = pr[p].open
    BY <1>4 DEF LabelClosed, Relabel, TypeOK, PRType
  <2> QED
    BY <1>4, <2>1 DEF LabelClosed, Relabel, TodoClosed, TypeOK, env
<1>5. ASSUME NEW p \in PRs, AskPreview(p) \/ Withdraw(p) \/ Close(p) \/ Reopen(p)
      PROVE  TodoClosed'
  <2>1. PICK open \in BOOLEAN, labels \in SUBSET Labels : Move(p, open, labels)
    BY <1>5 DEF AskPreview, Withdraw, Close, Reopen, TypeOK, PRType, Labels
  <2>2. \A q \in PRs \ {p} : pr'[q] = pr[q]
    BY <2>1 DEF Move, TypeOK
  <2>3. ~pr'[p].open \/ pr[p].open \/ p \in reopened'
    BY <2>1 DEF Move, TypeOK
  <2>4. reopened \subseteq reopened' /\ UNCHANGED <<pc, todo>>
    BY <2>1 DEF Move, pass
  <2> QED
    BY <2>2, <2>3, <2>4 DEF TodoClosed, TypeOK
<1>6. CASE UNCHANGED <<pc, todo, pr, reopened>>
  BY <1>6 DEF TodoClosed
<1>7. CASE pc' \notin {"closed", "commentClosed", "labelClosed"}
  BY <1>7 DEF TodoClosed
<1> QED
  BY <1>1, <1>2, <1>3, <1>4, <1>5, <1>6, <1>7
  DEF Next, ReconcileStep, People, BeginPass, ListOpen, TakeOpen, FindAccount,
      CreateAccount, EnsureUniverse, CommentOpen, Comment, LabelOpen, Relabel, OpenDone,
      FindCron, CreateCronPart, AfterPart, CronParts, Observe, ClosedDone, Tick, Resync, EditTrigger, UniverseGone,
      CrashRestart, vars, github, pass, env

(* A step that takes a live Universe away is the teardown of its own pull  *)
(* request.                                                                *)
LEMMA OnlyTeardown ==
  ASSUME TypeOK, [Next]_vars, NEW n \in Universes, universe[n] = "live",
         universe'[n] # "live"
  PROVE  \E q \in PRs : Teardown(q) /\ makeUniverseName(q) = n
<1>1. CASE EnsureUniverse
  BY <1>1 DEF EnsureUniverse, TypeOK
<1>2. ASSUME NEW q \in PRs, Teardown(q) PROVE makeUniverseName(q) = n
  BY <1>2 DEF Teardown, TypeOK
<1>3. ASSUME NEW name \in Universes, UniverseGone(name) PROVE FALSE
  BY <1>3 DEF UniverseGone, TypeOK
<1>4. ~UNCHANGED universe
  OBVIOUS
<1> QED
  BY <1>1, <1>2, <1>3, <1>4
  DEF Next, ReconcileStep, People, BeginPass, ListOpen, TakeOpen, FindAccount,
      CreateAccount, CommentOpen, CommentClosed, Comment, LabelOpen, LabelClosed, Relabel,
      OpenDone, FindCron, CreateCronPart,
      Observe, ListClosed, ClosedDone, Tick, Resync, EditTrigger,
      AskPreview, Withdraw, Close, Reopen, Move, CrashRestart, vars, cluster

(* The Universe of a pull request that was never closed is not taken down, *)
(* whatever fails and however old the listing of closed pull requests is;  *)
(* that the names differ is needed, because the name leaves out the owner. *)
THEOREM OpenIsKept == ASSUME NamesDistinct PROVE Spec => OpenUntilClosed
<1> DEFINE Kept ==
      \A p \in PRs :
        LET name == makeUniverseName(p) IN
          pr[p].open /\ p \notin reopened /\ universe[name] = "live"
            => universe'[name] = "live"
<1>1. Init => TodoClosed
  BY DEF Init, TodoClosed
<1>2. TypeOK /\ TodoClosed /\ [Next]_vars => [Kept]_vars
  <2> SUFFICES ASSUME TypeOK, TodoClosed, [Next]_vars, NEW p \in PRs, pr[p].open,
                      p \notin reopened, universe[makeUniverseName(p)] = "live",
                      universe'[makeUniverseName(p)] # "live"
               PROVE  FALSE
    OBVIOUS
  <2>1. PICK q \in PRs : Teardown(q) /\ makeUniverseName(q) = makeUniverseName(p)
    BY OnlyTeardown DEF Universes
  <2>2. q = p
    BY <2>1, NamesDistinct DEF NamesDistinct
  <2> QED
    BY <2>1, <2>2 DEF Teardown, TodoClosed
<1> QED
  BY <1>1, <1>2, TypeCorrect, TodoClosedStep, PTL DEF Spec, OpenUntilClosed

-----------------------------------------------------------------------------
(* The marks are true.                                                     *)

(* The calls about one pull request that follow the look at its Universe, *)
(* and those that follow its teardown.                                     *)
AfterEnsure == {"commentOpen", "labelOpen"}
AfterTeardown == {"commentClosed", "labelClosed"}

LiveAt(p) == universe[makeUniverseName(p)] = "live"

(* No step but these touches a mark, a Universe or what they rest on. *)
Quiet ==
  /\ UNCHANGED <<universe, rushed>>
  /\ \A p \in PRs : pr'[p].labels \ {"preview"} = pr[p].labels \ {"preview"}

(* What the other steps leave alone, and where they lead. *)
LEMMA QuietStep ==
  ASSUME TypeOK, [Next]_vars, ~EnsureUniverse, ~LabelOpen, ~LabelClosed,
         \A p \in PRs : ~Teardown(p), \A n \in Universes : ~UniverseGone(n)
  PROVE  Quiet
<1>1. CASE UNCHANGED <<universe, rushed, pr>>
  BY <1>1 DEF Quiet
<1>2. ASSUME NEW p \in PRs, AskPreview(p) \/ Withdraw(p) \/ Close(p) \/ Reopen(p)
      PROVE  Quiet
  <2>1. PICK open \in BOOLEAN, labels \in {pr[p].labels, pr[p].labels \cup {"preview"},
                                          pr[p].labels \ {"preview"}} :
          Move(p, open, labels)
    BY <1>2 DEF AskPreview, Withdraw, Close, Reopen, TypeOK, PRType
  <2>2. pr' = [pr EXCEPT ![p] = [open |-> open, labels |-> labels]]
        /\ UNCHANGED <<universe, rushed>>
    BY <2>1 DEF Move, cluster
  <2>3. \A q \in PRs : q # p => pr'[q] = pr[q]
    BY <2>2 DEF TypeOK
  <2>4. pr'[p].labels = labels
    BY <2>2 DEF TypeOK
  <2> QED
    BY <2>2, <2>3, <2>4 DEF Quiet
<1> QED
  BY <1>1, <1>2
  DEF Next, ReconcileStep, People, BeginPass, ListOpen, TakeOpen, FindAccount,
      CreateAccount, CommentOpen, CommentClosed, Comment, OpenDone, FindCron,
      CreateCronPart, Observe, ListClosed, ClosedDone, Tick, Resync, EditTrigger,
      CrashRestart, vars, github, cluster, env

(* A look at a Universe, in the state of the pull request in hand. *)
LEMMA InHandFacts ==
  ASSUME TypeOK, pc \in InHand
  PROVE  cur \in PRs /\ makeUniverseName(cur) \in Universes
  BY DEF TypeOK, InHand, Universes

(* What leads to the calls after the look at the Universe, and to those    *)
(* after a teardown.                                                       *)
LEMMA CallOrder ==
  ASSUME TypeOK, [Next]_vars
  PROVE  /\ pc' \in AfterEnsure => \/ EnsureUniverse \/ FindAccount \/ CreateAccount
                                   \/ pc \in AfterEnsure /\ cur' = cur
         /\ pc' \in AfterTeardown => \/ \E p \in PRs : Teardown(p)
                                     \/ pc \in AfterTeardown /\ cur' = cur
         /\ pc \in AfterEnsure => \/ LabelOpen \/ CrashRestart
                                  \/ pc' \in AfterEnsure /\ cur' = cur
         /\ pc \in AfterTeardown => \/ LabelClosed \/ CrashRestart
                                    \/ pc' \in AfterTeardown /\ cur' = cur
<1>1. CASE pc' = pc /\ cur' = cur
  BY <1>1
<1>2. CASE pc \notin AfterEnsure \cup AfterTeardown /\ pc' \notin AfterEnsure \cup AfterTeardown
  BY <1>2
<1>3. CASE CommentOpen \/ CommentClosed
  BY <1>3 DEF CommentOpen, CommentClosed, Comment, AfterEnsure, AfterTeardown
<1>4. CASE EnsureUniverse \/ FindAccount \/ CreateAccount
  BY <1>4 DEF EnsureUniverse, FindAccount, CreateAccount, AfterEnsure, AfterTeardown
<1>5. ASSUME NEW p \in PRs, Teardown(p)
      PROVE  pc' \notin AfterEnsure /\ pc \notin AfterEnsure \cup AfterTeardown
  BY <1>5 DEF Teardown, AfterEnsure, AfterTeardown
<1>6. CASE LabelOpen \/ LabelClosed
  BY <1>6 DEF LabelOpen, LabelClosed, Relabel, AfterEnsure, AfterTeardown
<1>7. CASE CrashRestart
  BY <1>7 DEF CrashRestart, AfterEnsure, AfterTeardown
<1> QED
  BY <1>1, <1>2, <1>3, <1>4, <1>5, <1>6, <1>7
  DEF Next, ReconcileStep, People, BeginPass, ListOpen, TakeOpen, OpenDone, FindCron,
      CreateCronPart, AfterPart, CronParts, Observe, ListClosed, ClosedDone, Tick, Resync,
      EditTrigger, AskPreview, Withdraw, Close, Reopen, Move, UniverseGone, AfterEnsure,
      AfterTeardown, vars, pass

(* The account is there, no call that creates or marks fails, and no crash *)
(* falls between a Universe and its mark.                                  *)
CreatesReliably ==
  /\ AccountExists /\ MaxCrashes = 0
  /\ {"account", "universe", "label"} \cap Faults = {}

(* A mark of creation stands for a live Universe, or one that was created  *)
(* too late; it is taken off with the pull request in hand, and put on     *)
(* after the Universe was looked for.                                      *)
CreatedInv ==
  /\ account
  /\ \A p \in PRs :
       "preview-created" \in pr[p].labels /\ ~(cur = p /\ pc \in AfterTeardown)
         => LiveAt(p) \/ p \in rushed
  /\ pc \in AfterEnsure => LiveAt(cur) \/ cur \in rushed

(* The labels after an edit that does not fail. *)
LEMMA RelabelResult ==
  ASSUME TypeOK, "label" \notin Faults, NEW step \in InHand, NEW gained, NEW lost, NEW next,
         Relabel(step, gained, lost, next)
  PROVE  /\ cur \in PRs /\ cur' = NoPR /\ pc' = next /\ UNCHANGED <<universe, rushed, account>>
         /\ lost \notin pr'[cur].labels
         /\ \A p \in PRs \ {cur} : pr'[p].labels = pr[p].labels
<1>1. cur \in PRs
  BY DEF Relabel, TypeOK, InHand
<1>2. pr' = [pr EXCEPT ![cur].labels = (seen[cur] \cup {gained}) \ {lost}]
  BY DEF Relabel, Outcomes
<1>3. lost \notin pr'[cur].labels /\ \A p \in PRs \ {cur} : pr'[p].labels = pr[p].labels
  BY <1>1, <1>2 DEF TypeOK, PRType
<1> QED
  BY <1>1, <1>3 DEF Relabel, cluster, env

(* What the look at a Universe that does not fail does. *)
LEMMA EnsureResult ==
  ASSUME TypeOK, NamesDistinct, "universe" \notin Faults, EnsureUniverse
  PROVE  /\ cur \in PRs /\ cur' = cur /\ UNCHANGED <<pr, account>>
         /\ \A p \in PRs \ {cur} : (LiveAt(p)' <=> LiveAt(p)) /\ (p \in rushed' <=> p \in rushed)
         /\ LiveAt(cur)' \/ cur \in rushed'
<1>1. cur \in PRs /\ makeUniverseName(cur) \in Universes
  BY InHandFacts DEF EnsureUniverse, InHand
<1> DEFINE name == makeUniverseName(cur)
           ok == universe[name] = "absent"
<1>2. /\ universe' = IF ok THEN [universe EXCEPT ![name] = "live"] ELSE universe
      /\ rushed' = IF ok THEN rushed \ {cur}
                   ELSE IF universe[name] = "deleting" THEN rushed \cup {cur} ELSE rushed
  BY DEF EnsureUniverse, Outcomes
<1>3. ASSUME NEW p \in PRs \ {cur}
      PROVE  (LiveAt(p)' <=> LiveAt(p)) /\ (p \in rushed' <=> p \in rushed)
  <2>1. makeUniverseName(p) # name /\ makeUniverseName(p) \in Universes
    BY <1>1, NamesDistinct DEF NamesDistinct, Universes
  <2> QED
    BY <1>1, <1>2, <2>1 DEF LiveAt, TypeOK
<1>4. universe[name] \in {"absent", "live", "deleting"}
  BY <1>1 DEF TypeOK
<1>5. LiveAt(cur)' \/ cur \in rushed'
  BY <1>1, <1>2, <1>4 DEF LiveAt, TypeOK, EnsureUniverse
<1> QED
  BY <1>1, <1>3, <1>5 DEF EnsureUniverse, github

(* What a teardown that does not fail does. *)
LEMMA TeardownResult ==
  ASSUME TypeOK, NamesDistinct, NEW q \in PRs, Teardown(q)
  PROVE  /\ cur' = q /\ pc' = "commentClosed" /\ UNCHANGED <<pr, account, rushed>>
         /\ pc \notin AfterEnsure \cup AfterTeardown
         /\ \A p \in PRs \ {q} : LiveAt(p)' <=> LiveAt(p)
         /\ "delete" \notin Faults => ~LiveAt(q)'
<1> DEFINE name == makeUniverseName(q)
<1>1. PICK ok \in Outcomes(universe[name] = "live", "delete"), left \in {"deleting", "absent"} :
        universe' = IF ok THEN [universe EXCEPT ![name] = left] ELSE universe
  BY DEF Teardown
<1>2. name \in Universes
  BY DEF Universes
<1>3. ASSUME NEW p \in PRs \ {q} PROVE LiveAt(p)' <=> LiveAt(p)
  <2>1. makeUniverseName(p) # name /\ makeUniverseName(p) \in Universes
    BY NamesDistinct DEF NamesDistinct, Universes
  <2> QED
    BY <1>1, <2>1 DEF LiveAt, TypeOK
<1>4. "delete" \notin Faults => (ok <=> universe[name] = "live")
  BY DEF Outcomes
<1>5. "delete" \notin Faults => ~LiveAt(q)'
  BY <1>1, <1>2, <1>4 DEF LiveAt, TypeOK
<1> QED
  BY <1>3, <1>5 DEF Teardown, github, env, AfterEnsure, AfterTeardown

(* A Universe that goes was not live. *)
LEMMA GoneResult ==
  ASSUME TypeOK, NEW n \in Universes, UniverseGone(n)
  PROVE  /\ UNCHANGED <<pr, account, rushed, cur, pc>>
         /\ \A p \in PRs : LiveAt(p)' <=> LiveAt(p)
  BY DEF UniverseGone, LiveAt, TypeOK, Universes, github, pass, env

(* No crash is left, and an account that is there is not created. *)
LEMMA CreatedQuiet ==
  ASSUME TypeOK, CreatesReliably, CreatedInv, [Next]_vars, Quiet, ~EnsureUniverse,
         ~LabelOpen, ~LabelClosed, \A p \in PRs : ~Teardown(p)
  PROVE  CreatedInv'
<1>1. ~CrashRestart
  BY DEF CreatesReliably, CrashRestart, TypeOK
<1>2. ~CreateAccount /\ account'
  BY DEF CreatedInv, CreateAccount, Next, ReconcileStep, People, BeginPass, ListOpen, TakeOpen,
         FindAccount, CommentOpen, CommentClosed, Comment, OpenDone, FindCron, CreateCronPart,
         Observe, ListClosed, ClosedDone, Tick, Resync, EditTrigger, AskPreview, Withdraw, Close,
         Reopen, Move, UniverseGone, CrashRestart, vars, cluster
<1>3. FindAccount => pc' = "universe"
  BY DEF FindAccount, CreatesReliably, Outcomes
<1>4. /\ pc' \in AfterEnsure => pc \in AfterEnsure /\ cur' = cur
      /\ pc \in AfterTeardown => pc' \in AfterTeardown /\ cur' = cur
  BY <1>1, <1>2, <1>3, CallOrder DEF AfterEnsure
<1>5. \A p \in PRs : "preview-created" \in pr'[p].labels => "preview-created" \in pr[p].labels
  BY DEF Quiet
<1> QED
  BY <1>2, <1>4, <1>5 DEF CreatedInv, Quiet, LiveAt

(* Every step keeps the marks of creation true. *)
LEMMA CreatedStep ==
  ASSUME NamesDistinct, CreatesReliably
  PROVE  TypeOK /\ CreatedInv /\ [Next]_vars => CreatedInv'
<1> SUFFICES ASSUME TypeOK, CreatedInv, [Next]_vars PROVE CreatedInv'
  OBVIOUS
<1>f. {"account", "universe", "label"} \cap Faults = {} /\ NoPR \notin PRs
  BY PRsAssumption DEF CreatesReliably
<1>1. CASE EnsureUniverse
  <2>1. pc = "universe" /\ pc' = "commentOpen"
    BY <1>1 DEF EnsureUniverse
  <2> QED
    BY <1>1, <1>f, <2>1, EnsureResult DEF CreatedInv, AfterEnsure, AfterTeardown
<1>2. CASE LabelOpen
  <2>1. /\ cur \in PRs /\ cur' = NoPR /\ pc' = "open" /\ UNCHANGED <<universe, rushed, account>>
        /\ \A p \in PRs \ {cur} : pr'[p].labels = pr[p].labels
    BY <1>2, <1>f, RelabelResult DEF LabelOpen, InHand
  <2>2. pc = "labelOpen"
    BY <1>2 DEF LabelOpen, Relabel
  <2> QED
    BY <2>1, <2>2 DEF CreatedInv, LiveAt, AfterEnsure, AfterTeardown
<1>3. CASE LabelClosed
  <2>1. /\ cur \in PRs /\ cur' = NoPR /\ pc' = "closed" /\ UNCHANGED <<universe, rushed, account>>
        /\ "preview-created" \notin pr'[cur].labels
        /\ \A p \in PRs \ {cur} : pr'[p].labels = pr[p].labels
    BY <1>3, <1>f, RelabelResult DEF LabelClosed, InHand
  <2> QED
    BY <2>1 DEF CreatedInv, LiveAt, AfterEnsure, AfterTeardown
<1>4. ASSUME NEW q \in PRs, Teardown(q) PROVE CreatedInv'
  <2>1. /\ cur' = q /\ pc' = "commentClosed" /\ UNCHANGED <<pr, account, rushed>>
        /\ pc \notin AfterEnsure \cup AfterTeardown
        /\ \A p \in PRs \ {q} : LiveAt(p)' <=> LiveAt(p)
    BY <1>4, TeardownResult
  <2> QED
    BY <2>1 DEF CreatedInv, AfterEnsure, AfterTeardown
<1>5. ASSUME NEW n \in Universes, UniverseGone(n) PROVE CreatedInv'
  <2>1. /\ UNCHANGED <<pr, account, rushed, cur, pc>>
        /\ \A p \in PRs : LiveAt(p)' <=> LiveAt(p)
    BY <1>5, GoneResult
  <2>2. pc \in AfterEnsure => cur \in PRs
    BY InHandFacts DEF AfterEnsure, InHand
  <2> QED
    BY <2>1, <2>2 DEF CreatedInv, LiveAt
<1> QED
  BY <1>1, <1>2, <1>3, <1>4, <1>5, QuietStep, CreatedQuiet

(* "Environment for pr ... was created successfully" is true of every pull *)
(* request that is marked and not in hand, as long as the account exists,  *)
(* no Create or edit of labels fails and nothing crashes in between; each  *)
(* of these conditions is needed.                                          *)
THEOREM CreatedIsLive ==
  ASSUME NamesDistinct, CreatesReliably
  PROVE  Spec => []MarkedCreatedIsLive
<1>1. Init => CreatedInv
  BY DEF Init, CreatedInv, CreatesReliably, AfterEnsure
<1>2. CreatedInv => MarkedCreatedIsLive
  BY DEF CreatedInv, MarkedCreatedIsLive, LiveAt
<1> QED
  BY <1>1, <1>2, TypeCorrect, CreatedStep, PTL DEF Spec

-----------------------------------------------------------------------------
(* Closed pull requests.                                                   *)

(* No delete or edit of labels fails, and no crash falls between a Universe *)
(* and its mark.                                                           *)
ClosesReliably == MaxCrashes = 0 /\ {"label", "delete"} \cap Faults = {}

(* A mark of closing stands for a Universe that is not live, until the     *)
(* pull request is in hand again; a torn down Universe is not live.        *)
ClosedInv ==
  /\ \A p \in PRs :
       "preview-closed" \in pr[p].labels /\ ~(cur = p /\ pc \in AfterEnsure) => ~LiveAt(p)
  /\ pc \in AfterTeardown => ~LiveAt(cur)

(* Every step keeps the marks of closing true. *)
LEMMA ClosedStep ==
  ASSUME NamesDistinct, ClosesReliably
  PROVE  TypeOK /\ ClosedInv /\ [Next]_vars => ClosedInv'
<1> SUFFICES ASSUME TypeOK, ClosedInv, [Next]_vars PROVE ClosedInv'
  OBVIOUS
<1>f. {"label", "delete"} \cap Faults = {} /\ NoPR \notin PRs /\ ~CrashRestart
  BY PRsAssumption DEF ClosesReliably, CrashRestart, TypeOK
<1>1. CASE EnsureUniverse
  <2>1. pc = "universe" /\ pc' = "commentOpen" /\ UNCHANGED <<pr, cur>>
    BY <1>1 DEF EnsureUniverse, github
  <2>2. cur \in PRs /\ makeUniverseName(cur) \in Universes
    BY <1>1, InHandFacts DEF EnsureUniverse, InHand
  <2>3. ASSUME NEW p \in PRs \ {cur} PROVE LiveAt(p)' <=> LiveAt(p)
    <3>1. makeUniverseName(p) # makeUniverseName(cur) /\ makeUniverseName(p) \in Universes
      BY <2>2, NamesDistinct DEF NamesDistinct, Universes
    <3> QED
      BY <1>1, <2>2, <3>1 DEF EnsureUniverse, LiveAt, TypeOK
  <2> QED
    BY <2>1, <2>2, <2>3 DEF ClosedInv, AfterEnsure, AfterTeardown
<1>2. CASE LabelOpen
  <2>1. /\ cur \in PRs /\ cur' = NoPR /\ pc' = "open" /\ UNCHANGED universe
        /\ "preview-closed" \notin pr'[cur].labels
        /\ \A p \in PRs \ {cur} : pr'[p].labels = pr[p].labels
    BY <1>2, <1>f, RelabelResult DEF LabelOpen, InHand
  <2> QED
    BY <2>1 DEF ClosedInv, LiveAt, AfterEnsure, AfterTeardown
<1>3. CASE LabelClosed
  <2>1. /\ cur \in PRs /\ cur' = NoPR /\ pc' = "closed" /\ UNCHANGED universe
        /\ \A p \in PRs \ {cur} : pr'[p].labels = pr[p].labels
    BY <1>3, <1>f, RelabelResult DEF LabelClosed, InHand
  <2>2. pc = "labelClosed"
    BY <1>3 DEF LabelClosed, Relabel
  <2> QED
    BY <2>1, <2>2 DEF ClosedInv, LiveAt, AfterEnsure, AfterTeardown
<1>4. ASSUME NEW q \in PRs, Teardown(q) PROVE ClosedInv'
  <2>1. /\ cur' = q /\ pc' = "commentClosed" /\ UNCHANGED pr
        /\ pc \notin AfterEnsure \cup AfterTeardown
        /\ \A p \in PRs \ {q} : LiveAt(p)' <=> LiveAt(p)
        /\ ~LiveAt(q)'
    BY <1>4, <1>f, TeardownResult
  <2> QED
    BY <2>1 DEF ClosedInv, AfterEnsure, AfterTeardown
<1>5. ASSUME NEW n \in Universes, UniverseGone(n) PROVE ClosedInv'
  <2>1. UNCHANGED <<pr, cur, pc>> /\ \A p \in PRs : LiveAt(p)' <=> LiveAt(p)
    BY <1>5, GoneResult
  <2>2. pc \in AfterTeardown => cur \in PRs
    BY InHandFacts DEF AfterTeardown, InHand
  <2> QED
    BY <2>1, <2>2 DEF ClosedInv, LiveAt
<1>6. CASE /\ Quiet /\ ~EnsureUniverse /\ ~LabelOpen /\ ~LabelClosed
           /\ \A p \in PRs : ~Teardown(p)
  <2>1. /\ pc' \in AfterTeardown => pc \in AfterTeardown /\ cur' = cur
        /\ pc \in AfterEnsure => pc' \in AfterEnsure /\ cur' = cur
    BY <1>6, <1>f, CallOrder
  <2>2. \A p \in PRs : "preview-closed" \in pr'[p].labels => "preview-closed" \in pr[p].labels
    BY <1>6 DEF Quiet
  <2> QED
    BY <1>6, <2>1, <2>2 DEF ClosedInv, Quiet, LiveAt
<1> QED
  BY <1>1, <1>2, <1>3, <1>4, <1>5, <1>6, QuietStep

(* A pull request marked preview-closed has no live Universe, whatever     *)
(* people do during a pass that works on an old listing, and whatever      *)
(* fails but deletes and edits of labels.                                  *)
THEOREM ClosedIsDown ==
  ASSUME NamesDistinct, ClosesReliably
  PROVE  Spec => []MarkedClosedIsDown
<1>1. Init => ClosedInv
  BY DEF Init, ClosedInv, AfterTeardown
<1>2. TypeOK /\ ClosedInv => MarkedClosedIsDown
  BY DEF ClosedInv, MarkedClosedIsDown, LiveAt
<1> QED
  BY <1>1, <1>2, TypeCorrect, ClosedStep, PTL DEF Spec

-----------------------------------------------------------------------------
(* Universes as the Lifecycles of another component.                       *)

(* What the controller and its surroundings may do to a Universe's phase.  *)
PhaseStep(old, new) ==
  \/ new = old
  \/ old = "absent" /\ new = "live"
  \/ old = "live" /\ new \in {"deleting", "absent"}
  \/ old = "deleting" /\ new = "absent"

(* No step does anything else. *)
LEMMA UniversePhases ==
  ASSUME TypeOK, [Next]_vars, NEW n \in Universes
  PROVE  PhaseStep(universe[n], universe'[n])
<1>1. CASE EnsureUniverse
  BY <1>1 DEF EnsureUniverse, Outcomes, TypeOK, PhaseStep
<1>2. ASSUME NEW p \in PRs, Teardown(p) PROVE PhaseStep(universe[n], universe'[n])
  BY <1>2 DEF Teardown, Outcomes, TypeOK, PhaseStep
<1>3. ASSUME NEW m \in Universes, UniverseGone(m) PROVE PhaseStep(universe[n], universe'[n])
  BY <1>3 DEF UniverseGone, TypeOK, PhaseStep
<1>4. CASE UNCHANGED universe
  BY <1>4 DEF PhaseStep
<1> QED
  BY <1>1, <1>2, <1>3, <1>4
  DEF Next, ReconcileStep, People, BeginPass, ListOpen, TakeOpen, FindAccount,
      CreateAccount, CommentOpen, CommentClosed, Comment, LabelOpen, LabelClosed, Relabel,
      OpenDone, FindCron, CreateCronPart, Observe, ListClosed, ClosedDone, Tick, Resync,
      EditTrigger, AskPreview, Withdraw, Close, Reopen, Move, CrashRestart, vars, cluster

(* Such a step is one of a Lifecycle. *)
LEMMA PhaseIsLife ==
  ASSUME NEW n \in Universes, universe[n] \in {"absent", "live", "deleting"},
         PhaseStep(universe[n], universe'[n])
  PROVE  Life(n)!Next \/ universe'[n] = universe[n]
  BY DEF PhaseStep, Generation, Life!Next, Life!Create, Life!Delete, Life!Vanish

(* What the Trigger controller does to Universes and assumes of them is    *)
(* what the Universe controller implements, whatever fails or crashes and  *)
(* even if Universes share a name.                                         *)
THEOREM ContractKept == Spec => UniversesAreLifecycles
<1> DEFINE Contract ==
      \A name \in Universes : Life(name)!Next \/ universe'[name] = universe[name]
<1>1. Init => \A name \in Universes : Life(name)!Init
  BY DEF Init, Generation, Life!Init
<1>2. TypeOK /\ [Next]_vars => [Contract]_vars
  <2> SUFFICES ASSUME TypeOK, [Next]_vars, NEW n \in Universes
               PROVE  Life(n)!Next \/ universe'[n] = universe[n]
    OBVIOUS
  <2>1. universe[n] \in {"absent", "live", "deleting"}
    BY DEF TypeOK
  <2> QED
    BY <2>1, UniversePhases, PhaseIsLife
<1> QED
  BY <1>1, <1>2, TypeCorrect, PTL DEF Spec, UniversesAreLifecycles
=============================================================================
