------------------------------ MODULE Trigger -------------------------------
(***************************************************************************)
(* The Trigger controller (controllers/trigger_controller.go): one Trigger *)
(* object that watches GitHub repositories.  A pass lists a repository's   *)
(* open pull requests, creates a Universe for each that asks for a preview, *)
(* comments and relabels; installs the CronJob that will wake it again;    *)
(* then lists the closed ones and tears their Universes down.  Labels are  *)
(* the controller's only memory: it decides by, and writes back, the       *)
(* labels of a listing that is old by the time it acts, and it logs the    *)
(* errors of its calls and goes on.  Meanwhile people label, close and     *)
(* reopen pull requests, and the Universe controller removes what was      *)
(* deleted.                                                                *)
(***************************************************************************)
EXTENDS Integers, Sequences, FiniteSets

CONSTANTS
  PRs,           \* pull requests, records [owner, repo, number]
  NoPR,          \* no pull request
  Repositories,  \* the Trigger's list of repositories, pairs <<owner, repo>>
  PageSize,      \* how many pull requests GitHub returns in one listing
  Minutes,       \* values of requeueAfterMinutes
  AccountExists, \* whether the clusters' shared service account is there at first
  Faults,        \* calls that may fail for reasons outside the model
  MaxGeneration, \* no edit of the Trigger beyond this generation
  MaxMoves,      \* no more changes of pull requests by people than this
  MaxCrashes     \* no more crashes than this

Labels == {"preview", "preview-created", "preview-closed"}
CronParts == {"cronAccount", "cronRole", "cronBinding", "cronJob"}

(* The Universe of a pull request: the owner is not part of its name. *)
makeUniverseName(p) == <<p.repo, p.number>>
Universes == {makeUniverseName(p) : p \in PRs}

ASSUME PRsAssumption ==
  /\ PRs \subseteq [owner : STRING, repo : STRING, number : Nat]
  /\ IsFiniteSet(PRs) /\ NoPR \notin PRs
ASSUME RepositoriesAssumption ==
  Repositories \in Seq(STRING \X STRING) /\ Len(Repositories) >= 1
ASSUME PageAssumption == PageSize \in Nat
ASSUME MinutesAssumption == Minutes \subseteq Nat /\ Minutes # {}
ASSUME TriggerFaultsAssumption ==
  Faults \subseteq {"list", "account", "universe", "comment", "label", "cron", "delete"}
ASSUME TriggerBoundsAssumption ==
  /\ AccountExists \in BOOLEAN
  /\ MaxGeneration \in Nat /\ MaxMoves \in Nat /\ MaxCrashes \in Nat

VARIABLES
  pr,       \* GitHub: each pull request's state and labels
  said,     \* GitHub: the last comment of the controller on each
  universe, \* the Universes by name
  account,  \* the shared service account exists
  cron,     \* the parts of the CronJob that exist
  schedule, \* the interval of the CronJob
  trigger,  \* the Trigger object
  queued,   \* the workqueue holds its key
  mem,      \* the copy of it the pass works on
  pc,       \* the call the pass makes next
  repo,     \* the repository the pass is at
  seen,     \* the labels of the last listing
  todo,     \* its pull requests that are still to be handled
  cur,      \* the one being handled
  moves,    \* changes by people so far
  crashes,  \* crashes so far
  reopened, \* history: pull requests that were reopened
  rushed    \* history: pull requests whose request met a Universe being deleted

github == <<pr, said>>
cluster == <<universe, account, cron, schedule>>
pass == <<pc, repo, seen, todo, cur, mem>>
env == <<moves, crashes, reopened, rushed>>
vars == <<pr, said, universe, account, cron, schedule, trigger, queued, mem, pc,
          repo, seen, todo, cur, moves, crashes, reopened, rushed>>

PRType == [open : BOOLEAN, labels : SUBSET Labels]
TriggerType == [gen : Nat, obs : Nat, minutes : Minutes]
Steps == {"idle", "listOpen", "open", "account", "universe", "commentOpen",
          "labelOpen", "cron", "observe", "listClosed", "closed",
          "commentClosed", "labelClosed"} \cup CronParts

NothingSeen == [p \in PRs |-> {}]

Outcomes(ok, fault) == {ok} \cup (IF fault \in Faults THEN {FALSE} ELSE {})

-----------------------------------------------------------------------------
(* Listing.                                                                *)

\* Mutant: the listing does not ask for a state.
PageAll(open) ==
  LET all == {p \in PRs : <<p.owner, p.repo>> = Repositories[repo]}
  IN {p \in all : Cardinality({q \in all : q.number > p.number}) < PageSize}

(* The first page of the repository's pull requests in that state, newest  *)
(* first; the controller asks for no other.                                *)
Page(open) ==
  LET all == {p \in PRs : <<p.owner, p.repo>> = Repositories[repo] /\ pr[p].open = open}
  IN {p \in all : Cardinality({q \in all : q.number > p.number}) < PageSize}

\* Mutant: a pull request that was closed once is not looked at again.
WantsPreviewOnce(labels) == {"preview-created", "preview-closed"} \cap labels = {} /\ "preview" \in labels

\* Mutant: the condition of the other loop.
WantsTeardownCopied(labels) == "preview" \in labels /\ "preview-created" \notin labels

WantsPreview(labels) == "preview" \in labels /\ "preview-created" \notin labels
WantsTeardown(labels) == "preview" \in labels /\ "preview-closed" \notin labels

(* Start a pass over the repositories. *)
BeginPass ==
  /\ pc = "idle" /\ queued
  /\ queued' = FALSE
  /\ mem' = trigger
  /\ pc' = "listOpen" /\ repo' = 1
  /\ UNCHANGED <<github, cluster, trigger, seen, todo, cur, env>>

(* A failed listing is an empty one. *)
ListOpen ==
  /\ pc = "listOpen"
  /\ \E ok \in Outcomes(TRUE, "list") :
       todo' = IF ok THEN {p \in Page(TRUE) : WantsPreview(pr[p].labels)} ELSE {}
  /\ seen' = [p \in PRs |-> pr[p].labels]
  /\ pc' = "open"
  /\ UNCHANGED <<github, cluster, trigger, queued, repo, cur, mem, env>>

-----------------------------------------------------------------------------
(* A request for a preview.                                                *)

TakeOpen(p) ==
  /\ pc = "open" /\ p \in todo
  /\ todo' = todo \ {p} /\ cur' = p
  /\ pc' = "account"
  /\ UNCHANGED <<github, cluster, trigger, queued, repo, seen, mem, env>>

\* Mutant: NewUniverse returns after the account in every case.
FindAccountReturns ==
  /\ pc = "account" /\ account
  /\ pc' = "commentOpen"
  /\ UNCHANGED <<github, cluster, trigger, queued, repo, seen, todo, cur, mem, env>>

(* NewUniverse, first half: the account all preview clusters share.  When  *)
(* it has to be created, NewUniverse returns afterwards, with the error of *)
(* the Get that did not find it.                                           *)
FindAccount ==
  /\ pc = "account" /\ account
  /\ \E ok \in Outcomes(TRUE, "account") :
       pc' = IF ok THEN "universe" ELSE "commentOpen"
  /\ UNCHANGED <<github, cluster, trigger, queued, repo, seen, todo, cur, mem, env>>

CreateAccount ==
  /\ pc = "account" /\ ~account
  /\ \E ok \in Outcomes(TRUE, "account") : account' = ok
  /\ pc' = "commentOpen"
  /\ UNCHANGED <<github, universe, cron, schedule, trigger, queued, repo, seen, todo,
                 cur, mem, env>>

\* Mutant: a Universe that is being deleted is written over.
EnsureUniverseRevives ==
  /\ pc = "universe"
  /\ LET name == makeUniverseName(cur) IN
       \E ok \in Outcomes(universe[name] # "live", "universe") :
         universe' = IF ok THEN [universe EXCEPT ![name] = "live"] ELSE universe
  /\ pc' = "commentOpen"
  /\ UNCHANGED <<github, account, cron, schedule, trigger, queued, repo, seen, todo,
                 cur, mem, env>>

(* NewUniverse, second half: a Universe that exists, be it one that is     *)
(* being deleted, is left as it is.                                        *)
EnsureUniverse ==
  /\ pc = "universe"
  /\ LET name == makeUniverseName(cur) IN
       \E ok \in Outcomes(universe[name] = "absent", "universe") :
         /\ universe' = IF ok THEN [universe EXCEPT ![name] = "live"] ELSE universe
         /\ rushed' = IF ok THEN rushed \ {cur}
                      ELSE IF universe[name] = "deleting" THEN rushed \cup {cur}
                      ELSE rushed
  /\ pc' = "commentOpen"
  /\ UNCHANGED <<github, account, cron, schedule, trigger, queued, repo, seen, todo,
                 cur, mem, moves, crashes, reopened>>

(* Whatever came of it, the pull request is told that it was created ... *)
Comment(step, text, next) ==
  /\ pc = step
  /\ \E ok \in Outcomes(TRUE, "comment") :
       said' = IF ok THEN [said EXCEPT ![cur] = text] ELSE said
  /\ pc' = next
  /\ UNCHANGED <<pr, cluster, trigger, queued, repo, seen, todo, cur, mem, env>>

(* ... and its labels are replaced by those of the listing, edited. *)
Relabel(step, gained, lost, next) ==
  /\ pc = step
  /\ \E ok \in Outcomes(TRUE, "label") :
       pr' = IF ok
               THEN [pr EXCEPT ![cur].labels = (seen[cur] \cup {gained}) \ {lost}]
               ELSE pr
  /\ cur' = NoPR
  /\ pc' = next
  /\ UNCHANGED <<said, cluster, trigger, queued, repo, seen, todo, mem, env>>

CommentOpen == Comment("commentOpen", "created", "labelOpen")
\* Mutant: the mark of an earlier teardown is left.
LabelOpenKeeps == Relabel("labelOpen", "preview-created", "none", "open")

LabelOpen == Relabel("labelOpen", "preview-created", "preview-closed", "open")

OpenDone ==
  /\ pc = "open" /\ todo = {}
  /\ pc' = "cron" /\ seen' = NothingSeen
  /\ UNCHANGED <<github, cluster, trigger, queued, repo, todo, cur, mem, env>>

-----------------------------------------------------------------------------
(* The CronJob and the status.                                             *)

(* The CronJob is looked up, and created if it is missing, after the       *)
(* account, the role and the binding it needs.  The errors of all four     *)
(* Creates are only logged, and the API server refuses a schedule of every *)
(* 0 minutes.  A CronJob that exists keeps its schedule.                   *)
FindCron ==
  /\ pc = "cron"
  /\ \E missing \in Outcomes("cronJob" \notin cron, "cron") :
       pc' = IF missing THEN "cronAccount" ELSE "observe"
  /\ UNCHANGED <<github, cluster, trigger, queued, repo, seen, todo, cur, mem, env>>

\* Mutant: the CronJob first, then what it needs.
AfterPartJobFirst(part) ==
  CASE part = "cronAccount" -> "cronJob"
    [] part = "cronJob" -> "cronRole"
    [] part = "cronRole" -> "cronBinding"
    [] part = "cronBinding" -> "observe"

(* The order of the Creates. *)
AfterPart(part) ==
  CASE part = "cronAccount" -> "cronRole"
    [] part = "cronRole" -> "cronBinding"
    [] part = "cronBinding" -> "cronJob"
    [] part = "cronJob" -> "observe"

CreateCronPart(part) ==
  /\ pc = part
  /\ \E ok \in Outcomes(part = "cronJob" => mem.minutes # 0, "cron") :
       /\ cron' = IF ok THEN cron \cup {part} ELSE cron
       /\ schedule' = IF ok /\ part = "cronJob" THEN mem.minutes ELSE schedule
  /\ pc' = AfterPart(part)
  /\ UNCHANGED <<github, universe, account, trigger, queued, repo, seen, todo, cur,
                 mem, env>>

(* The status is written from the copy of the pass, which an edit or a     *)
(* tick of the CronJob (it annotates the Trigger) makes old.               *)
Observe ==
  /\ pc = "observe"
  /\ \E accepted \in {FALSE, mem.gen = trigger.gen} :
       trigger' = IF accepted THEN [trigger EXCEPT !.obs = mem.gen] ELSE trigger
  /\ queued' = (queued \/ trigger' # trigger)
  /\ pc' = "listClosed"
  /\ UNCHANGED <<github, cluster, repo, seen, todo, cur, mem, env>>

-----------------------------------------------------------------------------
(* Closed pull requests.                                                   *)

ListClosed ==
  /\ pc = "listClosed"
  /\ \E ok \in Outcomes(TRUE, "list") :
       todo' = IF ok THEN {p \in Page(FALSE) : WantsTeardown(pr[p].labels)} ELSE {}
  /\ seen' = [p \in PRs |-> pr[p].labels]
  /\ pc' = "closed"
  /\ UNCHANGED <<github, cluster, trigger, queued, repo, cur, mem, env>>

(* The Universe is deleted; one that carries its finalizer lingers. *)
Teardown(p) ==
  /\ pc = "closed" /\ p \in todo
  /\ todo' = todo \ {p} /\ cur' = p
  /\ LET name == makeUniverseName(p) IN
       \E ok \in Outcomes(universe[name] = "live", "delete") :
         \E left \in {"deleting", "absent"} :
           universe' = IF ok THEN [universe EXCEPT ![name] = left] ELSE universe
  /\ pc' = "commentClosed"
  /\ UNCHANGED <<github, account, cron, schedule, trigger, queued, repo, seen, mem, env>>

CommentClosed == Comment("commentClosed", "closed", "labelClosed")
LabelClosed == Relabel("labelClosed", "preview-closed", "preview-created", "closed")

\* Mutant: off by one at the last repository.
ClosedDonePast ==
  /\ pc = "closed" /\ todo = {}
  /\ seen' = NothingSeen
  /\ IF repo <= Len(Repositories)
       THEN repo' = repo + 1 /\ pc' = "listOpen" /\ UNCHANGED mem
       ELSE repo' = 1 /\ pc' = "idle" /\ mem' = trigger
  /\ UNCHANGED <<github, cluster, trigger, queued, todo, cur, env>>

(* On to the next repository, or the end of the pass; nothing is requeued. *)
ClosedDone ==
  /\ pc = "closed" /\ todo = {}
  /\ seen' = NothingSeen
  /\ IF repo < Len(Repositories)
       THEN repo' = repo + 1 /\ pc' = "listOpen" /\ UNCHANGED mem
       ELSE repo' = 1 /\ pc' = "idle" /\ mem' = trigger
  /\ UNCHANGED <<github, cluster, trigger, queued, todo, cur, env>>

-----------------------------------------------------------------------------
(* The surroundings.                                                       *)

(* The CronJob annotates the Trigger, if all its parts are there. *)
Tick ==
  /\ cron = CronParts /\ ~queued
  /\ queued' = TRUE
  /\ UNCHANGED <<github, cluster, trigger, pass, env>>

(* The informer's periodic resync, every ten hours. *)
Resync ==
  /\ ~queued
  /\ queued' = TRUE
  /\ UNCHANGED <<github, cluster, trigger, pass, env>>

EditTrigger(m) ==
  /\ trigger.gen < MaxGeneration /\ m # trigger.minutes
  /\ trigger' = [trigger EXCEPT !.gen = trigger.gen + 1, !.minutes = m]
  /\ queued' = TRUE
  /\ UNCHANGED <<github, cluster, pass, env>>

(* People ask for a preview or withdraw the request, close and reopen. *)
Move(p, open, labels) ==
  /\ moves < MaxMoves
  /\ moves' = moves + 1
  /\ pr' = [pr EXCEPT ![p] = [open |-> open, labels |-> labels]]
  /\ reopened' = IF open /\ ~pr[p].open THEN reopened \cup {p} ELSE reopened
  /\ UNCHANGED <<said, cluster, trigger, queued, pass, crashes, rushed>>

AskPreview(p) ==
  "preview" \notin pr[p].labels /\ Move(p, pr[p].open, pr[p].labels \cup {"preview"})
Withdraw(p) ==
  "preview" \in pr[p].labels /\ Move(p, pr[p].open, pr[p].labels \ {"preview"})
Close(p) == pr[p].open /\ Move(p, FALSE, pr[p].labels)
Reopen(p) == ~pr[p].open /\ Move(p, TRUE, pr[p].labels)

(* The Universe controller lets a deleted Universe go.  It never deletes   *)
(* one by itself: the TTL of 86400 NewUniverse sets is out of reach of its *)
(* comparison of seconds within a minute.                                  *)
UniverseGone(name) ==
  /\ universe[name] = "deleting"
  /\ universe' = [universe EXCEPT ![name] = "absent"]
  /\ UNCHANGED <<github, account, cron, schedule, trigger, queued, pass, env>>

(* The operator dies and comes back: its informer queues the Trigger. *)
CrashRestart ==
  /\ crashes < MaxCrashes
  /\ crashes' = crashes + 1
  /\ pc' = "idle" /\ repo' = 1 /\ seen' = NothingSeen /\ todo' = {} /\ cur' = NoPR
  /\ queued' = TRUE
  /\ mem' = trigger
  /\ UNCHANGED <<github, cluster, trigger, moves, reopened, rushed>>

-----------------------------------------------------------------------------
Init ==
  /\ pr = [p \in PRs |-> [open |-> TRUE, labels |-> {}]]
  /\ said = [p \in PRs |-> "nothing"]
  /\ universe = [n \in Universes |-> "absent"]
  /\ account = AccountExists
  /\ cron = {} /\ schedule = 0
  /\ \E m \in Minutes : trigger = [gen |-> 1, obs |-> 0, minutes |-> m]
  /\ queued = TRUE
  /\ mem = trigger
  /\ pc = "idle" /\ repo = 1 /\ seen = NothingSeen /\ todo = {} /\ cur = NoPR
  /\ moves = 0 /\ crashes = 0 /\ reopened = {} /\ rushed = {}

ReconcileStep ==
  \/ BeginPass \/ ListOpen \/ \E p \in PRs : TakeOpen(p)
  \/ FindAccount \/ CreateAccount \/ EnsureUniverse \/ CommentOpen \/ LabelOpen \/ OpenDone
  \/ FindCron \/ (\E part \in CronParts : CreateCronPart(part)) \/ Observe
  \/ ListClosed \/ \E p \in PRs : Teardown(p)
  \/ CommentClosed \/ LabelClosed \/ ClosedDone

People == \E p \in PRs : AskPreview(p) \/ Withdraw(p) \/ Close(p) \/ Reopen(p)

Next ==
  \/ ReconcileStep
  \/ People
  \/ Tick \/ Resync \/ \E m \in Minutes : EditTrigger(m)
  \/ \E name \in Universes : UniverseGone(name)
  \/ CrashRestart

Spec == Init /\ [][Next]_vars

(* Workers work, the informer resyncs, deleted Universes go in the end,    *)
(* and a listing that is tried again and again succeeds some time.         *)
Fairness ==
  /\ WF_vars(ReconcileStep) /\ WF_vars(Resync)
  /\ \A name \in Universes : WF_vars(UniverseGone(name))
  /\ SF_vars(ListOpen /\ todo' = {p \in Page(TRUE) : WantsPreview(pr[p].labels)})
  /\ SF_vars(ListClosed /\ todo' = {p \in Page(FALSE) : WantsTeardown(pr[p].labels)})

LiveSpec == Spec /\ Fairness

-----------------------------------------------------------------------------
(* Properties.                                                             *)

(* The values every variable ranges over; a pull request is in hand        *)
(* exactly while the pass works on one.                                    *)
TypeOK ==
  /\ pr \in [PRs -> PRType] /\ said \in [PRs -> {"nothing", "created", "closed"}]
  /\ universe \in [Universes -> {"absent", "live", "deleting"}]
  /\ account \in BOOLEAN /\ cron \subseteq CronParts /\ schedule \in Nat
  /\ trigger \in TriggerType /\ mem \in TriggerType /\ queued \in BOOLEAN
  /\ pc \in Steps /\ repo \in 1 .. Len(Repositories)
  /\ seen \in [PRs -> SUBSET Labels] /\ todo \subseteq PRs /\ cur \in PRs \cup {NoPR}
  /\ cur = NoPR <=> pc \notin {"account", "universe", "commentOpen", "labelOpen",
                               "commentClosed", "labelClosed"}
  /\ moves \in 0 .. MaxMoves /\ crashes \in 0 .. MaxCrashes
  /\ reopened \subseteq PRs /\ rushed \subseteq PRs

(* No pull request is marked created and closed at once, although each     *)
(* mark is written over labels that were read before.                      *)
MarksExclude == \A p \in PRs : ~({"preview-created", "preview-closed"} \subseteq pr[p].labels)

(* An open pull request that is marked preview-created has its Universe:   *)
(* "Environment for pr ... was created successfully".  Excepted are the one *)
(* in hand, and one that was reopened so fast that its request met the     *)
(* Universe of before, not yet gone.                                       *)
MarkedCreatedIsLive ==
  \A p \in PRs :
    pr[p].open /\ "preview-created" \in pr[p].labels /\ cur # p /\ p \notin rushed
      => universe[makeUniverseName(p)] = "live"

(* A pull request marked preview-closed, which the controller will not     *)
(* look at while it is closed, has no running Universe, however often it   *)
(* was closed and reopened during passes; excepted is the one in hand.     *)
MarkedClosedIsDown ==
  \A p \in PRs :
    "preview-closed" \in pr[p].labels /\ cur # p
      => universe[makeUniverseName(p)] # "live"

(* The Universe of a pull request that was never closed is not taken down, *)
(* whatever fails: "The preview environment is open until this PR is       *)
(* closed".                                                                *)
OpenUntilClosed ==
  [][\A p \in PRs :
       LET name == makeUniverseName(p) IN
         pr[p].open /\ p \notin reopened /\ universe[name] = "live"
           => universe'[name] = "live"]_vars

(* The CronJob that wakes the controller never misses its account, its     *)
(* role or its binding, wherever a crash cuts the installation short: the  *)
(* CronJob is the mark of a complete one and comes last.                   *)
CronWhole == "cron" \notin Faults /\ "cronJob" \in cron => cron = CronParts

(* p is on the first page of its repository's listing. *)
FirstPage(p) ==
  Cardinality({q \in PRs : <<q.owner, q.repo>> = <<p.owner, p.repo>>
                             /\ pr[q].open = pr[p].open /\ q.number > p.number}) < PageSize

(* The Universe of a pull request that stays closed, labelled and on the   *)
(* first page is torn down in the end, and does not come back.             *)
TornDown ==
  \A p \in PRs :
    <>[](~pr[p].open /\ "preview" \in pr[p].labels /\ FirstPage(p))
      => <>[](universe[makeUniverseName(p)] = "absent")

(* An unanswered request is answered: a pull request that stays open,      *)
(* labelled and on the first page is marked created in the end.            *)
Answered ==
  \A p \in PRs :
    <>[](pr[p].open /\ "preview" \in pr[p].labels /\ FirstPage(p))
      => <>[]("preview-created" \in pr[p].labels)

(* Seen from here, a Universe is a Lifecycle: what this module says about  *)
(* its creation, deletion and disappearance is what Universe.tla is shown  *)
(* to implement, so that the two controllers compose.                      *)
Generation(phase) ==
  CASE phase = "absent" -> 0 [] phase = "live" -> 1 [] phase = "deleting" -> 2
Life(name) == INSTANCE Lifecycle WITH
  phase <- universe[name], gen <- Generation(universe[name]), obs <- 0

(* Each Universe takes only the steps of a Lifecycle: no request,          *)
(* teardown, crash or race of the two revives one that is being deleted or *)
(* deletes one twice.  (That a deleted one goes is assumed here, by        *)
(* Fairness; Universe.tla keeps that promise.)                             *)
UniversesAreLifecycles ==
  /\ \A name \in Universes : Life(name)!Init
  /\ [][\A name \in Universes :
          Life(name)!Next \/ universe'[name] = universe[name]]_vars
=============================================================================
