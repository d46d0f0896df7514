----------------------------- MODULE MCTrigger ------------------------------
(* Small instances of the Trigger controller. *)
EXTENDS Trigger

PullRequest(r, n) == [owner |-> "org", repo |-> r, number |-> n]

\* One repository with two pull requests.
OneRepository == <<<<"org", "app">>>>
TwoRequests == {PullRequest("app", 1), PullRequest("app", 2)}

\* Two repositories, whose pull requests have the same number.
TwoRepositories == <<<<"org", "app">>, <<"org", "web">>>>
RequestInEach == {PullRequest("app", 1), PullRequest("web", 1)}
=============================================================================
