------------------------------- MODULE Promotion -------------------------------
(***************************************************************************)
(* The rolling promotion: promote.py under promote.yml.                    *)
(*                                                                         *)
(* A run observes the candidate branch, renders main plus every valid      *)
(* release main lacks, and in a second job applies the rendered artifact   *)
(* to main, pushes it to the branch under a lease and updates the pull     *)
(* request.  One run is active at a time (concurrency group), but between  *)
(* any two of its commands maintainers push to the branch, merge, change   *)
(* main or touch the pull request, upstream releases come and go, and any  *)
(* command may fail and end the run.                                       *)
(*                                                                         *)
(* Git and GitHub are external: the branch is replaced only if it is where *)
(* the lease says, deleting a branch closes its pull request, and main     *)
(* takes only pull requests that are up to date with it (the branch        *)
(* protection of docs/operations.md).                                      *)
(***************************************************************************)
EXTENDS Naturals, FiniteSets

CONSTANTS
    Releases,     \* upstream releases that carry a gel-registry.json
    Contested,    \* sets of releases that do not compose with each other
    Oids,         \* commit IDs of the candidate branch
    NoOid,        \* the branch does not exist
    MaxCommits,   \* bound on commits to main
    MaxEvents,    \* bound on maintainers' actions on the branch and the PR
    MaxFailures   \* bound on failing commands

ASSUME PromotionAssumption ==
    /\ Contested \subseteq SUBSET Releases /\ {} \notin Contested
    /\ NoOid \notin Oids
    /\ \A a, b, c \in Oids \cup {NoOid} : \E oid \in Oids : oid \notin {a, b, c}

ASSUME BoundsAssumption == MaxCommits \in Nat /\ MaxEvents \in Nat /\ MaxFailures \in Nat

VARIABLES
    upstream,   \* the state of each release on GitHub
    main,       \* the head of main
    branch,     \* the head of promote/registry
    pr,         \* the promotion pull request
    run,        \* the active run, or the end of the last one
    events,     \* maintainers' actions so far
    failures    \* failed commands so far

vars == <<upstream, main, branch, pr, run, events, failures>>

\* What public/ and native/ are rendered from.
Rendering == [records: SUBSET Releases, policy: Nat]

\* A commit of main: release records, yank policy and keys, and generated data.
Commit == [oid: Nat, records: SUBSET Releases, policy: Nat, rendered: Rendering]

NoCommit == [oid |-> 0, records |-> {}, policy |-> 0,
             rendered |-> [records |-> {}, policy |-> 0]]

\* A head of the branch.  clean: all paths it changes are generated ones.
Branch == [oid: Oids \cup {NoOid}, clean: BOOLEAN, base: Commit,
           records: SUBSET Releases, rendered: Rendering]

NoBranch == [oid |-> NoOid, clean |-> TRUE, base |-> NoCommit, records |-> {},
             rendered |-> NoCommit.rendered]

PullRequest == [open: BOOLEAN, added: SUBSET Releases, rejected: SUBSET Releases]

Phases == {"idle", "observe", "main", "branch", "gather", "checkout", "apply",
           "write", "list", "edit", "create", "close"}

Run == [phase: Phases, default: BOOLEAN, observed: Oids \cup {NoOid},
        fetched: Oids \cup {NoOid}, base: Commit, gathered: SUBSET Releases,
        rejected: SUBSET Releases, head: Commit]

NoRun == [phase |-> "idle", default |-> TRUE, observed |-> NoOid, fetched |-> NoOid,
          base |-> NoCommit, gathered |-> {}, rejected |-> {}, head |-> NoCommit]

TypeOK ==
    /\ upstream \in [Releases -> {"none", "valid", "defective", "withdrawn"}]
    /\ main \in Commit
    /\ branch \in Branch
    /\ pr \in PullRequest
    /\ run \in Run
    /\ events \in 0..MaxEvents
    /\ failures \in 0..MaxFailures

Init ==
    /\ upstream = [r \in Releases |-> "none"]
    /\ main = NoCommit
    /\ branch = NoBranch
    /\ pr = [open |-> FALSE, added |-> {}, rejected |-> {}]
    /\ run = NoRun
    /\ events = 0
    /\ failures = 0

Published(state) == {r \in Releases : upstream[r] = state}

Composes(records) == \A c \in Contested : ~ c \subseteq records

-----------------------------------------------------------------------------
(* Upstream, maintainers and main.                                          *)

\* A release is published, with a manifest that binds or one that does not.
PublishRelease(r, state) ==
    /\ upstream[r] = "none"
    /\ state \in {"valid", "defective"}
    /\ upstream' = [upstream EXCEPT ![r] = state]
    /\ UNCHANGED <<main, branch, pr, run, events, failures>>

\* A release is deleted upstream, or its manifest withdrawn.
WithdrawRelease(r) ==
    /\ upstream[r] \in {"valid", "defective"}
    /\ upstream' = [upstream EXCEPT ![r] = "withdrawn"]
    /\ UNCHANGED <<main, branch, pr, run, events, failures>>

\* Another pull request reaches main: the yank policy or the keys change.
ChangePolicy ==
    /\ main.oid < MaxCommits
    /\ main' = [main EXCEPT !.oid = @ + 1, !.policy = @ + 1]
    /\ UNCHANGED <<upstream, branch, pr, run, events, failures>>

\* A maintainer merges the promotion pull request, which is up to date; the
\* branch may be deleted with it.
Merge ==
    /\ main.oid < MaxCommits
    /\ pr.open
    /\ branch # NoBranch /\ branch.clean
    /\ branch.base = main
    /\ main' = [main EXCEPT !.oid = @ + 1, !.records = branch.records,
                            !.rendered = branch.rendered]
    /\ pr' = [pr EXCEPT !.open = FALSE]
    /\ branch' \in {branch, NoBranch}
    /\ UNCHANGED <<upstream, run, events, failures>>

\* What maintainers do to the branch and the pull request.
Event ==
    /\ events < MaxEvents
    /\ events' = events + 1
    /\ UNCHANGED <<upstream, main, failures>>

\* Commit IDs are not reused: a new one differs from the one the branch has and
\* those the run has seen.
FreshOid == CHOOSE oid \in Oids : oid \notin {branch.oid, run.observed, run.fetched}

\* A maintainer pushes a commit of their own to the branch.
PushToBranch(clean) ==
    /\ Event
    /\ branch' = [oid |-> FreshOid, clean |-> clean, base |-> main,
                  records |-> main.records, rendered |-> main.rendered]
    /\ UNCHANGED <<pr, run>>

\* A maintainer deletes the branch, which closes the pull request.
DeleteBranch ==
    /\ Event
    /\ branch # NoBranch
    /\ branch' = NoBranch
    /\ pr' = [pr EXCEPT !.open = FALSE]
    /\ UNCHANGED run

\* A maintainer closes the pull request, or opens one for the branch.
TogglePullRequest ==
    /\ Event
    /\ branch # NoBranch
    /\ pr' = [pr EXCEPT !.open = ~@]
    /\ UNCHANGED <<branch, run>>

-----------------------------------------------------------------------------
(* promote.py build, in the render job.                                     *)

RunStep == UNCHANGED <<upstream, main, events, failures>>

Goto(from, to) ==
    /\ run.phase = from
    /\ run' = [run EXCEPT !.phase = to]

\* The run stops without touching anything: a failed command, a refused path, a
\* lost lease.
Stop(from) ==
    /\ run.phase = from
    /\ run' = NoRun
    /\ UNCHANGED <<branch, pr>>

\* The schedule or a push to main starts a run, when none is active.
Start ==
    /\ RunStep
    /\ Goto("idle", "observe")
    /\ UNCHANGED <<branch, pr>>

\* A maintainer starts one for another ref: its publish job is skipped.
StartElsewhere ==
    /\ Event
    /\ run.phase = "idle"
    /\ run' = [run EXCEPT !.phase = "observe", !.default = FALSE]
    /\ UNCHANGED <<branch, pr>>

\* _remote_oid.
Observe ==
    /\ RunStep
    /\ run.phase = "observe"
    /\ run' = [run EXCEPT !.phase = "main", !.observed = branch.oid]
    /\ UNCHANGED <<branch, pr>>

\* git fetch of main.
FetchMain ==
    /\ RunStep
    /\ run.phase = "main"
    /\ run' = [run EXCEPT !.phase = IF run.observed = NoOid THEN "gather" ELSE "branch",
                          !.base = main]
    /\ UNCHANGED <<branch, pr>>

\* git fetch of the branch, and the check of every path it changes.
FetchBranch ==
    /\ RunStep
    /\ IF branch # NoBranch /\ branch.clean
       THEN /\ run.phase = "branch"
            /\ run' = [run EXCEPT !.phase = "gather", !.fetched = branch.oid]
            /\ UNCHANGED <<branch, pr>>
       ELSE Stop("branch")

\* Variant: what the old candidate carries is taken for promoted.
GatherUnlisted ==
    LET gathered == Published("valid") \ (run.base.records \cup branch.records)
    IN  /\ RunStep
        /\ IF Composes(run.base.records \cup gathered)
           THEN /\ run.phase = "gather"
                /\ run' = [run EXCEPT !.phase = "checkout",
                                      !.gathered = gathered,
                                      !.rejected = Published("defective") \ run.base.records]
                /\ UNCHANGED <<branch, pr>>
           ELSE Stop("gather")

\* build_candidate from the fetched main: every valid release without a record
\* there is gathered, every defective one rejected, and the whole rendered.
Gather ==
    LET gathered == Published("valid") \ run.base.records
    IN  /\ RunStep
        /\ IF Composes(run.base.records \cup gathered)
           THEN /\ run.phase = "gather"
                /\ run' = [run EXCEPT !.phase = "checkout",
                                      !.gathered = gathered,
                                      !.rejected = Published("defective") \ run.base.records]
                /\ UNCHANGED <<branch, pr>>
           ELSE Stop("gather")

-----------------------------------------------------------------------------
(* promote.py apply and publish, in the publish job.                        *)

\* The publish job checks main out; it is skipped for any other ref.
Checkout ==
    /\ RunStep
    /\ IF run.default
       THEN /\ run.phase = "checkout"
            /\ run' = [run EXCEPT !.phase = "apply", !.head = main]
            /\ UNCHANGED <<branch, pr>>
       ELSE Stop("checkout")

\* Variant: the artifact is applied to whatever main has become.
ApplyAnyBase ==
    /\ RunStep
    /\ Goto("apply", "write")
    /\ UNCHANGED <<branch, pr>>

\* apply_artifact: only onto the commit the artifact was rendered from.
Apply ==
    /\ RunStep
    /\ IF run.head.oid = run.base.oid
       THEN Goto("apply", "write") /\ UNCHANGED <<branch, pr>>
       ELSE Stop("apply")

\* The artifact: what was rendered in the first job.
Rendered == [records |-> run.base.records \cup run.gathered, policy |-> run.base.policy]

\* Variant: only new records count as a change.
ChangedRecords == run.gathered # {}

\* git status reports a change.
Changed == run.gathered # {} \/ Rendered # run.head.rendered

\* Variant: the push is forced without a lease.
LeaseIgnored == TRUE

\* The remote accepts a push or a deletion only under the observed lease.
LeaseHolds == branch.oid = run.observed

\* Commit the checkout with the artifact applied and push it.
Push ==
    /\ RunStep
    /\ Goto("write", "list")
    /\ Changed /\ LeaseHolds
    /\ branch' = [oid |-> FreshOid, clean |-> TRUE, base |-> run.head,
                  records |-> run.head.records \cup run.gathered,
                  rendered |-> Rendered]
    /\ UNCHANGED pr

\* Nothing to promote: the branch the run observed is deleted, which closes its
\* pull request.
Delete ==
    /\ RunStep
    /\ Goto("write", "close")
    /\ ~Changed /\ run.observed # NoOid /\ LeaseHolds
    /\ branch' = NoBranch
    /\ pr' = [pr EXCEPT !.open = FALSE]

\* Nothing to promote and no branch observed.
NothingToDelete ==
    /\ RunStep
    /\ Goto("write", "close")
    /\ ~Changed /\ run.observed = NoOid
    /\ UNCHANGED <<branch, pr>>

\* The branch has moved: git push fails and the run with it.
LeaseLost ==
    /\ RunStep
    /\ ~LeaseHolds
    /\ Changed \/ run.observed # NoOid
    /\ Stop("write")

\* _update_pr lists the open pull requests of the branch ...
ListPullRequests ==
    /\ RunStep
    /\ Goto("list", IF pr.open THEN "edit" ELSE "create")
    /\ UNCHANGED <<branch, pr>>

\* ... and edits the first, whatever became of it since ...
EditPullRequest ==
    /\ RunStep
    /\ run.phase = "edit"
    /\ run' = NoRun
    /\ pr' = [pr EXCEPT !.added = run.gathered, !.rejected = run.rejected]
    /\ UNCHANGED branch

\* ... or creates one, which GitHub refuses without a branch or next to another.
CreatePullRequest ==
    /\ RunStep
    /\ IF branch # NoBranch /\ ~pr.open
       THEN /\ run.phase = "create"
            /\ run' = NoRun
            /\ pr' = [open |-> TRUE, added |-> run.gathered, rejected |-> run.rejected]
            /\ UNCHANGED branch
       ELSE Stop("create")

\* Every open pull request of the branch is closed.
ClosePullRequests ==
    /\ RunStep
    /\ run.phase = "close"
    /\ run' = NoRun
    /\ pr' = [pr EXCEPT !.open = FALSE]
    /\ UNCHANGED branch

\* A command fails, the transport to GitHub included.
CommandFails ==
    /\ failures < MaxFailures
    /\ failures' = failures + 1
    /\ \E phase \in Phases \ {"idle"} : Stop(phase)
    /\ UNCHANGED <<upstream, main, events>>

-----------------------------------------------------------------------------

Others ==
    \/ \E r \in Releases : \E state \in {"valid", "defective"} : PublishRelease(r, state)
    \/ \E r \in Releases : WithdrawRelease(r)
    \/ ChangePolicy
    \/ Merge
    \/ \E clean \in BOOLEAN : PushToBranch(clean)
    \/ DeleteBranch
    \/ TogglePullRequest
    \/ StartElsewhere

RunNext ==
    \/ Start
    \/ Observe
    \/ FetchMain
    \/ FetchBranch
    \/ Gather
    \/ Checkout
    \/ Apply
    \/ Push
    \/ Delete
    \/ NothingToDelete
    \/ LeaseLost
    \/ ListPullRequests
    \/ EditPullRequest
    \/ CreatePullRequest
    \/ ClosePullRequests

Next == Others \/ RunNext \/ CommandFails

Spec == Init /\ [][Next]_vars

\* The schedule starts a run every hour, and a run proceeds until it ends.
FairSpec == Spec /\ WF_vars(RunNext)

-----------------------------------------------------------------------------
(* Properties.                                                              *)

\* A step of the run that changes the branch.
RunWrites == branch' # branch /\ run.phase = "write" /\ run' # run

\* A head that a run overwrites or deletes is the one whose paths it checked:
\* work outside the generated paths is never discarded, however a maintainer's
\* push interleaves with observing, fetching and pushing.
OnlyCheckedWorkIsReplaced ==
    [][RunWrites /\ branch # NoBranch => branch.clean /\ branch.oid = run.fetched]_vars

\* Rebuilding the candidate never loses a release: what an overwritten or
\* deleted candidate carried is in the new one, in main, or gone upstream,
\* although neither main nor the old candidate is held still meanwhile.
NoReleaseIsDropped ==
    [][RunWrites => \A r \in branch.records :
            r \in branch'.records \cup main.records \/ upstream[r] = "withdrawn"]_vars

\* The snapshot main serves is always the composition of exactly the records
\* main holds, through every interleaving of merges, other changes and runs.
MainServesItsRecords == main.rendered.records = main.records

\* No contested pair of releases ever reaches main.
MainComposes == Composes(main.records)

\* Main is behind upstream or behind its own policy by this much.
Pending == Published("valid") \ main.records

Wanted == [records |-> main.records \cup Pending, policy |-> main.policy]

\* The candidate is exactly main plus what main lacks, with an open pull
\* request that lists it; or there is nothing to promote and neither exists.
CaughtUp ==
    IF Pending = {} /\ Wanted = main.rendered
    THEN branch = NoBranch /\ ~pr.open
    ELSE /\ branch.base = main
         /\ branch.records = main.records \cup Pending
         /\ branch.rendered = Wanted
         /\ pr.open
         /\ pr.added = Pending
         /\ pr.rejected = Published("defective") \ main.records

\* Only people can unblock these: work outside the generated paths on the
\* branch, or releases that contest each other.
Blocked == ~branch.clean \/ ~Composes(main.records \cup Pending)

\* Once upstream and maintainers are quiet and commands stop failing, hourly
\* runs bring the candidate and its pull request up to date and keep them so,
\* whatever state earlier runs and maintainers left them in.
EventuallyCaughtUp == <>[](CaughtUp \/ Blocked)

\* "If another process or maintainer pushed to promote/registry during the run,
\* the lease fails [...] and the run aborts safely" (docs/rolling-promotion.md):
\* a run never closes the pull request of a branch that is there.
ClosesOnlyDeletedBranches ==
    [][ClosePullRequests /\ pr.open => branch = NoBranch]_vars

-----------------------------------------------------------------------------
(* The inductive invariant behind the safety properties.                    *)

\* Phases in which the run holds a base, has looked at the branch it observed,
\* and has gathered.
Based == {"branch", "gather", "checkout", "apply", "write"}
Inspected == {"gather", "checkout", "apply", "write"}
Gathered == {"checkout", "apply", "write"}

\* Generated data match the records they lie beside, and the records compose.
Consistent(c) == c.rendered.records = c.records /\ Composes(c.records)

ConsistentInv ==
    /\ Consistent(main)
    /\ Consistent(branch)
    /\ branch.base.records \subseteq branch.records
    /\ run.phase \in Based => Consistent(run.base)
    /\ run.phase \in Gathered => Composes(run.base.records \cup run.gathered)

\* A run's base is an earlier state of main, and the checkout one in between.
BaseInv ==
    /\ run.phase \in Based =>
          /\ run.base.oid <= main.oid
          /\ (run.base.oid = main.oid => run.base = main)
          /\ run.base.records \subseteq main.records
    /\ run.phase = "apply" /\ run.head.oid = run.base.oid => run.head = run.base
    /\ run.phase = "write" => run.head = run.base

\* A branch that is where the run observed it is the one the run inspected.
LeaseInv ==
    /\ branch.oid = NoOid => branch = NoBranch
    /\ run.phase \in {"idle", "observe"} => run.observed = NoOid
    /\ run.observed = NoOid => run.fetched = NoOid
    /\ run.phase = "branch" => run.observed # NoOid
    /\ run.phase \in Inspected /\ branch.oid = run.observed => branch.oid = run.fetched
    /\ branch.oid = run.fetched => branch.clean

\* Every record came from a valid release, and while the branch is where the run
\* observed it the run carries everything on it that is still there upstream.
RecordsInv ==
    /\ \A r \in main.records \cup branch.records :
          upstream[r] \in {"valid", "withdrawn"}
    /\ run.phase \in Gathered => \A r \in run.gathered :
          upstream[r] \in {"valid", "withdrawn"}
    /\ run.phase \in Gathered /\ branch.oid = run.observed =>
          \A r \in branch.records :
              r \in run.base.records \cup run.gathered \/ upstream[r] = "withdrawn"

IInv ==
    /\ TypeOK
    /\ ConsistentInv
    /\ BaseInv
    /\ LeaseInv
    /\ RecordsInv

=============================================================================
