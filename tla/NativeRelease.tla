----------------------------- MODULE NativeRelease -----------------------------
(***************************************************************************)
(* The actions product repositories use to release native packages:        *)
(* native-plan allocates the next package revision of a product version,   *)
(* the workflow builds and signs, and publish-native-release drafts,       *)
(* uploads, checks and publishes, or deletes its draft on failure.         *)
(*                                                                         *)
(* One version of one product.  A dispatch runs alone, as its repository's *)
(* workflow arranges; any of its requests may fail, with or without having *)
(* taken effect.  The tag of a release is its revision.                    *)
(***************************************************************************)
EXTENDS Naturals

CONSTANTS
    Files,         \* the packages and the manifest of one release
    Builds,        \* outcomes of building and signing
    MaxRevision,   \* bound on the revisions planned
    None,          \* no build, no file
    Broken         \* bytes other than those uploaded

ASSUME ReleaseAssumption ==
    /\ MaxRevision \in Nat \ {0}
    /\ Files # {}
    /\ None \notin Builds
    /\ Broken \notin Builds \cup {None}

VARIABLES
    releases,   \* the native release of each revision
    combined,   \* revisions of native packages in combined product releases
    wanted,     \* what was dispatched: "nothing", "package" or "repack"
    run         \* the dispatch in progress

vars == <<releases, combined, wanted, run>>

Revisions == 1..MaxRevision

Statuses == {"none", "draft", "live"}

Release == [status : Statuses, assets : [Files -> Builds \cup {None, Broken}]]

NoRelease == [status |-> "none", assets |-> [f \in Files |-> None]]

\* What release holds the files of one build.
Complete(b) == [f \in Files |-> b]

\* The run deletes its draft only in the phases in which release_api is set.
Phases == {"idle", "planned", "view", "upload", "check", "publish", "cleanup", "delete"}

Run == [phase : Phases, revision : Revisions \cup {0}, build : Builds \cup {None}]

NoRun == [phase |-> "idle", revision |-> 0, build |-> None]

TypeOK ==
    /\ releases \in [Revisions -> Release]
    /\ combined \subseteq Revisions
    /\ wanted \in {"nothing", "package", "repack"}
    /\ run \in Run

Init ==
    /\ releases = [r \in Revisions |-> NoRelease]
    /\ combined = {}
    /\ wanted = "nothing"
    /\ run = NoRun

-----------------------------------------------------------------------------
(* Planning.                                                                *)

\* Variant: drafts count as packaged.
TakenOrDrafted == {r \in Revisions : releases[r].status # "none"} \cup combined

\* Published revisions count, those of combined releases too; drafts do not.
Taken == {r \in Revisions : releases[r].status = "live"} \cup combined

IsLatest(n) == n \in Taken \cup {0} /\ \A r \in Taken : r <= n

\* Nothing to do for a version that is packaged.
PlanNothing ==
    /\ run.phase = "idle"
    /\ wanted = "package"
    /\ Taken # {}
    /\ wanted' = "nothing"
    /\ UNCHANGED <<releases, combined, run>>

\* The next revision is built.
Plan ==
    /\ run.phase = "idle"
    /\ wanted = "repack" \/ (wanted = "package" /\ Taken = {})
    /\ \E n \in 0..MaxRevision - 1, b \in Builds :
          /\ IsLatest(n)
          /\ run' = [phase |-> "planned", revision |-> n + 1, build |-> b]
    /\ UNCHANGED <<releases, combined, wanted>>

\* Bound: a repack past the last revision is given up.
GiveUp ==
    /\ run.phase = "idle"
    /\ wanted = "repack"
    /\ IsLatest(MaxRevision)
    /\ wanted' = "nothing"
    /\ UNCHANGED <<releases, combined, run>>

-----------------------------------------------------------------------------
(* Publishing.                                                              *)

Goto(phase) == run' = [run EXCEPT !.phase = phase]

\* The run ends; on an error the dispatch remains to be repeated.
End == run' = NoRun

SetRelease(release) == releases' = [releases EXCEPT ![run.revision] = release]

Current == releases[run.revision]

\* The tag has a release already, a draft included.
Refuse ==
    /\ run.phase = "planned"
    /\ Current.status # "none"
    /\ End
    /\ UNCHANGED <<releases, combined, wanted>>

Draft == [NoRelease EXCEPT !.status = "draft"]

Create ==
    /\ run.phase = "planned"
    /\ Current.status = "none"
    /\ SetRelease(Draft)
    /\ Goto("view")
    /\ UNCHANGED <<combined, wanted>>

\* The run does not know the draft: there is no cleanup.
CreateFails ==
    /\ run.phase = "planned"
    /\ Current.status = "none"
    /\ SetRelease(Draft) \/ UNCHANGED releases
    /\ End
    /\ UNCHANGED <<combined, wanted>>

View ==
    /\ run.phase = "view"
    /\ Goto("upload")
    /\ UNCHANGED <<releases, combined, wanted>>

ViewFails ==
    /\ run.phase = "view"
    /\ End
    /\ UNCHANGED <<releases, combined, wanted>>

Upload ==
    /\ run.phase = "upload"
    /\ SetRelease([Current EXCEPT !.assets = Complete(run.build)])
    /\ Goto("check")
    /\ UNCHANGED <<combined, wanted>>

\* Some files arrive, or all but some with other bytes.
UploadFails ==
    /\ run.phase = "upload"
    /\ \E assets \in [Files -> {run.build, None, Broken}] :
          SetRelease([Current EXCEPT !.assets = assets])
    /\ Goto("check") \/ Goto("cleanup")
    /\ UNCHANGED <<combined, wanted>>

\* Inventory, digests and sizes are those of the files on disk.
Verified == Current.assets = Complete(run.build)

Check ==
    /\ run.phase = "check"
    /\ Goto(IF Verified THEN "publish" ELSE "cleanup")
    /\ UNCHANGED <<releases, combined, wanted>>

CheckFails ==
    /\ run.phase = "check"
    /\ Goto("cleanup")
    /\ UNCHANGED <<releases, combined, wanted>>

Published == [Current EXCEPT !.status = "live"]

Publish ==
    /\ run.phase = "publish"
    /\ SetRelease(Published)
    /\ wanted' = "nothing"
    /\ End
    /\ UNCHANGED combined

PublishFails ==
    /\ run.phase = "publish"
    /\ SetRelease(Published) \/ UNCHANGED releases
    /\ Goto("cleanup")
    /\ UNCHANGED <<combined, wanted>>

\* Variant: whatever was created is deleted.
CleanupAny ==
    /\ run.phase = "cleanup"
    /\ Goto("delete")
    /\ UNCHANGED <<releases, combined, wanted>>

\* A lost publication response may mean that the release is live.
Cleanup ==
    /\ run.phase = "cleanup"
    /\ IF Current.status = "draft" THEN Goto("delete") ELSE End
    /\ UNCHANGED <<releases, combined, wanted>>

CleanupFails ==
    /\ run.phase = "cleanup"
    /\ End
    /\ UNCHANGED <<releases, combined, wanted>>

Delete ==
    /\ run.phase = "delete"
    /\ SetRelease(NoRelease)
    /\ End
    /\ UNCHANGED <<combined, wanted>>

DeleteFails ==
    /\ run.phase = "delete"
    /\ SetRelease(NoRelease) \/ UNCHANGED releases
    /\ End
    /\ UNCHANGED <<combined, wanted>>

\* The job is killed.
Kill ==
    /\ run.phase # "idle"
    /\ End
    /\ UNCHANGED <<releases, combined, wanted>>

-----------------------------------------------------------------------------
(* Maintainers and other releases.                                          *)

Dispatch(kind) ==
    /\ run.phase = "idle"
    /\ wanted = "nothing"
    /\ wanted' = kind
    /\ UNCHANGED <<releases, combined, run>>

\* A combined product release with packages of the next revision.
ReleaseCombined ==
    /\ run.phase = "idle"
    /\ \E n \in 0..MaxRevision - 1 :
          IsLatest(n) /\ combined' = combined \cup {n + 1}
    /\ UNCHANGED <<releases, wanted, run>>

\* A draft that a failed run left behind.
RemoveDraft(r) ==
    /\ run.phase = "idle"
    /\ releases[r].status = "draft"
    /\ releases' = [releases EXCEPT ![r] = NoRelease]
    /\ UNCHANGED <<combined, wanted, run>>

-----------------------------------------------------------------------------

Step ==
    \/ PlanNothing \/ Plan \/ Refuse \/ Create \/ View \/ Upload
    \/ Check \/ Publish \/ Cleanup \/ Delete

Fail ==
    \/ CreateFails \/ ViewFails \/ UploadFails \/ CheckFails \/ PublishFails
    \/ CleanupFails \/ DeleteFails \/ Kill

Next ==
    \/ Step
    \/ Fail
    \/ GiveUp
    \/ Dispatch("package") \/ Dispatch("repack")
    \/ ReleaseCombined
    \/ \E r \in Revisions : RemoveDraft(r)

Spec == Init /\ [][Next]_vars

\* A job that is not killed runs on, a dispatch that failed is repeated, and the
\* draft a run was refused for is removed.
FairSpec ==
    /\ Spec
    /\ WF_vars(Step)
    /\ \A r \in Revisions : SF_vars(RemoveDraft(r))

-----------------------------------------------------------------------------
(* Properties.                                                              *)

\* What users see.  No build is Broken: a live release that does not hold all
\* files of one build has no counterpart in ImmutableReleases.
Shown(release) ==
    IF release.status # "live" THEN None
    ELSE IF \E b \in Builds : release.assets = Complete(b)
         THEN CHOOSE b \in Builds : release.assets = Complete(b)
         ELSE Broken

Live == [r \in Revisions |-> Shown(releases[r])]

Promised == INSTANCE ImmutableReleases WITH live <- Live

\* "Validate, draft, upload, check API digests, and publish": whatever fails and
\* whichever answers are lost, a release goes live with all checked files of one
\* build, as the newest revision, and no cleanup ever touches it again.
ReleasesAreImmutable == Promised!Spec

\* Once failures stop, every dispatch leads to packages, and every repack to a
\* revision later than those there were, also past the drafts failed runs left.
EventuallyPackaged ==
    <>[][~Fail]_vars =>
        /\ wanted = "package" ~> Taken # {}
        /\ \A n \in 0..MaxRevision - 1 :
              (wanted = "repack" /\ IsLatest(n)) ~> \E r \in Taken : r > n

-----------------------------------------------------------------------------
(* The inductive invariant behind the theorems.                             *)

\* A run past its creation works on a draft; only a publication whose answer was
\* lost leaves its cleanup a live release.
RunInv ==
    /\ run.phase # "idle" =>
          /\ run.revision \in Revisions
          /\ run.build \in Builds
    /\ run.phase \in {"view", "upload", "check", "publish", "delete"} =>
          Current.status = "draft"
    /\ run.phase = "publish" => Verified

\* Nothing that is live is newer than what the run is about to publish.
NewestInv ==
    run.phase \in {"planned", "view", "upload", "check", "publish"} =>
        \A r \in Revisions : releases[r].status = "live" => r < run.revision

LiveInv ==
    \A r \in Revisions :
        releases[r].status = "live" => \E b \in Builds : releases[r].assets = Complete(b)

IInv == TypeOK /\ RunInv /\ NewestInv /\ LiveInv

=============================================================================
