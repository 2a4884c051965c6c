-------------------------------- MODULE Rescue --------------------------------
(***************************************************************************)
(* rescue-publish: bring the draft releases of a plan to hold every        *)
(* planned binary and a manifest that claims them.                         *)
(*                                                                         *)
(* A run inspects every destination, refuses the plan if anything is in    *)
(* the way, then creates missing drafts and uploads what is missing, the   *)
(* manifest of a release last.  It keeps no journal: the next run starts   *)
(* from what GitHub reports.  A response may be lost, a request may take   *)
(* effect after the client has given up, a source may serve other bytes,   *)
(* and a run may be killed; after that an operator removes what is in the  *)
(* way, publishes complete drafts and runs the plan again.                 *)
(*                                                                         *)
(* GitHub is external: it refuses a second asset of one name and allows    *)
(* several drafts of one tag.                                              *)
(***************************************************************************)
EXTENDS Naturals, FiniteSets

CONSTANTS
    Releases,     \* the plan's destinations; also stands for their manifests
    Binaries,     \* the planned binary assets
    Home,         \* the release each binary goes to
    None,         \* no release, no asset
    MaxFailures   \* bound on lost or late requests, killed runs, bad sources

ASSUME RescueAssumption ==
    /\ Home \in [Binaries -> Releases]
    /\ Binaries \cap Releases = {}
    /\ None \notin Binaries \cup Releases

ASSUME FailuresAssumption == MaxFailures \in Nat

\* Names of assets: a release names its own gel-registry.json.
Names == Binaries \cup Releases

HomeOf(n) == IF n \in Releases THEN n ELSE Home[n]

BinariesOf(r) == {b \in Binaries : Home[b] = r}

NamesOf(r) == {n \in Names : HomeOf(n) = r}

VARIABLES
    release,    \* each destination on GitHub
    asset,      \* each planned asset on GitHub, as the plan classifies it
    late,       \* assets whose upload may still take effect
    lateDraft,  \* releases whose creation may still take effect
    source,     \* what the legacy host serves for each binary
    run,        \* the active run
    outcome,    \* how the last run ended
    reported,   \* the asset a run told the operator to remove
    failures    \* failures so far

vars == <<release, asset, late, lateDraft, source, run, outcome, reported, failures>>

\* double: two drafts of the tag, the second of them empty.
ReleaseStates == {"none", "draft", "double", "live"}

\* AssetStatus: conflicting stands for an incomplete upload and other bytes,
\* unverified for an asset GitHub gives no digest for.
AssetStatus == {"absent", "matching", "unverified", "conflicting"}

Run == [phase: {"idle", "inspect", "execute", "reconcile"},
        dry: BOOLEAN,
        inspected: SUBSET Releases,
        found: SUBSET Releases,      \* releases the report holds an ID for
        problem: BOOLEAN,
        uploads: SUBSET Names,
        current: Releases \cup {None},
        failing: Names \cup {None}]

NoRun == [phase |-> "idle", dry |-> FALSE, inspected |-> {}, found |-> {},
          problem |-> FALSE, uploads |-> {}, current |-> None, failing |-> None]

TypeOK ==
    /\ release \in [Releases -> ReleaseStates]
    /\ asset \in [Names -> AssetStatus]
    /\ late \subseteq Names
    /\ lateDraft \subseteq Releases
    /\ source \in [Binaries -> {"good", "other", "gone"}]
    /\ run \in Run
    /\ run.phase = "reconcile" => run.failing \in Names
    /\ outcome \in {"none", "running", "done", "described", "refused", "failed",
                    "rerunnable", "cleanup", "aborted"}
    /\ reported \subseteq Names
    /\ failures \in 0 .. MaxFailures

Complete(r) == \A n \in NamesOf(r) : asset[n] = "matching"

\* A manifest that is or may become valid comes with its binaries.
Claimed(r) == r \in late \/ asset[r] \in {"matching", "unverified"}

ClaimInv == \A r \in Releases :
    Claimed(r) => \A b \in BinariesOf(r) : asset[b] = "matching"

\* Destinations in any state, foreign and incomplete assets included; a release
\* that is not there has none.
Init ==
    /\ release \in [Releases -> {"none", "draft", "live"}]
    /\ asset \in [Names -> AssetStatus]
    /\ \A n \in Names : release[HomeOf(n)] = "none" => asset[n] = "absent"
    /\ late = {}
    /\ lateDraft = {}
    /\ ClaimInv
    /\ source = [b \in Binaries |-> "good"]
    /\ run = NoRun
    /\ outcome = "none"
    /\ reported = {}
    /\ failures = 0

-----------------------------------------------------------------------------
(* Preflight.                                                               *)

\* The run ends.
End(how) ==
    /\ run' = NoRun
    /\ outcome' = how

Failure ==
    /\ failures < MaxFailures
    /\ failures' = failures + 1

\* rescue-publish is started, dry or not.
Start(dry) ==
    /\ run.phase = "idle"
    /\ run' = [NoRun EXCEPT !.phase = "inspect", !.dry = dry]
    /\ outcome' = "running"
    /\ reported' = {}
    /\ UNCHANGED <<release, asset, late, lateDraft, source, failures>>

\* Variant: the manifest is only uploaded along with a binary.
MissingWithBinaries(r) ==
    {n \in NamesOf(r) : /\ release[r] # "live"
                        /\ asset[n] = "absent"
                        /\ \E b \in BinariesOf(r) : asset[b] = "absent"}

\* What a run would upload to r.
Missing(r) == {n \in NamesOf(r) : release[r] # "live" /\ asset[n] = "absent"}

\* What keeps a run from touching r: a published release, an asset that cannot
\* be matched, a manifest that claims binaries which do not match.
Problem(r) ==
    \/ release[r] = "live"
    \/ \E n \in NamesOf(r) : asset[n] \in {"unverified", "conflicting"}
    \/ asset[r] # "absent" /\ \E b \in BinariesOf(r) : asset[b] # "matching"

\* Variant: only the problems of the last release count.
InspectLast(r) ==
    /\ run.phase = "inspect"
    /\ r \notin run.inspected
    /\ release[r] # "double"
    /\ run' = [run EXCEPT !.inspected = @ \cup {r},
                          !.found = IF release[r] = "none" THEN @ ELSE @ \cup {r},
                          !.problem = Problem(r),
                          !.uploads = @ \cup Missing(r)]
    /\ UNCHANGED <<release, asset, late, lateDraft, source, outcome, reported, failures>>

\* Variant: a published release is resumed like a draft.
InspectPublished(r) ==
    /\ run.phase = "inspect"
    /\ r \notin run.inspected
    /\ release[r] # "double"
    /\ run' = [run EXCEPT !.inspected = @ \cup {r},
                          !.found = IF release[r] = "none" THEN @ ELSE @ \cup {r},
                          !.problem = @ \/ (release[r] # "live" /\ Problem(r)),
                          !.uploads = @ \cup {n \in NamesOf(r) : asset[n] = "absent"}]
    /\ UNCHANGED <<release, asset, late, lateDraft, source, outcome, reported, failures>>

\* _inspect_release; problems are collected, not raised.
Inspect(r) ==
    /\ run.phase = "inspect"
    /\ r \notin run.inspected
    /\ release[r] # "double"
    /\ run' = [run EXCEPT !.inspected = @ \cup {r},
                          !.found = IF release[r] = "none" THEN @ ELSE @ \cup {r},
                          !.problem = @ \/ Problem(r),
                          !.uploads = @ \cup Missing(r)]
    /\ UNCHANGED <<release, asset, late, lateDraft, source, outcome, reported, failures>>

\* Two releases of one tag in the listing end the run at once.
InspectAborts ==
    /\ run.phase = "inspect"
    /\ \E r \in Releases \ run.inspected : release[r] = "double"
    /\ End("aborted")
    /\ UNCHANGED <<release, asset, late, lateDraft, source, reported, failures>>

\* No problem in any release, and every source of a missing binary answers.
Clean == ~run.problem /\ \A b \in run.uploads \cap Binaries : source[b] # "gone"

\* The end of preflight: the plan is refused with every problem, described, or
\* executed.
Refuse ==
    /\ run.phase = "inspect" /\ run.inspected = Releases
    /\ ~Clean
    /\ End("refused")
    /\ UNCHANGED <<release, asset, late, lateDraft, source, reported, failures>>

Describe ==
    /\ run.phase = "inspect" /\ run.inspected = Releases
    /\ Clean /\ run.dry
    /\ End("described")
    /\ UNCHANGED <<release, asset, late, lateDraft, source, reported, failures>>

Execute ==
    /\ run.phase = "inspect" /\ run.inspected = Releases
    /\ Clean /\ ~run.dry
    /\ run' = [run EXCEPT !.phase = "execute"]
    /\ UNCHANGED <<release, asset, late, lateDraft, source, outcome, reported, failures>>

-----------------------------------------------------------------------------
(* Execution: one release after the other, with what preflight found.       *)

\* GitHub creates a draft of the tag, next to any it has.
Created(r) ==
    [release EXCEPT ![r] = CASE @ = "none" -> "draft" [] @ = "draft" -> "double"
                             [] OTHER -> @]

\* The next release with something to upload; its draft is created unless
\* preflight found one.
OpenRelease(r) ==
    /\ run.phase = "execute" /\ run.current = None
    /\ run.uploads \cap NamesOf(r) # {}
    /\ release' = IF r \in run.found THEN release ELSE Created(r)
    /\ run' = [run EXCEPT !.current = r]
    /\ UNCHANGED <<asset, late, lateDraft, source, outcome, reported, failures>>

\* The creation fails: it had no effect, took effect, or will do so later.
CreateFails(r) ==
    /\ Failure
    /\ run.phase = "execute" /\ run.current = None
    /\ run.uploads \cap NamesOf(r) # {}
    /\ r \notin run.found
    /\ \/ release' = release /\ lateDraft' \in {lateDraft, lateDraft \cup {r}}
       \/ release' = Created(r) /\ lateDraft' = lateDraft
    /\ End("failed")
    /\ UNCHANGED <<asset, late, source, reported>>

\* Variant: the manifest need not wait for the binaries.
NextAnyUpload(n) ==
    /\ run.phase = "execute" /\ run.current = HomeOf(n)
    /\ n \in run.uploads

\* The binaries of the current release in turn, then its manifest.
NextUpload(n) ==
    /\ run.phase = "execute" /\ run.current = HomeOf(n)
    /\ n \in run.uploads
    /\ n \in Releases => run.uploads \cap BinariesOf(n) = {}

\* One upload is behind; the release is done after the last.
Advance(n) ==
    run' = [run EXCEPT !.uploads = @ \ {n},
                       !.current = IF run.uploads \cap NamesOf(HomeOf(n)) = {n}
                                   THEN None ELSE @]

SourceServes(n, bytes) == IF n \in Binaries THEN source[n] = bytes ELSE bytes = "good"

\* The asset is uploaded and GitHub's answer confirms size and digest.
Upload(n) ==
    /\ NextUpload(n)
    /\ asset[n] = "absent" /\ SourceServes(n, "good")
    /\ asset' = [asset EXCEPT ![n] = "matching"]
    /\ Advance(n)
    /\ UNCHANGED <<release, late, lateDraft, source, outcome, reported, failures>>

Raise(n) ==
    /\ run' = [run EXCEPT !.phase = "reconcile", !.failing = n]
    /\ UNCHANGED <<release, lateDraft, source, outcome, reported>>

\* GitHub has an asset of that name by now, or the source is gone.
UploadRefused(n) ==
    /\ NextUpload(n)
    /\ asset[n] # "absent" \/ SourceServes(n, "gone")
    /\ Raise(n)
    /\ UNCHANGED <<asset, late, failures>>

\* Variant: what was streamed is not compared with the plan.
UploadUnverified(n) ==
    /\ NextUpload(n)
    /\ asset[n] = "absent" /\ SourceServes(n, "other")
    /\ asset' = [asset EXCEPT ![n] = "conflicting"]
    /\ Advance(n)
    /\ UNCHANGED <<release, late, lateDraft, source, outcome, reported, failures>>

\* The source serves other bytes, which is known when they have been sent.
UploadOfOtherBytes(n) ==
    /\ NextUpload(n)
    /\ asset[n] = "absent" /\ SourceServes(n, "other")
    /\ \E status \in {"absent", "conflicting"} : asset' = [asset EXCEPT ![n] = status]
    /\ Raise(n)
    /\ UNCHANGED <<late, failures>>

\* The request breaks, or its answer is lost or does not confirm the asset:
\* whatever was made of it is there, or will be later.
UploadBreaks(n) ==
    /\ Failure
    /\ NextUpload(n)
    /\ asset[n] = "absent" /\ SourceServes(n, "good")
    /\ \/ \E status \in AssetStatus : asset' = [asset EXCEPT ![n] = status]
          /\ UNCHANGED late
       \/ late' = late \cup {n} /\ UNCHANGED asset
    /\ Raise(n)

\* _reconcile_failed_upload: list the assets again and name what is left.
Reconcile ==
    /\ run.phase = "reconcile"
    /\ IF asset[run.failing] = "absent"
       THEN End("rerunnable") /\ UNCHANGED reported
       ELSE End("cleanup") /\ reported' = {run.failing}
    /\ UNCHANGED <<release, asset, late, lateDraft, source, failures>>

Finish ==
    /\ run.phase = "execute"
    /\ run.uploads = {}
    /\ End("done")
    /\ UNCHANGED <<release, asset, late, lateDraft, source, reported, failures>>

\* A listing fails or the process is killed.
RunBreaks ==
    /\ Failure
    /\ run.phase # "idle"
    /\ End("aborted")
    /\ UNCHANGED <<release, asset, late, lateDraft, source, reported>>

-----------------------------------------------------------------------------
(* GitHub, the legacy host and the operator.                                *)

\* An upload takes effect after its client gave up, unless the name is taken.
Land(n) ==
    /\ n \in late
    /\ late' = late \ {n}
    /\ IF asset[n] = "absent"
       THEN \E status \in AssetStatus : asset' = [asset EXCEPT ![n] = status]
       ELSE UNCHANGED asset
    /\ UNCHANGED <<release, lateDraft, source, run, outcome, reported, failures>>

LandDraft(r) ==
    /\ r \in lateDraft
    /\ lateDraft' = lateDraft \ {r}
    /\ release' = Created(r)
    /\ UNCHANGED <<asset, late, source, run, outcome, reported, failures>>

\* GitHub supplies the digest of a complete asset.
Settle(n) ==
    /\ asset[n] = "unverified"
    /\ asset' = [asset EXCEPT ![n] = "matching"]
    /\ UNCHANGED <<release, late, lateDraft, source, run, outcome, reported, failures>>

\* The legacy host loses or changes a file, and may get it back.
SourceFails(b) ==
    /\ Failure
    /\ source' \in {[source EXCEPT ![b] = bytes] : bytes \in {"other", "gone"}}
    /\ UNCHANGED <<release, asset, late, lateDraft, run, outcome, reported>>

SourceReturns(b) ==
    /\ source[b] # "good"
    /\ source' = [source EXCEPT ![b] = "good"]
    /\ UNCHANGED <<release, asset, late, lateDraft, run, outcome, reported, failures>>

\* Between runs the operator removes an asset that a run named or that preflight
\* reports as a problem of the draft.
Cleanup(n) ==
    /\ run.phase = "idle"
    /\ release[HomeOf(n)] = "draft"
    /\ asset[n] # "absent"
    /\ \/ n \in reported
       \/ asset[n] \in {"unverified", "conflicting"}
       \/ n \in Releases /\ \E b \in BinariesOf(n) : asset[b] # "matching"
    /\ asset' = [asset EXCEPT ![n] = "absent"]
    /\ reported' = reported \ {n}
    /\ UNCHANGED <<release, late, lateDraft, source, run, outcome, failures>>

\* The operator deletes the empty one of two drafts.
RemoveStrayDraft(r) ==
    /\ run.phase = "idle"
    /\ release[r] = "double"
    /\ release' = [release EXCEPT ![r] = "draft"]
    /\ UNCHANGED <<asset, late, lateDraft, source, run, outcome, reported, failures>>

\* The operator publishes a draft after reviewing that everything is there.
Publish(r) ==
    /\ release[r] = "draft"
    /\ Complete(r)
    /\ release' = [release EXCEPT ![r] = "live"]
    /\ UNCHANGED <<asset, late, lateDraft, source, run, outcome, reported, failures>>

-----------------------------------------------------------------------------

Preflight ==
    \/ \E r \in Releases : Inspect(r)
    \/ InspectAborts
    \/ Refuse
    \/ Describe
    \/ Execute

Execution ==
    \/ \E r \in Releases : OpenRelease(r)
    \/ \E n \in Names : Upload(n) \/ UploadRefused(n) \/ UploadOfOtherBytes(n)
    \/ Reconcile
    \/ Finish

Faults ==
    \/ \E r \in Releases : CreateFails(r)
    \/ \E n \in Names : UploadBreaks(n)
    \/ RunBreaks
    \/ \E b \in Binaries : SourceFails(b)

\* What an operator does to get a plan through.
Tidy ==
    \/ \E n \in Names : Cleanup(n)
    \/ \E r \in Releases : RemoveStrayDraft(r)

Next ==
    \/ \E dry \in BOOLEAN : Start(dry)
    \/ Preflight
    \/ Execution
    \/ Faults
    \/ Tidy
    \/ \E n \in Names : Land(n) \/ Settle(n)
    \/ \E r \in Releases : LandDraft(r) \/ Publish(r)
    \/ \E b \in Binaries : SourceReturns(b)

Spec == Init /\ [][Next]_vars

\* A run goes on until it ends; the operator removes what is in the way and runs
\* the plan again.  Nothing is assumed of GitHub, the legacy host, or reviews.
FairSpec ==
    /\ Spec
    /\ WF_vars(Preflight \/ Execution)
    /\ SF_vars(Start(FALSE))
    /\ SF_vars(Tidy)

-----------------------------------------------------------------------------
(* Properties.                                                              *)

\* A valid manifest never claims a binary that is not on its release with the
\* planned bytes: not after lost answers, late uploads, killed runs or the
\* removals operators are told to make.
ManifestTruthful ==
    \A r \in Releases : asset[r] = "matching" =>
        \A b \in BinariesOf(r) : asset[b] = "matching"

\* A published release never gains an asset, although the run looks at its state
\* only in preflight and uploads may take effect much later.
LiveStaysAsIs ==
    [][\A n \in Names : release[HomeOf(n)] = "live" /\ asset[n] = "absent"
                            => asset'[n] = "absent"]_vars

\* A run that reports success leaves every release of the plan complete, and it
\* stays so until the next run.
DoneMeansComplete ==
    run.phase = "idle" /\ outcome = "done" => \A r \in Releases : Complete(r)

\* Preflight is all or nothing: while a run writes, nothing anywhere in the plan
\* is in the way except what landed under a name the run has yet to upload.
WritesOnlyToCleanPlans ==
    [][run' # run /\ (asset' # asset \/ release' # release) =>
          \A n \in Names : asset[n] # "matching" => n \in run.uploads]_vars

\* Only the legacy host, or an operator who published part of the plan, keeps
\* a plan from being completed.
Stuck ==
    \/ \E b \in Binaries : source[b] # "good" /\ asset[b] # "matching"
    \/ \E r \in Releases : release[r] = "live"

\* "Execution is resumable purely from GitHub state": whatever requests were
\* lost or late, reruns of the plan complete it for good.
EventuallyRescued == <>[]((\A r \in Releases : Complete(r)) \/ Stuck)

-----------------------------------------------------------------------------
(* The inductive invariant behind the safety properties.                    *)

Active == run.phase # "idle" /\ ~run.problem

\* What an inspected release needs no upload for is there, and a binary that is
\* still to be uploaded has no manifest that claims it.
RunInv ==
    /\ run.phase \in {"execute", "reconcile"} => ~run.problem /\ run.inspected = Releases
    /\ run.phase = "reconcile" => run.failing \in run.uploads
    /\ Active => \A n \in Names :
          /\ n \in run.uploads => HomeOf(n) \in run.inspected
          /\ HomeOf(n) \in run.inspected /\ n \notin run.uploads => asset[n] = "matching"
          /\ n \in run.uploads \cap Binaries => /\ ~Claimed(Home[n])
                                                /\ Home[n] \in run.uploads

\* A binary the operator was told to remove is claimed by no manifest.
ReportedInv ==
    /\ \A b \in reported \cap Binaries : ~Claimed(Home[b])
    /\ outcome \in {"running", "done"} => reported = {}
    /\ run.phase # "idle" => outcome = "running"

\* What a published release lacks is on no one's way to it.
LiveInv ==
    \A n \in Names : release[HomeOf(n)] = "live" /\ asset[n] = "absent" =>
        n \notin late /\ (Active => n \notin run.uploads)

IInv ==
    /\ TypeOK
    /\ ClaimInv
    /\ RunInv
    /\ ReportedInv
    /\ LiveInv
    /\ DoneMeansComplete

=============================================================================
