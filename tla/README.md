# Verification of gel-registry

gel-registry publishes immutable package-index snapshots for Gel. Every change
to what clients can install goes through a Git repository: release records and
a captured legacy index are *composed* into content-addressed index files, a
*snapshot* pins them, and four *moving documents* select the snapshot clients
see. Hourly automation gathers new upstream releases and maintains one pull
request; people merge it. This directory holds TLA+ models of the parts where
order, failure and concurrency decide whether that is safe, TLC runs over small
instances, and TLAPS proofs for all instances.

Paths below are relative to the repository (`src/gel_registry/...` is the
Python package).

## 1. Inventory

### The system

| Component | State | Operations | Interacts with |
|---|---|---|---|
| File primitives (`storage.py`) | one path, its directory, temporary files | `ensure_directory_chain`, `write_temp`, `create_atomic`, `replace_atomic`, `read_tree` | every installer |
| Snapshot building and selection (`render/snapshots.py`, `render/selection.py`) | `public/i/*.json`, `public/s/<id>/registry.json`, the moving documents | `build_snapshot`, `load_pinned_snapshot`, `select_snapshot` | composition above, files below |
| Publication (`publication.py`, `render/schemas.py`) | the generated tree, a staging copy, what the transaction created and the prior bytes of what it replaced | `publish_registry` and its rollback | the two above, validation |
| Candidate and gathering (`candidate.py`, `gather.py`, `contracts/promotion.py`) | release records in the checkout, a build report | `build_candidate`, `apply_candidate`, `gather_releases` | GitHub client, publication |
| Rolling promotion (`.github/scripts/promote.py`, `promote.yml`) | branch `promote/registry`, its pull request, the artifact passed between two jobs | `build`, `apply_artifact`, `publish`, `_update_pr` | Git, GitHub, candidate |
| Validation (`validation/*.py`) | none: reads tree and Git history | `check_pointer_and_snapshots`, drift and input checks | continuous integration |
| Composition (`render/compose.py`) | none | replacements and additions over the legacy indexes | snapshots |
| Native packages (`native/*.py`) | `native/`, package identities, keys | render, retain, sign, inspect | publication, drift checks |
| Native release action (`publish-native-release/publish.py` and its siblings) | a draft release | create, upload, verify, publish, clean up | GitHub |
| Rescue (`rescue/*.py`, `github/uploads.py`) | draft releases and their assets | capture, plan, preflight, execute, reconcile | GitHub, legacy host |
| GitHub client (`github/*.py`) | none | discovery, transport | gathering, rescue |
| Capture and normalisation (`capture.py`, `rescue/indexes.py`, `normalize.py`) | the captured indexes, the bootstrap indexes made of them | `capture_legacy`, `capture_rescue_indexes`, `verify_live_capture`, `normalize_capture` | legacy host, composition, rescue |
| Contracts, digests, command line, hosting text | none | data schemas, canonical JSON, dispatch | all; modelled where the others use them |
| Keys, secrets, infrastructure | external services | operator scripts, Terraform | none of the above |

### What is hard

* **File by file installs.** `publish_registry` installs a snapshot as a dozen
  separately atomic file operations. Any of them may raise, the rollback may
  raise in turn, and the process may be killed between any two. A reader of the
  checkout, a later publication and the next commit all see the result.
* **Racing installers.** `create_atomic` tests, writes a temporary and renames
  without replacing; another process may create, roll back or make the
  directory in between.
* **A promotion that is never alone.** Between any two commands of a promotion
  run a maintainer may push, merge, delete or close, main may move and upstream
  may publish or withdraw. Only the lease, the artifact's base commit and the
  path check stand between that and lost work.
* **A picture of a moving host.** A capture asks for one index after the other
  while the host publishes releases, and everything composed later rests on it.
* **Records that are valid one by one.** Replacements and additions of many
  independent releases meet in one composition, and one conflict stops it.
* **Remote services that fail halfway.** Pushes that succeed before the pull
  request is updated, uploads whose response is lost, drafts that stay behind.

`PROJECT.json` lists each hazard at its line with the properties that cover it.

### What makes each component correct

* *File primitives*: bytes at an immutable path never change into other bytes;
  at most one racing caller believes it created them; success means the bytes
  are there; a directory is never removed under a file.
* *Publication*: at every instant each manifest is complete and each document
  resolves; the pointer moves last; what was published stays; a failure restores
  the tree, and only a kill or a failed rollback can block the next publication.
* *Promotion*: only work whose paths were checked is overwritten; no release is
  lost by rebuilding; main always serves exactly its records; eventually the
  pull request shows what main lacks.
* *Composition*: the indexes are what the records declare, in any order, and
  composing fails exactly on conflicts.
* *Capture*: the evidence is what the host served at one moment, and so is the
  bootstrap, however captures are replaced meanwhile; a moving host delays but
  does not block both.
* *Native packages*: an identity keeps its first content for ever, what was
  withdrawn stays out, what is served is genuine and under current subkeys.
* *Native release action*: what is live was checked, is newest when it appears
  and is never touched again; a version that is asked for gets packaged.
* *Rescue*: nothing is replaced or deleted; a manifest never claims a binary
  that is missing; a rerun resumes. A plan has the newest releases that can be
  built, and they can be published together.

## 2. Modules

| Module | Models | Kind |
|---|---|---|
| `RegistryTree` | the generated tree as one value and the checks made on it | operators |
| `Publication` | `publish_registry`, its rollback, kills, reruns | state machine |
| `AppendOnlyRegistry` | what publication promises: snapshots appear whole, documents refer to available ones, commitments are for ever | abstract specification |
| `Storage` | `create_atomic`, the directory and the rollback under races | state machine |
| `WriteOnce` | what `create_atomic` promises: a write-once register answered in one step per caller | abstract specification |
| `Promotion` | `promote.py` and `promote.yml`, Git, GitHub, maintainers, upstream | state machine |
| `Rescue` | `rescue-publish`: preflight, execution, reconciliation; GitHub, the legacy host, the operator | state machine |
| `NativePackages` | `native render`, `sign`, validation against a base; promotions, yanks, certificate changes | state machine |
| `NativeRelease` | `native-plan` and `publish-native-release` over dispatches and repacks | state machine |
| `ImmutableReleases` | what publishing promises: revisions appear whole, in order, for ever | abstract specification |
| `Capture` | `capture-legacy`, `verify-live`, `normalize-capture`, the rescue capture, the pull request's gate | state machine |
| `Composition` | `compose_indexes`, and what a set of records means | state machine and reference definition |
| `Selection` | `plan_rescue` over a captured archive | state machine |
| `RescuedRecords` | `Selection` and `Composition` together: the records a plan leads to | composition of the two |
| `MC*` | instances for TLC | |
| `PublicationProofs`, `StorageProofs`, `PromotionProofs`, `RescueProofs`, `NativeProofs`, `NativeReleaseProofs`, `CaptureProofs`, `CompositionProofs` | theorems | proofs |

Definitions called "a variant" change one definition the way a plausible
mistake in that code would; they are not part of a specification. For each
property there is a variant (`mutants` in `PROJECT.json`) with which TLC
violates it.

### RegistryTree and Publication

A blob is `absent`, holds the bytes its name is the digest of (`exact`) or other
bytes (`foreign`); a snapshot ID stands for the state of the sources that
composes to it, so `BlobsOf` is a function. A moving document is the snapshot it
selects and the set it refers to: the listing refers to every snapshot
directory. Of the documents that support a snapshot, the two release schemas
that `_schema_migration` may replace are modelled; the others are created once
and take the path of a blob.

`publish_registry` is one action per file operation: `Begin` (render in the
staging copy, compare, capture the prior bytes) or `Reject`; `MakeDirectory`,
then for each file `WriteTemporary` and the rename of that temporary
(`InstallBlob`, `InstallPin`, `InstallSchema`, `ReplaceDoc`), then `Finish`;
after `Fail`, `RestoreTemporary` and `RestoreDoc`/`RestoreSchema` in reverse (a
file that was not there is unlinked and needs no temporary), then the removals
of `_rollback_created` (`UndoSchema`, `UndoPin`, `UndoBlob`, `UndoDirectory`).
`RestoreFails` is the `PublicationError` of `_restore_file`, which the handler
aggregates; `RestoreUnreadable` is the `OSError` of its `read_bytes`, which
nothing catches; a removal that raises is ignored. `Crash` may come between any
two steps, those of a rollback included, and leaves the temporary of the write
under way (`WithLeftover`). Between publications `ChangeSources` gives the next
run other input.

A temporary lies beside its destination. In the directory of a snapshot it is
`litter`, which selection refuses. Elsewhere it is `stray`, and what matters is
whether validation sees it (`Places`): beneath `public/` (blobs, schemas, the
root, the listing) it reports every file a fresh render would not make, beside
`vercel.toml` and in `pointers/` it does not look. Nothing in the code removes
a leftover; neither does the model. `Validates` is what `validate` reports of
the generated tree: snapshots that load, no unreferenced blob, no other file
beneath `public/`, current schemas, documents that agree, and nothing a fresh
render of the sources would add. When a process is over, `Forget` drops what no
property compares any more.

Three variables are history: `published`, `damaged` (a rollback failed and
nothing was published since), `crashed`.

### Storage and WriteOnce

Every system call of `ensure_directory_chain` and `create_atomic` is a step of a
process, followed by the rollback of the transaction that made the call. The
answer a process gets is compared with a register that is written once and
emptied only by its writer (`WriteOnce`), so each call takes effect at one
instant between its start and its return.

### Promotion

A run is a record that holds what the code keeps in local variables and in the
artifact: the observed head, the base commit of main, the fetched head, the
gathered and rejected releases. `Observe` is `ls-remote`, `FetchMain` and
`FetchBranch` the fetches and the path check, `Gather` the whole of
`build_candidate`, `Checkout`/`Apply` the start of the publish job, then
`Push`, `Delete`, `NothingToDelete` or `LeaseLost`, and the pull request steps.
`CommandFails` ends the run at any phase. The concurrency group of
`promote.yml` is why one run suffices. Git and GitHub are external: a push with
a lease compares and swaps, deleting a branch closes its pull request, and main
takes only up-to-date pull requests, as `docs/operations.md` requires of the
branch protection.

A commit of main carries release records, a policy number (yanks and keys) and
what was rendered from them, so that "main serves what it says" can be stated.
The branch remembers the main it was made from. A push makes a new commit ID:
a maintainer who forces the branch away and back to the commit a run observed,
around its fetch, is left out. The lease would hold then, over a head whose
paths this run has not checked.

### Rescue

`Start` is `publish_plan`; `Inspect` is `_inspect_release` for one destination,
which collects problems instead of raising them, and `InspectAborts` the listing
with two releases of one tag. Preflight ends in `Refuse`, `Describe` (a dry run)
or `Execute`. Execution takes the releases one by one (`OpenRelease` creates the
draft unless preflight found one) and the uploads of each with the manifest
last (`NextUpload`). An upload succeeds (`Upload`), is refused (`UploadRefused`),
has sent bytes other than planned (`UploadOfOtherBytes`, found by
`_HashingStream` after the fact) or breaks (`UploadBreaks`); each failure goes
to `Reconcile`, which lists the assets again and tells the operator what to do.
The code stores nothing, so `RunBreaks` (a kill, a failed listing) loses the
whole of `run`.

A request that broke may take effect after the client gave up: it waits in
`late` or `lateDraft` for `Land` or `LandDraft`. Between runs, as
`docs/operations.md` says of cleaning up before a rerun, the operator removes
what a run or preflight named (`Cleanup`, `RemoveStrayDraft`), and may publish
a complete draft at any time (`Publish`).

The code goes through releases and assets in canonical order; the model takes
any order. No release starts with a manifest that claims a missing binary, which
preflight would report. Inspecting one release is one step, and so is the check
of all sources. Assets the plan does not know, other than under planned names,
and the allowlist are left out.

### NativePackages

A checkout is a record: the release records and the two inputs people edit
(`yanked`, `certificate`), the retained metadata (`stored`), the lock, the
packages in the indexes, and what was signed by which subkey. `main` is the
default branch, `artifact` what the render job hands to the publish job,
`branch` the open promotion. `Render` is gathering and `render_native`: it
succeeds only if every new package passes inspection (`Inspected`) and no two
packages have one identity (`Contested`). `Publish` is the publish job: the
artifact must apply to the main it was made from (`MainMoves` makes it `Stale`
otherwise), validate, and carry valid signatures after `Signed`, which keeps
those that still verify. `PublishFails` is each way this job ends early.
`MergePromotion` and `ChangeInputs` are pull requests that `validate --base`
accepts (`ValidNative`), with the exception `ValidUnderBase` for a change of
the certificate.

Abstractions: a package stands for a release that holds it, since all packages
of a release are gathered and rendered together; formats matter only through
the issuer, which a Debian package does not have; all APT and RPM indexes, over
channels and architectures, are one set and are signed as one; a contest is
seen by identity. `published` holds the releases main has no record of. A
promotion changes none of the inputs and other pull requests nothing else, so
that updating a promotion takes the inputs from main and the rest from the
branch. `served`, everything main ever indexed, is history.

### NativeRelease and ImmutableReleases

One version of one product in its own repository. `Plan` is `build_plan`: the
revision after the latest published one, those of combined releases included,
drafts not; without `repack` a packaged version needs nothing (`PlanNothing`).
Building and signing give one of `Builds`. Each request of `publish.py` is an
action: `Refuse` (the tag has a release, drafts included), `Create`, `View`,
`Upload`, `Check`, `Publish`; on failure `Cleanup` reads the release and
`Delete` removes it if it is a draft. Before `View` the run does not know the
release, so `CreateFails` and `ViewFails` skip the cleanup. Each request may
fail with or without effect; `UploadFails` leaves any of the files, also with
other bytes; `Kill` skips the cleanup.

Assumptions: dispatches of one version run one at a time, which is up to the
product repositories, whose workflows are not under `src/`; a request that takes
effect does so before the run's next request; nobody else publishes a draft or
deletes a release. `publish.py` addresses the release by tag in some requests
and by ID in others, which under these assumptions is the same release. The
choice of portable sources and the text of tags are left out.

### Capture

`origin` is what the host answers for each cell of the capture matrix, a content
and whether the answer came from another URL. Each request is an action: `Fetch`
records an answer that is `Acceptable`, `Recheck` asks again with the validators
of the first answer, which the host may honour with a 304 or not. `Install` is
the rename of the whole directory, which gives up when another process was
first. `Verify` asks unconditionally. `normalize_capture` loads the manifest
(`StartNormalise`), reads each body and compares its digests with the manifest's
(`Read`), and installs what it made of them unless there is a bootstrap
(`Compare`, `Rename`); meanwhile the capture may be removed and another one
installed. `Submit` is a pull request that passes `validation/local.py` and the
drift check: the bootstrap must be a fresh normalisation of the capture, and
neither may differ from what is committed. Operators remove what can never pass
(`StartOver`), and may remove either directory while nobody captures or verifies
(`Remove`), also from under a normalisation; both are removed and installed as a
whole. The directory is for one of the two captures (`site`); the rescue capture
follows no redirect, has no second pass and is neither normalised nor committed.
`past` and `seen` are history.

Assumed of the host: an index never returns to a content it had before, and its
validators tell contents apart. The code cannot do without either: an index
that changed and changed back between the passes, or a server that answers 304
for other bytes, would not be noticed. Bodies are opaque: parsing one yields
whether it is an index and whether it can be normalised.

### Composition

`compose_indexes` in its five steps: `Copy` the bootstrap, `Claim` one record's
digests at a time, `CheckClaims`, `Replace` one digest at a time, `Add` one
record's packages at a time, `Serialize`. The code goes through records by path
and through digests in the order of their claims; the model takes any order,
which is what shows that the order does not matter. References of a package
stay in canonical order, because the one a package selects is the first with
its URL. The key of a package stands for all else the index says of it. A URL
names its owner, since the contracts bind a record's URLs to its repository and
tag.

The reference definition is `Composed` and `Conflict`: what a *set* of records
means, without any order.

### Selection and RescuedRecords

A family is what one loop of `plan_rescue` goes through, newest first. `Try` is
one candidate: `Builds` says whether `_cli_release`, `_server_release`,
`_ls_release` or `_postgis_release` makes a release of what the archive holds.
What cannot be built is passed over by a bulk plan and ends a one-off plan
(`PassOver`); so does a tag whose commit GitHub's answer does not give
(`TryUnread`), because it is the same `ValueError`; `PlanHasTheNewest` excuses
these tags. `Finish` is the contract of `RescuePlan`. A one-off version that is
in no family is refused at once and not modelled.

`RescuedRecords` instantiates `Selection` with the records of `Composition` as
its candidates. After a plan, any part of its releases may have been published
and gathered (`Gather`), with the manifests of `build_release_manifest`, over
any bootstrap: the archive is captured from one host, the bootstrap from
another. `OtherInit` gives composition any other records.

## 3. Runs

| Run | Question | Instance |
|---|---|---|
| `publication_faults` | Is the tree sound at every instant, whatever fails? | 3 snapshots, 3 blobs, each blob shared by two snapshots, one schema; I/O, rollback failures and kills |
| `publication_live` | Does a retried publication succeed, and do all steps implement the append-only registry? | 2 snapshots sharing a blob; I/O failures and kills |
| `publication_replay` | The claim that interrupted publications replay | as the first, kills only; violated |
| `storage` | Is racing creation a write-once register, and does everyone get an answer? | 3 processes, 2 contents, any initial path |
| `promotion` | Is unchecked work kept, is no release lost, is main consistent, does the pull request converge? | 3 releases, one of them withdrawn beforehand and two possibly contesting, 2 commits, 1 maintainer action, 1 failure |
| `promotion_closes` | The claim that a run aborts when someone pushed meanwhile | 2 releases; violated |
| `rescue` | Do manifests stay truthful and reruns complete the plan? | 2 releases with 1 and 2 binaries, 2 failures, destinations in any state |
| `native_safety` | Is what main serves genuine, permanent and current, and does main settle? | 3 RPMs, two contesting an identity, one forged; 2 subkeys, any certificate and yank list |
| `native_revocation` | The claim of the runbook for a compromised key | 1 RPM, 1 Debian package, 2 subkeys; violated |
| `native_release` | Are releases checked, immutable and in order, and does every dispatch lead to packages? | 3 revisions, 2 files, 2 builds, any failures |
| `capture` | Are evidence and bootstrap of one moment, and do they get to main? | 2 cells, 2 processes, 2 changes at the host, 1 failure or removal |
| `composition` | Is the result what the records declare, whatever their order, and do plans of rescued releases compose? | 3 records of 8 manifests over 8 bootstraps; plans of 3 CLI tags and 1 PostGIS slot |

### Why the bounds are enough

*Publication.* Sharing is the interesting case of a content-addressed store: a
rollback must not take a blob another manifest needs. With three snapshots each
blob has another owner and there is an old, a selected and a new snapshot at
once; transactions follow each other without bound. Blobs that nobody
references and blobs with foreign bytes are initial states. One schema shows
both its creation and its replacement.

*Storage.* One process wins, one loses, one sees the loser's answer go stale;
two contents give match and collision. Initial states include a missing
directory, a symbolic link and foreign bytes.

*Promotion.* `MaxCommits`, `MaxEvents` and `MaxFailures` bound commits to main,
maintainers' actions and failing commands; runs are not bounded. Two releases
take part: a promotion concerns what main has and what it lacks, and a contest
is a pair. `MCInit` lets the third be one that was withdrawn, so that of the
two that are left some contest each other and some do not. Two commits
separate a run's base, its checkout and a later main. One action in the middle
of a run is what each race needs. Four commit IDs suffice because a fresh one
must differ from the head, the observed and the fetched one. Contested sets are
pairs: contests come from two records that claim one digest or identity.

*Rescue.* Two releases are needed for a plan to be refused because of another
release, and two binaries of one release for one to be there and one missing.
`MaxFailures` is two: one request that is late and one run that breaks
meanwhile. Runs and repairs are not bounded.

*Native packages.* Nothing is bounded but the packages and subkeys. A contest
needs two packages, and the third is forged in the name of a subkey that is
current, absent or revoked in turn. Two subkeys are one rotation, and every
order of rotating, revoking, setting the secret, yanking and taking a yank back
is there.

*Native releases.* `MaxRevision` is three, so that a repack has an earlier and a
later revision, of either kind; a repack past it is given up (`GiveUp`).
Failures, dispatches and leftover drafts are not bounded. Two files are a
package and the manifest; two builds show which one is live.

*Capture.* Two cells are an index that was read and one still to read, one with
validators and one without, or a body that was read from one capture and one to
be read from the next. Two changes tear a capture in each pass, or let
one process see what the other did not. Two processes are a capture that lost
the race, and a normalisation of a capture that was removed or replaced
meanwhile.

*Composition.* Two records contest a claim or an identity, the third shows that
a conflict elsewhere ends the composition too and gives the loops six orders.
The eight manifests hold replacements, additions, both, and additions that fail
in each of the two checks; the bootstraps hold two references of one package
with one URL or two, a digest in two indexes, a digest in none, and packages
that contest one identity. The plan takes two of three tags, where the code
takes three of any number: enough for a newer tag that cannot be built, a full
family with an older tag left over, and a digest that two releases share.

### Fairness

*Publication* assumes weak fairness of the transaction's own steps, `Begin`
included: a process that is not killed runs on, and the hourly workflow or a
maintainer runs a failed publication again. `EventuallyPublished` assumes that
I/O failures stop eventually (`<>[][~Fail]_vars`) and excuses kills and failed
rollbacks, because the code offers no repair for these.

*Storage* assumes only that a process that is not killed takes its next step.
Its transaction need not fail, so `BeginRollback` is not fair.

*Promotion* assumes weak fairness of the run's steps: the schedule starts a run
every hour, and a step of a job is executed or fails. Releases, merges and
maintainers need no fairness. `EventuallyCaughtUp` excuses two states only
people can resolve: foreign work on the branch and contested releases.

*Rescue* assumes weak fairness of a run's own steps, and strong fairness of
rerunning the plan and of removing what is in the way, which is what
`docs/operations.md` tells the operator to do. Nothing is assumed of GitHub, of
the legacy host or of reviews: `EventuallyRescued` excuses a source that never
serves the planned bytes and a plan of which a part has been published, since
preflight refuses such a plan.

*Native packages*: `FairSpec` has weak fairness of rendering and of the publish
job (hourly workflow) and strong fairness of merging a promotion that validates,
as reviewers do. Input changes and releases need no fairness.
`EventuallySettled` assumes that the inputs come to rest and that what is
published can be rendered and signed with the secret. `RunbookSpec` adds that
operators yank a package that stops rendering, when validation lets them.

*Native releases* assume weak fairness of a run's own steps, which includes
dispatching again what failed, and strong fairness of removing the draft a run
was refused for. `EventuallyPackaged` assumes that failures stop.

*Capture* assumes that commands end, and that operators capture and normalise,
submit what they can and start over when what they have can never pass
(`docs/operations.md`). `EventuallyCaptured` assumes that the host comes to
serve what can be normalised.

Deadlock is checked everywhere except in `storage`, where all calls return, in
`capture`, where bounds on changes and failures and a committed capture end
everything, and in `composition`, which ends.

Type invariants are proved and not run; so are the properties of section 5 that
no run lists.

## 4. What the runs show

* A manifest is complete and a document resolves at every instant, after every
  kill and rollback (`PinsComplete`, `ReferencesResolve`), and published
  snapshots are served even after a failed rollback (`PublishedStaysServed`).
* A failed publication restores the tree (`FailureRestores`); a successful one
  leaves no orphan blob and no temporary of its own, and is valid
  (`SuccessValidates`) if the tree held no unreferenced blob and no temporary
  beneath `public/` when it began. A kill can leave either, also a kill in the
  middle of a rollback, and validation reports them after every later success:
  the blob until a snapshot references it, the temporary until somebody removes
  it.
* I/O errors alone never block the next publication (`FailuresNeverWedge`); what
  does block is a snapshot directory without manifest or with a temporary
  (`OnlySnapshotDebrisWedges`), and no temporary anywhere else.
  `publication_replay` is the shortest such run: killed between `mkdir` and the
  rename, the next publication of *another* snapshot is refused because
  selection loads every directory. The docstring of `render/snapshots.py` says
  an interrupted publication replays cleanly.
* `create_atomic` is write-once (`ImplementsWriteOnce`, `NeverReplaced`); its
  success is permanent as long as no creator rolls back (`SuccessHolds`). If
  one does, a process told `unchanged` may lose the file: `Storage` shows the
  bound of the guarantee, and the hazard is listed.
* The lease protects work (`OnlyCheckedWorkIsReplaced`), rebuilding drops nothing
  (`NoReleaseIsDropped`), and the pull request converges
  (`EventuallyCaughtUp`), also after a failure between push and edit.
* One statement of `docs/rolling-promotion.md` does not hold. When nothing is to
  be promoted and no branch was observed, no lease is checked and an open pull
  request of a branch pushed meanwhile is closed (`promotion_closes`). A remark
  on another (line 153, that rejected releases are listed in the pull request):
  when every new release is rejected there is nothing to promote
  (`promote.py:189`), so there is no pull request that could list them.
* A manifest never claims a binary that is not there (`ManifestTruthful`), not
  even when an upload takes effect after the operator was told that nothing was
  left; a plan with a problem anywhere is written nowhere
  (`WritesOnlyToCleanPlans`); a published release never gains an asset
  (`LiveStaysAsIs`), because what may be published is complete; success means
  that all is there (`DoneMeansComplete`) and reruns get there
  (`EventuallyRescued`). Once one complete release of a plan is published,
  preflight refuses the whole plan: the operator must publish last.
* No package is served whose signature failed, not even one whose record was
  merged while it was yanked (`ForgeriesAreNeverServed`): its metadata is
  retained unchecked, but taking the yank back never validates, because live
  records must be locked and the lock is not an input. The same rule keeps
  withdrawn packages out (`WithdrawnStaysOut`), and retained metadata keep
  their identities (`IdentitiesArePermanent`).
* RPMs on main have current issuers whatever is merged in which order
  (`LiveIssuersAreCurrent`). Metadata may be under a revoked subkey after one
  merge, and the next one repairs it (`RepairComesNext`).
* That next merge may be impossible (`native_revocation`). A release by the
  revoked subkey that was not promoted before the certificate changed stops
  every render; validation refuses the pull request that would yank it, because
  the metadata does not verify and the certificate is the base's. The runbook
  in `docs/operations.md` tells operators to yank what validation names, which
  is only what is locked. They must yank unpromoted releases in the same
  pull request, or delete the release.
* Native releases implement `ImmutableReleases` (`ReleasesAreImmutable`): the
  cleanup never deletes what went live although the answer was lost. Not every
  failure cleans up, although `docs/publishing.md` says that publication
  "deletes its own draft on failure": a draft whose creation or lookup failed
  stays, and refuses every later dispatch until it is removed by hand; with
  that, every dispatch succeeds in the end (`EventuallyPackaged`).

* A legacy capture is what the host served at one moment although it was fetched
  index by index (`EvidenceIsOneMoment`): the second pass begins after the last
  fetch, so everything it confirms was there together at its start. The same
  holds of a live verification that succeeds (`VerifiedIsCurrent`). The rescue
  capture has no second pass, so an archive of the rescue may mix two moments;
  what a plan takes from it is checked again by digest when it is uploaded.
* A bootstrap is of one moment too (`BootstrapIsOneMoment`), also one that was
  made while its capture was removed and another one installed: every body must
  have the digests of the manifest that was loaded first. Such a bootstrap may
  be left without its capture; the gate, which normalises afresh, refuses it.
* A capture that cannot be normalised blocks the directory until it is removed;
  with that, evidence reaches main (`EventuallyCaptured`).
* Composition does not depend on any order (`OutputIsDeclared`) and fails
  exactly on conflicts (`FailsOnlyOnConflict`). That a package selects a
  reference by URL is safe only because replaced URLs and bootstrap URLs have
  different owners.
* A bulk plan has the newest releases that can be built
  (`PlanHasTheNewest`), and the releases of one plan do not contest each other
  (`PlansCompose`); if their records do not compose, the bootstrap lacks a
  claimed digest, has it twice, or contests an identity itself. One digest that
  the bootstrap lacks stops every promotion that includes the release.

## 5. Proofs

All theorems hold for every value of the constants, under the assumptions named
beside them in the modules.

*Publication* (`TreeAssumption`, `FaultsAssumption`). `PinsComplete` is not
inductive: that a rollback may remove a blob depends on what the transaction
recorded, on the tree it started from, and on the order of the removals. `IInv`
adds `InFlightInv` (nothing in flight when idle; a temporary is the next file's,
so the manifest's exists only when all blobs are there), `StagedInv` (the
staging tree is closed and the repository is between its start and it),
`BeforeInv` (nothing that was there before is gone, what is recorded as created
was not there) and `SoundInv` (without damage the prior tree was closed and
documents are back before removals begin). From it follow `TypeCorrect`,
`PinsAreComplete`, `ReferencesAlwaysResolve` and `PublishedIsPermanent`.
`Refinement` proves that, when no rollback fails, each step is one of
`AppendOnlyRegistry` or none; it needs one more invariant (`ListedInv`: every
staged document refers to the candidate).

What compares the tree with what it was needs a second invariant,
`TransactionInv`, which follows one transaction: `ProgressInv` says that until a
restore fails the tree is the prior one plus exactly what is recorded as
created, and equal in its documents once removals begin; `RenderedInv` that what
is installed, and what a success leaves, is the rendering of a prior tree that
passed every check; `PointerInv` that once the pointer has moved nothing is left
that could fail; `CleanInv` that without kills and failed rollbacks there is no
debris; `PhaseInv` and `DebrisInv` tie the outcome to the phase and leftovers to
their directories. `ProgressInv` is needed because `FailureRestores` speaks only
of the end of a rollback, whose removals find what to remove in the record. From
it follow `FailedPublicationRestores`, `SuccessfulPublicationValidates` and
`PointerMovesLast`. With the lemma that sound sources are accepted by any tree
without such debris (`SoundTreeAccepts`), so do `FailuresLeaveItPublishable` and
`OnlyDebrisBlocks`.

*Storage* (`StorageAssumption`). `IInv` adds to the properties what a process
knows at each phase (`CallsInv`) and that a creator's file is its own
(`CreatorInv`). The directory theorem rests on temporaries and the file being
in it. `CreateAtomicIsWriteOnce` is unconditional: every step is one step of the
register or none.

*Promotion* (`PromotionAssumption`, `BoundsAssumption`). The safety of the lease
is an argument about identity of commit IDs: `LeaseInv` says that a branch that
is where the run observed it is the one the run inspected, and clean.
`BaseInv` says a run's base is an earlier state of main and, once applied, the
checkout itself; `RecordsInv` that a record came from a valid release and that
what an unmoved branch carries is in the run's candidate unless it was
withdrawn; `ConsistentInv` that rendered data match records and compose. Hence
`MainAlwaysServesItsRecords`, `MainAlwaysComposes`, `CheckedWorkOnly` and
`ReleasesSurvive`.

*Rescue* (`RescueAssumption`, `FailuresAssumption`). A manifest is uploaded when
the run has uploaded what preflight found missing, but what preflight saw may be
old by then. `IInv` states why that is safe: `ClaimInv` counts a manifest whose
upload is still to land as a claim; `RunInv` says that what a run need not
upload is there, and that a release with a missing binary has no claim;
`ReportedInv` that an operator is never told to remove a claimed binary;
`LiveInv` that nothing is on its way to what a published release lacks. From it
follow `ManifestsAreTruthful`, `SuccessIsReal`, `PublishedReleasesStay` and
`OnlyCleanPlansAreWritten`.

*Native packages* (`NativeAssumption`). The invariant follows a package from
its first render to its withdrawal: `MainInv` says that main's records are
retained, one for each identity, and structurally valid; `CandidatesInv` that
the artifact and the branch extend the records main has *now* and bring nothing
back into the lock, which holds after other merges because only a promotion
changes records, and it discards its branch and makes the artifact stale;
`ServedInv` that what was served is recorded. From it follow
`NoForgeryIsServed`, `IdentitiesStay`, `IssuersStayCurrent`,
`WithdrawnPackagesStayOut` and `RepairAlwaysComesNext`.

*Native releases* (`ReleaseAssumption`). `IInv` is the type invariant, `RunInv`
(a run works on a draft, and a verified one when it publishes), `NewestInv`
(nothing live is newer than what the run will publish) and `LiveInv` (what is
live is one complete build). `PublicationIsImmutable` follows: a step that
publishes is one `Release` of the abstract specification, every other step is
none, since users do not see drafts (`DraftsAreHidden`).

*Capture* (`CaptureAssumption`, `CaptureBounds`). What the origin served is
remembered whole; `RunInv` says of a second pass that an entry it has passed is
of the moment the pass began, and that an entry still to come either is too or
is gone for good (`Confirming`), which is where the assumption on the host is
used; and of a normalisation that the manifest it compares bodies with is of
one moment, wherever its capture went (`NormalisedMoment`).
`EvidenceAlwaysOneMoment`, `VerificationIsSound` and
`BootstrapAlwaysOneMoment` follow.

*Composition* (`CompositionAssumption`). The invariant describes the indexes at
every step by the reference definition over the digests replaced and the records
added so far (`Bucket`). Its step for `Replace` needs that replacing one digest
changes neither which reference a package selects for the others nor any
identity; its steps for failures need that a contest in a part is one in the
whole. From it follow `FailsExactlyOnConflict` and `OutputAlwaysDeclared`.
Two theorems justify that `Promotion` gives what does not compose as pairs
(`Contested`): no further record resolves a conflict (`ConflictsPersist`), and
over a bootstrap that does not conflict with itself, records conflict exactly if
some two of them do (`ConflictsArePairs`). The latter rests on a package all of
whose references one record claims being updated by that record alone.

*Selection and RescuedRecords* (`RescueAssumption`, `CompositionAssumption`;
proved in `CompositionProofs`, over the records specification). The assumption
`TriedOnce` is that no candidate is gone through twice: the code takes them from
dictionaries and sets, each of one product and major. `PlanHasTheNewest` says
nothing of a plan that is still being made. `PlanInv` does: nothing is planned
of a family ahead (`AheadInv`); of the family at hand a bulk plan has exactly
those of the candidates gone through that can be used, never more than the quota
(`HereInv`); a family behind has what it should (`BehindInv`); and what is
planned can be built (`BuiltInv`). That leaving a family turns the second into
the third is an argument about cardinalities (`FamilyDone`): what is newer than
a release taken is part of what was taken; and what is newer than a candidate
not looked at includes a full quota. `RecordsInv` puts it together with the
invariant of the composition: the plan does not change once it is accepted, and
what is composed after it is what some of its releases declare (`GatheredInv`).
What is gathered is not one of the constant `Inputs`, so the invariant of
`Composition` asks of its input only that it is well-formed (`WellFormed`), and
`GatheredWellFormed` shows that manifests of a plan are. From it follow
`PlansHaveTheNewest`, `RecordsCompose` and, because a plan whose digests differ
claims each digest once and adds nothing, `PlansAlwaysCompose`.

*Only model-checked*: the liveness properties (`EventuallyPublished`,
`EveryCallReturns`, `EventuallyCaughtUp`, `EventuallyRescued`,
`EventuallySettled`, `EventuallyPackaged`, `EventuallyCaptured`), since neither
fairness nor `ENABLED` is within the prover's reach. Every safety property of a
passing run is a theorem. The three runs that expect a violation refute a
statement about the code, so there is nothing to prove of them.

## 6. Not modelled

* Digest collisions, JSON text, HTTP, pagination, the package metadata formats,
  versions and asset names as text. The last includes which tags and
  language-server versions `selection.py` recognises at all.
* Support documents of a publication other than the migrated schemas; they take
  the path of a blob, and their temporaries lie beneath `public/`, too.
* A temporary whose removal fails after the write or rename failed: two failures
  of one file operation. The staging copy beside the repository, which a kill
  leaves there and nothing reads again.
* A capture or bootstrap that is removed or copied file by file: reading one
  fails, or finds other digests.
* The in-place `build` and `select` commands, which share the operators of
  `RegistryTree` with `Publication` but not its rollback.
* Two whole publications at once in one checkout. `Storage` shows what their
  primitives give each other; the code has no lock, and the workflow runs one
  at a time.
* Two dispatches of one native release at once, and two rescues of one plan.
* Approvals of the pull request, and what its description says between a push
  and the edit that follows.
* The writes of release records to the checkout before a publication: the
  workflow discards the checkout on failure.
* Native packages: replacing the metadata in the checkout file by file
  (`_install_metadata`), which the workflow discards on failure; a pull request
  that edits generated native files by hand.
* The input checks on each committed file (`validation/inputs.py`) and the drift
  check on each path over the Git history, except as the gates of `Capture` and
  `NativePackages`.
* The key ceremony, the setting of the eight signing secrets and of the hosting
  token, Terraform: their effects appear as inputs that change.
* Components with another status than `modelled` in `PROJECT.json` say there
  what they lack.

## 7. Plan

Order by what a failure would cost:

1. `Publication`, `Storage`, `Promotion` and their proofs: done.
2. `Rescue`, `Selection` and their proofs: done.
3. `NativePackages` and its proofs: done, except the metadata formats.
4. `NativeRelease` and its proofs: done, for one dispatch at a time.
5. `Capture`, `Composition` and their proofs: done.
6. Building and selection in place, and the drift check over a history of
   commits.
7. Proofs of every safety property the runs check: done. Left are facts the
   models take as constants or assumptions and that could be theorems about one
   another, as `ConflictsArePairs` is about `Promotion`: that what a rescue
   leaves (`Rescue`) is what `RescuedRecords` gathers, and that a merged
   promotion (`Promotion`) is a tree `Publication` accepts.
