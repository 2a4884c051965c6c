--------------------------- MODULE NativeReleaseProofs ---------------------------
(***************************************************************************)
(* The publish action implements ImmutableReleases, for all files, builds  *)
(* and revisions, whichever requests fail with or without effect.          *)
(***************************************************************************)
EXTENDS NativeRelease, TLAPS

\* The files of different builds differ, so a complete release shows its build.
LEMMA OneBuild ==
    ASSUME NEW b \in Builds, NEW c \in Builds, Complete(b) = Complete(c)
    PROVE  b = c
<1>1. PICK f \in Files : TRUE
  BY ReleaseAssumption
<1>2. Complete(b)[f] = b /\ Complete(c)[f] = c
  BY DEF Complete
<1> QED
  BY <1>2

\* What users see of a complete release is its build; drafts they do not see.
LEMMA LiveShowsBuild ==
    ASSUME NEW release \in Release, NEW b \in Builds,
           release.status = "live", release.assets = Complete(b)
    PROVE  Shown(release) = b
<1>1. \A c \in Builds : release.assets = Complete(c) => c = b
  BY OneBuild
<1> QED
  BY <1>1 DEF Shown

-----------------------------------------------------------------------------

LEMMA InitEstablishesIInv == Init => IInv
<1> SUFFICES ASSUME Init PROVE IInv
  OBVIOUS
<1>1. NoRelease \in Release /\ NoRelease.status = "none"
  BY DEF NoRelease, Release, Statuses
<1>2. TypeOK
  BY <1>1 DEF Init, TypeOK, Run, NoRun, Phases
<1>3. RunInv /\ NewestInv
  BY DEF Init, NoRun, RunInv, NewestInv
<1>4. LiveInv
  BY <1>1 DEF Init, LiveInv
<1> QED
  BY <1>2, <1>3, <1>4 DEF IInv

\* The releases that steps write are releases.
LEMMA WrittenReleases ==
    ASSUME TypeOK, RunInv, run.phase # "idle"
    PROVE  /\ NoRelease \in Release
           /\ Draft \in Release
           /\ Draft.status = "draft"
           /\ NoRelease.status = "none"
           /\ Published \in Release
           /\ Published.status = "live" /\ Published.assets = Current.assets
           /\ \A assets \in [Files -> Builds \cup {None, Broken}] :
                 LET new == [Current EXCEPT !.assets = assets]
                 IN new \in Release /\ new.status = Current.status
                                    /\ new.assets = assets
           /\ Complete(run.build) \in [Files -> Builds \cup {None, Broken}]
<1>1. run.revision \in Revisions /\ run.build \in Builds
  BY DEF RunInv
<1>2. Current \in Release
  BY <1>1 DEF TypeOK, Current
<1> QED
  BY <1>1, <1>2 DEF NoRelease, Draft, Published, Release, Statuses, Complete

-----------------------------------------------------------------------------
(* Steps that leave the releases alone.                                     *)

LEMMA PlanPreserves == IInv /\ Plan => IInv'
<1> SUFFICES ASSUME IInv, Plan PROVE IInv'
  OBVIOUS
<1>1. PICK n \in 0..MaxRevision - 1, b \in Builds :
         /\ IsLatest(n)
         /\ run' = [phase |-> "planned", revision |-> n + 1, build |-> b]
         /\ releases' = releases /\ combined' = combined /\ wanted' = wanted
  BY DEF Plan
<1>2. n + 1 \in Revisions
  BY <1>1, ReleaseAssumption DEF Revisions
<1>3. TypeOK'
  BY <1>1, <1>2 DEF IInv, TypeOK, Run, Phases
<1>4. RunInv'
  BY <1>1, <1>2 DEF RunInv, Current, Verified
<1>5. NewestInv'
  <2>1. \A r \in Revisions : releases[r].status = "live" => r <= n
    BY <1>1 DEF IsLatest, Taken
  <2> QED
    BY <1>1, <2>1, ReleaseAssumption DEF NewestInv, Revisions
<1>6. LiveInv'
  BY <1>1 DEF IInv, LiveInv
<1> QED
  BY <1>3, <1>4, <1>5, <1>6 DEF IInv

\* A run that goes on or ends, with nothing written.
LEMMA QuietPreserves ==
    ASSUME IInv, releases' = releases, combined' \subseteq Revisions,
           wanted' \in {"nothing", "package", "repack"},
           \/ run' = run
           \/ End
           \/ run.phase = "view" /\ Goto("upload")
           \/ run.phase = "check" /\ Verified /\ Goto("publish")
           \/ run.phase = "check" /\ Goto("cleanup")
           \/ run.phase = "cleanup" /\ Current.status = "draft" /\ Goto("delete")
    PROVE  IInv'
<1>1. TypeOK'
  <2>1. run' \in Run
    BY DEF IInv, TypeOK, End, Goto, NoRun, Run, Phases
  <2> QED
    BY <2>1 DEF IInv, TypeOK
<1>2. RunInv'
  BY DEF IInv, TypeOK, Run, RunInv, End, Goto, NoRun, Current, Verified
<1>3. NewestInv'
  BY DEF IInv, TypeOK, Run, NewestInv, End, Goto, NoRun
<1>4. LiveInv'
  BY DEF IInv, LiveInv
<1> QED
  BY <1>1, <1>2, <1>3, <1>4 DEF IInv

-----------------------------------------------------------------------------
(* Steps that write the run's release.                                      *)

\* Writing a release that is not live, or a verified one.
LEMMA WritePreserves ==
    ASSUME IInv, run.phase # "idle", NEW release \in Release,
           Current.status # "live",
           SetRelease(release), combined' = combined,
           wanted' \in {"nothing", "package", "repack"},
           \/ release.status # "live"
           \/ run.phase = "publish" /\ release.assets = Complete(run.build),
           \/ End
           \/ run.phase = "planned" /\ release.status = "draft" /\ Goto("view")
           \/ run.phase = "upload" /\ release.status = "draft" /\ Goto("check")
           \/ Goto("cleanup")
    PROVE  IInv'
<1>1. run.revision \in Revisions /\ run.build \in Builds
  BY DEF IInv, RunInv
<1>2. releases' = [releases EXCEPT ![run.revision] = release]
  BY DEF SetRelease
<1>3. /\ releases'[run.revision] = release
      /\ \A r \in Revisions \ {run.revision} : releases'[r] = releases[r]
  BY <1>1, <1>2 DEF IInv, TypeOK
<1>4. TypeOK'
  <2>1. run' \in Run
    BY DEF IInv, TypeOK, End, Goto, NoRun, Run, Phases
  <2>2. releases' \in [Revisions -> Release]
    BY <1>1, <1>2 DEF IInv, TypeOK
  <2> QED
    BY <2>1, <2>2 DEF IInv, TypeOK
<1>5. RunInv'
  BY <1>1, <1>3 DEF IInv, TypeOK, Run, RunInv, End, Goto, NoRun, Current, Verified
<1>6. NewestInv'
  <2>1. CASE End \/ Goto("cleanup")
    BY <2>1 DEF IInv, TypeOK, Run, NewestInv, End, Goto, NoRun
  <2>2. CASE /\ run.phase \in {"planned", "upload"}
             /\ release.status = "draft"
             /\ Goto("view") \/ Goto("check")
    <3>1. run'.revision = run.revision
      BY <2>2 DEF IInv, TypeOK, Run, Goto
    <3>2. \A r \in Revisions : releases'[r].status = "live" => releases[r].status = "live"
      BY <1>3, <2>2
    <3> QED
      BY <2>2, <3>1, <3>2 DEF IInv, NewestInv
  <2> QED
    BY <2>1, <2>2
<1>7. LiveInv'
  BY <1>1, <1>3 DEF IInv, LiveInv
<1> QED
  BY <1>4, <1>5, <1>6, <1>7 DEF IInv

LEMMA RemoveDraftPreserves ==
    ASSUME IInv, NEW r \in Revisions, RemoveDraft(r)
    PROVE  IInv'
<1>1. NoRelease \in Release /\ NoRelease.status = "none"
  BY DEF NoRelease, Release, Statuses
<1>2. /\ releases' \in [Revisions -> Release]
      /\ releases'[r] = NoRelease
      /\ \A q \in Revisions \ {r} : releases'[q] = releases[q]
  BY <1>1 DEF IInv, TypeOK, RemoveDraft
<1>3. TypeOK'
  BY <1>2 DEF IInv, TypeOK, RemoveDraft
<1>4. RunInv' /\ NewestInv'
  BY DEF RemoveDraft, RunInv, NewestInv, Current
<1>5. LiveInv'
  BY <1>1, <1>2 DEF IInv, LiveInv
<1> QED
  BY <1>3, <1>4, <1>5 DEF IInv

-----------------------------------------------------------------------------

LEMMA NextPreservesIInv == IInv /\ [Next]_vars => IInv'
<1> SUFFICES ASSUME IInv, [Next]_vars PROVE IInv'
  OBVIOUS
<1>a. /\ TypeOK /\ RunInv
      /\ wanted \in {"nothing", "package", "repack"}
      /\ combined \subseteq Revisions
  BY DEF IInv, TypeOK
<1>b. run.phase \in {"view", "upload", "check", "publish", "delete"} =>
         Current.status = "draft"
  BY <1>a DEF RunInv
<1>1. CASE UNCHANGED vars
  BY <1>1, <1>a, QuietPreserves DEF vars
<1>2. CASE PlanNothing \/ GiveUp \/ Dispatch("package") \/ Dispatch("repack")
  BY <1>2, <1>a, QuietPreserves DEF PlanNothing, GiveUp, Dispatch
<1>3. CASE Plan
  BY <1>3, PlanPreserves
<1>4. CASE Refuse \/ ViewFails \/ CleanupFails \/ Kill
  BY <1>4, <1>a, QuietPreserves DEF Refuse, ViewFails, CleanupFails, Kill
<1>5. CASE View \/ Check \/ CheckFails \/ Cleanup
  BY <1>5, <1>a, QuietPreserves DEF View, Check, CheckFails, Cleanup
<1>6. CASE Create
  BY <1>6, <1>a, WritePreserves, WrittenReleases DEF Create
<1>7. CASE CreateFails
  <2>1. CASE UNCHANGED releases
    BY <1>7, <2>1, <1>a, QuietPreserves DEF CreateFails
  <2>2. CASE SetRelease(Draft)
    BY <1>7, <2>2, <1>a, WritePreserves, WrittenReleases DEF CreateFails
  <2> QED
    BY <1>7, <2>1, <2>2 DEF CreateFails
<1>8. CASE Upload
  BY <1>8, <1>a, <1>b, WritePreserves, WrittenReleases DEF Upload
<1>9. CASE UploadFails
  <2>1. PICK assets \in [Files -> {run.build, None, Broken}] :
           SetRelease([Current EXCEPT !.assets = assets])
    BY <1>9 DEF UploadFails
  <2>2. run.build \in Builds /\ run.phase = "upload"
    BY <1>9, <1>a DEF UploadFails, RunInv
  <2>3. assets \in [Files -> Builds \cup {None, Broken}]
    BY <2>2
  <2> QED
    BY <1>9, <1>a, <1>b, <2>1, <2>2, <2>3, WritePreserves, WrittenReleases DEF UploadFails
<1>10. CASE Publish
  BY <1>10, <1>a, <1>b, WritePreserves, WrittenReleases DEF Publish, RunInv, Verified
<1>11. CASE PublishFails
  <2>1. CASE SetRelease(Published)
    BY <1>11, <2>1, <1>a, <1>b, WritePreserves, WrittenReleases
       DEF PublishFails, RunInv, Verified
  <2>2. CASE UNCHANGED releases
    <3>1. TypeOK'
      BY <1>11, <2>2 DEF PublishFails, IInv, TypeOK, Goto, Run, Phases
    <3>2. RunInv' /\ NewestInv' /\ LiveInv'
      BY <1>11, <2>2 DEF PublishFails, IInv, TypeOK, Goto, Run, RunInv, NewestInv,
                         LiveInv, Current, Verified
    <3> QED
      BY <3>1, <3>2 DEF IInv
  <2> QED
    BY <1>11, <2>1, <2>2 DEF PublishFails
<1>12. CASE Delete
  BY <1>12, <1>a, <1>b, WritePreserves, WrittenReleases DEF Delete
<1>13. CASE DeleteFails
  <2>1. CASE UNCHANGED releases
    BY <1>13, <2>1, <1>a, QuietPreserves DEF DeleteFails
  <2>2. CASE SetRelease(NoRelease)
    BY <1>13, <2>2, <1>a, <1>b, WritePreserves, WrittenReleases DEF DeleteFails
  <2> QED
    BY <1>13, <2>1, <2>2 DEF DeleteFails
<1>14. CASE ReleaseCombined
  <2>1. combined' \subseteq Revisions
    BY <1>14, <1>a, ReleaseAssumption DEF ReleaseCombined, Revisions
  <2> QED
    BY <1>14, <2>1, <1>a, QuietPreserves DEF ReleaseCombined
<1>15. CASE \E r \in Revisions : RemoveDraft(r)
  BY <1>15, RemoveDraftPreserves
<1> QED
  BY <1>1, <1>2, <1>3, <1>4, <1>5, <1>6, <1>7, <1>8, <1>9, <1>10, <1>11, <1>12,
     <1>13, <1>14, <1>15 DEF Next, Step, Fail

LEMMA Invariant == Spec => []IInv
<1> QED
  BY InitEstablishesIInv, NextPreservesIInv, PTL DEF Spec

\* The types hold for every product version and every sequence of failures.
THEOREM TypeCorrect == Spec => []TypeOK
<1>1. IInv => TypeOK
  BY DEF IInv
<1> QED
  BY <1>1, Invariant, PTL

-----------------------------------------------------------------------------
(* The refinement.                                                          *)

\* Users see nothing of what happens to a release before it is live.
LEMMA DraftsAreHidden ==
    ASSUME TypeOK, NEW r \in Revisions, NEW release \in Release,
           releases[r].status # "live", release.status # "live",
           releases' = [releases EXCEPT ![r] = release]
    PROVE  Live' = Live
<1>1. \A q \in Revisions : Shown(releases'[q]) = Shown(releases[q])
  <2> TAKE q \in Revisions
  <2>1. CASE q = r
    BY <2>1 DEF TypeOK, Shown
  <2>2. CASE q # r
    BY <2>2 DEF TypeOK
  <2> QED
    BY <2>1, <2>2
<1> QED
  BY <1>1 DEF Live

\* A publication that takes effect, answered or not, is a release.
LEMMA PublicationReleases ==
    ASSUME IInv, run.phase = "publish", SetRelease(Published)
    PROVE  Promised!Release(run.revision, run.build)
<1>1. /\ run.revision \in Revisions
      /\ run.build \in Builds
      /\ Current.assets = Complete(run.build)
      /\ TypeOK /\ RunInv
  BY DEF IInv, RunInv, Verified
<1>2. /\ Published \in Release
      /\ Published.status = "live"
      /\ Published.assets = Complete(run.build)
  BY <1>1, WrittenReleases
<1>3. Shown(Published) = run.build
  BY <1>1, <1>2, LiveShowsBuild
<1>4. Live' = [Live EXCEPT ![run.revision] = run.build]
  <2>1. \A q \in Revisions :
           releases'[q] = IF q = run.revision THEN Published ELSE releases[q]
    BY <1>1 DEF SetRelease, TypeOK
  <2> QED
    BY <1>1, <1>3, <2>1 DEF Live
<1>5. \A q \in Revisions : Live[q] # None => q < run.revision
  BY DEF IInv, NewestInv, Live, Shown
<1> QED
  BY <1>4, <1>5 DEF Promised!Release

LEMMA RefineNext == IInv /\ [Next]_vars => [Promised!Next]_Live
<1> SUFFICES ASSUME IInv, [Next]_vars
             PROVE  Promised!Next \/ Live' = Live
  OBVIOUS
<1>a. TypeOK /\ RunInv
  BY DEF IInv
<1>1. CASE releases' = releases
  BY <1>1 DEF Live
<1>2. CASE run.phase = "publish" /\ SetRelease(Published)
  <2>1. run.revision \in Revisions /\ run.build \in Builds
    BY <1>2, <1>a DEF RunInv
  <2> QED
    BY <1>2, <2>1, PublicationReleases DEF Promised!Next
<1>3. CASE /\ run.phase \in {"planned", "upload", "delete"}
           /\ \E release \in Release :
                 release.status # "live" /\ SetRelease(release)
           /\ Current.status # "live"
  <2>1. run.revision \in Revisions
    BY <1>3, <1>a DEF RunInv
  <2> QED
    BY <1>3, <1>a, <2>1, DraftsAreHidden DEF SetRelease, Current
<1>4. CASE \E r \in Revisions : RemoveDraft(r)
  <2>1. NoRelease \in Release /\ NoRelease.status = "none"
    BY DEF NoRelease, Release, Statuses
  <2> QED
    BY <1>4, <1>a, <2>1, DraftsAreHidden DEF RemoveDraft
<1>b. run.phase \in {"upload", "delete"} => Current.status = "draft"
  BY <1>a DEF RunInv
<1>5. CASE Create \/ CreateFails
  BY <1>1, <1>3, <1>5, <1>a, WrittenReleases DEF Create, CreateFails
<1>6. CASE Upload
  BY <1>3, <1>6, <1>a, <1>b, WrittenReleases DEF Upload
<1>7. CASE UploadFails
  <2>1. PICK assets \in [Files -> {run.build, None, Broken}] :
           SetRelease([Current EXCEPT !.assets = assets])
    BY <1>7 DEF UploadFails
  <2>2. run.build \in Builds /\ run.phase = "upload"
    BY <1>7, <1>a DEF UploadFails, RunInv
  <2>3. assets \in [Files -> Builds \cup {None, Broken}]
    BY <2>2
  <2> QED
    BY <1>3, <1>a, <1>b, <2>1, <2>2, <2>3, WrittenReleases
<1>8. CASE Publish \/ PublishFails
  BY <1>1, <1>2, <1>8 DEF Publish, PublishFails
<1>9. CASE Delete \/ DeleteFails
  BY <1>1, <1>3, <1>9, <1>a, <1>b, WrittenReleases DEF Delete, DeleteFails
<1>10. CASE \/ UNCHANGED vars
            \/ PlanNothing \/ Plan \/ GiveUp \/ Refuse \/ View \/ ViewFails
            \/ Check \/ CheckFails \/ Cleanup \/ CleanupFails \/ Kill
            \/ Dispatch("package") \/ Dispatch("repack") \/ ReleaseCombined
  BY <1>1, <1>10 DEF vars, PlanNothing, Plan, GiveUp, Refuse, View, ViewFails, Check,
     CheckFails, Cleanup, CleanupFails, Kill, Dispatch, ReleaseCombined
<1> QED
  BY <1>4, <1>5, <1>6, <1>7, <1>8, <1>9, <1>10 DEF Next, Step, Fail

\* Whatever fails, and whichever answers are lost, releases go live whole, as the
\* newest revision, and stay as they are.
THEOREM PublicationIsImmutable == Spec => ReleasesAreImmutable
<1>1. Init => Promised!Init
  BY DEF Init, Promised!Init, Live, Shown, NoRelease
<1> QED
  BY Invariant, <1>1, RefineNext, PTL DEF Spec, ReleasesAreImmutable, Promised!Spec

=============================================================================
