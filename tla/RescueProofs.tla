----------------------------- MODULE RescueProofs -----------------------------
(***************************************************************************)
(* What a rescue guarantees for every plan and every sequence of lost and  *)
(* late requests, killed runs and repairs.                                 *)
(***************************************************************************)
EXTENDS Rescue, TLAPS

\* Where assets are at home.
LEMMA HomeFacts ==
    /\ \A n \in Names : HomeOf(n) \in Releases
    /\ \A b \in Binaries : b \in Names /\ HomeOf(b) = Home[b] /\ Home[b] \in Releases
    /\ \A r \in Releases : r \in Names /\ HomeOf(r) = r /\ r \notin Binaries
    /\ \A n \in Names : n \in Binaries \/ n \in Releases
BY RescueAssumption DEF Names, HomeOf

\* The empty run is a run, and idle.
LEMMA NoRunType == NoRun \in Run /\ NoRun.phase = "idle"
BY DEF NoRun, Run

-----------------------------------------------------------------------------
(* Type correctness.                                                        *)

\* Preflight keeps the types.
LEMMA PreflightType == ASSUME TypeOK, Preflight \/ \E dry \in BOOLEAN : Start(dry)
                       PROVE  TypeOK'
<1>1. ASSUME NEW dry \in BOOLEAN, Start(dry) PROVE TypeOK'
  BY <1>1, NoRunType DEF Start, TypeOK, Run, NoRun
<1>2. ASSUME NEW r \in Releases, Inspect(r) PROVE TypeOK'
  <2>1. Problem(r) \in BOOLEAN /\ Missing(r) \subseteq Names
    BY DEF Problem, Missing, NamesOf
  <2>2. run' \in Run /\ run'.phase = "inspect"
    BY <1>2, <2>1 DEF Inspect, TypeOK, Run
  <2>3. QED BY <1>2, <2>2 DEF Inspect, TypeOK
<1>3. CASE InspectAborts \/ Refuse \/ Describe
  BY <1>3, NoRunType DEF InspectAborts, Refuse, Describe, End, TypeOK
<1>4. CASE Execute
  BY <1>4 DEF Execute, TypeOK, Run
<1>5. QED BY <1>1, <1>2, <1>3, <1>4 DEF Preflight

\* Creating a draft keeps the types.
LEMMA CreatedType == ASSUME TypeOK, NEW r \in Releases PROVE Created(r) \in [Releases -> ReleaseStates]
BY DEF TypeOK, Created, ReleaseStates

\* Execution keeps the types.
LEMMA ExecutionType == ASSUME TypeOK, Execution PROVE TypeOK'
<1>1. ASSUME NEW r \in Releases, OpenRelease(r) PROVE TypeOK'
  BY <1>1, CreatedType DEF OpenRelease, TypeOK, Run
<1>2. ASSUME NEW n \in Names, Upload(n) PROVE TypeOK'
  <2>1. run' \in Run /\ run'.phase = "execute"
    BY <1>2 DEF Upload, NextUpload, Advance, TypeOK, Run
  <2>2. QED BY <1>2, <2>1 DEF Upload, TypeOK, AssetStatus
<1>3. ASSUME NEW n \in Names, UploadRefused(n) \/ UploadOfOtherBytes(n) PROVE TypeOK'
  <2>1. run' \in Run
    BY <1>3 DEF UploadRefused, UploadOfOtherBytes, Raise, TypeOK, Run
  <2>2. asset' \in [Names -> AssetStatus]
    BY <1>3 DEF UploadRefused, UploadOfOtherBytes, TypeOK, AssetStatus
  <2>3. run'.failing = n
    BY <1>3 DEF UploadRefused, UploadOfOtherBytes, Raise, TypeOK, Run
  <2>4. QED BY <1>3, <2>1, <2>2, <2>3 DEF UploadRefused, UploadOfOtherBytes, Raise, TypeOK
<1>4. CASE Reconcile
  BY <1>4, NoRunType DEF Reconcile, End, TypeOK
<1>5. CASE Finish
  BY <1>5, NoRunType DEF Finish, End, TypeOK
<1>6. QED BY <1>1, <1>2, <1>3, <1>4, <1>5 DEF Execution

\* Faults keep the types.
LEMMA FaultsType == ASSUME TypeOK, Faults PROVE TypeOK'
<1>0. failures' \in 0 .. MaxFailures
  BY FailuresAssumption
     DEF Faults, CreateFails, UploadBreaks, RunBreaks, SourceFails, Failure, TypeOK
<1>1. ASSUME NEW r \in Releases, CreateFails(r) PROVE TypeOK'
  BY <1>0, <1>1, CreatedType, NoRunType DEF CreateFails, End, TypeOK
<1>2. ASSUME NEW n \in Names, UploadBreaks(n) PROVE TypeOK'
  <2>1. run' \in Run /\ run'.failing = n
    BY <1>2 DEF UploadBreaks, Raise, TypeOK, Run
  <2>2. asset' \in [Names -> AssetStatus] /\ late' \subseteq Names
    BY <1>2 DEF UploadBreaks, TypeOK, AssetStatus
  <2>3. QED BY <1>0, <1>2, <2>1, <2>2 DEF UploadBreaks, Raise, TypeOK
<1>3. CASE RunBreaks
  BY <1>0, <1>3, NoRunType DEF RunBreaks, End, TypeOK
<1>4. ASSUME NEW b \in Binaries, SourceFails(b) PROVE TypeOK'
  BY <1>0, <1>4 DEF SourceFails, TypeOK
<1>5. QED BY <1>1, <1>2, <1>3, <1>4 DEF Faults

\* Everybody else's steps.
Outside ==
    \/ Tidy
    \/ \E n \in Names : Land(n) \/ Settle(n)
    \/ \E r \in Releases : LandDraft(r) \/ Publish(r)
    \/ \E b \in Binaries : SourceReturns(b)

\* They keep the types.
LEMMA OutsideType == ASSUME TypeOK, Outside PROVE TypeOK'
<1>1. ASSUME NEW n \in Names, Land(n) \/ Settle(n) \/ Cleanup(n) PROVE TypeOK'
  <2>1. asset' \in [Names -> AssetStatus]
    BY <1>1 DEF Land, Settle, Cleanup, TypeOK, AssetStatus
  <2>2. QED BY <1>1, <2>1 DEF Land, Settle, Cleanup, TypeOK
<1>2. ASSUME NEW r \in Releases, LandDraft(r) \/ Publish(r) \/ RemoveStrayDraft(r)
      PROVE  TypeOK'
  <2>1. release' \in [Releases -> ReleaseStates]
    BY <1>2, CreatedType DEF LandDraft, Publish, RemoveStrayDraft, TypeOK, ReleaseStates
  <2>2. QED BY <1>2, <2>1 DEF LandDraft, Publish, RemoveStrayDraft, TypeOK
<1>3. ASSUME NEW b \in Binaries, SourceReturns(b) PROVE TypeOK'
  BY <1>3 DEF SourceReturns, TypeOK
<1>4. QED BY <1>1, <1>2, <1>3 DEF Outside, Tidy

\* Every step keeps the types.
LEMMA NextType == TypeOK /\ [Next]_vars => TypeOK'
<1>1. CASE UNCHANGED vars
  BY <1>1 DEF vars, TypeOK
<1>2. QED
  BY <1>1, PreflightType, ExecutionType, FaultsType, OutsideType DEF Next, Outside

\* The initial state is well typed.
LEMMA InitType == Init => TypeOK
BY NoRunType, FailuresAssumption DEF Init, TypeOK, ReleaseStates, NoRun

\* Every reachable state is well typed, for any plan and number of failures.
THEOREM TypeCorrect == Spec => []TypeOK
BY InitType, NextType, PTL DEF Spec

-----------------------------------------------------------------------------
(* The inductive invariant.                                                 *)

\* No run, no late upload: the initial state satisfies the invariant.
LEMMA InvInit == Init => IInv
BY InitType DEF Init, IInv, RunInv, ReportedInv, LiveInv, DoneMeansComplete, NoRun, Active

\* What the invariant says of assets is unchanged by a step that changes only
\* the run.
LEMMA ClaimKept == ASSUME ClaimInv, UNCHANGED <<asset, late>> PROVE ClaimInv'
BY DEF ClaimInv, Claimed

\* A run that starts has seen nothing yet.
LEMMA InvStart == ASSUME IInv, NEW dry \in BOOLEAN, Start(dry) PROVE IInv'
<1>1. TypeOK' /\ ClaimInv'
  BY NextType, ClaimKept DEF IInv, Next, Start
<1>2. run' = [NoRun EXCEPT !.phase = "inspect", !.dry = dry]
  BY DEF Start
<1>3. RunInv' /\ LiveInv'
  BY <1>2 DEF Start, IInv, RunInv, LiveInv, NoRun, Active
<1>4. ReportedInv' /\ DoneMeansComplete'
  BY <1>2 DEF Start, IInv, ReportedInv, DoneMeansComplete, NoRun
<1>5. QED BY <1>1, <1>3, <1>4 DEF IInv

\* A run that ends leaves no obligation, unless it ends well.
LEMMA InvEnd == ASSUME IInv, InspectAborts \/ Refuse \/ Describe \/ RunBreaks
                             \/ \E r \in Releases : CreateFails(r)
                PROVE  IInv'
<1> USE DEF InspectAborts, Refuse, Describe, RunBreaks, CreateFails, End
<1>1. TypeOK' /\ ClaimInv'
  BY NextType, ClaimKept DEF IInv, Next, Preflight, Faults
<1>2. run' = NoRun /\ outcome' # "done" /\ outcome' # "running" /\ UNCHANGED <<asset, late>>
  OBVIOUS
<1>3. RunInv' /\ DoneMeansComplete'
  BY <1>2 DEF RunInv, DoneMeansComplete, NoRun, Active
<1>4. ReportedInv'
  BY <1>2 DEF IInv, ReportedInv, Claimed, NoRun
<1>5. LiveInv'
  <2>1. \A r \in Releases : release'[r] = "live" => release[r] = "live"
    BY DEF Created, IInv, TypeOK
  <2>2. QED BY <1>2, <2>1, HomeFacts DEF IInv, LiveInv, NoRun, Active
<1>6. QED BY <1>1, <1>3, <1>4, <1>5 DEF IInv

\* A run that has uploaded everything leaves the plan complete.
LEMMA InvFinish == ASSUME IInv, Finish PROVE IInv'
<1> USE DEF Finish, End
<1>1. TypeOK' /\ ClaimInv'
  BY NextType, ClaimKept DEF IInv, Next, Execution
<1>2. \A n \in Names : asset[n] = "matching"
  BY HomeFacts DEF IInv, RunInv, Active
<1>3. RunInv' /\ LiveInv' /\ DoneMeansComplete'
  BY <1>2 DEF RunInv, LiveInv, DoneMeansComplete, Complete, NamesOf, NoRun, Active, IInv
<1>4. ReportedInv'
  BY DEF IInv, ReportedInv, Claimed, NoRun
<1>5. QED BY <1>1, <1>3, <1>4 DEF IInv

\* Inspection: what is not missing matches, or there is a problem.
LEMMA InvInspect == ASSUME IInv, NEW r \in Releases, Inspect(r) PROVE IInv'
<1> USE DEF Inspect
<1>1. TypeOK' /\ ClaimInv'
  BY NextType, ClaimKept DEF IInv, Next, Preflight
<1>2. /\ run'.phase = "inspect"
      /\ run'.inspected = run.inspected \cup {r}
      /\ run'.uploads = run.uploads \cup Missing(r)
      /\ run'.problem = (run.problem \/ Problem(r))
  BY DEF IInv, TypeOK, Run
<1>3. RunInv'
  <2> SUFFICES ASSUME ~run.problem, ~Problem(r), NEW n \in Names
               PROVE  /\ n \in run'.uploads => HomeOf(n) \in run'.inspected
                      /\ HomeOf(n) \in run'.inspected /\ n \notin run'.uploads
                            => asset'[n] = "matching"
                      /\ n \in run'.uploads \cap Binaries =>
                            ~Claimed(Home[n])' /\ Home[n] \in run'.uploads
    BY <1>2, Zenon DEF RunInv, Active
  <2>1. /\ n \in run.uploads => HomeOf(n) \in run.inspected
        /\ HomeOf(n) \in run.inspected /\ n \notin run.uploads => asset[n] = "matching"
        /\ n \in run.uploads \cap Binaries => ~Claimed(Home[n]) /\ Home[n] \in run.uploads
    BY DEF IInv, RunInv, Active
  <2>2. CASE HomeOf(n) = r
    <3>1. n \in NamesOf(r) /\ (n \in Missing(r) <=> asset[n] = "absent")
      BY <2>2 DEF NamesOf, Missing, Problem
    <3>2. asset[n] \in {"absent", "matching"}
      BY <3>1 DEF Problem, IInv, TypeOK, AssetStatus
    <3>3. ASSUME n \in Missing(r) \cap Binaries
          PROVE  ~Claimed(Home[n]) /\ Home[n] \in Missing(r)
      <4>1. Home[n] = r /\ n \in BinariesOf(r)
        BY <2>2, <3>3, HomeFacts DEF BinariesOf
      <4>2. asset[n] = "absent"
        BY <3>1, <3>3
      <4>3. ~Claimed(r)
        BY <4>1, <4>2 DEF IInv, ClaimInv
      <4>4. asset[r] = "absent"
        BY <4>1, <4>2 DEF Problem
      <4>5. QED BY <4>1, <4>3, <4>4, HomeFacts DEF Missing, NamesOf, Problem
    <3>4. QED BY <1>2, <2>1, <2>2, <3>1, <3>2, <3>3 DEF Claimed
  <2>3. CASE HomeOf(n) # r
    <3>1. n \notin Missing(r)
      BY <2>3 DEF Missing, NamesOf
    <3>2. QED BY <1>2, <2>1, <2>3, <3>1 DEF Claimed
  <2>4. QED BY <2>2, <2>3
<1>4. LiveInv'
  <2> SUFFICES ASSUME NEW n \in Names, release[HomeOf(n)] = "live", asset[n] = "absent",
                      ~run.problem, ~Problem(r)
               PROVE  n \notin run'.uploads
    BY <1>2 DEF LiveInv, Active, IInv
  <2>1. n \notin run.uploads
    BY DEF IInv, LiveInv, Active
  <2>2. QED BY <1>2, <2>1 DEF Missing, NamesOf
<1>5. ReportedInv' /\ DoneMeansComplete'
  BY <1>2 DEF IInv, ReportedInv, Claimed, DoneMeansComplete
<1>6. QED BY <1>1, <1>3, <1>4, <1>5 DEF IInv

\* Execution begins and drafts are created without touching assets.
LEMMA InvOpen == ASSUME IInv, Execute \/ \E r \in Releases : OpenRelease(r) PROVE IInv'
<1> USE DEF Execute, OpenRelease
<1>1. TypeOK' /\ ClaimInv'
  BY NextType, ClaimKept DEF IInv, Next, Preflight, Execution
<1>2. /\ run'.phase = "execute" /\ run.phase # "idle" /\ run'.problem = run.problem
      /\ run'.inspected = run.inspected /\ run'.uploads = run.uploads
      /\ ~run.problem /\ run.inspected = Releases
  BY DEF IInv, TypeOK, Run, RunInv, Clean
<1>3. RunInv'
  BY <1>2 DEF IInv, RunInv, Active, Claimed
<1>4. ReportedInv' /\ DoneMeansComplete'
  BY <1>2 DEF IInv, ReportedInv, Claimed, DoneMeansComplete
<1>5. LiveInv'
  <2>1. \A r \in Releases : release'[r] = "live" => release[r] = "live"
    BY DEF Created, IInv, TypeOK
  <2>2. QED BY <1>2, <2>1, HomeFacts DEF IInv, LiveInv, Active
<1>6. QED BY <1>1, <1>3, <1>4, <1>5 DEF IInv

\* What an upload in turn may rely on.
LEMMA UploadFacts ==
    ASSUME IInv, NEW n \in Names, NextUpload(n)
    PROVE  /\ Active /\ run.phase = "execute" /\ run.inspected = Releases
           /\ n \in run.uploads
           /\ n \in Releases => \A b \in BinariesOf(n) : asset[b] = "matching"
           /\ n \in Binaries => ~Claimed(Home[n]) /\ Home[n] \in run.uploads
           /\ asset[n] = "absent" => release[HomeOf(n)] # "live"
<1>1. Active /\ run.phase = "execute" /\ run.inspected = Releases /\ n \in run.uploads
  BY DEF NextUpload, IInv, RunInv, Active
<1>2. ASSUME n \in Releases, NEW b \in BinariesOf(n) PROVE asset[b] = "matching"
  <2>1. b \in Names /\ b \notin run.uploads /\ HomeOf(b) \in run.inspected
    BY <1>1, <1>2, HomeFacts DEF NextUpload, BinariesOf
  <2>2. QED BY <1>1, <2>1 DEF IInv, RunInv
<1>3. n \in Binaries => ~Claimed(Home[n]) /\ Home[n] \in run.uploads
  BY <1>1 DEF IInv, RunInv
<1>4. asset[n] = "absent" => release[HomeOf(n)] # "live"
  BY <1>1 DEF IInv, LiveInv
<1>5. QED BY <1>1, <1>2, <1>3, <1>4

\* An upload succeeds.
LEMMA InvUpload == ASSUME IInv, NEW n \in Names, Upload(n) PROVE IInv'
<1> USE DEF Upload
<1>0. /\ Active /\ run.phase = "execute" /\ run.inspected = Releases
      /\ n \in run.uploads
      /\ n \in Releases => \A b \in BinariesOf(n) : asset[b] = "matching"
      /\ n \in Binaries => ~Claimed(Home[n]) /\ Home[n] \in run.uploads
  BY UploadFacts
<1>1. TypeOK'
  BY NextType DEF IInv, Next, Execution
<1>2. /\ run'.phase = "execute" /\ run'.problem = run.problem
      /\ run'.inspected = run.inspected /\ run'.uploads = run.uploads \ {n}
  BY <1>0 DEF Advance, IInv, TypeOK, Run
<1>3. \A k \in Names : asset'[k] = IF k = n THEN "matching" ELSE asset[k]
  BY DEF IInv, TypeOK
<1>4. \A r \in Releases : r # n => (Claimed(r)' <=> Claimed(r))
  BY <1>3, HomeFacts DEF Claimed
<1>5. ClaimInv'
  <2> SUFFICES ASSUME NEW r \in Releases, Claimed(r)', NEW b \in BinariesOf(r)
               PROVE  asset'[b] = "matching"
    BY DEF ClaimInv, BinariesOf
  <2>1. b \in Binaries /\ b \in Names
    BY HomeFacts DEF BinariesOf
  <2>2. QED BY <1>0, <1>3, <1>4, <2>1 DEF IInv, ClaimInv
<1>6. RunInv'
  <2> SUFFICES ASSUME NEW k \in Names
               PROVE  /\ k \in run'.uploads => HomeOf(k) \in run'.inspected
                      /\ HomeOf(k) \in run'.inspected /\ k \notin run'.uploads
                            => asset'[k] = "matching"
                      /\ k \in run'.uploads \cap Binaries =>
                            ~Claimed(Home[k])' /\ Home[k] \in run'.uploads
    BY <1>0, <1>2 DEF RunInv, Active
  <2>1. /\ k \in run.uploads => HomeOf(k) \in run.inspected
        /\ HomeOf(k) \in run.inspected /\ k \notin run.uploads => asset[k] = "matching"
        /\ k \in run.uploads \cap Binaries => ~Claimed(Home[k]) /\ Home[k] \in run.uploads
    BY <1>0 DEF IInv, RunInv
  <2>2. ASSUME k \in run'.uploads \cap Binaries PROVE Home[k] # n
    <3>1. k \in BinariesOf(Home[k]) /\ Home[k] \in Releases
      BY <2>2, HomeFacts DEF BinariesOf
    <3>2. QED BY <1>2, <2>2, <3>1 DEF NextUpload
  <2>3. QED BY <1>2, <1>3, <1>4, <2>1, <2>2, HomeFacts
<1>7. ReportedInv' /\ DoneMeansComplete'
  BY <1>0, <1>2 DEF IInv, ReportedInv, DoneMeansComplete
<1>8. LiveInv'
  BY <1>0, <1>2, <1>3 DEF IInv, LiveInv, Active
<1>9. QED BY <1>1, <1>5, <1>6, <1>7, <1>8 DEF IInv

\* An upload raises, whatever it leaves behind.
LEMMA InvRaise == ASSUME IInv, NEW n \in Names,
                         UploadRefused(n) \/ UploadOfOtherBytes(n) \/ UploadBreaks(n)
                  PROVE  IInv'
<1> USE DEF UploadRefused, UploadOfOtherBytes, UploadBreaks
<1>0. /\ Active /\ run.phase = "execute" /\ run.inspected = Releases
      /\ n \in run.uploads
      /\ n \in Releases => \A b \in BinariesOf(n) : asset[b] = "matching"
      /\ n \in Binaries => ~Claimed(Home[n]) /\ Home[n] \in run.uploads
      /\ asset[n] = "absent" => release[HomeOf(n)] # "live"
  BY UploadFacts
<1>1. TypeOK'
  BY NextType DEF IInv, Next, Execution, Faults
<1>2. /\ run'.phase = "reconcile" /\ run'.failing = n /\ run'.problem = run.problem
      /\ run'.inspected = run.inspected /\ run'.uploads = run.uploads
      /\ release' = release /\ reported' = reported /\ outcome' = outcome
  BY <1>0 DEF Raise, IInv, TypeOK, Run
<1>3. /\ \A k \in Names : k # n => asset'[k] = asset[k] /\ (k \in late' <=> k \in late)
      /\ asset[n] # "absent" => asset' = asset /\ late' = late
  BY DEF IInv, TypeOK
<1>4. \A r \in Releases : r # n => (Claimed(r)' <=> Claimed(r))
  BY <1>3, HomeFacts DEF Claimed
<1>5. ClaimInv'
  <2> SUFFICES ASSUME NEW r \in Releases, Claimed(r)', NEW b \in BinariesOf(r)
               PROVE  asset'[b] = "matching"
    BY DEF ClaimInv, BinariesOf
  <2>1. b \in Binaries /\ b \in Names /\ Home[b] = r
    BY HomeFacts DEF BinariesOf
  <2>2. CASE r = n
    BY <1>0, <1>3, <2>1, <2>2, HomeFacts
  <2>3. CASE r # n
    BY <1>0, <1>3, <1>4, <2>1, <2>3 DEF IInv, ClaimInv
  <2>4. QED BY <2>2, <2>3
<1>6. RunInv'
  <2> SUFFICES ASSUME NEW k \in Names
               PROVE  /\ k \in run'.uploads => HomeOf(k) \in run'.inspected
                      /\ HomeOf(k) \in run'.inspected /\ k \notin run'.uploads
                            => asset'[k] = "matching"
                      /\ k \in run'.uploads \cap Binaries =>
                            ~Claimed(Home[k])' /\ Home[k] \in run'.uploads
    BY <1>0, <1>2 DEF RunInv, Active
  <2>1. /\ k \in run.uploads => HomeOf(k) \in run.inspected
        /\ HomeOf(k) \in run.inspected /\ k \notin run.uploads => asset[k] = "matching"
        /\ k \in run.uploads \cap Binaries => ~Claimed(Home[k]) /\ Home[k] \in run.uploads
    BY <1>0 DEF IInv, RunInv
  <2>2. ASSUME k \in run'.uploads \cap Binaries PROVE Home[k] # n
    <3>1. k \in BinariesOf(Home[k]) /\ Home[k] \in Releases
      BY <2>2, HomeFacts DEF BinariesOf
    <3>2. QED BY <1>2, <2>2, <3>1 DEF NextUpload
  <2>3. QED BY <1>0, <1>2, <1>3, <1>4, <2>1, <2>2, HomeFacts
<1>7. ReportedInv' /\ DoneMeansComplete'
  BY <1>0, <1>2 DEF IInv, ReportedInv, DoneMeansComplete, Active
<1>8. LiveInv'
  <2> SUFFICES ASSUME NEW k \in Names, release[HomeOf(k)] = "live", asset'[k] = "absent"
               PROVE  k \notin late' /\ k \notin run'.uploads
    BY <1>2 DEF LiveInv
  <2>1. k # n
    BY <1>0, <1>3
  <2>2. QED BY <1>0, <1>2, <1>3, <2>1 DEF IInv, LiveInv
<1>9. QED BY <1>1, <1>5, <1>6, <1>7, <1>8 DEF IInv

\* Reconciliation names only an asset that no manifest claims.
LEMMA InvReconcile == ASSUME IInv, Reconcile PROVE IInv'
<1> USE DEF Reconcile, End
<1>1. TypeOK' /\ ClaimInv'
  BY NextType, ClaimKept DEF IInv, Next, Execution
<1>2. run' = NoRun /\ outcome' \in {"rerunnable", "cleanup"} /\ UNCHANGED <<asset, late, release>>
  OBVIOUS
<1>3. RunInv' /\ LiveInv' /\ DoneMeansComplete'
  BY <1>2 DEF IInv, RunInv, LiveInv, DoneMeansComplete, NoRun, Active
<1>4. ReportedInv'
  <2>1. reported = {} /\ Active /\ run.failing \in run.uploads /\ run.failing \in Names
    BY DEF IInv, TypeOK, ReportedInv, RunInv, Active
  <2>2. run.failing \in Binaries => ~Claimed(Home[run.failing])
    BY <2>1 DEF IInv, RunInv
  <2>3. QED BY <1>2, <2>1, <2>2 DEF ReportedInv, Claimed, NoRun
<1>5. QED BY <1>1, <1>3, <1>4 DEF IInv

\* A late upload only ever fills a name that was claimed by nobody else.
LEMMA InvLand == ASSUME IInv, NEW n \in Names, Land(n) PROVE IInv'
<1> USE DEF Land
<1>1. TypeOK'
  BY NextType DEF IInv, Next
<1>2. /\ \A k \in Names : k # n => asset'[k] = asset[k]
      /\ asset[n] # "absent" => asset' = asset
      /\ late' = late \ {n}
      /\ UNCHANGED <<release, run, outcome, reported>>
  BY DEF IInv, TypeOK
<1>3. \A r \in Releases : Claimed(r)' => Claimed(r)
  BY <1>2, HomeFacts DEF Claimed
<1>4. ClaimInv'
  <2> SUFFICES ASSUME NEW r \in Releases, Claimed(r)', NEW b \in BinariesOf(r)
               PROVE  asset'[b] = "matching"
    BY DEF ClaimInv, BinariesOf
  <2>1. asset[b] = "matching" /\ b \in Names
    BY <1>3, HomeFacts DEF IInv, ClaimInv, BinariesOf
  <2>2. QED BY <1>2, <2>1
<1>5. \A k \in Names : asset[k] = "matching" => asset'[k] = "matching"
  BY <1>2
<1>6. RunInv'
  BY <1>2, <1>3, <1>5, HomeFacts DEF IInv, RunInv, Active
<1>7. ReportedInv'
  BY <1>2, <1>3, HomeFacts DEF IInv, ReportedInv
<1>8. DoneMeansComplete'
  BY <1>2, <1>5 DEF IInv, DoneMeansComplete, Complete, NamesOf
<1>9. LiveInv'
  <2> SUFFICES ASSUME NEW k \in Names, release[HomeOf(k)] = "live", asset'[k] = "absent"
               PROVE  k \notin late' /\ (Active => k \notin run.uploads)
    BY <1>2 DEF LiveInv, Active
  <2>1. asset[k] = "absent" \/ k = n
    BY <1>2
  <2>2. asset[k] = "absent"
    BY <1>2, <2>1
  <2>3. QED BY <1>2, <2>2 DEF IInv, LiveInv
<1>10. QED BY <1>1, <1>4, <1>6, <1>7, <1>8, <1>9 DEF IInv

\* A digest that GitHub supplies makes no claim that was not there.
LEMMA InvSettle == ASSUME IInv, NEW n \in Names, Settle(n) PROVE IInv'
<1> USE DEF Settle
<1>1. TypeOK'
  BY NextType DEF IInv, Next
<1>2. \A k \in Names : asset'[k] = IF k = n THEN "matching" ELSE asset[k]
  BY DEF IInv, TypeOK
<1>3. \A r \in Releases : Claimed(r)' <=> Claimed(r)
  BY <1>2, HomeFacts DEF Claimed
<1>4. ClaimInv'
  BY <1>2, <1>3, HomeFacts DEF IInv, ClaimInv, BinariesOf
<1>5. RunInv'
  BY <1>2, <1>3, HomeFacts DEF IInv, RunInv, Active
<1>6. ReportedInv' /\ DoneMeansComplete'
  BY <1>2, <1>3, HomeFacts DEF IInv, ReportedInv, DoneMeansComplete, Complete, NamesOf
<1>7. LiveInv'
  BY <1>2 DEF IInv, LiveInv, Active
<1>8. QED BY <1>1, <1>4, <1>5, <1>6, <1>7 DEF IInv

\* What the operator removes was claimed by no manifest.
LEMMA InvCleanup == ASSUME IInv, NEW n \in Names, Cleanup(n) PROVE IInv'
<1> USE DEF Cleanup
<1>1. TypeOK'
  BY NextType DEF IInv, Next, Tidy
<1>2. \A k \in Names : asset'[k] = IF k = n THEN "absent" ELSE asset[k]
  BY DEF IInv, TypeOK
<1>3. \A r \in Releases : Claimed(r)' => Claimed(r)
  BY <1>2, HomeFacts DEF Claimed
<1>4. n \in Binaries => ~Claimed(Home[n])
  BY HomeFacts DEF IInv, ClaimInv, ReportedInv, BinariesOf
<1>5. ClaimInv'
  <2> SUFFICES ASSUME NEW r \in Releases, Claimed(r)', NEW b \in BinariesOf(r)
               PROVE  asset'[b] = "matching"
    BY DEF ClaimInv, BinariesOf
  <2>1. asset[b] = "matching" /\ b \in Names /\ b \in Binaries /\ Home[b] = r
    BY <1>3, HomeFacts DEF IInv, ClaimInv, BinariesOf
  <2>2. QED BY <1>2, <1>3, <1>4, <2>1
<1>6. RunInv'
  BY DEF IInv, RunInv, Active
<1>7. ReportedInv'
  BY <1>3, HomeFacts DEF IInv, ReportedInv
<1>8. DoneMeansComplete'
  <2>1. outcome # "done"
    <3> SUFFICES ASSUME outcome = "done" PROVE FALSE
      OBVIOUS
    <3>1. \A k \in Names : asset[k] = "matching"
      BY HomeFacts DEF IInv, DoneMeansComplete, Complete, NamesOf
    <3>2. QED BY <3>1, HomeFacts DEF IInv, ReportedInv, BinariesOf
  <2>2. QED BY <2>1 DEF DoneMeansComplete
<1>9. LiveInv'
  BY <1>2 DEF IInv, LiveInv, Active
<1>10. QED BY <1>1, <1>5, <1>6, <1>7, <1>8, <1>9 DEF IInv

\* Steps that leave assets and the run alone.
LEMMA InvElsewhere ==
    ASSUME IInv, \/ \E r \in Releases : LandDraft(r) \/ RemoveStrayDraft(r) \/ Publish(r)
                 \/ \E b \in Binaries : SourceFails(b) \/ SourceReturns(b)
                 \/ UNCHANGED vars
    PROVE  IInv'
<1> USE DEF LandDraft, RemoveStrayDraft, Publish, SourceFails, SourceReturns, vars
<1>1. TypeOK' /\ ClaimInv'
  BY NextType, ClaimKept DEF IInv, Next, Tidy, Faults
<1>2. UNCHANGED <<asset, late, run, outcome, reported>>
  OBVIOUS
<1>3. RunInv' /\ ReportedInv' /\ DoneMeansComplete'
  BY <1>2 DEF IInv, RunInv, ReportedInv, DoneMeansComplete, Complete, Claimed, Active
<1>4. \A r \in Releases : release'[r] = "live" => release[r] = "live" \/ Complete(r)
  BY DEF Created, IInv, TypeOK
<1>5. LiveInv'
  BY <1>2, <1>4, HomeFacts DEF IInv, LiveInv, Active, Complete, NamesOf
<1>6. QED BY <1>1, <1>3, <1>5 DEF IInv

\* Every step preserves the invariant.
LEMMA InvNext == IInv /\ [Next]_vars => IInv'
BY InvStart, InvEnd, InvFinish, InvInspect, InvOpen, InvUpload, InvRaise, InvReconcile,
   InvLand, InvSettle, InvCleanup, InvElsewhere
   DEF Next, Preflight, Execution, Faults, Tidy

\* The inductive invariant holds in every reachable state.
THEOREM Invariant == Spec => []IInv
BY InvInit, InvNext, PTL DEF Spec

-----------------------------------------------------------------------------
(* The guarantees.                                                          *)

\* A valid manifest never claims a binary that is not on its release, for any
\* plan and any sequence of faults and repairs.
THEOREM ManifestsAreTruthful == Spec => []ManifestTruthful
<1>1. IInv => ManifestTruthful
  BY DEF IInv, ClaimInv, Claimed, ManifestTruthful
<1>2. QED BY <1>1, Invariant, PTL

\* Success is never reported of an incomplete plan.
THEOREM SuccessIsReal == Spec => []DoneMeansComplete
<1>1. IInv => DoneMeansComplete
  BY DEF IInv
<1>2. QED BY <1>1, Invariant, PTL

\* A published release never gains an asset, however late an upload lands.
THEOREM PublishedReleasesStay == Spec => LiveStaysAsIs
<1> DEFINE A == \A n \in Names : release[HomeOf(n)] = "live" /\ asset[n] = "absent"
                                   => asset'[n] = "absent"
<1>1. IInv /\ [Next]_vars => A
  <2> SUFFICES ASSUME IInv, [Next]_vars, NEW n \in Names,
                      release[HomeOf(n)] = "live", asset[n] = "absent"
               PROVE  asset'[n] = "absent"
    OBVIOUS
  <2>1. n \notin late /\ (Active => n \notin run.uploads) /\ asset \in [Names -> AssetStatus]
    BY DEF IInv, LiveInv, TypeOK
  <2>2. ASSUME NEW k \in Names, Upload(k) \/ UploadRefused(k) \/ UploadOfOtherBytes(k)
                                          \/ UploadBreaks(k)
        PROVE  asset'[n] = "absent"
    <3>1. k # n
      BY <2>1, <2>2, UploadFacts DEF Upload, UploadRefused, UploadOfOtherBytes, UploadBreaks
    <3>2. QED BY <2>1, <2>2, <3>1 DEF Upload, UploadRefused, UploadOfOtherBytes, UploadBreaks
  <2>3. ASSUME NEW k \in Names, Land(k) \/ Settle(k) \/ Cleanup(k)
        PROVE  asset'[n] = "absent"
    BY <2>1, <2>3 DEF Land, Settle, Cleanup
  <2>4. CASE UNCHANGED asset
    BY <2>4
  <2>5. QED
    BY <2>2, <2>3, <2>4
       DEF Next, vars, Start, Preflight, Inspect, InspectAborts, Refuse, Describe, Execute,
           Execution, OpenRelease, Reconcile, Finish, Faults, CreateFails, RunBreaks,
           SourceFails, Tidy, RemoveStrayDraft, LandDraft, Publish, SourceReturns
<1>2. QED BY <1>1, Invariant, PTL DEF Spec, LiveStaysAsIs

\* No run ever writes while something in the plan is in the way.
THEOREM OnlyCleanPlansAreWritten == Spec => WritesOnlyToCleanPlans
<1> DEFINE A == run' # run /\ (asset' # asset \/ release' # release) =>
                    \A n \in Names : asset[n] # "matching" => n \in run.uploads
<1>1. IInv /\ [Next]_vars => A
  <2> SUFFICES ASSUME IInv, [Next]_vars, run' # run,
                      asset' # asset \/ release' # release
               PROVE  \A n \in Names : asset[n] # "matching" => n \in run.uploads
    OBVIOUS
  <2>1. run.phase = "execute"
    BY DEF Next, vars, Start, Preflight, Inspect, InspectAborts, Refuse, Describe, Execute,
           Execution, OpenRelease, Upload, UploadRefused, UploadOfOtherBytes, NextUpload,
           Reconcile, Finish, Faults, CreateFails, UploadBreaks, RunBreaks, SourceFails,
           Tidy, Cleanup, RemoveStrayDraft, Land, Settle, LandDraft, Publish, SourceReturns
  <2>2. QED BY <2>1, HomeFacts DEF IInv, RunInv, Active
<1>2. QED BY <1>1, Invariant, PTL DEF Spec, WritesOnlyToCleanPlans

=============================================================================
