---------------------------- MODULE PromotionProofs ----------------------------
(***************************************************************************)
(* What the rolling promotion guarantees for every set of releases and     *)
(* every interleaving of runs, maintainers and upstream releases.          *)
(***************************************************************************)
EXTENDS Promotion, TLAPS

\* A commit ID that the branch does not have and the run has not seen exists.
LEMMA FreshOidIsFresh ==
    ASSUME TypeOK
    PROVE  FreshOid \in Oids /\ FreshOid \notin {branch.oid, run.observed, run.fetched}
<1>1. {branch.oid, run.observed, run.fetched} \subseteq Oids \cup {NoOid}
  BY DEF TypeOK, Branch, Run
<1>2. \E oid \in Oids : oid \notin {branch.oid, run.observed, run.fetched}
  BY <1>1, PromotionAssumption
<1>3. QED BY <1>2 DEF FreshOid

\* The empty commit, branch and run have the types of real ones.
LEMMA EmptyTypes ==
    /\ NoCommit \in Commit
    /\ NoBranch \in Branch
    /\ NoRun \in Run
BY DEF NoCommit, NoBranch, NoRun, Commit, Branch, Run, Rendering, Phases

-----------------------------------------------------------------------------
(* Type correctness.                                                        *)

\* The initial state is well typed.
LEMMA InitType == Init => TypeOK
BY EmptyTypes, BoundsAssumption DEF Init, TypeOK, PullRequest

\* Upstream and maintainers keep the types.
LEMMA OthersType == TypeOK /\ Others => TypeOK'
<1> SUFFICES ASSUME TypeOK, Others PROVE TypeOK'
  OBVIOUS
<1>1. CASE \/ \E r \in Releases : \E state \in {"valid", "defective"} : PublishRelease(r, state)
           \/ \E r \in Releases : WithdrawRelease(r)
  BY <1>1 DEF PublishRelease, WithdrawRelease, TypeOK
<1>2. CASE ChangePolicy
  <2>1. main' \in Commit
    <3>1. main.oid + 1 \in Nat /\ main.policy + 1 \in Nat
      BY DEF TypeOK, Commit
    <3>2. QED BY <1>2, <3>1 DEF ChangePolicy, TypeOK, Commit
  <2>2. QED BY <1>2, <2>1 DEF ChangePolicy, TypeOK
<1>3. CASE Merge
  <2>1. main' \in Commit
    <3>1. /\ main.oid + 1 \in Nat
          /\ branch.records \in SUBSET Releases /\ branch.rendered \in Rendering
      BY DEF TypeOK, Commit, Branch
    <3>2. QED BY <1>3, <3>1 DEF Merge, TypeOK, Commit
  <2>2. pr' \in PullRequest /\ branch' \in Branch
    BY <1>3, EmptyTypes DEF Merge, TypeOK, PullRequest
  <2>3. QED BY <1>3, <2>1, <2>2 DEF Merge, TypeOK
<1>4. ASSUME NEW clean \in BOOLEAN, PushToBranch(clean) PROVE TypeOK'
  <2>1. branch' \in Branch
    BY <1>4, FreshOidIsFresh DEF PushToBranch, TypeOK, Branch, Commit
  <2>2. QED BY <1>4, <2>1, BoundsAssumption DEF PushToBranch, Event, TypeOK
<1>5. CASE DeleteBranch \/ TogglePullRequest
  <2>1. pr' \in PullRequest /\ branch' \in Branch
    BY <1>5, EmptyTypes DEF DeleteBranch, TogglePullRequest, TypeOK, PullRequest
  <2>2. events' \in 0..MaxEvents
    BY <1>5, BoundsAssumption DEF DeleteBranch, TogglePullRequest, Event, TypeOK
  <2>3. QED BY <1>5, <2>1, <2>2 DEF DeleteBranch, TogglePullRequest, Event, TypeOK
<1>6. CASE StartElsewhere
  <2>1. run' \in Run
    BY <1>6 DEF StartElsewhere, TypeOK, Run, Phases
  <2>2. events' \in 0..MaxEvents
    BY <1>6, BoundsAssumption DEF StartElsewhere, Event, TypeOK
  <2>3. QED BY <1>6, <2>1, <2>2 DEF StartElsewhere, Event, TypeOK
<1>7. QED BY <1>1, <1>2, <1>3, <1>4, <1>5, <1>6 DEF Others

\* The steps of a run keep the types.
LEMMA RunType == TypeOK /\ (RunNext \/ CommandFails) => TypeOK'
<1> SUFFICES ASSUME TypeOK, RunNext \/ CommandFails PROVE TypeOK'
  OBVIOUS
<1> USE DEF RunStep, Goto, Stop
<1>1. CASE Start \/ Observe \/ FetchMain
  BY <1>1 DEF Start, Observe, FetchMain, TypeOK, Run, Branch, Phases
<1>2. CASE FetchBranch \/ Checkout \/ Apply
  <2>1. CASE FetchBranch
    <3>1. run' \in Run
      BY <2>1, EmptyTypes DEF FetchBranch, TypeOK, Run, Branch, Phases
    <3>2. QED BY <2>1, <3>1 DEF FetchBranch, TypeOK
  <2>2. CASE Checkout
    <3>1. run' \in Run
      BY <2>2, EmptyTypes DEF Checkout, TypeOK, Run, Phases
    <3>2. QED BY <2>2, <3>1 DEF Checkout, TypeOK
  <2>3. CASE Apply
    <3>1. run' \in Run
      BY <2>3, EmptyTypes DEF Apply, TypeOK, Run, Phases
    <3>2. QED BY <2>3, <3>1 DEF Apply, TypeOK
  <2>4. QED BY <1>2, <2>1, <2>2, <2>3
<1>3. CASE Gather
  <2>1. Published("valid") \in SUBSET Releases /\ Published("defective") \in SUBSET Releases
    BY DEF Published
  <2>2. Published("valid") \ run.base.records \in SUBSET Releases
    BY <2>1
  <2>3. Published("defective") \ run.base.records \in SUBSET Releases
    BY <2>1
  <2>4. run' \in Run
    BY <1>3, <2>2, <2>3, EmptyTypes DEF Gather, TypeOK, Run, Phases
  <2>5. QED BY <1>3, <2>4 DEF Gather, TypeOK
<1>4. CASE Push
  <2>1. Rendered \in Rendering
    BY DEF Rendered, Rendering, TypeOK, Run, Commit
  <2>2. branch' \in Branch
    BY <1>4, <2>1, FreshOidIsFresh DEF Push, TypeOK, Branch, Run, Commit
  <2>3. QED BY <1>4, <2>2 DEF Push, TypeOK, Run, Phases
<1>5. CASE Delete \/ NothingToDelete \/ LeaseLost \/ ListPullRequests
  BY <1>5, EmptyTypes DEF Delete, NothingToDelete, LeaseLost, ListPullRequests, TypeOK,
     Run, PullRequest, Phases
<1>6. CASE EditPullRequest \/ CreatePullRequest \/ ClosePullRequests
  <2>1. pr' \in PullRequest
    <3>1. run.gathered \in SUBSET Releases /\ run.rejected \in SUBSET Releases
      BY DEF TypeOK, Run
    <3>2. ASSUME EditPullRequest PROVE pr' \in PullRequest
      BY <3>1, <3>2 DEF EditPullRequest, TypeOK, PullRequest
    <3>3. ASSUME CreatePullRequest PROVE pr' \in PullRequest
      <4>1. CASE branch # NoBranch /\ ~pr.open
        <5>1. pr' = [open |-> TRUE, added |-> run.gathered, rejected |-> run.rejected]
          BY <3>3, <4>1 DEF CreatePullRequest
        <5>2. QED BY <3>1, <5>1 DEF PullRequest
      <4>2. CASE ~(branch # NoBranch /\ ~pr.open)
        BY <3>3, <4>2 DEF CreatePullRequest, TypeOK
      <4>3. QED BY <4>1, <4>2
    <3>4. ASSUME ClosePullRequests PROVE pr' \in PullRequest
      BY <3>4 DEF ClosePullRequests, TypeOK, PullRequest
    <3>5. QED BY <1>6, <3>2, <3>3, <3>4
  <2>2. run' = NoRun
    BY <1>6 DEF EditPullRequest, CreatePullRequest, ClosePullRequests
  <2>3. QED
    BY <1>6, <2>1, <2>2, EmptyTypes DEF EditPullRequest, CreatePullRequest,
       ClosePullRequests, TypeOK
<1>7. CASE CommandFails
  BY <1>7, EmptyTypes, BoundsAssumption DEF CommandFails, TypeOK
<1>8. QED BY <1>1, <1>2, <1>3, <1>4, <1>5, <1>6, <1>7 DEF RunNext

\* Every step keeps the types.
LEMMA NextType == TypeOK /\ [Next]_vars => TypeOK'
<1>1. TypeOK /\ UNCHANGED vars => TypeOK'
  BY DEF vars, TypeOK
<1>2. QED BY <1>1, OthersType, RunType DEF Next

\* Every state of every behaviour is well typed.
THEOREM TypeCorrect == Spec => []TypeOK
BY InitType, NextType, PTL DEF Spec

-----------------------------------------------------------------------------
(* The inductive invariant.                                                 *)

\* Nothing is promoted at the start.
LEMMA InvInit == Init => IInv
<1> SUFFICES ASSUME Init PROVE IInv
  OBVIOUS
<1>1. TypeOK
  BY InitType
<1>2. Composes({})
  BY PromotionAssumption DEF Composes
<1>3. ConsistentInv /\ BaseInv /\ LeaseInv /\ RecordsInv
  BY <1>2 DEF Init, ConsistentInv, Consistent, BaseInv, LeaseInv, RecordsInv, NoBranch,
     NoCommit, NoRun, Based, Inspected, Gathered
<1>4. QED BY <1>1, <1>3 DEF IInv

\* The empty branch holds nothing, so it is consistent.
LEMMA NoBranchFacts ==
    /\ NoBranch.oid = NoOid /\ NoBranch.clean /\ NoBranch.records = {}
    /\ NoBranch.base.records = {}
    /\ Consistent(NoBranch)
BY PromotionAssumption DEF NoBranch, NoCommit, Consistent, Composes

\* Releases come and go without touching what was promoted.
LEMMA InvUpstream ==
    ASSUME IInv, TypeOK', NEW r \in Releases,
           (\E state \in {"valid", "defective"} : PublishRelease(r, state)) \/ WithdrawRelease(r)
    PROVE  IInv'
<1>1. ConsistentInv' /\ BaseInv' /\ LeaseInv'
  <2>1. main' = main /\ branch' = branch /\ run' = run
    BY DEF PublishRelease, WithdrawRelease
  <2>2. QED BY <2>1 DEF IInv, ConsistentInv, Consistent, BaseInv, LeaseInv
<1>2. RecordsInv'
  <2>1. \A q \in Releases : /\ upstream[q] = "valid" => upstream'[q] \in {"valid", "withdrawn"}
                            /\ upstream[q] = "withdrawn" => upstream'[q] = "withdrawn"
    BY DEF PublishRelease, WithdrawRelease, IInv, TypeOK
  <2>2. /\ main.records \subseteq Releases /\ branch.records \subseteq Releases
        /\ run.gathered \subseteq Releases
    BY DEF IInv, TypeOK, Commit, Branch, Run
  <2>3. main' = main /\ branch' = branch /\ run' = run
    BY DEF PublishRelease, WithdrawRelease
  <2>4. QED BY <2>1, <2>2, <2>3 DEF IInv, RecordsInv
<1>3. QED BY <1>1, <1>2 DEF IInv

\* A change of main is newer than every base.
LEMMA InvChangePolicy ==
    ASSUME IInv, TypeOK', ChangePolicy
    PROVE  IInv'
<1>1. /\ main'.oid = main.oid + 1 /\ main'.records = main.records
      /\ main'.rendered = main.rendered
  BY DEF ChangePolicy, IInv, TypeOK, Commit
<1>2. main.oid \in Nat /\ run.base.oid \in Nat
  BY DEF IInv, TypeOK, Commit, Run
<1>3. ConsistentInv'
  BY <1>1 DEF ChangePolicy, IInv, ConsistentInv, Consistent
<1>4. BaseInv'
  BY <1>1, <1>2 DEF ChangePolicy, IInv, BaseInv
<1>5. LeaseInv' /\ RecordsInv'
  BY <1>1 DEF ChangePolicy, IInv, LeaseInv, RecordsInv
<1>6. QED BY <1>3, <1>4, <1>5 DEF IInv

\* A merge brings the branch's records and what was rendered from them.
LEMMA InvMerge ==
    ASSUME IInv, TypeOK', Merge
    PROVE  IInv'
<1>1. /\ main'.oid = main.oid + 1 /\ main'.records = branch.records
      /\ main'.rendered = branch.rendered
      /\ main.records \subseteq branch.records
  BY DEF Merge, IInv, TypeOK, Commit, ConsistentInv
<1>2. main.oid \in Nat /\ run.base.oid \in Nat
  BY DEF IInv, TypeOK, Commit, Run
<1>3. branch' = branch \/ branch' = NoBranch
  BY DEF Merge
<1>4. ConsistentInv'
  BY <1>1, <1>3, NoBranchFacts DEF Merge, IInv, ConsistentInv, Consistent
<1>5. BaseInv'
  BY <1>1, <1>2 DEF Merge, IInv, BaseInv
<1>6. LeaseInv'
  BY <1>3, NoBranchFacts DEF Merge, IInv, LeaseInv
<1>7. RecordsInv'
  BY <1>1, <1>3, NoBranchFacts DEF Merge, IInv, RecordsInv
<1>8. QED BY <1>4, <1>5, <1>6, <1>7 DEF IInv

\* A maintainer's push has an ID the run has not seen.
LEMMA InvPushToBranch ==
    ASSUME IInv, TypeOK', NEW clean \in BOOLEAN, PushToBranch(clean)
    PROVE  IInv'
<1>1. FreshOid \in Oids /\ FreshOid \notin {branch.oid, run.observed, run.fetched}
  BY FreshOidIsFresh DEF IInv
<1>2. /\ branch'.oid = FreshOid /\ branch'.base = main /\ branch'.records = main.records
      /\ branch'.rendered = main.rendered
  BY DEF PushToBranch
<1>3. ConsistentInv' /\ BaseInv'
  BY <1>2 DEF PushToBranch, Event, IInv, ConsistentInv, Consistent, BaseInv
<1>4. LeaseInv' /\ RecordsInv'
  BY <1>1, <1>2, PromotionAssumption DEF PushToBranch, Event, IInv, LeaseInv, RecordsInv
<1>5. QED BY <1>3, <1>4 DEF IInv

\* A deleted branch, or another state of the pull request.
LEMMA InvBranchAndPullRequest ==
    ASSUME IInv, TypeOK', DeleteBranch \/ TogglePullRequest
    PROVE  IInv'
<1>1. /\ branch' = branch \/ branch' = NoBranch
      /\ main' = main /\ run' = run /\ upstream' = upstream
  BY DEF DeleteBranch, TogglePullRequest, Event
<1>2. ConsistentInv' /\ BaseInv'
  BY <1>1, NoBranchFacts DEF IInv, ConsistentInv, Consistent, BaseInv
<1>3. LeaseInv' /\ RecordsInv'
  BY <1>1, NoBranchFacts DEF IInv, LeaseInv, RecordsInv
<1>4. QED BY <1>2, <1>3 DEF IInv

-----------------------------------------------------------------------------

\* A run that begins, or ends, holds nothing.
LEMMA InvRunBoundary ==
    ASSUME IInv, TypeOK', UNCHANGED <<upstream, main, branch>>,
           \/ run' = NoRun
           \/ /\ run.phase = "idle" /\ run'.phase = "observe"
              /\ run'.observed = run.observed /\ run'.fetched = run.fetched
    PROVE  IInv'
<1>1. run'.phase \notin Based \cup Inspected \cup Gathered
  BY DEF NoRun, Based, Inspected, Gathered
<1>2. ConsistentInv' /\ BaseInv' /\ RecordsInv'
  BY <1>1 DEF IInv, ConsistentInv, Consistent, BaseInv, RecordsInv, Based, Inspected,
     Gathered
<1>3. LeaseInv'
  BY <1>1, NoBranchFacts DEF IInv, LeaseInv, NoRun
<1>4. QED BY <1>2, <1>3 DEF IInv

\* Observing the branch and fetching main.
LEMMA InvObserve ==
    ASSUME IInv, TypeOK', Observe \/ FetchMain
    PROVE  IInv'
<1> USE DEF RunStep, Based, Inspected, Gathered
<1>1. CASE Observe
  <2>1. run'.phase = "main" /\ run'.observed = branch.oid /\ run'.fetched = run.fetched
    BY <1>1 DEF Observe, IInv, TypeOK, Run
  <2>2. run.fetched = NoOid
    BY <1>1 DEF Observe, IInv, LeaseInv
  <2>3. ConsistentInv' /\ BaseInv' /\ RecordsInv'
    BY <1>1, <2>1 DEF Observe, IInv, ConsistentInv, Consistent, BaseInv, RecordsInv
  <2>4. LeaseInv'
    BY <1>1, <2>1, <2>2 DEF Observe, IInv, LeaseInv
  <2>5. QED BY <2>3, <2>4 DEF IInv
<1>2. CASE FetchMain
  <2>1. /\ run'.phase \in {"gather", "branch"} /\ run'.base = main
        /\ run'.observed = run.observed /\ run'.fetched = run.fetched
        /\ run'.phase = "gather" <=> run.observed = NoOid
    BY <1>2 DEF FetchMain, IInv, TypeOK, Run
  <2>2. main.oid \in Nat
    BY DEF IInv, TypeOK, Commit
  <2>3. ConsistentInv' /\ BaseInv' /\ RecordsInv'
    BY <1>2, <2>1, <2>2 DEF FetchMain, IInv, ConsistentInv, Consistent, BaseInv, RecordsInv
  <2>4. LeaseInv'
    BY <1>2, <2>1 DEF FetchMain, IInv, LeaseInv
  <2>5. QED BY <2>3, <2>4 DEF IInv
<1>3. QED BY <1>1, <1>2

\* The branch fetched is the one the paths of which are checked.
LEMMA InvFetchBranch ==
    ASSUME IInv, TypeOK', FetchBranch
    PROVE  IInv'
<1>1. CASE run' = NoRun
  BY <1>1, InvRunBoundary DEF FetchBranch, RunStep, Stop
<1>2. CASE run' # NoRun
  <2>1. /\ run.phase = "branch" /\ branch.clean
        /\ branch # NoBranch /\ branch' = branch
        /\ run' = [run EXCEPT !.phase = "gather", !.fetched = branch.oid]
    BY <1>2 DEF FetchBranch, Stop
  <2>2. /\ run'.phase = "gather" /\ run'.fetched = branch.oid
        /\ run'.base = run.base /\ run'.observed = run.observed
    BY <2>1 DEF IInv, TypeOK, Run
  <2>3. ConsistentInv' /\ BaseInv' /\ RecordsInv'
    BY <2>1, <2>2 DEF FetchBranch, RunStep, IInv, ConsistentInv, Consistent, BaseInv,
       RecordsInv, Based, Gathered
  <2>4. LeaseInv'
    <3>1. branch.oid # NoOid /\ run.observed # NoOid
      BY <2>1 DEF IInv, LeaseInv
    <3>2. QED BY <2>1, <2>2, <3>1 DEF IInv, LeaseInv
  <2>5. QED BY <2>3, <2>4 DEF IInv
<1>3. QED BY <1>1, <1>2

\* What is gathered is every valid release the base lacks.
LEMMA InvGather ==
    ASSUME IInv, TypeOK', Gather
    PROVE  IInv'
<1>1. CASE run' = NoRun
  BY <1>1, InvRunBoundary DEF Gather, RunStep, Stop
<1>2. CASE run' # NoRun
  <2> DEFINE gathered == Published("valid") \ run.base.records
  <2>1. /\ run.phase = "gather" /\ branch' = branch
        /\ Composes(run.base.records \cup gathered)
        /\ run' = [run EXCEPT !.phase = "checkout", !.gathered = gathered,
                              !.rejected = Published("defective") \ run.base.records]
    BY <1>2 DEF Gather, Stop
  <2>2. /\ run'.phase = "checkout" /\ run'.gathered = gathered
        /\ run'.base = run.base /\ run'.observed = run.observed
        /\ run'.fetched = run.fetched
    BY <2>1 DEF IInv, TypeOK, Run
  <2>3. ConsistentInv' /\ BaseInv'
    BY <2>1, <2>2 DEF Gather, RunStep, IInv, ConsistentInv, Consistent, BaseInv, Based,
       Gathered
  <2>4. LeaseInv'
    BY <2>1, <2>2 DEF Gather, RunStep, IInv, LeaseInv, Inspected
  <2>5. \A r \in gathered : upstream[r] = "valid"
    BY DEF Published
  <2>6. \A r \in branch.records : r \in run.base.records \cup gathered \/ upstream[r] = "withdrawn"
    BY DEF IInv, RecordsInv, Published, TypeOK, Branch
  <2>7. RecordsInv'
    <3> HIDE DEF gathered
    <3>1. QED BY <2>1, <2>2, <2>5, <2>6 DEF Gather, RunStep, IInv, RecordsInv
  <2>8. QED BY <2>3, <2>4, <2>7 DEF IInv
<1>3. QED BY <1>1, <1>2

\* The publish job goes on only if main is still the base.
LEMMA InvCheckoutApply ==
    ASSUME IInv, TypeOK', Checkout \/ Apply
    PROVE  IInv'
<1>1. CASE run' = NoRun
  BY <1>1, InvRunBoundary DEF Checkout, Apply, RunStep, Stop, Goto, NoRun, IInv, TypeOK, Run
<1>2. CASE run' # NoRun
  <2>1. CASE Checkout
    <3>1. /\ run.phase = "checkout" /\ branch' = branch
          /\ run' = [run EXCEPT !.phase = "apply", !.head = main]
      BY <1>2, <2>1 DEF Checkout, Stop
    <3>2. /\ run'.phase = "apply" /\ run'.head = main
          /\ run'.gathered = run.gathered
          /\ run'.base = run.base /\ run'.observed = run.observed
          /\ run'.fetched = run.fetched
      BY <3>1 DEF IInv, TypeOK, Run
    <3>3. ConsistentInv' /\ BaseInv'
      BY <2>1, <3>1, <3>2 DEF Checkout, RunStep, IInv, ConsistentInv, Consistent,
         BaseInv, Based, Gathered
    <3>4. LeaseInv' /\ RecordsInv'
      BY <2>1, <3>1, <3>2 DEF Checkout, RunStep, IInv, LeaseInv, RecordsInv, Inspected,
         Gathered
    <3>5. QED BY <3>3, <3>4 DEF IInv
  <2>2. CASE Apply
    <3>1. /\ run.phase = "apply" /\ run.head.oid = run.base.oid /\ branch' = branch
          /\ run' = [run EXCEPT !.phase = "write"]
      BY <1>2, <2>2 DEF Apply, Goto, Stop
    <3>2. /\ run'.phase = "write" /\ run'.head = run.head
          /\ run'.gathered = run.gathered
          /\ run'.base = run.base /\ run'.observed = run.observed
          /\ run'.fetched = run.fetched
      BY <3>1 DEF IInv, TypeOK, Run
    <3>3. ConsistentInv' /\ BaseInv'
      BY <2>2, <3>1, <3>2 DEF Apply, RunStep, IInv, ConsistentInv, Consistent,
         BaseInv, Based, Gathered
    <3>4. LeaseInv' /\ RecordsInv'
      BY <2>2, <3>1, <3>2 DEF Apply, RunStep, IInv, LeaseInv, RecordsInv, Inspected,
         Gathered
    <3>5. QED BY <3>3, <3>4 DEF IInv
  <2>3. QED BY <2>1, <2>2
<1>3. QED BY <1>1, <1>2

\* The pushed commit holds the base's records and what was gathered.
LEMMA InvPush ==
    ASSUME IInv, TypeOK', Push
    PROVE  IInv'
<1>1. FreshOid \in Oids /\ FreshOid \notin {branch.oid, run.observed, run.fetched}
  BY FreshOidIsFresh DEF IInv
<1>2. /\ run.phase = "write" /\ run'.phase = "list"
      /\ run'.observed = run.observed /\ run'.fetched = run.fetched
  BY DEF Push, Goto, IInv, TypeOK, Run
<1>3. run.head = run.base
  BY <1>2 DEF IInv, BaseInv
<1>4. /\ branch'.oid = FreshOid /\ branch'.clean /\ branch'.base = run.base
      /\ branch'.records = run.base.records \cup run.gathered
      /\ branch'.rendered.records = run.base.records \cup run.gathered
  BY <1>3 DEF Push, Rendered
<1>5. ConsistentInv' /\ BaseInv'
  BY <1>2, <1>4 DEF Push, RunStep, IInv, ConsistentInv, Consistent, BaseInv, Based, Gathered
<1>6. LeaseInv'
  BY <1>1, <1>2, <1>4, PromotionAssumption DEF IInv, LeaseInv, Inspected
<1>7. RecordsInv'
  <2>1. run.base.records \subseteq main.records
    BY <1>2 DEF IInv, BaseInv, Based
  <2>2. QED BY <1>2, <1>4, <2>1 DEF Push, RunStep, IInv, RecordsInv, Gathered
<1>8. QED BY <1>5, <1>6, <1>7 DEF IInv

\* Deleting the branch, or only the pull request, and listing pull requests.
LEMMA InvDelete ==
    ASSUME IInv, TypeOK', Delete \/ NothingToDelete \/ ListPullRequests
    PROVE  IInv'
<1>1. /\ run.phase \in {"write", "list"} /\ run'.phase \in {"close", "edit", "create"}
      /\ run'.observed = run.observed /\ run'.fetched = run.fetched
  BY DEF Delete, NothingToDelete, ListPullRequests, Goto, IInv, TypeOK, Run
<1>2. /\ main' = main /\ upstream' = upstream
      /\ branch' = branch \/ branch' = NoBranch
  BY DEF Delete, NothingToDelete, ListPullRequests, RunStep
<1>3. ConsistentInv' /\ BaseInv' /\ RecordsInv'
  BY <1>1, <1>2, NoBranchFacts DEF IInv, ConsistentInv, Consistent, BaseInv, RecordsInv,
     Based, Gathered
<1>4. LeaseInv'
  BY <1>1, <1>2, NoBranchFacts DEF IInv, LeaseInv, Inspected
<1>5. QED BY <1>3, <1>4 DEF IInv

\* Starting a run, and every way it ends.
LEMMA InvStartStop ==
    ASSUME IInv, TypeOK',
           \/ Start \/ StartElsewhere \/ LeaseLost \/ EditPullRequest
           \/ CreatePullRequest \/ ClosePullRequests \/ CommandFails
    PROVE  IInv'
<1> USE DEF RunStep, Stop, Goto, Event
<1>1. CASE Start \/ StartElsewhere
  <2>1. /\ run.phase = "idle" /\ run'.phase = "observe"
        /\ run'.observed = run.observed /\ run'.fetched = run.fetched
    BY <1>1 DEF Start, StartElsewhere, IInv, TypeOK, Run
  <2>2. QED BY <1>1, <2>1, InvRunBoundary DEF Start, StartElsewhere
<1>2. CASE LeaseLost \/ EditPullRequest \/ CreatePullRequest \/ ClosePullRequests \/ CommandFails
  BY <1>2, InvRunBoundary DEF LeaseLost, EditPullRequest, CreatePullRequest,
     ClosePullRequests, CommandFails
<1>3. QED BY <1>1, <1>2

\* Every step preserves the invariant.
LEMMA InvNext == IInv /\ [Next]_vars => IInv'
<1> SUFFICES ASSUME IInv, [Next]_vars PROVE IInv'
  OBVIOUS
<1>1. TypeOK'
  BY NextType DEF IInv
<1>2. CASE Others
  BY <1>1, <1>2, InvUpstream, InvChangePolicy, InvMerge, InvPushToBranch,
     InvBranchAndPullRequest, InvStartStop DEF Others
<1>3. CASE RunNext
  BY <1>1, <1>3, InvStartStop, InvObserve, InvFetchBranch, InvGather, InvCheckoutApply,
     InvPush, InvDelete DEF RunNext
<1>4. CASE CommandFails
  BY <1>1, <1>4, InvStartStop
<1>5. CASE UNCHANGED vars
  BY <1>1, <1>5 DEF vars, IInv, ConsistentInv, Consistent, BaseInv, LeaseInv, RecordsInv
<1>6. QED BY <1>2, <1>3, <1>4, <1>5 DEF Next

-----------------------------------------------------------------------------
(* The theorems.                                                            *)

\* The inductive invariant holds throughout.
THEOREM Invariant == Spec => []IInv
BY InvInit, InvNext, PTL DEF Spec

\* Main always serves the composition of exactly the records it holds, whatever
\* runs, merges and other changes interleave.
THEOREM MainAlwaysServesItsRecords == Spec => []MainServesItsRecords
<1>1. IInv => MainServesItsRecords
  BY DEF IInv, ConsistentInv, Consistent, MainServesItsRecords
<1>2. QED BY <1>1, Invariant, PTL

\* Releases that contest each other never reach main together.
THEOREM MainAlwaysComposes == Spec => []MainComposes
<1>1. IInv => MainComposes
  BY DEF IInv, ConsistentInv, Consistent, MainComposes
<1>2. QED BY <1>1, Invariant, PTL

\* A step of the run that changes the branch is a push or a deletion under the
\* lease.
LEMMA WritesUnderLease ==
    ASSUME IInv, [Next]_vars, RunWrites
    PROVE  /\ LeaseHolds
           /\ Push \/ (Delete /\ ~Changed)
<1>1. run.phase = "write" /\ branch' # branch /\ run' # run
  BY DEF RunWrites
<1>2. ~Others
  BY <1>1 DEF Others, PublishRelease, WithdrawRelease, ChangePolicy, Merge, PushToBranch,
     DeleteBranch, TogglePullRequest, StartElsewhere, Event
<1>3. ~CommandFails /\ ~UNCHANGED vars
  BY <1>1 DEF CommandFails, Stop, vars
<1>4. QED
  BY <1>1, <1>2, <1>3 DEF Next, RunNext, Start, Observe, FetchMain, FetchBranch, Gather,
     Checkout, Apply, Push, Delete, NothingToDelete, LeaseLost, ListPullRequests,
     EditPullRequest, CreatePullRequest, ClosePullRequests, Stop, Goto

\* Work outside the generated paths is never overwritten or deleted by a run,
\* however pushes interleave with observing, fetching and pushing.
THEOREM CheckedWorkOnly == Spec => OnlyCheckedWorkIsReplaced
<1>1. IInv /\ [Next]_vars =>
        (RunWrites /\ branch # NoBranch => branch.clean /\ branch.oid = run.fetched)
  <2> SUFFICES ASSUME IInv, [Next]_vars, RunWrites, branch # NoBranch
               PROVE  branch.clean /\ branch.oid = run.fetched
    OBVIOUS
  <2>1. branch.oid = run.observed /\ run.phase = "write"
    BY WritesUnderLease DEF LeaseHolds, RunWrites
  <2>2. QED BY <2>1 DEF IInv, LeaseInv, Inspected
<1>2. QED BY <1>1, Invariant, PTL DEF Spec, OnlyCheckedWorkIsReplaced

\* Rebuilding the candidate never loses a release that is still there upstream.
THEOREM ReleasesSurvive == Spec => NoReleaseIsDropped
<1> DEFINE Survive ==
      RunWrites => \A r \in branch.records :
          r \in branch'.records \cup main.records \/ upstream[r] = "withdrawn"
<1>1. IInv /\ [Next]_vars => Survive
  <2> SUFFICES ASSUME IInv, [Next]_vars, RunWrites, NEW r \in branch.records
               PROVE  r \in branch'.records \cup main.records \/ upstream[r] = "withdrawn"
    OBVIOUS
  <2>1. branch.oid = run.observed /\ run.phase = "write"
    BY WritesUnderLease DEF LeaseHolds, RunWrites
  <2>2. r \in run.base.records \cup run.gathered \/ upstream[r] = "withdrawn"
    BY <2>1 DEF IInv, RecordsInv, Gathered
  <2>3. run.base.records \subseteq main.records /\ run.head = run.base
    BY <2>1 DEF IInv, BaseInv, Based
  <2>4. CASE Push
    BY <2>2, <2>3, <2>4 DEF Push
  <2>5. CASE ~Changed
    BY <2>2, <2>3, <2>5 DEF Changed
  <2>6. QED BY <2>4, <2>5, WritesUnderLease
<1>2. QED BY <1>1, Invariant, PTL DEF Spec, NoReleaseIsDropped

=============================================================================
