----------------------------- MODULE NativeProofs -----------------------------
(***************************************************************************)
(* What the native repositories guarantee for every set of packages and    *)
(* subkeys and every order of pull requests.                               *)
(***************************************************************************)
EXTENDS NativePackages, TLAPS

-----------------------------------------------------------------------------
(* Type correctness.                                                        *)

\* A tree stays one when records are rendered into it.
LEMMA RenderedType == TypeOK => Rendered \in Tree
BY DEF TypeOK, Rendered, Gathered, Tree

\* Signing a tree with the secret yields a tree.
LEMMA CandidateType ==
    ASSUME TypeOK, artifact \notin {None, Stale}
    PROVE  Candidate \in Tree
<1>1. artifact \in Tree
  BY DEF TypeOK
<1>2. Signed(artifact) \in [over: SUBSET Packages, by: Subkeys]
  BY <1>1 DEF Signed, TypeOK, Tree
<1>3. QED BY <1>1, <1>2 DEF Candidate, Tree

\* Other inputs, taken from a tree or a pull request, make a tree.
LEMMA InputsType ==
    ASSUME NEW t \in Tree, NEW yanked \in SUBSET Packages,
           NEW c \in [Subkeys -> {"absent", "valid", "revoked"}]
    PROVE  [t EXCEPT !.yanked = yanked, !.certificate = c] \in Tree
BY DEF Tree

\* Every step keeps the types.
LEMMA NextType == TypeOK /\ [Next]_vars => TypeOK'
<1> SUFFICES ASSUME TypeOK, [Next]_vars PROVE TypeOK'
  OBVIOUS
<1>1. CASE Render
  BY <1>1, RenderedType DEF Render, TypeOK
<1>2. CASE Publish
  <2>1. Candidate \in Tree
    BY <1>2, CandidateType DEF Publish, Publishable
  <2>2. QED BY <1>2, <2>1 DEF Publish, TypeOK
<1>3. CASE PublishFails
  BY <1>3 DEF PublishFails, TypeOK
<1>4. CASE MergePromotion
  <2>1. branch \in Tree
    BY <1>4 DEF MergePromotion, TypeOK
  <2>2. main.yanked \in SUBSET Packages
        /\ main.certificate \in [Subkeys -> {"absent", "valid", "revoked"}]
    BY DEF TypeOK, Tree
  <2>3. main' \in Tree
    BY <1>4, <2>1, <2>2, InputsType DEF MergePromotion
  <2>4. main'.indexed \subseteq Packages
    BY <2>3 DEF Tree
  <2>5. QED BY <1>4, <2>3, <2>4 DEF MergePromotion, MainMoves, TypeOK
<1>5. ASSUME NEW yanked \in SUBSET (Gathered \cup main.yanked), NEW c \in Certificates,
             ChangeInputs(yanked, c)
      PROVE  TypeOK'
  <2>1. yanked \in SUBSET Packages /\ c \in [Subkeys -> {"absent", "valid", "revoked"}]
    BY DEF Gathered, Certificates, TypeOK, Tree
  <2>2. main' \in Tree
    BY <1>5, <2>1, InputsType DEF ChangeInputs, TypeOK
  <2>3. QED BY <1>5, <2>2 DEF ChangeInputs, MainMoves, TypeOK
<1>6. ASSUME NEW p \in Packages, Release(p) \/ DeleteRelease(p) PROVE TypeOK'
  BY <1>6 DEF Release, DeleteRelease, TypeOK
<1>7. ASSUME NEW k \in Subkeys, SetSecret(k) PROVE TypeOK'
  BY <1>7 DEF SetSecret, TypeOK
<1>8. CASE UNCHANGED vars
  BY <1>8 DEF vars, TypeOK
<1>9. QED BY <1>1, <1>2, <1>3, <1>4, <1>5, <1>6, <1>7, <1>8 DEF Next, Changes

\* The bootstrapped repositories have the types.
LEMMA InitType == Init => TypeOK
BY NativeAssumption DEF Init, TypeOK, Tree

\* Every variable keeps its type.
THEOREM TypeCorrect == Spec => []TypeOK
BY InitType, NextType, PTL DEF Spec

-----------------------------------------------------------------------------
(* The invariant, step by step.                                             *)

\* The bootstrapped repositories satisfy it.
LEMMA InitInv == Init => IInv
<1> SUFFICES ASSUME Init PROVE IInv
  OBVIOUS
<1>1. TypeOK
  BY InitType
<1>2. MainInv
  BY DEF Init, MainInv, Contested, ValidStructure, ValidIndexes, ValidLock, ValidRetained
<1>3. CandidatesInv /\ ServedInv
  BY DEF Init, CandidatesInv, ServedInv
<1>4. QED BY <1>1, <1>2, <1>3 DEF IInv

\* What can be rendered adds to main without forging or bringing back anything.
LEMMA RenderExtends == ASSUME IInv, Renderable PROVE Extends(Rendered)
<1>1. /\ Rendered.records = Gathered
      /\ Rendered.stored = main.stored \cup Gathered
      /\ Rendered.lock = Gathered \ main.yanked
  BY DEF Rendered, IInv, TypeOK, Tree
<1>2. main.records = main.stored /\ main.records \subseteq Gathered
  BY DEF IInv, MainInv, Gathered
<1>3. ~Contested(Rendered.stored)
  <2>1. Rendered.stored = Gathered \cup main.stored
    BY <1>1
  <2>2. QED BY <2>1 DEF Renderable
<1>4. ASSUME NEW p \in Gathered \ main.yanked PROVE p \notin Forged
  <2>1. CASE p \in main.stored
    BY <2>1, <1>2, <1>4 DEF IInv, MainInv, ValidStructure, ValidIndexes, ValidLock
  <2>2. CASE p \notin main.stored
    BY <2>2, <1>4 DEF Renderable, Inspected
  <2>3. QED BY <2>1, <2>2
<1>5. Rendered.lock \cap main.records \subseteq main.lock
  BY <1>1 DEF IInv, MainInv, ValidStructure, ValidIndexes, ValidLock
<1>6. QED BY <1>1, <1>2, <1>3, <1>4, <1>5 DEF Extends

\* Rendering and publishing leave main alone and pass on what extends it.
LEMMA JobsInv ==
    ASSUME IInv, Render \/ Publish \/ PublishFails
    PROVE  MainInv' /\ CandidatesInv' /\ ServedInv'
<1>1. UNCHANGED <<main, served>>
  BY DEF Render, Publish, PublishFails
<1>2. MainInv' /\ ServedInv'
  BY <1>1 DEF IInv, MainInv, ServedInv, Contested, ValidStructure, ValidIndexes, ValidLock,
              ValidRetained, Trusted, Current
<1>3. (branch # None => Extends(branch)) /\ (branch' = branch => (branch' # None => Extends(branch)'))
  BY <1>1 DEF IInv, CandidatesInv, Extends, Contested, SameIdentity
<1>4. CASE Render
  <2>1. Extends(Rendered)
    BY <1>4, RenderExtends DEF Render
  <2>2. artifact' = Rendered /\ branch' = branch
    BY <1>4 DEF Render
  <2>3. Extends(artifact)'
    BY <1>1, <2>1, <2>2 DEF Extends, Contested, SameIdentity
  <2>4. QED BY <1>2, <1>3, <2>2, <2>3 DEF CandidatesInv
<1>5. CASE Publish
  <2>1. artifact \notin {None, Stale} /\ artifact \in Tree
    BY <1>5 DEF Publish, Publishable, IInv, TypeOK
  <2>2. Extends(Candidate)
    BY <2>1 DEF IInv, CandidatesInv, Candidate, Extends, Tree
  <2>3. artifact' = None /\ branch' \in {None, Candidate}
    BY <1>5 DEF Publish
  <2>4. branch' # None => Extends(branch)'
    BY <1>1, <2>2, <2>3 DEF Extends, Contested, SameIdentity
  <2>5. QED BY <1>2, <2>3, <2>4 DEF CandidatesInv
<1>6. CASE PublishFails
  BY <1>2, <1>3, <1>6 DEF PublishFails, CandidatesInv
<1>7. QED BY <1>4, <1>5, <1>6

\* A merged promotion becomes main as validated; what ran meanwhile is stale.
LEMMA MergeInv ==
    ASSUME IInv, MergePromotion
    PROVE  MainInv' /\ CandidatesInv' /\ ServedInv'
<1>1. branch \in Tree /\ Extends(branch)
  BY DEF MergePromotion, IInv, TypeOK, CandidatesInv
<1>2. /\ main'.records = branch.records /\ main'.stored = branch.stored
      /\ main'.lock = branch.lock /\ main'.indexed = branch.indexed
      /\ ValidStructure(main')
  BY <1>1 DEF MergePromotion, ValidNative, Tree
<1>3. MainInv'
  BY <1>1, <1>2 DEF MainInv, Extends, Contested, ValidStructure, ValidIndexes, ValidLock,
                    ValidRetained, Trusted, Current
<1>4. CandidatesInv'
  BY DEF MergePromotion, MainMoves, CandidatesInv
<1>5. ServedInv'
  <2>1. served' = served \cup main'.indexed
    BY DEF MergePromotion
  <2>2. main'.indexed = main'.lock /\ main'.lock \subseteq main'.records
    BY <1>2 DEF ValidStructure, ValidIndexes, ValidLock
  <2>3. QED BY <1>1, <1>2, <2>1, <2>2 DEF IInv, ServedInv, Extends
<1>6. QED BY <1>3, <1>4, <1>5

\* A change of the inputs keeps the data, which must validate under it.
LEMMA ChangeInv ==
    ASSUME IInv, NEW yanked, NEW c, ChangeInputs(yanked, c)
    PROVE  MainInv' /\ CandidatesInv' /\ ServedInv'
<1>1. /\ main'.records = main.records /\ main'.stored = main.stored
      /\ main'.lock = main.lock /\ main'.indexed = main.indexed
      /\ ValidStructure(main')
  BY DEF ChangeInputs, ValidNative, IInv, TypeOK, Tree
<1>2. MainInv'
  BY <1>1 DEF IInv, MainInv, Contested, ValidStructure, ValidIndexes, ValidLock,
              ValidRetained, Trusted, Current
<1>3. branch' = branch /\ artifact' \in {None, Stale} /\ served' = served
  BY DEF ChangeInputs, MainMoves
<1>4. CandidatesInv' /\ ServedInv'
  BY <1>1, <1>3 DEF IInv, CandidatesInv, ServedInv, Extends
<1>5. QED BY <1>2, <1>4

\* What goes on outside leaves all of it alone.
LEMMA OutsideInv ==
    ASSUME IInv, UNCHANGED <<main, branch, artifact, served>>
    PROVE  MainInv' /\ CandidatesInv' /\ ServedInv'
<1>1. MainInv'
  BY DEF IInv, MainInv, Contested, ValidStructure, ValidIndexes, ValidLock, ValidRetained,
         Trusted, Current
<1>2. CandidatesInv' /\ ServedInv'
  BY DEF IInv, CandidatesInv, ServedInv, Extends, Contested
<1>3. QED BY <1>1, <1>2

\* Every step keeps the invariant.
LEMMA NextInv == IInv /\ [Next]_vars => IInv'
<1> SUFFICES ASSUME IInv, [Next]_vars PROVE IInv'
  OBVIOUS
<1>1. TypeOK'
  BY NextType DEF IInv
<1>2. CASE Render \/ Publish \/ PublishFails
  BY <1>1, <1>2, JobsInv DEF IInv
<1>3. CASE MergePromotion
  BY <1>1, <1>3, MergeInv DEF IInv
<1>4. CASE Changes
  <2>1. ASSUME NEW yanked, NEW c, ChangeInputs(yanked, c) PROVE IInv'
    BY <1>1, <2>1, ChangeInv DEF IInv
  <2>2. ASSUME NEW p, Release(p) \/ DeleteRelease(p) PROVE IInv'
    BY <1>1, <2>2, OutsideInv DEF Release, DeleteRelease, IInv
  <2>3. ASSUME NEW k, SetSecret(k) PROVE IInv'
    BY <1>1, <2>3, OutsideInv DEF SetSecret, IInv
  <2>4. QED BY <1>4, <2>1, <2>2, <2>3 DEF Changes
<1>5. CASE UNCHANGED vars
  BY <1>1, <1>5, OutsideInv DEF vars, IInv
<1>6. QED BY <1>2, <1>3, <1>4, <1>5 DEF Next

\* The invariant holds in every state.
THEOREM Invariant == Spec => []IInv
BY InitInv, NextInv, PTL DEF Spec

-----------------------------------------------------------------------------
(* What follows.                                                            *)

\* No package whose signature failed is ever served.
THEOREM NoForgeryIsServed == Spec => []ForgeriesAreNeverServed
<1>1. IInv => ForgeriesAreNeverServed
  BY DEF IInv, ServedInv, ForgeriesAreNeverServed
<1>2. QED BY <1>1, Invariant, PTL

\* One identity is served with one content for ever.
THEOREM IdentitiesStay == Spec => []IdentitiesArePermanent
<1>1. IInv => IdentitiesArePermanent
  BY DEF IInv, ServedInv, MainInv, Contested, SameIdentity, IdentitiesArePermanent
<1>2. QED BY <1>1, Invariant, PTL

\* Every live RPM on main has a current issuer.
THEOREM IssuersStayCurrent == Spec => []LiveIssuersAreCurrent
<1>1. IInv => LiveIssuersAreCurrent
  BY DEF IInv, MainInv, ValidStructure, ValidIndexes, ValidRetained, LiveIssuersAreCurrent
<1>2. QED BY <1>1, Invariant, PTL

\* What was withdrawn from the indexes does not return.
THEOREM WithdrawnPackagesStayOut == Spec => WithdrawnStaysOut
<1>1. ASSUME IInv, [Next]_vars, NEW p \in served, p \notin main.indexed
      PROVE  p \notin main'.indexed
  <2>1. p \in main.records /\ p \notin main.lock
    BY <1>1 DEF IInv, ServedInv, MainInv, ValidStructure, ValidIndexes
  <2>2. CASE MergePromotion
    <3>1. branch \in Tree /\ Extends(branch)
      BY <1>1, <2>2 DEF MergePromotion, IInv, TypeOK, CandidatesInv
    <3>2. main'.indexed = branch.lock
      BY <2>2, <3>1 DEF MergePromotion, ValidNative, ValidStructure, ValidIndexes, Tree
    <3>3. QED BY <2>1, <3>1, <3>2 DEF Extends
  <2>3. ASSUME NEW yanked, NEW c, ChangeInputs(yanked, c) PROVE main'.indexed = main.indexed
    BY <1>1, <2>3 DEF ChangeInputs, IInv, TypeOK, Tree
  <2>4. CASE ~MergePromotion /\ main' # main
    BY <1>1, <2>3, <2>4 DEF Next, Changes, Render, Publish, PublishFails, Release,
                            DeleteRelease, SetSecret, vars
  <2>5. QED BY <1>1, <2>2, <2>4
<1>2. IInv /\ [Next]_vars =>
         [\A p \in served : p \notin main.indexed => p \notin main'.indexed]_vars
  BY <1>1
<1>3. QED BY <1>2, Invariant, PTL DEF Spec, WithdrawnStaysOut

\* After main was left under a revoked subkey, the next merge repairs it.
THEOREM RepairAlwaysComesNext == Spec => RepairComesNext
<1>1. ASSUME TypeOK, [Next]_vars, ~SignaturesAreCurrent, main' # main
      PROVE  SignaturesAreCurrent'
  <2>1. CASE MergePromotion
    <3>1. branch \in Tree
      BY <1>1, <2>1 DEF MergePromotion, TypeOK
    <3>2. main'.certificate = main.certificate /\ ValidNative(main', main)
      BY <2>1, <3>1 DEF MergePromotion, Tree
    <3>3. QED BY <3>2 DEF ValidNative, ValidUnderBase, SignaturesAreCurrent
  <2>2. ASSUME NEW yanked, NEW c, ChangeInputs(yanked, c) PROVE SignaturesAreCurrent'
    <3>1. main'.signed = main.signed /\ main'.indexed = main.indexed
      BY <1>1, <2>2 DEF ChangeInputs, TypeOK, Tree
    <3>2. ValidNative(main', main)
      BY <2>2 DEF ChangeInputs
    <3>3. ~ValidUnderBase(main', main)
      BY <1>1, <3>1 DEF ValidUnderBase, ValidSignatures, SignaturesAreCurrent
    <3>4. QED BY <3>2, <3>3 DEF ValidNative, SignaturesAreCurrent
  <2>3. QED BY <1>1, <2>1, <2>2 DEF Next, Changes, Render, Publish, PublishFails,
                                    Release, DeleteRelease, SetSecret, vars
<1>2. TypeOK /\ [Next]_vars =>
         [~SignaturesAreCurrent /\ main' # main => SignaturesAreCurrent']_vars
  BY <1>1
<1>3. QED BY <1>2, TypeCorrect, PTL DEF Spec, RepairComesNext

=============================================================================
