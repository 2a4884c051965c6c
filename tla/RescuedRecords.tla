---------------------------- MODULE RescuedRecords ----------------------------
(***************************************************************************)
(* Where the records that are composed come from: a rescue plan, or        *)
(* anywhere else.                                                          *)
(*                                                                         *)
(* The releases of a plan claim the digests of their assets.  The plan is  *)
(* made of an archive captured from one host, the claims are looked up in  *)
(* bootstrap indexes captured from another.  Uploading and publishing the  *)
(* releases, and gathering them, is left out: any part of them may have    *)
(* become records.                                                         *)
(***************************************************************************)
EXTENDS Composition

CONSTANTS Families, Platforms, Revisions, Archives, Bulk, Requests

VARIABLES archive, request, turn, tried, releases, unread, status

rescueVars == <<archive, request, turn, tried, releases, unread, status>>

Rescue == INSTANCE Selection WITH Candidates <- Records

ASSUME RescueAssumption == Rescue!SelectionInputs

NoManifest == [replacements |-> <<>>, indexes |-> [i \in Indexes |-> {}]]

\* build_release_manifest: the release's assets, at their names.
ManifestOf(c) ==
    LET places == Rescue!Places(c)
        Holding(d) == CHOOSE x \in places : Rescue!AssetAt(x).digest = d
    IN  [NoManifest EXCEPT !.replacements =
            [d \in {Rescue!AssetAt(x).digest : x \in places} |->
                [by |-> c, name |-> Rescue!AssetAt(Holding(d)).name]]]

Bootstraps == {given.bootstrap : given \in Inputs}

NoInput == [bootstrap |-> [i \in Indexes |-> {}], manifest |-> [r \in Records |-> NoManifest]]

\* Composition waits for the records of a plan.
PlanInit ==
    /\ Rescue!Init
    /\ input = NoInput
    /\ phase = "plan"
    /\ todo = Records
    /\ claimants = [d \in Digests |-> {}]
    /\ pending = {}
    /\ packages = [i \in Indexes |-> {}]

\* There is no plan.
OtherInit ==
    /\ Init
    /\ archive = [c \in Records |-> {}]
    /\ request = Bulk
    /\ turn = 1
    /\ tried = 0
    /\ releases = {}
    /\ unread = {}
    /\ status = "none"

Plan == phase = "plan" /\ Rescue!Next /\ UNCHANGED vars

\* Some of the planned releases were published and their manifests gathered.
Gather ==
    /\ phase = "plan" /\ status = "planned"
    /\ \E bootstrap \in Bootstraps, published \in SUBSET releases :
          input' = [bootstrap |-> bootstrap,
                    manifest |-> [r \in Records |-> IF r \in published THEN ManifestOf(r)
                                                   ELSE NoManifest]]
    /\ phase' = "copy"
    /\ UNCHANGED <<todo, claimants, pending, packages>> /\ UNCHANGED rescueVars

RecordsNext == Plan \/ Gather \/ (Next /\ UNCHANGED rescueVars)

RecordsSpec == (PlanInit \/ OtherInit) /\ [][RecordsNext]_<<vars, rescueVars>>

\* What a plan selects is what it should be.
PlanHasTheNewest == Rescue!PlanHasTheNewest

\* The releases of one plan never stand in each other's way: if their records do
\* not compose, in any selection of them, the bootstrap has not exactly one
\* reference with a claimed digest, or contests an identity itself.
PlansCompose ==
    status = "planned" /\ phase = "failed" =>
        \/ \E d \in Claimed(Records) : ~Placed(d)
        \/ \E i \in Indexes : \E p, q \in input.bootstrap[i] : Contests(p, q)

-----------------------------------------------------------------------------
(* The inductive invariant behind it.                                       *)

\* Composition waits for the plan, and a plan that is composed has been accepted.
WaitInv ==
    /\ phase = "plan" =>
          /\ status # "none" /\ todo = Records /\ pending = {}
          /\ claimants = [d \in Digests |-> {}]
    /\ phase # "plan" => status \in {"none", "planned"}

\* What is composed after a plan is what some of its releases declare.
GatheredInv ==
    status = "planned" /\ phase # "plan" =>
        \A r \in Records :
            \/ input.manifest[r] = NoManifest
            \/ r \in releases /\ input.manifest[r] = ManifestOf(r)

RecordsInv ==
    /\ WaitInv
    /\ GatheredInv
    /\ status # "none" => Rescue!PlanInv
    /\ phase # "plan" => IInv

=============================================================================
