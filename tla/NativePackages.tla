---------------------------- MODULE NativePackages ----------------------------
(***************************************************************************)
(* The native (apt, rpm) repositories: what main serves, how promotion     *)
(* renders and signs it, and the reviewed changes of the two inputs that   *)
(* people edit, the yank list and the public certificate.                  *)
(*                                                                         *)
(* Every change of main is a pull request that is up to date with main and *)
(* passes `gel-registry validate --base`.  A promotion changes everything  *)
(* but the inputs, other pull requests only the inputs, so that merging    *)
(* main into a promotion takes the inputs from main and the rest from the  *)
(* branch.                                                                 *)
(*                                                                         *)
(* A package stands for a release with that package.  Its issuer is the    *)
(* subkey its RPM signature names; the signature of a forged one does not  *)
(* verify.  All signed files of the trees count as one.                    *)
(***************************************************************************)
EXTENDS Naturals, FiniteSets

CONSTANTS
    Packages,    \* digests of packages
    Identity,    \* format, name, version and architecture of each package
    Subkeys,     \* signing subkeys
    Issuer,      \* the subkey an RPM names; None for a Debian package
    Forged,      \* RPMs whose signature does not verify
    FirstKey,    \* the subkey at the start
    None,        \* no subkey, no candidate
    Stale        \* an artifact of an earlier main; its content is irrelevant

ASSUME NativeAssumption ==
    /\ None \notin Subkeys
    /\ Issuer \in [Packages -> Subkeys \cup {None}]
    /\ Forged \subseteq {p \in Packages : Issuer[p] # None}
    /\ FirstKey \in Subkeys

VARIABLES
    main,       \* the default branch
    branch,     \* the signed candidate of the open promotion, or None
    artifact,   \* the unsigned candidate passed between the jobs, None, or Stale
    published,  \* packages of releases that main has no record of
    secret,     \* the subkey the signing environment holds
    served      \* every package that main has ever served

vars == <<main, branch, artifact, published, secret, served>>

\* One checkout.  stored is native/package-metadata.json, lock the lock file,
\* indexed the packages in the APT and RPM metadata, signed what was signed.
Tree == [records: SUBSET Packages, yanked: SUBSET Packages,
         certificate: [Subkeys -> {"absent", "valid", "revoked"}],
         stored: SUBSET Packages, lock: SUBSET Packages,
         indexed: SUBSET Packages,
         signed: [over: SUBSET Packages, by: Subkeys]]

TypeOK ==
    /\ main \in Tree
    /\ branch \in Tree \cup {None}
    /\ artifact \in Tree \cup {None, Stale}
    /\ published \subseteq Packages
    /\ secret \in Subkeys
    /\ served \subseteq Packages

\* The bootstrapped, empty repositories.
Init ==
    /\ main = [records |-> {}, yanked |-> {},
               certificate |-> [k \in Subkeys |-> IF k = FirstKey THEN "valid" ELSE "absent"],
               stored |-> {}, lock |-> {}, indexed |-> {},
               signed |-> [over |-> {}, by |-> FirstKey]]
    /\ branch = None
    /\ artifact = None
    /\ published = {}
    /\ secret = FirstKey
    /\ served = {}

-----------------------------------------------------------------------------
(* Validation.                                                              *)

\* signing_subkeys: the subkey is in the certificate and not revoked.
Current(certificate, k) == k # None /\ certificate[k] = "valid"

\* The recorded issuer of an RPM is a current subkey.
Trusted(certificate, p) == Issuer[p] = None \/ Current(certificate, Issuer[p])

\* Variant: only what is locked is looked at.
LockIsRecorded(t) == t.lock \subseteq t.records

\* Variant: a package with retained metadata may be left out of the lock.
LockCoversNew(t) == t.records \ (t.yanked \cup t.stored) \subseteq t.lock
                    /\ t.lock \subseteq t.records

\* The lock holds every live record and only records.
ValidLock(t) == t.records \ t.yanked \subseteq t.lock /\ t.lock \subseteq t.records

\* Variant: the issuer has to be in the certificate.
RetainedIssuerKnown(t) ==
    /\ t.lock \subseteq t.stored
    /\ \A p \in t.lock \ t.yanked : Issuer[p] # None => t.certificate[Issuer[p]] # "absent"

\* Everything locked is retained, and live RPMs have current issuers.
ValidRetained(t) ==
    /\ t.lock \subseteq t.stored
    /\ \A p \in t.lock \ t.yanked : Trusted(t.certificate, p)

\* The indexes list exactly what is locked.
ValidIndexes(t) == t.indexed = t.lock

ValidStructure(t) == ValidLock(t) /\ ValidRetained(t) /\ ValidIndexes(t)

\* validate_native_signatures, with the certificate to trust.
ValidSignatures(t, certificate) ==
    t.signed.over = t.indexed /\ Current(certificate, t.signed.by)

\* Variant: metadata nobody touched need not be verified again.
UntouchedUnderBase(t, base) ==
    /\ t.certificate # base.certificate
    /\ t.lock = base.lock /\ t.stored = base.stored
    /\ t.indexed = base.indexed /\ t.signed = base.signed

\* A change of the certificate may leave exactly the metadata of the base, under
\* the certificate of the base.
ValidUnderBase(t, base) ==
    /\ t.certificate # base.certificate
    /\ t.lock = base.lock /\ t.stored = base.stored
    /\ t.indexed = base.indexed /\ t.signed = base.signed
    /\ ValidSignatures(t, base.certificate)

\* validate_native.
ValidNative(t, base) ==
    /\ ValidStructure(t)
    /\ ValidSignatures(t, t.certificate) \/ ValidUnderBase(t, base)

-----------------------------------------------------------------------------
(* Promotion.                                                               *)

Gathered == main.records \cup published

\* New bytes are inspected; the signature of a withdrawn package is not checked.
Inspected(p) ==
    p \in main.yanked \/ (p \notin Forged /\ Trusted(main.certificate, p))

SameIdentity(p, q) == p # q /\ Identity[p] = Identity[q]

\* Variant: withdrawn packages give their identity back.
ContestedLive(S) == \E p, q \in S \ main.yanked : SameIdentity(p, q)

\* Two packages of one identity, retained and withdrawn ones included.
Contested(S) == \E p, q \in S : SameIdentity(p, q)

\* render_native succeeds.
Renderable ==
    /\ \A p \in Gathered \ main.stored : Inspected(p)
    /\ ~Contested(Gathered \cup main.stored)

\* All is composed again from what is retained and the records that are live.
Rendered ==
    LET lock == Gathered \ main.yanked
    IN [main EXCEPT !.records = Gathered,
                    !.stored = @ \cup Gathered,
                    !.lock = lock,
                    !.indexed = lock]

\* The render job: gather, render and pass on; it fails unless all is renderable.
Render ==
    /\ artifact = None
    /\ Renderable
    /\ artifact' = Rendered
    /\ UNCHANGED <<main, branch, published, secret, served>>

\* Variant: the tree is signed again only if it changed.
SignedIfChanged(t) ==
    IF t.signed.over = t.indexed THEN t.signed
    ELSE [over |-> t.indexed, by |-> secret]

\* sign_native: signatures that verify are kept, others replaced.
Signed(t) ==
    IF ValidSignatures(t, t.certificate) THEN t.signed
    ELSE [over |-> t.indexed, by |-> secret]

Candidate == [artifact EXCEPT !.signed = Signed(artifact)]

\* The artifact applies to main, and its tree validates before and after signing.
Publishable ==
    /\ artifact \notin {None, Stale}
    /\ ValidStructure(artifact)
    /\ ValidSignatures(Candidate, artifact.certificate)

\* The publish job pushes the signed candidate, or closes the promotion when
\* there is nothing to promote.
Publish ==
    /\ Publishable
    /\ branch' = IF Candidate = main THEN None ELSE Candidate
    /\ artifact' = None
    /\ UNCHANGED <<main, published, secret, served>>

\* main has moved, the tree is refused, or the secret is not in the certificate.
PublishFails ==
    /\ artifact # None
    /\ ~Publishable
    /\ artifact' = None
    /\ UNCHANGED <<main, branch, published, secret, served>>

-----------------------------------------------------------------------------
(* Pull requests.                                                           *)

MainMoves == artifact' = IF artifact = None THEN None ELSE Stale

\* The promotion is brought up to date, validated and merged.
MergePromotion ==
    /\ branch # None
    /\ LET t == [branch EXCEPT !.yanked = main.yanked,
                               !.certificate = main.certificate]
       IN /\ ValidNative(t, main)
          /\ main' = t
          /\ served' = served \cup t.indexed
          /\ published' = published \ t.records
    /\ branch' = None
    /\ MainMoves
    /\ UNCHANGED secret

\* A pull request that edits the yank list, the certificate, or both.
ChangeInputs(yanked, certificate) ==
    LET t == [main EXCEPT !.yanked = yanked, !.certificate = certificate]
    IN /\ t # main
       /\ ValidNative(t, main)
       /\ main' = t
       /\ MainMoves
       /\ UNCHANGED <<branch, published, secret, served>>

-----------------------------------------------------------------------------
(* Product repositories and the signing environment.                        *)

Release(p) ==
    /\ p \notin published \cup main.records
    /\ published' = published \cup {p}
    /\ UNCHANGED <<main, branch, artifact, secret, served>>

DeleteRelease(p) ==
    /\ p \in published
    /\ published' = published \ {p}
    /\ UNCHANGED <<main, branch, artifact, secret, served>>

SetSecret(k) ==
    /\ k # secret
    /\ secret' = k
    /\ UNCHANGED <<main, branch, artifact, published, served>>

-----------------------------------------------------------------------------

\* Subkeys are added or revoked; a revoked one stays in the certificate.
Certificates == {c \in [Subkeys -> {"absent", "valid", "revoked"}] :
                    \A k \in Subkeys : /\ main.certificate[k] = "revoked" => c[k] = "revoked"
                                       /\ main.certificate[k] = "valid" => c[k] # "absent"}

\* People yank packages they have seen.
Changes ==
    \/ \E yanked \in SUBSET (Gathered \cup main.yanked), c \in Certificates :
          ChangeInputs(yanked, c)
    \/ \E p \in Packages : Release(p) \/ DeleteRelease(p)
    \/ \E k \in Subkeys : SetSecret(k)

Next == Render \/ Publish \/ PublishFails \/ MergePromotion \/ Changes

Spec == Init /\ [][Next]_vars

\* The workflow runs every hour and reviewers merge what passes.  Nothing is
\* assumed of the product repositories.
FairSpec ==
    /\ Spec
    /\ WF_vars(Render)
    /\ WF_vars(Publish \/ PublishFails)
    /\ SF_vars(MergePromotion)

\* Yank a package that keeps the render from succeeding.
YankBlocker ==
    \E p \in Gathered \ main.stored :
        ~Inspected(p) /\ ChangeInputs(main.yanked \cup {p}, main.certificate)

\* Operators do what the runbook says, too.
RunbookSpec == FairSpec /\ WF_vars(YankBlocker)

-----------------------------------------------------------------------------
(* Properties.                                                              *)

\* No package whose signature failed is ever served: its record may be merged
\* while it is yanked, but then taking the yank back never validates.
ForgeriesAreNeverServed == served \cap Forged = {}

\* One identity is served with one content for ever, also after a yank.
IdentitiesArePermanent ==
    \A p, q \in served : Identity[p] = Identity[q] => p = q

\* What was withdrawn from the indexes does not return to them, whatever is
\* edited in the yank list.
WithdrawnStaysOut ==
    [][\A p \in served : p \notin main.indexed => p \notin main'.indexed]_vars

\* Whatever subkeys are revoked, with pull requests in any order, every RPM on
\* main that is not yanked has a current issuer.
LiveIssuersAreCurrent ==
    \A p \in main.indexed \ main.yanked : Trusted(main.certificate, p)

SignaturesAreCurrent == ValidSignatures(main, main.certificate)

\* The one merge that may leave main under a revoked subkey is followed by one
\* that repairs it: no other change comes in between.
RepairComesNext ==
    [][~SignaturesAreCurrent /\ main' # main => SignaturesAreCurrent']_vars

Settled ==
    /\ published = {}
    /\ main.indexed = main.records \ main.yanked
    /\ SignaturesAreCurrent

InputsRest ==
    /\ main'.yanked = main.yanked
    /\ main'.certificate = main.certificate
    /\ secret' = secret
    /\ published' \subseteq published

\* When the inputs rest and what is published can be rendered and signed, main
\* comes to serve exactly the live records.
EventuallySettled ==
    <>[][InputsRest]_vars /\ <>[](Renderable /\ Current(main.certificate, secret))
        => <>[]Settled

UpstreamRests == secret' = secret /\ published' \subseteq published

\* "Merge the certificate/yank PR, then the promotion PR that removes the RPMs
\* and replaces revoked metadata signatures": once the secret is right and
\* nothing more is released, revoked signatures are replaced, although operators
\* yank whatever else keeps the render from succeeding.
RevokedSignaturesAreReplaced ==
    <>[][UpstreamRests]_vars /\ <>[]Current(main.certificate, secret)
        => (~SignaturesAreCurrent
               ~> SignaturesAreCurrent \/ Contested(Gathered \cup main.stored))

-----------------------------------------------------------------------------
(* The inductive invariant behind the safety properties.                    *)

\* What is recorded is retained, one package for each identity, and main is
\* structurally valid.
MainInv ==
    /\ main.records = main.stored
    /\ ~Contested(main.stored)
    /\ ValidStructure(main)
    /\ main.lock \cap Forged = {}

\* A candidate adds to what main has: it brings back nothing that is withdrawn.
Extends(t) ==
    /\ t.records = t.stored
    /\ main.records \subseteq t.records
    /\ ~Contested(t.stored)
    /\ t.lock \cap Forged = {}
    /\ t.lock \cap main.records \subseteq main.lock

CandidatesInv ==
    /\ branch # None => Extends(branch)
    /\ artifact \notin {None, Stale} => Extends(artifact)

ServedInv ==
    /\ main.indexed \subseteq served
    /\ served \subseteq main.records
    /\ served \cap Forged = {}

IInv ==
    /\ TypeOK
    /\ MainInv
    /\ CandidatesInv
    /\ ServedInv

=============================================================================
