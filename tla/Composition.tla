------------------------------ MODULE Composition ------------------------------
(***************************************************************************)
(* render/compose.py: the indexes a set of release records makes of the    *)
(* bootstrap indexes.                                                      *)
(*                                                                         *)
(* A record replaces the URLs of references it names by their digests, and *)
(* adds packages.  The records are gone through one by one, so are the     *)
(* claimed digests; any conflict ends the composition.  The order of the   *)
(* records (of their paths) and of the digests is any order here.          *)
(***************************************************************************)
EXTENDS Naturals, Sequences, FiniteSets

CONSTANTS
    Records,     \* committed and gathered release records
    Indexes,     \* <<channel, platform>> of an index
    Digests,     \* SHA-256 digests of artifacts
    NoDigest,    \* a legacy reference without SHA-256
    Origin,      \* whose URLs bootstrap references carry
    Names,       \* what tells URLs of one owner apart
    Keys,        \* <<basename, version, slot>> of a package
    Extensions,  \* <<extension, version, server slot>> of an extension package
    Plain,       \* ... of any other package
    Inputs       \* bootstraps with the manifests of the records

\* A record's URLs are bound to its own repository and tag, a bootstrap's to the
\* package host.
Url == [by: Records \cup {Origin}, name: Names]

Reference == [digest: Digests \cup {NoDigest}, url: Url]

\* References in canonical order (canonical_package); what else an entry says
\* is part of its key.
Package == [key: Keys, extension: Extensions \cup {Plain},
            installref: Url, installrefs: Seq(Reference)]

UrlsOf(package) ==
    {package.installref} \cup
    {package.installrefs[n].url : n \in DOMAIN package.installrefs}

\* PackageIndex: no two entries of an index have one key.
BootstrapIndex ==
    {index \in SUBSET Package :
        /\ \A p \in index : \A url \in UrlsOf(p) : url.by = Origin
        /\ \A p, q \in index : p.key = q.key => p = q}

Fragments(r) == {index \in SUBSET Package : \A p \in index : \A url \in UrlsOf(p) : url.by = r}

Replacements(r) == UNION {[claimed -> {url \in Url : url.by = r}] : claimed \in SUBSET Digests}

\* What compose_indexes is given: a bootstrap and what each record declares.
WellFormed(given) ==
    /\ given.bootstrap \in [Indexes -> BootstrapIndex]
    /\ DOMAIN given.manifest = Records
    /\ \A r \in Records :
          /\ given.manifest[r].replacements \in Replacements(r)
          /\ given.manifest[r].indexes \in [Indexes -> Fragments(r)]

ASSUME CompositionAssumption ==
    /\ Origin \notin Records /\ NoDigest \notin Digests /\ Plain \notin Extensions
    /\ \A given \in Inputs : WellFormed(given)

VARIABLES
    input,      \* the bootstrap and the manifests, which composing never changes
    phase,      \* what compose_indexes is doing
    todo,       \* records its loop has still to go through
    claimants,  \* the records that claim each digest, as far as collected
    pending,    \* claimed digests still to replace
    packages    \* the indexes made so far

vars == <<input, phase, todo, claimants, pending, packages>>

ReplacementsOf(r) == input.manifest[r].replacements
IndexesOf(r) == input.manifest[r].indexes

\* package_identity
Identity(package) ==
    IF package.extension = Plain THEN <<"package", package.key>>
    ELSE <<"extension", package.extension>>

\* The package's references with a digest.
Carries(package, digest) ==
    {n \in DOMAIN package.installrefs : package.installrefs[n].digest = digest}

\* The references of the bootstrap with a digest, wherever they are.
Locations(digest) ==
    UNION {UNION {{<<i, p, n>> : n \in Carries(p, digest)} : p \in input.bootstrap[i]} :
              i \in Indexes}

Placed(digest) == \E location \in Locations(digest) : Locations(digest) = {location}

\* The reference whose URL the package itself carries: the first of them.
Selected(package) ==
    {n \in DOMAIN package.installrefs :
        /\ package.installrefs[n].url = package.installref
        /\ \A m \in DOMAIN package.installrefs :
              package.installrefs[m].url = package.installref => n <= m}

\* selected_reference_sha256, as a set.
SelectedDigests(package) == {package.installrefs[n].digest : n \in Selected(package)}

-----------------------------------------------------------------------------
(* The composition, step by step.                                           *)

\* A variant: the package follows any reference that has its URL.
ReplacedAlike(package, digest, url) ==
    LET alike == \E n \in DOMAIN package.installrefs :
                    /\ package.installrefs[n].digest = digest
                    /\ package.installrefs[n].url = package.installref
        refs == package.installrefs
    IN  [package EXCEPT
            !.installref = IF alike THEN url ELSE @,
            !.installrefs = [n \in DOMAIN refs |->
                IF refs[n].digest = digest THEN [refs[n] EXCEPT !.url = url] ELSE refs[n]]]

\* The package's reference with the digest gets the URL, and so does the package
\* itself if that is the reference it selects.
Replaced(package, digest, url) ==
    LET refs == package.installrefs
    IN  [package EXCEPT
            !.installref = IF digest \in SelectedDigests(package) THEN url ELSE @,
            !.installrefs = [n \in DOMAIN refs |->
                IF refs[n].digest = digest THEN [refs[n] EXCEPT !.url = url] ELSE refs[n]]]

Init ==
    /\ input \in Inputs
    /\ phase = "copy"
    /\ todo = Records
    /\ claimants = [d \in Digests |-> {}]
    /\ pending = {}
    /\ packages = [i \in Indexes |-> {}]

Fail == phase' = "failed" /\ UNCHANGED <<todo, claimants, pending, packages>>

\* add_package raises for another package of an identity that is there.
Contests(p, q) == p # q /\ Identity(p) = Identity(q)

\* copy_bootstrap_packages
Copy ==
    /\ phase = "copy"
    /\ IF \E i \in Indexes : \E p, q \in input.bootstrap[i] : Contests(p, q)
       THEN Fail
       ELSE /\ phase' = "claim"
            /\ packages' = input.bootstrap
            /\ UNCHANGED <<todo, claimants, pending>>
    /\ UNCHANGED input

\* The first loop of apply_replacements: one record's claims.
Claim(r) ==
    /\ phase = "claim"
    /\ r \in todo
    /\ todo' = todo \ {r}
    /\ claimants' = [d \in Digests |->
           IF d \in DOMAIN ReplacementsOf(r) THEN claimants[d] \cup {r} ELSE claimants[d]]
    /\ UNCHANGED <<input, phase, pending, packages>>

\* A variant: the last claim wins.
CheckNoClaims ==
    /\ phase = "claim" /\ todo = {}
    /\ phase' = "replace"
    /\ pending' = {d \in Digests : claimants[d] # {}}
    /\ UNCHANGED <<input, todo, claimants, packages>>

\* Two claims of one digest end it before anything is replaced.
CheckClaims ==
    /\ phase = "claim" /\ todo = {}
    /\ IF \E d \in Digests : \E r, s \in claimants[d] : r # s
       THEN Fail
       ELSE /\ phase' = "replace"
            /\ pending' = {d \in Digests : claimants[d] # {}}
            /\ UNCHANGED <<todo, claimants, packages>>
    /\ UNCHANGED input

\* The digest is looked up in the bootstrap, the package at its place updated.
Replace(d) ==
    /\ phase = "replace"
    /\ d \in pending
    /\ IF ~Placed(d)
       THEN Fail
       ELSE \E r \in claimants[d], location \in Locations(d) :
               LET i == location[1]
               IN  \E p \in packages[i] :
                     /\ Identity(p) = Identity(location[2])
                     /\ packages' = [packages EXCEPT
                            ![i] = (@ \ {p}) \cup {Replaced(p, d, ReplacementsOf(r)[d])}]
                     /\ pending' = pending \ {d}
                     /\ UNCHANGED <<phase, todo, claimants>>
    /\ UNCHANGED input

AllReplaced ==
    /\ phase = "replace" /\ pending = {}
    /\ phase' = "add"
    /\ todo' = Records
    /\ UNCHANGED <<input, claimants, pending, packages>>

\* add_index_fragments, for one record: what is there already must be the same.
Add(r) ==
    LET more == [i \in Indexes |-> packages[i] \cup IndexesOf(r)[i]]
    IN  /\ phase = "add"
        /\ r \in todo
        /\ IF \E i \in Indexes : \E p, q \in more[i] : Contests(p, q)
           THEN Fail
           ELSE /\ todo' = todo \ {r}
                /\ packages' = more
                /\ UNCHANGED <<phase, claimants, pending>>
        /\ UNCHANGED input

\* serialize_indexes: PackageIndex accepts a key only once.
Serialize ==
    /\ phase = "add" /\ todo = {}
    /\ IF \E i \in Indexes : \E p, q \in packages[i] : p # q /\ p.key = q.key
       THEN Fail
       ELSE /\ phase' = "done"
            /\ UNCHANGED <<todo, claimants, pending, packages>>
    /\ UNCHANGED input

Next ==
    \/ Copy \/ CheckClaims \/ AllReplaced \/ Serialize
    \/ \E r \in Records : Claim(r) \/ Add(r)
    \/ \E d \in Digests : Replace(d)

Spec == Init /\ [][Next]_vars

-----------------------------------------------------------------------------
(* What a set of records means, whatever their order.                       *)

Claimants(d, records) == {r \in records : d \in DOMAIN ReplacementsOf(r)}

Claimed(records) == {d \in Digests : Claimants(d, records) # {}}

Only(singleton) == CHOOSE x \in singleton : TRUE

\* The URL of a digest that only one record claims.
ClaimedUrl(d, records) == ReplacementsOf(Only(Claimants(d, records)))[d]

\* A reference, and a bootstrap package, with the URLs of some claimed digests.
UpdatedReference(reference, digests, records) ==
    IF reference.digest \in digests
    THEN [reference EXCEPT !.url = ClaimedUrl(reference.digest, records)]
    ELSE reference

UpdatedUrl(package, digests, records) ==
    LET selected == SelectedDigests(package) \cap digests
    IN  IF selected = {} THEN package.installref
        ELSE ClaimedUrl(Only(selected), records)

Updated(package, digests, records) ==
    [package EXCEPT
        !.installref = UpdatedUrl(package, digests, records),
        !.installrefs = [n \in DOMAIN package.installrefs |->
            UpdatedReference(package.installrefs[n], digests, records)]]

Composed(records) == [i \in Indexes |->
    {Updated(p, Claimed(records), records) : p \in input.bootstrap[i]}
        \cup UNION {IndexesOf(r)[i] : r \in records}]

Contested(records) == \E d \in Digests : \E r, s \in Claimants(d, records) : r # s

\* Records that cannot be published together.
Conflict(records) ==
    \/ Contested(records)
    \/ \E d \in Claimed(records) : ~Placed(d)
    \/ \E i \in Indexes : \E p, q \in Composed(records)[i] :
          p # q /\ (Identity(p) = Identity(q) \/ p.key = q.key)

-----------------------------------------------------------------------------
(* Properties.                                                              *)

\* The indexes are those the records declare, in whatever order the records and
\* digests were gone through: replacing one digest never moves, hides or
\* redirects another reference, and a package's own URL follows the reference it
\* selected in the bootstrap.
OutputIsDeclared == phase = "done" => packages = Composed(Records)

\* Composition fails exactly on the records that conflict: no order of them lets
\* a conflict through, and none makes one up.
FailsOnlyOnConflict ==
    /\ phase = "done" => ~Conflict(Records)
    /\ phase = "failed" => Conflict(Records)

-----------------------------------------------------------------------------
(* The inductive invariant behind them.                                     *)

Bucket(digests, records) == [i \in Indexes |->
    {Updated(p, digests, Records) : p \in input.bootstrap[i]}
        \cup UNION {IndexesOf(r)[i] : r \in records}]

NoContest(indexes) == \A i \in Indexes : \A p, q \in indexes[i] : ~Contests(p, q)

IInv ==
    /\ WellFormed(input)
    /\ phase \in {"copy", "claim", "replace", "add", "done", "failed"}
    /\ todo \subseteq Records
    /\ phase = "copy" => todo = Records /\ claimants = [d \in Digests |-> {}]
    /\ phase = "claim" => claimants = [d \in Digests |-> Claimants(d, Records \ todo)]
    /\ phase = "replace" =>
          /\ pending \subseteq Claimed(Records)
          /\ claimants = [d \in Digests |-> Claimants(d, Records)]
    /\ phase \in {"replace", "add", "done"} =>
          /\ ~Contested(Records)
          /\ \A d \in Claimed(Records) \ pending : Placed(d)
    /\ phase \in {"claim", "replace", "add", "done"} => NoContest(input.bootstrap)
    /\ phase = "claim" => packages = input.bootstrap
    /\ phase = "replace" => packages = Bucket(Claimed(Records) \ pending, {})
    /\ phase \in {"add", "done"} => /\ pending = {}
                                    /\ packages = Bucket(Claimed(Records), Records \ todo)
                                    /\ NoContest(packages)
    /\ phase = "done" => todo = {}
    /\ OutputIsDeclared
    /\ FailsOnlyOnConflict

=============================================================================
