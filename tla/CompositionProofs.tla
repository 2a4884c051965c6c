--------------------------- MODULE CompositionProofs ---------------------------
(***************************************************************************)
(* For any records, indexes and digests, in any order: the composition is  *)
(* the one the records declare and fails exactly on their conflicts, and   *)
(* no further record resolves a conflict.  A rescue plan has the newest    *)
(* releases that can be built, and they do not conflict with each other.   *)
(*                                                                         *)
(* Everything rests on whose a URL is: a bootstrap URL is the package      *)
(* host's and a claimed one a release's, so replacing one digest never     *)
(* changes which reference a package selects for the others.  The plan     *)
(* rests on each candidate being gone through once: what a family took is  *)
(* the part of the first so many candidates that can be used.              *)
(***************************************************************************)
EXTENDS RescuedRecords, FiniteSetTheorems, WellFoundedInduction, TLAPS

\* What is known of the inputs.
LEMMA InputFacts ==
    ASSUME WellFormed(input)
    PROVE  /\ input.bootstrap \in [Indexes -> BootstrapIndex]
           /\ \A i \in Indexes : \A p \in input.bootstrap[i] :
                 p \in Package /\ \A url \in UrlsOf(p) : url.by = Origin
           /\ \A i \in Indexes : \A p, q \in input.bootstrap[i] : p.key = q.key => p = q
           /\ \A r \in Records : /\ ReplacementsOf(r) \in Replacements(r)
                                 /\ IndexesOf(r) \in [Indexes -> Fragments(r)]
<1>1. /\ input.bootstrap \in [Indexes -> BootstrapIndex]
      /\ \A r \in Records : /\ ReplacementsOf(r) \in Replacements(r)
                            /\ IndexesOf(r) \in [Indexes -> Fragments(r)]
  BY DEF WellFormed, ReplacementsOf, IndexesOf
<1>2. \A i \in Indexes : input.bootstrap[i] \in BootstrapIndex
  BY <1>1
<1>3. QED BY <1>1, <1>2 DEF BootstrapIndex

\* A claimed URL is one of the claiming record's.
LEMMA ReplacementUrl ==
    ASSUME WellFormed(input), NEW r \in Records, NEW d \in DOMAIN ReplacementsOf(r)
    PROVE  ReplacementsOf(r)[d] \in Url /\ ReplacementsOf(r)[d].by = r
<1>1. PICK claimed \in SUBSET Digests :
         ReplacementsOf(r) \in [claimed -> {url \in Url : url.by = r}]
  BY InputFacts DEF Replacements
<1>2. QED BY <1>1

\* A claimed digest has the URL of its claimant.
LEMMA ClaimedUrlIs ==
    ASSUME WellFormed(input), NEW records \in SUBSET Records, ~Contested(records),
           NEW d \in Digests, NEW r \in Claimants(d, records)
    PROVE  ClaimedUrl(d, records) = ReplacementsOf(r)[d]
<1>1. Only(Claimants(d, records)) \in Claimants(d, records)
  BY DEF Only
<1>2. Only(Claimants(d, records)) = r
  BY <1>1 DEF Contested
<1>3. QED BY <1>2 DEF ClaimedUrl

\* It is one of the claimed URLs, and so a release's.
LEMMA ClaimedUrlType ==
    ASSUME WellFormed(input), NEW records \in SUBSET Records, NEW d \in Claimed(records)
    PROVE  /\ ClaimedUrl(d, records) \in Url
           /\ ClaimedUrl(d, records).by \in Claimants(d, records)
           /\ ClaimedUrl(d, records).by # Origin
<1> DEFINE r == Only(Claimants(d, records))
<1>1. r \in Claimants(d, records)
  BY DEF Claimed, Only
<1>2. r \in Records /\ d \in DOMAIN ReplacementsOf(r)
  BY <1>1 DEF Claimants
<1>3. r # Origin
  BY <1>2, CompositionAssumption
<1>4. ReplacementsOf(r)[d] \in Url /\ ReplacementsOf(r)[d].by = r
  BY <1>2, ReplacementUrl
<1>5. ClaimedUrl(d, records) = ReplacementsOf(r)[d]
  BY DEF ClaimedUrl
<1> HIDE DEF r
<1>6. QED BY <1>1, <1>3, <1>4, <1>5

-----------------------------------------------------------------------------
(* Packages.                                                                *)

\* A set of positions has a first one.
LEMMA FirstExists ==
    ASSUME NEW T \in SUBSET Nat, T # {}
    PROVE  \E n \in T : \A m \in T : n <= m
<1> DEFINE R == OpToRel(<, Nat)
<1>1. IsWellFoundedOn(R, Nat)
  BY NatLessThanWellFounded
<1>2. \A m, n \in Nat : m < n => <<m, n>> \in R
  BY DEF OpToRel
<1> HIDE DEF R
<1>3. PICK n \in T : \A m \in T : <<m, n>> \notin R
  BY <1>1, WFMin
<1>4. ASSUME NEW m \in T PROVE n <= m
  <2>1. m \in Nat /\ n \in Nat /\ ~(m < n)
    BY <1>2, <1>3
  <2>2. QED BY <2>1
<1>5. QED BY <1>4

\* A package that has its URL at some reference selects one no later.
LEMMA SelectedExists ==
    ASSUME NEW p \in Package, NEW m \in DOMAIN p.installrefs,
           p.installrefs[m].url = p.installref
    PROVE  \E n \in Selected(p) : n <= m
<1> DEFINE T == {n \in DOMAIN p.installrefs : p.installrefs[n].url = p.installref}
<1>1. T \in SUBSET Nat /\ m \in T
  BY DEF Package
<1>2. PICK n \in T : \A k \in T : n <= k
  BY <1>1, FirstExists
<1>3. n \in Selected(p)
  BY <1>2 DEF Selected
<1>4. QED BY <1>1, <1>2, <1>3

\* A package selects at most one reference.
LEMMA SelectedUnique ==
    ASSUME NEW p \in Package, NEW n \in Selected(p), NEW m \in Selected(p)
    PROVE  n = m
<1>1. DOMAIN p.installrefs = 1 .. Len(p.installrefs) /\ Len(p.installrefs) \in Nat
  BY DEF Package
<1>2. n <= m /\ m <= n /\ n \in Nat /\ m \in Nat
  BY <1>1 DEF Selected
<1>3. QED BY <1>2

\* A package with other URLs.
LEMMA PackageFields ==
    ASSUME NEW p, NEW url, NEW refs,
           p = [key |-> p.key, extension |-> p.extension,
                installref |-> p.installref, installrefs |-> p.installrefs]
    PROVE  [p EXCEPT !.installref = url, !.installrefs = refs]
               = [key |-> p.key, extension |-> p.extension,
                  installref |-> url, installrefs |-> refs]
<1> DEFINE q == [p EXCEPT !.installref = url]
<1>1. q = [key |-> p.key, extension |-> p.extension,
           installref |-> url, installrefs |-> p.installrefs]
  OBVIOUS
<1>2. [p EXCEPT !.installref = url, !.installrefs = refs] = [q EXCEPT !.installrefs = refs]
  OBVIOUS
<1> HIDE DEF q
<1>3. [q EXCEPT !.installrefs = refs] = [key |-> p.key, extension |-> p.extension,
                                         installref |-> url, installrefs |-> refs]
  BY <1>1
<1>4. QED BY <1>2, <1>3

\* What an updated package is, field by field.
LEMMA UpdatedFacts ==
    ASSUME NEW p \in Package, NEW D \in SUBSET Digests, NEW records
    PROVE  /\ Updated(p, D, records) =
                 [key |-> p.key, extension |-> p.extension,
                  installref |-> UpdatedUrl(p, D, records),
                  installrefs |-> [n \in DOMAIN p.installrefs |->
                                      UpdatedReference(p.installrefs[n], D, records)]]
           /\ Identity(Updated(p, D, records)) = Identity(p)
           /\ Updated(p, D, records).key = p.key
<1>1. Updated(p, D, records) =
         [key |-> p.key, extension |-> p.extension,
          installref |-> UpdatedUrl(p, D, records),
          installrefs |-> [n \in DOMAIN p.installrefs |->
                              UpdatedReference(p.installrefs[n], D, records)]]
  <2>1. p = [key |-> p.key, extension |-> p.extension,
             installref |-> p.installref, installrefs |-> p.installrefs]
    BY DEF Package
  <2>2. QED BY <2>1, PackageFields DEF Updated
<1>2. QED BY <1>1 DEF Identity

\* The URL of an updated package follows the reference the package selects.
LEMMA UpdatedUrlFacts ==
    ASSUME NEW p \in Package, NEW D \in SUBSET Digests, NEW records
    PROVE  /\ Selected(p) = {} => UpdatedUrl(p, D, records) = p.installref
           /\ \A n \in Selected(p) :
                 UpdatedUrl(p, D, records) =
                     IF p.installrefs[n].digest \in D
                     THEN ClaimedUrl(p.installrefs[n].digest, records)
                     ELSE p.installref
<1>1. Selected(p) = {} => UpdatedUrl(p, D, records) = p.installref
  BY DEF UpdatedUrl, SelectedDigests
<1>2. ASSUME NEW n \in Selected(p)
      PROVE  UpdatedUrl(p, D, records) = IF p.installrefs[n].digest \in D
                                         THEN ClaimedUrl(p.installrefs[n].digest, records)
                                         ELSE p.installref
  <2>1. SelectedDigests(p) = {p.installrefs[n].digest}
    BY SelectedUnique DEF SelectedDigests
  <2>2. CASE p.installrefs[n].digest \in D
    <3>1. SelectedDigests(p) \cap D = {p.installrefs[n].digest}
      BY <2>1, <2>2
    <3>2. Only(SelectedDigests(p) \cap D) = p.installrefs[n].digest
      BY <3>1 DEF Only
    <3>3. QED BY <2>2, <3>1, <3>2 DEF UpdatedUrl
  <2>3. CASE p.installrefs[n].digest \notin D
    BY <2>1, <2>3 DEF UpdatedUrl
  <2>4. QED BY <2>2, <2>3
<1>3. QED BY <1>1, <1>2

\* No digests, no change.
LEMMA UpdatedNothing ==
    ASSUME NEW p \in Package, NEW records
    PROVE  Updated(p, {}, records) = p
<1>1. /\ p = [key |-> p.key, extension |-> p.extension,
              installref |-> p.installref, installrefs |-> p.installrefs]
      /\ p.installrefs = [n \in DOMAIN p.installrefs |-> p.installrefs[n]]
  BY DEF Package
<1>2. UpdatedUrl(p, {}, records) = p.installref
  BY DEF UpdatedUrl
<1>3. [n \in DOMAIN p.installrefs |-> UpdatedReference(p.installrefs[n], {}, records)]
      = p.installrefs
  BY <1>1 DEF UpdatedReference
<1>4. QED BY <1>1, <1>2, <1>3, UpdatedFacts

\* A digest that a package does not reference changes nothing about it.
LEMMA UpdatedElsewhere ==
    ASSUME NEW p \in Package, NEW D \in SUBSET Digests, NEW d \in Digests, NEW records,
           \A n \in DOMAIN p.installrefs : p.installrefs[n].digest # d
    PROVE  Updated(p, D \cup {d}, records) = Updated(p, D, records)
<1>1. UpdatedUrl(p, D \cup {d}, records) = UpdatedUrl(p, D, records)
  <2>1. SelectedDigests(p) \cap (D \cup {d}) = SelectedDigests(p) \cap D
    BY DEF SelectedDigests, Selected
  <2>2. QED BY <2>1 DEF UpdatedUrl
<1>2. \A n \in DOMAIN p.installrefs :
         UpdatedReference(p.installrefs[n], D \cup {d}, records)
             = UpdatedReference(p.installrefs[n], D, records)
  BY DEF UpdatedReference
<1>3. QED BY <1>1, <1>2, UpdatedFacts

-----------------------------------------------------------------------------
\* Replacing some digests leaves the selection of another digest as it was: their
\* URLs are of releases now, all others still of the package host.
LEMMA SelectionStays ==
    ASSUME WellFormed(input), NEW i \in Indexes, NEW p \in input.bootstrap[i],
           NEW D \in SUBSET Claimed(Records), NEW d \in Digests \ D
    PROVE  d \in SelectedDigests(Updated(p, D, Records)) <=> d \in SelectedDigests(p)
<1> DEFINE q == Updated(p, D, Records)
<1>1. /\ p \in Package
      /\ p.installref.by = Origin
      /\ \A n \in DOMAIN p.installrefs : n \in Nat /\ p.installrefs[n].url.by = Origin
  BY InputFacts DEF UrlsOf, Package
<1>2. D \in SUBSET Digests
  BY DEF Claimed
<1>3. /\ q.installref = UpdatedUrl(p, D, Records)
      /\ DOMAIN q.installrefs = DOMAIN p.installrefs
      /\ \A n \in DOMAIN p.installrefs :
            q.installrefs[n] = UpdatedReference(p.installrefs[n], D, Records)
  <2>1. q = [key |-> p.key, extension |-> p.extension,
             installref |-> UpdatedUrl(p, D, Records),
             installrefs |-> [n \in DOMAIN p.installrefs |->
                                 UpdatedReference(p.installrefs[n], D, Records)]]
    BY <1>1, <1>2, UpdatedFacts
  <2> HIDE DEF q
  <2>2. QED BY <2>1
<1> HIDE DEF q
<1>4. \A n \in DOMAIN p.installrefs : p.installrefs[n] \in Reference
  BY <1>1 DEF Package
<1>5. ASSUME NEW n \in DOMAIN p.installrefs
      PROVE  /\ q.installrefs[n].digest = p.installrefs[n].digest
             /\ p.installrefs[n].digest \notin D => q.installrefs[n].url = p.installrefs[n].url
             /\ p.installrefs[n].digest \in D => q.installrefs[n].url.by # Origin
  <2>1. CASE p.installrefs[n].digest \in D
    <3>1. q.installrefs[n] =
             [p.installrefs[n] EXCEPT !.url = ClaimedUrl(p.installrefs[n].digest, Records)]
      BY <1>3, <2>1 DEF UpdatedReference
    <3>2. ClaimedUrl(p.installrefs[n].digest, Records).by # Origin
      BY <2>1, ClaimedUrlType
    <3>3. QED BY <1>4, <2>1, <3>1, <3>2 DEF Reference
  <2>2. CASE p.installrefs[n].digest \notin D
    BY <1>3, <2>2 DEF UpdatedReference
  <2>3. QED BY <2>1, <2>2
<1>6. /\ Selected(p) = {} => q.installref = p.installref
      /\ \A n \in Selected(p) :
            /\ p.installrefs[n].digest \notin D => q.installref = p.installref
            /\ p.installrefs[n].digest \in D => q.installref.by # Origin
  <2>1. Selected(p) = {} => q.installref = p.installref
    BY <1>1, <1>2, <1>3, UpdatedUrlFacts
  <2>2. ASSUME NEW n \in Selected(p)
        PROVE  /\ p.installrefs[n].digest \notin D => q.installref = p.installref
               /\ p.installrefs[n].digest \in D => q.installref.by # Origin
    <3>1. q.installref = IF p.installrefs[n].digest \in D
                         THEN ClaimedUrl(p.installrefs[n].digest, Records)
                         ELSE p.installref
      BY <1>1, <1>2, <1>3, UpdatedUrlFacts
    <3>2. p.installrefs[n].digest \in D =>
             ClaimedUrl(p.installrefs[n].digest, Records).by # Origin
      BY ClaimedUrlType
    <3>3. QED BY <3>1, <3>2
  <2>3. QED BY <2>1, <2>2
<1>7. ASSUME NEW n \in Selected(p), p.installrefs[n].digest \notin D
      PROVE  n \in Selected(q)
  <2>1. n \in DOMAIN q.installrefs /\ q.installrefs[n].url = q.installref
    BY <1>3, <1>5, <1>6, <1>7 DEF Selected
  <2>2. ASSUME NEW m \in DOMAIN q.installrefs, q.installrefs[m].url = q.installref
        PROVE  n <= m
    <3>1. q.installref = p.installref /\ p.installrefs[m].digest \notin D
      BY <1>1, <1>3, <1>5, <1>6, <1>7, <2>2
    <3>2. p.installrefs[m].url = p.installref
      BY <1>3, <1>5, <2>2, <3>1
    <3>3. QED BY <1>3, <3>2 DEF Selected
  <2>3. QED BY <2>1, <2>2 DEF Selected
<1>8. ASSUME NEW n \in Selected(q), q.installrefs[n].digest \notin D
      PROVE  n \in Selected(p)
  <2>1. /\ n \in DOMAIN p.installrefs /\ q.installrefs[n].url = q.installref
        /\ q.installrefs[n].url = p.installrefs[n].url
    BY <1>3, <1>5, <1>8 DEF Selected
  <2>2. q.installref = p.installref
    BY <1>1, <1>6, <2>1
  <2>3. PICK k \in Selected(p) : k <= n
    BY <1>1, <2>1, <2>2, SelectedExists
  <2>4. p.installrefs[k].digest \notin D
    BY <1>1, <1>6, <2>2
  <2>5. k \in Selected(q)
    BY <1>7, <2>4
  <2>6. n <= k /\ n \in Nat /\ k \in Nat
    BY <1>1, <1>3, <2>3, <2>5 DEF Selected
  <2>7. QED BY <2>3, <2>6
<1>9. d \in SelectedDigests(q) <=> d \in SelectedDigests(p)
  BY <1>3, <1>5, <1>7, <1>8 DEF SelectedDigests, Selected
<1>10. QED BY <1>9 DEF q

\* Replacing one more digest is updating with it.
LEMMA ReplacedUpdated ==
    ASSUME WellFormed(input), NEW i \in Indexes, NEW p \in input.bootstrap[i],
           NEW D \in SUBSET Claimed(Records), NEW d \in Claimed(Records) \ D
    PROVE  Replaced(Updated(p, D, Records), d, ClaimedUrl(d, Records))
               = Updated(p, D \cup {d}, Records)
<1> DEFINE q == Updated(p, D, Records)
           url == ClaimedUrl(d, Records)
<1>1. p \in Package /\ D \in SUBSET Digests /\ d \in Digests \ D /\ D \cup {d} \in SUBSET Digests
  BY InputFacts DEF Claimed
<1>2. q = [key |-> p.key, extension |-> p.extension,
           installref |-> UpdatedUrl(p, D, Records),
           installrefs |-> [n \in DOMAIN p.installrefs |->
                               UpdatedReference(p.installrefs[n], D, Records)]]
  BY <1>1, UpdatedFacts
<1>3. Updated(p, D \cup {d}, Records) =
         [key |-> p.key, extension |-> p.extension,
          installref |-> UpdatedUrl(p, D \cup {d}, Records),
          installrefs |-> [n \in DOMAIN p.installrefs |->
                              UpdatedReference(p.installrefs[n], D \cup {d}, Records)]]
  BY <1>1, UpdatedFacts
<1>4. d \in SelectedDigests(q) <=> d \in SelectedDigests(p)
  BY <1>1, SelectionStays
<1>5. (IF d \in SelectedDigests(q) THEN url ELSE q.installref)
      = UpdatedUrl(p, D \cup {d}, Records)
  <2>0. q.installref = UpdatedUrl(p, D, Records)
    BY <1>2
  <2>1. CASE d \in SelectedDigests(p)
    <3>1. PICK n \in Selected(p) : p.installrefs[n].digest = d
      BY <2>1 DEF SelectedDigests
    <3>2. UpdatedUrl(p, D \cup {d}, Records) = url
      BY <1>1, <3>1, UpdatedUrlFacts
    <3>3. QED BY <1>4, <2>1, <3>2
  <2>2. CASE d \notin SelectedDigests(p)
    <3>1. SelectedDigests(p) \cap (D \cup {d}) = SelectedDigests(p) \cap D
      BY <2>2
    <3>2. UpdatedUrl(p, D \cup {d}, Records) = UpdatedUrl(p, D, Records)
      BY <3>1 DEF UpdatedUrl
    <3>3. QED BY <1>4, <2>0, <2>2, <3>2
  <2>3. QED BY <2>1, <2>2
<1>6. ASSUME NEW n \in DOMAIN p.installrefs
      PROVE  (IF q.installrefs[n].digest = d THEN [q.installrefs[n] EXCEPT !.url = url]
              ELSE q.installrefs[n])
             = UpdatedReference(p.installrefs[n], D \cup {d}, Records)
  <2>1. p.installrefs[n] \in Reference
    BY <1>1 DEF Package
  <2>2. q.installrefs[n] = UpdatedReference(p.installrefs[n], D, Records)
    BY <1>2
  <2>3. q.installrefs[n].digest = p.installrefs[n].digest
    BY <2>1, <2>2 DEF UpdatedReference, Reference
  <2>4. QED BY <1>1, <2>2, <2>3 DEF UpdatedReference
<1>7. Replaced(q, d, url) =
         [key |-> p.key, extension |-> p.extension,
          installref |-> IF d \in SelectedDigests(q) THEN url ELSE q.installref,
          installrefs |-> [n \in DOMAIN p.installrefs |->
              IF q.installrefs[n].digest = d THEN [q.installrefs[n] EXCEPT !.url = url]
              ELSE q.installrefs[n]]]
  <2> HIDE DEF q, url
  <2>1. DOMAIN q.installrefs = DOMAIN p.installrefs
    BY <1>2
  <2>2. /\ q = [key |-> q.key, extension |-> q.extension,
                installref |-> q.installref, installrefs |-> q.installrefs]
        /\ q.key = p.key /\ q.extension = p.extension
    BY <1>2
  <2> DEFINE a == IF d \in SelectedDigests(q) THEN url ELSE q.installref
             b == [n \in DOMAIN q.installrefs |->
                      IF q.installrefs[n].digest = d THEN [q.installrefs[n] EXCEPT !.url = url]
                      ELSE q.installrefs[n]]
  <2>3. Replaced(q, d, url) = [q EXCEPT !.installref = a, !.installrefs = b]
    BY DEF Replaced
  <2>4. b = [n \in DOMAIN p.installrefs |->
                IF q.installrefs[n].digest = d THEN [q.installrefs[n] EXCEPT !.url = url]
                ELSE q.installrefs[n]]
    BY <2>1
  <2> HIDE DEF a, b
  <2>5. Replaced(q, d, url) = [key |-> q.key, extension |-> q.extension,
                               installref |-> a, installrefs |-> b]
    BY <2>2, <2>3, PackageFields
  <2>6. QED BY <2>2, <2>4, <2>5 DEF a
<1>8. QED BY <1>3, <1>5, <1>6, <1>7

-----------------------------------------------------------------------------
(* Sets of records.                                                         *)

\* A bootstrap package in a composition, and what it may stand next to.
LEMMA ComposedFacts ==
    ASSUME WellFormed(input), NEW records \in SUBSET Records, NEW i \in Indexes
    PROVE  /\ \A p \in input.bootstrap[i] :
                 /\ p \in Package
                 /\ Updated(p, Claimed(records), records) \in Composed(records)[i]
                 /\ Identity(Updated(p, Claimed(records), records)) = Identity(p)
                 /\ Updated(p, Claimed(records), records).key = p.key
           /\ \A r \in records : IndexesOf(r)[i] \subseteq Composed(records)[i]
<1>1. Claimed(records) \in SUBSET Digests
  BY DEF Claimed
<1>2. ASSUME NEW p \in input.bootstrap[i]
      PROVE  /\ p \in Package
             /\ Identity(Updated(p, Claimed(records), records)) = Identity(p)
             /\ Updated(p, Claimed(records), records).key = p.key
  <2>1. p \in Package
    BY InputFacts
  <2>2. QED BY <1>1, <2>1, UpdatedFacts
<1>3. QED BY <1>2 DEF Composed

\* More records claim more, and an uncontested claim stays what it was.
LEMMA ClaimsGrow ==
    ASSUME WellFormed(input), NEW more \in SUBSET Records, NEW records \in SUBSET more,
           ~Contested(more)
    PROVE  /\ ~Contested(records)
           /\ Claimed(records) \subseteq Claimed(more)
           /\ \A d \in Claimed(more) :
                 ClaimedUrl(d, more).by \in records =>
                    /\ d \in Claimed(records)
                    /\ ClaimedUrl(d, records) = ClaimedUrl(d, more)
<1>1. \A d : Claimants(d, records) \subseteq Claimants(d, more)
  BY DEF Claimants
<1>2. ~Contested(records) /\ Claimed(records) \subseteq Claimed(more)
  BY <1>1 DEF Contested, Claimed
<1>3. ASSUME NEW d \in Claimed(more), ClaimedUrl(d, more).by \in records
      PROVE  d \in Claimed(records) /\ ClaimedUrl(d, records) = ClaimedUrl(d, more)
  <2> DEFINE r == ClaimedUrl(d, more).by
  <2>1. r \in Claimants(d, more) /\ d \in Digests
    BY ClaimedUrlType DEF Claimed
  <2>2. r \in Claimants(d, records)
    BY <1>3, <2>1 DEF Claimants
  <2> HIDE DEF r
  <2>3. ClaimedUrl(d, more) = ReplacementsOf(r)[d]
    BY <2>1, ClaimedUrlIs
  <2>4. ClaimedUrl(d, records) = ReplacementsOf(r)[d]
    BY <1>2, <2>1, <2>2, ClaimedUrlIs
  <2>5. QED BY <2>1, <2>2, <2>3, <2>4 DEF Claimed
<1>4. QED BY <1>2, <1>3

\* A package all of whose URLs one of the records owns was updated by that record
\* alone.
LEMMA OwnedUpdate ==
    ASSUME WellFormed(input), NEW more \in SUBSET Records, NEW records \in SUBSET more,
           ~Contested(more), NEW i \in Indexes, NEW p \in input.bootstrap[i],
           NEW r \in records,
           \A url \in UrlsOf(Updated(p, Claimed(more), more)) : url.by = r
    PROVE  Updated(p, Claimed(more), more) = Updated(p, Claimed(records), records)
<1> DEFINE q == Updated(p, Claimed(more), more)
<1>1. /\ p \in Package /\ r # Origin /\ p.installref.by = Origin
      /\ \A n \in DOMAIN p.installrefs : p.installrefs[n].url.by = Origin
      /\ Claimed(more) \in SUBSET Digests /\ Claimed(records) \in SUBSET Digests
  BY InputFacts, CompositionAssumption DEF UrlsOf, Claimed
<1>2. q = [key |-> p.key, extension |-> p.extension,
           installref |-> UpdatedUrl(p, Claimed(more), more),
           installrefs |-> [n \in DOMAIN p.installrefs |->
                               UpdatedReference(p.installrefs[n], Claimed(more), more)]]
  BY <1>1, UpdatedFacts
<1>3. /\ UpdatedUrl(p, Claimed(more), more).by = r
      /\ \A n \in DOMAIN p.installrefs :
            UpdatedReference(p.installrefs[n], Claimed(more), more).url.by = r
  <2>1. \A url \in UrlsOf(q) : url.by = r
    OBVIOUS
  <2> HIDE DEF q
  <2>2. QED BY <1>2, <2>1 DEF UrlsOf
<1>4. ASSUME NEW n \in DOMAIN p.installrefs
      PROVE  /\ p.installrefs[n].digest \in Claimed(more)
             /\ ClaimedUrl(p.installrefs[n].digest, more).by = r
  <2>1. p.installrefs[n] \in Reference
    BY <1>1 DEF Package
  <2>2. p.installrefs[n].digest \in Claimed(more)
    BY <1>1, <1>3 DEF UpdatedReference
  <2>3. UpdatedReference(p.installrefs[n], Claimed(more), more).url
        = ClaimedUrl(p.installrefs[n].digest, more)
    BY <2>1, <2>2 DEF UpdatedReference, Reference
  <2>4. QED BY <1>3, <2>2, <2>3
<1>5. \A n \in DOMAIN p.installrefs :
         /\ p.installrefs[n].digest \in Claimed(records)
         /\ ClaimedUrl(p.installrefs[n].digest, records)
            = ClaimedUrl(p.installrefs[n].digest, more)
  BY <1>4, ClaimsGrow
<1>6. \A n \in DOMAIN p.installrefs :
         UpdatedReference(p.installrefs[n], Claimed(more), more)
         = UpdatedReference(p.installrefs[n], Claimed(records), records)
  BY <1>4, <1>5 DEF UpdatedReference
<1>7. UpdatedUrl(p, Claimed(more), more) = UpdatedUrl(p, Claimed(records), records)
  <2>1. PICK n \in Selected(p) : TRUE
    BY <1>1, <1>3, UpdatedUrlFacts
  <2>2. n \in DOMAIN p.installrefs
    BY <2>1 DEF Selected
  <2>3. UpdatedUrl(p, Claimed(more), more) = ClaimedUrl(p.installrefs[n].digest, more)
    BY <1>1, <1>4, <2>1, <2>2, UpdatedUrlFacts
  <2>4. UpdatedUrl(p, Claimed(records), records)
        = ClaimedUrl(p.installrefs[n].digest, records)
    BY <1>1, <1>5, <2>1, <2>2, UpdatedUrlFacts
  <2>5. QED BY <1>5, <2>2, <2>3, <2>4
<1>8. Updated(p, Claimed(records), records) =
         [key |-> p.key, extension |-> p.extension,
          installref |-> UpdatedUrl(p, Claimed(records), records),
          installrefs |-> [n \in DOMAIN p.installrefs |->
                              UpdatedReference(p.installrefs[n], Claimed(records), records)]]
  BY <1>1, UpdatedFacts
<1>9. QED BY <1>2, <1>6, <1>7, <1>8

\* Two packages that cannot stand in one index.
Clash(p, q) == p # q /\ (Identity(p) = Identity(q) \/ p.key = q.key)

\* More records never resolve a conflict: what the gathered and committed records
\* cannot be composed for stays so until one of them is withdrawn.
THEOREM ConflictsPersist ==
    ASSUME WellFormed(input), NEW more \in SUBSET Records, NEW records \in SUBSET more,
           Conflict(records)
    PROVE  Conflict(more)
<1>1. CASE Contested(more)
  BY <1>1 DEF Conflict
<1>2. CASE ~Contested(more) /\ \E d \in Claimed(records) : ~Placed(d)
  BY <1>2, ClaimsGrow DEF Conflict
<1>3. CASE ~Contested(more) /\ ~\E d \in Claimed(records) : ~Placed(d)
  <2>1. ~Contested(records)
    BY <1>3, ClaimsGrow
  <2>2. PICK i \in Indexes : \E p, q \in Composed(records)[i] : Clash(p, q)
    BY <1>3, <2>1 DEF Conflict, Clash
  <2> DEFINE old(p) == Updated(p, Claimed(records), records)
             new(p) == Updated(p, Claimed(more), more)
             added(p) == \E r \in records : p \in IndexesOf(r)[i]
             same(p, q) == Identity(p) = Identity(q) \/ p.key = q.key
  <2>3. \A p \in Composed(records)[i] :
           added(p) \/ \E b \in input.bootstrap[i] : p = old(b)
    BY DEF Composed
  <2>4. /\ \A p : added(p) => p \in Composed(more)[i]
        /\ \A b \in input.bootstrap[i] :
              /\ new(b) \in Composed(more)[i]
              /\ Identity(new(b)) = Identity(b) /\ Identity(old(b)) = Identity(b)
              /\ new(b).key = b.key /\ old(b).key = b.key
    BY ComposedFacts
  <2>5. ASSUME NEW p, NEW q, added(p), added(q), Clash(p, q)
        PROVE  Conflict(more)
    BY <2>4, <2>5 DEF Conflict, Clash
  <2>6. ASSUME NEW b \in input.bootstrap[i], NEW c \in input.bootstrap[i],
               Clash(old(b), old(c))
        PROVE  Conflict(more)
    <3>1. b.key # c.key
      BY <2>6, InputFacts DEF Clash
    <3>2. new(b) # new(c) /\ same(new(b), new(c))
      BY <2>4, <2>6, <3>1 DEF Clash
    <3>3. QED BY <2>4, <3>2 DEF Conflict
  <2>7. ASSUME NEW b \in input.bootstrap[i], NEW q, added(q), old(b) # q, same(old(b), q)
        PROVE  Conflict(more)
    <3>1. PICK r \in records : q \in IndexesOf(r)[i]
      BY <2>7
    <3>2. \A url \in UrlsOf(q) : url.by = r
      BY <3>1, InputFacts DEF Fragments
    <3>3. new(b) # q
      BY <1>3, <2>7, <3>2, OwnedUpdate
    <3>4. same(new(b), q)
      BY <2>4, <2>7
    <3>5. new(b) \in Composed(more)[i] /\ q \in Composed(more)[i]
      BY <2>4, <2>7
    <3>6. QED BY <3>3, <3>4, <3>5 DEF Conflict
  <2>8. PICK p \in Composed(records)[i], q \in Composed(records)[i] : Clash(p, q)
    BY <2>2
  <2> HIDE DEF old, new, added
  <2>9. QED BY <2>3, <2>5, <2>6, <2>7, <2>8 DEF Clash
<1>4. QED BY <1>1, <1>2, <1>3

\* A package of which one of the records claims every reference is updated by that
\* record alone, whatever else is composed.
LEMMA OwnUpdateStays ==
    ASSUME WellFormed(input), NEW more \in SUBSET Records, NEW records \in SUBSET more,
           ~Contested(more), NEW i \in Indexes, NEW p \in input.bootstrap[i],
           NEW r \in records,
           \A url \in UrlsOf(Updated(p, Claimed(records), records)) : url.by = r
    PROVE  Updated(p, Claimed(more), more) = Updated(p, Claimed(records), records)
<1> DEFINE q == Updated(p, Claimed(records), records)
<1>1. /\ p \in Package /\ r # Origin /\ p.installref.by = Origin
      /\ \A n \in DOMAIN p.installrefs : p.installrefs[n].url.by = Origin
      /\ Claimed(more) \in SUBSET Digests /\ Claimed(records) \in SUBSET Digests
  BY InputFacts, CompositionAssumption DEF UrlsOf, Claimed
<1>2. q = [key |-> p.key, extension |-> p.extension,
           installref |-> UpdatedUrl(p, Claimed(records), records),
           installrefs |-> [n \in DOMAIN p.installrefs |->
                               UpdatedReference(p.installrefs[n], Claimed(records), records)]]
  BY <1>1, UpdatedFacts
<1>3. /\ UpdatedUrl(p, Claimed(records), records).by = r
      /\ \A n \in DOMAIN p.installrefs :
            UpdatedReference(p.installrefs[n], Claimed(records), records).url.by = r
  <2>1. \A url \in UrlsOf(q) : url.by = r
    OBVIOUS
  <2> HIDE DEF q
  <2>2. QED BY <1>2, <2>1 DEF UrlsOf
<1>4. \A n \in DOMAIN p.installrefs : p.installrefs[n].digest \in Claimed(records)
  BY <1>1, <1>3 DEF UpdatedReference
<1>5. ASSUME NEW d \in Claimed(records)
      PROVE  d \in Claimed(more) /\ ClaimedUrl(d, records) = ClaimedUrl(d, more)
  <2>1. PICK s \in Claimants(d, records) : TRUE
    BY <1>5 DEF Claimed
  <2>2. s \in Claimants(d, more) /\ d \in Digests
    BY <1>5, <2>1 DEF Claimants, Claimed
  <2>3. ~Contested(records) /\ d \in Claimed(more)
    BY <1>5, ClaimsGrow
  <2>4. ClaimedUrl(d, records) = ReplacementsOf(s)[d]
    BY <2>1, <2>2, <2>3, ClaimedUrlIs
  <2>5. ClaimedUrl(d, more) = ReplacementsOf(s)[d]
    BY <2>2, ClaimedUrlIs
  <2>6. QED BY <2>3, <2>4, <2>5
<1>6. \A n \in DOMAIN p.installrefs :
         UpdatedReference(p.installrefs[n], Claimed(more), more)
         = UpdatedReference(p.installrefs[n], Claimed(records), records)
  BY <1>4, <1>5 DEF UpdatedReference
<1>7. UpdatedUrl(p, Claimed(more), more) = UpdatedUrl(p, Claimed(records), records)
  <2>1. PICK n \in Selected(p) : TRUE
    BY <1>1, <1>3, UpdatedUrlFacts
  <2>2. n \in DOMAIN p.installrefs
    BY <2>1 DEF Selected
  <2>3. UpdatedUrl(p, Claimed(more), more) = ClaimedUrl(p.installrefs[n].digest, more)
    BY <1>1, <1>4, <1>5, <2>1, <2>2, UpdatedUrlFacts
  <2>4. UpdatedUrl(p, Claimed(records), records)
        = ClaimedUrl(p.installrefs[n].digest, records)
    BY <1>1, <1>4, <2>1, <2>2, UpdatedUrlFacts
  <2>5. QED BY <1>4, <1>5, <2>2, <2>3, <2>4
<1>8. Updated(p, Claimed(more), more) =
         [key |-> p.key, extension |-> p.extension,
          installref |-> UpdatedUrl(p, Claimed(more), more),
          installrefs |-> [n \in DOMAIN p.installrefs |->
                              UpdatedReference(p.installrefs[n], Claimed(more), more)]]
  BY <1>1, UpdatedFacts
<1>9. QED BY <1>2, <1>6, <1>7, <1>8

\* If the bootstrap does not conflict with itself, a conflict of any number of
\* records is already one of two of them, or of one alone.
LEMMA ConflictIsOfTwo ==
    ASSUME WellFormed(input), NEW records \in SUBSET Records,
           Conflict(records), ~Conflict({})
    PROVE  \E r, s \in records : Conflict({r, s})
<1>1. CASE Contested(records)
  <2>1. PICK d \in Digests : \E r, s \in Claimants(d, records) : r # s
    BY <1>1 DEF Contested
  <2>2. PICK r \in Claimants(d, records), s \in Claimants(d, records) : r # s
    BY <2>1
  <2>3. r \in records /\ s \in records
        /\ r \in Claimants(d, {r, s}) /\ s \in Claimants(d, {r, s})
    BY DEF Claimants
  <2>4. Contested({r, s})
    BY <2>2, <2>3 DEF Contested
  <2>5. QED BY <2>3, <2>4 DEF Conflict
<1>2. CASE \E d \in Claimed(records) : ~Placed(d)
  <2>1. PICK d \in Claimed(records) : ~Placed(d)
    BY <1>2
  <2>2. PICK r \in Claimants(d, records) : TRUE
    BY DEF Claimed
  <2>3. r \in records /\ r \in Claimants(d, {r, r}) /\ d \in Digests
    BY DEF Claimants, Claimed
  <2>4. d \in Claimed({r, r})
    BY <2>3 DEF Claimed
  <2>5. QED BY <2>1, <2>3, <2>4 DEF Conflict
<1>3. CASE ~Contested(records) /\ ~\E d \in Claimed(records) : ~Placed(d)
  <2>1. PICK i \in Indexes : \E p, q \in Composed(records)[i] : Clash(p, q)
    BY <1>3 DEF Conflict, Clash
  <2> DEFINE new(p) == Updated(p, Claimed(records), records)
             alone(p, r) == Updated(p, Claimed({r, r}), {r, r})
             none(p) == Updated(p, Claimed({}), {})
             added(p) == \E r \in records : p \in IndexesOf(r)[i]
             same(p, q) == Identity(p) = Identity(q) \/ p.key = q.key
  <2>2. \A p \in Composed(records)[i] :
           added(p) \/ \E b \in input.bootstrap[i] : p = new(b)
    BY DEF Composed
  <2>3. \A b \in input.bootstrap[i] :
           /\ Identity(new(b)) = Identity(b) /\ new(b).key = b.key
           /\ Identity(none(b)) = Identity(b) /\ none(b).key = b.key
           /\ none(b) \in Composed({})[i]
    <3>1. {} \in SUBSET Records
      OBVIOUS
    <3>2. QED BY <3>1, ComposedFacts
  <2>4. ASSUME NEW p, NEW q, added(p), added(q), Clash(p, q)
        PROVE  \E r, s \in records : Conflict({r, s})
    <3>1. PICK r \in records, s \in records : p \in IndexesOf(r)[i] /\ q \in IndexesOf(s)[i]
      BY <2>4
    <3>2. {r, s} \in SUBSET Records
      OBVIOUS
    <3>3. p \in Composed({r, s})[i] /\ q \in Composed({r, s})[i]
      BY <3>1, <3>2, ComposedFacts
    <3>4. QED BY <2>4, <3>3 DEF Conflict, Clash
  <2>5. ASSUME NEW b \in input.bootstrap[i], NEW c \in input.bootstrap[i],
               Clash(new(b), new(c))
        PROVE  FALSE
    <3>1. b.key # c.key
      BY <2>5, InputFacts DEF Clash
    <3>2. none(b) # none(c) /\ same(none(b), none(c))
      BY <2>3, <2>5, <3>1 DEF Clash
    <3>3. QED BY <2>3, <3>2 DEF Conflict
  <2>6. ASSUME NEW b \in input.bootstrap[i], NEW q, added(q), new(b) # q, same(new(b), q)
        PROVE  \E r, s \in records : Conflict({r, s})
    <3>1. PICK r \in records : q \in IndexesOf(r)[i]
      BY <2>6
    <3>2. \A url \in UrlsOf(q) : url.by = r
      BY <3>1, InputFacts DEF Fragments
    <3>3. {r, r} \in SUBSET records /\ {r, r} \in SUBSET Records
      OBVIOUS
    <3>4. alone(b, r) # q
      BY <1>3, <2>6, <3>2, <3>3, OwnUpdateStays
    <3>5. /\ Identity(alone(b, r)) = Identity(b) /\ alone(b, r).key = b.key
          /\ alone(b, r) \in Composed({r, r})[i] /\ q \in Composed({r, r})[i]
      BY <3>1, <3>3, ComposedFacts
    <3>6. same(alone(b, r), q)
      BY <2>3, <2>6, <3>5
    <3>7. Conflict({r, r})
      BY <3>4, <3>5, <3>6 DEF Conflict
    <3>8. QED BY <3>7
  <2>7. PICK p \in Composed(records)[i], q \in Composed(records)[i] : Clash(p, q)
    BY <2>1
  <2> HIDE DEF new, alone, none, added
  <2>8. QED BY <2>2, <2>4, <2>5, <2>6, <2>7 DEF Clash
<1>4. QED BY <1>1, <1>2, <1>3

\* Whether records compose over a bootstrap that does is decided by every two of
\* them: what conflicts can be given as a set of pairs, as Promotion has it.
THEOREM ConflictsArePairs ==
    ASSUME WellFormed(input), NEW records \in SUBSET Records, ~Conflict({})
    PROVE  Conflict(records) <=> \E r, s \in records : Conflict({r, s})
<1>1. ASSUME NEW r \in records, NEW s \in records, Conflict({r, s})
      PROVE  Conflict(records)
  <2>1. {r, s} \in SUBSET records
    OBVIOUS
  <2>2. QED BY <1>1, <2>1, ConflictsPersist
<1>2. QED BY <1>1, ConflictIsOfTwo

-----------------------------------------------------------------------------
(* The steps.                                                               *)

\* The input never changes, so nothing that is read off it does.
LEMMA InputConstant ==
    ASSUME input' = input
    PROVE  /\ Claimed(Records)' = Claimed(Records)
           /\ \A S : \A d : Claimants(d, S)' = Claimants(d, S)
           /\ Contested(Records)' <=> Contested(Records)
           /\ \A d : Placed(d)' <=> Placed(d)
           /\ \A D, S : Bucket(D, S)' = Bucket(D, S)
           /\ Composed(Records)' = Composed(Records)
           /\ Conflict(Records)' <=> Conflict(Records)
<1>1. \A r : ReplacementsOf(r)' = ReplacementsOf(r) /\ IndexesOf(r)' = IndexesOf(r)
  BY DEF ReplacementsOf, IndexesOf
<1>2. \A S : \A d : Claimants(d, S)' = Claimants(d, S)
  BY <1>1 DEF Claimants
<1>3. \A S : Claimed(S)' = Claimed(S)
  BY <1>2 DEF Claimed
<1>4. \A S : \A d : ClaimedUrl(d, S)' = ClaimedUrl(d, S)
  BY <1>1, <1>2 DEF ClaimedUrl
<1>5. \A p, D, S : Updated(p, D, S)' = Updated(p, D, S)
  <2>1. \A ref, D, S : UpdatedReference(ref, D, S)' = UpdatedReference(ref, D, S)
    BY <1>4 DEF UpdatedReference
  <2>2. \A p, D, S : UpdatedUrl(p, D, S)' = UpdatedUrl(p, D, S)
    BY <1>4 DEF UpdatedUrl
  <2>3. QED BY <2>1, <2>2 DEF Updated
<1>6. \A d : Placed(d)' <=> Placed(d)
  BY DEF Placed, Locations
<1>7. Contested(Records)' <=> Contested(Records)
  BY <1>2 DEF Contested
<1>8. \A D, S : Bucket(D, S)' = Bucket(D, S)
  BY <1>1, <1>5 DEF Bucket
<1>9. Composed(Records)' = Composed(Records)
  BY <1>1, <1>3, <1>5 DEF Composed
<1>10. Conflict(Records)' <=> Conflict(Records)
  BY <1>3, <1>6, <1>7, <1>9 DEF Conflict
<1>11. QED BY <1>2, <1>3, <1>6, <1>7, <1>8, <1>9, <1>10

\* The invariant of a state with other control and indexes over the same input.
Holds(ph, left, claims, open, made) ==
    /\ WellFormed(input)
    /\ ph \in {"copy", "claim", "replace", "add", "done", "failed"}
    /\ left \subseteq Records
    /\ ph = "copy" => left = Records /\ claims = [d \in Digests |-> {}]
    /\ ph = "claim" => claims = [d \in Digests |-> Claimants(d, Records \ left)]
    /\ ph = "replace" =>
          /\ open \subseteq Claimed(Records)
          /\ claims = [d \in Digests |-> Claimants(d, Records)]
    /\ ph \in {"replace", "add", "done"} =>
          /\ ~Contested(Records)
          /\ \A d \in Claimed(Records) \ open : Placed(d)
    /\ ph \in {"claim", "replace", "add", "done"} => NoContest(input.bootstrap)
    /\ ph = "claim" => made = input.bootstrap
    /\ ph = "replace" => made = Bucket(Claimed(Records) \ open, {})
    /\ ph \in {"add", "done"} => /\ open = {}
                                 /\ made = Bucket(Claimed(Records), Records \ left)
                                 /\ NoContest(made)
    /\ ph = "done" => left = {} /\ made = Composed(Records) /\ ~Conflict(Records)
    /\ ph = "failed" => Conflict(Records)

\* The invariant speaks of the input and of the state; only the state changes.
LEMMA HoldsNext ==
    ASSUME input' = input, Holds(phase', todo', claimants', pending', packages')
    PROVE  IInv'
<1>1. NoContest(packages)' <=> NoContest(packages')
  BY DEF NoContest, Contests, Identity
<1>2. NoContest(input.bootstrap)' <=> NoContest(input.bootstrap)
  BY DEF NoContest, Contests, Identity
<1>3. QED BY <1>1, <1>2, InputConstant DEF Holds, IInv, OutputIsDeclared, FailsOnlyOnConflict

\* A composition that has not begun.
LEMMA InvInit == Init => IInv
BY CompositionAssumption DEF Init, IInv, OutputIsDeclared, FailsOnlyOnConflict

\* A composition that gives up says only that there is a conflict.
LEMMA InvFail ==
    ASSUME IInv, Fail, input' = input, Conflict(Records)
    PROVE  IInv'
BY InputConstant DEF Fail, IInv, OutputIsDeclared, FailsOnlyOnConflict

\* Two bootstrap packages of one identity clash in every composition.
LEMMA InvCopy ==
    ASSUME IInv, Copy
    PROVE  IInv'
<1> USE DEF Copy
<1>1. CASE \E i \in Indexes : \E p, q \in input.bootstrap[i] : Contests(p, q)
  <2>1. PICK i \in Indexes : \E p, q \in input.bootstrap[i] : Contests(p, q)
    BY <1>1
  <2>2. PICK p \in input.bootstrap[i], q \in input.bootstrap[i] : Contests(p, q)
    BY <2>1
  <2>3. p.key # q.key
    BY <2>2, InputFacts DEF IInv, Contests
  <2>4. Conflict(Records)
    BY <2>2, <2>3, ComposedFacts DEF IInv, Contests, Conflict
  <2>5. QED BY <1>1, <2>4, InvFail
<1>2. CASE ~\E i \in Indexes : \E p, q \in input.bootstrap[i] : Contests(p, q)
  <2>1. \A d : Claimants(d, Records \ Records) = {}
    BY DEF Claimants
  <2>2. claimants' = [d \in Digests |-> Claimants(d, Records \ todo')]
    BY <1>2, <2>1 DEF IInv
  <2>3. NoContest(input.bootstrap)
    BY <1>2 DEF NoContest
  <2>4. QED BY <1>2, <2>2, <2>3, HoldsNext DEF IInv, Holds
<1>3. QED BY <1>1, <1>2

\* One more record's claims are collected.
LEMMA InvClaim ==
    ASSUME IInv, NEW r \in Records, Claim(r)
    PROVE  IInv'
<1> USE DEF Claim
<1>1. \A d \in Digests : claimants'[d] = Claimants(d, Records \ todo')
  BY DEF IInv, Claimants
<1>2. claimants' = [d \in Digests |-> Claimants(d, Records \ todo')]
  BY <1>1
<1>3. QED BY <1>2, HoldsNext DEF IInv, Holds

\* The claims are complete; nothing is replaced yet.
LEMMA InvCheckClaims ==
    ASSUME IInv, CheckClaims
    PROVE  IInv'
<1> USE DEF CheckClaims
<1>1. claimants = [d \in Digests |-> Claimants(d, Records)] /\ Records \ todo = Records
  BY DEF IInv
<1>2. CASE \E d \in Digests : \E r, s \in claimants[d] : r # s
  BY <1>1, <1>2, InvFail DEF Conflict, Contested
<1>3. CASE ~\E d \in Digests : \E r, s \in claimants[d] : r # s
  <2>1. ~Contested(Records) /\ pending' = Claimed(Records)
    BY <1>1, <1>3 DEF Contested, Claimed
  <2>2. \A i \in Indexes : \A p \in input.bootstrap[i] : Updated(p, {}, Records) = p
    BY InputFacts, UpdatedNothing DEF IInv
  <2>3. \A i \in Indexes : Bucket({}, {})[i] = input.bootstrap[i]
    BY <2>2 DEF Bucket
  <2>4. Bucket({}, {}) = input.bootstrap
    BY <2>3, InputFacts DEF IInv, Bucket
  <2>5. Claimed(Records) \ pending' = {}
    BY <2>1
  <2>6. packages' = Bucket(Claimed(Records) \ pending', {})
    BY <1>3, <2>4, <2>5 DEF IInv
  <2>7. QED BY <1>1, <1>3, <2>1, <2>5, <2>6, HoldsNext DEF IInv, Holds
<1>4. QED BY <1>2, <1>3

\* The package at the digest's only place is updated, and no other could be.
LEMMA ReplaceOne ==
    ASSUME IInv, phase = "replace", NEW d \in pending, Placed(d),
           NEW r \in claimants[d], NEW location \in Locations(d),
           NEW p \in packages[location[1]], Identity(p) = Identity(location[2])
    PROVE  [packages EXCEPT ![location[1]] =
               (@ \ {p}) \cup {Replaced(p, d, ReplacementsOf(r)[d])}]
           = Bucket(Claimed(Records) \ (pending \ {d}), {})
<1> DEFINE D == Claimed(Records) \ pending
           i == location[1]
           b == location[2]
<1>1. /\ WellFormed(input) /\ ~Contested(Records) /\ NoContest(input.bootstrap)
      /\ packages = Bucket(D, {})
      /\ d \in Claimed(Records) \ D /\ D \in SUBSET Claimed(Records)
      /\ Claimed(Records) \ (pending \ {d}) = D \cup {d}
      /\ D \in SUBSET Digests /\ d \in Digests
      /\ r \in Claimants(d, Records)
  BY DEF IInv, Claimed
<1>2. \A j \in Indexes : packages[j] = {Updated(q, D, Records) : q \in input.bootstrap[j]}
  BY <1>1 DEF Bucket
<1>3. /\ i \in Indexes /\ b \in input.bootstrap[i]
      /\ \A j \in Indexes : \A q \in input.bootstrap[j] : \A n \in DOMAIN q.installrefs :
            q.installrefs[n].digest = d => j = i /\ q = b
  <2>1. Locations(d) = {location}
    BY DEF Placed
  <2>2. \A j \in Indexes : \A q \in input.bootstrap[j] : \A n \in DOMAIN q.installrefs :
           q.installrefs[n].digest = d => <<j, q, n>> = location
    <3> SUFFICES ASSUME NEW j \in Indexes, NEW q \in input.bootstrap[j],
                        NEW n \in DOMAIN q.installrefs, q.installrefs[n].digest = d
                 PROVE  <<j, q, n>> \in Locations(d)
      BY <2>1
    <3>1. <<j, q, n>> \in {<<j, q, m>> : m \in Carries(q, d)}
      BY DEF Carries
    <3>2. <<j, q, n>> \in UNION {{<<j, c, m>> : m \in Carries(c, d)} : c \in input.bootstrap[j]}
      BY <3>1
    <3>3. QED BY <3>2 DEF Locations
  <2>3. PICK j \in Indexes : \E q \in input.bootstrap[j] : \E n \in Carries(q, d) :
           location = <<j, q, n>>
    BY DEF Locations
  <2>4. PICK q \in input.bootstrap[j] : \E n \in Carries(q, d) : location = <<j, q, n>>
    BY <2>3
  <2>5. i = j /\ b = q
    BY <2>4
  <2>6. \A k \in Indexes : \A c \in input.bootstrap[k] : \A n \in DOMAIN c.installrefs :
           c.installrefs[n].digest = d => k = i /\ c = b
    BY <2>2
  <2>7. QED BY <2>3, <2>4, <2>5, <2>6
<1> HIDE DEF D, i, b
<1>4. \A j \in Indexes : \A q \in input.bootstrap[j] :
         q \in Package /\ Identity(Updated(q, D, Records)) = Identity(q)
  <2>1. \A j \in Indexes : \A q \in input.bootstrap[j] : q \in Package
    BY <1>1, InputFacts
  <2>2. QED BY <1>1, <2>1, UpdatedFacts
<1>5. p = Updated(b, D, Records)
  <2>1. PICK q \in input.bootstrap[i] : p = Updated(q, D, Records)
    BY <1>2, <1>3 DEF i
  <2>2. Identity(q) = Identity(b)
    BY <1>3, <1>4, <2>1 DEF b
  <2>3. q = b
    BY <1>1, <1>3, <2>2 DEF NoContest, Contests
  <2>4. QED BY <2>1, <2>3
<1>6. Replaced(p, d, ReplacementsOf(r)[d]) = Updated(b, D \cup {d}, Records)
  <2>1. ReplacementsOf(r)[d] = ClaimedUrl(d, Records)
    BY <1>1, ClaimedUrlIs
  <2>2. QED BY <1>1, <1>3, <1>5, <2>1, ReplacedUpdated
<1>7. \A j \in Indexes : \A q \in input.bootstrap[j] :
         j # i \/ q # b => Updated(q, D \cup {d}, Records) = Updated(q, D, Records)
  BY <1>1, <1>3, <1>4, UpdatedElsewhere
<1>8. \A q \in input.bootstrap[i] : q # b => Updated(q, D, Records) # p
  BY <1>1, <1>3, <1>4, <1>5 DEF NoContest, Contests
<1>9. (packages[i] \ {p}) \cup {Updated(b, D \cup {d}, Records)}
      = {Updated(q, D \cup {d}, Records) : q \in input.bootstrap[i]}
  <2>1. \A x \in packages[i] \ {p} : \E q \in input.bootstrap[i] :
           x = Updated(q, D \cup {d}, Records)
    BY <1>2, <1>3, <1>5, <1>7
  <2>2. \A q \in input.bootstrap[i] : q # b =>
           Updated(q, D \cup {d}, Records) \in packages[i] \ {p}
    BY <1>2, <1>3, <1>7, <1>8
  <2>3. QED BY <1>3, <2>1, <2>2
<1>10. ASSUME NEW j \in Indexes, j # i
       PROVE  packages[j] = {Updated(q, D \cup {d}, Records) : q \in input.bootstrap[j]}
  <2>1. \A q \in input.bootstrap[j] :
           Updated(q, D \cup {d}, Records) = Updated(q, D, Records)
    BY <1>7, <1>10
  <2>2. packages[j] = {Updated(q, D, Records) : q \in input.bootstrap[j]}
    BY <1>2
  <2>3. QED BY <2>1, <2>2
<1>11. Bucket(D \cup {d}, {}) =
          [j \in Indexes |-> {Updated(q, D \cup {d}, Records) : q \in input.bootstrap[j]}]
  BY DEF Bucket
<1>12. [packages EXCEPT ![i] = (@ \ {p}) \cup {Updated(b, D \cup {d}, Records)}]
       = Bucket(D \cup {d}, {})
  BY <1>1, <1>3, <1>9, <1>10, <1>11 DEF Bucket
<1>13. QED BY <1>1, <1>6, <1>12 DEF i, D

\* Replacing one digest wherever it is.
LEMMA InvReplace ==
    ASSUME IInv, NEW d \in Digests, Replace(d)
    PROVE  IInv'
<1>1. d \in Claimed(Records) /\ d \in pending /\ phase = "replace" /\ input' = input
  BY DEF Replace, IInv
<1>2. CASE ~Placed(d)
  BY <1>1, <1>2, InvFail DEF Replace, Conflict
<1>3. CASE Placed(d)
  <2>1. PICK r \in claimants[d], location \in Locations(d) :
           \E p \in packages[location[1]] :
              /\ Identity(p) = Identity(location[2])
              /\ packages' = [packages EXCEPT ![location[1]] =
                     (@ \ {p}) \cup {Replaced(p, d, ReplacementsOf(r)[d])}]
              /\ pending' = pending \ {d}
              /\ UNCHANGED <<phase, todo, claimants>>
    BY <1>3 DEF Replace
  <2>2. packages' = Bucket(Claimed(Records) \ pending', {})
    BY <1>1, <1>3, <2>1, ReplaceOne
  <2>3. QED BY <1>1, <1>3, <2>1, <2>2, HoldsNext DEF IInv, Holds
<1>4. QED BY <1>2, <1>3

\* All claims have replaced their references.
LEMMA InvAllReplaced ==
    ASSUME IInv, AllReplaced
    PROVE  IInv'
<1> USE DEF AllReplaced
<1>1. /\ packages = Bucket(Claimed(Records), {}) /\ Records \ todo' = {}
      /\ WellFormed(input) /\ NoContest(input.bootstrap)
  BY DEF IInv
<1>2. NoContest(packages)
  <2>1. \A i \in Indexes : \A p \in input.bootstrap[i] :
           Identity(Updated(p, Claimed(Records), Records)) = Identity(p)
    BY <1>1, ComposedFacts
  <2>2. QED BY <1>1, <2>1 DEF NoContest, Contests, Bucket
<1>3. QED BY <1>1, <1>2, HoldsNext DEF IInv, Holds

\* One more record's packages are added.
LEMMA InvAdd ==
    ASSUME IInv, NEW r \in Records, Add(r)
    PROVE  IInv'
<1> DEFINE more == [i \in Indexes |-> packages[i] \cup IndexesOf(r)[i]]
<1>1. /\ phase = "add" /\ r \in todo /\ input' = input /\ WellFormed(input)
      /\ packages = Bucket(Claimed(Records), Records \ todo)
      /\ todo \subseteq Records
  BY DEF Add, IInv
<1>2. more = Bucket(Claimed(Records), Records \ (todo \ {r}))
  <2>1. Records \ (todo \ {r}) = (Records \ todo) \cup {r}
    BY <1>1
  <2>2. \A i \in Indexes : more[i] = Bucket(Claimed(Records), (Records \ todo) \cup {r})[i]
    BY <1>1 DEF Bucket
  <2>3. QED BY <2>1, <2>2 DEF Bucket
<1>3. CASE \E i \in Indexes : \E p, q \in more[i] : Contests(p, q)
  <2>1. \A i \in Indexes : more[i] \subseteq Composed(Records)[i]
    BY <1>2 DEF Bucket, Composed
  <2>2. Conflict(Records)
    BY <1>3, <2>1 DEF Conflict, Contests
  <2>3. QED BY <1>1, <1>3, <2>2, InvFail DEF Add
<1>4. CASE ~\E i \in Indexes : \E p, q \in more[i] : Contests(p, q)
  <2>1. todo' = todo \ {r} /\ packages' = more /\ UNCHANGED <<phase, claimants, pending>>
    BY <1>4 DEF Add
  <2>2. NoContest(more)
    BY <1>4 DEF NoContest
  <2> HIDE DEF more
  <2>3. /\ packages' = Bucket(Claimed(Records), Records \ todo')
        /\ NoContest(packages')
    BY <1>2, <2>1, <2>2
  <2>4. QED BY <1>1, <2>1, <2>3, HoldsNext DEF IInv, Holds
<1>5. QED BY <1>3, <1>4

\* The indexes are accepted or clash in a key.
LEMMA InvSerialize ==
    ASSUME IInv, Serialize
    PROVE  IInv'
<1> USE DEF Serialize
<1>1. packages = Composed(Records) /\ NoContest(packages)
  <2>1. Records \ todo = Records
    BY DEF IInv
  <2>2. QED BY <2>1 DEF IInv, Bucket, Composed
<1>2. CASE \E i \in Indexes : \E p, q \in packages[i] : p # q /\ p.key = q.key
  BY <1>1, <1>2, InvFail DEF Conflict
<1>3. CASE ~\E i \in Indexes : \E p, q \in packages[i] : p # q /\ p.key = q.key
  <2>1. ~Conflict(Records)
    BY <1>1, <1>3 DEF IInv, Conflict, NoContest, Contests
  <2>2. QED BY <1>1, <1>3, <2>1, HoldsNext DEF IInv, Holds
<1>4. QED BY <1>2, <1>3

\* One case per action of the composition.
LEMMA InvNext == IInv /\ [Next]_vars => IInv'
<1> SUFFICES ASSUME IInv, [Next]_vars PROVE IInv'
  OBVIOUS
<1>1. CASE Next
  BY <1>1, InvCopy, InvClaim, InvCheckClaims, InvReplace, InvAllReplaced, InvAdd, InvSerialize
     DEF Next
<1>2. CASE UNCHANGED vars
  BY <1>2, InputConstant DEF vars, IInv, NoContest, OutputIsDeclared, FailsOnlyOnConflict,
     Contests, Identity
<1>3. QED BY <1>1, <1>2

\* The invariant of the composition, whatever its records.
LEMMA Invariance == Spec => []IInv
BY InvInit, InvNext, PTL DEF Spec

-----------------------------------------------------------------------------

\* compose_indexes makes the indexes the records declare, whatever the order in
\* which it goes through records and digests.
THEOREM OutputAlwaysDeclared == Spec => []OutputIsDeclared
<1>1. IInv => OutputIsDeclared
  BY DEF IInv
<1>2. QED BY <1>1, Invariance, PTL

\* It succeeds or fails by the set of records alone.
THEOREM FailsExactlyOnConflict == Spec => []FailsOnlyOnConflict
<1>1. IInv => FailsOnlyOnConflict
  BY DEF IInv
<1>2. QED BY <1>1, Invariance, PTL

-----------------------------------------------------------------------------
(* The rescue plan.                                                         *)

\* The module of the plan counts like this one.
LEMMA CardinalityIs == \A S : Rescue!Cardinality(S) = Cardinality(S)
BY DEF Rescue!Cardinality, Cardinality

\* What is known of a family.
LEMMA FamilyType ==
    ASSUME NEW f \in DOMAIN Families
    PROVE  Families[f].tries \in Seq(Records) /\ Families[f].quota \in Nat
<1>1. Families \in Seq(Rescue!Family)
  BY RescueAssumption DEF Rescue!SelectionInputs
<1>2. Families[f] \in Rescue!Family
  BY <1>1
<1>3. QED BY <1>2 DEF Rescue!Family

\* A candidate has one family and one place in it.
LEMMA FamilyFacts ==
    ASSUME NEW f \in DOMAIN Families, NEW n \in DOMAIN Families[f].tries, NEW c,
           c = Families[f].tries[n]
    PROVE  /\ c \in Records
           /\ Rescue!FamilyOf(c) = Families[f]
           /\ \A d : d \in Rescue!Newer(c) <=>
                 \E m \in DOMAIN Families[f].tries : m < n /\ Families[f].tries[m] = d
           /\ \A g \in DOMAIN Families : \A m \in DOMAIN Families[g].tries :
                 Families[g].tries[m] = c => g = f /\ m = n
<1>1. /\ \A g \in DOMAIN Families : \A m \in DOMAIN Families[g].tries :
            Families[g].tries[m] = c => g = f /\ m = n
  BY RescueAssumption DEF Rescue!SelectionInputs, Rescue!TriedOnce
<1>2. \A g \in DOMAIN Families : Families[g].tries \in Seq(Records)
  BY FamilyType
<1>3. c \in Records
  BY <1>2
<1>4. Rescue!FamilyOf(c) = Families[f]
  <2>1. Families[f] \in Rescue!Range(Families) /\ c \in Rescue!Range(Families[f].tries)
    BY DEF Rescue!Range
  <2>2. ASSUME NEW x \in Rescue!Range(Families), c \in Rescue!Range(x.tries)
        PROVE  x = Families[f]
    BY <1>1, <2>2 DEF Rescue!Range
  <2>3. QED BY <2>1, <2>2 DEF Rescue!FamilyOf
<1>5. ASSUME NEW d
      PROVE  d \in Rescue!Newer(c) <=>
                \E m \in DOMAIN Families[f].tries : m < n /\ Families[f].tries[m] = d
  <2>1. ASSUME d \in Rescue!Newer(c)
        PROVE  \E m \in DOMAIN Families[f].tries : m < n /\ Families[f].tries[m] = d
    <3>1. PICK g \in DOMAIN Families : \E m, k \in DOMAIN Families[g].tries :
             m < k /\ Families[g].tries[m] = d /\ Families[g].tries[k] = c
      BY <2>1 DEF Rescue!Newer, Rescue!Range
    <3>2. QED BY <1>1, <3>1
  <2>2. ASSUME NEW m \in DOMAIN Families[f].tries, m < n, Families[f].tries[m] = d
        PROVE  d \in Rescue!Newer(c)
    BY <1>2, <2>2 DEF Rescue!Newer, Rescue!Range
  <2>3. QED BY <2>1, <2>2
<1>6. QED BY <1>1, <1>3, <1>4, <1>5

\* What a plan goes through of a family is some of it.
LEMMA AskedFacts ==
    ASSUME NEW f \in DOMAIN Families
    PROVE  /\ Rescue!Asked(Families[f]) \in Seq(Rescue!Range(Families[f].tries))
           /\ request = Bulk => Rescue!Asked(Families[f]) = Families[f].tries
           /\ request # Bulk => \A n \in DOMAIN Rescue!Asked(Families[f]) :
                                   Rescue!Asked(Families[f])[n] = request
           /\ Families[f].tries \in Seq(Records)
           /\ Families[f].quota \in Nat
<1>1. Families[f].tries \in Seq(Records) /\ Families[f].quota \in Nat
  BY FamilyType
<1>2. CASE request = Bulk
  BY <1>1, <1>2 DEF Rescue!Asked, Rescue!Range
<1>3. CASE request # Bulk
  <2>1. CASE request \in Rescue!Range(Families[f].tries)
    <3>1. Rescue!Asked(Families[f]) = <<request>>
      BY <1>3, <2>1 DEF Rescue!Asked
    <3>2. QED BY <1>1, <1>3, <2>1, <3>1
  <2>2. CASE request \notin Rescue!Range(Families[f].tries)
    <3>1. Rescue!Asked(Families[f]) = <<>>
      BY <1>3, <2>2 DEF Rescue!Asked
    <3>2. QED BY <1>1, <1>3, <3>1
  <2>3. QED BY <2>1, <2>2
<1>4. QED BY <1>1, <1>2, <1>3

\* The archive does not change, so neither does what can be built.
LEMMA BuildsConstant ==
    ASSUME archive' = archive
    PROVE  \A c : /\ Rescue!Places(c)' = Rescue!Places(c)
                  /\ Rescue!Builds(c)' <=> Rescue!Builds(c)
<1>1. \A c : Rescue!Matching(c)' = Rescue!Matching(c)
  BY DEF Rescue!Matching, Rescue!FamilyOf
<1>2. \A c : Rescue!Taken(c)' = Rescue!Taken(c)
  BY <1>1 DEF Rescue!Taken, Rescue!Newest, Rescue!FamilyOf
<1>3. \A c : Rescue!Places(c)' = Rescue!Places(c)
  BY <1>2 DEF Rescue!Places
<1>4. \A c : Rescue!Builds(c)' <=> Rescue!Builds(c)
  BY <1>1, <1>2, <1>3 DEF Rescue!Builds, Rescue!Ambiguous, Rescue!FamilyOf, Rescue!AssetAt
<1>5. QED BY <1>3, <1>4

\* As long as no commit of a family is found unreadable, what a plan wants of the
\* family stays the same.
LEMMA WantedConstant ==
    ASSUME archive' = archive, NEW f \in DOMAIN Families,
           unread' \cap Rescue!Range(Families[f].tries) =
               unread \cap Rescue!Range(Families[f].tries)
    PROVE  \A c \in Rescue!Range(Families[f].tries) :
              /\ Rescue!Usable(c)' <=> Rescue!Usable(c)
              /\ Rescue!Wanted(c)' <=> Rescue!Wanted(c)
<1>1. \A c \in Rescue!Range(Families[f].tries) : Rescue!Usable(c)' <=> Rescue!Usable(c)
  BY BuildsConstant DEF Rescue!Usable
<1>2. ASSUME NEW c \in Rescue!Range(Families[f].tries)
      PROVE  Rescue!Wanted(c)' <=> Rescue!Wanted(c)
  <2>1. PICK n \in DOMAIN Families[f].tries : c = Families[f].tries[n]
    BY DEF Rescue!Range
  <2>2. Rescue!Newer(c) \subseteq Rescue!Range(Families[f].tries)
    <3>1. \A d : d \in Rescue!Newer(c) <=>
             \E m \in DOMAIN Families[f].tries : m < n /\ Families[f].tries[m] = d
      BY <2>1, FamilyFacts
    <3>2. QED BY <3>1 DEF Rescue!Range
  <2>3. {d \in Rescue!Newer(c) : Rescue!Usable(d)}' = {d \in Rescue!Newer(c) : Rescue!Usable(d)}
    <3>1. Rescue!Newer(c)' = Rescue!Newer(c)
      BY DEF Rescue!Newer
    <3>2. QED BY <1>1, <2>2, <3>1
  <2>4. QED BY <1>1, <2>3 DEF Rescue!Wanted, Rescue!FamilyOf
<1>3. QED BY <1>1, <1>2

\* A family has finitely many candidates.
LEMMA FamilyFinite ==
    ASSUME NEW f \in DOMAIN Families
    PROVE  IsFiniteSet(Rescue!Range(Families[f].tries))
<1> DEFINE s == Families[f].tries
           S == 1 .. Len(s)
           T == Rescue!Range(s)
<1>1. s \in Seq(Records)
  BY AskedFacts
<1>2. IsFiniteSet(S)
  BY <1>1, FS_Interval
<1>3. s \in Surjection(S, T)
  BY <1>1 DEF Surjection, Rescue!Range
<1> HIDE DEF S, T, s
<1>4. IsFiniteSet(T)
  BY <1>2, <1>3, FS_Surjection
<1>5. QED BY <1>4 DEF T, s

\* The plan leaves a family with what it wants of it.  What was taken is no more
\* than the quota, so nothing newer than the last of it fills the quota; and what
\* was not looked at any more is older than a full quota.
LEMMA FamilyDone ==
    ASSUME Rescue!PlanInv, request = Bulk, turn \in DOMAIN Families,
           Rescue!Over(Families[turn]), NEW c \in Rescue!Range(Families[turn].tries)
    PROVE  c \in releases <=> Rescue!Wanted(c)
<1> DEFINE s == Families[turn].tries
           quota == Families[turn].quota
           kept == releases \cap Rescue!Range(s)
           newer == {d \in Rescue!Newer(c) : Rescue!Usable(d)}
<1>1. PICK n \in DOMAIN s : c = s[n]
  BY DEF Rescue!Range
<1>2. /\ Rescue!FamilyOf(c) = Families[turn]
      /\ \A d : d \in Rescue!Newer(c) <=> \E m \in DOMAIN s : m < n /\ s[m] = d
      /\ \A m \in DOMAIN s : s[m] = c => m = n
  BY <1>1, FamilyFacts
<1>3. s \in Seq(Records) /\ quota \in Nat /\ Rescue!Asked(Families[turn]) = s
  BY AskedFacts
<1>4. tried \in Nat /\ tried <= Len(s)
  BY <1>3 DEF Rescue!PlanInv, Rescue!PlaceInv
<1>5. /\ \A m \in DOMAIN s : s[m] \in releases <=> m <= tried /\ Rescue!Usable(s[m])
      /\ Cardinality(kept) <= quota
  BY CardinalityIs DEF Rescue!PlanInv, Rescue!HereInv
<1>6. IsFiniteSet(kept) /\ IsFiniteSet(newer)
  <2>1. newer \subseteq Rescue!Range(s)
    BY <1>2 DEF Rescue!Range
  <2>2. IsFiniteSet(Rescue!Range(s))
    BY FamilyFinite
  <2> HIDE DEF newer, kept
  <2>3. QED BY <2>1, <2>2, FS_Subset DEF kept
<1>7. Cardinality(kept) \in Nat /\ Cardinality(newer) \in Nat
  <2> HIDE DEF newer, kept
  <2>1. QED BY <1>6, FS_CardinalityType
<1>8. Rescue!Wanted(c) <=> Rescue!Usable(c) /\ Cardinality(newer) < quota
  BY <1>2, CardinalityIs DEF Rescue!Wanted
<1>9. ASSUME c \in releases PROVE Rescue!Usable(c) /\ Cardinality(newer) < quota
  <2>1. n <= tried /\ Rescue!Usable(c)
    BY <1>1, <1>5, <1>9
  <2>2. newer \subseteq kept \ {c}
    BY <1>2, <1>3, <1>4, <1>5, <2>1 DEF Rescue!Range
  <2>3. c \in kept
    BY <1>9
  <2> HIDE DEF newer, kept
  <2>4. IsFiniteSet(kept \ {c}) /\ Cardinality(kept \ {c}) = Cardinality(kept) - 1
    BY <1>6, <2>3, FS_RemoveElement
  <2>5. Cardinality(newer) <= Cardinality(kept \ {c})
    BY <2>2, <2>4, FS_Subset
  <2>6. QED BY <1>3, <1>5, <1>7, <2>1, <2>4, <2>5
<1>10. ASSUME c \notin releases, Rescue!Usable(c) PROVE ~(Cardinality(newer) < quota)
  <2>1. n > tried /\ n \in Nat
    BY <1>1, <1>3, <1>4, <1>5, <1>10
  <2>2. tried # Len(s)
    BY <1>1, <1>3, <1>4, <2>1
  <2>3. Cardinality(kept) = quota
    BY <1>3, <2>2, CardinalityIs DEF Rescue!Over, Rescue!Full
  <2>4. kept \subseteq newer
    BY <1>2, <1>3, <1>4, <1>5, <2>1 DEF Rescue!Range
  <2> HIDE DEF newer, kept
  <2>5. Cardinality(kept) <= Cardinality(newer)
    BY <1>6, <2>4, FS_Subset
  <2>6. QED BY <1>3, <1>7, <2>3, <2>5
<1>11. QED BY <1>8, <1>9, <1>10

\* A plan that has not begun has nothing.
LEMMA PlanInvInit ==
    ASSUME Rescue!Init
    PROVE  Rescue!PlanInv
<1>1. /\ archive \in Archives /\ request \in Requests /\ turn = 1 /\ tried = 0
      /\ releases = {} /\ unread = {} /\ status = "planning"
  BY DEF Rescue!Init
<1>2. \A f \in DOMAIN Families : Families[f].tries \in Seq(Records) /\ Families[f].quota \in Nat
  BY FamilyType
<1>3. Rescue!PlaceInv
  <2>1. turn \in DOMAIN Families => Len(Rescue!Asked(Families[turn])) \in Nat
    BY AskedFacts
  <2>2. QED BY <1>1, <2>1 DEF Rescue!PlaceInv
<1>4. Rescue!BuiltInv /\ Rescue!AheadInv
  BY <1>1 DEF Rescue!BuiltInv, Rescue!AheadInv
<1>5. Rescue!HereInv
  <2>1. \A S : releases \cap S = {}
    BY <1>1
  <2>2. Rescue!Cardinality({}) = 0
    BY CardinalityIs, FS_EmptySet
  <2>3. ASSUME turn \in DOMAIN Families, NEW n \in DOMAIN Families[turn].tries
        PROVE  ~(n <= tried)
    BY <1>1, <1>2, <2>3
  <2>4. QED BY <1>1, <1>2, <2>1, <2>2, <2>3 DEF Rescue!HereInv
<1>6. Rescue!BehindInv
  <2>1. DOMAIN Families \subseteq Nat \ {0}
    BY RescueAssumption DEF Rescue!SelectionInputs
  <2>2. QED BY <1>1, <2>1 DEF Rescue!BehindInv
<1>7. QED BY <1>3, <1>4, <1>5, <1>6 DEF Rescue!PlanInv

\* The candidate a plan is at.
Current == Rescue!Asked(Families[turn])[tried + 1]

\* It is a candidate of the family the plan is at, and the one asked for if only
\* one was; a bulk plan still has room for it.
LEMMA CurrentFacts ==
    ASSUME Rescue!PlanInv, Rescue!Planning, ~Rescue!Over(Families[turn])
    PROVE  /\ turn \in DOMAIN Families /\ turn \in Nat /\ tried \in Nat
           /\ tried + 1 <= Len(Rescue!Asked(Families[turn]))
           /\ Len(Rescue!Asked(Families[turn])) \in Nat
           /\ Current \in Records
           /\ Current \in Rescue!Range(Families[turn].tries)
           /\ request = Bulk =>
                 /\ tried + 1 \in DOMAIN Families[turn].tries
                 /\ Current = Families[turn].tries[tried + 1]
                 /\ Rescue!Cardinality(releases \cap Rescue!Range(Families[turn].tries))
                        # Families[turn].quota
           /\ request # Bulk => Current = request
<1>1. turn \in DOMAIN Families /\ turn \in Nat /\ tried \in Nat
  <2>1. Families \in Seq(Rescue!Family)
    BY RescueAssumption DEF Rescue!SelectionInputs
  <2>2. turn \in Nat \ {0} /\ tried \in Nat /\ turn <= Len(Families)
    BY DEF Rescue!PlanInv, Rescue!PlaceInv, Rescue!Planning
  <2>3. QED BY <2>1, <2>2
<1>2. tried <= Len(Rescue!Asked(Families[turn])) /\ tried # Len(Rescue!Asked(Families[turn]))
  BY <1>1 DEF Rescue!PlanInv, Rescue!PlaceInv, Rescue!Over
<1>3. Rescue!Asked(Families[turn]) \in Seq(Rescue!Range(Families[turn].tries))
  BY <1>1, AskedFacts
<1> DEFINE asked == Rescue!Asked(Families[turn])
<1>4. tried + 1 \in DOMAIN asked /\ tried + 1 <= Len(asked) /\ Len(asked) \in Nat
  BY <1>1, <1>2, <1>3
<1>5. Current \in Rescue!Range(Families[turn].tries)
  BY <1>3, <1>4 DEF Current
<1>6. Current \in Records
  <2>1. Families[turn].tries \in Seq(Records)
    BY <1>1, FamilyType
  <2>2. QED BY <1>5, <2>1 DEF Rescue!Range
<1>7. request = Bulk => asked = Families[turn].tries
  BY <1>1, AskedFacts
<1>8. request # Bulk => \A n \in DOMAIN asked : asked[n] = request
  BY <1>1, AskedFacts
<1>9. request = Bulk =>
         Rescue!Cardinality(releases \cap Rescue!Range(Families[turn].tries))
             # Families[turn].quota
  BY DEF Rescue!Over, Rescue!Full
<1>10. QED
  BY <1>1, <1>4, <1>5, <1>6, <1>7, <1>8, <1>9 DEF Current

\* Going on to the next candidate, with or without the current one: what a bulk
\* plan has of the family is what could be used of it so far.
LEMMA HereNext ==
    ASSUME Rescue!PlanInv, Rescue!Planning, ~Rescue!Over(Families[turn]),
           archive' = archive, request' = request, turn' = turn, tried' = tried + 1,
           \/ Rescue!Builds(Current) /\ releases' = releases \cup {Current} /\ unread' = unread
           \/ ~Rescue!Builds(Current) /\ releases' = releases /\ unread' = unread
           \/ releases' = releases /\ unread' = unread \cup {Current}
    PROVE  Rescue!HereInv'
<1> SUFFICES ASSUME request = Bulk PROVE Rescue!HereInv'
  BY DEF Rescue!HereInv
<1> DEFINE s == Families[turn].tries
           quota == Families[turn].quota
           kept == releases \cap Rescue!Range(s)
<1>1. /\ turn \in DOMAIN Families /\ tried \in Nat /\ tried + 1 \in DOMAIN s
      /\ Current = s[tried + 1] /\ Rescue!Cardinality(kept) # quota
  BY CurrentFacts
<1>2. s \in Seq(Records) /\ quota \in Nat
  BY <1>1, FamilyType
<1>3. /\ \A n \in DOMAIN s : /\ s[n] \in releases <=> n <= tried /\ Rescue!Usable(s[n])
                             /\ s[n] \in unread => n <= tried
      /\ Rescue!Cardinality(kept) <= quota
  BY <1>1 DEF Rescue!PlanInv, Rescue!HereInv
<1>4. \A n \in DOMAIN s : s[n] = Current => n = tried + 1
  BY <1>1, FamilyFacts
<1>5. \A c : Rescue!Builds(c)' <=> Rescue!Builds(c)
  BY BuildsConstant
<1>6. ASSUME NEW n \in DOMAIN s
      PROVE  /\ s[n] \in releases' <=> n <= tried' /\ Rescue!Usable(s[n])'
             /\ s[n] \in unread' => n <= tried'
  <2>1. n \in Nat
    BY <1>2
  <2>2. CASE n = tried + 1
    <3>1. s[n] = Current /\ s[n] \notin releases /\ s[n] \notin unread /\ n <= tried'
      BY <1>1, <1>3, <2>2
    <3>2. QED BY <1>5, <3>1 DEF Rescue!Usable
  <2>3. CASE n # tried + 1
    <3>1. s[n] # Current
      BY <1>4, <2>3
    <3>2. /\ s[n] \in releases' <=> s[n] \in releases
          /\ s[n] \in unread' <=> s[n] \in unread
          /\ Rescue!Usable(s[n])' <=> Rescue!Usable(s[n])
      BY <1>5, <3>1 DEF Rescue!Usable
    <3>3. n <= tried' <=> n <= tried
      BY <1>1, <2>1, <2>3
    <3>4. QED BY <1>3, <3>2, <3>3
  <2>4. QED BY <2>2, <2>3
<1>7. Rescue!Cardinality(releases' \cap Rescue!Range(s)) <= quota
  <2>1. IsFiniteSet(kept)
    <3>1. IsFiniteSet(Rescue!Range(s))
      BY <1>1, FamilyFinite
    <3> HIDE DEF s
    <3>2. QED BY <3>1, FS_Subset
  <2>2. CASE releases' = releases
    BY <1>3, <2>2
  <2>3. CASE releases' = releases \cup {Current}
    <3>1. releases' \cap Rescue!Range(s) = kept \cup {Current}
      BY <1>1, <2>3 DEF Rescue!Range
    <3> HIDE DEF s, kept
    <3>2. Cardinality(kept) \in Nat
      BY <2>1, FS_CardinalityType
    <3>3. Cardinality(kept \cup {Current}) <= Cardinality(kept) + 1
      BY <2>1, <3>2, FS_AddElement
    <3>4. Cardinality(kept \cup {Current}) \in Nat
      BY <2>1, FS_AddElement, FS_CardinalityType
    <3>5. Cardinality(kept) # quota /\ Cardinality(kept) <= quota
      BY <1>1, <1>3, CardinalityIs
    <3>6. Cardinality(kept) + 1 <= quota
      BY <1>2, <3>2, <3>5
    <3>7. Cardinality(kept \cup {Current}) <= quota
      BY <1>2, <3>2, <3>3, <3>4, <3>6
    <3>8. QED BY <3>1, <3>7, CardinalityIs
  <2>4. QED BY <2>2, <2>3
<1>8. QED BY <1>6, <1>7 DEF Rescue!HereInv

\* One candidate concerns its own family alone.
LEMMA OthersNext ==
    ASSUME Rescue!PlanInv, Rescue!Planning, ~Rescue!Over(Families[turn]),
           archive' = archive, request' = request, turn' = turn,
           releases' \subseteq releases \cup {Current}, releases \subseteq releases',
           unread' \subseteq unread \cup {Current}, unread \subseteq unread'
    PROVE  Rescue!AheadInv' /\ Rescue!BehindInv'
<1>1. /\ turn \in DOMAIN Families /\ turn \in Nat
      /\ Current \in Rescue!Range(Families[turn].tries)
  BY CurrentFacts
<1>2. ASSUME NEW f \in DOMAIN Families, f # turn
      PROVE  /\ releases' \cap Rescue!Range(Families[f].tries)
                    = releases \cap Rescue!Range(Families[f].tries)
             /\ unread' \cap Rescue!Range(Families[f].tries)
                    = unread \cap Rescue!Range(Families[f].tries)
  <2>1. PICK n \in DOMAIN Families[turn].tries : Current = Families[turn].tries[n]
    BY <1>1 DEF Rescue!Range
  <2>2. \A m \in DOMAIN Families[f].tries : Families[f].tries[m] # Current
    BY <1>1, <1>2, <2>1, FamilyFacts
  <2>3. Current \notin Rescue!Range(Families[f].tries)
    BY <2>2 DEF Rescue!Range
  <2>4. QED BY <2>3
<1>3. Rescue!AheadInv'
  <2>1. DOMAIN Families \subseteq Nat
    BY RescueAssumption DEF Rescue!SelectionInputs
  <2>2. ASSUME NEW f \in DOMAIN Families, f > turn
        PROVE  (releases' \cup unread') \cap Rescue!Range(Families[f].tries) = {}
    <3>1. f # turn
      BY <1>1, <2>1, <2>2
    <3>2. (releases \cup unread) \cap Rescue!Range(Families[f].tries) = {}
      BY <2>2 DEF Rescue!PlanInv, Rescue!AheadInv
    <3>3. QED BY <1>2, <3>1, <3>2
  <2>3. QED BY <2>2 DEF Rescue!AheadInv
<1>4. Rescue!BehindInv'
  <2>1. DOMAIN Families \subseteq Nat
    BY RescueAssumption DEF Rescue!SelectionInputs
  <2>2. ASSUME request = Bulk, NEW f \in DOMAIN Families, f < turn,
               NEW c \in Rescue!Range(Families[f].tries)
        PROVE  c \in releases' <=> Rescue!Wanted(c)'
    <3>1. f # turn
      BY <1>1, <2>1, <2>2
    <3>2. c \in releases <=> Rescue!Wanted(c)
      BY <2>2 DEF Rescue!PlanInv, Rescue!BehindInv
    <3>3. Rescue!Wanted(c)' <=> Rescue!Wanted(c)
      BY <1>2, <3>1, WantedConstant
    <3>4. c \in releases' <=> c \in releases
      BY <1>2, <3>1
    <3>5. QED BY <3>2, <3>3, <3>4
  <2>3. QED BY <2>2 DEF Rescue!BehindInv
<1>5. QED BY <1>3, <1>4

\* One candidate is gone through.
LEMMA TryNext ==
    ASSUME Rescue!PlanInv, Rescue!Try \/ Rescue!TryUnread
    PROVE  Rescue!PlanInv'
<1>1. /\ Rescue!Planning /\ ~Rescue!Over(Families[turn])
      /\ archive' = archive /\ request' = request /\ turn' = turn
      /\ releases' \subseteq releases \cup {Current} /\ releases \subseteq releases'
      /\ unread' \subseteq unread \cup {Current} /\ unread \subseteq unread'
      /\ releases' # releases => Rescue!Builds(Current)
      /\ status = "planning"
  BY DEF Rescue!Try, Rescue!TryUnread, Current, Rescue!Planning
<1>2. /\ turn \in DOMAIN Families /\ tried \in Nat /\ Current \in Records
      /\ tried + 1 <= Len(Rescue!Asked(Families[turn]))
      /\ Len(Rescue!Asked(Families[turn])) \in Nat
      /\ request # Bulk => Current = request
  BY <1>1, CurrentFacts
<1>3. /\ tried' \in {tried, tried + 1} /\ status' \in {"planning", "refused"}
      /\ request # Bulk /\ unread' # unread => status' = "refused"
      /\ request = Bulk => /\ tried' = tried + 1
                           /\ \/ /\ Rescue!Builds(Current) /\ unread' = unread
                                 /\ releases' = releases \cup {Current}
                              \/ ~Rescue!Builds(Current) /\ releases' = releases /\ unread' = unread
                              \/ releases' = releases /\ unread' = unread \cup {Current}
  BY <1>1 DEF Rescue!Try, Rescue!TryUnread, Current, Rescue!Planning, Rescue!PassOver
<1>4. Rescue!PlaceInv'
  <2>1. Rescue!Asked(Families[turn])' = Rescue!Asked(Families[turn])
    BY <1>1 DEF Rescue!Asked
  <2>2. tried' \in Nat /\ tried' <= Len(Rescue!Asked(Families[turn]))
    BY <1>2, <1>3
  <2>3. QED BY <1>1, <1>2, <1>3, <2>1, <2>2 DEF Rescue!PlanInv, Rescue!PlaceInv
<1>5. Rescue!BuiltInv'
  <2>1. \A c : Rescue!Builds(c)' <=> Rescue!Builds(c)
    BY <1>1, BuildsConstant
  <2>2. QED BY <1>1, <1>2, <1>3, <2>1 DEF Rescue!PlanInv, Rescue!BuiltInv
<1>6. Rescue!AheadInv' /\ Rescue!BehindInv'
  BY <1>1, OthersNext
<1>7. Rescue!HereInv'
  <2>1. CASE request = Bulk
    BY <1>1, <1>3, <2>1, HereNext
  <2>2. CASE request # Bulk
    BY <1>1, <2>2 DEF Rescue!HereInv
  <2>3. QED BY <2>1, <2>2
<1>8. QED BY <1>4, <1>5, <1>6, <1>7 DEF Rescue!PlanInv

\* A family is left when it is done.
LEMMA FamilyNext ==
    ASSUME Rescue!PlanInv, Rescue!NextFamily
    PROVE  Rescue!PlanInv'
<1>1. /\ status = "planning" /\ turn <= Len(Families) /\ Rescue!Over(Families[turn])
      /\ turn' = turn + 1 /\ tried' = 0 /\ archive' = archive /\ request' = request
      /\ releases' = releases /\ unread' = unread /\ status' = status
  BY DEF Rescue!NextFamily, Rescue!Planning
<1>2. Families \in Seq(Rescue!Family) /\ turn \in Nat \ {0}
  BY RescueAssumption DEF Rescue!SelectionInputs, Rescue!PlanInv, Rescue!PlaceInv
<1>3. turn \in DOMAIN Families /\ DOMAIN Families \subseteq Nat
  BY <1>1, <1>2
<1>4. Rescue!PlaceInv'
  <2>1. \A f \in DOMAIN Families : Rescue!Asked(Families[f])' = Rescue!Asked(Families[f])
    BY <1>1 DEF Rescue!Asked
  <2>2. \A f \in DOMAIN Families : Len(Rescue!Asked(Families[f])) \in Nat
    BY AskedFacts
  <2>3. turn' \in Nat \ {0}
    BY <1>1, <1>2
  <2>4. turn' \in DOMAIN Families => tried' <= Len(Rescue!Asked(Families[turn]))'
    BY <1>1, <2>1, <2>2
  <2>5. QED BY <1>1, <2>3, <2>4 DEF Rescue!PlanInv, Rescue!PlaceInv
<1>5. Rescue!BuiltInv'
  <2>1. \A c : Rescue!Builds(c)' <=> Rescue!Builds(c)
    BY <1>1, BuildsConstant
  <2>2. QED BY <1>1, <2>1 DEF Rescue!PlanInv, Rescue!BuiltInv
<1>6. Rescue!AheadInv'
  <2>1. \A f \in DOMAIN Families : f > turn' => f > turn
    BY <1>1, <1>2, <1>3
  <2>2. QED BY <1>1, <2>1 DEF Rescue!PlanInv, Rescue!AheadInv
<1>7. Rescue!HereInv'
  <2>1. ASSUME NEW f \in DOMAIN Families, f = turn'
        PROVE  /\ \A n \in DOMAIN Families[f].tries :
                     /\ Families[f].tries[n] \in releases' <=>
                           n <= tried' /\ Rescue!Usable(Families[f].tries[n])'
                     /\ Families[f].tries[n] \in unread' => n <= tried'
               /\ Rescue!Cardinality(releases' \cap Rescue!Range(Families[f].tries))
                     <= Families[f].quota
    <3>1. f > turn
      BY <1>1, <1>2, <2>1
    <3>2. (releases \cup unread) \cap Rescue!Range(Families[f].tries) = {}
      BY <3>1 DEF Rescue!PlanInv, Rescue!AheadInv
    <3>3. Families[f].tries \in Seq(Records) /\ Families[f].quota \in Nat
      BY FamilyType
    <3>4. ASSUME NEW n \in DOMAIN Families[f].tries
          PROVE  /\ Families[f].tries[n] \in releases' <=>
                        n <= tried' /\ Rescue!Usable(Families[f].tries[n])'
                 /\ Families[f].tries[n] \in unread' => n <= tried'
      <4>1. Families[f].tries[n] \in Rescue!Range(Families[f].tries)
        BY DEF Rescue!Range
      <4>2. n \in Nat \ {0}
        BY <3>3
      <4>3. QED BY <1>1, <3>2, <4>1, <4>2
    <3> DEFINE kept == releases' \cap Rescue!Range(Families[f].tries)
    <3>5. kept = {}
      BY <1>1, <3>2
    <3> HIDE DEF kept
    <3>6. Rescue!Cardinality(kept) = 0
      BY <3>5, CardinalityIs, FS_EmptySet
    <3>7. Rescue!Cardinality(kept) <= Families[f].quota
      BY <3>3, <3>6
    <3>8. QED BY <3>4, <3>7 DEF kept
  <2>2. QED BY <2>1 DEF Rescue!HereInv
<1>8. Rescue!BehindInv'
  <2>1. SUFFICES ASSUME request = Bulk, NEW f \in DOMAIN Families, f < turn',
                        NEW c \in Rescue!Range(Families[f].tries)
                 PROVE  c \in releases' <=> Rescue!Wanted(c)'
    BY <1>1 DEF Rescue!BehindInv
  <2>2. Rescue!Wanted(c)' <=> Rescue!Wanted(c)
    BY <1>1, WantedConstant
  <2>3. CASE f = turn
    BY <1>1, <1>3, <2>1, <2>2, <2>3, FamilyDone
  <2>4. CASE f # turn
    <3>1. f < turn
      BY <1>1, <1>2, <1>3, <2>1, <2>4
    <3>2. c \in releases <=> Rescue!Wanted(c)
      BY <2>1, <3>1 DEF Rescue!PlanInv, Rescue!BehindInv
    <3>3. QED BY <1>1, <2>2, <3>2
  <2>5. QED BY <2>3, <2>4
<1>9. QED BY <1>4, <1>5, <1>6, <1>7, <1>8 DEF Rescue!PlanInv

\* Nothing else changes what is planned.
LEMMA PlanStays ==
    ASSUME Rescue!PlanInv, archive' = archive, request' = request, turn' = turn,
           tried' = tried, releases' = releases, unread' = unread,
           \/ status' \in {status, "refused"}
           \/ /\ status' = "planned" /\ status = "planning"
              /\ Rescue!PlanAccepts /\ turn > Len(Families)
    PROVE  Rescue!PlanInv'
<1>1. \A c : Rescue!Builds(c)' <=> Rescue!Builds(c)
  BY BuildsConstant
<1>2. Rescue!PlaceInv'
  BY DEF Rescue!PlanInv, Rescue!PlaceInv, Rescue!Asked
<1>3. Rescue!PlanAccepts' <=> Rescue!PlanAccepts
  BY BuildsConstant DEF Rescue!PlanAccepts, Rescue!AssetAt
<1>4. Rescue!BuiltInv'
  BY <1>1, <1>3 DEF Rescue!PlanInv, Rescue!BuiltInv
<1>5. Rescue!AheadInv'
  BY DEF Rescue!PlanInv, Rescue!AheadInv
<1>6. Rescue!HereInv'
  <2>1. \A c : Rescue!Usable(c)' <=> Rescue!Usable(c)
    BY <1>1 DEF Rescue!Usable
  <2>2. QED BY <2>1 DEF Rescue!PlanInv, Rescue!HereInv
<1>7. Rescue!BehindInv'
  <2>1. \A f \in DOMAIN Families : \A c \in Rescue!Range(Families[f].tries) :
           Rescue!Wanted(c)' <=> Rescue!Wanted(c)
    BY WantedConstant
  <2>2. QED BY <2>1 DEF Rescue!PlanInv, Rescue!BehindInv
<1>8. QED BY <1>2, <1>4, <1>5, <1>6, <1>7 DEF Rescue!PlanInv

\* The invariant of a plan: one case per step of it.
LEMMA PlanInvNext ==
    ASSUME Rescue!PlanInv, Rescue!Next
    PROVE  Rescue!PlanInv'
<1>1. CASE Rescue!Abort
  <2>1. /\ archive' = archive /\ request' = request /\ turn' = turn /\ tried' = tried
        /\ releases' = releases /\ unread' = unread /\ status' = "refused"
    BY <1>1 DEF Rescue!Abort
  <2>2. QED BY <2>1, PlanStays
<1>2. CASE Rescue!Finish
  <2>1. /\ archive' = archive /\ request' = request /\ turn' = turn /\ tried' = tried
        /\ releases' = releases /\ unread' = unread
        /\ status = "planning" /\ turn > Len(Families)
    BY <1>2 DEF Rescue!Finish
  <2>2. CASE Rescue!PlanAccepts
    BY <1>2, <2>1, <2>2, PlanStays DEF Rescue!Finish
  <2>3. CASE ~Rescue!PlanAccepts
    BY <1>2, <2>1, <2>3, PlanStays DEF Rescue!Finish
  <2>4. QED BY <2>2, <2>3
<1>3. QED BY <1>1, <1>2, TryNext, FamilyNext DEF Rescue!Next

\* A plan that has gone through all families has what it should.
LEMMA PlannedIsNewest ==
    ASSUME Rescue!PlanInv
    PROVE  Rescue!PlanHasTheNewest
<1> SUFFICES ASSUME status = "planned"
             PROVE  releases = IF request = Bulk THEN {c \in Records : Rescue!Wanted(c)}
                               ELSE {c \in {request} : Rescue!Usable(c)}
  BY DEF Rescue!PlanHasTheNewest
<1>1. /\ releases \subseteq Records /\ turn \in Nat /\ turn > Len(Families)
      /\ Rescue!PlanAccepts /\ releases # {}
      /\ \A c \in releases : Rescue!Builds(c) /\ request \in {Bulk, c}
      /\ request # Bulk => unread = {}
  BY DEF Rescue!PlanInv, Rescue!PlaceInv, Rescue!BuiltInv, Rescue!PlanAccepts
<1>2. CASE request # Bulk
  BY <1>1, <1>2 DEF Rescue!Usable
<1>3. CASE request = Bulk
  <2>1. ASSUME NEW c \in Records PROVE c \in releases <=> Rescue!Wanted(c)
    <3>1. Families \in Seq(Rescue!Family)
      BY RescueAssumption DEF Rescue!SelectionInputs
    <3>2. PICK x \in Rescue!Range(Families) : c \in Rescue!Range(x.tries)
      BY RescueAssumption DEF Rescue!SelectionInputs
    <3>3. PICK f \in DOMAIN Families : x = Families[f]
      BY DEF Rescue!Range
    <3>4. f < turn
      BY <1>1, <3>1
    <3>5. QED BY <1>3, <3>2, <3>3, <3>4 DEF Rescue!PlanInv, Rescue!BehindInv
  <2>2. QED BY <1>1, <1>3, <2>1
<1>4. QED BY <1>2, <1>3

-----------------------------------------------------------------------------
(* The records of a plan.                                                   *)

\* The assets of what can be built are typed, and each has its digest.
LEMMA PlaceFacts ==
    ASSUME Rescue!PlanInv, NEW c \in releases, NEW x \in Rescue!Places(c)
    PROVE  /\ x[1] = c
           /\ Rescue!AssetAt(x).digest \in Digests
           /\ Rescue!AssetAt(x).name \in Names
<1>1. archive \in Archives /\ c \in Records /\ Rescue!Builds(c)
  BY DEF Rescue!PlanInv, Rescue!PlaceInv, Rescue!BuiltInv
<1>2. \A e \in archive[c] : e \in Rescue!Entry
  BY <1>1, RescueAssumption DEF Rescue!SelectionInputs
<1>3. PICK e \in Rescue!Taken(c) : \E m \in DOMAIN e.refs : x = <<c, e, m>>
  BY DEF Rescue!Places
<1>4. PICK n \in DOMAIN e.refs : x = <<c, e, n>>
  BY <1>3
<1>5. e \in archive[c]
  BY <1>3 DEF Rescue!Taken, Rescue!Newest, Rescue!Matching
<1>6. e.refs \in Seq(Rescue!Asset)
  BY <1>2, <1>5 DEF Rescue!Entry
<1>7. Rescue!AssetAt(x) = e.refs[n]
  BY <1>4 DEF Rescue!AssetAt
<1>8. Rescue!AssetAt(x) \in Rescue!Asset
  BY <1>4, <1>6, <1>7
<1>9. Rescue!AssetAt(x).digest # NoDigest
  BY <1>1 DEF Rescue!Builds
<1>10. QED BY <1>4, <1>8, <1>9 DEF Rescue!Asset

\* The manifest of a planned release claims the digests of its assets, at URLs of
\* its own, and adds nothing.
LEMMA ManifestFacts ==
    ASSUME Rescue!PlanInv, NEW c \in releases
    PROVE  /\ ManifestOf(c).replacements \in Replacements(c)
           /\ DOMAIN ManifestOf(c).replacements =
                 {Rescue!AssetAt(x).digest : x \in Rescue!Places(c)}
           /\ ManifestOf(c).indexes = [i \in Indexes |-> {}]
<1> DEFINE claimed == {Rescue!AssetAt(x).digest : x \in Rescue!Places(c)}
           Holding(d) == CHOOSE x \in Rescue!Places(c) : Rescue!AssetAt(x).digest = d
           claims == [d \in claimed |-> [by |-> c, name |-> Rescue!AssetAt(Holding(d)).name]]
<1>1. ManifestOf(c) = [NoManifest EXCEPT !.replacements = claims]
  BY DEF ManifestOf
<1>2. claimed \in SUBSET Digests
  BY PlaceFacts
<1>3. ASSUME NEW d \in claimed PROVE Rescue!AssetAt(Holding(d)).name \in Names
  <2>1. Holding(d) \in Rescue!Places(c)
    BY <1>3
  <2> HIDE DEF Holding
  <2>2. QED BY <2>1, PlaceFacts
<1>4. c \in Records
  BY DEF Rescue!PlanInv, Rescue!PlaceInv
<1> HIDE DEF Holding, claimed
<1>5. claims \in [claimed -> {url \in Url : url.by = c}]
  BY <1>3, <1>4 DEF Url
<1>6. claims \in Replacements(c)
  BY <1>2, <1>5 DEF Replacements
<1>7. DOMAIN claims = claimed
  OBVIOUS
<1> HIDE DEF claims
<1>8. /\ ManifestOf(c).replacements = claims
      /\ ManifestOf(c).indexes = [i \in Indexes |-> {}]
  BY <1>1 DEF NoManifest
<1>9. QED BY <1>6, <1>7, <1>8 DEF claimed

\* A record that was not published claims nothing.
LEMMA NoManifestFacts ==
    ASSUME NEW r \in Records
    PROVE  /\ NoManifest.replacements \in Replacements(r)
           /\ DOMAIN NoManifest.replacements = {}
           /\ NoManifest.indexes = [i \in Indexes |-> {}]
<1>1. NoManifest.replacements = <<>> /\ NoManifest.indexes = [i \in Indexes |-> {}]
  BY DEF NoManifest
<1>2. <<>> \in [{} -> {url \in Url : url.by = r}]
  OBVIOUS
<1>3. {} \in SUBSET Digests
  OBVIOUS
<1>4. <<>> \in Replacements(r)
  BY <1>2, <1>3 DEF Replacements
<1>5. DOMAIN <<>> = {}
  OBVIOUS
<1>6. QED BY <1>1, <1>4, <1>5

\* What is gathered of a plan can be composed like any other input.
LEMMA GatheredWellFormed ==
    ASSUME Rescue!PlanInv, NEW bootstrap \in Bootstraps, NEW published \in SUBSET releases
    PROVE  WellFormed([bootstrap |-> bootstrap,
                       manifest |-> [r \in Records |-> IF r \in published THEN ManifestOf(r)
                                                      ELSE NoManifest]])
<1> DEFINE manifest == [r \in Records |-> IF r \in published THEN ManifestOf(r)
                                          ELSE NoManifest]
           given == [bootstrap |-> bootstrap, manifest |-> manifest]
<1>1. bootstrap \in [Indexes -> BootstrapIndex]
  BY CompositionAssumption DEF Bootstraps, WellFormed
<1>2. ASSUME NEW r \in Records
      PROVE  /\ manifest[r].replacements \in Replacements(r)
             /\ manifest[r].indexes \in [Indexes -> Fragments(r)]
  <2>1. [i \in Indexes |-> {}] \in [Indexes -> Fragments(r)]
    BY DEF Fragments
  <2>2. /\ manifest[r].replacements \in Replacements(r)
        /\ manifest[r].indexes = [i \in Indexes |-> {}]
    BY ManifestFacts, NoManifestFacts
  <2>3. QED BY <2>1, <2>2
<1>3. DOMAIN manifest = Records
  OBVIOUS
<1> HIDE DEF manifest
<1>4. given.bootstrap = bootstrap /\ given.manifest = manifest
  OBVIOUS
<1> HIDE DEF given
<1>5. WellFormed(given)
  BY <1>1, <1>2, <1>3, <1>4 DEF WellFormed
<1>6. QED BY <1>5 DEF given, manifest

\* The manifest of a release is that of its archive.
LEMMA ManifestConstant ==
    ASSUME archive' = archive
    PROVE  \A c : ManifestOf(c)' = ManifestOf(c)
<1> DEFINE holding(places, d) == CHOOSE x \in places : Rescue!AssetAt(x).digest = d
           manifest(c, places) ==
               [NoManifest EXCEPT !.replacements =
                   [d \in {Rescue!AssetAt(x).digest : x \in places} |->
                       [by |-> c, name |-> Rescue!AssetAt(holding(places, d)).name]]]
<1>1. \A c : ManifestOf(c) = manifest(c, Rescue!Places(c))
  BY DEF ManifestOf
<1>2. \A c : ManifestOf(c)' = manifest(c, Rescue!Places(c)')
  BY DEF ManifestOf, Rescue!AssetAt, NoManifest
<1>3. \A c : Rescue!Places(c)' = Rescue!Places(c)
  BY BuildsConstant
<1> HIDE DEF manifest
<1>4. QED BY <1>1, <1>2, <1>3

\* Composing never changes its input.
LEMMA InputStays ==
    ASSUME [Next]_vars
    PROVE  input' = input
BY DEF Next, vars, Copy, CheckClaims, AllReplaced, Serialize, Claim, Add, Replace

\* Either there is a plan that has not begun, or a composition that has not.
LEMMA RecordsInit == (PlanInit \/ OtherInit) => RecordsInv
<1>1. CASE PlanInit
  <2>1. /\ Rescue!PlanInv /\ status = "planning" /\ phase = "plan" /\ todo = Records
        /\ pending = {} /\ claimants = [d \in Digests |-> {}]
    BY <1>1, PlanInvInit DEF PlanInit, Rescue!Init
  <2>2. QED BY <2>1 DEF RecordsInv, WaitInv, GatheredInv
<1>2. CASE OtherInit
  <2>1. IInv /\ phase = "copy" /\ status = "none"
    BY <1>2, InvInit DEF OtherInit, Init
  <2>2. QED BY <2>1 DEF RecordsInv, WaitInv, GatheredInv
<1>3. QED BY <1>1, <1>2

\* The plan is made first, then what was published of it composed.
LEMMA RecordsInvNext ==
    RecordsInv /\ [RecordsNext]_<<vars, rescueVars>> => RecordsInv'
<1> SUFFICES ASSUME RecordsInv, [RecordsNext]_<<vars, rescueVars>> PROVE RecordsInv'
  OBVIOUS
<1>1. CASE Plan
  <2>1. phase = "plan" /\ phase' = phase /\ todo' = todo /\ pending' = pending
        /\ claimants' = claimants /\ Rescue!Next
    BY <1>1 DEF Plan, vars
  <2>2. Rescue!PlanInv
    BY <2>1 DEF RecordsInv, WaitInv
  <2>3. Rescue!PlanInv'
    BY <2>1, <2>2, PlanInvNext
  <2>4. status' # "none"
    BY <2>3 DEF Rescue!PlanInv, Rescue!PlaceInv
  <2>5. QED BY <2>1, <2>3, <2>4 DEF RecordsInv, WaitInv, GatheredInv
<1>2. CASE Gather
  <2>1. /\ phase = "plan" /\ status = "planned" /\ phase' = "copy"
        /\ todo' = todo /\ claimants' = claimants /\ pending' = pending
        /\ archive' = archive /\ request' = request /\ turn' = turn /\ tried' = tried
        /\ releases' = releases /\ unread' = unread /\ status' = status
    BY <1>2 DEF Gather, rescueVars
  <2>2. Rescue!PlanInv /\ todo = Records /\ claimants = [d \in Digests |-> {}]
    BY <2>1 DEF RecordsInv, WaitInv
  <2>3. Rescue!PlanInv'
    BY <2>1, <2>2, PlanStays
  <2>4. PICK bootstrap \in Bootstraps, published \in SUBSET releases :
           input' = [bootstrap |-> bootstrap,
                     manifest |-> [r \in Records |-> IF r \in published THEN ManifestOf(r)
                                                    ELSE NoManifest]]
    BY <1>2 DEF Gather
  <2>5. WellFormed(input')
    BY <2>2, <2>4, GatheredWellFormed
  <2>6. IInv'
    BY <2>1, <2>2, <2>5 DEF IInv, OutputIsDeclared, FailsOnlyOnConflict
  <2>7. \A r : ManifestOf(r)' = ManifestOf(r)
    BY <2>1, ManifestConstant
  <2>8. GatheredInv'
    <3>1. \A r \in Records : \/ input'.manifest[r] = NoManifest
                             \/ r \in releases /\ input'.manifest[r] = ManifestOf(r)
      BY <2>4
    <3>2. QED BY <2>1, <2>7, <3>1 DEF GatheredInv, NoManifest
  <2>9. WaitInv'
    BY <2>1 DEF WaitInv
  <2>10. QED BY <2>1, <2>3, <2>6, <2>8, <2>9 DEF RecordsInv
<1>3. CASE [Next]_vars /\ UNCHANGED rescueVars
  <2>1. /\ archive' = archive /\ request' = request /\ turn' = turn /\ tried' = tried
        /\ releases' = releases /\ unread' = unread /\ status' = status
    BY <1>3 DEF rescueVars
  <2>2. status # "none" => Rescue!PlanInv'
    BY <2>1, PlanStays DEF RecordsInv
  <2>3. CASE phase = "plan"
    <3>1. UNCHANGED vars
      BY <1>3, <2>3 DEF Next, Copy, CheckClaims, AllReplaced, Serialize, Claim, Add, Replace
    <3>2. QED BY <2>1, <2>2, <2>3, <3>1 DEF vars, RecordsInv, WaitInv, GatheredInv
  <2>4. CASE phase # "plan"
    <3>1. IInv'
      BY <1>3, <2>4, InvNext DEF RecordsInv
    <3>2. phase' # "plan"
      BY <3>1 DEF IInv
    <3>3. WaitInv'
      BY <2>1, <2>4, <3>2 DEF RecordsInv, WaitInv
    <3>4. input' = input
      BY <1>3, InputStays
    <3>5. \A r : ManifestOf(r)' = ManifestOf(r)
      BY <2>1, ManifestConstant
    <3>6. GatheredInv'
      BY <2>1, <2>4, <3>4, <3>5 DEF RecordsInv, GatheredInv, NoManifest
    <3>7. QED BY <2>1, <2>2, <3>1, <3>2, <3>3, <3>6 DEF RecordsInv
  <2>5. QED BY <2>3, <2>4
<1>4. QED BY <1>1, <1>2, <1>3 DEF RecordsNext

-----------------------------------------------------------------------------

\* The invariant of the plan and of the composition after it.
THEOREM PlanThenCompose == RecordsSpec => []RecordsInv
BY RecordsInit, RecordsInvNext, PTL DEF RecordsSpec

\* Wherever the records come from, a plan's manifests included, the composition is
\* the one they declare, and fails on their conflicts only.
THEOREM RecordsCompose == RecordsSpec => [](OutputIsDeclared /\ FailsOnlyOnConflict)
<1>1. RecordsInv => OutputIsDeclared /\ FailsOnlyOnConflict
  BY DEF RecordsInv, IInv, OutputIsDeclared, FailsOnlyOnConflict
<1>2. QED BY <1>1, PlanThenCompose, PTL

\* An accepted plan has the newest releases that can be built, up to the quotas.
THEOREM PlansHaveTheNewest == RecordsSpec => []PlanHasTheNewest
<1>1. RecordsInv => PlanHasTheNewest
  <2>1. CASE status = "none"
    BY <2>1 DEF PlanHasTheNewest, Rescue!PlanHasTheNewest
  <2>2. CASE status # "none"
    BY <2>2, PlannedIsNewest DEF RecordsInv, PlanHasTheNewest
  <2>3. QED BY <2>1, <2>2
<1>2. QED BY <1>1, PlanThenCompose, PTL

\* The releases of a plan never conflict with each other: what fails is the
\* bootstrap's doing, for any archive, quotas and selection of the releases.
THEOREM PlansAlwaysCompose == RecordsSpec => []PlansCompose
<1>1. RecordsInv => PlansCompose
  <2> SUFFICES ASSUME RecordsInv, status = "planned", phase = "failed",
                      \A d \in Claimed(Records) : Placed(d)
               PROVE  \E i \in Indexes : \E p, q \in input.bootstrap[i] : Contests(p, q)
    BY DEF PlansCompose
  <2>1. /\ IInv /\ WellFormed(input) /\ Conflict(Records)
        /\ Rescue!PlanInv /\ Rescue!PlanAccepts
    BY DEF RecordsInv, IInv, FailsOnlyOnConflict, Rescue!PlanInv, Rescue!BuiltInv
  <2>2. ASSUME NEW r \in Records
        PROVE  /\ IndexesOf(r) = [i \in Indexes |-> {}]
               /\ \A d \in DOMAIN ReplacementsOf(r) :
                     /\ r \in releases
                     /\ \E x \in Rescue!Places(r) : Rescue!AssetAt(x).digest = d
    <3>1. CASE input.manifest[r] = NoManifest
      <4>1. /\ NoManifest.indexes = [i \in Indexes |-> {}]
            /\ DOMAIN NoManifest.replacements = {}
        BY NoManifestFacts
      <4>2. QED BY <3>1, <4>1 DEF IndexesOf, ReplacementsOf
    <3>2. CASE r \in releases /\ input.manifest[r] = ManifestOf(r)
      <4>1. /\ DOMAIN ManifestOf(r).replacements =
                   {Rescue!AssetAt(x).digest : x \in Rescue!Places(r)}
            /\ ManifestOf(r).indexes = [i \in Indexes |-> {}]
        BY <2>1, <3>2, ManifestFacts
      <4>2. DOMAIN ReplacementsOf(r) = {Rescue!AssetAt(x).digest : x \in Rescue!Places(r)}
        BY <3>2, <4>1 DEF ReplacementsOf
      <4>3. QED BY <3>2, <4>1, <4>2 DEF IndexesOf
    <3>3. QED BY <3>1, <3>2 DEF RecordsInv, GatheredInv
  <2>3. ~Contested(Records)
    <3>1. SUFFICES ASSUME NEW d \in Digests, NEW r \in Claimants(d, Records),
                          NEW s \in Claimants(d, Records), r # s
                   PROVE  FALSE
      BY DEF Contested
    <3>2. /\ r \in releases /\ s \in releases
          /\ \E x \in Rescue!Places(r) : Rescue!AssetAt(x).digest = d
          /\ \E x \in Rescue!Places(s) : Rescue!AssetAt(x).digest = d
      BY <2>2 DEF Claimants
    <3>3. PICK x \in Rescue!Places(r), y \in Rescue!Places(s) :
             Rescue!AssetAt(x).digest = Rescue!AssetAt(y).digest
      BY <3>2
    <3>4. x # y
      BY <2>1, <3>1, <3>2, PlaceFacts
    <3>5. QED BY <2>1, <3>2, <3>3, <3>4 DEF Rescue!PlanAccepts
  <2>4. PICK i \in Indexes : \E p, q \in Composed(Records)[i] :
           p # q /\ (Identity(p) = Identity(q) \/ p.key = q.key)
    BY <2>1, <2>3 DEF Conflict
  <2> DEFINE new(p) == Updated(p, Claimed(Records), Records)
  <2>5. \A p \in Composed(Records)[i] : \E b \in input.bootstrap[i] : p = new(b)
    BY <2>2 DEF Composed
  <2>6. \A b \in input.bootstrap[i] : Identity(new(b)) = Identity(b) /\ new(b).key = b.key
    BY <2>1, ComposedFacts
  <2>7. \A b, c \in input.bootstrap[i] : b.key = c.key => b = c
    BY <2>1, InputFacts
  <2> HIDE DEF new
  <2>8. PICK b \in input.bootstrap[i], c \in input.bootstrap[i] :
           new(b) # new(c) /\ (Identity(new(b)) = Identity(new(c)) \/ new(b).key = new(c).key)
    BY <2>4, <2>5
  <2>9. b # c /\ Identity(b) = Identity(c)
    BY <2>6, <2>7, <2>8
  <2>10. QED BY <2>9 DEF Contests
<1>2. QED BY <1>1, PlanThenCompose, PTL

=============================================================================
