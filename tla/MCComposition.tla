----------------------------- MODULE MCComposition -----------------------------
(* Three records, each with any of eight manifests, over any of eight bootstraps; *)
(* or those of a plan that goes through three CLI tags, of which it takes two,    *)
(* and one PostGIS slot.                                                          *)
EXTENDS RescuedRecords, TLC

CONSTANTS r1, r2, r3, r4, p1, p2, i1, i2, d1, d2, k1, k2, e1, e2, u, v

At(owner, name) == [by |-> owner, name |-> name]

Ref(digest, url) == [digest |-> digest, url |-> url]

Entry(key, extension, installref, installrefs) ==
    [key |-> key, extension |-> extension, installref |-> installref,
     installrefs |-> installrefs]

None == [i \in Indexes |-> {}]

\* A package with two encodings, references that share a URL, a digest in two
\* indexes, a reference without digest, and extensions of one identity.
MCBootstraps ==
    {(i1 :> {Entry(k1, Plain, At(Origin, n), <<Ref(d1, At(Origin, u)), Ref(d2, At(Origin, m))>>)})
        @@ None : n, m \in {u, v}} \cup
    {(i1 :> {Entry(k1, Plain, At(Origin, u), <<Ref(d1, At(Origin, u))>>)}) @@
     (i2 :> {Entry(k1, Plain, At(Origin, u), <<Ref(d, At(Origin, u))>>)}) :
        d \in {d1, NoDigest}} \cup
    {(i1 :> {Entry(k1, e1, At(Origin, u), <<Ref(d1, At(Origin, u))>>),
             Entry(k2, e, At(Origin, v), <<Ref(d2, At(Origin, v))>>)}) @@ None :
        e \in {e1, e2}}

Manifest(replacements, indexes) == [replacements |-> replacements, indexes |-> indexes]

Nothing == <<>>

\* Replacements alone, additions alone, both, and additions that conflict.
MCManifests(r) ==
    {Manifest(d1 :> At(r, u), None),
     Manifest((d1 :> At(r, u)) @@ (d2 :> At(r, u)), None),
     Manifest((d1 :> At(r, u)) @@ (d2 :> At(r, v)), None),
     Manifest(d2 :> At(r, v), (i2 :> {Entry(k2, Plain, At(r, u), Nothing)}) @@ None),
     Manifest(d1 :> At(r, u),
              (i1 :> {Entry(k1, Plain, At(r, u), <<Ref(d1, At(r, u))>>)}) @@ None),
     Manifest(Nothing, (i1 :> {Entry(k2, Plain, At(r, u), <<Ref(d2, At(r, u))>>)}) @@ None),
     Manifest(Nothing, (i1 :> {Entry(k2, Plain, At(r, n), Nothing) : n \in {u, v}}) @@ None),
     Manifest(Nothing, (i2 :> {Entry(k2, e, At(r, u), Nothing) : e \in {e1, e2}}) @@ None)}

MCInputs ==
    {[bootstrap |-> b,
      manifest |-> (r1 :> m1) @@ (r2 :> m2) @@ (r3 :> m3) @@ (r4 :> Manifest(Nothing, None))] :
        b \in MCBootstraps, m1 \in MCManifests(r1), m2 \in MCManifests(r2),
        m3 \in MCManifests(r3)}

MCFamilies ==
    <<[tries |-> <<r1, r2, r3>>, quota |-> 2, tagged |-> TRUE, single |-> TRUE, whole |-> FALSE],
      [tries |-> <<r4>>, quota |-> 1, tagged |-> FALSE, single |-> FALSE, whole |-> TRUE]>>

Build(commit, platform, revision, refs) ==
    [commit |-> commit, platform |-> platform, revision |-> revision, refs |-> refs]

Held(name, digest) == [name |-> name, digest |-> digest]

\* A build of another commit, builds for one or two platforms, a rebuild of one
\* without digest, rebuilds nothing tells apart.
MCCliArchives ==
    {{Build("other", p1, 2, <<Held(u, d1)>>)},
     {Build("tag", p1, 1, <<Held(u, d1)>>)},
     {Build("tag", p1, 1, <<Held(u, d1)>>), Build("tag", p2, 1, <<Held(v, d2)>>)},
     {Build("tag", p1, 1, <<Held(u, NoDigest)>>), Build("tag", p1, 2, <<Held(u, d2)>>)},
     {Build("tag", p1, 1, <<Held(u, d1)>>), Build("tag", p1, 1, <<Held(u, d2)>>)}}

\* Two packages, with one name or two.
MCSlotArchives ==
    {{Build("none", p1, 1, <<Held(u, d1)>>), Build("none", p2, 1, <<Held(n, d2)>>)} :
        n \in {u, v}}

MCArchives ==
    {(r1 :> a1) @@ (r2 :> a2) @@ (r3 :> a3) @@ (r4 :> a4) :
        a1, a2 \in MCCliArchives, a3 \in {a \in MCCliArchives : Cardinality(a) = 1},
        a4 \in MCSlotArchives}

=============================================================================
