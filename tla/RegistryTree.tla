----------------------------- MODULE RegistryTree -----------------------------
(***************************************************************************)
(* The generated part of the registry repository, as one value, and the    *)
(* checks the source makes on it.                                          *)
(*                                                                         *)
(* A snapshot is a manifest public/s/<id>/registry.json that points into   *)
(* the content-addressed store public/i/<blob>.json.  Four moving          *)
(* documents select snapshots: public/registry.json (the root),            *)
(* public/v1/snapshots.json (the listing), vercel.toml (the hosting        *)
(* configuration) and pointers/latest.json (the pointer).                  *)
(*                                                                         *)
(* Bytes are abstracted to what the code compares: a blob file is absent,  *)
(* holds the bytes its name is the digest of, or holds other bytes.  The   *)
(* snapshot ID is a digest of the index bytes, so a snapshot stands for    *)
(* the state of the sources that composes to it and BlobsOf is a function; *)
(* digest collisions are not modelled.                                     *)
(***************************************************************************)
EXTENDS FiniteSets

CONSTANTS
    Snapshots,  \* snapshot IDs, each the composition of some source state
    Blobs,      \* content addresses of index blobs
    BlobsOf,    \* the blobs a snapshot's manifest references
    Migrated,   \* the two release schemas whose bytes may be migrated once
    None        \* no snapshot: an absent document, or sources that do not compose

ASSUME TreeAssumption ==
    /\ BlobsOf \in [Snapshots -> SUBSET Blobs]
    /\ None \notin Snapshots

-----------------------------------------------------------------------------

\* The moving documents; _MOVING_PATHS installs them in this order.
Docs == {"root", "listing", "hosting", "pointer"}

\* A variant: the pointer moves before the documents clients read.
PointerFirstRank == [pointer |-> 1, root |-> 2, listing |-> 3, hosting |-> 4]

\* Position of a document in _MOVING_PATHS: the pointer is written last.
MovingRank == [root |-> 1, listing |-> 2, hosting |-> 3, pointer |-> 4]

BlobBytes == {"absent", "exact", "foreign"}

\* A release schema: missing, a hash-pinned predecessor that may be migrated,
\* the bytes this version renders, or any other bytes.
SchemaBytes == {"absent", "approved", "current", "edited"}

\* Where write_temp may leave a temporary file outside the snapshot directories:
\* beneath public/, whose whole inventory validation reports, or outside it, at
\* the repository root and in pointers/, where nothing does.
Places == {"public", "outside"}

\* The place a moving document's temporary is written to, beside the document.
DocPlace == [root |-> "public", listing |-> "public",
             hosting |-> "outside", pointer |-> "outside"]

\* A moving document names one selected snapshot and refers to a set of them:
\* the listing to every snapshot it lists, the others to the selected one.
DocValue == [selected: Snapshots \cup {None}, refs: SUBSET Snapshots]

NoDoc == [selected |-> None, refs |-> {}]

\* pins: manifests present; dirs: directories public/s/<id>; litter: snapshot
\* directories that hold a leftover temporary file beside the manifest; stray:
\* the other places that hold one.
Tree == [blob: [Blobs -> BlobBytes],
         pins: SUBSET Snapshots,
         dirs: SUBSET Snapshots,
         litter: SUBSET Snapshots,
         stray: SUBSET Places,
         schema: [Migrated -> SchemaBytes],
         docs: [Docs -> DocValue]]

-----------------------------------------------------------------------------

\* Every blob the manifest of s references is present with its own bytes.
Complete(t, s) == \A b \in BlobsOf[s] : t.blob[b] = "exact"

\* load_pinned_snapshot: the directory holds exactly the manifest, and every
\* referenced blob matches its content address.
Loads(t, s) ==
    /\ s \in t.pins
    /\ s \notin t.litter
    /\ Complete(t, s)

\* A variant: the listing names the selected snapshot only.
DocForSelected(d, s, listed) == [selected |-> s, refs |-> {s}]

\* A moving document that selects s, in a tree whose snapshot directories are
\* listed.
DocFor(d, s, listed) ==
    [selected |-> s, refs |-> IF d = "listing" THEN listed ELSE {s}]

\* What build_snapshot adds to a tree: the missing blobs and the manifest.
Build(t, s) ==
    [t EXCEPT !.blob = [b \in Blobs |-> IF b \in BlobsOf[s] /\ t.blob[b] = "absent"
                                          THEN "exact" ELSE t.blob[b]],
              !.pins = @ \cup {s},
              !.dirs = @ \cup {s}]

\* create_immutable refuses a blob path that holds different bytes.
BuildAccepts(t, s) == \A b \in BlobsOf[s] : t.blob[b] # "foreign"

\* select_snapshot loads the selected snapshot and every other one in the tree.
SelectAccepts(t, s) ==
    /\ s \in t.dirs
    /\ \A d \in t.dirs : Loads(t, d)

\* The moving documents select_snapshot writes for s.
Selected(t, s) == [d \in Docs |-> DocFor(d, s, t.dirs)]

\* render_schemas refuses bytes that are neither current nor an approved
\* predecessor.
SchemasAccept(t) == \A m \in Migrated : t.schema[m] # "edited"

\* Three of the four documents are read by clients and the pointer by the
\* tools; all agree when they select one snapshot.
DocsAgree(t) == \A d, e \in Docs : t.docs[d].selected = t.docs[e].selected

\* Blobs some manifest references.
Referenced(t) == UNION {BlobsOf[s] : s \in t.pins}

\* validate reports nothing on a tree whose sources compose to s: every snapshot
\* directory loads, every blob is referenced, public/ holds no other file, the
\* schemas are current, the documents agree, and a fresh render adds nothing.
Validates(t, s) ==
    /\ \A d \in t.dirs : Loads(t, d)
    /\ \A b \in Blobs : t.blob[b] # "absent" =>
          t.blob[b] = "exact" /\ b \in Referenced(t)
    /\ "public" \notin t.stray
    /\ \A m \in Migrated : t.schema[m] = "current"
    /\ t.docs["pointer"].selected \in t.dirs
    /\ DocsAgree(t)
    /\ t.docs["listing"].refs = t.dirs
    /\ Build(t, s) = t

=============================================================================
