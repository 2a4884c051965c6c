------------------------------ MODULE Publication ------------------------------
(***************************************************************************)
(* publish_registry: render the sources in a staging copy of the           *)
(* repository, compare, and install the differences file by file.          *)
(*                                                                         *)
(* The install is a sequence of separately atomic file operations: blobs,  *)
(* the snapshot directory, its manifest, migrated schemas, and the moving  *)
(* documents with the pointer last.  An operation may raise OSError, after *)
(* which the transaction restores what it replaced and removes what it     *)
(* created; a restore or removal may fail in turn; and the process may be  *)
(* killed between any two operations.                                      *)
(***************************************************************************)
EXTENDS RegistryTree, Naturals

CONSTANT Faults    \* which of "io", "rollback" and "crash" may happen

ASSUME FaultsAssumption == Faults \subseteq {"io", "rollback", "crash"}

VARIABLES
    repo,       \* the repository's generated tree, on disk
    input,      \* the snapshot the sources compose to, or None if they do not
    pc,         \* where publish_registry is
    cand,       \* the snapshot being published
    staged,     \* the rendered staging tree
    temp,       \* where the temporary file of the write under way is, if any
    made,       \* created_files and created_dirs of this transaction
    before,     \* the tree when the transaction began, until the outcome no
                \* longer depends on it; its docs and schema are the prior
                \* bytes the code keeps, the rest is history
    outcome,    \* how the last publication ended
    published,  \* history: snapshots whose publication succeeded
    damaged,    \* history: a rollback failed and nothing was published since
    crashed     \* history: a publication was killed

vars == <<repo, input, pc, cand, staged, temp, made, before, outcome,
          published, damaged, crashed>>

Made == [blobs: SUBSET Blobs, pin: BOOLEAN, dir: BOOLEAN, schemas: SUBSET Migrated]

NothingMade == [blobs |-> {}, pin |-> FALSE, dir |-> FALSE, schemas |-> {}]

TypeOK ==
    /\ repo \in Tree
    /\ input \in Snapshots \cup {None}
    /\ pc \in {"idle", "install", "restore", "rollback"}
    /\ cand \in Snapshots \cup {None}
    /\ pc # "idle" => cand \in Snapshots
    /\ staged \in Tree
    /\ temp \in {"none", "snapshot"} \cup Places
    /\ made \in Made
    /\ before \in Tree
    /\ outcome \in {"none", "running", "published", "failed", "abandoned",
                    "rejected", "crashed"}
    /\ published \in SUBSET Snapshots
    /\ damaged \in BOOLEAN
    /\ crashed \in BOOLEAN

-----------------------------------------------------------------------------

\* The repository as a checkout holds it: nothing published yet, or snapshots
\* with their documents in agreement.  A blob path no manifest references may
\* hold other bytes, and the release schemas may be of any age.
PublishedTree(t) ==
    /\ t.dirs = t.pins
    /\ t.litter = {} /\ t.stray = {}
    /\ \A s \in t.pins : Complete(t, s)
    /\ \A b \in Blobs : t.blob[b] = "exact" => b \in Referenced(t)
    /\ \/ t.pins = {} /\ t.docs = [d \in Docs |-> NoDoc]
       \/ \E s \in t.pins : t.docs = Selected(t, s)

\* The trees PublishedTree holds of, enumerated.
InitialTrees ==
    {t \in [blob: [Blobs -> BlobBytes], pins: SUBSET Snapshots,
            dirs: SUBSET Snapshots, litter: {{}}, stray: {{}},
            schema: [Migrated -> SchemaBytes],
            docs: {[d \in Docs |-> NoDoc]} \cup
                  {[d \in Docs |-> DocFor(d, s, listed)] :
                      s \in Snapshots, listed \in SUBSET Snapshots}] :
        PublishedTree(t)}

Init ==
    /\ repo \in InitialTrees
    /\ input \in Snapshots \cup {None}
    /\ pc = "idle"
    /\ cand = None
    /\ staged = repo
    /\ temp = "none"
    /\ made = NothingMade
    /\ before = repo
    /\ outcome = "none"
    /\ published = repo.pins
    /\ damaged = FALSE
    /\ crashed = FALSE

-----------------------------------------------------------------------------

\* Everything publish_registry renders in the staging copy.
Render(t, s) ==
    LET built == Build(t, s)
    IN  [built EXCEPT !.docs = Selected(built, s),
                      !.schema = [m \in Migrated |-> "current"]]

\* The comparison of the repository with the staging tree: nothing is removed,
\* nothing immutable changes, and only this snapshot's paths are added.
TransactionAllowed(t, st, s) ==
    /\ t.pins \subseteq st.pins /\ t.dirs \subseteq st.dirs
    /\ st.pins \ t.pins \subseteq {s}
    /\ \A b \in Blobs : t.blob[b] # "absent" => st.blob[b] = t.blob[b]
    /\ \A m \in Migrated : t.schema[m] # st.schema[m] =>
          t.schema[m] \in {"absent", "approved"}

\* Every check publish_registry makes before it touches the repository.
Accepts(t, s) ==
    /\ s # None
    /\ BuildAccepts(t, s)
    /\ SelectAccepts(Build(t, s), s)
    /\ SchemasAccept(t)
    /\ TransactionAllowed(t, Render(t, s), s)

\* The process is over and its staging tree removed; of the prior tree only what
\* the outcome is still compared with is kept.
Forget(left, kept) ==
    /\ cand' = None
    /\ staged' = left
    /\ before' = kept

\* The sources change: a release record or a replacement is added between runs.
ChangeSources(s) ==
    /\ pc = "idle"
    /\ s # input
    /\ input' = s
    /\ UNCHANGED <<repo, pc, cand, staged, temp, made, before, outcome,
                   published, damaged, crashed>>

\* Validation, rendering or comparison refuses; the staging tree is removed and
\* the repository is untouched.
Reject ==
    /\ pc = "idle"
    /\ ~Accepts(repo, input)
    /\ outcome' = "rejected"
    /\ Forget(repo, repo)
    /\ UNCHANGED <<repo, input, pc, temp, made, published, damaged, crashed>>

\* A variant: every referenced blob is recorded as created, those that were
\* already there included.
BeginClaimingBlobs ==
    /\ pc = "idle"
    /\ Accepts(repo, input)
    /\ pc' = "install"
    /\ cand' = input
    /\ staged' = Render(repo, input)
    /\ before' = repo
    /\ made' = [NothingMade EXCEPT !.blobs = BlobsOf[input]]
    /\ outcome' = "running"
    /\ UNCHANGED <<repo, input, temp, published, damaged, crashed>>

\* Rendering and comparison succeed; the prior bytes of what will be replaced
\* are captured before the first write.
Begin ==
    /\ pc = "idle"
    /\ Accepts(repo, input)
    /\ pc' = "install"
    /\ cand' = input
    /\ staged' = Render(repo, input)
    /\ before' = repo
    /\ made' = NothingMade
    /\ outcome' = "running"
    /\ UNCHANGED <<repo, input, temp, published, damaged, crashed>>

-----------------------------------------------------------------------------
(* The install loop.  What is left to do is the difference between the      *)
(* repository and the staging tree, in the order of the code.               *)

PendingBlobs == {b \in Blobs : repo.blob[b] # staged.blob[b]}
PendingPin == repo.pins # staged.pins
PendingSchemas == {m \in Migrated : repo.schema[m] # staged.schema[m]}
PendingDocs == {d \in Docs : repo.docs[d] # staged.docs[d]}

\* The document _MOVING_PATHS replaces next.
NextDoc(d) ==
    /\ PendingBlobs = {} /\ ~PendingPin /\ PendingSchemas = {}
    /\ d \in PendingDocs
    /\ \A e \in PendingDocs : MovingRank[d] <= MovingRank[e]

\* write_temp beside the next file: a blob, the manifest once its directory is
\* there, a schema or a moving document.
WriteTemporary ==
    /\ pc = "install"
    /\ temp = "none"
    /\ \/ PendingBlobs # {} /\ temp' = "public"
       \/ PendingBlobs = {} /\ PendingPin /\ cand \in repo.dirs /\ temp' = "snapshot"
       \/ PendingBlobs = {} /\ ~PendingPin /\ PendingSchemas # {} /\ temp' = "public"
       \/ \E d \in Docs : NextDoc(d) /\ temp' = DocPlace[d]
    /\ UNCHANGED <<repo, input, pc, cand, staged, made, before, outcome,
                   published, damaged, crashed>>

\* create_atomic of one blob: rename_noreplace of its temporary.
InstallBlob(b) ==
    /\ pc = "install"
    /\ b \in PendingBlobs
    /\ repo.blob[b] = "absent"
    /\ temp = "public"
    /\ repo' = [repo EXCEPT !.blob[b] = staged.blob[b]]
    /\ temp' = "none"
    /\ made' = [made EXCEPT !.blobs = @ \cup {b}]
    /\ UNCHANGED <<input, pc, cand, staged, before, outcome, published, damaged,
                   crashed>>

\* A variant: the created directory is not recorded for rollback.
MakeDirectoryUnrecorded ==
    /\ pc = "install"
    /\ PendingBlobs = {} /\ PendingPin
    /\ cand \notin repo.dirs
    /\ repo' = [repo EXCEPT !.dirs = @ \cup {cand}]
    /\ UNCHANGED <<input, pc, cand, staged, temp, made, before, outcome,
                   published, damaged, crashed>>

\* ensure_directory_chain for public/s/<snapshot>.
MakeDirectory ==
    /\ pc = "install"
    /\ PendingBlobs = {} /\ PendingPin
    /\ cand \notin repo.dirs
    /\ repo' = [repo EXCEPT !.dirs = @ \cup {cand}]
    /\ made' = [made EXCEPT !.dir = TRUE]
    /\ UNCHANGED <<input, pc, cand, staged, temp, before, outcome, published,
                   damaged, crashed>>

\* rename_noreplace of the temporary onto the manifest.
InstallPin ==
    /\ pc = "install"
    /\ PendingPin
    /\ temp = "snapshot"
    /\ repo' = [repo EXCEPT !.pins = @ \cup {cand}]
    /\ temp' = "none"
    /\ made' = [made EXCEPT !.pin = TRUE]
    /\ UNCHANGED <<input, pc, cand, staged, before, outcome, published, damaged,
                   crashed>>

\* The rename onto a migrated schema: created if it was missing, replaced
\* otherwise.
InstallSchema(m) ==
    /\ pc = "install"
    /\ PendingBlobs = {} /\ ~PendingPin
    /\ m \in PendingSchemas
    /\ temp = "public"
    /\ repo' = [repo EXCEPT !.schema[m] = staged.schema[m]]
    /\ temp' = "none"
    /\ made' = [made EXCEPT !.schemas =
                   IF before.schema[m] = "absent" THEN @ \cup {m} ELSE @]
    /\ UNCHANGED <<input, pc, cand, staged, before, outcome, published, damaged,
                   crashed>>

\* A variant: documents are replaced without waiting for what they refer to.
ReplaceDocEarly(d) ==
    /\ pc = "install"
    /\ d \in PendingDocs
    /\ \A e \in PendingDocs : MovingRank[d] <= MovingRank[e]
    /\ repo' = [repo EXCEPT !.docs[d] = staged.docs[d]]
    /\ UNCHANGED <<input, pc, cand, staged, temp, made, before, outcome,
                   published, damaged, crashed>>

\* The rename of replace_atomic onto one moving document.
ReplaceDoc(d) ==
    /\ pc = "install"
    /\ NextDoc(d)
    /\ temp = DocPlace[d]
    /\ repo' = [repo EXCEPT !.docs[d] = staged.docs[d]]
    /\ temp' = "none"
    /\ UNCHANGED <<input, pc, cand, staged, made, before, outcome, published,
                   damaged, crashed>>

\* Every difference is installed; the staging tree is removed.
Finish ==
    /\ pc = "install" /\ temp = "none"
    /\ PendingBlobs = {} /\ ~PendingPin /\ PendingSchemas = {} /\ PendingDocs = {}
    /\ pc' = "idle"
    /\ outcome' = "published"
    /\ published' = published \cup {cand}
    /\ damaged' = FALSE
    /\ made' = NothingMade
    /\ staged' = repo
    /\ UNCHANGED <<repo, input, cand, temp, before, crashed>>

-----------------------------------------------------------------------------
(* Failure, restore and rollback.                                           *)

\* The tree with the temporary of the write under way left where it is.
WithLeftover ==
    [repo EXCEPT !.litter = @ \cup (IF temp = "snapshot" THEN {cand} ELSE {}),
                 !.stray = @ \cup ({temp} \cap Places)]

\* A variant: the failing call leaves its temporary file behind.
FailLeakingTemp ==
    /\ "io" \in Faults
    /\ pc = "install"
    /\ PendingBlobs # {} \/ PendingPin \/ PendingSchemas # {} \/ PendingDocs # {}
    /\ repo' = WithLeftover
    /\ temp' = "none"
    /\ pc' = "restore"
    /\ outcome' = "failed"
    /\ UNCHANGED <<input, cand, staged, made, before, published, damaged, crashed>>

\* Some file operation raises; write_temp, create_atomic or replace_atomic
\* removes its own temporary file.
Fail ==
    /\ "io" \in Faults
    /\ pc = "install"
    /\ PendingBlobs # {} \/ PendingPin \/ PendingSchemas # {} \/ PendingDocs # {}
    /\ temp' = "none"
    /\ pc' = "restore"
    /\ outcome' = "failed"
    /\ UNCHANGED <<repo, input, cand, staged, made, before, published, damaged,
                   crashed>>

RestoreDocs == {d \in Docs : repo.docs[d] # before.docs[d]}
RestoreSchemas == {m \in Migrated : repo.schema[m] # before.schema[m]}

\* The document the handler restores next: the last one replaced first.
NextRestored(d) ==
    /\ d \in RestoreDocs
    /\ \A e \in RestoreDocs : MovingRank[e] <= MovingRank[d]

\* write_temp beside a document or schema that had prior bytes.
RestoreTemporary ==
    /\ pc = "restore"
    /\ temp = "none"
    /\ \/ \E d \in Docs : NextRestored(d) /\ before.docs[d] # NoDoc /\ temp' = DocPlace[d]
       \/ /\ RestoreDocs = {}
          /\ \E m \in RestoreSchemas : before.schema[m] # "absent"
          /\ temp' = "public"
    /\ UNCHANGED <<repo, input, pc, cand, staged, made, before, outcome,
                   published, damaged, crashed>>

\* _restore_file of a moving document: its prior bytes are renamed into place,
\* and a document that was not there is unlinked.
RestoreDoc(d) ==
    /\ pc = "restore"
    /\ NextRestored(d)
    /\ temp = IF before.docs[d] = NoDoc THEN "none" ELSE DocPlace[d]
    /\ repo' = [repo EXCEPT !.docs[d] = before.docs[d]]
    /\ temp' = "none"
    /\ UNCHANGED <<input, pc, cand, staged, made, before, outcome, published,
                   damaged, crashed>>

\* _restore_file of a migrated schema.
RestoreSchema(m) ==
    /\ pc = "restore"
    /\ RestoreDocs = {}
    /\ m \in RestoreSchemas
    /\ temp = IF before.schema[m] = "absent" THEN "none" ELSE "public"
    /\ repo' = [repo EXCEPT !.schema[m] = before.schema[m]]
    /\ temp' = "none"
    /\ UNCHANGED <<input, pc, cand, staged, made, before, outcome, published,
                   damaged, crashed>>

\* A variant: created files are removed before the documents are restored.
RestoredTooSoon ==
    /\ pc = "restore" /\ temp = "none"
    /\ pc' = "rollback"
    /\ UNCHANGED <<repo, input, cand, staged, temp, made, before, outcome,
                   published, damaged, crashed>>

\* Everything replaced is restored; _rollback_created follows.
Restored ==
    /\ pc = "restore" /\ temp = "none"
    /\ RestoreDocs = {} /\ RestoreSchemas = {}
    /\ pc' = "rollback"
    /\ UNCHANGED <<repo, input, cand, staged, temp, made, before, outcome,
                   published, damaged, crashed>>

\* A restore raises PublicationError, its temporary removed: the restores left
\* are skipped and the created files are removed all the same.
RestoreFails ==
    /\ "rollback" \in Faults
    /\ pc = "restore"
    /\ RestoreDocs # {} \/ RestoreSchemas # {}
    /\ temp' = "none"
    /\ pc' = "rollback"
    /\ outcome' = "abandoned"
    /\ damaged' = TRUE
    /\ UNCHANGED <<repo, input, cand, staged, made, before, published, crashed>>

\* A file that had prior bytes is read before it is restored, whether it was
\* replaced or not.  That read raises OSError, which nothing in the handler
\* catches: the restores left and the removals are skipped.
RestoreUnreadable ==
    /\ "rollback" \in Faults
    /\ pc = "restore" /\ temp = "none"
    /\ \/ \E d \in Docs : before.docs[d] \notin {NoDoc, staged.docs[d]}
       \/ \E m \in Migrated : before.schema[m] \notin {"absent", staged.schema[m]}
    /\ pc' = "idle"
    /\ outcome' = "abandoned"
    /\ damaged' = TRUE
    /\ made' = NothingMade
    /\ Forget(repo, repo)
    /\ UNCHANGED <<repo, input, temp, published, crashed>>

\* How one removal of _rollback_created ends: an OSError is ignored.
UndoResult(ok, undone) ==
    /\ ok \/ ("rollback" \in Faults /\ undone # repo)
    /\ repo' = IF ok THEN undone ELSE repo
    /\ outcome' = IF ok THEN outcome ELSE "abandoned"
    /\ damaged' = (damaged \/ ~ok)

\* Created files are removed last created first: schemas, manifest, blobs.  A
\* file already gone is skipped.
UndoSchema(m, ok) ==
    /\ pc = "rollback"
    /\ m \in made.schemas
    /\ made' = [made EXCEPT !.schemas = @ \ {m}]
    /\ UndoResult(ok, [repo EXCEPT !.schema[m] = "absent"])
    /\ UNCHANGED <<input, pc, cand, staged, temp, before, published, crashed>>

UndoPin(ok) ==
    /\ pc = "rollback"
    /\ made.schemas = {} /\ made.pin
    /\ made' = [made EXCEPT !.pin = FALSE]
    /\ UndoResult(ok, [repo EXCEPT !.pins = @ \ {cand}])
    /\ UNCHANGED <<input, pc, cand, staged, temp, before, published, crashed>>

\* A variant: blobs are removed in the order they were created, before the
\* manifest.
UndoBlobFirst(b, ok) ==
    /\ pc = "rollback"
    /\ b \in made.blobs
    /\ made' = [made EXCEPT !.blobs = @ \ {b}]
    /\ UndoResult(ok, [repo EXCEPT !.blob[b] = "absent"])
    /\ UNCHANGED <<input, pc, cand, staged, temp, before, published, crashed>>

UndoBlob(b, ok) ==
    /\ pc = "rollback"
    /\ made.schemas = {} /\ ~made.pin
    /\ b \in made.blobs
    /\ made' = [made EXCEPT !.blobs = @ \ {b}]
    /\ UndoResult(ok, [repo EXCEPT !.blob[b] = "absent"])
    /\ UNCHANGED <<input, pc, cand, staged, temp, before, published, crashed>>

\* rmdir of a directory this transaction created; a directory that still holds
\* a file stays.
UndoDirectory(ok) ==
    /\ pc = "rollback"
    /\ made.schemas = {} /\ ~made.pin /\ made.blobs = {}
    /\ made.dir
    /\ made' = [made EXCEPT !.dir = FALSE]
    /\ UndoResult(ok, IF cand \in repo.pins \cup repo.litter THEN repo
                      ELSE [repo EXCEPT !.dirs = @ \ {cand}])
    /\ UNCHANGED <<input, pc, cand, staged, temp, before, published, crashed>>

\* The error is re-raised and the staging tree removed.
RolledBack ==
    /\ pc = "rollback"
    /\ made = NothingMade
    /\ pc' = "idle"
    /\ Forget(repo, IF outcome = "failed" THEN before ELSE repo)
    /\ UNCHANGED <<repo, input, temp, made, outcome, published, damaged, crashed>>

\* The process is killed between two file operations: no handler runs, and the
\* temporary of the write under way stays.
Crash ==
    /\ "crash" \in Faults
    /\ pc # "idle"
    /\ repo' = WithLeftover
    /\ temp' = "none"
    /\ pc' = "idle"
    /\ made' = NothingMade
    /\ outcome' = "crashed"
    /\ crashed' = TRUE
    /\ Forget(WithLeftover, WithLeftover)
    /\ UNCHANGED <<input, published, damaged>>

-----------------------------------------------------------------------------

Install ==
    \/ MakeDirectory
    \/ WriteTemporary
    \/ \E b \in Blobs : InstallBlob(b)
    \/ InstallPin
    \/ \E m \in Migrated : InstallSchema(m)
    \/ \E d \in Docs : ReplaceDoc(d)
    \/ Finish

Restore ==
    \/ RestoreTemporary
    \/ \E d \in Docs : RestoreDoc(d)
    \/ \E m \in Migrated : RestoreSchema(m)
    \/ Restored

Undo(ok) ==
    \/ \E m \in Migrated : UndoSchema(m, ok)
    \/ UndoPin(ok)
    \/ \E b \in Blobs : UndoBlob(b, ok)
    \/ UndoDirectory(ok)

Next ==
    \/ \E s \in Snapshots \cup {None} : ChangeSources(s)
    \/ Reject
    \/ Begin
    \/ Install
    \/ Fail
    \/ Restore
    \/ RestoreFails
    \/ RestoreUnreadable
    \/ \E ok \in BOOLEAN : Undo(ok)
    \/ RolledBack
    \/ Crash

Spec == Init /\ [][Next]_vars

\* The steps publish_registry takes by itself, failures apart.
Progress == Begin \/ Install \/ Restore \/ Undo(TRUE) \/ RolledBack

\* A publication that has begun runs on, and one that failed is run again: the
\* promotion workflow is triggered every hour and a maintainer retries.
FairSpec == Spec /\ WF_vars(Progress)

-----------------------------------------------------------------------------
(* Properties.                                                              *)

\* A manifest is never on disk without every blob it references: blobs are
\* installed before it and removed after it, so a reader of the tree at any
\* instant, or after a crash, can load every manifest it finds.  Only a
\* rollback that itself failed can break it, until the next publication.
PinsComplete == ~damaged => \A s \in repo.pins : Complete(repo, s)

\* No moving document ever refers to a snapshot whose manifest or blobs are
\* missing, at any point of an install, of its rollback, or after a crash.
ReferencesResolve ==
    ~damaged => \A d \in Docs : \A s \in repo.docs[d].refs :
                    s \in repo.pins /\ Complete(repo, s)

\* A snapshot that was once published keeps its manifest and its blobs
\* whatever fails later, a failed rollback included: a transaction removes
\* only what it created itself, and blobs are shared.
PublishedStaysServed == \A s \in published : s \in repo.pins /\ Complete(repo, s)

\* A publication that failed, its rollback succeeding, leaves the tree as it
\* found it: documents, schemas, created files and the created directory.
FailureRestores == pc = "idle" /\ outcome = "failed" => repo = before

\* A publication that succeeds leaves documents that agree, lists every
\* snapshot directory, and adds neither an orphan blob nor a temporary file;
\* validate accepts the result when the tree held no unreferenced blob and no
\* leftover of a killed publication beneath public/ before.
SuccessValidates ==
    pc = "idle" /\ outcome = "published" =>
        /\ DocsAgree(repo)
        /\ repo.docs["listing"].refs = repo.dirs
        /\ repo.stray = before.stray
        /\ \A b \in Blobs : repo.blob[b] # "absent" =>
              b \in Referenced(repo) \/ before.blob[b] # "absent"
        /\ /\ \A b \in Blobs : before.blob[b] # "absent" => b \in Referenced(before)
           /\ "public" \notin before.stray
           => Validates(repo, cand)

\* The pointer moves last: when it changes, the root, the listing and the
\* hosting configuration already select the same snapshot.
PointerSwitchesLast ==
    [][repo'.docs["pointer"] # repo.docs["pointer"] => DocsAgree(repo')]_vars

\* The sources compose, no file in their way holds other bytes, and the
\* release schemas are of a known age.
SourcesSound ==
    /\ input # None
    /\ BuildAccepts(repo, input)
    /\ SchemasAccept(repo)

\* I/O failures alone never make the tree unpublishable: as long as no process
\* was killed and no rollback failed, sound sources are accepted.
FailuresNeverWedge ==
    pc = "idle" /\ SourcesSound /\ ~crashed /\ ~damaged => Accepts(repo, input)

\* The only debris that blocks later publications is in the directory of one
\* snapshot: a directory without manifest, or with a temporary file.
OnlySnapshotDebrisWedges ==
    pc = "idle" /\ SourcesSound /\ ~damaged /\ ~Accepts(repo, input) =>
        \E s \in repo.dirs : s \in repo.litter \/ (s \notin repo.pins /\ s # input)

\* If I/O operations eventually stop failing, sources that stay sound are
\* eventually published, unless a kill or a failed rollback intervened.
EventuallyPublished ==
    <>[][~Fail]_vars =>
        \A s \in Snapshots :
            (input = s /\ SourcesSound) ~>
                \/ input # s \/ crashed \/ damaged
                \/ repo.docs = Selected(repo, s)

\* "An interrupted publication replays cleanly" (render/snapshots.py): after
\* any interruption, sound sources are accepted.
InterruptedReplays ==
    pc = "idle" /\ SourcesSound /\ ~damaged => Accepts(repo, input)

\* The abstract registry this transaction implements when no rollback fails.
Registry == INSTANCE AppendOnlyRegistry WITH
    available <- {s \in repo.pins : Complete(repo, s)},
    live <- [d \in Docs |-> repo.docs[d].refs],
    committed <- published

\* With I/O failures and kills but no failing rollback, every step of the
\* transaction is one step of the abstract registry or none: snapshots appear
\* whole, documents refer to snapshots that load, and what was published is
\* never withdrawn.
ImplementsRegistry == Registry!Spec

-----------------------------------------------------------------------------
(* The inductive invariant behind the safety properties.                    *)

\* Between publications and during removals no write is under way; a manifest's
\* temporary file only exists while its directory does and its blobs are all
\* installed.
InFlightInv ==
    /\ pc = "idle" => made = NothingMade
    /\ temp # "none" => pc \in {"install", "restore"}
    /\ temp = "snapshot" =>
          pc = "install" /\ PendingBlobs = {} /\ PendingPin /\ cand \in repo.dirs
    /\ repo.pins \subseteq repo.dirs

\* What is being installed is closed: every manifest of the staging tree is
\* complete there and its documents refer to nothing else; the repository is
\* on the way to it, and only the candidate's manifest can be missing.
StagedInv ==
    pc = "install" =>
        /\ cand \in staged.pins
        /\ \A s \in staged.pins : Complete(staged, s)
        /\ \A d \in Docs : staged.docs[d].refs \subseteq staged.pins
        /\ repo.pins \subseteq staged.pins
        /\ staged.pins \ {cand} \subseteq repo.pins

\* What was there before the transaction is still there, what it records as
\* created was not there before, and what was published was complete before.
BeforeInv ==
    pc # "idle" =>
        /\ before.pins \subseteq repo.pins
        /\ repo.pins \subseteq before.pins \cup {cand}
        /\ \A b \in Blobs : before.blob[b] # "absent" => repo.blob[b] = before.blob[b]
        /\ \A b \in made.blobs : before.blob[b] = "absent"
        /\ made.pin => cand \notin before.pins
        /\ \A s \in published : s \in before.pins /\ Complete(before, s)

\* While no rollback has failed, the prior state was closed too, the created
\* manifest is recorded, and removals start only when the documents are back.
SoundInv ==
    pc # "idle" /\ ~damaged =>
        /\ \A s \in before.pins : Complete(before, s)
        /\ \A d \in Docs : before.docs[d].refs \subseteq before.pins
        /\ ~made.pin => repo.pins = before.pins
        /\ pc = "rollback" => repo.docs = before.docs

\* Documents refer to manifests that are present.
ReferencesPinned ==
    ~damaged => \A d \in Docs : repo.docs[d].refs \subseteq repo.pins

IInv ==
    /\ TypeOK
    /\ InFlightInv
    /\ StagedInv
    /\ BeforeInv
    /\ SoundInv
    /\ PinsComplete
    /\ ReferencesPinned
    /\ PublishedStaysServed

-----------------------------------------------------------------------------
(* What a transaction and its rollback have done so far, for the properties *)
(* that compare the tree with what it was.                                  *)

\* A rollback is recorded as failed when it is.
PhaseInv ==
    /\ pc = "install" <=> outcome = "running"
    /\ pc = "restore" => outcome = "failed"
    /\ pc = "rollback" => outcome \in {"failed", "abandoned"}
    /\ outcome = "abandoned" => damaged

\* Manifests and leftovers are in directories that are listed.
DebrisInv ==
    /\ repo.litter \subseteq repo.dirs
    /\ pc # "idle" => before.pins \subseteq before.dirs /\ before.litter \subseteq before.dirs

\* As long as every restore and removal succeeds, the tree is the prior one and
\* what is recorded as created, which was not there before.
ProgressInv ==
    pc # "idle" /\ outcome # "abandoned" =>
        /\ repo.litter = before.litter /\ repo.stray = before.stray
        /\ repo.pins = before.pins \cup (IF made.pin THEN {cand} ELSE {})
        /\ repo.dirs = before.dirs \cup (IF made.dir THEN {cand} ELSE {})
        /\ made.dir => cand \notin before.dirs
        /\ \A b \in Blobs \ made.blobs : repo.blob[b] = before.blob[b]
        /\ \A m \in made.schemas : before.schema[m] = "absent"
        /\ pc = "rollback" => repo.docs = before.docs /\ repo.schema = before.schema

\* What is installed, and what a publication leaves, is what rendering made of
\* the prior tree, which passed every check.
RenderedInv ==
    /\ pc = "install" => staged = Render(before, cand) /\ Accepts(before, cand)
    /\ pc = "idle" /\ outcome = "published" =>
          repo = Render(before, cand) /\ Accepts(before, cand)

\* Once the pointer has moved nothing is left that could fail.
PointerInv ==
    /\ pc = "install" =>
          \/ repo.docs["pointer"] = before.docs["pointer"]
          \/ PendingBlobs = {} /\ ~PendingPin /\ PendingSchemas = {} /\ PendingDocs = {}
    /\ pc = "restore" => repo.docs["pointer"] = before.docs["pointer"]

\* Without kills and failed rollbacks there is no debris between publications.
CleanInv ==
    ~crashed /\ ~damaged =>
        LET tree == IF pc = "idle" THEN repo ELSE before
        IN  tree.dirs = tree.pins /\ tree.litter = {}

TransactionInv ==
    /\ PhaseInv
    /\ DebrisInv
    /\ ProgressInv
    /\ RenderedInv
    /\ PointerInv
    /\ CleanInv
    /\ FailureRestores

=============================================================================
