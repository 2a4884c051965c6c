--------------------------- MODULE PublicationProofs ---------------------------
(***************************************************************************)
(* What publish_registry guarantees for every set of snapshots and blobs,  *)
(* every sharing of blobs between snapshots, and every interleaving of I/O *)
(* failures, failing rollbacks and kills.                                  *)
(***************************************************************************)
EXTENDS Publication, TLAPS

\* A rendered staging tree is a tree, and differs from the repository in the
\* ways Build and Selected say.
LEMMA RenderFacts ==
    ASSUME NEW t \in Tree, NEW s \in Snapshots
    PROVE  /\ Render(t, s) \in Tree
           /\ Render(t, s).blob = [b \in Blobs |->
                 IF b \in BlobsOf[s] /\ t.blob[b] = "absent" THEN "exact" ELSE t.blob[b]]
           /\ Render(t, s).pins = t.pins \cup {s}
           /\ Render(t, s).dirs = t.dirs \cup {s}
           /\ Render(t, s).litter = t.litter
           /\ Render(t, s).stray = t.stray
           /\ Render(t, s).schema = [m \in Migrated |-> "current"]
           /\ Render(t, s).docs = [d \in Docs |-> DocFor(d, s, t.dirs \cup {s})]
<1> DEFINE built == Build(t, s)
<1>1. /\ built.blob = [b \in Blobs |->
            IF b \in BlobsOf[s] /\ t.blob[b] = "absent" THEN "exact" ELSE t.blob[b]]
      /\ built.pins = t.pins \cup {s}
      /\ built.dirs = t.dirs \cup {s}
      /\ built.litter = t.litter
      /\ built.stray = t.stray
      /\ built \in Tree
  BY DEF Build, Tree, BlobBytes
<1>2. Selected(built, s) = [d \in Docs |-> DocFor(d, s, t.dirs \cup {s})]
  BY <1>1 DEF Selected
<1>3. Selected(built, s) \in [Docs -> DocValue]
  <2>1. \A d \in Docs : DocFor(d, s, t.dirs \cup {s}) \in DocValue
    BY DEF DocFor, DocValue, Tree
  <2>2. QED BY <2>1, <1>2
<1>4. [m \in Migrated |-> "current"] \in [Migrated -> SchemaBytes]
  BY DEF SchemaBytes
<1> HIDE DEF built
<1>5. Render(t, s) = [built EXCEPT !.docs = Selected(built, s),
                                   !.schema = [m \in Migrated |-> "current"]]
  BY DEF Render, built
<1>6. QED BY <1>1, <1>2, <1>3, <1>4, <1>5 DEF Tree

-----------------------------------------------------------------------------
(* Type correctness.                                                        *)

\* A temporary lies beneath public/, outside it, or in the snapshot directory.
LEMMA PlaceFacts ==
    /\ \A d \in Docs : DocPlace[d] \in Places
    /\ "none" \notin Places /\ "snapshot" \notin Places /\ "public" \in Places
BY DEF Docs, DocPlace, Places

\* A kill leaves the tree as it is, with one temporary more at most.
LEMMA LeftoverFacts ==
    ASSUME TypeOK, temp = "snapshot" => cand \in Snapshots
    PROVE  /\ WithLeftover \in Tree
           /\ WithLeftover.blob = repo.blob
           /\ WithLeftover.pins = repo.pins
           /\ WithLeftover.dirs = repo.dirs
           /\ WithLeftover.litter =
                 IF temp = "snapshot" THEN repo.litter \cup {cand} ELSE repo.litter
           /\ WithLeftover.schema = repo.schema
           /\ WithLeftover.docs = repo.docs
BY DEF WithLeftover, TypeOK, Tree

\* The trees of Init, and nothing in flight, are well typed.
LEMMA InitType == Init => TypeOK
<1> SUFFICES ASSUME Init PROVE TypeOK
  OBVIOUS
<1>1. repo \in Tree
  <2>1. \A s \in Snapshots, listed \in SUBSET Snapshots :
            [d \in Docs |-> DocFor(d, s, listed)] \in [Docs -> DocValue]
    BY DEF DocFor, DocValue
  <2>2. [d \in Docs |-> NoDoc] \in [Docs -> DocValue]
    BY DEF NoDoc, DocValue
  <2>3. {} \in SUBSET Places
    OBVIOUS
  <2>4. QED BY <2>1, <2>2, <2>3 DEF Init, InitialTrees, Tree
<1>2. NothingMade \in Made
  BY DEF NothingMade, Made
<1>3. QED BY <1>1, <1>2 DEF Init, TypeOK, Tree

\* Every action preserves the types.
LEMMA NextType == TypeOK /\ [Next]_vars => TypeOK'
<1> SUFFICES ASSUME TypeOK, [Next]_vars PROVE TypeOK'
  OBVIOUS
<1>0. NothingMade \in Made
  BY DEF NothingMade, Made
<1>1. ASSUME NEW s \in Snapshots \cup {None}, ChangeSources(s) PROVE TypeOK'
  BY <1>1 DEF ChangeSources, TypeOK
<1>2. CASE Reject
  BY <1>2 DEF Reject, Forget, TypeOK
<1>3. CASE Begin
  <2>1. input \in Snapshots
    BY <1>3 DEF Begin, Accepts, TypeOK
  <2>2. Render(repo, input) \in Tree
    BY <2>1, RenderFacts DEF TypeOK
  <2>3. QED BY <1>3, <1>0, <2>1, <2>2 DEF Begin, TypeOK
<1>4. ASSUME NEW b \in Blobs, InstallBlob(b) PROVE TypeOK'
  <2>1. repo' \in Tree
    BY <1>4 DEF InstallBlob, TypeOK, Tree
  <2>2. made' \in Made
    BY <1>4 DEF InstallBlob, TypeOK, Made
  <2>3. QED BY <1>4, <2>1, <2>2 DEF InstallBlob, TypeOK
<1>5. CASE MakeDirectory
  <2>1. repo' \in Tree
    BY <1>5 DEF MakeDirectory, TypeOK, Tree
  <2>2. made' \in Made
    BY <1>5 DEF MakeDirectory, TypeOK, Made
  <2>3. QED BY <1>5, <2>1, <2>2 DEF MakeDirectory, TypeOK
<1>6. CASE WriteTemporary
  <2>1. temp' \in {"snapshot"} \cup Places
    BY <1>6, PlaceFacts DEF WriteTemporary
  <2>2. QED BY <1>6, <2>1 DEF WriteTemporary, TypeOK
<1>7. CASE InstallPin
  <2>1. repo' \in Tree
    BY <1>7 DEF InstallPin, TypeOK, Tree
  <2>2. made' \in Made
    BY <1>7 DEF InstallPin, TypeOK, Made
  <2>3. QED BY <1>7, <2>1, <2>2 DEF InstallPin, TypeOK
<1>8. ASSUME NEW m \in Migrated, InstallSchema(m) PROVE TypeOK'
  <2>1. repo' \in Tree
    BY <1>8 DEF InstallSchema, TypeOK, Tree
  <2>2. made' \in Made
    BY <1>8 DEF InstallSchema, TypeOK, Made
  <2>3. QED BY <1>8, <2>1, <2>2 DEF InstallSchema, TypeOK
<1>9. ASSUME NEW d \in Docs, ReplaceDoc(d) PROVE TypeOK'
  <2>1. repo' \in Tree
    BY <1>9 DEF ReplaceDoc, TypeOK, Tree
  <2>2. QED BY <1>9, <2>1 DEF ReplaceDoc, TypeOK
<1>10. CASE Finish
  BY <1>10, <1>0 DEF Finish, TypeOK
<1>11. CASE Fail
  BY <1>11, <1>0 DEF Fail, TypeOK
<1>12. ASSUME NEW d \in Docs, RestoreDoc(d) PROVE TypeOK'
  <2>1. repo' \in Tree
    BY <1>12 DEF RestoreDoc, TypeOK, Tree
  <2>2. QED BY <1>12, <2>1 DEF RestoreDoc, TypeOK
<1>13. ASSUME NEW m \in Migrated, RestoreSchema(m) PROVE TypeOK'
  <2>1. repo' \in Tree
    BY <1>13 DEF RestoreSchema, TypeOK, Tree
  <2>2. QED BY <1>13, <2>1 DEF RestoreSchema, TypeOK
<1>14. CASE Restored
  BY <1>14, <1>0 DEF Restored, TypeOK
<1>15. CASE RestoreFails
  BY <1>15, <1>0 DEF RestoreFails, TypeOK
<1>16. CASE RestoreUnreadable
  BY <1>16, <1>0 DEF RestoreUnreadable, Forget, TypeOK
<1>17. ASSUME NEW ok \in BOOLEAN, NEW m \in Migrated, UndoSchema(m, ok) PROVE TypeOK'
  <2>1. repo' \in Tree
    BY <1>17 DEF UndoSchema, TypeOK, Tree, UndoResult, BlobBytes, SchemaBytes
  <2>2. made' \in Made
    BY <1>17 DEF UndoSchema, TypeOK, Made
  <2>3. QED BY <1>17, <2>1, <2>2 DEF UndoSchema, UndoResult, TypeOK
<1>18. ASSUME NEW ok \in BOOLEAN, UndoPin(ok) PROVE TypeOK'
  <2>1. repo' \in Tree
    BY <1>18 DEF UndoPin, TypeOK, Tree, UndoResult, BlobBytes, SchemaBytes
  <2>2. made' \in Made
    BY <1>18 DEF UndoPin, TypeOK, Made
  <2>3. QED BY <1>18, <2>1, <2>2 DEF UndoPin, UndoResult, TypeOK
<1>19. ASSUME NEW ok \in BOOLEAN, NEW b \in Blobs, UndoBlob(b, ok) PROVE TypeOK'
  <2>1. repo' \in Tree
    BY <1>19 DEF UndoBlob, TypeOK, Tree, UndoResult, BlobBytes, SchemaBytes
  <2>2. made' \in Made
    BY <1>19 DEF UndoBlob, TypeOK, Made
  <2>3. QED BY <1>19, <2>1, <2>2 DEF UndoBlob, UndoResult, TypeOK
<1>20. ASSUME NEW ok \in BOOLEAN, UndoDirectory(ok) PROVE TypeOK'
  <2>1. repo' \in Tree
    BY <1>20 DEF UndoDirectory, TypeOK, Tree, UndoResult, BlobBytes, SchemaBytes
  <2>2. made' \in Made
    BY <1>20 DEF UndoDirectory, TypeOK, Made
  <2>3. QED BY <1>20, <2>1, <2>2 DEF UndoDirectory, UndoResult, TypeOK
<1>21. CASE RolledBack
  BY <1>21, <1>0 DEF RolledBack, Forget, TypeOK
<1>22. CASE Crash
  <2>1. WithLeftover \in Tree
    BY <1>22, LeftoverFacts DEF Crash, TypeOK
  <2>2. QED BY <1>0, <1>22, <2>1 DEF Crash, Forget, TypeOK
<1>23. CASE RestoreTemporary
  <2>1. temp' \in Places
    BY <1>23, PlaceFacts DEF RestoreTemporary
  <2>2. QED BY <1>23, <2>1 DEF RestoreTemporary, TypeOK
<1>24. CASE UNCHANGED vars
  BY <1>24 DEF vars, TypeOK
<1>25. QED
  BY <1>1, <1>2, <1>3, <1>4, <1>5, <1>6, <1>7, <1>8, <1>9, <1>10, <1>11, <1>12,
     <1>13, <1>14, <1>15, <1>16, <1>17, <1>18, <1>19, <1>20, <1>21, <1>22, <1>23, <1>24
     DEF Next, Install, Restore, Undo

\* Every state of the transaction is well typed: the tree keeps its shape
\* through every partial install, rollback and crash.
THEOREM TypeCorrect == Spec => []TypeOK
<1>1. Init => TypeOK BY InitType
<1>2. TypeOK /\ [Next]_vars => TypeOK' BY NextType
<1>3. QED BY <1>1, <1>2, PTL DEF Spec

-----------------------------------------------------------------------------
(* Safety.                                                                  *)

\* New sources do not touch the tree.
LEMMA InvChangeSources ==
    ASSUME IInv, TypeOK', NEW s \in Snapshots \cup {None}, ChangeSources(s)
    PROVE  IInv'
<1>1. InFlightInv'
  BY DEF ChangeSources, IInv, InFlightInv
<1>2. StagedInv'
  BY DEF ChangeSources, StagedInv
<1>3. BeforeInv'
  BY DEF ChangeSources, BeforeInv
<1>4. SoundInv'
  BY DEF ChangeSources, SoundInv
<1>5. PinsComplete'
  BY DEF ChangeSources, IInv, PinsComplete
<1>6. ReferencesPinned'
  BY DEF ChangeSources, IInv, ReferencesPinned
<1>7. PublishedStaysServed'
  BY DEF ChangeSources, IInv, PublishedStaysServed
<1>8. QED BY <1>1, <1>2, <1>3, <1>4, <1>5, <1>6, <1>7 DEF IInv

\* A refused publication touches nothing.
LEMMA InvReject ==
    ASSUME IInv, TypeOK', Reject
    PROVE  IInv'
<1>1. InFlightInv'
  BY DEF Reject, IInv, InFlightInv
<1>2. StagedInv'
  BY DEF Reject, StagedInv
<1>3. BeforeInv'
  BY DEF Reject, BeforeInv
<1>4. SoundInv'
  BY DEF Reject, SoundInv
<1>5. PinsComplete'
  BY DEF Reject, IInv, PinsComplete
<1>6. ReferencesPinned'
  BY DEF Reject, IInv, ReferencesPinned
<1>7. PublishedStaysServed'
  BY DEF Reject, IInv, PublishedStaysServed
<1>8. QED BY <1>1, <1>2, <1>3, <1>4, <1>5, <1>6, <1>7 DEF IInv

\* A blob is created where the prior tree had none, and completes manifests.
LEMMA InvInstallBlob ==
    ASSUME IInv, TypeOK', NEW b \in Blobs, InstallBlob(b)
    PROVE  IInv'
<1>1. /\ repo'.blob = [repo.blob EXCEPT ![b] = staged.blob[b]]
      /\ repo'.pins = repo.pins
      /\ repo'.dirs = repo.dirs
      /\ repo'.litter = repo.litter
      /\ repo'.schema = repo.schema
      /\ repo'.docs = repo.docs
  BY DEF InstallBlob
<1>2. InFlightInv'
  BY <1>1 DEF InstallBlob, IInv, InFlightInv
<1>3. StagedInv'
  BY <1>1 DEF InstallBlob, IInv, StagedInv
<1>4. BeforeInv'
  BY <1>1 DEF InstallBlob, IInv, BeforeInv
<1>5. SoundInv'
  BY <1>1 DEF InstallBlob, IInv, SoundInv
<1>6. PinsComplete'
  BY <1>1 DEF InstallBlob, IInv, PinsComplete, Complete
<1>7. ReferencesPinned'
  BY <1>1 DEF InstallBlob, IInv, ReferencesPinned
<1>8. PublishedStaysServed'
  BY <1>1 DEF InstallBlob, IInv, PublishedStaysServed, Complete
<1>9. QED BY <1>2, <1>3, <1>4, <1>5, <1>6, <1>7, <1>8 DEF IInv

\* The directory of the candidate may be there before its manifest.
LEMMA InvMakeDirectory ==
    ASSUME IInv, TypeOK', MakeDirectory
    PROVE  IInv'
<1>1. /\ repo'.blob = repo.blob
      /\ repo'.pins = repo.pins
      /\ repo'.dirs = repo.dirs \cup {cand}
      /\ repo'.litter = repo.litter
      /\ repo'.schema = repo.schema
      /\ repo'.docs = repo.docs
  BY DEF MakeDirectory
<1>2. InFlightInv'
  BY <1>1 DEF MakeDirectory, IInv, InFlightInv
<1>3. StagedInv'
  BY <1>1 DEF MakeDirectory, IInv, StagedInv
<1>4. BeforeInv'
  BY <1>1 DEF MakeDirectory, IInv, BeforeInv
<1>5. SoundInv'
  BY <1>1 DEF MakeDirectory, IInv, SoundInv
<1>6. PinsComplete'
  BY <1>1 DEF MakeDirectory, IInv, PinsComplete, Complete
<1>7. ReferencesPinned'
  BY <1>1 DEF MakeDirectory, IInv, ReferencesPinned
<1>8. PublishedStaysServed'
  BY <1>1 DEF MakeDirectory, IInv, PublishedStaysServed, Complete
<1>9. QED BY <1>2, <1>3, <1>4, <1>5, <1>6, <1>7, <1>8 DEF IInv

\* The manifest's temporary is written when every blob is installed.
LEMMA InvWriteTemporary ==
    ASSUME IInv, TypeOK', WriteTemporary
    PROVE  IInv'
<1>1. InFlightInv'
  <2>1. temp' = "snapshot" => PendingBlobs = {} /\ PendingPin /\ cand \in repo.dirs
    BY PlaceFacts DEF WriteTemporary
  <2>2. QED BY <2>1 DEF WriteTemporary, IInv, InFlightInv, PendingBlobs, PendingPin
<1>2. StagedInv'
  BY DEF WriteTemporary, IInv, StagedInv
<1>3. BeforeInv'
  BY DEF WriteTemporary, IInv, BeforeInv
<1>4. SoundInv'
  BY DEF WriteTemporary, IInv, SoundInv
<1>5. PinsComplete'
  BY DEF WriteTemporary, IInv, PinsComplete
<1>6. ReferencesPinned'
  BY DEF WriteTemporary, IInv, ReferencesPinned
<1>7. PublishedStaysServed'
  BY DEF WriteTemporary, IInv, PublishedStaysServed
<1>8. QED BY <1>1, <1>2, <1>3, <1>4, <1>5, <1>6, <1>7 DEF IInv

\* The manifest appears when all its blobs are there: it is complete.
LEMMA InvInstallPin ==
    ASSUME IInv, TypeOK', InstallPin
    PROVE  IInv'
<1>1. /\ repo'.blob = repo.blob
      /\ repo'.pins = repo.pins \cup {cand}
      /\ repo'.dirs = repo.dirs
      /\ repo'.litter = repo.litter
      /\ repo'.schema = repo.schema
      /\ repo'.docs = repo.docs
  BY DEF InstallPin
<1>2. InFlightInv'
  BY <1>1 DEF InstallPin, IInv, InFlightInv
<1>3. StagedInv'
  BY <1>1 DEF InstallPin, IInv, StagedInv
<1>4. BeforeInv'
  <2>1. cand \notin repo.pins
    <3>1. SUFFICES ASSUME cand \in repo.pins PROVE repo.pins = staged.pins
      BY DEF InstallPin, PendingPin
    <3>2. QED BY <3>1 DEF InstallPin, IInv, StagedInv
  <2>2. QED BY <1>1, <2>1 DEF InstallPin, IInv, BeforeInv
<1>5. SoundInv'
  BY <1>1 DEF InstallPin, IInv, SoundInv
<1>6. PinsComplete'
  BY <1>1, TreeAssumption DEF InstallPin, IInv, TypeOK, PinsComplete, Complete,
     StagedInv, InFlightInv, PendingBlobs
<1>7. ReferencesPinned'
  BY <1>1 DEF InstallPin, IInv, ReferencesPinned
<1>8. PublishedStaysServed'
  BY <1>1 DEF InstallPin, IInv, PublishedStaysServed, Complete
<1>9. QED BY <1>2, <1>3, <1>4, <1>5, <1>6, <1>7, <1>8 DEF IInv

\* A migrated schema is none of the documents, blobs or manifests.
LEMMA InvInstallSchema ==
    ASSUME IInv, TypeOK', NEW m \in Migrated, InstallSchema(m)
    PROVE  IInv'
<1>1. /\ repo'.blob = repo.blob
      /\ repo'.pins = repo.pins
      /\ repo'.dirs = repo.dirs
      /\ repo'.litter = repo.litter
      /\ repo'.schema = [repo.schema EXCEPT ![m] = staged.schema[m]]
      /\ repo'.docs = repo.docs
  BY DEF InstallSchema
<1>2. InFlightInv'
  BY <1>1 DEF InstallSchema, IInv, InFlightInv
<1>3. StagedInv'
  BY <1>1 DEF InstallSchema, IInv, StagedInv
<1>4. BeforeInv'
  BY <1>1 DEF InstallSchema, IInv, BeforeInv
<1>5. SoundInv'
  BY <1>1 DEF InstallSchema, IInv, SoundInv
<1>6. PinsComplete'
  BY <1>1 DEF InstallSchema, IInv, PinsComplete, Complete
<1>7. ReferencesPinned'
  BY <1>1 DEF InstallSchema, IInv, ReferencesPinned
<1>8. PublishedStaysServed'
  BY <1>1 DEF InstallSchema, IInv, PublishedStaysServed, Complete
<1>9. QED BY <1>2, <1>3, <1>4, <1>5, <1>6, <1>7, <1>8 DEF IInv

\* A document replaced refers to manifests of the staging tree, all installed.
LEMMA InvReplaceDoc ==
    ASSUME IInv, TypeOK', NEW d \in Docs, ReplaceDoc(d)
    PROVE  IInv'
<1>1. /\ repo'.blob = repo.blob
      /\ repo'.pins = repo.pins
      /\ repo'.dirs = repo.dirs
      /\ repo'.litter = repo.litter
      /\ repo'.schema = repo.schema
      /\ repo'.docs = [repo.docs EXCEPT ![d] = staged.docs[d]]
  BY DEF ReplaceDoc
<1>2. InFlightInv'
  BY <1>1 DEF ReplaceDoc, IInv, InFlightInv
<1>3. StagedInv'
  BY <1>1 DEF ReplaceDoc, IInv, StagedInv
<1>4. BeforeInv'
  BY <1>1 DEF ReplaceDoc, IInv, BeforeInv
<1>5. SoundInv'
  BY <1>1 DEF ReplaceDoc, IInv, SoundInv
<1>6. PinsComplete'
  BY <1>1 DEF ReplaceDoc, IInv, PinsComplete, Complete
<1>7. ReferencesPinned'
  BY <1>1 DEF ReplaceDoc, NextDoc, IInv, ReferencesPinned, StagedInv, PendingPin
<1>8. PublishedStaysServed'
  BY <1>1 DEF ReplaceDoc, IInv, PublishedStaysServed, Complete
<1>9. QED BY <1>2, <1>3, <1>4, <1>5, <1>6, <1>7, <1>8 DEF IInv

\* A failure leaves the tree between the prior and the staged one.
LEMMA InvFail ==
    ASSUME IInv, TypeOK', Fail
    PROVE  IInv'
<1>1. InFlightInv'
  BY DEF Fail, IInv, InFlightInv
<1>2. StagedInv'
  BY DEF Fail, StagedInv
<1>3. BeforeInv'
  BY DEF Fail, IInv, BeforeInv
<1>4. SoundInv'
  BY DEF Fail, IInv, SoundInv
<1>5. PinsComplete'
  BY DEF Fail, IInv, PinsComplete
<1>6. ReferencesPinned'
  BY DEF Fail, IInv, ReferencesPinned
<1>7. PublishedStaysServed'
  BY DEF Fail, IInv, PublishedStaysServed
<1>8. QED BY <1>1, <1>2, <1>3, <1>4, <1>5, <1>6, <1>7 DEF IInv

\* Writing beside a file to be restored changes no file.
LEMMA InvRestoreTemporary ==
    ASSUME IInv, TypeOK', RestoreTemporary
    PROVE  IInv'
<1>1. InFlightInv'
  BY PlaceFacts DEF RestoreTemporary, IInv, InFlightInv
<1>2. StagedInv'
  BY DEF RestoreTemporary, StagedInv
<1>3. BeforeInv'
  BY DEF RestoreTemporary, IInv, BeforeInv
<1>4. SoundInv'
  BY DEF RestoreTemporary, IInv, SoundInv
<1>5. PinsComplete'
  BY DEF RestoreTemporary, IInv, PinsComplete
<1>6. ReferencesPinned'
  BY DEF RestoreTemporary, IInv, ReferencesPinned
<1>7. PublishedStaysServed'
  BY DEF RestoreTemporary, IInv, PublishedStaysServed
<1>8. QED BY <1>1, <1>2, <1>3, <1>4, <1>5, <1>6, <1>7 DEF IInv

\* A restored document refers to manifests of the prior tree, still there.
LEMMA InvRestoreDoc ==
    ASSUME IInv, TypeOK', NEW d \in Docs, RestoreDoc(d)
    PROVE  IInv'
<1>1. /\ repo'.blob = repo.blob
      /\ repo'.pins = repo.pins
      /\ repo'.dirs = repo.dirs
      /\ repo'.litter = repo.litter
      /\ repo'.schema = repo.schema
      /\ repo'.docs = [repo.docs EXCEPT ![d] = before.docs[d]]
  BY DEF RestoreDoc
<1>2. InFlightInv'
  BY <1>1 DEF RestoreDoc, IInv, InFlightInv
<1>3. StagedInv'
  BY <1>1 DEF RestoreDoc, StagedInv
<1>4. BeforeInv'
  BY <1>1 DEF RestoreDoc, IInv, BeforeInv
<1>5. SoundInv'
  BY <1>1 DEF RestoreDoc, IInv, SoundInv
<1>6. PinsComplete'
  BY <1>1 DEF RestoreDoc, IInv, PinsComplete, Complete
<1>7. ReferencesPinned'
  BY <1>1 DEF RestoreDoc, IInv, ReferencesPinned, BeforeInv, SoundInv
<1>8. PublishedStaysServed'
  BY <1>1 DEF RestoreDoc, IInv, PublishedStaysServed, Complete
<1>9. QED BY <1>2, <1>3, <1>4, <1>5, <1>6, <1>7, <1>8 DEF IInv

\* A restored schema is none of the documents, blobs or manifests.
LEMMA InvRestoreSchema ==
    ASSUME IInv, TypeOK', NEW m \in Migrated, RestoreSchema(m)
    PROVE  IInv'
<1>1. /\ repo'.blob = repo.blob
      /\ repo'.pins = repo.pins
      /\ repo'.dirs = repo.dirs
      /\ repo'.litter = repo.litter
      /\ repo'.schema = [repo.schema EXCEPT ![m] = before.schema[m]]
      /\ repo'.docs = repo.docs
  BY DEF RestoreSchema
<1>2. InFlightInv'
  BY <1>1 DEF RestoreSchema, IInv, InFlightInv
<1>3. StagedInv'
  BY <1>1 DEF RestoreSchema, StagedInv
<1>4. BeforeInv'
  BY <1>1 DEF RestoreSchema, IInv, BeforeInv
<1>5. SoundInv'
  BY <1>1 DEF RestoreSchema, IInv, SoundInv
<1>6. PinsComplete'
  BY <1>1 DEF RestoreSchema, IInv, PinsComplete, Complete
<1>7. ReferencesPinned'
  BY <1>1 DEF RestoreSchema, IInv, ReferencesPinned
<1>8. PublishedStaysServed'
  BY <1>1 DEF RestoreSchema, IInv, PublishedStaysServed, Complete
<1>9. QED BY <1>2, <1>3, <1>4, <1>5, <1>6, <1>7, <1>8 DEF IInv

\* Removals begin when every document is restored.
LEMMA InvRestored ==
    ASSUME IInv, TypeOK', Restored
    PROVE  IInv'
<1>1. InFlightInv'
  BY DEF Restored, IInv, InFlightInv
<1>2. StagedInv'
  BY DEF Restored, StagedInv
<1>3. BeforeInv'
  BY DEF Restored, IInv, BeforeInv
<1>4. SoundInv'
  BY DEF Restored, IInv, TypeOK, Tree, SoundInv, RestoreDocs
<1>5. PinsComplete'
  BY DEF Restored, IInv, PinsComplete
<1>6. ReferencesPinned'
  BY DEF Restored, IInv, ReferencesPinned
<1>7. PublishedStaysServed'
  BY DEF Restored, IInv, PublishedStaysServed
<1>8. QED BY <1>1, <1>2, <1>3, <1>4, <1>5, <1>6, <1>7 DEF IInv

\* Removals that begin before that mark the tree damaged.
LEMMA InvRestoreFails ==
    ASSUME IInv, TypeOK', RestoreFails
    PROVE  IInv'
<1>1. InFlightInv'
  BY DEF RestoreFails, IInv, InFlightInv
<1>2. StagedInv'
  BY DEF RestoreFails, StagedInv
<1>3. BeforeInv'
  BY DEF RestoreFails, IInv, BeforeInv
<1>4. SoundInv'
  BY DEF RestoreFails, SoundInv
<1>5. PinsComplete'
  BY DEF RestoreFails, PinsComplete
<1>6. ReferencesPinned'
  BY DEF RestoreFails, ReferencesPinned
<1>7. PublishedStaysServed'
  BY DEF RestoreFails, IInv, PublishedStaysServed
<1>8. QED BY <1>1, <1>2, <1>3, <1>4, <1>5, <1>6, <1>7 DEF IInv

\* A handler that stops half way removes nothing.
LEMMA InvRestoreUnreadable ==
    ASSUME IInv, TypeOK', RestoreUnreadable
    PROVE  IInv'
<1>1. InFlightInv'
  BY DEF RestoreUnreadable, IInv, InFlightInv
<1>2. StagedInv'
  BY DEF RestoreUnreadable, StagedInv
<1>3. BeforeInv'
  BY DEF RestoreUnreadable, BeforeInv
<1>4. SoundInv'
  BY DEF RestoreUnreadable, SoundInv
<1>5. PinsComplete'
  BY DEF RestoreUnreadable, PinsComplete
<1>6. ReferencesPinned'
  BY DEF RestoreUnreadable, ReferencesPinned
<1>7. PublishedStaysServed'
  BY DEF RestoreUnreadable, IInv, PublishedStaysServed
<1>8. QED BY <1>1, <1>2, <1>3, <1>4, <1>5, <1>6, <1>7 DEF IInv

\* Removing a created schema disturbs no manifest.
LEMMA InvUndoSchema ==
    ASSUME IInv, TypeOK', NEW ok \in BOOLEAN, NEW m \in Migrated, UndoSchema(m, ok)
    PROVE  IInv'
<1>1. /\ repo'.blob = repo.blob
      /\ repo'.pins = repo.pins
      /\ repo'.dirs = repo.dirs
      /\ repo'.litter = repo.litter
      /\ repo'.schema = IF ok THEN [repo.schema EXCEPT ![m] = "absent"] ELSE repo.schema
      /\ repo'.docs = repo.docs
  BY DEF UndoSchema, UndoResult
<1>2. InFlightInv'
  BY <1>1 DEF UndoSchema, UndoResult, IInv, InFlightInv
<1>3. StagedInv'
  BY <1>1 DEF UndoSchema, UndoResult, StagedInv
<1>4. BeforeInv'
  BY <1>1 DEF UndoSchema, UndoResult, IInv, BeforeInv
<1>5. SoundInv'
  BY <1>1 DEF UndoSchema, UndoResult, IInv, TypeOK, SoundInv
<1>6. PinsComplete'
  BY <1>1 DEF UndoSchema, UndoResult, IInv, PinsComplete, Complete
<1>7. ReferencesPinned'
  BY <1>1 DEF UndoSchema, UndoResult, IInv, ReferencesPinned
<1>8. PublishedStaysServed'
  BY <1>1 DEF UndoSchema, UndoResult, IInv, PublishedStaysServed, Complete
<1>9. QED BY <1>2, <1>3, <1>4, <1>5, <1>6, <1>7, <1>8 DEF IInv

\* The manifest removed is the created one, which no document refers to.
LEMMA InvUndoPin ==
    ASSUME IInv, TypeOK', NEW ok \in BOOLEAN, UndoPin(ok)
    PROVE  IInv'
<1>1. /\ repo'.blob = repo.blob
      /\ repo'.pins = IF ok THEN repo.pins \ {cand} ELSE repo.pins
      /\ repo'.dirs = repo.dirs
      /\ repo'.litter = repo.litter
      /\ repo'.schema = repo.schema
      /\ repo'.docs = repo.docs
  BY DEF UndoPin, UndoResult
<1>2. InFlightInv'
  BY <1>1 DEF UndoPin, UndoResult, IInv, InFlightInv
<1>3. StagedInv'
  BY <1>1 DEF UndoPin, UndoResult, StagedInv
<1>4. BeforeInv'
  BY <1>1 DEF UndoPin, UndoResult, IInv, BeforeInv
<1>5. SoundInv'
  BY <1>1 DEF UndoPin, UndoResult, IInv, TypeOK, Tree, Made, SoundInv, BeforeInv
<1>6. PinsComplete'
  BY <1>1 DEF UndoPin, UndoResult, IInv, TypeOK, PinsComplete, Complete
<1>7. ReferencesPinned'
  BY <1>1 DEF UndoPin, UndoResult, IInv, TypeOK, ReferencesPinned, BeforeInv,
     SoundInv
<1>8. PublishedStaysServed'
  BY <1>1 DEF UndoPin, UndoResult, IInv, PublishedStaysServed, Complete, BeforeInv
<1>9. QED BY <1>2, <1>3, <1>4, <1>5, <1>6, <1>7, <1>8 DEF IInv

\* A created blob is removed when the created manifest is gone: no prior
\* manifest references it, because the prior ones were complete without it.
LEMMA InvUndoBlob ==
    ASSUME IInv, TypeOK', NEW ok \in BOOLEAN, NEW b \in Blobs, UndoBlob(b, ok)
    PROVE  IInv'
<1>1. /\ repo'.blob = IF ok THEN [repo.blob EXCEPT ![b] = "absent"] ELSE repo.blob
      /\ repo'.pins = repo.pins
      /\ repo'.dirs = repo.dirs
      /\ repo'.litter = repo.litter
      /\ repo'.schema = repo.schema
      /\ repo'.docs = repo.docs
  BY DEF UndoBlob, UndoResult
<1>2. InFlightInv'
  BY <1>1 DEF UndoBlob, UndoResult, IInv, InFlightInv
<1>3. StagedInv'
  BY <1>1 DEF UndoBlob, UndoResult, StagedInv
<1>4. BeforeInv'
  BY <1>1 DEF UndoBlob, UndoResult, IInv, BeforeInv
<1>5. SoundInv'
  BY <1>1 DEF UndoBlob, UndoResult, IInv, SoundInv
<1>6. PinsComplete'
  BY <1>1 DEF UndoBlob, UndoResult, IInv, TypeOK, PinsComplete, Complete,
     BeforeInv, SoundInv
<1>7. ReferencesPinned'
  BY <1>1 DEF UndoBlob, UndoResult, IInv, ReferencesPinned
<1>8. PublishedStaysServed'
  BY <1>1 DEF UndoBlob, UndoResult, IInv, PublishedStaysServed, Complete, BeforeInv
<1>9. QED BY <1>2, <1>3, <1>4, <1>5, <1>6, <1>7, <1>8 DEF IInv

\* A directory is removed only when its manifest is gone.
LEMMA InvUndoDirectory ==
    ASSUME IInv, TypeOK', NEW ok \in BOOLEAN, UndoDirectory(ok)
    PROVE  IInv'
<1>1. /\ repo'.blob = repo.blob
      /\ repo'.pins = repo.pins
      /\ repo'.dirs = IF ok /\ cand \notin repo.pins \cup repo.litter
                      THEN repo.dirs \ {cand} ELSE repo.dirs
      /\ repo'.litter = repo.litter
      /\ repo'.schema = repo.schema
      /\ repo'.docs = repo.docs
  BY DEF UndoDirectory, UndoResult
<1>2. InFlightInv'
  BY <1>1 DEF UndoDirectory, UndoResult, IInv, InFlightInv
<1>3. StagedInv'
  BY <1>1 DEF UndoDirectory, UndoResult, StagedInv
<1>4. BeforeInv'
  BY <1>1 DEF UndoDirectory, UndoResult, IInv, BeforeInv
<1>5. SoundInv'
  BY <1>1 DEF UndoDirectory, UndoResult, IInv, SoundInv
<1>6. PinsComplete'
  BY <1>1 DEF UndoDirectory, UndoResult, IInv, TypeOK, PinsComplete, Complete
<1>7. ReferencesPinned'
  BY <1>1 DEF UndoDirectory, UndoResult, IInv, ReferencesPinned
<1>8. PublishedStaysServed'
  BY <1>1 DEF UndoDirectory, UndoResult, IInv, PublishedStaysServed, Complete
<1>9. QED BY <1>2, <1>3, <1>4, <1>5, <1>6, <1>7, <1>8 DEF IInv

\* When everything created is removed nothing is in flight.
LEMMA InvRolledBack ==
    ASSUME IInv, TypeOK', RolledBack
    PROVE  IInv'
<1>1. InFlightInv'
  BY DEF RolledBack, IInv, InFlightInv
<1>2. StagedInv'
  BY DEF RolledBack, StagedInv
<1>3. BeforeInv'
  BY DEF RolledBack, BeforeInv
<1>4. SoundInv'
  BY DEF RolledBack, SoundInv
<1>5. PinsComplete'
  BY DEF RolledBack, IInv, PinsComplete
<1>6. ReferencesPinned'
  BY DEF RolledBack, IInv, ReferencesPinned
<1>7. PublishedStaysServed'
  BY DEF RolledBack, IInv, PublishedStaysServed
<1>8. QED BY <1>1, <1>2, <1>3, <1>4, <1>5, <1>6, <1>7 DEF IInv

\* A kill leaves the tree as it is and what is in flight is forgotten.
LEMMA InvCrash ==
    ASSUME IInv, TypeOK', Crash
    PROVE  IInv'
<1>1. /\ repo'.blob = repo.blob
      /\ repo'.pins = repo.pins
      /\ repo'.dirs = repo.dirs
      /\ repo'.docs = repo.docs
  BY LeftoverFacts DEF Crash, IInv, TypeOK
<1>2. InFlightInv'
  BY <1>1 DEF Crash, IInv, InFlightInv
<1>3. StagedInv'
  BY <1>1 DEF Crash, StagedInv
<1>4. BeforeInv'
  BY <1>1 DEF Crash, BeforeInv
<1>5. SoundInv'
  BY <1>1 DEF Crash, SoundInv
<1>6. PinsComplete'
  BY <1>1 DEF Crash, IInv, PinsComplete, Complete
<1>7. ReferencesPinned'
  BY <1>1 DEF Crash, IInv, ReferencesPinned
<1>8. PublishedStaysServed'
  BY <1>1 DEF Crash, IInv, PublishedStaysServed, Complete
<1>9. QED BY <1>2, <1>3, <1>4, <1>5, <1>6, <1>7, <1>8 DEF IInv

\* A step that changes no variable preserves the invariant.
LEMMA InvStutter ==
    ASSUME IInv, TypeOK', UNCHANGED vars
    PROVE  IInv'
<1>1. InFlightInv'
  BY DEF vars, IInv, InFlightInv, PendingBlobs, PendingPin
<1>2. StagedInv'
  BY DEF vars, IInv, StagedInv
<1>3. BeforeInv'
  BY DEF vars, IInv, BeforeInv
<1>4. SoundInv'
  BY DEF vars, IInv, SoundInv
<1>5. PinsComplete'
  BY DEF vars, IInv, PinsComplete
<1>6. ReferencesPinned'
  BY DEF vars, IInv, ReferencesPinned
<1>7. PublishedStaysServed'
  BY DEF vars, IInv, PublishedStaysServed
<1>8. QED BY <1>1, <1>2, <1>3, <1>4, <1>5, <1>6, <1>7 DEF IInv

\* A transaction begins: the staging tree is closed because rendering loaded
\* every snapshot directory, and the tree at hand becomes the prior state.
LEMMA InvBegin ==
    ASSUME IInv, TypeOK', Begin
    PROVE  IInv'
<1> DEFINE r == Render(repo, input)
<1>1. input \in Snapshots /\ repo \in Tree
  BY DEF Begin, Accepts, TypeOK
<1>2. /\ r.pins = repo.pins \cup {input}
      /\ r.dirs = repo.dirs \cup {input}
      /\ r.blob = Build(repo, input).blob
      /\ \A d \in Docs : r.docs[d].refs \subseteq r.dirs
  <2>1. r.blob = Build(repo, input).blob
    BY <1>1, RenderFacts DEF Build, Tree
  <2>2. /\ r.pins = repo.pins \cup {input}
        /\ r.dirs = repo.dirs \cup {input}
        /\ r.docs = [d \in Docs |-> DocFor(d, input, repo.dirs \cup {input})]
    BY <1>1, RenderFacts
  <2>3. \A d \in Docs : r.docs[d] = DocFor(d, input, r.dirs)
    BY <2>2
  <2>4. \A d \in Docs : r.docs[d].refs \subseteq r.dirs
    <3> HIDE DEF r
    <3>1. QED BY <2>2, <2>3 DEF DocFor
  <2>5. QED BY <2>1, <2>2, <2>4
<1>3. /\ Build(repo, input).pins = repo.pins \cup {input}
      /\ Build(repo, input).dirs = repo.dirs \cup {input}
  BY <1>1 DEF Build
<1>4. \A s \in r.dirs : s \in r.pins /\ Complete(r, s)
  BY <1>2, <1>3 DEF Begin, Accepts, SelectAccepts, Loads, Complete
<1>5. repo.pins \subseteq repo.dirs
  BY DEF IInv, InFlightInv
<1>6. /\ cand' = input /\ staged' = r /\ before' = repo /\ repo' = repo
      /\ made' = NothingMade /\ pc = "idle" /\ pc' = "install"
      /\ temp' = temp /\ damaged' = damaged /\ published' = published
  BY DEF Begin
<1> HIDE DEF r
<1>7. InFlightInv'
  BY <1>5, <1>6 DEF IInv, InFlightInv
<1>8. StagedInv'
  BY <1>2, <1>4, <1>5, <1>6 DEF StagedInv
<1>9. BeforeInv'
  BY <1>6 DEF IInv, BeforeInv, NothingMade, PublishedStaysServed
<1>10. SoundInv'
  BY <1>6 DEF IInv, SoundInv, PinsComplete, ReferencesPinned
<1>11. PinsComplete' /\ ReferencesPinned' /\ PublishedStaysServed'
  BY <1>6 DEF IInv, PinsComplete, ReferencesPinned, PublishedStaysServed
<1>12. QED BY <1>7, <1>8, <1>9, <1>10, <1>11 DEF IInv

\* A transaction completes: the repository equals the staging tree in what the
\* properties speak of, so even damage left by an earlier rollback is repaired.
LEMMA InvFinish ==
    ASSUME IInv, TypeOK', Finish
    PROVE  IInv'
<1>1. /\ repo.pins = staged.pins
      /\ \A b \in Blobs : repo.blob[b] = staged.blob[b]
      /\ \A d \in Docs : repo.docs[d] = staged.docs[d]
  BY DEF Finish, PendingPin, PendingBlobs, PendingDocs
<1>2. /\ \A s \in repo.pins : Complete(repo, s)
      /\ \A d \in Docs : repo.docs[d].refs \subseteq repo.pins
      /\ cand \in repo.pins
  BY <1>1 DEF Finish, IInv, TypeOK, Tree, StagedInv, Complete
<1>3. InFlightInv'
  BY DEF Finish, IInv, InFlightInv
<1>4. StagedInv' /\ BeforeInv' /\ SoundInv'
  BY DEF Finish, StagedInv, BeforeInv, SoundInv
<1>5. PinsComplete' /\ ReferencesPinned'
  BY <1>2 DEF Finish, PinsComplete, ReferencesPinned
<1>6. PublishedStaysServed'
  BY <1>2 DEF Finish, IInv, PublishedStaysServed
<1>7. QED BY <1>3, <1>4, <1>5, <1>6 DEF IInv

\* A repository as checked out is closed.
LEMMA InvInit == Init => IInv
<1> SUFFICES ASSUME Init PROVE IInv
  OBVIOUS
<1>1. TypeOK
  BY InitType
<1>2. PublishedTree(repo)
  BY DEF Init, InitialTrees
<1>3. InFlightInv /\ StagedInv /\ BeforeInv /\ SoundInv
  BY <1>2 DEF Init, PublishedTree, InFlightInv, StagedInv, BeforeInv, SoundInv
<1>4. PinsComplete /\ PublishedStaysServed
  BY <1>2 DEF Init, PublishedTree, PinsComplete, PublishedStaysServed
<1>5. ReferencesPinned
  <2>1. CASE repo.docs = [d \in Docs |-> NoDoc]
    BY <2>1 DEF ReferencesPinned, NoDoc
  <2>2. ASSUME NEW s \in repo.pins, repo.docs = Selected(repo, s) PROVE ReferencesPinned
    BY <1>2, <2>2 DEF PublishedTree, ReferencesPinned, Selected, DocFor
  <2>3. QED BY <1>2, <2>1, <2>2 DEF PublishedTree
<1>6. QED BY <1>1, <1>3, <1>4, <1>5 DEF IInv

\* Every step preserves the invariant.
LEMMA InvNext == IInv /\ [Next]_vars => IInv'
<1> SUFFICES ASSUME IInv, [Next]_vars PROVE IInv'
  OBVIOUS
<1>0. TypeOK'
  BY NextType DEF IInv
<1>1. ASSUME NEW s \in Snapshots \cup {None}, ChangeSources(s) PROVE IInv'
  BY <1>0, <1>1, InvChangeSources
<1>2. CASE Reject
  BY <1>0, <1>2, InvReject
<1>3. CASE Begin
  BY <1>0, <1>3, InvBegin
<1>4. ASSUME NEW b \in Blobs, InstallBlob(b) PROVE IInv'
  BY <1>0, <1>4, InvInstallBlob
<1>5. CASE MakeDirectory
  BY <1>0, <1>5, InvMakeDirectory
<1>6. CASE WriteTemporary
  BY <1>0, <1>6, InvWriteTemporary
<1>7. CASE InstallPin
  BY <1>0, <1>7, InvInstallPin
<1>8. ASSUME NEW m \in Migrated, InstallSchema(m) PROVE IInv'
  BY <1>0, <1>8, InvInstallSchema
<1>9. ASSUME NEW d \in Docs, ReplaceDoc(d) PROVE IInv'
  BY <1>0, <1>9, InvReplaceDoc
<1>10. CASE Finish
  BY <1>0, <1>10, InvFinish
<1>11. CASE Fail
  BY <1>0, <1>11, InvFail
<1>12. ASSUME NEW d \in Docs, RestoreDoc(d) PROVE IInv'
  BY <1>0, <1>12, InvRestoreDoc
<1>13. ASSUME NEW m \in Migrated, RestoreSchema(m) PROVE IInv'
  BY <1>0, <1>13, InvRestoreSchema
<1>14. CASE Restored
  BY <1>0, <1>14, InvRestored
<1>15. CASE RestoreFails
  BY <1>0, <1>15, InvRestoreFails
<1>16. CASE RestoreUnreadable
  BY <1>0, <1>16, InvRestoreUnreadable
<1>17. ASSUME NEW ok \in BOOLEAN, NEW m \in Migrated, UndoSchema(m, ok) PROVE IInv'
  BY <1>0, <1>17, InvUndoSchema
<1>18. ASSUME NEW ok \in BOOLEAN, UndoPin(ok) PROVE IInv'
  BY <1>0, <1>18, InvUndoPin
<1>19. ASSUME NEW ok \in BOOLEAN, NEW b \in Blobs, UndoBlob(b, ok) PROVE IInv'
  BY <1>0, <1>19, InvUndoBlob
<1>20. ASSUME NEW ok \in BOOLEAN, UndoDirectory(ok) PROVE IInv'
  BY <1>0, <1>20, InvUndoDirectory
<1>21. CASE RolledBack
  BY <1>0, <1>21, InvRolledBack
<1>22. CASE Crash
  BY <1>0, <1>22, InvCrash
<1>23. CASE RestoreTemporary
  BY <1>0, <1>23, InvRestoreTemporary
<1>24. CASE UNCHANGED vars
  BY <1>0, <1>24, InvStutter
<1>25. QED
  BY <1>1, <1>2, <1>3, <1>4, <1>5, <1>6, <1>7, <1>8, <1>9, <1>10, <1>11, <1>12,
     <1>13, <1>14, <1>15, <1>16, <1>17, <1>18, <1>19, <1>20, <1>21, <1>22, <1>23, <1>24
     DEF Next, Install, Restore, Undo

\* The invariant that carries the safety properties.
THEOREM Invariant == Spec => []IInv
<1>1. QED BY InvInit, InvNext, PTL DEF Spec

\* No manifest is ever on disk without its blobs, in any intermediate or crashed
\* state, unless a rollback failed and nothing was published since.
THEOREM PinsAreComplete == Spec => []PinsComplete
<1>1. IInv => PinsComplete BY DEF IInv
<1>2. QED BY <1>1, Invariant, PTL

\* Moving documents only ever refer to snapshots that load.
THEOREM ReferencesAlwaysResolve == Spec => []ReferencesResolve
<1>1. IInv => ReferencesResolve
  BY DEF IInv, ReferencesResolve, ReferencesPinned, PinsComplete
<1>2. QED BY <1>1, Invariant, PTL

\* A published snapshot is never lost, whatever fails afterwards.
THEOREM PublishedIsPermanent == Spec => []PublishedStaysServed
<1>1. IInv => PublishedStaysServed BY DEF IInv
<1>2. QED BY <1>1, Invariant, PTL

-----------------------------------------------------------------------------
(* What a transaction leaves behind, however it ends: the prior tree when it *)
(* failed and was rolled back, what rendering made of it when it succeeded.  *)

\* The outcome is recorded in the step that decides it.
LEMMA PhaseNext ==
    ASSUME PhaseInv, [Next]_vars
    PROVE  PhaseInv'
BY DEF PhaseInv, Next, vars, ChangeSources, Reject, Begin, Install, InstallBlob, MakeDirectory,
       WriteTemporary, InstallPin, InstallSchema, ReplaceDoc, Finish, Fail, Restore,
       RestoreTemporary, RestoreDoc, RestoreSchema, Restored, RestoreFails,
       RestoreUnreadable, Undo, UndoSchema, UndoPin, UndoBlob, UndoDirectory, UndoResult,
       RolledBack, Crash

\* Only a kill leaves a temporary file, and its directory is there; a directory
\* is removed only when it holds neither a manifest nor a leftover.
LEMMA DebrisNext ==
    ASSUME IInv, DebrisInv, [Next]_vars
    PROVE  DebrisInv'
<1>0. /\ repo \in Tree /\ repo.pins \subseteq repo.dirs
      /\ temp = "snapshot" => cand \in repo.dirs
  BY DEF IInv, TypeOK, InFlightInv
<1>1. CASE Begin
  BY <1>0, <1>1 DEF Begin, DebrisInv
<1>2. ASSUME NEW ok \in BOOLEAN, UndoDirectory(ok) PROVE DebrisInv'
  <2>1. /\ repo'.litter = repo.litter
        /\ repo'.dirs = IF ok /\ cand \notin repo.pins \cup repo.litter
                        THEN repo.dirs \ {cand} ELSE repo.dirs
    BY <1>0, <1>2 DEF UndoDirectory, UndoResult, Tree
  <2>2. pc' = pc /\ before' = before
    BY <1>2 DEF UndoDirectory
  <2>3. QED BY <2>1, <2>2 DEF DebrisInv
<1>3. CASE Crash
  <2>1. /\ repo'.litter = IF temp = "snapshot" THEN repo.litter \cup {cand} ELSE repo.litter
        /\ repo'.dirs = repo.dirs /\ pc' = "idle"
    BY <1>3, LeftoverFacts DEF Crash, IInv, TypeOK
  <2>2. QED BY <1>0, <2>1 DEF DebrisInv
<1>4. CASE MakeDirectory
  <2>1. repo'.litter = repo.litter /\ repo'.dirs = repo.dirs \cup {cand}
    BY <1>0, <1>4 DEF MakeDirectory, Tree
  <2>2. QED BY <1>4, <2>1 DEF MakeDirectory, DebrisInv
<1>5. ASSUME repo'.litter = repo.litter, repo'.dirs = repo.dirs, before' = before,
             pc' # "idle" => pc # "idle"
      PROVE  DebrisInv'
  BY <1>5 DEF DebrisInv
<1>6. ASSUME NEW ok \in BOOLEAN,
             \/ \E m \in Migrated : UndoSchema(m, ok)
             \/ UndoPin(ok)
             \/ \E b \in Blobs : UndoBlob(b, ok)
      PROVE DebrisInv'
  <2>1. /\ repo'.litter = repo.litter /\ repo'.dirs = repo.dirs /\ before' = before
        /\ pc' = pc
    BY <1>0, <1>6 DEF UndoSchema, UndoPin, UndoBlob, UndoResult, Tree
  <2>2. QED BY <1>5, <2>1
<1>7. CASE \/ \E b \in Blobs : InstallBlob(b)
           \/ InstallPin
           \/ \E m \in Migrated : InstallSchema(m) \/ RestoreSchema(m)
           \/ \E d \in Docs : ReplaceDoc(d) \/ RestoreDoc(d)
  <2>1. /\ repo'.litter = repo.litter /\ repo'.dirs = repo.dirs /\ before' = before
        /\ pc' = pc
    BY <1>0, <1>7 DEF InstallBlob, InstallPin, InstallSchema, RestoreSchema, ReplaceDoc,
       RestoreDoc, Tree
  <2>2. QED BY <1>5, <2>1
<1>8. CASE \/ \E s \in Snapshots \cup {None} : ChangeSources(s)
           \/ WriteTemporary \/ Finish \/ Fail \/ RestoreTemporary \/ Restored
           \/ RestoreFails \/ UNCHANGED vars
  <2>1. repo' = repo /\ before' = before /\ (pc' # "idle" => pc # "idle")
    BY <1>8 DEF ChangeSources, WriteTemporary, Finish, Fail, RestoreTemporary, Restored,
       RestoreFails, vars
  <2>2. QED BY <1>5, <2>1
<1>9. CASE Reject \/ RestoreUnreadable \/ RolledBack
  <2>1. repo' = repo /\ pc' = "idle"
    BY <1>9 DEF Reject, RestoreUnreadable, RolledBack
  <2>2. QED BY <2>1 DEF DebrisInv
<1>10. QED
  BY <1>1, <1>2, <1>3, <1>4, <1>6, <1>7, <1>8, <1>9 DEF Next, Install, Restore, Undo

\* Every file operation of the install is undone by one of the rollback: what
\* differs from the prior tree is what is recorded, and nothing recorded was
\* there before.
LEMMA ProgressNext ==
    ASSUME IInv, TypeOK', DebrisInv, PhaseInv, ProgressInv, [Next]_vars
    PROVE  ProgressInv'
<1>0. /\ repo \in Tree /\ before \in Tree /\ made \in Made
      /\ repo' \in Tree /\ before' \in Tree
  BY DEF IInv, TypeOK
<1>1. CASE Begin
  <2>1. repo' = repo /\ before' = repo /\ made' = NothingMade /\ pc' = "install"
    BY <1>1 DEF Begin
  <2>2. QED BY <2>1 DEF ProgressInv, NothingMade
<1>2. ASSUME NEW b \in Blobs, InstallBlob(b) PROVE ProgressInv'
  <2>1. /\ repo'.blob = [repo.blob EXCEPT ![b] = staged.blob[b]]
        /\ repo'.pins = repo.pins /\ repo'.dirs = repo.dirs /\ repo'.litter = repo.litter
        /\ repo'.stray = repo.stray
    BY <1>0, <1>2 DEF InstallBlob, Tree
  <2>2. /\ made'.blobs = made.blobs \cup {b} /\ made'.pin = made.pin
        /\ made'.dir = made.dir /\ made'.schemas = made.schemas
    BY <1>0, <1>2 DEF InstallBlob, Made
  <2>3. pc = "install" /\ pc' = pc /\ outcome' = outcome /\ before' = before /\ cand' = cand
    BY <1>2 DEF InstallBlob
  <2>4. \A c \in Blobs \ made'.blobs : repo'.blob[c] = repo.blob[c]
    BY <1>0, <2>1, <2>2 DEF Tree
  <2>5. QED BY <2>1, <2>2, <2>3, <2>4 DEF ProgressInv
<1>3. CASE MakeDirectory
  <2>1. /\ repo'.blob = repo.blob /\ repo'.pins = repo.pins
        /\ repo'.dirs = repo.dirs \cup {cand} /\ repo'.litter = repo.litter
        /\ repo'.stray = repo.stray
    BY <1>0, <1>3 DEF MakeDirectory, Tree
  <2>2. /\ made'.blobs = made.blobs /\ made'.pin = made.pin
        /\ made'.dir = TRUE /\ made'.schemas = made.schemas
    BY <1>0, <1>3 DEF MakeDirectory, Made
  <2>3. /\ pc = "install" /\ pc' = pc /\ outcome' = outcome /\ before' = before
        /\ cand' = cand /\ cand \notin repo.dirs
    BY <1>3 DEF MakeDirectory
  <2>4. QED BY <2>1, <2>2, <2>3 DEF ProgressInv
<1>4. CASE InstallPin
  <2>1. /\ repo'.blob = repo.blob /\ repo'.pins = repo.pins \cup {cand}
        /\ repo'.dirs = repo.dirs /\ repo'.litter = repo.litter
        /\ repo'.stray = repo.stray
    BY <1>0, <1>4 DEF InstallPin, Tree
  <2>2. /\ made'.blobs = made.blobs /\ made'.pin = TRUE
        /\ made'.dir = made.dir /\ made'.schemas = made.schemas
    BY <1>0, <1>4 DEF InstallPin, Made
  <2>3. pc = "install" /\ pc' = pc /\ outcome' = outcome /\ before' = before /\ cand' = cand
    BY <1>4 DEF InstallPin
  <2>4. QED BY <2>1, <2>2, <2>3 DEF ProgressInv
<1>5. ASSUME NEW m \in Migrated, InstallSchema(m) PROVE ProgressInv'
  <2>1. /\ repo'.blob = repo.blob /\ repo'.pins = repo.pins
        /\ repo'.dirs = repo.dirs /\ repo'.litter = repo.litter
        /\ repo'.stray = repo.stray
    BY <1>0, <1>5 DEF InstallSchema, Tree
  <2>2. /\ made'.blobs = made.blobs /\ made'.pin = made.pin /\ made'.dir = made.dir
        /\ made'.schemas = IF before.schema[m] = "absent" THEN made.schemas \cup {m}
                           ELSE made.schemas
    BY <1>0, <1>5 DEF InstallSchema, Made
  <2>3. pc = "install" /\ pc' = pc /\ outcome' = outcome /\ before' = before /\ cand' = cand
    BY <1>5 DEF InstallSchema
  <2>4. QED BY <2>1, <2>2, <2>3 DEF ProgressInv
<1>6. ASSUME NEW d \in Docs, ReplaceDoc(d) \/ RestoreDoc(d) PROVE ProgressInv'
  <2>1. /\ repo'.blob = repo.blob /\ repo'.pins = repo.pins
        /\ repo'.dirs = repo.dirs /\ repo'.litter = repo.litter
        /\ repo'.stray = repo.stray
    BY <1>0, <1>6 DEF ReplaceDoc, RestoreDoc, Tree
  <2>2. /\ pc \in {"install", "restore"} /\ pc' = pc /\ outcome' = outcome
        /\ before' = before /\ cand' = cand /\ made' = made
    BY <1>6 DEF ReplaceDoc, RestoreDoc
  <2>3. QED BY <2>1, <2>2 DEF ProgressInv
<1>7. ASSUME NEW m \in Migrated, RestoreSchema(m) PROVE ProgressInv'
  <2>1. /\ repo'.blob = repo.blob /\ repo'.pins = repo.pins
        /\ repo'.dirs = repo.dirs /\ repo'.litter = repo.litter
        /\ repo'.stray = repo.stray
    BY <1>0, <1>7 DEF RestoreSchema, Tree
  <2>2. /\ pc = "restore" /\ pc' = pc /\ outcome' = outcome
        /\ before' = before /\ cand' = cand /\ made' = made
    BY <1>7 DEF RestoreSchema
  <2>3. QED BY <2>1, <2>2 DEF ProgressInv
<1>8. CASE Restored
  <2>1. repo.docs = before.docs /\ repo.schema = before.schema
    BY <1>0, <1>8 DEF Restored, RestoreDocs, RestoreSchemas, Tree
  <2>2. /\ pc = "restore" /\ pc' = "rollback" /\ outcome' = outcome /\ repo' = repo
        /\ before' = before /\ cand' = cand /\ made' = made
    BY <1>8 DEF Restored
  <2>3. QED BY <2>1, <2>2 DEF ProgressInv
<1>9. ASSUME NEW ok \in BOOLEAN, NEW m \in Migrated, UndoSchema(m, ok) PROVE ProgressInv'
  <2>1. CASE ~ok
    BY <1>9, <2>1 DEF UndoSchema, UndoResult, ProgressInv
  <2>2. CASE ok /\ outcome # "abandoned"
    <3>1. /\ repo'.blob = repo.blob /\ repo'.pins = repo.pins
          /\ repo'.dirs = repo.dirs /\ repo'.litter = repo.litter
        /\ repo'.stray = repo.stray
          /\ repo'.schema = [repo.schema EXCEPT ![m] = "absent"]
          /\ repo'.docs = repo.docs
      BY <1>0, <1>9, <2>2 DEF UndoSchema, UndoResult, Tree
    <3>2. /\ made'.blobs = made.blobs /\ made'.pin = made.pin /\ made'.dir = made.dir
          /\ made'.schemas = made.schemas \ {m}
      BY <1>0, <1>9 DEF UndoSchema, Made
    <3>3. /\ pc = "rollback" /\ pc' = pc /\ before' = before /\ cand' = cand
          /\ m \in made.schemas
      BY <1>9 DEF UndoSchema
    <3>4. repo.schema[m] = "absent"
      BY <2>2, <3>3 DEF ProgressInv
    <3>5. repo'.schema = repo.schema
      BY <1>0, <3>1, <3>4 DEF Tree
    <3>6. QED BY <2>2, <3>1, <3>2, <3>3, <3>5 DEF ProgressInv
  <2>3. CASE ok /\ outcome = "abandoned"
    BY <1>9, <2>3 DEF UndoSchema, UndoResult, ProgressInv
  <2>4. QED BY <2>1, <2>2, <2>3
<1>10. ASSUME NEW ok \in BOOLEAN, UndoPin(ok) PROVE ProgressInv'
  <2>1. CASE ~ok
    BY <1>10, <2>1 DEF UndoPin, UndoResult, ProgressInv
  <2>2. CASE ok /\ outcome # "abandoned"
    <3>1. /\ repo'.blob = repo.blob /\ repo'.pins = repo.pins \ {cand}
          /\ repo'.dirs = repo.dirs /\ repo'.litter = repo.litter
        /\ repo'.stray = repo.stray
          /\ repo'.schema = repo.schema /\ repo'.docs = repo.docs
      BY <1>0, <1>10, <2>2 DEF UndoPin, UndoResult, Tree
    <3>2. /\ made'.blobs = made.blobs /\ made'.pin = FALSE /\ made'.dir = made.dir
          /\ made'.schemas = made.schemas
      BY <1>0, <1>10 DEF UndoPin, Made
    <3>3. pc = "rollback" /\ pc' = pc /\ before' = before /\ cand' = cand /\ made.pin
      BY <1>10 DEF UndoPin
    <3>4. cand \notin before.pins
      BY <3>3 DEF IInv, BeforeInv
    <3>5. QED BY <2>2, <3>1, <3>2, <3>3, <3>4 DEF ProgressInv
  <2>3. CASE ok /\ outcome = "abandoned"
    BY <1>10, <2>3 DEF UndoPin, UndoResult, ProgressInv
  <2>4. QED BY <2>1, <2>2, <2>3
<1>11. ASSUME NEW ok \in BOOLEAN, NEW b \in Blobs, UndoBlob(b, ok) PROVE ProgressInv'
  <2>1. CASE ~ok
    BY <1>11, <2>1 DEF UndoBlob, UndoResult, ProgressInv
  <2>2. CASE ok /\ outcome # "abandoned"
    <3>1. /\ repo'.blob = [repo.blob EXCEPT ![b] = "absent"] /\ repo'.pins = repo.pins
          /\ repo'.dirs = repo.dirs /\ repo'.litter = repo.litter
        /\ repo'.stray = repo.stray
          /\ repo'.schema = repo.schema /\ repo'.docs = repo.docs
      BY <1>0, <1>11, <2>2 DEF UndoBlob, UndoResult, Tree
    <3>2. /\ made'.blobs = made.blobs \ {b} /\ made'.pin = made.pin /\ made'.dir = made.dir
          /\ made'.schemas = made.schemas
      BY <1>0, <1>11 DEF UndoBlob, Made
    <3>3. /\ pc = "rollback" /\ pc' = pc /\ before' = before /\ cand' = cand
          /\ b \in made.blobs
      BY <1>11 DEF UndoBlob
    <3>4. before.blob[b] = "absent"
      BY <3>3 DEF IInv, BeforeInv
    <3>5. \A c \in Blobs \ made'.blobs : repo'.blob[c] = before.blob[c]
      BY <1>0, <2>2, <3>1, <3>2, <3>3, <3>4 DEF ProgressInv, Tree
    <3>6. QED BY <2>2, <3>1, <3>2, <3>3, <3>5 DEF ProgressInv
  <2>3. CASE ok /\ outcome = "abandoned"
    BY <1>11, <2>3 DEF UndoBlob, UndoResult, ProgressInv
  <2>4. QED BY <2>1, <2>2, <2>3
<1>12. ASSUME NEW ok \in BOOLEAN, UndoDirectory(ok) PROVE ProgressInv'
  <2>1. CASE ~ok
    BY <1>12, <2>1 DEF UndoDirectory, UndoResult, ProgressInv
  <2>2. CASE ok /\ outcome # "abandoned"
    <3>1. /\ pc = "rollback" /\ pc' = pc /\ before' = before /\ cand' = cand
          /\ made.dir /\ ~made.pin
      BY <1>12 DEF UndoDirectory
    <3>2. cand \notin repo.pins \cup repo.litter
      BY <2>2, <3>1 DEF ProgressInv, DebrisInv
    <3>3. /\ repo'.blob = repo.blob /\ repo'.pins = repo.pins
          /\ repo'.dirs = repo.dirs \ {cand} /\ repo'.litter = repo.litter
        /\ repo'.stray = repo.stray
          /\ repo'.schema = repo.schema /\ repo'.docs = repo.docs
      BY <1>0, <1>12, <2>2, <3>2 DEF UndoDirectory, UndoResult, Tree
    <3>4. /\ made'.blobs = made.blobs /\ made'.pin = made.pin /\ made'.dir = FALSE
          /\ made'.schemas = made.schemas
      BY <1>0, <1>12 DEF UndoDirectory, Made
    <3>5. QED BY <2>2, <3>1, <3>3, <3>4 DEF ProgressInv
  <2>3. CASE ok /\ outcome = "abandoned"
    BY <1>12, <2>3 DEF UndoDirectory, UndoResult, ProgressInv
  <2>4. QED BY <2>1, <2>2, <2>3
<1>13. CASE Fail \/ WriteTemporary \/ RestoreTemporary \/ UNCHANGED vars
           \/ (\E s \in Snapshots \cup {None} : ChangeSources(s))
  <2>1. /\ repo' = repo /\ before' = before /\ cand' = cand /\ made' = made
        /\ pc = "idle" => pc' = "idle"
        /\ pc = "idle" \/ (pc' = pc /\ outcome' = outcome)
             \/ (pc = "install" /\ pc' = "restore")
    BY <1>13 DEF Fail, WriteTemporary, RestoreTemporary, vars, ChangeSources
  <2>2. QED BY <2>1 DEF ProgressInv, PhaseInv
<1>14. CASE Reject \/ Finish \/ RestoreFails \/ RestoreUnreadable \/ RolledBack \/ Crash
  BY <1>14 DEF Reject, Finish, RestoreFails, RestoreUnreadable, RolledBack, Crash, ProgressInv
<1>15. QED
  BY <1>1, <1>2, <1>3, <1>4, <1>5, <1>6, <1>7, <1>8, <1>9, <1>10, <1>11, <1>12,
     <1>13, <1>14 DEF Next, Install, Restore, Undo

\* A rollback that succeeded has removed all that was created: what is left is
\* the tree it started from.
LEMMA RestoredNext ==
    ASSUME IInv, PhaseInv, ProgressInv, FailureRestores, [Next]_vars
    PROVE  FailureRestores'
<1>1. CASE RolledBack
  <2>1. SUFFICES ASSUME outcome = "failed" PROVE repo = before
    BY <1>1 DEF RolledBack, Forget, FailureRestores
  <2>2. pc = "rollback" /\ made = NothingMade
    BY <1>1 DEF RolledBack
  <2>3. /\ repo.litter = before.litter /\ repo.stray = before.stray
        /\ repo.pins = before.pins
        /\ repo.dirs = before.dirs /\ repo.docs = before.docs
        /\ repo.schema = before.schema /\ \A b \in Blobs : repo.blob[b] = before.blob[b]
    BY <2>1, <2>2 DEF ProgressInv, NothingMade
  <2>4. repo \in Tree /\ before \in Tree
    BY DEF IInv, TypeOK
  <2>5. repo.blob = before.blob
    BY <2>3, <2>4 DEF Tree
  <2>6. QED BY <2>3, <2>4, <2>5 DEF Tree
<1>2. CASE \/ \E s \in Snapshots \cup {None} : ChangeSources(s)
           \/ Reject \/ UNCHANGED vars
  BY <1>2 DEF ChangeSources, Reject, vars, FailureRestores
<1>3. CASE pc' # "idle" \/ outcome' # "failed"
  BY <1>3 DEF FailureRestores
<1>4. CASE Finish \/ RestoreUnreadable \/ Crash
  BY <1>4 DEF Finish, RestoreUnreadable, Crash, FailureRestores
<1>5. CASE Begin \/ Fail \/ RestoreFails \/ WriteTemporary \/ RestoreTemporary
           \/ Restored \/ MakeDirectory \/ InstallPin
  BY <1>5 DEF Begin, Fail, RestoreFails, WriteTemporary, RestoreTemporary, Restored,
     MakeDirectory, InstallPin, FailureRestores
<1>6. CASE \/ \E b \in Blobs : InstallBlob(b)
           \/ \E m \in Migrated : InstallSchema(m) \/ RestoreSchema(m)
           \/ \E d \in Docs : ReplaceDoc(d) \/ RestoreDoc(d)
           \/ \E ok \in BOOLEAN : Undo(ok)
  BY <1>6 DEF InstallBlob, InstallSchema, RestoreSchema, ReplaceDoc, RestoreDoc, Undo,
     UndoSchema, UndoPin, UndoBlob, UndoDirectory, FailureRestores
<1>7. QED
  BY <1>1, <1>2, <1>3, <1>4, <1>5, <1>6 DEF Next, Install, Restore

\* What rendering made of a tree it accepts loads entirely, whatever the tree
\* held before.
LEMMA AcceptedLoads ==
    ASSUME NEW t \in Tree, NEW s \in Snapshots, Accepts(t, s)
    PROVE  \A x \in Render(t, s).dirs : Loads(Render(t, s), x)
<1> DEFINE built == Build(t, s)
           r == Render(t, s)
<1>1. r.blob = built.blob /\ r.pins = built.pins /\ r.dirs = built.dirs
      /\ r.litter = built.litter
  <2>1. /\ built.blob = [b \in Blobs |->
              IF b \in BlobsOf[s] /\ t.blob[b] = "absent" THEN "exact" ELSE t.blob[b]]
        /\ built.pins = t.pins \cup {s}
        /\ built.dirs = t.dirs \cup {s}
        /\ built.litter = t.litter
    BY DEF Build, Tree
  <2>2. QED BY <2>1, RenderFacts
<1>2. \A x \in built.dirs : Loads(built, x)
  BY DEF Accepts, SelectAccepts
<1> HIDE DEF built, r
<1>3. \A x \in r.dirs : Loads(r, x)
  BY <1>1, <1>2 DEF Loads, Complete
<1>4. QED BY <1>3 DEF r

\* Once nothing is left to install, and no rollback has begun, the repository
\* is the staging tree: no leftover, directory or blob more, none less.
LEMMA InstalledIsStaged ==
    ASSUME IInv, PhaseInv, ProgressInv, RenderedInv, Finish
    PROVE  repo = Render(before, cand) /\ Accepts(before, cand)
<1>0. /\ repo \in Tree /\ staged \in Tree /\ before \in Tree /\ cand \in Snapshots
      /\ pc = "install" /\ outcome # "abandoned"
      /\ staged = Render(before, cand) /\ Accepts(before, cand)
  BY DEF Finish, IInv, TypeOK, PhaseInv, RenderedInv
<1>1. /\ \A b \in Blobs : repo.blob[b] = staged.blob[b]
      /\ \A m \in Migrated : repo.schema[m] = staged.schema[m]
      /\ \A d \in Docs : repo.docs[d] = staged.docs[d]
      /\ repo.pins = staged.pins
  BY DEF Finish, PendingBlobs, PendingPin, PendingSchemas, PendingDocs
<1>2. repo.blob = staged.blob /\ repo.schema = staged.schema /\ repo.docs = staged.docs
  BY <1>0, <1>1 DEF Tree
<1>3. /\ staged.dirs = before.dirs \cup {cand} /\ staged.litter = before.litter
      /\ staged.stray = before.stray
  BY <1>0, RenderFacts
<1>4. repo.litter = staged.litter /\ repo.stray = staged.stray
  BY <1>0, <1>3 DEF ProgressInv
<1>5. cand \in repo.dirs
  BY <1>0, <1>1 DEF IInv, StagedInv, InFlightInv
<1>6. repo.dirs = staged.dirs
  BY <1>0, <1>3, <1>5 DEF ProgressInv
<1>7. repo = staged
  BY <1>0, <1>1, <1>2, <1>4, <1>6 DEF Tree
<1>8. QED BY <1>0, <1>7

\* What rendering produced stays what is being installed, and is what a
\* completed publication leaves.
LEMMA RenderedNext ==
    ASSUME IInv, PhaseInv, ProgressInv, RenderedInv, [Next]_vars
    PROVE  RenderedInv'
<1>1. CASE Begin
  BY <1>1 DEF Begin, RenderedInv
<1>2. CASE Finish
  <2>1. repo = Render(before, cand) /\ Accepts(before, cand)
    BY <1>2, InstalledIsStaged
  <2>2. repo' = repo /\ before' = before /\ cand' = cand /\ pc' = "idle"
    BY <1>2 DEF Finish
  <2>3. QED BY <2>1, <2>2 DEF RenderedInv
<1>3. CASE \/ \E b \in Blobs : InstallBlob(b)
           \/ MakeDirectory \/ WriteTemporary \/ InstallPin
           \/ \E m \in Migrated : InstallSchema(m)
           \/ \E d \in Docs : ReplaceDoc(d)
  <2>1. /\ pc = "install" /\ pc' = "install" /\ staged' = staged /\ before' = before
        /\ cand' = cand
    BY <1>3 DEF InstallBlob, MakeDirectory, WriteTemporary, InstallPin, InstallSchema,
       ReplaceDoc
  <2>2. QED BY <2>1 DEF RenderedInv
<1>4. CASE \/ \E s \in Snapshots \cup {None} : ChangeSources(s)
           \/ UNCHANGED vars
  BY <1>4 DEF ChangeSources, vars, RenderedInv
<1>5. CASE Reject \/ Fail \/ Restore \/ RestoreFails \/ RestoreUnreadable
           \/ (\E ok \in BOOLEAN : Undo(ok)) \/ RolledBack \/ Crash
  <2>1. pc' # "install" /\ (pc' = "idle" => outcome' # "published")
    BY <1>5 DEF Reject, Fail, Restore, RestoreTemporary, RestoreDoc, RestoreSchema,
       Restored, RestoreFails, RestoreUnreadable, Undo, UndoSchema, UndoPin, UndoBlob,
       UndoDirectory, RolledBack, Crash, PhaseInv
  <2>2. QED BY <2>1 DEF RenderedInv
<1>6. QED BY <1>1, <1>2, <1>3, <1>4, <1>5 DEF Next, Install

\* The pointer is replaced when all else is in place, and nothing can fail after
\* it: a restore never finds it moved.
LEMMA PointerNext ==
    ASSUME IInv, PointerInv, [Next]_vars
    PROVE  PointerInv'
<1>0. /\ repo \in Tree /\ "pointer" \in Docs
  BY DEF IInv, TypeOK, Docs
<1>1. CASE Begin
  BY <1>1 DEF Begin, PointerInv
<1>2. CASE \/ \E b \in Blobs : InstallBlob(b)
           \/ MakeDirectory \/ WriteTemporary \/ InstallPin
           \/ \E m \in Migrated : InstallSchema(m)
  <2>1. /\ pc = "install" /\ pc' = "install" /\ before' = before
        /\ repo'.docs = repo.docs
        /\ PendingBlobs # {} \/ PendingPin \/ PendingSchemas # {} \/ PendingDocs # {}
    BY <1>0, <1>2 DEF InstallBlob, MakeDirectory, WriteTemporary, NextDoc, InstallPin,
       InstallSchema, Tree
  <2>2. repo.docs["pointer"] = before.docs["pointer"]
    BY <2>1 DEF PointerInv
  <2>3. QED BY <2>1, <2>2 DEF PointerInv
<1>3. ASSUME NEW d \in Docs, ReplaceDoc(d) PROVE PointerInv'
  <2>1. /\ pc = "install" /\ pc' = "install" /\ before' = before /\ staged' = staged
        /\ d \in PendingDocs
        /\ PendingBlobs = {} /\ ~PendingPin /\ PendingSchemas = {}
    BY <1>3 DEF ReplaceDoc, NextDoc
  <2>2. /\ repo'.docs = [repo.docs EXCEPT ![d] = staged.docs[d]]
        /\ repo'.blob = repo.blob /\ repo'.pins = repo.pins /\ repo'.schema = repo.schema
    BY <1>0, <1>3 DEF ReplaceDoc, Tree
  <2>3. CASE d = "pointer"
    <3>1. PendingDocs \subseteq {"pointer"}
      BY <1>3, <2>3 DEF ReplaceDoc, NextDoc, PendingDocs, Docs, MovingRank
    <3>2. \A e \in Docs : repo'.docs[e] = staged'.docs[e]
      BY <1>0, <2>1, <2>2, <2>3, <3>1 DEF PendingDocs, Tree
    <3>3. PendingDocs' = {}
      BY <3>2 DEF PendingDocs
    <3>4. PendingBlobs' = {} /\ ~PendingPin' /\ PendingSchemas' = {}
      BY <2>1, <2>2 DEF PendingBlobs, PendingPin, PendingSchemas
    <3>5. QED BY <2>1, <3>3, <3>4 DEF PointerInv
  <2>4. CASE d # "pointer"
    <3>1. repo.docs["pointer"] = before.docs["pointer"]
      BY <2>1 DEF PointerInv
    <3>2. repo'.docs["pointer"] = repo.docs["pointer"]
      BY <1>0, <2>2, <2>4 DEF Tree
    <3>3. QED BY <2>1, <3>1, <3>2 DEF PointerInv
  <2>5. QED BY <2>3, <2>4
<1>4. CASE Fail
  <2>1. repo.docs["pointer"] = before.docs["pointer"]
    BY <1>4 DEF Fail, PointerInv
  <2>2. QED BY <1>4, <2>1 DEF Fail, PointerInv
<1>5. ASSUME NEW d \in Docs, RestoreDoc(d) PROVE PointerInv'
  <2>1. /\ pc = "restore" /\ pc' = "restore" /\ before' = before
        /\ repo'.docs = [repo.docs EXCEPT ![d] = before.docs[d]]
    BY <1>0, <1>5 DEF RestoreDoc, Tree
  <2>2. repo'.docs["pointer"] = before.docs["pointer"]
    BY <1>0, <2>1 DEF PointerInv, Tree
  <2>3. QED BY <2>1, <2>2 DEF PointerInv
<1>6. ASSUME NEW m \in Migrated, RestoreSchema(m) PROVE PointerInv'
  <2>1. /\ pc = "restore" /\ pc' = "restore" /\ before' = before /\ repo'.docs = repo.docs
    BY <1>0, <1>6 DEF RestoreSchema, Tree
  <2>2. QED BY <2>1 DEF PointerInv
<1>7. CASE \/ \E s \in Snapshots \cup {None} : ChangeSources(s)
           \/ Reject \/ Finish \/ Restored \/ RestoreFails \/ RestoreUnreadable
           \/ (\E ok \in BOOLEAN : Undo(ok)) \/ RolledBack \/ Crash
  <2>1. pc' \notin {"install", "restore"}
    BY <1>7 DEF ChangeSources, Reject, Finish, Restored, RestoreFails,
       RestoreUnreadable, Undo, UndoSchema, UndoPin, UndoBlob, UndoDirectory, RolledBack,
       Crash
  <2>2. QED BY <2>1 DEF PointerInv
<1>8. CASE RestoreTemporary
  BY <1>8 DEF RestoreTemporary, PointerInv
<1>9. CASE UNCHANGED vars
  BY <1>9 DEF vars, PointerInv, PendingBlobs, PendingPin, PendingSchemas, PendingDocs
<1>10. QED
  BY <1>1, <1>2, <1>3, <1>4, <1>5, <1>6, <1>7, <1>8, <1>9 DEF Next, Install, Restore

\* A publication that completes has checked every snapshot directory, and one
\* that is rolled back has removed its own: neither leaves debris.
LEMMA CleanNext ==
    ASSUME IInv, PhaseInv, DebrisInv, ProgressInv, RenderedInv, FailureRestores', CleanInv,
           [Next]_vars
    PROVE  CleanInv'
<1>1. CASE Begin
  BY <1>1 DEF Begin, CleanInv
<1>2. CASE Finish
  <2>1. repo = Render(before, cand) /\ Accepts(before, cand)
    BY <1>2, InstalledIsStaged
  <2>2. before \in Tree /\ cand \in Snapshots
    BY <1>2 DEF Finish, IInv, TypeOK
  <2>3. \A x \in repo.dirs : Loads(repo, x)
    BY <2>1, <2>2, AcceptedLoads
  <2>4. repo.dirs = repo.pins /\ repo.litter = {}
    BY <2>3 DEF IInv, InFlightInv, DebrisInv, Loads
  <2>5. repo' = repo /\ pc' = "idle"
    BY <1>2 DEF Finish
  <2>6. QED BY <2>4, <2>5 DEF CleanInv
<1>3. CASE RolledBack
  <2>1. CASE outcome = "failed"
    BY <1>3, <2>1 DEF RolledBack, Forget, FailureRestores, CleanInv
  <2>2. CASE outcome = "abandoned"
    BY <1>3, <2>2 DEF RolledBack, PhaseInv, CleanInv
  <2>3. QED BY <1>3, <2>1, <2>2 DEF RolledBack, PhaseInv
<1>4. CASE \/ \E s \in Snapshots \cup {None} : ChangeSources(s)
           \/ Reject \/ UNCHANGED vars
  BY <1>4 DEF ChangeSources, Reject, vars, CleanInv
<1>5. CASE RestoreFails \/ RestoreUnreadable \/ Crash
  BY <1>5 DEF RestoreFails, RestoreUnreadable, Crash, CleanInv
<1>6. CASE \/ \E b \in Blobs : InstallBlob(b)
           \/ MakeDirectory \/ WriteTemporary \/ InstallPin
           \/ \E m \in Migrated : InstallSchema(m)
           \/ \E d \in Docs : ReplaceDoc(d)
           \/ Fail \/ Restore
  <2>1. /\ pc # "idle" /\ pc' # "idle" /\ before' = before /\ crashed' = crashed
        /\ damaged' = damaged
    BY <1>6 DEF InstallBlob, MakeDirectory, WriteTemporary, InstallPin, InstallSchema,
       ReplaceDoc, Fail, Restore, RestoreTemporary, RestoreDoc, RestoreSchema, Restored
  <2>2. QED BY <2>1 DEF CleanInv
<1>7. ASSUME NEW ok \in BOOLEAN, Undo(ok) PROVE CleanInv'
  <2>1. /\ pc = "rollback" /\ pc' = "rollback" /\ before' = before /\ crashed' = crashed
        /\ damaged => damaged'
    BY <1>7 DEF Undo, UndoSchema, UndoPin, UndoBlob, UndoDirectory, UndoResult
  <2>2. QED BY <2>1 DEF CleanInv
<1>8. QED
  BY <1>1, <1>2, <1>3, <1>4, <1>5, <1>6, <1>7 DEF Next, Install

\* A checkout is clean, and nothing has begun.
LEMMA TransactionInit == Init => TransactionInv
<1> SUFFICES ASSUME Init PROVE TransactionInv
  OBVIOUS
<1>1. PublishedTree(repo)
  BY DEF Init, InitialTrees
<1>2. PhaseInv /\ ProgressInv /\ RenderedInv /\ PointerInv /\ FailureRestores
  BY DEF Init, PhaseInv, ProgressInv, RenderedInv, PointerInv, FailureRestores
<1>3. DebrisInv /\ CleanInv
  BY <1>1 DEF Init, PublishedTree, DebrisInv, CleanInv
<1>4. QED BY <1>2, <1>3 DEF TransactionInv

\* What a transaction and its rollback have done so far is known at every
\* instant, whatever fails.
THEOREM Transaction == Spec => []TransactionInv
<1>1. IInv /\ TransactionInv /\ [Next]_vars => TransactionInv'
  <2> SUFFICES ASSUME IInv, TransactionInv, [Next]_vars PROVE TransactionInv'
    OBVIOUS
  <2>1. /\ PhaseInv /\ DebrisInv /\ ProgressInv /\ RenderedInv /\ PointerInv
        /\ CleanInv /\ FailureRestores
    BY DEF TransactionInv
  <2>2. TypeOK'
    BY NextType DEF IInv
  <2>3. PhaseInv' /\ DebrisInv' /\ PointerInv'
    BY <2>1, PhaseNext, DebrisNext, PointerNext
  <2>4. ProgressInv' /\ RenderedInv'
    BY <2>1, <2>2, ProgressNext, RenderedNext
  <2>5. FailureRestores'
    BY <2>1, RestoredNext
  <2>6. CleanInv'
    BY <2>1, <2>5, CleanNext
  <2>7. QED BY <2>3, <2>4, <2>5, <2>6 DEF TransactionInv
<1>2. QED BY TransactionInit, Invariant, <1>1, PTL DEF Spec

\* A publication that failed and was rolled back leaves the tree exactly as it
\* found it.
THEOREM FailedPublicationRestores == Spec => []FailureRestores
<1>1. TransactionInv => FailureRestores BY DEF TransactionInv
<1>2. QED BY <1>1, Transaction, PTL

\* A publication that succeeded adds no orphan blob and no temporary, and leaves
\* a tree validate accepts when the tree it found held neither.
THEOREM SuccessfulPublicationValidates == Spec => []SuccessValidates
<1>1. IInv /\ TransactionInv => SuccessValidates
  <2> SUFFICES ASSUME IInv, TransactionInv, pc = "idle", outcome = "published"
               PROVE  /\ DocsAgree(repo)
                      /\ repo.docs["listing"].refs = repo.dirs
                      /\ repo.stray = before.stray
                      /\ \A b \in Blobs : repo.blob[b] # "absent" =>
                            b \in Referenced(repo) \/ before.blob[b] # "absent"
                      /\ /\ \A b \in Blobs : before.blob[b] # "absent" =>
                               b \in Referenced(before)
                         /\ "public" \notin before.stray
                         => Validates(repo, cand)
    BY DEF SuccessValidates
  <2>1. /\ repo \in Tree /\ before \in Tree /\ cand \in Snapshots \cup {None}
        /\ repo = Render(before, cand) /\ Accepts(before, cand)
        /\ repo.pins \subseteq repo.dirs
    BY DEF IInv, TypeOK, InFlightInv, TransactionInv, RenderedInv
  <2>2. cand \in Snapshots
    BY <2>1 DEF Accepts
  <2>3. \A x \in repo.dirs : Loads(repo, x)
    BY <2>1, <2>2, AcceptedLoads
  <2>4. /\ repo.blob = [b \in Blobs |-> IF b \in BlobsOf[cand] /\ before.blob[b] = "absent"
                                          THEN "exact" ELSE before.blob[b]]
        /\ repo.pins = before.pins \cup {cand}
        /\ repo.dirs = before.dirs \cup {cand}
        /\ repo.stray = before.stray
        /\ repo.schema = [m \in Migrated |-> "current"]
        /\ repo.docs = [d \in Docs |-> DocFor(d, cand, before.dirs \cup {cand})]
    BY <2>1, <2>2, RenderFacts
  <2>5. /\ \A d \in Docs : repo.docs[d].selected = cand
        /\ repo.docs["listing"].refs = repo.dirs
    BY <2>4 DEF Docs, DocFor
  <2>6. DocsAgree(repo)
    BY <2>5 DEF DocsAgree
  <2>7. ASSUME NEW b \in Blobs, repo.blob[b] # "absent"
        PROVE  b \in Referenced(repo) \/ before.blob[b] # "absent"
    BY <2>4, <2>7 DEF Referenced
  <2>8. ASSUME \A b \in Blobs : before.blob[b] # "absent" => b \in Referenced(before),
               "public" \notin before.stray
        PROVE  Validates(repo, cand)
    <3>1. ASSUME NEW b \in Blobs, repo.blob[b] # "absent"
          PROVE  repo.blob[b] = "exact" /\ b \in Referenced(repo)
      <4>1. b \in Referenced(repo)
        BY <2>4, <2>7, <2>8, <3>1 DEF Referenced
      <4>2. PICK s \in repo.pins : b \in BlobsOf[s]
        BY <4>1 DEF Referenced
      <4>3. Complete(repo, s)
        BY <2>1, <2>3, <4>2 DEF Loads
      <4>4. QED BY <4>1, <4>2, <4>3 DEF Complete
    <3>2. repo.docs["pointer"].selected \in repo.dirs
      BY <2>4, <2>5 DEF Docs
    <3>3. \A m \in Migrated : repo.schema[m] = "current"
      BY <2>4
    <3>4. Build(repo, cand) = repo
      <4>1. Complete(repo, cand)
        BY <2>3, <2>4 DEF Loads
      <4>2. [b \in Blobs |-> IF b \in BlobsOf[cand] /\ repo.blob[b] = "absent"
                              THEN "exact" ELSE repo.blob[b]] = repo.blob
        BY <2>1, <4>1 DEF Complete, Tree
      <4>3. repo.pins \cup {cand} = repo.pins /\ repo.dirs \cup {cand} = repo.dirs
        BY <2>4
      <4>4. QED BY <2>1, <4>2, <4>3 DEF Build, Tree
    <3>5. QED BY <2>3, <2>4, <2>5, <2>6, <2>8, <3>1, <3>2, <3>3, <3>4 DEF Validates
  <2>9. QED BY <2>4, <2>5, <2>6, <2>7, <2>8
<1>2. QED BY <1>1, Invariant, Transaction, PTL

-----------------------------------------------------------------------------
(* What makes a tree publishable.                                           *)

\* Sound sources are accepted by every tree whose snapshot directories hold a
\* complete manifest, and no leftover, each: the transaction check after
\* rendering never refuses what rendering itself let through.
LEMMA SoundTreeAccepts ==
    ASSUME NEW t \in Tree, NEW s \in Snapshots,
           BuildAccepts(t, s), SchemasAccept(t),
           \A x \in t.pins : Complete(t, x),
           \A x \in t.dirs : x \notin t.litter /\ (x \in t.pins \/ x = s),
           t.litter \subseteq t.dirs
    PROVE  Accepts(t, s)
<1> DEFINE built == Build(t, s)
           r == Render(t, s)
<1>1. /\ built.blob = [b \in Blobs |->
            IF b \in BlobsOf[s] /\ t.blob[b] = "absent" THEN "exact" ELSE t.blob[b]]
      /\ built.pins = t.pins \cup {s}
      /\ built.dirs = t.dirs \cup {s}
      /\ built.litter = t.litter
  BY DEF Build, Tree
<1>2. /\ r.blob = built.blob /\ r.pins = built.pins /\ r.dirs = built.dirs
      /\ r.schema = [m \in Migrated |-> "current"]
  BY <1>1, RenderFacts
<1>3. s # None
  BY TreeAssumption
<1>4. \A x \in Snapshots : BlobsOf[x] \subseteq Blobs
  BY TreeAssumption
<1>5. t.blob \in [Blobs -> BlobBytes] /\ t.pins \subseteq Snapshots
      /\ t.schema \in [Migrated -> SchemaBytes]
  BY DEF Tree
<1> HIDE DEF built, r
<1>6. Complete(built, s)
  BY <1>1, <1>4, <1>5 DEF Complete, BuildAccepts, BlobBytes
<1>7. \A x \in t.pins : Complete(built, x)
  BY <1>1, <1>4, <1>5 DEF Complete
<1>8. SelectAccepts(built, s)
  <2>1. ASSUME NEW d \in built.dirs PROVE Loads(built, d)
    BY <1>1, <1>6, <1>7 DEF Loads
  <2>2. QED BY <1>1, <2>1 DEF SelectAccepts
<1>9. TransactionAllowed(t, r, s)
  <2>1. \A b \in Blobs : t.blob[b] # "absent" => r.blob[b] = t.blob[b]
    BY <1>1, <1>2
  <2>2. \A m \in Migrated : t.schema[m] # r.schema[m] => t.schema[m] \in {"absent", "approved"}
    BY <1>2, <1>5 DEF SchemasAccept, SchemaBytes
  <2>3. QED BY <1>1, <1>2, <2>1, <2>2 DEF TransactionAllowed
<1>10. QED BY <1>3, <1>8, <1>9 DEF Accepts, built, r

\* The tree between publications is one that sound sources can be rendered in,
\* up to debris in snapshot directories.
LEMMA IdleSound ==
    ASSUME IInv, TransactionInv, SourcesSound, ~damaged
    PROVE  /\ repo \in Tree /\ input \in Snapshots
           /\ BuildAccepts(repo, input) /\ SchemasAccept(repo)
           /\ \A x \in repo.pins : Complete(repo, x)
           /\ repo.litter \subseteq repo.dirs
<1>1. repo \in Tree /\ input \in Snapshots
  BY DEF IInv, TypeOK, SourcesSound
<1>2. BuildAccepts(repo, input) /\ SchemasAccept(repo)
  BY DEF SourcesSound
<1>3. \A x \in repo.pins : Complete(repo, x)
  BY DEF IInv, PinsComplete
<1>4. repo.litter \subseteq repo.dirs
  BY DEF TransactionInv, DebrisInv
<1>5. QED BY <1>1, <1>2, <1>3, <1>4

\* I/O failures whose rollback succeeded never make the tree unpublishable.
THEOREM FailuresLeaveItPublishable == Spec => []FailuresNeverWedge
<1>1. IInv /\ TransactionInv => FailuresNeverWedge
  <2> SUFFICES ASSUME IInv, TransactionInv, pc = "idle", SourcesSound, ~crashed, ~damaged
               PROVE  Accepts(repo, input)
    BY DEF FailuresNeverWedge
  <2>1. repo.dirs = repo.pins /\ repo.litter = {}
    BY DEF TransactionInv, CleanInv
  <2>2. QED BY <2>1, IdleSound, SoundTreeAccepts
<1>2. QED BY <1>1, Invariant, Transaction, PTL

\* After a kill too, only one kind of debris blocks sound sources: a snapshot
\* directory without its manifest or with a leftover temporary.
THEOREM OnlyDebrisBlocks == Spec => []OnlySnapshotDebrisWedges
<1>1. IInv /\ TransactionInv => OnlySnapshotDebrisWedges
  <2> SUFFICES ASSUME IInv, TransactionInv, SourcesSound, ~damaged,
                      \A s \in repo.dirs : s \notin repo.litter /\ (s \in repo.pins \/ s = input)
               PROVE  Accepts(repo, input)
    BY DEF OnlySnapshotDebrisWedges
  <2>1. QED BY IdleSound, SoundTreeAccepts
<1>2. QED BY <1>1, Invariant, Transaction, PTL

\* The pointer moves in one step only, after every document clients read, and a
\* restore never moves it back.
THEOREM PointerMovesLast == Spec => PointerSwitchesLast
<1> DEFINE P == repo'.docs["pointer"] # repo.docs["pointer"] => DocsAgree(repo')
<1>1. IInv /\ TransactionInv /\ [Next]_vars => [P]_vars
  <2> SUFFICES ASSUME IInv, TransactionInv, [Next]_vars PROVE P
    OBVIOUS
  <2>0. repo \in Tree /\ staged \in Tree /\ before \in Tree /\ "pointer" \in Docs
    BY DEF IInv, TypeOK, Docs
  <2>1. ASSUME NEW d \in Docs, ReplaceDoc(d) PROVE P
    <3>1. repo'.docs = [repo.docs EXCEPT ![d] = staged.docs[d]] /\ pc = "install"
      BY <2>0, <2>1 DEF ReplaceDoc, Tree
    <3>2. CASE d # "pointer"
      BY <2>0, <3>1, <3>2 DEF Tree
    <3>3. CASE d = "pointer"
      <4>1. PendingDocs \subseteq {"pointer"}
        BY <2>1, <3>3 DEF ReplaceDoc, NextDoc, PendingDocs, Docs, MovingRank
      <4>2. \A e \in Docs : repo'.docs[e] = staged.docs[e]
        BY <2>0, <3>1, <3>3, <4>1 DEF PendingDocs, Tree
      <4>3. cand \in Snapshots /\ staged = Render(before, cand)
        BY <3>1 DEF TransactionInv, RenderedInv, IInv, TypeOK
      <4>4. staged.docs = [e \in Docs |-> DocFor(e, cand, before.dirs \cup {cand})]
        BY <2>0, <4>3, RenderFacts
      <4>5. \A e \in Docs : repo'.docs[e].selected = cand
        BY <4>2, <4>4 DEF DocFor
      <4>6. QED BY <4>5 DEF DocsAgree
    <3>4. QED BY <3>2, <3>3
  <2>2. ASSUME NEW d \in Docs, RestoreDoc(d) PROVE P
    <3>1. /\ repo'.docs = [repo.docs EXCEPT ![d] = before.docs[d]]
          /\ repo.docs["pointer"] = before.docs["pointer"]
      BY <2>0, <2>2 DEF RestoreDoc, Tree, TransactionInv, PointerInv
    <3>2. QED BY <2>0, <3>1 DEF Tree
  <2>3. CASE \/ \E b \in Blobs : InstallBlob(b)
             \/ MakeDirectory \/ WriteTemporary \/ InstallPin
             \/ \E m \in Migrated : InstallSchema(m) \/ RestoreSchema(m)
             \/ \E ok \in BOOLEAN : Undo(ok)
    BY <2>0, <2>3 DEF InstallBlob, MakeDirectory, WriteTemporary, InstallPin, InstallSchema,
       RestoreSchema, Undo, UndoSchema, UndoPin, UndoBlob, UndoDirectory, UndoResult,
       Tree
  <2>4. CASE \/ \E s \in Snapshots \cup {None} : ChangeSources(s)
             \/ Reject \/ Begin \/ Finish \/ Fail \/ RestoreTemporary \/ Restored \/ RestoreFails
             \/ RestoreUnreadable \/ RolledBack \/ UNCHANGED vars
    BY <2>4 DEF ChangeSources, Reject, Begin, Finish, Fail, RestoreTemporary, Restored,
       RestoreFails, RestoreUnreadable, RolledBack, vars
  <2>5. CASE Crash
    BY <2>5, LeftoverFacts DEF Crash, IInv, TypeOK
  <2>6. QED BY <2>1, <2>2, <2>3, <2>4, <2>5 DEF Next, Install, Restore
<1> HIDE DEF P
<1>2. Spec => [][P]_vars
  BY <1>1, Invariant, Transaction, PTL DEF Spec
<1>3. QED BY <1>2 DEF PointerSwitchesLast, P

-----------------------------------------------------------------------------
(* publish_registry implements the append-only registry: as long as no      *)
(* rollback fails, every step of it, I/O failures, rollbacks and kills      *)
(* included, is one step of AppendOnlyRegistry or none.                     *)


\* The documents being installed all refer to the candidate.
ListedInv == pc = "install" => \A d \in Docs : cand \in staged.docs[d].refs

\* What the refinement mapping reads.
Live == [d \in Docs |-> repo.docs[d].refs]

MappedUnchanged == repo'.pins = repo.pins /\ repo'.docs = repo.docs /\ published' = published

-----------------------------------------------------------------------------

\* While no rollback has failed, every manifest on disk loads.
LEMMA PinsAreAvailable ==
    ASSUME IInv, ~damaged
    PROVE  {s \in repo.pins : Complete(repo, s)} = repo.pins
BY DEF IInv, PinsComplete

\* Without failing rollbacks nothing is damaged.
LEMMA NeverDamaged ==
    ASSUME "rollback" \notin Faults, ~damaged, [Next]_vars
    PROVE  ~damaged'
BY DEF Next, vars, ChangeSources, Reject, Begin, Install, InstallBlob, MakeDirectory,
       WriteTemporary, InstallPin, InstallSchema, ReplaceDoc, Finish, Fail, Restore,
       RestoreTemporary, RestoreDoc, RestoreSchema, Restored, RestoreFails,
       RestoreUnreadable, Undo, UndoSchema, UndoPin, UndoBlob, UndoDirectory, UndoResult,
       RolledBack, Crash

\* Rendering makes every document refer to the candidate.
LEMMA ListedNext ==
    ASSUME IInv, ListedInv, [Next]_vars
    PROVE  ListedInv'
<1>1. CASE Begin
  <2>1. repo \in Tree /\ input \in Snapshots
    BY <1>1 DEF IInv, TypeOK, Begin, Accepts
  <2>2. \A d \in Docs : input \in Render(repo, input).docs[d].refs
    <3>1. Render(repo, input).docs = [d \in Docs |-> DocFor(d, input, repo.dirs \cup {input})]
      BY <2>1, RenderFacts
    <3>2. \A d \in Docs : input \in DocFor(d, input, repo.dirs \cup {input}).refs
      BY DEF DocFor
    <3>3. QED BY <3>1, <3>2
  <2>3. QED BY <1>1, <2>2 DEF Begin, ListedInv
<1>2. CASE [Next]_vars /\ ~Begin
  BY <1>2 DEF ListedInv, Next, vars, ChangeSources, Reject, Install, InstallBlob,
       MakeDirectory, WriteTemporary, InstallPin, InstallSchema, ReplaceDoc, Finish,
       Fail, Restore, RestoreTemporary, RestoreDoc, RestoreSchema, Restored, RestoreFails,
       RestoreUnreadable, Undo, UndoSchema, UndoPin, UndoBlob, UndoDirectory,
       RolledBack, Crash
<1>3. QED BY <1>1, <1>2

-----------------------------------------------------------------------------

\* A repository as checked out is a registry whose snapshots are all committed.
LEMMA RefineInit == Init => Registry!Init
<1> SUFFICES ASSUME Init PROVE Registry!Init
  OBVIOUS
<1>1. IInv /\ ~damaged
  BY InvInit DEF Init
<1>2. {s \in repo.pins : Complete(repo, s)} = repo.pins
  BY <1>1, PinsAreAvailable
<1>3. repo.pins \in SUBSET Snapshots /\ published = repo.pins
  BY <1>1 DEF Init, IInv, TypeOK, Tree
<1>4. Live \in [Docs -> SUBSET repo.pins]
  BY <1>1 DEF IInv, ReferencesPinned, Live
<1>5. QED BY <1>2, <1>3, <1>4 DEF Registry!Init, Live

\* Every step of the transaction is a step of the registry or leaves it alone.
LEMMA RefineNext ==
    ASSUME "rollback" \notin Faults, IInv, IInv', ~damaged, ListedInv, [Next]_vars
    PROVE  [Registry!Next]_(Registry!absVars)
<1> DEFINE avail == {s \in repo.pins : Complete(repo, s)}
<1>0. /\ ~damaged'
      /\ avail = repo.pins /\ avail' = repo'.pins
  <2>1. ~damaged'
    BY NeverDamaged
  <2>2. {s \in repo.pins : Complete(repo, s)} = repo.pins
    BY PinsAreAvailable
  <2>3. {s \in repo'.pins : Complete(repo', s)} = repo'.pins
    BY <2>1 DEF IInv, PinsComplete
  <2>4. QED BY <2>1, <2>2, <2>3
<1> HIDE DEF avail
<1>1. ASSUME MappedUnchanged PROVE [Registry!Next]_(Registry!absVars)
  <2>1. avail' = avail /\ Live' = Live
    BY <1>0, <1>1 DEF MappedUnchanged, Live
  <2>2. QED BY <1>1, <2>1 DEF MappedUnchanged, Registry!absVars, avail, Live
<1>2. ASSUME NEW d \in Docs, NEW t \in Tree,
             repo' = [repo EXCEPT !.docs[d] = t.docs[d]], published' = published
      PROVE  [Registry!Next]_(Registry!absVars)
  <2>1. repo.docs \in [Docs -> DocValue] /\ repo \in Tree
    BY DEF IInv, TypeOK, Tree
  <2>2. repo'.docs = [repo.docs EXCEPT ![d] = t.docs[d]] /\ repo'.pins = repo.pins
    BY <1>2, <2>1 DEF Tree
  <2>3. Live' = [Live EXCEPT ![d] = t.docs[d].refs]
    BY <2>1, <2>2 DEF Live
  <2>4. t.docs[d].refs \subseteq repo.pins
    BY <1>0, <2>1, <2>2 DEF IInv, ReferencesPinned
  <2>5. avail' = avail
    BY <1>0, <2>2
  <2>6. Registry!Switch(d)
    BY <1>0, <1>2, <2>3, <2>4, <2>5 DEF Registry!Switch, avail, Live
  <2>7. QED BY <2>6 DEF Registry!Next
<1>3. CASE InstallPin
  <2>1. /\ cand \in Snapshots
        /\ cand \notin repo.pins
        /\ repo'.pins = repo.pins \cup {cand}
        /\ repo'.docs = repo.docs
        /\ published' = published
    <3>1. repo.pins \cup {cand} = staged.pins /\ cand \in Snapshots
      BY <1>3 DEF InstallPin, IInv, StagedInv, TypeOK
    <3>2. QED BY <1>3, <3>1 DEF InstallPin, PendingPin
  <2>2. Registry!Offer(cand)
    BY <1>0, <2>1 DEF Registry!Offer, avail
  <2>3. QED BY <2>1, <2>2 DEF Registry!Next
<1>4. CASE Finish
  <2>1. /\ cand \in Snapshots
        /\ repo' = repo
        /\ published' = published \cup {cand}
        /\ repo.pins = staged.pins
        /\ repo.docs = staged.docs
    <3>1. repo.docs \in [Docs -> DocValue] /\ staged.docs \in [Docs -> DocValue]
      BY DEF IInv, TypeOK, Tree
    <3>2. QED BY <1>4, <3>1 DEF Finish, PendingPin, PendingDocs, IInv, TypeOK
  <2>2. cand \in repo.pins /\ \A d \in Docs : cand \in repo.docs[d].refs
    BY <1>4, <2>1 DEF Finish, IInv, StagedInv, ListedInv
  <2>3. Registry!Commit(cand)
    BY <1>0, <2>1, <2>2 DEF Registry!Commit, avail
  <2>4. QED BY <2>1, <2>3 DEF Registry!Next
<1>5. ASSUME NEW ok \in BOOLEAN, UndoPin(ok)
      PROVE  [Registry!Next]_(Registry!absVars)
  <2>1. /\ cand \in Snapshots
        /\ repo'.pins = repo.pins \ {cand}
        /\ repo'.docs = repo.docs
        /\ published' = published
    BY <1>5 DEF UndoPin, UndoResult, IInv, TypeOK
  <2>2. cand \notin published /\ \A d \in Docs : cand \notin repo.docs[d].refs
    BY <1>5 DEF UndoPin, IInv, BeforeInv, SoundInv
  <2>3. CASE cand \in repo.pins
    <3>1. Registry!Withdraw(cand)
      BY <1>0, <2>1, <2>2, <2>3 DEF Registry!Withdraw, avail
    <3>2. QED BY <2>1, <3>1 DEF Registry!Next
  <2>4. CASE cand \notin repo.pins
    BY <1>1, <2>1, <2>4 DEF MappedUnchanged
  <2>5. QED BY <2>3, <2>4
<1>6. ASSUME NEW d \in Docs, ReplaceDoc(d) PROVE [Registry!Next]_(Registry!absVars)
  <2>1. staged \in Tree
    BY DEF IInv, TypeOK
  <2>2. QED BY <1>2, <1>6, <2>1 DEF ReplaceDoc
<1>7. ASSUME NEW d \in Docs, RestoreDoc(d) PROVE [Registry!Next]_(Registry!absVars)
  <2>1. before \in Tree
    BY DEF IInv, TypeOK
  <2>2. QED BY <1>2, <1>7, <2>1 DEF RestoreDoc
<1>8. CASE \/ \E s \in Snapshots \cup {None} : ChangeSources(s)
           \/ Reject \/ Begin \/ WriteTemporary \/ Fail \/ RestoreTemporary \/ Restored
           \/ RestoreFails \/ RestoreUnreadable \/ RolledBack \/ UNCHANGED vars
  <2>1. MappedUnchanged
    BY <1>8 DEF MappedUnchanged, ChangeSources, Reject, Begin, WriteTemporary, Fail,
         RestoreTemporary, Restored, RestoreFails, RestoreUnreadable, RolledBack, vars
  <2>2. QED BY <1>1, <2>1
<1>9. CASE \/ \E b \in Blobs : InstallBlob(b)
           \/ MakeDirectory \/ Crash
           \/ \E m \in Migrated : InstallSchema(m) \/ RestoreSchema(m)
  <2>1. ASSUME NEW b \in Blobs, InstallBlob(b) PROVE MappedUnchanged
    BY <2>1 DEF MappedUnchanged, InstallBlob
  <2>2. ASSUME NEW m \in Migrated, InstallSchema(m) PROVE MappedUnchanged
    BY <2>2 DEF MappedUnchanged, InstallSchema
  <2>3. ASSUME NEW m \in Migrated, RestoreSchema(m) PROVE MappedUnchanged
    BY <2>3 DEF MappedUnchanged, RestoreSchema
  <2>4. ASSUME MakeDirectory PROVE MappedUnchanged
    BY <2>4 DEF MappedUnchanged, MakeDirectory
  <2>5. ASSUME Crash PROVE MappedUnchanged
    BY <2>5, LeftoverFacts DEF MappedUnchanged, Crash, IInv, TypeOK
  <2>6. QED BY <1>1, <1>9, <2>1, <2>2, <2>3, <2>4, <2>5
<1>10. ASSUME NEW ok \in BOOLEAN,
              \/ \E m \in Migrated : UndoSchema(m, ok)
              \/ \E b \in Blobs : UndoBlob(b, ok)
              \/ UndoDirectory(ok)
       PROVE  [Registry!Next]_(Registry!absVars)
  <2>1. ASSUME NEW m \in Migrated, UndoSchema(m, ok) PROVE MappedUnchanged
    BY <2>1 DEF MappedUnchanged, UndoSchema, UndoResult
  <2>2. ASSUME NEW b \in Blobs, UndoBlob(b, ok) PROVE MappedUnchanged
    BY <2>2 DEF MappedUnchanged, UndoBlob, UndoResult
  <2>3. CASE UndoDirectory(ok)
    BY <1>1, <2>3 DEF MappedUnchanged, UndoDirectory, UndoResult
  <2>4. QED BY <1>1, <1>10, <2>1, <2>2, <2>3
<1>11. QED
  BY <1>3, <1>4, <1>5, <1>6, <1>7, <1>8, <1>9, <1>10 DEF Next, Install, Restore, Undo

\* Without failing rollbacks, whatever else fails, the transaction implements
\* the append-only registry: snapshots appear whole, documents refer to
\* snapshots that load, and what was published is never withdrawn.
THEOREM Refinement ==
    ASSUME "rollback" \notin Faults
    PROVE  Spec => ImplementsRegistry
<1> DEFINE RInv == ~damaged /\ ListedInv
<1>1. Init => RInv
  BY DEF Init, ListedInv
<1>2. IInv /\ RInv /\ [Next]_vars => RInv'
  BY NeverDamaged, ListedNext
<1>3. IInv /\ IInv' /\ RInv /\ [Next]_vars => [Registry!Next]_(Registry!absVars)
  BY RefineNext
<1> HIDE DEF RInv
<1>4. QED
  BY Invariant, RefineInit, <1>1, <1>2, <1>3, PTL
     DEF Spec, ImplementsRegistry, Registry!Spec

=============================================================================
