----------------------------- MODULE StorageProofs -----------------------------
(***************************************************************************)
(* What create_atomic and the directory chain guarantee for every number   *)
(* of racing processes, and that the racing calls implement a write-once   *)
(* register.                                                               *)
(***************************************************************************)
EXTENDS Storage, TLAPS

\* Every step keeps the types.
LEMMA NextType == TypeOK /\ [Next]_vars => TypeOK'
<1> SUFFICES ASSUME TypeOK, [Next]_vars PROVE TypeOK'
  OBVIOUS
<1>1. ASSUME NEW p \in Procs, Step(p) PROVE TypeOK'
  <2> USE <1>1 DEF TypeOK, Goto, Return, Results
  <2>1. CASE LookForDirectory(p) \/ MakeDirectory(p) \/ Check(p)
    BY <2>1 DEF LookForDirectory, MakeDirectory, Check
  <2>2. CASE Compare(p) \/ WriteTemp(p) \/ RenameWins(p)
    BY <2>2 DEF Compare, WriteTemp, RenameWins
  <2>3. CASE RenameLoses(p) \/ Recheck(p) \/ Raise(p)
    BY <2>3 DEF RenameLoses, Recheck, Raise
  <2>4. CASE BeginRollback(p) \/ UnlinkCreated(p) \/ RemoveDirectory(p)
    BY <2>4 DEF BeginRollback, UnlinkCreated, RemoveDirectory
  <2>5. QED BY <2>1, <2>2, <2>3, <2>4 DEF Step
<1>2. ASSUME NEW p \in Procs, Kill(p) PROVE TypeOK'
  BY <1>2 DEF Kill, TypeOK
<1>3. CASE UNCHANGED vars
  BY <1>3 DEF vars, TypeOK
<1>4. QED BY <1>1, <1>2, <1>3 DEF Next

\* No call has begun, so the invariant holds at the start.
LEMMA InvInit == Init => IInv
BY StorageAssumption DEF Init, IInv, TypeOK, CallsInv, CreatorInv, OneCreator, TempsAccounted,
   DirectoryStays, SuccessHolds, Undone, Calling, Results

-----------------------------------------------------------------------------

\* A step that leaves the path, the directory and the temporaries alone, and
\* moves one process forward in its call.
LEMMA InvCallSteps ==
    ASSUME IInv, TypeOK', NEW p \in Procs,
           LookForDirectory(p) \/ Check(p) \/ Compare(p) \/ Recheck(p)
    PROVE  IInv'
<1> USE DEF Goto, Return
<1>1. CallsInv' /\ CreatorInv' /\ OneCreator'
  BY DEF IInv, TypeOK, CallsInv, CreatorInv, OneCreator, Calling, LookForDirectory,
     Check, Compare, Recheck
<1>2. TempsAccounted' /\ DirectoryStays'
  BY DEF IInv, TypeOK, TempsAccounted, DirectoryStays, LookForDirectory, Check,
     Compare, Recheck
<1>3. SuccessHolds'
  BY DEF IInv, TypeOK, CallsInv, Calling, SuccessHolds, Undone,
     LookForDirectory, Check, Compare, Recheck
<1>4. QED BY <1>1, <1>2, <1>3 DEF IInv

\* Making the directory or writing a temporary file.
LEMMA InvPrepareSteps ==
    ASSUME IInv, TypeOK', NEW p \in Procs, MakeDirectory(p) \/ WriteTemp(p)
    PROVE  IInv'
<1> USE DEF Goto
<1>1. CallsInv' /\ CreatorInv' /\ OneCreator'
  BY DEF IInv, TypeOK, CallsInv, CreatorInv, OneCreator, Calling, MakeDirectory, WriteTemp
<1>2. TempsAccounted' /\ DirectoryStays'
  BY DEF IInv, TypeOK, TempsAccounted, DirectoryStays, MakeDirectory, WriteTemp
<1>3. SuccessHolds'
  BY DEF IInv, TypeOK, CallsInv, Calling, SuccessHolds, Undone, MakeDirectory,
     WriteTemp
<1>4. QED BY <1>1, <1>2, <1>3 DEF IInv

\* The rename that wins: no process holds a success, because the path was free.
LEMMA InvRenameWins ==
    ASSUME IInv, TypeOK', NEW p \in Procs, RenameWins(p)
    PROVE  IInv'
<1> USE StorageAssumption DEF Goto, Return, RenameWins
<1>1. \A q \in Procs : ~(result[q] = "created" /\ pc[q] \in {"done", "rollback"})
  BY DEF IInv, TypeOK, CreatorInv
<1>2. CallsInv' /\ CreatorInv' /\ OneCreator'
  BY <1>1 DEF IInv, TypeOK, CallsInv, CreatorInv, OneCreator, Calling
<1>3. TempsAccounted' /\ DirectoryStays'
  BY DEF IInv, TypeOK, CallsInv, TempsAccounted, DirectoryStays
<1>4. SuccessHolds'
  BY DEF IInv, TypeOK, CallsInv, Calling, SuccessHolds, Undone
<1>5. QED BY <1>2, <1>3, <1>4 DEF IInv

\* A lost rename or a failing call takes its temporary file with it.
LEMMA InvLosingSteps ==
    ASSUME IInv, TypeOK', NEW p \in Procs, RenameLoses(p) \/ Raise(p)
    PROVE  IInv'
<1> USE DEF Goto, Return
<1>1. CallsInv' /\ CreatorInv' /\ OneCreator'
  BY DEF IInv, TypeOK, CallsInv, CreatorInv, OneCreator, Calling, RenameLoses, Raise
<1>2. TempsAccounted' /\ DirectoryStays'
  BY DEF IInv, TypeOK, TempsAccounted, DirectoryStays, RenameLoses, Raise
<1>3. SuccessHolds'
  BY DEF IInv, TypeOK, CallsInv, Calling, SuccessHolds, Undone, RenameLoses, Raise
<1>4. QED BY <1>1, <1>2, <1>3 DEF IInv

\* A rollback removes the one file that is its own, and an empty directory.
LEMMA InvRollbackSteps ==
    ASSUME IInv, TypeOK', NEW p \in Procs,
           BeginRollback(p) \/ UnlinkCreated(p) \/ RemoveDirectory(p)
    PROVE  IInv'
<1> USE DEF Goto
<1>1. CallsInv' /\ CreatorInv' /\ OneCreator'
  <2>1. CASE BeginRollback(p) \/ RemoveDirectory(p)
    BY <2>1 DEF IInv, TypeOK, CallsInv, CreatorInv, OneCreator, Calling, BeginRollback,
       RemoveDirectory
  <2>2. CASE UnlinkCreated(p)
    BY <2>2, StorageAssumption DEF IInv, TypeOK, CallsInv, CreatorInv, OneCreator,
       Calling, UnlinkCreated
  <2>3. QED BY <2>1, <2>2
<1>2. TempsAccounted' /\ DirectoryStays'
  BY DEF IInv, TypeOK, TempsAccounted, DirectoryStays, BeginRollback, UnlinkCreated,
     RemoveDirectory
<1>3. SuccessHolds'
  BY DEF IInv, TypeOK, CallsInv, Calling, SuccessHolds, Undone, BeginRollback, UnlinkCreated,
     RemoveDirectory
<1>4. QED BY <1>1, <1>2, <1>3 DEF IInv

\* A kill leaves everything where it is.
LEMMA InvKill ==
    ASSUME IInv, TypeOK', NEW p \in Procs, Kill(p)
    PROVE  IInv'
<1>1. CallsInv' /\ CreatorInv' /\ OneCreator'
  BY DEF IInv, TypeOK, CallsInv, CreatorInv, OneCreator, Calling, Kill
<1>2. TempsAccounted' /\ DirectoryStays' /\ SuccessHolds'
  BY DEF IInv, TypeOK, TempsAccounted, DirectoryStays, CallsInv, Calling, SuccessHolds, Undone, Kill
<1>3. QED BY <1>1, <1>2 DEF IInv

\* Every step preserves the invariant.
LEMMA InvNext == IInv /\ [Next]_vars => IInv'
<1> SUFFICES ASSUME IInv, [Next]_vars PROVE IInv'
  OBVIOUS
<1>1. TypeOK'
  BY NextType DEF IInv
<1>2. ASSUME NEW p \in Procs, Step(p) PROVE IInv'
  BY <1>1, <1>2, InvCallSteps, InvPrepareSteps, InvRenameWins, InvLosingSteps,
     InvRollbackSteps DEF Step
<1>3. ASSUME NEW p \in Procs, Kill(p) PROVE IInv'
  BY <1>1, <1>3, InvKill
<1>4. CASE UNCHANGED vars
  BY <1>1, <1>4 DEF vars, IInv, CallsInv, CreatorInv, OneCreator, TempsAccounted,
     DirectoryStays, CallsInv, Calling, SuccessHolds, Undone
<1>5. QED BY <1>2, <1>3, <1>4 DEF Next

-----------------------------------------------------------------------------

\* The inductive invariant of the racing installers.
THEOREM Invariant == Spec => []IInv
BY InvInit, InvNext, PTL DEF Spec

\* At most one process at a time owns the file, whatever races and rollbacks:
\* no transaction ever removes a file another one counts on as its own.
THEOREM AtMostOneCreator == Spec => []OneCreator
<1>1. IInv => OneCreator
  BY DEF IInv
<1>2. QED BY <1>1, Invariant, PTL

\* A directory is never removed under a file or a temporary.
THEOREM DirectoryNeverVanishes == Spec => []DirectoryStays
<1>1. IInv => DirectoryStays
  BY DEF IInv
<1>2. QED BY <1>1, Invariant, PTL

\* As long as no creator rolls back, a reported success keeps holding.
THEOREM SuccessIsPermanent == Spec => []SuccessHolds
<1>1. IInv => SuccessHolds
  BY DEF IInv
<1>2. QED BY <1>1, Invariant, PTL

\* The bytes at the path are never replaced, only removed by their creator.
THEOREM NeverReplacedEver == Spec => NeverReplaced
<1> DEFINE Allowed ==
      file # file' => \/ file = None
                      \/ /\ file' = None
                         /\ \E p \in Procs : /\ result[p] = "created"
                                             /\ pc[p] = "rollback"
                                             /\ want[p] = file
<1>1. IInv /\ [Next]_vars => Allowed \/ UNCHANGED vars
  <2> SUFFICES ASSUME IInv, [Next]_vars PROVE Allowed
    OBVIOUS
  <2>1. ASSUME NEW p \in Procs, UnlinkCreated(p) PROVE Allowed
    BY <2>1 DEF UnlinkCreated, Goto, IInv, CallsInv
  <2>2. ASSUME NEW p \in Procs, Step(p), ~UnlinkCreated(p) PROVE Allowed
    BY <2>2 DEF Step, LookForDirectory, MakeDirectory, Check, Compare, WriteTemp,
       RenameWins, RenameLoses, Recheck, Raise, BeginRollback, RemoveDirectory
  <2>3. CASE (\E p \in Procs : Kill(p)) \/ UNCHANGED vars
    BY <2>3 DEF Kill, vars
  <2>4. QED BY <2>1, <2>2, <2>3 DEF Next
<1>2. QED BY <1>1, Invariant, PTL DEF Spec, NeverReplaced

-----------------------------------------------------------------------------

\* One step of the racing calls is one step of the register or none.
LEMMA OnceNext ==
    ASSUME IInv, [Next]_vars
    PROVE  [Once!Next]_(Once!onceVars)
<1> USE StorageAssumption DEF Goto, Return
<1>1. ASSUME NEW p \in Procs, RenameWins(p) PROVE Once!Create(p, want[p])
  BY <1>1 DEF RenameWins, Once!Create, IInv, CallsInv, Calling
<1>2. ASSUME NEW p \in Procs, Compare(p)
      PROVE  Once!Match(p, want[p]) \/ Once!Collide(p, want[p])
  BY <1>2 DEF Compare, Once!Match, Once!Collide, IInv, CallsInv, Calling
<1>3. ASSUME NEW p \in Procs, Recheck(p)
      PROVE  Once!Match(p, want[p]) \/ Once!Raise(p)
  BY <1>3 DEF Recheck, Once!Match, Once!Raise, IInv, CallsInv, Calling
<1>4. ASSUME NEW p \in Procs, Raise(p) PROVE Once!Raise(p)
  BY <1>4 DEF Raise, Once!Raise, IInv, CallsInv, Calling
<1>5. ASSUME NEW p \in Procs,
             \/ LookForDirectory(p) \/ MakeDirectory(p) \/ Check(p) \/ WriteTemp(p)
             \/ RenameLoses(p) \/ RemoveDirectory(p) \/ Kill(p)
      PROVE  UNCHANGED <<file, result>>
  BY <1>5 DEF LookForDirectory, MakeDirectory, Check, WriteTemp, RenameLoses,
     RemoveDirectory, Kill
<1>6. ASSUME NEW p \in Procs, BeginRollback(p) \/ UnlinkCreated(p)
      PROVE  Once!Withdraw(p, want[p]) \/ UNCHANGED <<file, result>>
  BY <1>6 DEF BeginRollback, UnlinkCreated, Once!Withdraw, IInv, CallsInv
<1>7. \A p \in Procs : want[p] \in Data
  BY DEF IInv, TypeOK
<1>8. ASSUME NEW p \in Procs, Step(p) \/ Kill(p) PROVE [Once!Next]_(Once!onceVars)
  <2>1. \/ \E data \in Data : Once!Create(p, data) \/ Once!Match(p, data) \/ Once!Collide(p, data)
                                \/ Once!Withdraw(p, data)
        \/ Once!Raise(p)
        \/ UNCHANGED <<file, result>>
    BY <1>1, <1>2, <1>3, <1>4, <1>5, <1>6, <1>7, <1>8 DEF Step
  <2>2. QED BY <2>1 DEF Once!Next, Once!onceVars
<1>9. CASE UNCHANGED vars
  BY <1>9 DEF vars, Once!onceVars
<1>10. QED BY <1>8, <1>9 DEF Next

\* Racing calls and rollbacks are equivalent to calls that happen one at a time
\* on a register that is written once and emptied only by its writer.
THEOREM CreateAtomicIsWriteOnce == Spec => ImplementsWriteOnce
<1>1. Init => Once!Init
  BY DEF Init, Once!Init
<1>2. IInv /\ [Next]_vars => [Once!Next]_(Once!onceVars)
  BY OnceNext
<1>3. QED BY Invariant, <1>1, <1>2, PTL DEF Spec, ImplementsWriteOnce, Once!Spec

=============================================================================
