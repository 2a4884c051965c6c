-------------------------------- MODULE Storage --------------------------------
(***************************************************************************)
(* The file primitives every installer uses, under racing processes:       *)
(* ensure_directory_chain, then create_atomic of one immutable path, then  *)
(* possibly the rollback of the creating transaction.  Each system call is *)
(* one step; the directory's existence, the path and the temporaries are   *)
(* shared.                                                                 *)
(***************************************************************************)
EXTENDS FiniteSets

CONSTANTS
    Procs,      \* processes that install the same path
    Data,       \* the bytes they may want to put there
    None,       \* no file
    Link        \* a symbolic link, whatever it points to

ASSUME StorageAssumption == None \notin Data /\ Link \notin Data /\ None # Link

VARIABLES
    dir,      \* whether the parent directory exists
    file,     \* what the path holds
    temps,    \* processes whose temporary file is in the directory
    want,     \* the bytes each process installs
    pc,       \* where each process is
    result,   \* what its create_atomic returned or raised
    madeDir   \* processes that created the directory

vars == <<dir, file, temps, want, pc, result, madeDir>>

Results == {"none", "created", "unchanged", "collision", "error"}

TypeOK ==
    /\ dir \in BOOLEAN
    /\ file \in Data \cup {None, Link}
    /\ temps \subseteq Procs
    /\ want \in [Procs -> Data]
    /\ pc \in [Procs -> {"start", "mkdir", "check", "compare", "temp", "rename",
                         "recheck", "done", "rollback", "rmdir", "over", "killed"}]
    /\ result \in [Procs -> Results]
    /\ madeDir \subseteq Procs

\* A missing directory holds no path; an existing path may be anything.
Init ==
    /\ dir \in BOOLEAN
    /\ file \in IF dir THEN Data \cup {None, Link} ELSE {None}
    /\ temps = {}
    /\ want \in [Procs -> Data]
    /\ pc = [p \in Procs |-> "start"]
    /\ result = [p \in Procs |-> "none"]
    /\ madeDir = {}

-----------------------------------------------------------------------------

Goto(p, from, to) == pc[p] = from /\ pc' = [pc EXCEPT ![p] = to]

Return(p, from, r) ==
    /\ Goto(p, from, "done")
    /\ result' = [result EXCEPT ![p] = r]

\* ensure_directory_chain looks for the directory ...
LookForDirectory(p) ==
    /\ Goto(p, "start", IF dir THEN "check" ELSE "mkdir")
    /\ UNCHANGED <<dir, file, temps, want, result, madeDir>>

\* ... and makes it; one made meanwhile by another process is accepted and not
\* reported as created.
MakeDirectory(p) ==
    /\ Goto(p, "mkdir", "check")
    /\ dir' = TRUE
    /\ madeDir' = IF dir THEN madeDir ELSE madeDir \cup {p}
    /\ UNCHANGED <<file, temps, want, result>>

\* create_atomic tests for an existing path.
Check(p) ==
    /\ Goto(p, "check", IF file = None THEN "temp" ELSE "compare")
    /\ UNCHANGED <<dir, file, temps, want, result, madeDir>>

\* A variant: an existing file is taken for the right one without comparing.
CompareByExistence(p) ==
    /\ Return(p, "compare", "unchanged")
    /\ UNCHANGED <<dir, file, temps, want, madeDir>>

\* _holds_exactly: a regular file with these bytes.  A link never matches.
Compare(p) ==
    /\ Return(p, "compare", IF file = want[p] THEN "unchanged" ELSE "collision")
    /\ UNCHANGED <<dir, file, temps, want, madeDir>>

\* write_temp in the parent directory.
WriteTemp(p) ==
    /\ dir
    /\ Goto(p, "temp", "rename")
    /\ temps' = temps \cup {p}
    /\ UNCHANGED <<dir, file, want, result, madeDir>>

\* A variant: a plain rename, which replaces whatever appeared since the check.
RenameOver(p) ==
    /\ Return(p, "rename", "created")
    /\ file' = want[p]
    /\ temps' = temps \ {p}
    /\ UNCHANGED <<dir, want, madeDir>>

\* rename_noreplace finds the path free ...
RenameWins(p) ==
    /\ file = None
    /\ Return(p, "rename", "created")
    /\ file' = want[p]
    /\ temps' = temps \ {p}
    /\ UNCHANGED <<dir, want, madeDir>>

\* ... or fails with EEXIST: the temporary is removed and the path compared.
RenameLoses(p) ==
    /\ file # None
    /\ Goto(p, "rename", "recheck")
    /\ temps' = temps \ {p}
    /\ UNCHANGED <<dir, file, want, result, madeDir>>

\* A variant: the loser waits for the path to hold its bytes.
RecheckWaiting(p) ==
    /\ file = want[p]
    /\ Return(p, "recheck", "unchanged")
    /\ UNCHANGED <<dir, file, temps, want, madeDir>>

Recheck(p) ==
    /\ Return(p, "recheck", IF file = want[p] THEN "unchanged" ELSE "error")
    /\ UNCHANGED <<dir, file, temps, want, madeDir>>

\* A system call raises: mkstemp in a directory that is gone, a full disk, a
\* rename the platform does not support.
Raise(p) ==
    /\ \/ Return(p, "mkdir", "error") /\ UNCHANGED temps
       \/ Return(p, "temp", "error") /\ UNCHANGED temps
       \/ Return(p, "rename", "error") /\ temps' = temps \ {p}
    /\ UNCHANGED <<dir, file, want, madeDir>>

\* The transaction of p fails after this file: _rollback_created.
BeginRollback(p) ==
    /\ Goto(p, "done", IF result[p] = "created" THEN "rollback" ELSE "rmdir")
    /\ UNCHANGED <<dir, file, temps, want, result, madeDir>>

\* A created file that still holds the bytes written is removed.
UnlinkCreated(p) ==
    /\ Goto(p, "rollback", "rmdir")
    /\ file' = IF file = want[p] THEN None ELSE file
    /\ UNCHANGED <<dir, temps, want, result, madeDir>>

\* A variant: the created directory is removed with whatever is in it.
RemoveDirectoryTree(p) ==
    /\ Goto(p, "rmdir", "over")
    /\ dir' = (dir /\ p \notin madeDir)
    /\ UNCHANGED <<file, temps, want, result, madeDir>>

\* A created directory is removed if nothing is in it.
RemoveDirectory(p) ==
    /\ Goto(p, "rmdir", "over")
    /\ dir' = (dir /\ ~(p \in madeDir /\ file = None /\ temps = {}))
    /\ UNCHANGED <<file, temps, want, result, madeDir>>

\* A process is killed at any point.
Kill(p) ==
    /\ pc[p] \notin {"done", "over", "killed"}
    /\ pc' = [pc EXCEPT ![p] = "killed"]
    /\ UNCHANGED <<dir, file, temps, want, result, madeDir>>

Step(p) ==
    \/ LookForDirectory(p)
    \/ MakeDirectory(p)
    \/ Check(p)
    \/ Compare(p)
    \/ WriteTemp(p)
    \/ RenameWins(p)
    \/ RenameLoses(p)
    \/ Recheck(p)
    \/ Raise(p)
    \/ BeginRollback(p)
    \/ UnlinkCreated(p)
    \/ RemoveDirectory(p)

Next == \E p \in Procs : Step(p) \/ Kill(p)

Spec == Init /\ [][Next]_vars

\* A process that is not killed runs on; its transaction need not fail.
Runs(p) == Step(p) /\ ~BeginRollback(p)

FairSpec == Spec /\ \A p \in Procs : WF_vars(Runs(p))

-----------------------------------------------------------------------------
(* Properties.                                                              *)

\* The bytes at an immutable path never turn into other bytes, whoever races:
\* the only way out is removal by the process that created them.
NeverReplaced ==
    [][file # file' => \/ file = None
                       \/ /\ file' = None
                          /\ \E p \in Procs : /\ result[p] = "created"
                                              /\ pc[p] = "rollback"
                                              /\ want[p] = file]_vars

\* At most one of the racing processes is told it created the file, so at most
\* one transaction will ever remove it; a creator that rolled back is out.
OneCreator ==
    \A p, q \in Procs :
        /\ result[p] = "created" /\ pc[p] \in {"done", "rollback"}
        /\ result[q] = "created" /\ pc[q] \in {"done", "rollback"}
        => p = q

\* A creator has begun to roll back.
Undone == \E p \in Procs : result[p] = "created" /\ pc[p] # "done"

\* As long as no creator's transaction fails, every process that was told
\* created or unchanged finds its bytes there for good.
SuccessHolds ==
    ~Undone => \A p \in Procs :
        result[p] \in {"created", "unchanged"} => file = want[p]

\* A temporary file outlives its call only if the process was killed.
TempsAccounted == \A p \in temps : pc[p] \in {"rename", "killed"}

\* A directory that holds a file or a temporary is never removed under it.
DirectoryStays == file # None \/ temps # {} => dir

\* Every process that is not killed gets an answer, whatever the others do.
EveryCallReturns ==
    \A p \in Procs : <>(pc[p] \in {"done", "rollback", "rmdir", "over", "killed"})

\* The racing calls and rollbacks are equivalent to calls that happen one at a
\* time on a register that is written once and emptied only by its writer.
Once == INSTANCE WriteOnce WITH value <- file, answer <- result

ImplementsWriteOnce == Once!Spec

-----------------------------------------------------------------------------
(* The inductive invariant behind the safety properties.                    *)

\* Phases of a call that has not returned.
Calling == {"start", "mkdir", "check", "compare", "temp", "rename", "recheck"}

\* A call has no result before it returns, its temporary file exists while it
\* is about to be renamed, and only a created file is about to be unlinked.
CallsInv ==
    \A p \in Procs :
        /\ pc[p] \in Calling => result[p] = "none"
        /\ pc[p] = "rename" => p \in temps
        /\ pc[p] = "rollback" => result[p] = "created"

\* The file of a creator that has not rolled back is the one it wrote.
CreatorInv ==
    \A p \in Procs :
        result[p] = "created" /\ pc[p] \in {"done", "rollback"} => file = want[p]

IInv ==
    /\ TypeOK
    /\ CallsInv
    /\ CreatorInv
    /\ OneCreator
    /\ TempsAccounted
    /\ DirectoryStays
    /\ SuccessHolds

=============================================================================
