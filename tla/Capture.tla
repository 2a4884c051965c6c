-------------------------------- MODULE Capture --------------------------------
(***************************************************************************)
(* Legacy evidence: capture.py, rescue/indexes.py and normalize.py, and    *)
(* the gate a capture pull request passes (validation/local.py).           *)
(*                                                                         *)
(* A capture fetches the indexes of a fixed matrix one after the other     *)
(* while the origin may change any of them, and installs the directory in  *)
(* one rename.  The legacy capture asks for every index a second time      *)
(* before it installs, the rescue capture does not.  Normalisation reads   *)
(* the manifest of the installed capture and then its bodies one after the *)
(* other, and turns them into bootstrap indexes; an operator may throw a   *)
(* capture away and take another, even then, until a pull request brings   *)
(* it to main.                                                             *)
(*                                                                         *)
(* The origin is external: an index never returns to a content it had      *)
(* before, and its validators tell contents apart.                         *)
(***************************************************************************)
EXTENDS Naturals, FiniteSets

CONSTANTS
    Procs,        \* commands that may run at the same time in one directory
    MatrixSize,   \* cells of the capture matrix, 24 in the code
    Contents,     \* what the origin can serve under an index URL
    Absent,       \* ... a 404
    Indexes,      \* ... bodies that are package indexes
    Portable,     \* ... whose references resolve to the package host
    KnownAbsent,  \* cells the rescue capture may find absent
    Tagged,       \* cells served with an ETag or a Last-Modified
    None,         \* nothing there
    MaxChanges,   \* bound on changes at the origin
    MaxFailures   \* bound on failing and killed commands

Cells == 1 .. MatrixSize

ASSUME CaptureAssumption ==
    /\ MatrixSize \in Nat \ {0}
    /\ Portable \subseteq Indexes /\ Indexes \subseteq Contents
    /\ Absent \in Contents \ Indexes
    /\ KnownAbsent \subseteq Cells /\ Tagged \subseteq Cells

ASSUME CaptureBounds == MaxChanges \in Nat /\ MaxFailures \in Nat

VARIABLES
    site,       \* which capture this directory is for
    origin,     \* what the origin answers for each cell
    past,       \* all the origin has served so far, as whole matrices (history)
    capture,    \* the installed capture
    bootstrap,  \* the installed normalisation
    main,       \* both, as committed
    run,        \* the command of each process
    changes,    \* changes at the origin so far
    failures    \* failed and killed commands so far

vars == <<site, origin, past, capture, bootstrap, main, run, changes, failures>>

\* A response: its content, and whether it came from the URL asked for, from
\* another one of the origin, or from outside it.
Answer == [content: Contents, url: {"asked", "moved", "outside"}]

Served == [c \in Cells |-> origin[c].content]

\* CaptureEntry.  An absence carries no final URL.
EntryOf(answer) ==
    IF answer.content = Absent THEN [answer EXCEPT !.url = "asked"] ELSE answer

Evidence == [Cells -> Answer]

Found(evidence) == {c \in Cells : evidence[c].content # Absent}

\* _normalize_to_stage: every body, its references resolved against the URL
\* that returned it.
Normalised(evidence) == [c \in Found(evidence) |-> evidence[c]]

Normalisable(evidence) == \A c \in Found(evidence) : evidence[c].content \in Portable

Busy == {"fetch", "recheck", "install", "verify", "read", "compare", "rename"}

\* seen is history: what the origin served when the second pass or the
\* verification began.
Run == [phase: Busy \cup {"idle", "verified", "stale"},
        next: 1 .. MatrixSize + 1, got: Evidence, seen: [Cells -> Contents]]

NoRun == [phase |-> "idle", next |-> 1,
          got |-> [c \in Cells |-> [content |-> Absent, url |-> "asked"]],
          seen |-> [c \in Cells |-> Absent]]

Bootstraps == UNION {[D -> Answer] : D \in SUBSET Cells}

TypeOK ==
    /\ site \in {"legacy", "rescue"}
    /\ origin \in [Cells -> Answer]
    /\ past \in SUBSET [Cells -> Contents]
    /\ capture \in Evidence \cup {None}
    /\ bootstrap \in Bootstraps \cup {None}
    /\ main \in [capture: Evidence \cup {None}, bootstrap: Bootstraps \cup {None}]
    /\ run \in [Procs -> Run]
    /\ changes \in 0 .. MaxChanges
    /\ failures \in 0 .. MaxFailures

Init ==
    /\ site \in {"legacy", "rescue"}
    /\ origin \in [Cells -> [content: Contents, url: {"asked"}]]
    /\ past = {Served}
    /\ capture = None
    /\ bootstrap = None
    /\ main = [capture |-> None, bootstrap |-> None]
    /\ run = [p \in Procs |-> NoRun]
    /\ changes = 0
    /\ failures = 0

-----------------------------------------------------------------------------
(* The origin.                                                              *)

\* The index of one cell changes, to something it never was before.
Change(c, content) ==
    /\ changes < MaxChanges
    /\ \A matrix \in past : matrix[c] # content
    /\ changes' = changes + 1
    /\ origin' = [origin EXCEPT ![c].content = content]
    /\ past' = past \cup {[Served EXCEPT ![c] = content]}
    /\ UNCHANGED <<site, capture, bootstrap, main, run, failures>>

\* The origin begins or ceases to redirect one index.
Move(c, url) ==
    /\ changes < MaxChanges
    /\ url # origin[c].url
    /\ changes' = changes + 1
    /\ origin' = [origin EXCEPT ![c].url = url]
    /\ UNCHANGED <<site, past, capture, bootstrap, main, run, failures>>

-----------------------------------------------------------------------------
(* The commands.                                                            *)

Free(p) == run[p].phase \notin Busy

Begin(p, new) ==
    /\ Free(p)
    /\ run' = [run EXCEPT ![p] = new]
    /\ UNCHANGED <<site, origin, past, capture, bootstrap, main, changes, failures>>

Goto(p, phase) == run' = [run EXCEPT ![p] = [@ EXCEPT !.phase = phase]]

End(p) == run' = [run EXCEPT ![p] = NoRun]

\* The answer to a request that a capture records.
Acceptable(c) ==
    IF site = "legacy"
    THEN /\ origin[c].url # "outside"
         /\ origin[c].content \in Indexes \cup {Absent}
    ELSE /\ origin[c].url = "asked"
         /\ \/ origin[c].content \in Indexes
            \/ origin[c].content = Absent /\ c \in KnownAbsent

\* A variant: absences are asked for with their validators, too.
MayBeUnmodifiedOrAbsent(c, entry) ==
    c \in Tagged /\ origin[c].content = entry.content

\* A 304 answers only a request for a body with validators, and only while the
\* origin has that body; it may send the body again instead.
MayBeUnmodified(c, entry) ==
    c \in Tagged /\ entry.content # Absent /\ origin[c].content = entry.content

\* The second answer confirms an entry: the same status, and the same bytes or
\* a 304 for a body that came by the same way.
Confirms(c, entry, notModified) ==
    /\ origin[c].url # "outside"
    /\ origin[c].content = entry.content
    /\ notModified => entry.content # Absent /\ origin[c].url = entry.url

\* capture_legacy and capture_rescue_indexes refuse a destination that exists.
StartCapture(p) ==
    /\ capture = None
    /\ Begin(p, [NoRun EXCEPT !.phase = "fetch"])

\* A variant: the captured indexes are not asked for again.
FetchOnce(p) ==
    LET c == run[p].next
    IN  /\ run[p].phase = "fetch"
        /\ IF Acceptable(c)
           THEN run' = [run EXCEPT ![p].got[c] = EntryOf(origin[c]),
                                   ![p].next = IF c = MatrixSize THEN 1 ELSE c + 1,
                                   ![p].phase = IF c = MatrixSize THEN "install" ELSE @]
           ELSE End(p)
        /\ UNCHANGED <<site, origin, past, capture, bootstrap, main, changes, failures>>

\* The loop over capture_urls: one request and its answer.
Fetch(p) ==
    LET c == run[p].next
        done == c = MatrixSize
    IN  /\ run[p].phase = "fetch"
        /\ IF Acceptable(c)
           THEN run' = [run EXCEPT
                    ![p].got[c] = EntryOf(origin[c]),
                    ![p].next = IF done THEN 1 ELSE c + 1,
                    ![p].phase = IF ~done THEN "fetch"
                                 ELSE IF site = "legacy" THEN "recheck" ELSE "install",
                    ![p].seen = IF done THEN Served ELSE @]
           ELSE End(p)
        /\ UNCHANGED <<site, origin, past, capture, bootstrap, main, changes, failures>>

\* _recheck_entry; the origin may or may not honour the validators.
Recheck(p) ==
    LET c == run[p].next
    IN  /\ run[p].phase = "recheck"
        /\ \E notModified \in {FALSE, MayBeUnmodified(c, run[p].got[c])} :
              IF Confirms(c, run[p].got[c], notModified)
              THEN run' = [run EXCEPT
                       ![p].next = c + 1,
                       ![p].phase = IF c = MatrixSize THEN "install" ELSE "recheck"]
              ELSE End(p)
        /\ UNCHANGED <<site, origin, past, capture, bootstrap, main, changes, failures>>

\* The manifest is written and the whole directory renamed, unless another
\* process has installed a capture meanwhile.
Install(p) ==
    /\ run[p].phase = "install"
    /\ capture' = IF capture = None THEN run[p].got ELSE capture
    /\ End(p)
    /\ UNCHANGED <<site, origin, past, bootstrap, main, changes, failures>>

\* verify_live_capture reads the installed capture once.  Operators verify a
\* capture before they normalise it (docs/operations.md).
StartVerify(p) ==
    /\ site = "legacy"
    /\ capture # None /\ bootstrap = None
    /\ run[p].phase = "idle"
    /\ Begin(p, [NoRun EXCEPT !.phase = "verify", !.got = capture, !.seen = Served])

\* A variant: only the status of a response is compared.
VerifyStatus(p) ==
    LET c == run[p].next
    IN  /\ run[p].phase = "verify"
        /\ run' = IF (origin[c].content = Absent) = (run[p].got[c].content = Absent)
                  THEN [run EXCEPT
                       ![p].next = c + 1,
                       ![p].phase = IF c = MatrixSize THEN "verified" ELSE "verify"]
                  ELSE [run EXCEPT ![p] = [NoRun EXCEPT !.phase = "stale"]]
        /\ UNCHANGED <<site, origin, past, capture, bootstrap, main, changes, failures>>

\* Every entry is asked for again, unconditionally.
Verify(p) ==
    LET c == run[p].next
    IN  /\ run[p].phase = "verify"
        /\ run' = IF Confirms(c, run[p].got[c], FALSE)
                  THEN [run EXCEPT
                       ![p].next = c + 1,
                       ![p].phase = IF c = MatrixSize THEN "verified" ELSE "verify"]
                  ELSE [run EXCEPT ![p] = [NoRun EXCEPT !.phase = "stale"]]
        /\ UNCHANGED <<site, origin, past, capture, bootstrap, main, changes, failures>>

\* normalize_capture loads the manifest, got, and finds the files it lists.
StartNormalise(p) ==
    /\ site = "legacy"
    /\ capture # None
    /\ Begin(p, [NoRun EXCEPT !.phase = "read", !.got = capture])

\* What the file of a body holds now, Absent when there is none: the capture may
\* have been removed, or another one installed, since the manifest was read.
Body(c) == IF capture = None THEN Absent ELSE capture[c].content

\* Every body has been read: the tree is normalised, or the command fails.
AllRead(p, got) ==
    IF Normalisable(got)
    THEN run' = [run EXCEPT ![p].got = got, ![p].next = 1, ![p].phase = "compare"]
    ELSE End(p)

\* A variant: a body is normalised whatever its digest.
ReadUnverified(p) ==
    LET c == run[p].next
        expected == run[p].got[c].content # Absent
        got == IF expected THEN [run[p].got EXCEPT ![c].content = Body(c)] ELSE run[p].got
    IN  /\ run[p].phase = "read"
        /\ IF expected /\ Body(c) = Absent THEN End(p)
           ELSE IF c = MatrixSize THEN AllRead(p, got)
           ELSE run' = [run EXCEPT ![p].got = got, ![p].next = c + 1]
        /\ UNCHANGED <<site, origin, past, capture, bootstrap, main, changes, failures>>

\* _verify_body_hashes: the next body the manifest lists is read, and has the
\* digests the manifest gives it.
Read(p) ==
    LET c == run[p].next
        entry == run[p].got[c]
    IN  /\ run[p].phase = "read"
        /\ IF entry.content \notin {Absent, Body(c)} THEN End(p)
           ELSE IF c = MatrixSize THEN AllRead(p, run[p].got)
           ELSE run' = [run EXCEPT ![p].next = c + 1]
        /\ UNCHANGED <<site, origin, past, capture, bootstrap, main, changes, failures>>

\* A bootstrap that is there is compared with the stage and stays.
Compare(p) ==
    /\ run[p].phase = "compare"
    /\ IF bootstrap = None THEN Goto(p, "rename") ELSE End(p)
    /\ UNCHANGED <<site, origin, past, capture, bootstrap, main, changes, failures>>

\* rename_noreplace fails if another process has been faster.
Rename(p) ==
    /\ run[p].phase = "rename"
    /\ bootstrap' = IF bootstrap = None THEN Normalised(run[p].got) ELSE bootstrap
    /\ End(p)
    /\ UNCHANGED <<site, origin, past, capture, main, changes, failures>>

\* A request fails, or the command is killed and leaves its temporary directory.
Fail(p) ==
    /\ failures < MaxFailures
    /\ ~Free(p)
    /\ failures' = failures + 1
    /\ End(p)
    /\ UNCHANGED <<site, origin, past, capture, bootstrap, main, changes>>

-----------------------------------------------------------------------------
(* The operator.                                                            *)

\* The directory can never pass the gate: what was captured has no normal form,
\* or what was normalised belongs to another capture.
Stuck ==
    /\ site = "legacy"
    /\ \/ capture # None /\ ~Normalisable(capture)
       \/ bootstrap # None /\ ~(capture # None /\ bootstrap = Normalised(capture))

\* The operator starts again in a new directory ...
StartOver ==
    /\ Stuck
    /\ capture' = None
    /\ bootstrap' = None
    /\ run' = [p \in Procs |-> NoRun]
    /\ UNCHANGED <<site, origin, past, main, changes, failures>>

\* ... or removes the capture or the bootstrap while nobody captures or verifies;
\* normalisations may be running.
Remove(keptCapture, keptBootstrap) ==
    /\ failures < MaxFailures
    /\ \A p \in Procs : Free(p) \/ run[p].phase \in {"read", "compare", "rename"}
    /\ capture' = IF keptCapture THEN capture ELSE None
    /\ bootstrap' = IF keptBootstrap THEN bootstrap ELSE None
    /\ run' = [p \in Procs |-> IF Free(p) THEN NoRun ELSE run[p]]
    /\ failures' = failures + 1
    /\ UNCHANGED <<site, origin, past, main, changes>>

\* A pull request brings the directory to main: the tree is the recorded one,
\* its normalisation the committed one, and nothing committed before differs.
Submit ==
    /\ site = "legacy"
    /\ capture # None /\ bootstrap # None
    /\ Normalisable(capture) /\ bootstrap = Normalised(capture)
    /\ main.capture \in {None, capture} /\ main.bootstrap \in {None, bootstrap}
    /\ main' = [capture |-> capture, bootstrap |-> bootstrap]
    /\ UNCHANGED <<site, origin, past, capture, bootstrap, run, changes, failures>>

-----------------------------------------------------------------------------
Step(p) ==
    \/ Fetch(p) \/ Recheck(p) \/ Install(p)
    \/ Verify(p)
    \/ Read(p) \/ Compare(p) \/ Rename(p)

Start(p) == StartCapture(p) \/ StartVerify(p) \/ StartNormalise(p)

OriginNext ==
    \E c \in Cells : \/ \E content \in Contents : Change(c, content)
                     \/ \E url \in {"asked", "moved", "outside"} : Move(c, url)

OperatorNext ==
    \/ Submit
    \/ StartOver
    \/ \E keptCapture, keptBootstrap \in BOOLEAN : Remove(keptCapture, keptBootstrap)

Next ==
    \/ OriginNext
    \/ \E p \in Procs : Start(p) \/ Step(p) \/ Fail(p)
    \/ OperatorNext

Spec == Init /\ [][Next]_vars

\* Commands end; operators capture, normalise and submit, and start over when
\* they must.
FairSpec ==
    /\ Spec
    /\ \A p \in Procs : WF_vars(Step(p) \/ StartCapture(p) \/ StartNormalise(p))
    /\ WF_vars(StartOver \/ Submit)

-----------------------------------------------------------------------------
(* Properties.                                                              *)

Recorded(evidence) == [c \in Cells |-> evidence[c].content]

\* An installed or committed legacy capture is one the origin served as a whole
\* at one moment, although it was fetched index by index while the origin moved:
\* no release is in one index of the evidence and not yet in another.
EvidenceIsOneMoment ==
    \A evidence \in {capture, main.capture} \ {None} :
        site = "legacy" => Recorded(evidence) \in past

\* When verify-capture-live succeeds, the capture was what the origin served as
\* a whole when the verification began.
VerifiedIsCurrent ==
    \A p \in Procs : run[p].phase = "verified" => run[p].seen = Recorded(run[p].got)

\* A normalisation of what the origin served as a whole at one moment.
OfOneMoment(tree) ==
    \E matrix \in past :
        /\ DOMAIN tree = {c \in Cells : matrix[c] # Absent}
        /\ \A c \in DOMAIN tree : tree[c].content = matrix[c]

\* An installed or committed bootstrap is of one moment, too, although its bodies
\* were read one by one while captures were removed and replaced: no index of it
\* comes from one capture and the next from another.
BootstrapIsOneMoment ==
    \A tree \in {bootstrap, main.bootstrap} \ {None} : OfOneMoment(tree)

Usable == \A c \in Cells :
    origin[c].url # "outside" /\ origin[c].content \in Portable \cup {Absent}

\* If the origin comes to serve what can be normalised, evidence and bootstrap
\* reach main: neither a torn capture nor a lost race nor an early capture that
\* cannot be normalised is in the way for good.
EventuallyCaptured ==
    (site = "legacy" /\ <>[]Usable) => <>(main.capture # None)

-----------------------------------------------------------------------------
(* The inductive invariant behind the safety properties.                    *)

WasServed(c, content) == \E matrix \in past : matrix[c] = content

\* What process p asks for a second time, in order: the entries before next are
\* those of the moment seen, the others are too, or are gone for good.
Confirming(p) ==
    /\ run[p].seen \in past
    /\ \A c \in Cells :
          \/ run[p].got[c].content = run[p].seen[c]
          \/ /\ c >= run[p].next
             /\ run[p].got[c].content # origin[c].content
             /\ WasServed(c, run[p].got[c].content)

RunInv == \A p \in Procs :
    /\ run[p].phase \in {"fetch", "recheck", "verify", "read"} => run[p].next \in Cells
    /\ run[p].phase = "fetch" =>
          \A c \in Cells : c < run[p].next => WasServed(c, run[p].got[c].content)
    /\ run[p].phase \in {"recheck", "verify"} => Confirming(p)
    /\ run[p].phase = "install" /\ site = "legacy" => Recorded(run[p].got) \in past
    /\ run[p].phase \in {"read", "compare", "rename"} => Recorded(run[p].got) \in past
    /\ run[p].phase = "verify" => site = "legacy"

IInv ==
    /\ TypeOK
    /\ Served \in past
    /\ RunInv
    /\ EvidenceIsOneMoment
    /\ VerifiedIsCurrent
    /\ BootstrapIsOneMoment

=============================================================================
