----------------------------- MODULE CaptureProofs -----------------------------
(***************************************************************************)
(* For a matrix of any size, any number of processes and any changes of    *)
(* the origin: legacy evidence is of one moment, a verified capture was    *)
(* current, and so is every bootstrap of one moment.                       *)
(*                                                                         *)
(* The argument is Confirming: an index never returns to a content it had, *)
(* so an entry the second pass confirms was served unchanged ever since    *)
(* that pass began, and the entries it has still to confirm are either of  *)
(* that moment too or can no longer be confirmed.  A normalisation starts  *)
(* from a manifest of one moment and takes no body with other digests, so  *)
(* it does not matter what becomes of the capture while it reads.          *)
(***************************************************************************)
EXTENDS Capture, TLAPS

\* The answer of the origin makes an entry with its content.
LEMMA EntryType ==
    ASSUME TypeOK, NEW c \in Cells
    PROVE  EntryOf(origin[c]) \in Answer /\ EntryOf(origin[c]).content = origin[c].content
BY DEF TypeOK, EntryOf, Answer

\* A normalisation is a bootstrap tree.
LEMMA NormalisedType ==
    ASSUME NEW evidence \in Evidence
    PROVE  Normalised(evidence) \in Bootstraps
<1>1. Found(evidence) \in SUBSET Cells
  BY DEF Found
<1>2. Normalised(evidence) \in [Found(evidence) -> Answer]
  BY <1>1 DEF Normalised, Evidence
<1>3. QED BY <1>1, <1>2 DEF Bootstraps

\* The normalisation of evidence of one moment is of that moment.
LEMMA NormalisedMoment ==
    ASSUME NEW evidence \in Evidence, Recorded(evidence) \in past
    PROVE  OfOneMoment(Normalised(evidence))
<1> DEFINE matrix == Recorded(evidence)
<1>1. \A c \in Cells : matrix[c] = evidence[c].content
  BY DEF Recorded
<1>2. DOMAIN Normalised(evidence) = {c \in Cells : matrix[c] # Absent}
  BY <1>1 DEF Normalised, Found
<1>3. \A c \in DOMAIN Normalised(evidence) : Normalised(evidence)[c].content = matrix[c]
  BY <1>1 DEF Normalised, Found
<1>4. QED BY <1>2, <1>3 DEF OfOneMoment

\* What the origin serves is a matrix of contents.
LEMMA ServedType == TypeOK => Served \in [Cells -> Contents]
BY DEF TypeOK, Served, Answer

\* After a cell comes the next one, or the end.
LEMMA NextCell ==
    ASSUME NEW c \in Cells
    PROVE  /\ c \in Nat /\ c >= 1 /\ c <= MatrixSize
           /\ 1 \in 1 .. MatrixSize + 1 /\ c \in 1 .. MatrixSize + 1
           /\ c + 1 \in 1 .. MatrixSize + 1
BY CaptureAssumption DEF Cells

\* A command that has not begun is well typed.
LEMMA NoRunType == NoRun \in Run
BY CaptureAssumption DEF NoRun, Run, Evidence, Answer, Busy, Cells

-----------------------------------------------------------------------------

\* Nothing is captured and no command runs, so the invariant holds at the start.
LEMMA InvInit == Init => IInv
<1> SUFFICES ASSUME Init PROVE IInv
  OBVIOUS
<1>1. TypeOK
  <2>1. origin \in [Cells -> Answer]
    BY DEF Init, Answer
  <2>2. Served \in [Cells -> Contents]
    BY <2>1 DEF Served, Answer
  <2>3. QED BY <2>1, <2>2, NoRunType, CaptureBounds DEF Init, TypeOK
<1>2. QED BY <1>1 DEF Init, IInv, RunInv, NoRun, EvidenceIsOneMoment, VerifiedIsCurrent,
             BootstrapIsOneMoment

-----------------------------------------------------------------------------

\* The origin changes an index: its new content was never served, so nothing
\* that can no longer be confirmed becomes confirmable again.
LEMMA InvChange ==
    ASSUME IInv, NEW c \in Cells, NEW content \in Contents, Change(c, content)
    PROVE  IInv'
<1> USE DEF Change
<1>1. /\ TypeOK /\ Served \in [Cells -> Contents]
      /\ changes + 1 \in 0 .. MaxChanges
  BY ServedType, CaptureBounds DEF IInv, TypeOK
<1>2. Served' = [Served EXCEPT ![c] = content]
  BY <1>1 DEF Served, TypeOK, Answer
<1>3. TypeOK'
  BY <1>1 DEF TypeOK, Answer
<1>4. Served' \in past' /\ past \subseteq past'
  BY <1>2
<1>5. \A d \in Cells, k \in Contents : WasServed(d, k) => WasServed(d, k)'
  BY <1>4 DEF WasServed
<1>6. RunInv'
  <2>1. \A p \in Procs : Confirming(p) => Confirming(p)'
    <3> SUFFICES ASSUME NEW p \in Procs, Confirming(p), NEW d \in Cells,
                        run[p].got[d].content # run[p].seen[d]
                 PROVE  /\ d >= run[p].next
                        /\ run[p].got[d].content # origin'[d].content
                        /\ WasServed(d, run[p].got[d].content)'
      BY <1>4 DEF Confirming
    <3>1. /\ d >= run[p].next
          /\ run[p].got[d].content # origin[d].content
          /\ WasServed(d, run[p].got[d].content)
      BY DEF Confirming
    <3>2. run[p].got[d].content # origin'[d].content
      BY <3>1, <1>1 DEF WasServed, TypeOK, Answer
    <3>3. QED BY <3>1, <3>2, <1>4 DEF WasServed
  <2>2. \A p \in Procs, d \in Cells :
           WasServed(d, run[p].got[d].content) => WasServed(d, run[p].got[d].content)'
    BY <1>4 DEF WasServed
  <2>3. QED BY <2>1, <2>2, <1>4 DEF IInv, RunInv
<1>7. EvidenceIsOneMoment' /\ VerifiedIsCurrent' /\ BootstrapIsOneMoment'
  BY <1>4 DEF IInv, EvidenceIsOneMoment, VerifiedIsCurrent, BootstrapIsOneMoment, OfOneMoment
<1>8. QED BY <1>3, <1>4, <1>6, <1>7 DEF IInv

\* A redirect begins or ends: contents stay.
LEMMA InvMove ==
    ASSUME IInv, NEW c \in Cells, NEW url \in {"asked", "moved", "outside"}, Move(c, url)
    PROVE  IInv'
<1> USE DEF Move
<1>1. TypeOK'
  BY CaptureBounds DEF IInv, TypeOK, Answer
<1>2. \A d \in Cells : origin'[d].content = origin[d].content
  BY DEF IInv, TypeOK, Answer
<1>3. Served' = Served
  BY <1>2 DEF Served
<1>4. RunInv'
  BY <1>2 DEF IInv, RunInv, Confirming, WasServed
<1>5. EvidenceIsOneMoment' /\ VerifiedIsCurrent' /\ BootstrapIsOneMoment'
  BY DEF IInv, EvidenceIsOneMoment, VerifiedIsCurrent, BootstrapIsOneMoment, OfOneMoment
<1>6. QED BY <1>1, <1>3, <1>4, <1>5 DEF IInv

-----------------------------------------------------------------------------

\* What a process's own step must show: the rest concerns the other processes,
\* the origin and the directory, which the step leaves alone.
RunOf(p) ==
    /\ run[p].phase \in {"fetch", "recheck", "verify", "read"} => run[p].next \in Cells
    /\ run[p].phase = "fetch" =>
          \A c \in Cells : c < run[p].next => WasServed(c, run[p].got[c].content)
    /\ run[p].phase \in {"recheck", "verify"} => Confirming(p)
    /\ run[p].phase = "install" /\ site = "legacy" => Recorded(run[p].got) \in past
    /\ run[p].phase \in {"read", "compare", "rename"} => Recorded(run[p].got) \in past
    /\ run[p].phase = "verify" => site = "legacy"
    /\ run[p].phase = "verified" => run[p].seen = Recorded(run[p].got)

LEMMA OwnStep ==
    ASSUME IInv, NEW p \in Procs, NEW new \in Run, run' = [run EXCEPT ![p] = new],
           UNCHANGED <<site, origin, past, capture, bootstrap, main, changes>>,
           failures' \in 0 .. MaxFailures, RunOf(p)'
    PROVE  IInv'
<1>1. run'[p] = new /\ \A q \in Procs \ {p} : run'[q] = run[q]
  BY DEF IInv, TypeOK
<1>2. TypeOK'
  BY DEF IInv, TypeOK
<1>3. Served' = Served
  BY DEF Served
<1>4. \A q \in Procs \ {p} : Confirming(q) => Confirming(q)'
  BY <1>1 DEF Confirming, WasServed
<1>5. RunInv' /\ VerifiedIsCurrent'
  <2>1. RunOf(p)'
    OBVIOUS
  <2>2. \A q \in Procs \ {p} : RunOf(q)'
    <3> SUFFICES ASSUME NEW q \in Procs \ {p} PROVE RunOf(q)'
      OBVIOUS
    <3>1. RunOf(q)
      BY DEF IInv, RunInv, VerifiedIsCurrent, RunOf
    <3>2. run'[q] = run[q] /\ (Confirming(q) => Confirming(q)')
      BY <1>1, <1>4
    <3>3. QED BY <3>1, <3>2 DEF RunOf, WasServed, Recorded
  <2>3. \A q \in Procs : RunOf(q)'
    BY <2>1, <2>2
  <2>4. QED BY <2>3 DEF RunOf, RunInv, VerifiedIsCurrent
<1>6. EvidenceIsOneMoment' /\ BootstrapIsOneMoment'
  BY DEF IInv, EvidenceIsOneMoment, BootstrapIsOneMoment, OfOneMoment
<1>7. QED BY <1>2, <1>3, <1>5, <1>6 DEF IInv

\* A command that ends, or has not begun, has nothing to show.
LEMMA OwnEnd ==
    ASSUME IInv, NEW p \in Procs, End(p),
           UNCHANGED <<site, origin, past, capture, bootstrap, main, changes>>,
           failures' \in 0 .. MaxFailures
    PROVE  IInv'
<1>1. RunOf(p)'
  BY DEF End, NoRun, RunOf, IInv, TypeOK
<1>2. QED BY <1>1, NoRunType, OwnStep DEF End

-----------------------------------------------------------------------------

\* A fetched entry is what the origin serves now; the last of them begins the
\* second pass, of the moment of that answer.
LEMMA InvFetch ==
    ASSUME IInv, NEW p \in Procs, Fetch(p)
    PROVE  IInv'
<1> DEFINE c == run[p].next
           done == c = MatrixSize
           new == [run[p] EXCEPT
                      !.got = [@ EXCEPT ![c] = EntryOf(origin[c])],
                      !.next = IF done THEN 1 ELSE c + 1,
                      !.phase = IF ~done THEN "fetch"
                                ELSE IF site = "legacy" THEN "recheck" ELSE "install",
                      !.seen = IF done THEN Served ELSE @]
<1>1. /\ TypeOK /\ run[p].phase = "fetch" /\ run[p] \in Run /\ c \in Cells
      /\ UNCHANGED <<site, origin, past, capture, bootstrap, main, changes, failures>>
      /\ failures \in 0 .. MaxFailures
      /\ \A d \in Cells : d < c => WasServed(d, run[p].got[d].content)
  BY DEF Fetch, IInv, TypeOK, RunInv
<1>2. CASE Acceptable(c)
  <2>1. run' = [run EXCEPT ![p] = new]
    BY <1>1, <1>2 DEF Fetch
  <2>2. new \in Run
    <3>1. [run[p].got EXCEPT ![c] = EntryOf(origin[c])] \in Evidence
      BY <1>1, EntryType DEF Run, Evidence
    <3>2. (IF done THEN 1 ELSE c + 1) \in 1 .. MatrixSize + 1
      BY <1>1, NextCell
    <3>3. (IF done THEN Served ELSE run[p].seen) \in [Cells -> Contents]
      BY <1>1, ServedType DEF Run
    <3>4. QED BY <1>1, <3>1, <3>2, <3>3 DEF Run, Busy
  <2>3. run'[p] = new
    BY <2>1, <1>1 DEF TypeOK
  <2>4. /\ new.got[c].content = origin[c].content
        /\ \A d \in Cells \ {c} : new.got[d] = run[p].got[d]
    BY <1>1, EntryType DEF Run, Evidence
  <2>5. Served \in past /\ Served[c] = origin[c].content
    BY <1>1 DEF IInv, Served
  <2>6. WasServed(c, new.got[c].content)
    BY <2>4, <2>5 DEF WasServed
  <2>7. \A d \in Cells : d <= c => WasServed(d, new.got[d].content)
    BY <2>4, <2>6, <1>1 DEF Cells
  <2>8. RunOf(p)'
    <3>1. CASE ~done
      <4>1. new.phase = "fetch" /\ new.next = c + 1 /\ c + 1 \in Cells
        BY <3>1, <1>1, CaptureAssumption DEF Run, Cells
      <4>2. \A d \in Cells : d < c + 1 => WasServed(d, new.got[d].content)
        BY <2>7, <1>1 DEF Cells
      <4>3. QED BY <4>1, <4>2, <2>3, <1>1 DEF RunOf, WasServed
    <3>2. CASE done /\ site = "legacy"
      <4>1. new.phase = "recheck" /\ new.next = 1 /\ new.seen = Served /\ 1 \in Cells
        BY <3>2, <1>1, CaptureAssumption DEF Run, Cells
      <4>2. \A d \in Cells : d >= 1 /\ WasServed(d, new.got[d].content)
        BY <3>2, <2>7, CaptureAssumption DEF Cells
      <4>3. \A d \in Cells : \/ new.got[d].content = Served[d]
                             \/ new.got[d].content # origin[d].content
        BY DEF Served
      <4>4. Confirming(p)'
        BY <4>1, <4>2, <4>3, <2>3, <2>5, <1>1 DEF Confirming, WasServed
      <4>5. QED BY <4>1, <4>4, <2>3 DEF RunOf
    <3>3. CASE done /\ site # "legacy"
      <4>1. new.phase = "install"
        BY <3>3, <1>1 DEF Run
      <4>2. QED BY <4>1, <3>3, <2>3, <1>1 DEF RunOf
    <3>4. QED BY <3>1, <3>2, <3>3
  <2>9. QED BY <2>1, <2>2, <2>8, <1>1, OwnStep
<1>3. CASE ~Acceptable(c)
  <2>1. End(p)
    BY <1>3 DEF Fetch
  <2>2. QED BY <2>1, <1>1, OwnEnd
<1>4. QED BY <1>2, <1>3

\* A confirmed entry is of the moment the second pass began: had it been gone
\* then, it could not be served now.
LEMMA Confirmed ==
    ASSUME TypeOK, NEW p \in Procs, Confirming(p), NEW c \in Cells, c = run[p].next,
           origin[c].content = run[p].got[c].content
    PROVE  \A d \in Cells :
              \/ run[p].got[d].content = run[p].seen[d]
              \/ /\ d >= c + 1
                 /\ run[p].got[d].content # origin[d].content
                 /\ WasServed(d, run[p].got[d].content)
BY DEF Confirming, Cells

\* When no entry is left to confirm, all are of that moment.
LEMMA AllConfirmed ==
    ASSUME NEW r \in Run, \A d \in Cells : r.got[d].content = r.seen[d]
    PROVE  Recorded(r.got) = r.seen
BY DEF Recorded, Run, Evidence, Answer

\* A confirmed entry moves the second pass on; the last one ends it with
\* evidence of one moment.
LEMMA InvRecheck ==
    ASSUME IInv, NEW p \in Procs, Recheck(p)
    PROVE  IInv'
<1> DEFINE c == run[p].next
           new == [run[p] EXCEPT
                      !.next = c + 1,
                      !.phase = IF c = MatrixSize THEN "install" ELSE "recheck"]
<1>1. /\ TypeOK /\ run[p].phase = "recheck" /\ run[p] \in Run /\ c \in Cells
      /\ UNCHANGED <<site, origin, past, capture, bootstrap, main, changes, failures>>
      /\ failures \in 0 .. MaxFailures
      /\ Confirming(p)
  BY DEF Recheck, IInv, TypeOK, RunInv
<1>2. CASE End(p)
  BY <1>1, <1>2, OwnEnd
<1>3. CASE run' = [run EXCEPT ![p] = new] /\ origin[c].content = run[p].got[c].content
  <2>1. new \in Run /\ c \in Nat /\ c <= MatrixSize
    BY <1>1, NextCell DEF Run, Busy
  <2>2. run'[p] = new
    BY <1>3, <1>1 DEF TypeOK
  <2>3. new.got = run[p].got /\ new.seen = run[p].seen /\ new.next = c + 1
    BY <1>1 DEF Run
  <2>4. \A d \in Cells :
           \/ new.got[d].content = new.seen[d]
           \/ /\ d >= c + 1
              /\ new.got[d].content # origin[d].content
              /\ WasServed(d, new.got[d].content)
    BY <1>1, <1>3, <2>3, Confirmed
  <2>5. new.seen \in past
    BY <1>1, <2>3 DEF Confirming
  <2>6. RunOf(p)'
    <3>1. CASE c # MatrixSize
      <4>1. new.phase = "recheck" /\ c + 1 \in Cells
        BY <3>1, <2>1, <1>1, CaptureAssumption DEF Run, Cells
      <4>2. Confirming(p)'
        BY <2>2, <2>3, <2>4, <2>5, <1>1 DEF Confirming, WasServed
      <4>3. QED BY <4>1, <4>2, <2>2, <2>3 DEF RunOf
    <3>2. CASE c = MatrixSize
      <4>1. new.phase = "install"
        BY <3>2, <1>1 DEF Run
      <4>2. \A d \in Cells : new.got[d].content = new.seen[d]
        BY <2>4, <3>2, CaptureAssumption DEF Cells
      <4>3. Recorded(new.got) \in past
        BY <4>2, <2>1, <2>5, AllConfirmed
      <4>4. QED BY <4>1, <4>3, <2>2, <1>1 DEF RunOf, Recorded
    <3>3. QED BY <3>1, <3>2
  <2>7. QED BY <1>3, <2>1, <2>6, <1>1, OwnStep
<1>4. QED
  <2>1. PICK notModified \in {FALSE, MayBeUnmodified(c, run[p].got[c])} :
           IF Confirms(c, run[p].got[c], notModified)
           THEN run' = [run EXCEPT ![p].next = c + 1,
                                   ![p].phase = IF c = MatrixSize THEN "install"
                                                ELSE "recheck"]
           ELSE End(p)
    BY DEF Recheck
  <2>2. CASE Confirms(c, run[p].got[c], notModified)
    <3>1. origin[c].content = run[p].got[c].content
      BY <2>2 DEF Confirms
    <3>2. run' = [run EXCEPT ![p] = new]
      BY <2>1, <2>2, <1>1
    <3>3. QED BY <3>1, <3>2, <1>3
  <2>3. CASE ~Confirms(c, run[p].got[c], notModified)
    BY <2>1, <2>3, <1>2
  <2>4. QED BY <2>2, <2>3

\* The verification goes the same way, and starts from the installed capture.
LEMMA InvVerify ==
    ASSUME IInv, NEW p \in Procs, Verify(p)
    PROVE  IInv'
<1> DEFINE c == run[p].next
           same == Confirms(c, run[p].got[c], FALSE)
           new == IF same
                  THEN [run[p] EXCEPT
                           !.next = c + 1,
                           !.phase = IF c = MatrixSize THEN "verified" ELSE "verify"]
                  ELSE [NoRun EXCEPT !.phase = "stale"]
<1>1. /\ TypeOK /\ run[p].phase = "verify" /\ run[p] \in Run /\ c \in Cells
      /\ site = "legacy"
      /\ UNCHANGED <<site, origin, past, capture, bootstrap, main, changes, failures>>
      /\ failures \in 0 .. MaxFailures
      /\ Confirming(p)
  BY DEF Verify, IInv, TypeOK, RunInv
<1>2. run' = [run EXCEPT ![p] = new]
  BY <1>1 DEF Verify
<1>3. new \in Run /\ c \in Nat /\ c <= MatrixSize
  BY <1>1, NextCell, NoRunType DEF Run, Busy
<1>4. run'[p] = new
  BY <1>2, <1>1 DEF TypeOK
<1>5. RunOf(p)'
  <2>1. CASE ~same
    <3>1. new.phase = "stale"
      BY <2>1 DEF NoRun
    <3>2. QED BY <3>1, <1>4 DEF RunOf
  <2>2. CASE same
    <3>1. new.got = run[p].got /\ new.seen = run[p].seen /\ new.next = c + 1
      BY <1>1, <2>2 DEF Run
    <3>2. \A d \in Cells :
             \/ new.got[d].content = new.seen[d]
             \/ /\ d >= c + 1
                /\ new.got[d].content # origin[d].content
                /\ WasServed(d, new.got[d].content)
      BY <1>1, <2>2, <3>1, Confirmed DEF Confirms
    <3>3. CASE c # MatrixSize
      <4>1. new.phase = "verify" /\ c + 1 \in Cells
        BY <3>3, <2>2, <1>3, <1>1, CaptureAssumption DEF Run, Cells
      <4>2. Confirming(p)'
        <5>1. /\ run'[p].got = run[p].got /\ run'[p].seen = run[p].seen
              /\ run'[p].next = c + 1
          BY <1>4, <3>1
        <5>2. run[p].seen \in past /\ past' = past /\ origin' = origin
          BY <1>1 DEF Confirming
        <5>3. \A d \in Cells :
                 \/ run[p].got[d].content = run[p].seen[d]
                 \/ /\ d >= c + 1
                    /\ run[p].got[d].content # origin[d].content
                    /\ WasServed(d, run[p].got[d].content)
          BY <3>1, <3>2
        <5>4. QED BY <5>1, <5>2, <5>3 DEF Confirming, WasServed
      <4>3. QED BY <4>1, <4>2, <1>4, <3>1, <1>1 DEF RunOf
    <3>4. CASE c = MatrixSize
      <4>1. new.phase = "verified"
        BY <3>4, <2>2, <1>1 DEF Run
      <4>2. \A d \in Cells : run[p].got[d].content = run[p].seen[d]
        <5> SUFFICES ASSUME NEW d \in Cells PROVE run[p].got[d].content = run[p].seen[d]
          OBVIOUS
        <5>1. ~(d >= c + 1)
          BY <3>4, CaptureAssumption DEF Cells
        <5>2. QED BY <5>1, <3>1, <3>2
      <4>3. new.seen = Recorded(new.got)
        BY <4>2, <3>1, <1>1, AllConfirmed
      <4>4. run'[p].phase = "verified" /\ run'[p].seen = Recorded(run'[p].got)
        BY <4>1, <4>3, <1>4
      <4>5. QED BY <4>4 DEF RunOf, Recorded
    <3>5. QED BY <3>3, <3>4
  <2>3. QED BY <2>1, <2>2
<1>6. QED BY <1>1, <1>2, <1>3, <1>5, OwnStep

\* A command begins: a verification of evidence of one moment has every entry
\* of this moment, or gone for good.
LEMMA InvStart ==
    ASSUME IInv, NEW p \in Procs, Start(p)
    PROVE  IInv'
<1>1. /\ TypeOK /\ run[p] \in Run /\ failures \in 0 .. MaxFailures /\ 1 \in Cells
      /\ Served \in past /\ Served \in [Cells -> Contents]
  BY ServedType, CaptureAssumption DEF IInv, TypeOK, Cells
<1>2. CASE StartCapture(p)
  <2> DEFINE new == [NoRun EXCEPT !.phase = "fetch"]
  <2>1. new \in Run /\ new.phase = "fetch" /\ new.next = 1
    BY NoRunType DEF Run, Busy, NoRun
  <2>2. run' = [run EXCEPT ![p] = new]
    BY <1>2 DEF StartCapture, Begin
  <2>3. run'[p] = new
    BY <2>2, <1>1 DEF TypeOK
  <2>4. RunOf(p)'
    BY <2>1, <2>3, <1>1 DEF RunOf, Cells
  <2>5. UNCHANGED <<site, origin, past, capture, bootstrap, main, changes, failures>>
    BY <1>2 DEF StartCapture, Begin
  <2>6. QED BY <2>1, <2>2, <2>4, <2>5, <1>1, OwnStep
<1>3. CASE StartVerify(p)
  <2> DEFINE new == [NoRun EXCEPT !.phase = "verify", !.got = capture, !.seen = Served]
  <2>1. capture \in Evidence /\ Recorded(capture) \in past /\ site = "legacy"
    BY <1>3 DEF StartVerify, IInv, TypeOK, EvidenceIsOneMoment
  <2>2. /\ new \in Run /\ new.phase = "verify" /\ new.next = 1
        /\ new.got = capture /\ new.seen = Served
    BY <2>1, <1>1, NoRunType DEF Run, Busy, NoRun
  <2>3. run' = [run EXCEPT ![p] = new]
    BY <1>3 DEF StartVerify, Begin
  <2>4. UNCHANGED <<site, origin, past, capture, bootstrap, main, changes, failures>>
    BY <1>3 DEF StartVerify, Begin
  <2>5. run'[p] = new
    BY <2>3, <1>1 DEF TypeOK
  <2>6. \A d \in Cells : d >= 1 /\ WasServed(d, capture[d].content)
    <3> SUFFICES ASSUME NEW d \in Cells PROVE d >= 1 /\ WasServed(d, capture[d].content)
      OBVIOUS
    <3>1. Recorded(capture)[d] = capture[d].content
      BY DEF Recorded
    <3>2. QED BY <2>1, <3>1, NextCell DEF WasServed
  <2>7. \A d \in Cells : Served[d] = origin[d].content
    BY DEF Served
  <2>8. Confirming(p)'
    BY <2>2, <2>4, <2>5, <2>6, <2>7, <1>1 DEF Confirming, WasServed
  <2>9. RunOf(p)'
    BY <2>1, <2>2, <2>4, <2>5, <2>8, <1>1 DEF RunOf
  <2>10. QED BY <2>2, <2>3, <2>4, <2>9, <1>1, OwnStep
<1>4. CASE StartNormalise(p)
  <2> DEFINE new == [NoRun EXCEPT !.phase = "read", !.got = capture]
  <2>1. capture \in Evidence /\ Recorded(capture) \in past
    BY <1>4 DEF StartNormalise, IInv, TypeOK, EvidenceIsOneMoment
  <2>2. new \in Run /\ new.phase = "read" /\ new.next = 1 /\ new.got = capture
    BY <2>1, NoRunType DEF Run, Busy, NoRun
  <2>3. run' = [run EXCEPT ![p] = new]
    BY <1>4 DEF StartNormalise, Begin
  <2>4. UNCHANGED <<site, origin, past, capture, bootstrap, main, changes, failures>>
    BY <1>4 DEF StartNormalise, Begin
  <2>5. run'[p] = new
    BY <2>3, <1>1 DEF TypeOK
  <2>6. RunOf(p)'
    BY <2>1, <2>2, <2>4, <2>5, <1>1 DEF RunOf, Recorded
  <2>7. QED BY <2>2, <2>3, <2>4, <2>6, <1>1, OwnStep
<1>5. QED BY <1>2, <1>3, <1>4 DEF Start

\* A body is read as the manifest lists it, or the command ends: what is read
\* stays what the manifest recorded.
LEMMA InvRead ==
    ASSUME IInv, NEW p \in Procs, Read(p)
    PROVE  IInv'
<1> DEFINE c == run[p].next
<1>1. /\ TypeOK /\ run[p].phase = "read" /\ run[p] \in Run /\ c \in Cells
      /\ run[p].got \in Evidence /\ Recorded(run[p].got) \in past
      /\ UNCHANGED <<site, origin, past, capture, bootstrap, main, changes, failures>>
      /\ failures \in 0 .. MaxFailures
  BY DEF Read, IInv, TypeOK, RunInv, Run
<1>2. CASE End(p)
  BY <1>1, <1>2, OwnEnd
<1>3. ASSUME NEW next \in 1 .. MatrixSize + 1, NEW phase \in {"read", "compare"},
             phase = "read" => next \in Cells,
             run' = [run EXCEPT ![p] = [run[p] EXCEPT !.next = next, !.phase = phase]]
      PROVE  IInv'
  <2> DEFINE new == [run[p] EXCEPT !.next = next, !.phase = phase]
  <2>1. /\ new \in Run /\ new.phase = phase /\ new.next = next
        /\ new.got = run[p].got
    BY <1>1 DEF Run, Busy
  <2>2. run'[p] = new
    BY <1>1, <1>3 DEF TypeOK
  <2>3. RunOf(p)'
    BY <2>1, <2>2, <1>1, <1>3 DEF RunOf, Recorded
  <2>4. QED BY <2>1, <2>3, <1>1, <1>3, OwnStep
<1>4. CASE c = MatrixSize
  <2>1. CASE AllRead(p, run[p].got) /\ ~End(p)
    <3>1. run' = [run EXCEPT ![p] = [run[p] EXCEPT !.got = run[p].got, !.next = 1,
                                                  !.phase = "compare"]]
      BY <2>1, <1>1 DEF AllRead, TypeOK
    <3>2. [run[p] EXCEPT !.got = run[p].got, !.next = 1, !.phase = "compare"]
             = [run[p] EXCEPT !.next = 1, !.phase = "compare"]
      BY <1>1 DEF Run
    <3>3. QED BY <3>1, <3>2, <1>1, <1>3, NextCell
  <2>2. QED BY <2>1, <1>2, <1>4 DEF Read
<1>5. CASE c # MatrixSize /\ ~End(p)
  <2>1. run' = [run EXCEPT ![p] = [run[p] EXCEPT !.next = c + 1]]
    BY <1>1, <1>5 DEF Read
  <2>2. [run[p] EXCEPT !.next = c + 1] = [run[p] EXCEPT !.next = c + 1, !.phase = "read"]
    BY <1>1 DEF Run
  <2>3. c + 1 \in Cells /\ c + 1 \in 1 .. MatrixSize + 1
    BY <1>1, <1>5, NextCell, CaptureAssumption DEF Cells
  <2>4. QED BY <2>1, <2>2, <2>3, <1>3
<1>6. QED BY <1>2, <1>4, <1>5

-----------------------------------------------------------------------------

\* The state of the directory changes, and the runs end or stay: what remains to
\* show is what the directory and main hold.
LEMMA DirectoryStep ==
    ASSUME IInv, TypeOK', UNCHANGED <<site, origin, past>>,
           \A p \in Procs : run'[p] \in {run[p], NoRun},
           EvidenceIsOneMoment', BootstrapIsOneMoment'
    PROVE  IInv'
<1>1. Served' = Served
  BY DEF Served
<1>2. \A p \in Procs : RunOf(p)'
  <2> SUFFICES ASSUME NEW p \in Procs PROVE RunOf(p)'
    OBVIOUS
  <2>1. CASE run'[p] = NoRun
    BY <2>1 DEF RunOf, NoRun
  <2>2. CASE run'[p] = run[p]
    <3>1. RunOf(p)
      BY DEF IInv, RunInv, VerifiedIsCurrent, RunOf
    <3>2. Confirming(p) => Confirming(p)'
      BY <2>2 DEF Confirming, WasServed
    <3>3. QED BY <3>1, <3>2, <2>2 DEF RunOf, WasServed, Recorded
  <2>3. QED BY <2>1, <2>2
<1>3. RunInv' /\ VerifiedIsCurrent'
  BY <1>2 DEF RunOf, RunInv, VerifiedIsCurrent
<1>4. QED BY <1>1, <1>3 DEF IInv

\* A bootstrap that is installed or committed was there before, or is of one moment.
LEMMA BootstrapStep ==
    ASSUME BootstrapIsOneMoment, past' = past,
           \A tree \in {bootstrap', main'.bootstrap} \ {None} :
              tree \in {bootstrap, main.bootstrap} \/ OfOneMoment(tree)
    PROVE  BootstrapIsOneMoment'
<1> SUFFICES ASSUME NEW tree \in {bootstrap', main'.bootstrap} \ {None}
             PROVE  OfOneMoment(tree)'
  BY DEF BootstrapIsOneMoment
<1>1. OfOneMoment(tree)
  BY DEF BootstrapIsOneMoment
<1>2. QED BY <1>1 DEF OfOneMoment

\* What is installed as a legacy capture has passed the second pass; what is
\* renamed is a normalisation, wherever its capture went meanwhile.
LEMMA InvInstallSteps ==
    ASSUME IInv, NEW p \in Procs, Install(p) \/ Compare(p) \/ Rename(p)
    PROVE  IInv'
<1>1. TypeOK /\ run[p] \in Run /\ run[p].got \in Evidence /\ failures \in 0 .. MaxFailures
  BY DEF IInv, TypeOK, Run
<1>2. CASE Install(p)
  <2> USE <1>2 DEF Install, End
  <2>1. TypeOK'
    BY <1>1, NoRunType DEF TypeOK
  <2>2. \A q \in Procs : run'[q] \in {run[q], NoRun}
    BY <1>1 DEF TypeOK
  <2>3. site = "legacy" => Recorded(run[p].got) \in past
    BY DEF IInv, RunInv
  <2>4. EvidenceIsOneMoment'
    <3>1. main' = main /\ past' = past /\ site' = site
      OBVIOUS
    <3>2. \A evidence \in {capture', main.capture} \ {None} :
             site = "legacy" => Recorded(evidence) \in past
      BY <2>3 DEF IInv, EvidenceIsOneMoment
    <3>3. QED BY <3>1, <3>2 DEF EvidenceIsOneMoment, Recorded
  <2>5. BootstrapIsOneMoment'
    BY DEF IInv, BootstrapIsOneMoment, OfOneMoment
  <2>6. QED BY <2>1, <2>2, <2>4, <2>5, DirectoryStep
<1>3. CASE Compare(p)
  <2>1. CASE End(p)
    BY <2>1, <1>1, <1>3, OwnEnd DEF Compare
  <2>2. CASE Goto(p, "rename")
    <3> DEFINE new == [run[p] EXCEPT !.phase = "rename"]
    <3>1. new \in Run /\ new.phase = "rename" /\ new.got = run[p].got
      BY <1>1 DEF Run, Busy
    <3>2. run' = [run EXCEPT ![p] = new] /\ run'[p] = new
      BY <2>2, <1>1 DEF Goto, TypeOK
    <3>3. RunOf(p)'
      <4>1. Recorded(run[p].got) \in past /\ past' = past
        BY <1>3 DEF Compare, IInv, RunInv
      <4>2. QED BY <4>1, <3>1, <3>2 DEF RunOf, Recorded
    <3>4. UNCHANGED <<site, origin, past, capture, bootstrap, main, changes, failures>>
      BY <1>3 DEF Compare
    <3>5. QED BY <3>1, <3>2, <3>3, <3>4, <1>1, OwnStep
  <2>3. QED BY <2>1, <2>2, <1>3 DEF Compare
<1>4. CASE Rename(p)
  <2> USE <1>4 DEF Rename, End
  <2>1. TypeOK'
    BY <1>1, NoRunType, NormalisedType DEF TypeOK
  <2>2. \A q \in Procs : run'[q] \in {run[q], NoRun}
    BY <1>1 DEF TypeOK
  <2>3. EvidenceIsOneMoment'
    BY DEF IInv, EvidenceIsOneMoment
  <2>4. BootstrapIsOneMoment'
    <3>1. OfOneMoment(Normalised(run[p].got))
      BY <1>1, NormalisedMoment DEF IInv, RunInv
    <3>2. past' = past /\ main' = main /\ bootstrap' \in {bootstrap, Normalised(run[p].got)}
      OBVIOUS
    <3>3. QED BY <3>1, <3>2, BootstrapStep DEF IInv
  <2>5. QED BY <2>1, <2>2, <2>3, <2>4, DirectoryStep
<1>5. QED BY <1>2, <1>3, <1>4

\* What a pull request brings to main has been installed; starting over and
\* removing take nothing from main.
LEMMA InvOperator ==
    ASSUME IInv, OperatorNext
    PROVE  IInv'
<1>1. TypeOK
  BY DEF IInv
<1>2. CASE Submit
  <2> USE <1>2 DEF Submit
  <2>1. TypeOK'
    BY <1>1 DEF TypeOK
  <2>2. \A q \in Procs : run'[q] \in {run[q], NoRun}
    OBVIOUS
  <2>3. EvidenceIsOneMoment'
    BY DEF IInv, EvidenceIsOneMoment, Recorded
  <2>4. BootstrapIsOneMoment'
    BY BootstrapStep DEF IInv
  <2>5. QED BY <2>1, <2>2, <2>3, <2>4, DirectoryStep
<1>3. CASE StartOver \/ \E keptCapture, keptBootstrap \in BOOLEAN :
                           Remove(keptCapture, keptBootstrap)
  <2> USE <1>3 DEF StartOver, Remove
  <2>1. TypeOK'
    BY <1>1, NoRunType, CaptureBounds DEF TypeOK
  <2>2. \A q \in Procs : run'[q] \in {run[q], NoRun}
    BY <1>1 DEF TypeOK
  <2>3. EvidenceIsOneMoment'
    <3>1. capture' \in {capture, None} /\ UNCHANGED <<site, past, main>>
      OBVIOUS
    <3>2. QED BY <3>1 DEF IInv, EvidenceIsOneMoment, Recorded
  <2>4. BootstrapIsOneMoment'
    <3>1. bootstrap' \in {bootstrap, None} /\ UNCHANGED <<past, main>>
      OBVIOUS
    <3>2. QED BY <3>1 DEF IInv, BootstrapIsOneMoment, OfOneMoment
  <2>5. QED BY <2>1, <2>2, <2>3, <2>4, DirectoryStep
<1>4. QED BY <1>2, <1>3 DEF OperatorNext

\* Every step keeps the invariant.
LEMMA InvNext == IInv /\ [Next]_vars => IInv'
<1> SUFFICES ASSUME IInv, [Next]_vars PROVE IInv'
  OBVIOUS
<1>1. CASE OriginNext
  BY <1>1, InvChange, InvMove DEF OriginNext
<1>2. ASSUME NEW p \in Procs, Start(p) \/ Step(p) \/ Fail(p) PROVE IInv'
  <2>1. CASE Fail(p)
    BY <2>1, OwnEnd, CaptureBounds DEF Fail, IInv, TypeOK
  <2>2. QED BY <1>2, <2>1, InvStart, InvFetch, InvRecheck, InvVerify, InvRead,
           InvInstallSteps DEF Step
<1>3. CASE OperatorNext
  BY <1>3, InvOperator
<1>4. CASE UNCHANGED vars
  <2>1. TypeOK' /\ Served' = Served
    BY <1>4 DEF vars, IInv, TypeOK, Served
  <2>2. EvidenceIsOneMoment' /\ BootstrapIsOneMoment'
    BY <1>4 DEF vars, IInv, EvidenceIsOneMoment, BootstrapIsOneMoment, Recorded, OfOneMoment
  <2>3. QED BY <1>4, <2>1, <2>2, DirectoryStep DEF vars
<1>5. QED BY <1>1, <1>2, <1>3, <1>4 DEF Next

LEMMA Invariance == Spec => []IInv
BY InvInit, InvNext, PTL DEF Spec

-----------------------------------------------------------------------------

\* Every reachable state is well typed.
THEOREM TypeCorrect == Spec => []TypeOK
<1>1. IInv => TypeOK
  BY DEF IInv
<1>2. QED BY <1>1, Invariance, PTL

\* The second pass of capture_legacy makes evidence that was fetched index by
\* index from a moving origin a picture of one moment.
THEOREM EvidenceAlwaysOneMoment == Spec => []EvidenceIsOneMoment
<1>1. IInv => EvidenceIsOneMoment
  BY DEF IInv
<1>2. QED BY <1>1, Invariance, PTL

\* A capture that verify_live_capture has accepted was, as a whole, what the
\* origin served when the verification began.
THEOREM VerificationIsSound == Spec => []VerifiedIsCurrent
<1>1. IInv => VerifiedIsCurrent
  BY DEF IInv
<1>2. QED BY <1>1, Invariance, PTL

\* Every bootstrap is the normalisation of what the origin served at one moment,
\* however captures are taken, removed and replaced while its bodies are read.
THEOREM BootstrapAlwaysOneMoment == Spec => []BootstrapIsOneMoment
<1>1. IInv => BootstrapIsOneMoment
  BY DEF IInv
<1>2. QED BY <1>1, Invariance, PTL

=============================================================================
