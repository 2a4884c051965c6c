------------------------------- MODULE Selection -------------------------------
(***************************************************************************)
(* rescue/selection.py: the releases a rescue plan makes of what the       *)
(* legacy archive holds.                                                   *)
(*                                                                         *)
(* A family is what one loop goes through, newest first: the final tags of *)
(* the CLI, those of one server major, the language-server versions, the   *)
(* PostGIS slots.  A bulk plan passes over what cannot be built and stops  *)
(* at the family's quota; a one-off plan fails instead.  Planning writes   *)
(* nothing, so a plan that is refused has no effect.                       *)
(*                                                                         *)
(* The archive is the capture, read and checked once.  The commit of a tag *)
(* is fetched when it is first needed.                                     *)
(***************************************************************************)
EXTENDS Naturals, Sequences, FiniteSets, Functions

CONSTANTS
    Candidates,   \* tags, language-server versions, PostGIS slots
    Families,     \* in the order of plan_rescue, each with its candidates
    Platforms,
    Names,        \* asset names of one release
    Digests,
    NoDigest,     \* an artifact without SHA-256, or off the package host
    Revisions,    \* build revisions of rebuilds, which compare
    Archives,     \* what the archive may hold of each candidate
    Bulk,         \* the request for everything
    Requests      \* Bulk or one candidate

\* installrefs of a package: of the CLI only those without encoding.
Asset == [name: Names, digest: Digests \cup {NoDigest}]

\* A package that carries the candidate's version, and whether scm_revision says
\* it was built from the tag's commit.
Entry == [commit: {"tag", "other", "none"}, platform: Platforms, revision: Revisions,
          refs: Seq(Asset)]

\* quota: 3 for the CLI and each server major, 1 for the language server, no
\* limit for PostGIS.  tagged: packages must match the tag's commit.  single: the
\* package must have exactly one reference.  whole: all packages are taken, not
\* one for each platform.
Family == [tries: Seq(Candidates), quota: Nat, tagged: BOOLEAN, single: BOOLEAN,
           whole: BOOLEAN]

\* Tags and slots are keys of a dictionary and versions those of a set, and each
\* is of one product and major: no candidate is gone through twice.
TriedOnce ==
    \A f, g \in DOMAIN Families :
        \A m \in DOMAIN Families[f].tries, n \in DOMAIN Families[g].tries :
            Families[f].tries[m] = Families[g].tries[n] => f = g /\ m = n

\* What the constants have to be; assumed where they get their values.
SelectionInputs ==
    /\ Revisions \subseteq Nat
    /\ Families \in Seq(Family)
    /\ \A c \in Candidates : \E f \in Range(Families) : c \in Range(f.tries)
    /\ TriedOnce
    /\ \A archive \in Archives : /\ DOMAIN archive = Candidates
                                 /\ \A c \in Candidates : \A e \in archive[c] : e \in Entry
    /\ Requests \subseteq Candidates \cup {Bulk}
    /\ Bulk \notin Candidates /\ NoDigest \notin Digests

VARIABLES
    archive,    \* the captured packages, by candidate
    request,
    turn,       \* the family the plan is at
    tried,      \* how many of its candidates it has gone through
    releases,   \* candidates planned as releases
    unread,     \* tags whose commit did not come back as one
    status

vars == <<archive, request, turn, tried, releases, unread, status>>

FamilyOf(c) == CHOOSE f \in Range(Families) : c \in Range(f.tries)

Matching(c) == {e \in archive[c] : FamilyOf(c).tagged => e.commit = "tag"}

\* _one_record_per_platform: the newest rebuild for each platform there is.
Ambiguous(entries) ==
    \E e, f \in entries : e # f /\ e.platform = f.platform /\ e.revision = f.revision

Newest(entries) ==
    {e \in entries : \A f \in entries : f.platform = e.platform => f.revision <= e.revision}

Taken(c) == IF FamilyOf(c).whole THEN Matching(c) ELSE Newest(Matching(c))

\* The places of a release's assets.
Places(c) == UNION {{<<c, e, n>> : n \in DOMAIN e.refs} : e \in Taken(c)}

AssetAt(place) == place[2].refs[place[3]]

\* _cli_release, _server_release, _ls_release, _postgis_release: a release is made.
Builds(c) ==
    /\ Places(c) # {}
    /\ FamilyOf(c).whole \/ ~Ambiguous(Matching(c))
    /\ FamilyOf(c).single => \A e \in Taken(c) : Len(e.refs) = 1
    /\ \A x \in Places(c) : AssetAt(x).digest # NoDigest
    /\ \A x, y \in Places(c) : x # y => AssetAt(x).name # AssetAt(y).name

-----------------------------------------------------------------------------

Init ==
    /\ archive \in Archives
    /\ request \in Requests
    /\ turn = 1
    /\ tried = 0
    /\ releases = {}
    /\ unread = {}
    /\ status = "planning"

\* The candidates the plan goes through: all, or the one asked for where it is.
Asked(family) ==
    IF request = Bulk THEN family.tries
    ELSE IF request \in Range(family.tries) THEN <<request>>
    ELSE <<>>

\* A variant: what could not be built counts too.
FullOfTries(family) == request = Bulk /\ tried = family.quota

\* A bulk plan has enough of a family.
Full(family) ==
    request = Bulk /\ Cardinality(releases \cap Range(family.tries)) = family.quota

Over(family) == Full(family) \/ tried = Len(Asked(family))

Planning == status = "planning" /\ turn <= Len(Families)

\* What cannot be built is passed over, or ends a one-off plan.
PassOver ==
    IF request = Bulk THEN tried' = tried + 1 /\ UNCHANGED status
    ELSE status' = "refused" /\ UNCHANGED tried

\* The next candidate of the family.
Try ==
    LET family == Families[turn]
        c == Asked(family)[tried + 1]
    IN  /\ Planning
        /\ ~Over(family)
        /\ IF Builds(c)
           THEN releases' = releases \cup {c} /\ tried' = tried + 1 /\ UNCHANGED status
           ELSE PassOver /\ UNCHANGED releases
        /\ UNCHANGED <<archive, request, turn, unread>>

\* GitHub's answer to the request for the tag's commit makes no sense: that is a
\* ValueError like any other.
TryUnread ==
    LET family == Families[turn]
        c == Asked(family)[tried + 1]
    IN  /\ Planning
        /\ ~Over(family)
        /\ family.tagged
        /\ \E e \in archive[c] : e.commit # "none"
        /\ unread' = unread \cup {c}
        /\ PassOver
        /\ UNCHANGED <<archive, request, turn, releases>>

NextFamily ==
    /\ Planning
    /\ Over(Families[turn])
    /\ turn' = turn + 1
    /\ tried' = 0
    /\ UNCHANGED <<archive, request, releases, unread, status>>

\* No tags, no answer at all, a language-server version that is none.
Abort ==
    /\ Planning
    /\ status' = "refused"
    /\ UNCHANGED <<archive, request, turn, tried, releases, unread>>

\* A variant: only releases are told apart.
PlanAcceptsAll == releases # {}

\* RescuePlan: no digest appears twice.
PlanAccepts ==
    LET places == UNION {Places(c) : c \in releases}
    IN  /\ releases # {}
        /\ \A x, y \in places : x # y => AssetAt(x).digest # AssetAt(y).digest

Finish ==
    /\ status = "planning" /\ turn > Len(Families)
    /\ status' = IF PlanAccepts THEN "planned" ELSE "refused"
    /\ UNCHANGED <<archive, request, turn, tried, releases, unread>>

Next == Try \/ TryUnread \/ NextFamily \/ Abort \/ Finish

Spec == Init /\ [][Next]_vars

-----------------------------------------------------------------------------

Newer(c) == {d \in Candidates : \E f \in Range(Families) : \E m, n \in DOMAIN f.tries :
                 m < n /\ f.tries[m] = d /\ f.tries[n] = c}

Usable(c) == Builds(c) /\ c \notin unread

\* Fewer than the quota of what is newer could be had.
Wanted(c) == Usable(c) /\ Cardinality({d \in Newer(c) : Usable(d)}) < FamilyOf(c).quota

\* A bulk plan has the newest releases of each family that can be built, as many
\* as there are up to the quota: nothing newer is left out for something older,
\* except when its commit could not be read, and what cannot be built takes up
\* no place.  A one-off plan has the release asked for.
PlanHasTheNewest ==
    status = "planned" =>
        releases = IF request = Bulk THEN {c \in Candidates : Wanted(c)}
                   ELSE {c \in {request} : Usable(c)}

-----------------------------------------------------------------------------
(* The inductive invariant behind it.                                       *)

PlaceInv ==
    /\ archive \in Archives /\ request \in Requests
    /\ turn \in Nat \ {0} /\ tried \in Nat
    /\ turn \in DOMAIN Families => tried <= Len(Asked(Families[turn]))
    /\ releases \subseteq Candidates /\ unread \subseteq Candidates
    /\ status \in {"planning", "planned", "refused"}

\* What is planned can be built and was asked for, and is accepted in the end.
BuiltInv ==
    /\ \A c \in releases : Builds(c) /\ request \in {Bulk, c}
    /\ request # Bulk /\ unread # {} => status = "refused"
    /\ status = "planned" => PlanAccepts /\ turn > Len(Families)

\* Nothing is known of the families ahead.
AheadInv ==
    \A f \in DOMAIN Families :
        f > turn => (releases \cup unread) \cap Range(Families[f].tries) = {}

\* A bulk plan has of its family all it could use so far, never too many.
HereInv ==
    request = Bulk =>
        \A f \in DOMAIN Families :
            f = turn =>
                /\ \A n \in DOMAIN Families[f].tries :
                      LET c == Families[f].tries[n]
                      IN  /\ c \in releases <=> n <= tried /\ Usable(c)
                          /\ c \in unread => n <= tried
                /\ Cardinality(releases \cap Range(Families[f].tries)) <= Families[f].quota

\* The families behind it are done with.
BehindInv ==
    request = Bulk =>
        \A f \in DOMAIN Families :
            f < turn => \A c \in Range(Families[f].tries) : c \in releases <=> Wanted(c)

PlanInv ==
    /\ PlaceInv
    /\ BuiltInv
    /\ AheadInv
    /\ HereInv
    /\ BehindInv

=============================================================================
