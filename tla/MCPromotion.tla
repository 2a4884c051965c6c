------------------------------ MODULE MCPromotion ------------------------------
(* Three releases, two of which may contest each other. *)
EXTENDS Promotion, TLC

CONSTANTS r1, r2, r3, o1, o2, o3, o4

\* Where no releases contest each other, all are alike; commit IDs are chosen, so
\* they are not.
Sym == Permutations(Releases)

TwoContest == {{r1, r2}}

NoContest == {}

\* One release has been withdrawn before the first run: what is left is a pair
\* that contests each other, or one that does not.
MCInit ==
    \E gone \in {r2, r3} :
        /\ upstream = [r \in Releases |-> IF r = gone THEN "withdrawn" ELSE "none"]
        /\ main = NoCommit
        /\ branch = NoBranch
        /\ pr = [open |-> FALSE, added |-> {}, rejected |-> {}]
        /\ run = NoRun
        /\ events = 0
        /\ failures = 0

MCSpec == MCInit /\ [][Next]_vars /\ WF_vars(RunNext)

=============================================================================
