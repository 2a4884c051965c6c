-------------------------- MODULE AppendOnlyRegistry --------------------------
(***************************************************************************)
(* What the publication transaction promises, without files or steps: a    *)
(* set of snapshots that can be loaded, documents that only ever refer to  *)
(* such snapshots, and publications that are never taken back.             *)
(***************************************************************************)
CONSTANTS Snapshots, Docs

VARIABLES
    available,   \* snapshots that load
    live,        \* the snapshots each moving document refers to
    committed    \* snapshots whose publication completed

absVars == <<available, live, committed>>

Init ==
    /\ available \in SUBSET Snapshots
    /\ committed = available
    /\ live \in [Docs -> SUBSET available]

\* A snapshot becomes loadable all at once.
Offer(s) ==
    /\ s \notin available
    /\ available' = available \cup {s}
    /\ UNCHANGED <<live, committed>>

\* A snapshot that was never committed and that no document refers to is
\* withdrawn.
Withdraw(s) ==
    /\ s \in available \ committed
    /\ \A d \in Docs : s \notin live[d]
    /\ available' = available \ {s}
    /\ UNCHANGED <<live, committed>>

\* One document moves to available snapshots.
Switch(d) ==
    /\ \E refs \in SUBSET available : live' = [live EXCEPT ![d] = refs]
    /\ UNCHANGED <<available, committed>>

\* A publication completes: every document refers to its snapshot.
Commit(s) ==
    /\ s \in available
    /\ \A d \in Docs : s \in live[d]
    /\ committed' = committed \cup {s}
    /\ UNCHANGED <<available, live>>

Next ==
    \/ \E s \in Snapshots : Offer(s) \/ Withdraw(s) \/ Commit(s)
    \/ \E d \in Docs : Switch(d)

Spec == Init /\ [][Next]_absVars

=============================================================================
