--------------------------- MODULE ImmutableReleases ---------------------------
(***************************************************************************)
(* What publish-native-release promises the users of a product's releases: *)
(* a revision appears at once and whole, after all earlier ones, and is    *)
(* never changed or taken away.                                            *)
(***************************************************************************)
EXTENDS Naturals

CONSTANTS Revisions, Builds, None

VARIABLE live    \* the build whose files users see under each revision

Init == live = [r \in Revisions |-> None]

Release(r, b) ==
    /\ \A q \in Revisions : live[q] # None => q < r
    /\ live' = [live EXCEPT ![r] = b]

Next == \E r \in Revisions, b \in Builds : Release(r, b)

Spec == Init /\ [][Next]_live

=============================================================================
