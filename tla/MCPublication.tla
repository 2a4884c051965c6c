----------------------------- MODULE MCPublication -----------------------------
(***************************************************************************)
(* Publication over three snapshots that share blobs pairwise, and over    *)
(* two snapshots that share one blob for the liveness run.                 *)
(***************************************************************************)
EXTENDS Publication, TLC

CONSTANTS s1, s2, s3, b1, b2, b3

\* Every blob belongs to two snapshots.
MCBlobsOf == (s1 :> {b1, b2}) @@ (s2 :> {b2, b3}) @@ (s3 :> {b1, b3})

TwoBlobsOf == (s1 :> {b1, b2}) @@ (s2 :> {b2, b3})

\* Renamings of the blobs together with the renaming of the snapshots they
\* induce: MCBlobsOf is the same relation after each of them.
Rotations ==
    {p \in {ps @@ pb : ps \in Permutations({s1, s2, s3}),
                       pb \in Permutations({b1, b2, b3})} :
        \A s \in {s1, s2, s3} :
            MCBlobsOf[p[s]] = {p[b] : b \in MCBlobsOf[s]}}

=============================================================================
