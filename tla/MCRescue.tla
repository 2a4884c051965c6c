------------------------------- MODULE MCRescue -------------------------------
(* Two releases, one of them with two binaries. *)
EXTENDS Rescue, TLC

CONSTANTS r1, r2, b1, b2, b3

MCHome == (b1 :> r1) @@ (b2 :> r1) @@ (b3 :> r2)

\* The two binaries of one release are alike.
Alike == Permutations({b1, b2})

=============================================================================
