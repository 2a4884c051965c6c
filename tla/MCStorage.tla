------------------------------- MODULE MCStorage -------------------------------
(* Three racing processes over two possible contents. *)
EXTENDS Storage

CONSTANTS p1, p2, p3, x, y

=============================================================================
