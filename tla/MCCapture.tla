------------------------------- MODULE MCCapture -------------------------------
(* Two cells and two processes. *)
EXTENDS Capture, TLC

CONSTANTS p1, p2, good, foreign, absent

=============================================================================
