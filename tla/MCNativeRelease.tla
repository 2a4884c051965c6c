---------------------------- MODULE MCNativeRelease ----------------------------
(* Three revisions of a package with its manifest. *)
EXTENDS NativeRelease

CONSTANTS b1, b2, package, manifest

=============================================================================
