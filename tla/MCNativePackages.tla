--------------------------- MODULE MCNativePackages ---------------------------
(***************************************************************************)
(* a1 and a2 contest an identity; f is forged in the name of the first     *)
(* subkey; d is a Debian package.                                          *)
(***************************************************************************)
EXTENDS NativePackages

CONSTANTS a1, a2, f, d, k1, k2

MCIdentity == [p \in Packages |-> IF p \in {a1, a2} THEN "a" ELSE IF p = f THEN "f" ELSE "d"]

MCIssuer == [p \in Packages |-> CASE p = d -> None [] p = a2 -> k2 [] OTHER -> k1]

=============================================================================
