--------------------------- MODULE MCKernelUpgrade ---------------------------
(* KernelUpgrade with two package names and lists of up to three packages. *)
EXTENDS KernelUpgrade

CONSTANTS pa, pb

MCPackages == {pa, pb}
=============================================================================
