------------------------- MODULE MCModInstallService -------------------------
(* A small instance of ModInstallService for TLC. *)
EXTENDS ModInstallService, TLC

CallerSymmetry == Permutations(Callers)
=============================================================================
