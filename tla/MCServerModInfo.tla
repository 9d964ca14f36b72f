---------------------------- MODULE MCServerModInfo ----------------------------
(* A small instance of ServerModInfo for TLC. *)
EXTENDS ServerModInfo, TLC

AttemptSymmetry == Permutations(Attempts)
=============================================================================
