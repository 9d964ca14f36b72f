------------------------- MODULE MCConnectionManager -------------------------
(***************************************************************************)
(* ConnectionManager on a small instance.                                  *)
(***************************************************************************)
EXTENDS ConnectionManager, TLC

\* Servers are interchangeable.
Symmetry == Permutations(Servers)
=============================================================================
