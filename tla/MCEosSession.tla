------------------------------ MODULE MCEosSession ------------------------------
(***************************************************************************)
(* EosSession on a small instance: packets of one or two fragments, and    *)
(* limits that two packets reach.                                          *)
(***************************************************************************)
EXTENDS EosSession, TLC

\* Users are interchangeable.
Symmetry == Permutations(Users)
=============================================================================
