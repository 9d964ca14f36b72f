---------------------------- MODULE MCServerSessions ----------------------------
(* A small instance of ServerSessions for TLC. *)
EXTENDS ServerSessions, TLC

CONSTANTS ann, bob, a1, a2, b1
TokenOwner == [t \in Tokens |-> IF t = b1 THEN bob ELSE ann]
Symmetry == Permutations(Clients) \cup Permutations(Handlers) \cup Permutations(Savers) \cup Permutations(Tokens \ {b1})
=============================================================================
