----------------------------- MODULE PackageChange -----------------------------
(***************************************************************************)
(* What an installation or a removal promises about the packages that were *)
(* installed when it began, whatever else it does: it takes them out of    *)
(* their folders and puts them back one at a time, and throws one away     *)
(* only after the decision to commit.  An operation ends committed, or     *)
(* with every package in place again, or with the remaining packages kept  *)
(* aside for the user to recover.                                          *)
(***************************************************************************)
EXTENDS FiniteSets

CONSTANT Package

VARIABLES
  open,       \* an operation is under way
  committed,  \* it has decided to keep its changes
  inPlace,    \* previous packages that are in their folders
  kept        \* previous packages that exist at all

vars == <<open, committed, inPlace, kept>>

TypeOK ==
  /\ open \in BOOLEAN /\ committed \in BOOLEAN
  /\ inPlace \subseteq kept /\ kept \subseteq Package

Init ==
  /\ ~open /\ ~committed
  /\ inPlace = kept /\ kept \subseteq Package

Begin ==
  /\ ~open /\ open' = TRUE /\ committed' = FALSE
  /\ inPlace' = kept' /\ kept' \subseteq Package

Take ==
  /\ open /\ ~committed
  /\ \E p \in inPlace : inPlace' = inPlace \ {p}
  /\ UNCHANGED <<open, committed, kept>>

PutBack ==
  /\ open /\ ~committed
  /\ \E p \in kept \ inPlace : inPlace' = inPlace \cup {p}
  /\ UNCHANGED <<open, committed, kept>>

Commit ==
  /\ open /\ ~committed /\ committed' = TRUE
  /\ UNCHANGED <<open, inPlace, kept>>

Discard ==
  /\ open /\ committed
  /\ \E p \in kept \ inPlace : kept' = kept \ {p}
  /\ UNCHANGED <<open, committed, inPlace>>

End ==
  /\ open /\ open' = FALSE
  /\ committed => kept = inPlace
  /\ UNCHANGED <<committed, inPlace, kept>>

Next == Begin \/ Take \/ PutBack \/ Commit \/ Discard \/ End

Spec == Init /\ [][Next]_vars
=============================================================================
