---------------------------- MODULE MCEmailOutbox ----------------------------
(***************************************************************************)
(* Small instances of EmailOutbox for TLC.                                 *)
(***************************************************************************)
EXTENDS EmailOutbox, TLC

CONSTANTS r1, r2

Symmetry == Permutations(Rounds)
=============================================================================
