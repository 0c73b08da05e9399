----------------------------- MODULE MCDocuments -----------------------------
(* A small instance of Documents, for TLC. *)
EXTENDS Documents, TLC

CONSTANTS x1, x2, x3, q1, q2, p1, p2, l1, l2, ana, bia

(* Texts of every unit, longer ones of words, and longer ones of pairs. *)
UpTo(n, units) == UNION {[1 .. k -> units] : k \in 0 .. n}
Texts == UpTo(4, Units) \cup UpTo(9, {"letter", "space"}) \cup UpTo(7, {"high", "low"})

(* Two files of the same bytes; a document of the first case. *)
Copies == [k \in {x1, x2} |-> "copy"]
OneCase == [d \in {x3} |-> x1]

Symmetry == Permutations(Requests) \cup Permutations(Polls) \cup Permutations(Loads)
=============================================================================
