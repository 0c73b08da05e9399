------------------------------ MODULE Amounts ------------------------------
(***************************************************************************)
(* Sums of money over a set of rows.                                       *)
(*                                                                         *)
(* The database adds DECIMAL(18,6) columns.  An amount here is the number  *)
(* of smallest units it is made of, and the sum of amount[x] for x in S is *)
(* the number of units those rows hold: the units of two rows are          *)
(* distinct, so counting them adds the rows up.  Stated with Cardinality   *)
(* the sum needs no recursion, and the prover can reason about it.         *)
(***************************************************************************)
EXTENDS Naturals, FiniteSets

Units(amount, S) == UNION {{x} \X (1..amount[x]) : x \in S}

Total(amount, S) == Cardinality(Units(amount, S))
=============================================================================
