----------------------------- MODULE MCAccounts -----------------------------
(* A small instance of Accounts, for TLC. *)
EXTENDS Accounts, TLC

CONSTANTS u1, u2, f1, t1, t2, t3, l1, q1, q2

AllPermissions == [r \in Roles |-> Permissions]

(* One failure locks out a code or a reset, two a login. *)
Limits == [login |-> 2, totp |-> 1, reset |-> 1]

Symmetry == Permutations(Tokens) \cup Permutations(Families) \cup Permutations({q1, q2})
=============================================================================
