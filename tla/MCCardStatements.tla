-------------------------- MODULE MCCardStatements --------------------------
(* CardStatements on small instances. *)
EXTENDS CardStatements, TLC

Symmetric == Permutations(Expense) \cup Permutations(Refund) \cup Permutations(Payment)
=============================================================================
