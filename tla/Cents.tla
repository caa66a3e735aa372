------------------------------- MODULE Cents -------------------------------
(***************************************************************************)
(* Sums of integer cents over a finite set of rows.                        *)
(*                                                                         *)
(* Every amount of the system is a positive numeric(14,2), an integer      *)
(* number of cents with a largest value.  Total counts the cents: one pair *)
(* <<row, i>> for the i-th cent of the row.  A sum written as a            *)
(* cardinality needs no recursion, so theorems about it can cite the       *)
(* library's facts on finite sets.  Debts, which may be credits, are       *)
(* summed by a fold.                                                       *)
(***************************************************************************)
EXTENDS Naturals, FiniteSets, Functions

(* The cents of the rows S, where row x is worth amount[x] <= max. *)
CentsOf(S, amount, max) == {p \in S \X (1..max) : p[2] <= amount[p[1]]}

(* The sum of amount[x] over x \in S. *)
Total(S, amount, max) == Cardinality(CentsOf(S, amount, max))

(* The sum of debt[x] over x \in S, where some debts are negative. *)
SumOf(S, debt) == SumFunctionOnSet(debt, S)
=============================================================================
