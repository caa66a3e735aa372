-------------------------- MODULE MCBillingCycles ---------------------------
(* BillingCycles from the end of January of a common year, and from the    *)
(* December before a leap one; two cards that close on a day every month   *)
(* has, and two whose closing and due days are among the last ones.        *)
EXTENDS BillingCycles

MCCreationDates == {DateOf(2023 * 12, 31), DateOf(2023 * 12 + 11, 29)}
MCConfig ==
    {[closingDay |-> 5, dueDay |-> 12], [closingDay |-> 28, dueDay |-> 10],
     [closingDay |-> 30, dueDay |-> 31], [closingDay |-> 31, dueDay |-> 5]}
=============================================================================
