--------------------------- MODULE MCBankTransfers ---------------------------
(* BankTransfers on small instances.  Every account opens with nothing: the *)
(* code never compares a balance with anything.                            *)
EXTENDS BankTransfers

MCOpening == [a \in Account |-> 0]
=============================================================================
