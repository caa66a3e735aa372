------------------------------ MODULE MCEntries ------------------------------
(* Entries on small instances. *)
EXTENDS Entries, TLC

OneGroup  == {Entry}
Symmetric == Permutations(Request)

(* What is explored: two cents, and an entry being verified, only for the  *)
(* first entry and not on the last account or card, nor both at once; the  *)
(* last account has earnings alone, no expense and no payment, and the     *)
(* last card takes expenses but its cycle does not end.                    *)
LastCard == NumAccounts + NumCards
Plain(x) == x.amount = 1 /\ x.status # "VERIFYING"
Small(e, x) ==
    x # Absent => /\ Plain(x) \/ (e = 1 /\ x.pot \notin {NumAccounts, LastCard})
                  /\ x.status = "VERIFYING" => x.amount = 1
                  /\ x.pot = NumAccounts => x.kind = "earning"
                  /\ x.pot = LastCard => ~x.closed
Bounds ==
    /\ \A e \in Entry : Small(e, row[e]) /\ \A r \in Request : Small(e, tx[r].after[e])
    /\ \A r \in Request : /\ tx[r].pay # NoPayment => tx[r].pay.account # NumAccounts
                          /\ tx[r].op = "limit" => tx[r].on # LastCard
=============================================================================
