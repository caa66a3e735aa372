---------------------------- MODULE MCRecurrence ----------------------------
(* Recurrence on small instances: its constants are in Recurrence.cfg. *)
EXTENDS Recurrence

(* What is explored: nothing is confirmed before its day; a part of the    *)
(* model changes from its first value to another and not back; in a series *)
(* on a card no request runs while a date stands moved; in another series  *)
(* the model does not change.                                              *)
First == CHOOSE v \in Value : TRUE
Moved == \E i \in Id : Exists(i) /\ occ[i].mark = "moved"
Bounds ==
    /\ \A i \in Id : Exists(i) /\ occ[i].date > today => occ[i].status = "FORECAST"
    /\ \A r \in Request : /\ \A p \in DOMAIN tx[r].change : tx[r].change[p] # First
                          /\ onCard /\ Moved => tx[r].op = "none"
                          /\ ~onCard => tx[r].op # "following"
=============================================================================
