----------------------------- MODULE BankLedger -----------------------------
(***************************************************************************)
(* What transfers promise to whoever reads the accounts: a book in which   *)
(* each transfer is entered, completed, undone, edited or removed in one   *)
(* step, and a completed transfer has moved both of its accounts.          *)
(***************************************************************************)
EXTENDS Integers

CONSTANTS NumAccounts, Opening, Transfer, MaxAmount

VARIABLES balance, archived, row

Account == 1..NumAccounts
Row     == [from : Account, to : Account, amount : 1..MaxAmount,
            status : {"SCHEDULED", "COMPLETED"}]
Absent  == [status |-> "ABSENT"]

Init ==
    /\ balance = Opening
    /\ archived \in [Account -> BOOLEAN]
    /\ row = [t \in Transfer |-> Absent]

(* Both sides of a transfer m, forwards or backwards, in one step. *)
Posted(m, dir) ==
    [balance EXCEPT ![m.from] = @ - m.amount * dir, ![m.to] = @ + m.amount * dir]

Enter(t, m) ==
    /\ row[t] = Absent /\ m.from # m.to
    /\ row' = [row EXCEPT ![t] = m]
    /\ balance' = IF m.status = "COMPLETED" THEN Posted(m, 1) ELSE balance
    /\ UNCHANGED archived

Complete(t) ==
    /\ row[t].status = "SCHEDULED"
    /\ row' = [row EXCEPT ![t] = [@ EXCEPT !.status = "COMPLETED"]]
    /\ balance' = Posted(row[t], 1)
    /\ UNCHANGED archived

Undo(t) ==
    /\ row[t].status = "COMPLETED"
    /\ row' = [row EXCEPT ![t] = [@ EXCEPT !.status = "SCHEDULED"]]
    /\ balance' = Posted(row[t], -1)
    /\ UNCHANGED archived

(* Only a scheduled transfer is edited or removed. *)
Edit(t, m) ==
    /\ row[t].status = "SCHEDULED"
    /\ m.status = "SCHEDULED" /\ m.from # m.to
    /\ row' = [row EXCEPT ![t] = m]
    /\ UNCHANGED <<balance, archived>>

Remove(t) ==
    /\ row[t].status = "SCHEDULED"
    /\ row' = [row EXCEPT ![t] = Absent]
    /\ UNCHANGED <<balance, archived>>

Archive(a) ==
    /\ archived' = [archived EXCEPT ![a] = ~@]
    /\ UNCHANGED <<balance, row>>

Next ==
    \/ \E t \in Transfer :
        \/ \E m \in Row : Enter(t, m) \/ Edit(t, m)
        \/ Complete(t) \/ Undo(t) \/ Remove(t)
    \/ \E a \in Account : Archive(a)

Spec == Init /\ [][Next]_<<balance, archived, row>>
=============================================================================
