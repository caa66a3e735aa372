------------------------------- MODULE EntryBook -------------------------------
(***************************************************************************)
(* What the requests on expenses, earnings and statements promise to       *)
(* whoever reads the tables: a book of entries in which each request does  *)
(* all that it does at one moment, to a whole group of installments or to  *)
(* a whole statement, and in which the money is at every moment what the   *)
(* entries and the payments of the book make it.                           *)
(***************************************************************************)
EXTENDS Integers, FiniteSets, Cents

CONSTANTS Entry, Group, Account, Card, Amount, Absent, NoPayment

VARIABLES
    row,            \* the entries
    payment,        \* the standing statement payment of each card
    net             \* what an account has, and what a card has been spent (below zero)

Pot == Account \cup Card

Exists(e)  == row[e] # Absent
GroupOf(e) == CHOOSE g \in Group : e \in g

(* What is settled, or counts in a closed statement, is not touched by an  *)
(* operation on its group; the other rows there are go with it.            *)
IsClosed(x) == x.pot \in Card /\ x.closed /\ x.status # "FORECAST"
Loose(e)    == {d \in GroupOf(e) : Exists(d) /\ row[d].status # "SETTLED" /\ ~IsClosed(row[d])}

-----------------------------------------------------------------------------
(* The money: an account has what was settled on it less the statements    *)
(* paid from it; a card owes what is no forecast less what was paid of it. *)
Worth(x, p) ==
    IF x = Absent \/ x.pot # p THEN 0
    ELSE IF p \in Card THEN (IF x.status = "FORECAST" THEN 0 ELSE -x.amount)
    ELSE IF x.status # "SETTLED" THEN 0
    ELSE IF x.kind = "earning" THEN x.amount ELSE -x.amount

PaidOff(c, p) ==
    IF payment[c] = NoPayment THEN 0
    ELSE IF p = c THEN payment[c].amount
    ELSE IF p = payment[c].account THEN -payment[c].amount ELSE 0

Money ==
    [p \in Pot |-> SumOf(Entry, [e \in Entry |-> Worth(row[e], p)])
                     + SumOf(Card, [c \in Card |-> PaidOff(c, p)])]

Init ==
    /\ row = [e \in Entry |-> Absent]
    /\ payment = [c \in Card |-> NoPayment]
    /\ net = [p \in Pot |-> 0]

(* Rows S become those of N. *)
Become(S, N) == row' = [e \in Entry |-> IF e \in S THEN N[e] ELSE row[e]]

-----------------------------------------------------------------------------
(* The parts of a purchase: whole cents, none a cent more than the others  *)
(* for each of them.                                                       *)
Parts(g) == {a \in [g -> Amount] : \A d, e \in g : a[d] - a[e] < Cardinality(g)}

Enter(g, kind, status, p) ==
    /\ \A e \in g : ~Exists(e)
    /\ kind = "earning" => p \in Account
    /\ \E amounts \in Parts(g) :
         Become(g, [e \in g |-> [kind |-> kind, status |-> status, amount |-> amounts[e],
                                 pot |-> p, closed |-> FALSE]])
    /\ UNCHANGED payment

(* A forecast is confirmed, an entry verified, settled, or put back. *)
Transitions ==
    {<<"FORECAST", "OPEN">>, <<"OPEN", "VERIFYING">>, <<"OVERDUE", "VERIFYING">>,
     <<"VERIFYING", "OPEN">>, <<"OPEN", "SETTLED">>, <<"OVERDUE", "SETTLED">>,
     <<"VERIFYING", "SETTLED">>, <<"SETTLED", "OPEN">>}

Restate(e, to) ==
    /\ Exists(e) /\ <<row[e].status, to>> \in Transitions
    /\ row[e].pot \in Card => /\ "SETTLED" \notin {row[e].status, to}
                              /\ row[e].status = "FORECAST" => ~row[e].closed
    /\ row' = [row EXCEPT ![e].status = to]
    /\ UNCHANGED payment

(* An expense alone takes another amount. *)
Amend(e, amount) ==
    /\ Exists(e) /\ row[e].kind = "expense" /\ row[e].status # "SETTLED" /\ ~row[e].closed
    /\ row' = [row EXCEPT ![e].amount = amount]
    /\ UNCHANGED payment

(* An expense leaves the closed statement for the open one. *)
Repost(e) ==
    /\ Exists(e) /\ row[e].pot \in Card
    /\ row' = [row EXCEPT ![e].closed = FALSE]
    /\ UNCHANGED payment

(* An earning takes another amount alone, an account with its group: with  *)
(* another account always, with its own when it is said again.             *)
Reassign(e, amount, a) ==
    /\ Exists(e) /\ row[e].kind = "earning" /\ row[e].status # "SETTLED"
    /\ \E S \in {{e}, Loose(e)} :
        /\ a # row[e].pot => S = Loose(e)
        /\ Become(S, [d \in Entry |-> [row[d] EXCEPT !.pot = a,
                                                    !.amount = IF d = e THEN amount ELSE @]])
    /\ UNCHANGED payment

(* A purchase goes to another account or card, without what is settled or  *)
(* closed of it; on a card nothing is overdue.                             *)
At(x, p) ==
    [x EXCEPT !.pot = p, !.closed = FALSE,
              !.status = IF @ = "OVERDUE" /\ p \in Card THEN "OPEN" ELSE @]

Move(e, p) ==
    /\ e \in Loose(e) /\ row[e].kind = "expense" /\ p # row[e].pot
    /\ Become({d \in Loose(e) : row[d].pot # p}, [d \in Entry |-> At(row[d], p)])
    /\ UNCHANGED payment

Remove(e) ==
    /\ e \in Loose(e)
    /\ Become(Loose(e), [d \in Entry |-> Absent])
    /\ UNCHANGED payment

(* Entries of accounts fall overdue. *)
FallOverdue(S) ==
    /\ \A e \in S : Exists(e) /\ row[e].pot \in Account /\ row[e].status = "OPEN"
    /\ Become(S, [e \in Entry |-> [row[e] EXCEPT !.status = "OVERDUE"]])
    /\ UNCHANGED payment

-----------------------------------------------------------------------------
(* The closed entries of a card, and what they come to. *)
ClosedRows(c) == {e \in Entry : Exists(e) /\ row[e].pot = c /\ IsClosed(row[e])}
Remaining(c)  == SumOf(ClosedRows(c), [e \in Entry |-> IF Exists(e) THEN row[e].amount ELSE 0])

(* A payment is of at most what remains, and settles the closed entries    *)
(* exactly when it leaves nothing of it.                                   *)
Pay(c, a, amount) ==
    /\ payment[c] = NoPayment
    /\ payment' = [payment EXCEPT ![c] = [account |-> a, amount |-> amount,
                                           full |-> amount = Remaining(c)]]
    /\ Become(IF amount = Remaining(c) THEN ClosedRows(c) ELSE {},
              [e \in Entry |-> [row[e] EXCEPT !.status = "SETTLED"]])

(* With a payment that left nothing goes what the statement has settled.   *)
Undo(c) ==
    /\ payment[c] # NoPayment
    /\ payment' = [payment EXCEPT ![c] = NoPayment]
    /\ Become({e \in Entry : /\ payment[c].full /\ Exists(e) /\ row[e].pot = c
                              /\ row[e].closed /\ row[e].status = "SETTLED"},
              [e \in Entry |-> [row[e] EXCEPT !.status = "OPEN"]])

(* A cycle of the card ends, before anything is paid of it. *)
Close(c, S) ==
    /\ payment[c] = NoPayment
    /\ \A e \in S : Exists(e) /\ row[e].pot = c
    /\ Become(S, [e \in Entry |-> [row[e] EXCEPT !.closed = TRUE]])
    /\ UNCHANGED payment

Change ==
    \/ \E g \in Group, kind \in {"expense", "earning"},
          status \in {"FORECAST", "OPEN", "VERIFYING"}, p \in Pot : Enter(g, kind, status, p)
    \/ \E e \in Entry :
        \/ \E to \in {"OPEN", "VERIFYING", "SETTLED"} : Restate(e, to)
        \/ \E amount \in Amount : Amend(e, amount) \/ \E a \in Account : Reassign(e, amount, a)
        \/ \E p \in Pot : Move(e, p)
        \/ Repost(e) \/ Remove(e)
    \/ \E S \in SUBSET Entry : FallOverdue(S) \/ \E c \in Card : Close(c, S)
    \/ \E c \in Card :
        \/ \E a \in Account, amount \in 1..Remaining(c) : Pay(c, a, amount)
        \/ Undo(c)

(* What leaves entries and payments as they are is no step of the book. *)
Next == <<row, payment>>' # <<row, payment>> /\ Change /\ net' = Money'

Spec == Init /\ [][Next]_<<row, payment, net>>
=============================================================================
