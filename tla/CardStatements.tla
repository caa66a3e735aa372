--------------------------- MODULE CardStatements ---------------------------
(***************************************************************************)
(* The statements of one credit card: StatementService (closing),          *)
(* StatementPaymentService, CreditCardRefundService and the operations of  *)
(* ExpenseService that touch a card, with the money they move.             *)
(*                                                                         *)
(* A date is the billing cycle it falls in: cycle k is followed by cycle   *)
(* k + 1 without a gap, today is in cycle now, and the cycles before now   *)
(* are closed (closedThrough), recorded or not.                            *)
(*                                                                         *)
(* Whatever runs under the advisory lock of the card commits in one step.  *)
(* The operations of ExpenseService do not take that lock: each reads the  *)
(* closed window, under the row lock of its expense, in a step, and        *)
(* commits in a later one.  The cycle may end in between only if Straddle. *)
(* An update that repeats the purchase date of an expense in the closed    *)
(* window posts it again, in the open one, only if Repost.                 *)
(***************************************************************************)
EXTENDS Integers, FiniteSets, Cents

CONSTANTS
    NumCycles,      \* how many cycles the calendar has
    Expense, Refund, Payment,   \* identifiers of rows
    MaxAmount,      \* the largest amount, in cents
    CreditLimit,    \* credit_limit_cents of the card
    Opening,        \* the opening balance of the paying account
    Straddle,       \* may a request be in progress while a cycle ends?
    Repost          \* may an update repeat the date of a closed expense?

Cycle  == 1..NumCycles
Amount == 1..MaxAmount

ASSUME CardStatementsAssumption ==
    /\ NumCycles \in Nat \ {0}
    /\ IsFiniteSet(Expense) /\ IsFiniteSet(Refund) /\ IsFiniteSet(Payment)
    /\ MaxAmount \in Nat \ {0}
    /\ CreditLimit \in Nat /\ Opening \in Int
    /\ Straddle \in BOOLEAN /\ Repost \in BOOLEAN

VARIABLES
    now,            \* the cycle of today
    expense,        \* the rows of expenses on this card
    pending,        \* what the operation in progress on each expense will write
    refund,         \* the rows of credit_card_refunds
    payment,        \* the rows of credit_card_statement_payments
    status,         \* of the statement of each cycle, OPEN when not recorded
    previousBalance,
    available,      \* available_limit_cents of the card
    balance         \* current_balance_cents of the paying account

entries    == <<expense, pending, refund>>
statements == <<status, previousBalance>>
money      == <<available, balance>>
vars       == <<now, entries, payment, statements, money>>

Counted        == {"OPEN", "VERIFYING", "PAID"}
LimitConsuming == {"OPEN", "VERIFYING"}

(* The rows that are not there are worth nothing. *)
NoExpense == [status |-> "NONE", postedOn |-> 0, amount |-> 0]
NoRefund  == [postedOn |-> 0, amount |-> 0]
NoPayment == [statement |-> 0, paidOn |-> 0, amount |-> 0]
Idle      == [row |-> NoExpense, delta |-> 0, active |-> FALSE]

ExpenseRow == [status : Counted \cup {"FORECAST"}, postedOn : Cycle, amount : Amount]
RefundRow  == [postedOn : Cycle, amount : Amount]
PaymentRow == [statement : 0..NumCycles, paidOn : Cycle, amount : Amount]
Change     == [row : ExpenseRow \cup {NoExpense}, delta : Int, active : {TRUE}]

-----------------------------------------------------------------------------
(* The values of a statement, derived from its entries. *)

(* What the rows S of a table are worth together. *)
Worth(S, table) == Total(S, [x \in S |-> table[x].amount], MaxAmount)

PostedIn(k)   == {e \in Expense : expense[e].status \in Counted /\ expense[e].postedOn = k}
RefundedIn(k) == {f \in Refund : refund[f].postedOn = k}
PaymentsOf(k) == {p \in Payment : payment[p] # NoPayment /\ payment[p].statement = k}

(* statement_id null: an early payment, of the open statement. *)
EarlyPayments == PaymentsOf(0)

TotalOf(k)     == Worth(PostedIn(k), expense) - Worth(RefundedIn(k), refund)
RemainingOf(k) == TotalOf(k) + previousBalance[k] - Worth(PaymentsOf(k), payment)

Recorded(k) == status[k] # "OPEN"
IsLast(k)   == Recorded(k) /\ \A j \in Cycle : j > k => ~Recorded(j)

(* Mutants of IsCurrent: a statement still to be paid is recorded again, or *)
(* the next one waits until it is paid.                                    *)
IsCurrentUnpaid(k) ==
    status[k] \in {"OPEN", "CLOSED"} /\ \A j \in Cycle : j < k => Recorded(j)
IsCurrentSettled(k) ==
    ~Recorded(k) /\ \A j \in Cycle : j < k => status[j] \in {"PAID", "ROLLED_OVER"}

(* The cycle after the last recorded statement: the open statement, once   *)
(* every closing that is due has been recorded.                            *)
IsCurrent(k) == ~Recorded(k) /\ \A j \in Cycle : j < k => Recorded(j)

(* Mutant of Chain: the rolled over statements are forgotten. *)
ChainOfOne(k, st) == {k}

(* The cycles settled with statement k under the statuses st: its own and  *)
(* the rolled over ones right before it.                                   *)
Chain(k, st) == {j \in 1..k : \A i \in j..(k - 1) : st[i] = "ROLLED_OVER"}

(* markPaidByStatement and markUnpaidByStatement are UPDATEs: they wait    *)
(* for the row locks of the expenses they match.                           *)
Matching(window, from) ==
    {e \in Expense : expense[e].status \in from /\ expense[e].postedOn \in window}
Mark(window, from, to) ==
    /\ \A e \in Matching(window, from) : ~pending[e].active
    /\ expense' = [e \in Expense |-> IF e \in Matching(window, from)
                                     THEN [expense[e] EXCEPT !.status = to]
                                     ELSE expense[e]]
    /\ UNCHANGED pending
MarkPaid(window)   == Mark(window, LimitConsuming, "PAID")
MarkUnpaid(window) == Mark(window, {"PAID"}, "OPEN")

(* The values of the list of statements (buildViews).  The current one     *)
(* shows the early payments, and what remains of the last one while that   *)
(* is CLOSED.                                                              *)
ShownPaid(k) == Worth(IF IsCurrent(k) THEN EarlyPayments ELSE PaymentsOf(k), payment)

ShownPrevious(k) ==
    IF IsCurrent(k) /\ k > 1 /\ status[k - 1] = "CLOSED" THEN RemainingOf(k - 1)
    ELSE previousBalance[k]

AmountDue(k)      == TotalOf(k) + ShownPrevious(k)
ShownRemaining(k) == AmountDue(k) - ShownPaid(k)

(* The statements a report looks at: the recorded and the current one      *)
(* (list), and the projected ones that close by the last day asked for.    *)
ListedToday == {k \in Cycle : Recorded(k) \/ IsCurrent(k)}
Ledger(d)   == ListedToday \cup 1..d

(* What a statement that is not recorded will still ask for: its forecasts *)
(* too, and not the balance of the one before.                             *)
Forecasts       == {e \in Expense : expense[e].status = "FORECAST"}
ForecastsIn(k)  == Worth({e \in Forecasts : expense[e].postedOn = k}, expense)
ProjectedDue(k) == TotalOf(k) - ShownPaid(k) + ForecastsIn(k)

Credit(k) == IF status[k] = "PAID" /\ RemainingOf(k) < 0 THEN RemainingOf(k) ELSE 0

(* Mutant of CardDebtOn: the credit of every paid statement is counted. *)
CardDebtOnEveryCredit(d) ==
    SumOf({k \in Ledger(d) : status[k] = "CLOSED"}, [k \in Cycle |-> RemainingOf(k)])
      + SumOf({k \in Ledger(d) : ~Recorded(k) /\ k <= d}, [k \in Cycle |-> ProjectedDue(k)])
      + SumOf(Ledger(d), [k \in Cycle |-> Credit(k)])

(* cardDebtOn, for a date on which the statements up to d are due.         *)
CardDebtOn(d) ==
    SumOf({k \in Ledger(d) : status[k] = "CLOSED"}, [k \in Cycle |-> RemainingOf(k)])
      + SumOf({k \in Ledger(d) : ~Recorded(k) /\ k <= d}, [k \in Cycle |-> ProjectedDue(k)])
      + SumOf({k \in Ledger(d) : IsLast(k)}, [k \in Cycle |-> Credit(k)])

(* The balance report: a past date shows what had left the account by      *)
(* then, a future one what is left once the debt of the card is paid.      *)
RealizedOn(d)   == Opening - Worth({p \in Payment : payment[p].paidOn <= d}, payment)
Consolidated(d) == balance - CardDebtOn(d)

-----------------------------------------------------------------------------
Init ==
    /\ now = 1
    /\ expense = [e \in Expense |-> NoExpense]
    /\ pending = [e \in Expense |-> Idle]
    /\ refund = [f \in Refund |-> NoRefund]
    /\ payment = [p \in Payment |-> NoPayment]
    /\ status = [k \in Cycle |-> "OPEN"]
    /\ previousBalance = [k \in Cycle |-> 0]
    /\ available = CreditLimit
    /\ balance = Opening

(* Midnight of a closing day.  NumCycles bounds the calendar. *)
EndCycle ==
    /\ now < NumCycles
    /\ Straddle \/ \A e \in Expense : ~pending[e].active
    /\ now' = now + 1
    /\ UNCHANGED <<entries, payment, statements, money>>

(* Mutant of Rolled: only debt is carried, a credit is lost.               *)
RolledDebtOnly(k) ==
    IF k > 1 /\ status[k - 1] = "CLOSED" THEN RemainingOf(k - 1) ELSE 0

(* The balance cycle k receives: a debt left on the last statement, which  *)
(* rolls over, or its credit.                                              *)
Rolled(k) ==
    IF k = 1 \/ status[k - 1] = "ROLLED_OVER" THEN 0
    ELSE IF status[k - 1] = "CLOSED" \/ RemainingOf(k - 1) < 0 THEN RemainingOf(k - 1)
    ELSE 0

(* register: one turn of closeCard's loop, for the next cycle that has     *)
(* ended.  The turns of a call commit together; the requests that look at  *)
(* the statements begin with a call, hence never in between (CaughtUp).    *)
Register(k) ==
    /\ k < now /\ IsCurrent(k)
    /\ LET paidInFull == TotalOf(k) + Rolled(k) - Worth(EarlyPayments, payment) <= 0
           rolledOver == [j \in Cycle |-> IF j = k - 1 /\ status[j] = "CLOSED"
                                          THEN "ROLLED_OVER" ELSE status[j]]
       IN  /\ status' = [rolledOver EXCEPT ![k] = IF paidInFull THEN "PAID" ELSE "CLOSED"]
           /\ previousBalance' = [previousBalance EXCEPT ![k] = Rolled(k)]
           /\ payment' = [p \in Payment |-> IF p \in EarlyPayments
                                            THEN [payment[p] EXCEPT !.statement = k]
                                            ELSE payment[p]]
           /\ IF paidInFull THEN MarkPaid(Chain(k, rolledOver))
                            ELSE UNCHANGED <<expense, pending>>
           /\ UNCHANGED <<now, refund, money>>

(* pay, payEarly, undo and undoEarly run closeDue, in a transaction of its *)
(* own, before they take the lock of the card.                             *)
CaughtUp == Straddle \/ \A k \in Cycle : k < now => Recorded(k)

(* record and revert: the payment, the account and the limit, all at once. *)
Record(p, row) ==
    /\ payment[p] = NoPayment
    /\ payment' = [payment EXCEPT ![p] = row]
    /\ balance' = balance - row.amount
    /\ available' = available + row.amount

(* Mutant of Revert: the payment is emptied, not deleted. *)
RevertEmptying(p) ==
    /\ payment' = [payment EXCEPT ![p].amount = 0]
    /\ balance' = balance + payment[p].amount
    /\ available' = available - payment[p].amount

Revert(p) ==
    /\ payment' = [payment EXCEPT ![p] = NoPayment]
    /\ balance' = balance + payment[p].amount
    /\ available' = available - payment[p].amount

(* The payments of a statement are undone from the last one.  Which of two *)
(* payments of the same cycle is the last is left open.                    *)
LastPayment(p) ==
    \A q \in PaymentsOf(payment[p].statement) : payment[q].paidOn <= payment[p].paidOn

Pay(k, p) ==
    /\ CaughtUp /\ status[k] = "CLOSED"
    /\ \E a \in Amount, day \in (k + 1)..now :
        /\ a <= RemainingOf(k)
        /\ Record(p, [statement |-> k, paidOn |-> day, amount |-> a])
        /\ IF a = RemainingOf(k)
           THEN /\ status' = [status EXCEPT ![k] = "PAID"]
                /\ MarkPaid(Chain(k, status))
           ELSE UNCHANGED <<status, expense, pending>>
    /\ UNCHANGED <<now, refund, previousBalance>>

PayEarly(k, p) ==
    /\ CaughtUp /\ IsCurrent(k)
    /\ \A j \in Cycle : status[j] # "CLOSED"
    /\ \E a \in Amount, day \in k..now :
        /\ a <= TotalOf(k) - Worth(EarlyPayments, payment)
        /\ Record(p, [statement |-> 0, paidOn |-> day, amount |-> a])
    /\ UNCHANGED <<now, entries, statements>>

(* Mutant of Undo: the statement stays paid. *)
UndoKeepingStatus(k, p) ==
    /\ CaughtUp /\ IsLast(k)
    /\ p \in PaymentsOf(k) /\ LastPayment(p)
    /\ Revert(p)
    /\ UNCHANGED <<now, entries, statements>>

Undo(k, p) ==
    /\ CaughtUp /\ IsLast(k)
    /\ p \in PaymentsOf(k) /\ LastPayment(p)
    /\ Revert(p)
    /\ IF status[k] = "PAID" /\ RemainingOf(k) + payment[p].amount > 0
       THEN /\ status' = [status EXCEPT ![k] = "CLOSED"]
            /\ MarkUnpaid(Chain(k, status))
       ELSE UNCHANGED <<status, expense, pending>>
    /\ UNCHANGED <<now, refund, previousBalance>>

UndoEarly(p) ==
    /\ CaughtUp
    /\ p \in EarlyPayments /\ LastPayment(p)
    /\ Revert(p)
    /\ UNCHANGED <<now, entries, statements>>

(* A refund never falls in the closed window and never leaves it.  The     *)
(* purchase it may name only limits its amount, so it is left out.         *)
CreateRefund(f) ==
    /\ refund[f] = NoRefund
    /\ \E k \in now..NumCycles, a \in Amount :
        /\ refund' = [refund EXCEPT ![f] = [postedOn |-> k, amount |-> a]]
        /\ available' = available + a
    /\ UNCHANGED <<now, expense, pending, payment, statements, balance>>

DeleteRefund(f) ==
    /\ refund[f] # NoRefund /\ refund[f].postedOn >= now
    /\ refund' = [refund EXCEPT ![f] = NoRefund]
    /\ available' = available - refund[f].amount
    /\ UNCHANGED <<now, expense, pending, payment, statements, balance>>

-----------------------------------------------------------------------------
(* Mutant of InClosedWindow: the last closed cycle is taken for open. *)
InClosedWindowLate(row) == row.postedOn < now - 1

(* The operations on an expense.  Each locks the row, decides under the    *)
(* closed window it reads then, and leaves in pending the row it is going  *)
(* to write and what it adds to the available limit.                       *)
InClosedWindow(row) == row.postedOn < now

Begin(e, row, delta) ==
    /\ ~pending[e].active
    /\ pending' = [pending EXCEPT ![e] = [row |-> row, delta |-> delta, active |-> TRUE]]
    /\ UNCHANGED <<now, expense, refund, payment, statements, money>>

(* create with this card, or changePaymentMethod to it: the posting date,  *)
(* informed or by default, is after the closed window.                     *)
Arrive(e) ==
    /\ expense[e] = NoExpense
    /\ \E row \in ExpenseRow :
        /\ row.status # "PAID" /\ ~InClosedWindow(row)
        /\ Begin(e, row, IF row.status = "FORECAST" THEN 0 ELSE -row.amount)

(* changeStatus FORECAST -> OPEN, or changeReconciliation of a forecast.   *)
Confirm(e) ==
    /\ expense[e].status = "FORECAST" /\ ~InClosedWindow(expense[e])
    /\ Begin(e, [expense[e] EXCEPT !.status = "OPEN"], -expense[e].amount)

(* changeStatus between OPEN and VERIFYING, in any window.                 *)
Verify(e) ==
    /\ expense[e].status \in LimitConsuming
    /\ \E st \in LimitConsuming \ {expense[e].status} :
        Begin(e, [expense[e] EXCEPT !.status = st], 0)

(* update of the amount or of a date.  In the closed window no value may   *)
(* differ; but the purchase date, even the one the row has, computes the   *)
(* posting date again, and the default is the first day that is open.      *)
Update(e) ==
    /\ expense[e] # NoExpense
    /\ \E a \in Amount, k \in now..NumCycles :
        /\ expense[e].status = "PAID" => a = expense[e].amount
        /\ InClosedWindow(expense[e]) => Repost /\ k = now /\ a = expense[e].amount
        /\ Begin(e, [expense[e] EXCEPT !.amount = a, !.postedOn = k],
                 IF expense[e].status \in LimitConsuming THEN expense[e].amount - a ELSE 0)

(* update of another occurrence of its series, with scope=following: a     *)
(* forecast takes the new amount wherever it is posted.                    *)
ApplyModelToFollowing(e) ==
    /\ expense[e].status = "FORECAST"
    /\ \E a \in Amount : Begin(e, [expense[e] EXCEPT !.amount = a], 0)

(* Mutant of Leave: only an OPEN expense gives its limit back. *)
LeaveOpenOnly(e) ==
    /\ expense[e].status \in {"FORECAST"} \cup LimitConsuming
    /\ expense[e].status # "FORECAST" => ~InClosedWindow(expense[e])
    /\ Begin(e, NoExpense, IF expense[e].status = "OPEN" THEN expense[e].amount ELSE 0)

(* delete, or changePaymentMethod to an account or another card.           *)
Leave(e) ==
    /\ expense[e].status \in {"FORECAST"} \cup LimitConsuming
    /\ expense[e].status # "FORECAST" => ~InClosedWindow(expense[e])
    /\ Begin(e, NoExpense,
             IF expense[e].status \in LimitConsuming THEN expense[e].amount ELSE 0)

CommitExpense(e) ==
    /\ pending[e].active
    /\ expense' = [expense EXCEPT ![e] = pending[e].row]
    /\ available' = available + pending[e].delta
    /\ pending' = [pending EXCEPT ![e] = Idle]
    /\ UNCHANGED <<now, refund, payment, statements, balance>>

RollbackExpense(e) ==
    /\ pending[e].active
    /\ pending' = [pending EXCEPT ![e] = Idle]
    /\ UNCHANGED <<now, expense, refund, payment, statements, money>>

ExpenseStep(e) ==
    Arrive(e) \/ Confirm(e) \/ Verify(e) \/ Update(e) \/ ApplyModelToFollowing(e)
    \/ Leave(e) \/ CommitExpense(e) \/ RollbackExpense(e)

Next ==
    \/ EndCycle
    \/ \E k \in Cycle : Register(k)
    \/ \E k \in Cycle, p \in Payment : Pay(k, p) \/ PayEarly(k, p) \/ Undo(k, p)
    \/ \E p \in Payment : UndoEarly(p)
    \/ \E f \in Refund : CreateRefund(f) \/ DeleteRefund(f)
    \/ \E e \in Expense : ExpenseStep(e)

Spec == Init /\ [][Next]_vars

(* The daily job closes what is due and waits for the rows it marks in the *)
(* lock queues of PostgreSQL; a request in progress ends.                  *)
FairSpec ==
    /\ Spec
    /\ \A k \in Cycle : SF_vars(Register(k))
    /\ \A e \in Expense : WF_vars(CommitExpense(e) \/ RollbackExpense(e))
-----------------------------------------------------------------------------
(* Properties. *)

(* Every variable keeps its type. *)
TypeOK ==
    /\ now \in Cycle
    /\ expense \in [Expense -> ExpenseRow \cup {NoExpense}]
    /\ pending \in [Expense -> Change \cup {Idle}]
    /\ refund \in [Refund -> RefundRow \cup {NoRefund}]
    /\ payment \in [Payment -> PaymentRow \cup {NoPayment}]
    /\ status \in [Cycle -> {"OPEN", "CLOSED", "PAID", "ROLLED_OVER"}]
    /\ previousBalance \in [Cycle -> Int]
    /\ available \in Int
    /\ balance \in Int

Spent == {e \in Expense : expense[e].status \in Counted}

(* INV-0012-03, INV-0013-06, INV-0013-11: the available limit is the limit *)
(* minus the confirmed expenses plus refunds and payments, and the account *)
(* has paid exactly the payments that stand, whatever was paid, undone,    *)
(* closed, confirmed or deleted, and in whatever order.                    *)
MoneyConserved ==
    /\ available = CreditLimit - Worth(Spent, expense) + Worth(Refund, refund)
                               + Worth(Payment, payment)
    /\ balance = Opening - Worth(Payment, payment)

(* INV-0013-09, INV-0013-10: debt is neither lost nor counted twice: what  *)
(* remains of the last recorded statement is all that was ever charged in  *)
(* the recorded cycles minus all that was ever paid for them.              *)
DebtCarried ==
    \A k \in Cycle : IsLast(k) =>
        LET settled == {e \in Spent : expense[e].postedOn \in 1..k}
            returned == {f \in Refund : refund[f].postedOn \in 1..k}
            paid == {p \in Payment : payment[p].statement \in 1..k}
        IN  RemainingOf(k) = Worth(settled, expense) - Worth(returned, refund)
                                                     - Worth(paid, payment)

(* A recorded statement is PAID exactly when nothing remains of it; only   *)
(* the last one may be CLOSED, and what remains of a rolled over one is    *)
(* all in the next (INV-0013-10).                                          *)
SettledIffPaid ==
    \A k \in Cycle : Recorded(k) =>
        /\ status[k] = "PAID" <=> RemainingOf(k) <= 0
        /\ status[k] = "CLOSED" => IsLast(k)
        /\ status[k] = "ROLLED_OVER" =>
             k < NumCycles /\ Recorded(k + 1) /\ previousBalance[k + 1] = RemainingOf(k)

(* The debt that holds the expenses of cycle j has been settled: it rolled *)
(* over, cycle by cycle, to a statement that is paid.                      *)
Settled(j) ==
    \E k \in j..NumCycles :
        status[k] = "PAID" /\ \A i \in j..(k - 1) : status[i] = "ROLLED_OVER"

(* Spec 0013, Pagamento: an expense is PAID exactly when the debt that     *)
(* contains it is settled: closing, paying and undoing keep the expenses   *)
(* of the whole chain in step with the statement at its end.               *)
PaidWithDebt ==
    \A e \in Spent : expense[e].status = "PAID" <=> Settled(expense[e].postedOn)

(* INV-0015-06: the debt a report shows is the money owed, no part of it   *)
(* counted twice or lost: what is left in the end is what was there minus  *)
(* every purchase and forecast to come, whatever was paid early or late,   *)
(* undone or rolled over; the current debt is what the current statement   *)
(* shows, although the two put the balance of a CLOSED one in different    *)
(* places; and the past point of today agrees with the account.            *)
ReportedDebt ==
    (\A k \in Cycle : k < now => Recorded(k)) =>
        /\ Consolidated(NumCycles) =
             Opening - Worth(Spent, expense) + Worth(Refund, refund)
                     - SumOf(now..NumCycles, [k \in Cycle |-> ForecastsIn(k)])
        /\ \A k \in Cycle : IsCurrent(k) =>
             CardDebtOn(k) = ShownRemaining(k) + ForecastsIn(k)
                               + (IF k = 1 THEN 0 ELSE Credit(k - 1))
        /\ RealizedOn(now) = balance

(* INV-0013-05: no operation changes the total of a closed window, whether *)
(* or not its statement has been recorded.                                 *)
ClosedWindowFrozen ==
    [][\A k \in Cycle : k < now => TotalOf(k)' = TotalOf(k)]_vars

(* INV-0013-07: a recorded cycle is never recorded again: its statement    *)
(* keeps the balance it received, and what it rolled over stays rolled.    *)
RecordedOnce ==
    [][\A k \in Cycle : Recorded(k) =>
         /\ status'[k] # "OPEN"
         /\ previousBalance'[k] = previousBalance[k]
         /\ status[k] = "ROLLED_OVER" => status'[k] = "ROLLED_OVER"]_vars

(* INV-0013-08: every cycle that ends is recorded, debt or no debt, even   *)
(* if payments and expense operations never stop.  (Days only go forward,  *)
(* and what is recorded stays so: this is now > k ~> Recorded(k) for each  *)
(* k.)                                                                     *)
EveryCycleRecorded == []<>(\A k \in Cycle : now > k => Recorded(k))
=============================================================================
