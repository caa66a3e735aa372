------------------------------- MODULE Entries -------------------------------
(***************************************************************************)
(* The entries of a workspace: the rows of expenses and earnings, the      *)
(* balances of the accounts and the available limits of the credit cards   *)
(* they move, at the grain of the SQL statements of ExpenseService,        *)
(* EarningService, CreditCardService and StatementPaymentService.          *)
(*                                                                         *)
(* The database runs READ COMMITTED: row, value, limit and payment are the *)
(* committed data; what a transaction locked and wrote is in its record    *)
(* tx.  Entries are numbered in the order of their uuids, the order in     *)
(* which the rows of a group are locked; accounts and cards likewise, with *)
(* the accounts first, because a payment moves its account and then its    *)
(* card.  A request that has ended is idle again: requests go on forever.  *)
(***************************************************************************)
EXTENDS Integers, FiniteSets, Cents

CONSTANTS
    NumEntries,     \* how many entries there can be at a time
    Group,          \* the groups of installments, and the entries without one
    NumAccounts,    \* how many bank accounts there are
    NumCards,       \* how many credit cards there are
    Request,        \* the requests and jobs that run at the same time
    MaxAmount,      \* the largest amount of an entry, in cents
    MaxLimit,       \* the largest total limit of a card, in cents
    Overlap         \* may a change of a limit overlap other requests, and the
                    \* reposting of an expense the payment of a statement?

Entry   == 1..NumEntries
Account == 1..NumAccounts
Card    == NumAccounts + 1..NumAccounts + NumCards
Pot     == Account \cup Card
Amount  == 1..MaxAmount

(* An installment expense and an installment earning differ in their kind; *)
(* SETTLED is PAID for the first and RECEIVED for the second.  closed says *)
(* that posted_on lies in the closed window of the card.                   *)
Status == {"FORECAST", "OPEN", "OVERDUE", "VERIFYING", "SETTLED"}
Row    == [kind : {"expense", "earning"}, status : Status, amount : Amount,
           pot : Pot, closed : BOOLEAN]
Absent == [status |-> "ABSENT"]

(* The one statement payment a card may have standing (a bound: sequences  *)
(* of statements are in CardStatements); full says that it left nothing,   *)
(* which made the statement PAID.                                          *)
MaxPayment == NumEntries * MaxAmount
Payment    == [account : Account, amount : 1..MaxPayment, full : BOOLEAN]
NoPayment  == [amount |-> 0]

ASSUME EntriesAssumption ==
    /\ NumEntries \in Nat \ {0}
    /\ Group \subseteq SUBSET Entry
    /\ \A e \in Entry : \E g \in Group : e \in g /\ \A h \in Group : e \in h => h = g
    /\ NumAccounts \in Nat \ {0}
    /\ NumCards \in Nat
    /\ MaxAmount \in Nat \ {0}
    /\ MaxLimit \in Nat \ {0}
    /\ Overlap \in BOOLEAN

VARIABLES
    row,            \* the expenses and earnings tables, committed
    value,          \* current_balance_cents or available_limit_cents, committed
    limit,          \* credit_limit_cents, committed
    payment,        \* the standing statement payment of each card, committed
    tx              \* the transaction of each request

vars == <<row, value, limit, payment, tx>>

-----------------------------------------------------------------------------
(* A transaction: the entry or card it is about, the rows it has still to  *)
(* lock (or to mark), those it holds and what it leaves there, the pots it *)
(* has still to move, by how much, what it wrote, and the payment or total *)
(* limit it leaves on its card.                                            *)
Tx == [pc : {"idle", "lock", "decide", "move", "mark", "load", "write", "commit"},
       op : {"none", "create", "status", "update", "repost", "method", "delete", "pay",
             "undo", "sweep", "limit"},
       on : Entry \cup Pot \cup {0}, todo : SUBSET Entry, held : SUBSET Entry,
       after : [Entry -> Row \cup {Absent}], pots : SUBSET Pot, delta : [Pot -> Int],
       draft : [Pot -> Int], wrote : SUBSET Pot, pay : Payment \cup {NoPayment},
       newLimit : 0..MaxLimit]

Zero == [p \in Pot |-> 0]
NoTx == [pc |-> "idle", op |-> "none", on |-> 0, todo |-> {}, held |-> {},
         after |-> [e \in Entry |-> Absent], pots |-> {}, delta |-> Zero, draft |-> Zero,
         wrote |-> {}, pay |-> NoPayment, newLimit |-> 0]

Active(r)  == tx[r].pc # "idle"
RowFree(e) == \A q \in Request : e \notin tx[q].held
PotFree(p) == \A q \in Request : p \notin tx[q].wrote

GroupOf(e) == CHOOSE g \in Group : e \in g
Exists(e)  == row[e] # Absent

(* LIMIT_CONSUMING: the statuses in which an expense of a card is taken    *)
(* from the limit and can still be given back.                             *)
Consuming(x) == x.pot \in Card /\ x.status \in {"OPEN", "OVERDUE", "VERIFYING"}

(* isClosed: a counting row in the closed window is as good as paid.       *)
IsClosed(x) == x.pot \in Card /\ x.closed /\ x.status # "FORECAST"

AmountOf == [e \in Entry |-> IF Exists(e) THEN row[e].amount ELSE 0]
Sum(S, amounts) == Total(S, amounts, MaxAmount)

(* Unless Overlap, whoever changes a limit runs alone, and no expense of a *)
(* closed window is posted anew while a statement is being paid: neither   *)
(* waits for the other, and the payment marks other rows than it counted.  *)
MayBegin(op) ==
    \/ Overlap
    \/ \A q \in Request :
        /\ tx[q].op # "limit" /\ (op = "limit" => ~Active(q))
        /\ {op, tx[q].op} # {"repost", "pay"}

Begin(r, t) ==
    /\ ~Active(r) /\ MayBegin(t.op)
    /\ tx' = [tx EXCEPT ![r] = t]
    /\ UNCHANGED <<row, value, limit, payment>>

-----------------------------------------------------------------------------
(* Cards and accounts are born with nothing spent. *)
Init ==
    /\ row = [e \in Entry |-> Absent]
    /\ limit \in [Card -> 1..MaxLimit]
    /\ value = [p \in Pot |-> IF p \in Card THEN limit[p] ELSE 0]
    /\ payment = [c \in Card |-> NoPayment]
    /\ tx = [r \in Request |-> NoTx]

(* A row gets an identifier no transaction has seen. *)
Fresh(g) ==
    \A e \in g : ~Exists(e) /\ \A q \in Request : e \notin tx[q].todo \cup tx[q].held

(* splitCents: equal parts, the first one with the remainder. *)
Split(g) ==
    {a \in [g -> Amount] : \E first \in g, part \in Amount :
        /\ \A e \in g \ {first} : a[e] = part
        /\ a[first] - part \in 0..Cardinality(g) - 1}

(* create: one row, or all the installments at once; an expense of a card  *)
(* that is not a forecast consumes the whole amount.  The window that is   *)
(* closed takes no new row.                                                *)
Create(r) ==
    \E g \in Group, kind \in {"expense", "earning"},
       status \in {"FORECAST", "OPEN", "VERIFYING"}, p \in Pot : \E amounts \in Split(g) :
        LET moves == p \in Card /\ status # "FORECAST" IN
        /\ Fresh(g)
        /\ kind = "earning" => p \in Account
        /\ Begin(r, [NoTx EXCEPT
             !.pc = IF moves THEN "move" ELSE "commit", !.op = "create", !.held = g,
             !.after = [e \in Entry |->
                          IF e \in g THEN [kind |-> kind, status |-> status,
                                           amount |-> amounts[e], pot |-> p, closed |-> FALSE]
                          ELSE Absent],
             !.pots = IF moves THEN {p} ELSE {},
             !.delta = IF moves THEN [Zero EXCEPT ![p] = -Sum(g, amounts)] ELSE Zero])

(* The operations on entry e.  changeStatus and the update of an expense   *)
(* lock its row; the others find its group without a lock and then lock    *)
(* the rows of the group that are still there.                             *)
OnEntry(r, e) ==
    \E op \in {"status", "update", "repost", "method", "delete"} :
        /\ Exists(e)
        /\ op = "repost" => row[e].kind = "expense"
        /\ Begin(r, [NoTx EXCEPT
             !.pc = "lock", !.op = op, !.on = e,
             !.todo = IF op = "status" \/ (op \in {"update", "repost"} /\ row[e].kind = "expense")
                      THEN {e} ELSE {x \in GroupOf(e) : Exists(x)}])

(* Mutant of LockRow: the rows come in whatever order the plan gives them. *)
LockRowUnordered(r, e) ==
    /\ tx[r].pc = "lock" /\ e \in tx[r].todo
    /\ Exists(e) => RowFree(e)
    /\ tx' = [tx EXCEPT ![r].todo = @ \ {e},
                        ![r].held = IF Exists(e) THEN @ \cup {e} ELSE @,
                        ![r].pc = IF tx[r].todo = {e} THEN "decide" ELSE "lock"]
    /\ UNCHANGED <<row, value, limit, payment>>

(* SELECT ... ORDER BY id FOR NO KEY UPDATE: the next row is waited for; a *)
(* row deleted in the meantime is passed over.                             *)
LockRow(r, e) ==
    /\ tx[r].pc = "lock" /\ e \in tx[r].todo
    /\ \A x \in tx[r].todo : e <= x
    /\ Exists(e) => RowFree(e)
    /\ tx' = [tx EXCEPT ![r].todo = @ \ {e},
                        ![r].held = IF Exists(e) THEN @ \cup {e} ELSE @,
                        ![r].pc = IF tx[r].todo = {e} THEN "decide" ELSE "lock"]
    /\ UNCHANGED <<row, value, limit, payment>>

(* Request r, which holds its target, leaves new[e] on each row e it holds *)
(* and moves each pot by delta.                                            *)
Deciding(r, op) == tx[r].pc = "decide" /\ tx[r].op = op /\ tx[r].on \in tx[r].held

Decide(r, new, delta) ==
    LET moved == {p \in Pot : delta[p] # 0} IN
    /\ tx' = [tx EXCEPT ![r].after = [e \in Entry |-> IF e \in tx[r].held THEN new[e] ELSE Absent],
                        ![r].delta = delta, ![r].pots = moved,
                        ![r].pc = IF moved = {} THEN "commit" ELSE "move"]
    /\ UNCHANGED <<row, value, limit, payment>>

AllowedTransitions ==
    [s \in Status |-> CASE s = "FORECAST"  -> {"OPEN"}
                        [] s = "VERIFYING" -> {"OPEN", "SETTLED"}
                        [] s = "SETTLED"   -> {"OPEN"}
                        [] OTHER           -> {"VERIFYING", "SETTLED"}]

(* changeStatus, and changeReconciliation of a forecast: settling an entry *)
(* moves the balance of its account, undoing it moves it back; confirming  *)
(* a forecast takes it from the limit of its card.  An entry of a card is  *)
(* never settled here, and a forecast of the closed window stays one.      *)
ChangeStatus(r) ==
    /\ Deciding(r, "status")
    /\ LET old  == row[tx[r].on]
           sign == IF old.kind = "earning" THEN 1 ELSE -1 IN
       \E to \in AllowedTransitions[old.status] :
        /\ old.pot \in Card => /\ "SETTLED" \notin {old.status, to}
                               /\ old.status = "FORECAST" => ~old.closed
        /\ Decide(r, [row EXCEPT ![tx[r].on].status = to],
                  [Zero EXCEPT ![old.pot] =
                     CASE to = "SETTLED"         -> sign * old.amount
                       [] old.status = "SETTLED" -> -(sign * old.amount)
                       [] old.status = "FORECAST" /\ old.pot \in Card -> -old.amount
                       [] OTHER -> 0])

(* ExpenseService.update: the row alone; a new amount moves the limit by   *)
(* the difference.                                                         *)
UpdateExpense(r) ==
    /\ Deciding(r, "update")
    /\ LET old == row[tx[r].on] IN
       /\ old.kind = "expense" /\ old.status # "SETTLED" /\ ~old.closed
       /\ \E new \in Amount \ {old.amount} :
            Decide(r, [row EXCEPT ![tx[r].on].amount = new],
                   [Zero EXCEPT ![old.pot] =
                      IF Consuming(old) THEN -(new - old.amount) ELSE 0])

(* ExpenseService.update with the date the expense already has: nothing    *)
(* that the closed window forbids has changed, whatever the status, and    *)
(* the row is posted anew, on the first day that is open.                  *)
RepostExpense(r) ==
    /\ Deciding(r, "repost")
    /\ row[tx[r].on].pot \in Card /\ row[tx[r].on].closed
    /\ Decide(r, [row EXCEPT ![tx[r].on].closed = FALSE], Zero)

(* EarningService.update: a new amount is of the row alone; an account,    *)
(* when one is given and be it the row's own, also of its siblings not yet *)
(* received.                                                               *)
UpdateEarning(r) ==
    /\ Deciding(r, "update")
    /\ LET old == row[tx[r].on] IN
       /\ old.kind = "earning" /\ old.status # "SETTLED"
       /\ \E amount \in Amount, account \in Account, given \in BOOLEAN :
            /\ ~given => account = old.pot
            /\ Decide(r, [e \in tx[r].held |->
                            IF e = tx[r].on
                            THEN [row[e] EXCEPT !.amount = amount, !.pot = account]
                            ELSE IF given /\ row[e].status # "SETTLED"
                            THEN [row[e] EXCEPT !.pot = account] ELSE row[e]],
                      Zero)

(* What the rows S, released, give back to the limit of pot p. *)
Released(S, p) == Sum({e \in S : row[e].pot = p /\ Consuming(row[e])}, AmountOf)

(* Mutant of Loose: the settled rows of the group go with the others. *)
LooseSettled(r) == {e \in tx[r].held : ~IsClosed(row[e])}

(* The rows of the group an operation on the whole of it may touch.        *)
Loose(r) == {e \in tx[r].held : row[e].status # "SETTLED" /\ ~IsClosed(row[e])}

(* Mutant of OnCard: an overdue expense arrives at the card as it is. *)
OnCardAsIs(x, c) == [x EXCEPT !.pot = c, !.closed = FALSE]

(* A row moved to card c: posted in the open window, never overdue.        *)
OnCard(x, c) ==
    [x EXCEPT !.pot = c, !.closed = FALSE,
              !.status = IF @ = "OVERDUE" THEN "OPEN" ELSE @]

(* changePaymentMethod: the unsettled rows of the group that are not at    *)
(* the destination move there; each source card gets its limit back and    *)
(* the destination card loses what is not a forecast.                      *)
ChangePaymentMethod(r) ==
    /\ Deciding(r, "method")
    /\ row[tx[r].on].kind = "expense" /\ tx[r].on \in Loose(r)
    /\ \E dest \in Pot \ {row[tx[r].on].pot} :
        LET moved   == {e \in Loose(r) : row[e].pot # dest}
            counted == {e \in moved : row[e].status # "FORECAST"} IN
        Decide(r, [e \in tx[r].held |->
                     IF e \notin moved THEN row[e]
                     ELSE IF dest \in Card THEN OnCard(row[e], dest)
                     ELSE [row[e] EXCEPT !.pot = dest, !.closed = FALSE]],
               [p \in Pot |-> Released(moved, p)
                              - (IF p = dest /\ p \in Card THEN Sum(counted, AmountOf) ELSE 0)])

(* Mutant of Delete: a forecast gives back a limit it never took. *)
DeleteGivingBackForecasts(r) ==
    /\ Deciding(r, "delete") /\ tx[r].on \in Loose(r)
    /\ Decide(r, [e \in tx[r].held |-> IF e \in Loose(r) THEN Absent ELSE row[e]],
              [p \in Pot |-> IF p \in Card THEN Sum({e \in Loose(r) : row[e].pot = p}, AmountOf)
                             ELSE 0])

(* delete: every unsettled row of the group, and the limits they consumed. *)
Delete(r) ==
    /\ Deciding(r, "delete") /\ tx[r].on \in Loose(r)
    /\ Decide(r, [e \in tx[r].held |-> IF e \in Loose(r) THEN Absent ELSE row[e]],
              [p \in Pot |-> Released(Loose(r), p)])

-----------------------------------------------------------------------------
(* Statement payments: one at a time for a card (its advisory lock). *)
CardFree(c) == \A q \in Request : ~(tx[q].op \in {"pay", "undo"} /\ tx[q].on = c)

ClosedRows(c) == {e \in Entry : Exists(e) /\ row[e].pot = c /\ IsClosed(row[e])}
Remaining(c)  == Sum(ClosedRows(c), AmountOf)

Paying(r, op, c, pay, dir) ==
    /\ CardFree(c)
    /\ Begin(r, [NoTx EXCEPT !.pc = "move", !.op = op, !.on = c, !.pay = pay,
                             !.pots = {pay.account, c},
                             !.delta = [Zero EXCEPT ![pay.account] = -(dir * pay.amount),
                                                    ![c] = dir * pay.amount]])

(* pay: at most what remains, and early payments likewise. *)
Pay(r, c) ==
    \E account \in Account, amount \in 1..MaxPayment :
        /\ payment[c] = NoPayment /\ amount <= Remaining(c)
        /\ Paying(r, "pay", c, [account |-> account, amount |-> amount,
                                full |-> amount = Remaining(c)], 1)

Undo(r, c) ==
    /\ payment[c] # NoPayment
    /\ Paying(r, "undo", c, payment[c], -1)

(* markOverdue: one UPDATE over the expenses, or the earnings, of accounts *)
(* that are past due; it begins by finding them in its snapshot.           *)
Overdue(x) == x.pot \in Account /\ x.status = "OPEN"

MarkOverdue(r) ==
    \E kind \in {"expense", "earning"} :
        \E due \in SUBSET {e \in Entry : Exists(e) /\ row[e].kind = kind /\ Overdue(row[e])} :
            /\ due # {}
            /\ Begin(r, [NoTx EXCEPT !.pc = "mark", !.op = "sweep", !.todo = due])

(* The rows markPaidByStatement, markUnpaidByStatement and markOverdue     *)
(* look for, and what they leave there.                                    *)
Matches(r, x) ==
    CASE tx[r].op = "pay"   -> x.pot = tx[r].on /\ x.closed /\ x.status \in {"OPEN", "VERIFYING"}
      [] tx[r].op = "undo"  -> x.pot = tx[r].on /\ x.closed /\ x.status = "SETTLED"
      [] tx[r].op = "sweep" -> Overdue(x)

Marked(r, x) ==
    [x EXCEPT !.status = CASE tx[r].op = "pay"   -> "SETTLED"
                           [] tx[r].op = "undo"  -> "OPEN"
                           [] tx[r].op = "sweep" -> "OVERDUE"]

(* UPDATE ... WHERE, in whatever order: a row locked by another is waited  *)
(* for, and the condition is evaluated again on what was committed.        *)
MarkRow(r, e) ==
    /\ tx[r].pc = "mark" /\ e \in tx[r].todo
    /\ Exists(e) => RowFree(e)
    /\ LET hit == Exists(e) /\ Matches(r, row[e]) IN
       tx' = [tx EXCEPT ![r].todo = @ \ {e},
                        ![r].held = IF hit THEN @ \cup {e} ELSE @,
                        ![r].after[e] = IF hit THEN Marked(r, row[e]) ELSE Absent,
                        ![r].pc = IF tx[r].todo = {e} THEN "commit" ELSE "mark"]
    /\ UNCHANGED <<row, value, limit, payment>>

-----------------------------------------------------------------------------
(* Mutant of Found: a payment that leaves something marks them as well. *)
FoundAlways(r) ==
    IF tx[r].op \in {"pay", "undo"} THEN {e \in Entry : Exists(e) /\ Matches(r, row[e])} ELSE {}

(* The stage after the last pot moved: a payment that leaves nothing, or   *)
(* its undoing, marks the rows of the statement.                           *)
Found(r) ==
    IF tx[r].op \in {"pay", "undo"} /\ tx[r].pay.full
    THEN {e \in Entry : Exists(e) /\ Matches(r, row[e])}
    ELSE {}

Moved(r, p, amount, todo) ==
    tx' = [tx EXCEPT ![r].draft[p] = amount, ![r].wrote = @ \cup {p}, ![r].pots = @ \ {p},
                     ![r].todo = todo,
                     ![r].pc = IF tx[r].pots # {p} THEN "move"
                               ELSE IF todo = {} THEN "commit" ELSE "mark"]

(* Mutant of ApplyDelta: the pot is read before its lock is granted. *)
ApplyDeltaUnlocked(r, p) ==
    /\ tx[r].pc = "move" /\ p \in tx[r].pots /\ \A q \in tx[r].pots : p <= q
    /\ Moved(r, p, value[p] + tx[r].delta[p], IF tx[r].pots = {p} THEN Found(r) ELSE {})
    /\ UNCHANGED <<row, value, limit, payment>>

(* applyBalanceDelta and applyAvailableLimitDelta, in ascending order:     *)
(* wait for the row of the account or card, read it, write it back.        *)
ApplyDelta(r, p) ==
    /\ tx[r].pc = "move" /\ p \in tx[r].pots /\ \A q \in tx[r].pots : p <= q
    /\ PotFree(p)
    /\ Moved(r, p, value[p] + tx[r].delta[p], IF tx[r].pots = {p} THEN Found(r) ELSE {})
    /\ UNCHANGED <<row, value, limit, payment>>

(* CreditCardService.update with a new total limit: loadForUpdate reads    *)
(* the card without a lock, withAdjustedLimit moves what it read, and the  *)
(* UPDATE waits for the row.                                               *)
ChangeLimit(r, c) ==
    \E new \in 1..MaxLimit :
        Begin(r, [NoTx EXCEPT !.pc = "load", !.op = "limit", !.on = c, !.newLimit = new])

LoadForUpdate(r) ==
    /\ tx[r].pc = "load"
    /\ tx' = [tx EXCEPT ![r].draft[tx[r].on] =
                          value[tx[r].on] + (tx[r].newLimit - limit[tx[r].on]),
                        ![r].pc = "write"]
    /\ UNCHANGED <<row, value, limit, payment>>

WriteLimit(r) ==
    /\ tx[r].pc = "write" /\ PotFree(tx[r].on)
    /\ tx' = [tx EXCEPT ![r].wrote = {tx[r].on}, ![r].pc = "commit"]
    /\ UNCHANGED <<row, value, limit, payment>>

(* COMMIT: what the transaction wrote becomes visible at once. *)
Commit(r) ==
    /\ tx[r].pc = "commit"
    /\ row' = [e \in Entry |-> IF e \in tx[r].held THEN tx[r].after[e] ELSE row[e]]
    /\ value' = [p \in Pot |-> IF p \in tx[r].wrote THEN tx[r].draft[p] ELSE value[p]]
    /\ limit' = IF tx[r].op = "limit" THEN [limit EXCEPT ![tx[r].on] = tx[r].newLimit] ELSE limit
    /\ payment' = CASE tx[r].op = "pay"  -> [payment EXCEPT ![tx[r].on] = tx[r].pay]
                    [] tx[r].op = "undo" -> [payment EXCEPT ![tx[r].on] = NoPayment]
                    [] OTHER -> payment
    /\ tx' = [tx EXCEPT ![r] = NoTx]

(* A refusal, an error, a deadlock PostgreSQL breaks or a lost connection: *)
(* everything the transaction did is gone.                                 *)
Abort(r) ==
    /\ Active(r)
    /\ tx' = [tx EXCEPT ![r] = NoTx]
    /\ UNCHANGED <<row, value, limit, payment>>

(* Midnight of a closing day: rows of the card fall in the closed window.  *)
(* While requests run the step is left to CardStatements (Straddle).       *)
Close(c) ==
    /\ \A r \in Request : ~Active(r)
    /\ payment[c] = NoPayment
    /\ \E S \in SUBSET {e \in Entry : Exists(e) /\ row[e].pot = c /\ ~row[e].closed} :
        /\ S # {}
        /\ row' = [e \in Entry |-> IF e \in S THEN [row[e] EXCEPT !.closed = TRUE] ELSE row[e]]
    /\ UNCHANGED <<value, limit, payment, tx>>

Arrive(r) ==
    /\ ~Active(r)
    /\ \/ Create(r) \/ MarkOverdue(r)
       \/ \E e \in Entry : OnEntry(r, e)
       \/ \E c \in Card : Pay(r, c) \/ Undo(r, c) \/ ChangeLimit(r, c)

Step(r) ==
    \/ \E e \in Entry : LockRow(r, e) \/ MarkRow(r, e)
    \/ ChangeStatus(r) \/ UpdateExpense(r) \/ RepostExpense(r) \/ UpdateEarning(r)
    \/ ChangePaymentMethod(r) \/ Delete(r)
    \/ \E p \in Pot : ApplyDelta(r, p)
    \/ LoadForUpdate(r) \/ WriteLimit(r) \/ Commit(r)

Next ==
    \/ \E r \in Request : Arrive(r) \/ Step(r) \/ Abort(r)
    \/ \E c \in Card : Close(c)

Spec == Init /\ [][Next]_vars
-----------------------------------------------------------------------------
(* The reports, on a day by which everything has happened (which months an *)
(* entry falls in is left out).                                            *)
EntriesOn(a, kind, statuses) ==
    {e \in Entry : Exists(e) /\ row[e].kind = kind /\ row[e].pot = a /\ row[e].status \in statuses}

PaidFrom(a) ==
    Total({c \in Card : payment[c] # NoPayment /\ payment[c].account = a},
          [c \in Card |-> payment[c].amount], MaxPayment)

(* The composition rule: what has moved, and what has still to move.       *)
Realized == {"SETTLED"}
Pending  == {"OPEN", "VERIFYING", "OVERDUE", "FORECAST"}

(* balanceOn: accounts open with nothing, and transfers are in             *)
(* BankTransfers.                                                          *)
RealizedBalance(a) ==
    Sum(EntriesOn(a, "earning", Realized), AmountOf)
      - Sum(EntriesOn(a, "expense", Realized), AmountOf) - PaidFrom(a)

PendingOn(a, kind) == Sum(EntriesOn(a, kind, Pending), AmountOf)

(* The carry-forward from the current balance, at the last month. *)
ForecastBalance(a) == value[a] + PendingOn(a, "earning") - PendingOn(a, "expense")

-----------------------------------------------------------------------------
(* Properties.                                                             *)

(* INV-0012-08: an expense of a card is never overdue, although the sweep  *)
(* may find it while it moves there.                                       *)
CardEntriesFit ==
    \A e \in Entry : Exists(e) /\ row[e].pot \in Card =>
        row[e].kind = "expense" /\ row[e].status # "OVERDUE"

(* Every variable keeps its type, and a row the status its account or card *)
(* admits.                                                                 *)
TypeOK ==
    /\ row \in [Entry -> Row \cup {Absent}]
    /\ CardEntriesFit
    /\ value \in [Pot -> Int]
    /\ limit \in [Card -> 1..MaxLimit]
    /\ payment \in [Card -> Payment \cup {NoPayment}]
    /\ tx \in [Request -> Tx]

(* INV-0012-04, INV-0014-03, INV-0015-03: the balance of an account is the *)
(* realized balance of the reports, entry by entry, whatever is confirmed, *)
(* undone, moved to another account, deleted, swept or paid with a         *)
(* statement at the same time; and once everything pending has moved, the  *)
(* forecast shows every entry exactly once (INV-0015-02).                  *)
BalanceKept ==
    \A a \in Account :
        /\ value[a] = RealizedBalance(a)
        /\ ForecastBalance(a) = Sum(EntriesOn(a, "earning", Status), AmountOf)
             - Sum(EntriesOn(a, "expense", Status), AmountOf) - PaidFrom(a)

(* INV-0012-03, INV-0012-15 and the comment of withAdjustedLimit ("what    *)
(* does not change is how much has been spent"): the available limit of a  *)
(* card is its total minus its entries that are not forecasts plus what    *)
(* was paid of them.                                                       *)
SpentKept ==
    \A c \in Card :
        value[c] = limit[c] + payment[c].amount
          - Sum({e \in Entry : Exists(e) /\ row[e].pot = c /\ row[e].status # "FORECAST"}, AmountOf)

(* INV-0012-11, INV-0012-13, INV-0014-07 and INV-0014-10: an entry that is *)
(* settled, or counts in a closed statement, never changes amount, account *)
(* or card and is never deleted, not even with the rest of its group.  It  *)
(* may leave the closed statement by being posted anew (RepostExpense):    *)
(* that the totals of statements do not stand still then is said by        *)
(* ClosedWindowFrozen of CardStatements.                                   *)
SettledFrozen ==
    [][\A e \in Entry :
         Exists(e) /\ (row[e].status = "SETTLED" \/ IsClosed(row[e])) =>
            /\ row'[e] # Absent
            /\ row'[e] = [row[e] EXCEPT !.status = row'[e].status,
                                        !.closed = row'[e].closed]]_row

(* Request r waits for a row, an account or a card that q holds. *)
WaitsFor(r, q) ==
    \/ /\ tx[r].pc = "lock"
       /\ \E e \in tx[r].todo : e \in tx[q].held /\ Exists(e) /\ \A x \in tx[r].todo : e <= x
    \/ tx[r].pc = "mark" /\ \E e \in tx[r].todo : e \in tx[q].held /\ Exists(e)
    \/ /\ tx[r].pc = "move"
       /\ \E p \in tx[r].pots : p \in tx[q].wrote /\ \A o \in tx[r].pots : p <= o
    \/ tx[r].pc = "write" /\ tx[r].on \in tx[q].wrote

(* "never block one another in crossed order" (delete, changePaymentMethod *)
(* and lockGroup): requests that wait in a circle, for rows, accounts and  *)
(* cards, always include one that marks many rows at once, which takes     *)
(* them in no order (the payment of a statement, its undoing, the sweep).  *)
CirclesHaveAMarker ==
    \A S \in (SUBSET Request) \ {{}} :
        (\A r \in S : \E q \in S : WaitsFor(r, q)) => \E r \in S : tx[r].pc = "mark"

(* Whatever the requests interleave, their commits read as a book in which *)
(* each acts at one moment: on the whole group as it is then, and with a   *)
(* payment on the whole statement, with the money that goes with it.       *)
Book == INSTANCE EntryBook WITH
            net <- [p \in Pot |-> IF p \in Card THEN value[p] - limit[p] ELSE value[p]]
ImplementsBook == Book!Spec
=============================================================================
