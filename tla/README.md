# Formal model of finances-control-backend

TLA+ modules of the parts of the backend where money and permissions can go wrong,
the TLC configurations that check them on small instances, and TLAPS proofs of all their
safety properties for every instance. The reference is the code; paths below are
relative to the repository (`src/src/...`), invariants (`INV-...`) are those of `specs/`.

## 1. The system

An Express service over PostgreSQL. Every service method runs one transaction
(`TransactionRunner.run` or `dataSource.transaction`) at READ COMMITTED, and protects what
it reads by row locks, by an advisory lock per card, or not at all. Services call each
other inside the same transaction; nothing else is shared between requests.

| Component | State | Operations | Correct when |
| --- | --- | --- | --- |
| Bank accounts (`accounts/bank-account.service.ts`) | balance, archived | applyBalanceDelta, setArchived, edits | balance = opening + what was received − what was paid |
| Bank transfers (`accounts/bank-transfer.service.ts`) | rows SCHEDULED / COMPLETED | create, changeStatus, update, delete | both accounts move, or none; no deadlock; completed ones frozen |
| Credit cards (`accounts/credit-card.service.ts`) | limit, available limit, closing and due day | create, update, applyAvailableLimitDelta | available = limit − what is spent |
| Billing cycle (`accounts/billing-cycle.ts`, `statements/statement-chain.ts`) | none | cycleFor, firstCycle, nextCycle | cycles are contiguous, due after closing |
| Expenses (`expenses/expense.service.ts`) | rows FORECAST, OPEN, OVERDUE, VERIFYING, PAID | create, status, reconciliation, update, payment method, delete, overdue sweep | money moves once per expense; nothing in a closed window |
| Earnings (`earnings/earning.service.ts`) | rows FORECAST, OPEN, OVERDUE, VERIFYING, RECEIVED | the same, without cards | money moves once per earning |
| Recurrences (`expenses/`, `earnings/*-recurrence.service.ts`) | series and their occurrences | extend, promote, end, delete | every month has its occurrence, none after the end |
| Statements (`statements/statement.service.ts`) | rows CLOSED, PAID, ROLLED_OVER | closeDue / register | each cycle recorded once; debt carried once |
| Payments (`statements/statement-payment.service.ts`) | rows | pay, payEarly, undo, undoEarly | account, limit, statement and expenses move together |
| Refunds (`statements/credit-card-refund.service.ts`) | rows | create, update, delete | limit given back once; not above the expense |
| Closed window (`statements/statement-period-guard.service.ts`) | none | closedThrough | what is closed stays as it is |
| Members (`identity/user.service.ts`) | membership, platform admins | grantProfile, revokeProfile | a workspace with members has an ADMIN |
| Provisioning (`identity/user-provisioning.service.ts`) | users, by uid and e-mail | provision, bootstrap | the first requests of a user are all served, one row per user |
| Events (`platform/events/`) | events of the open transaction | run, publish, dispatch | dispatched only after the commit |
| Jobs (`platform/jobs/`) | pg-boss queues | register, schedule, enqueue, start, stop | what fails is tried again, nothing runs twice |
| Reporting (`reporting/`) | none, reads only | balance, debt, cash flow | the parts add up |
| Initial load (`load/`) | CSV files | validate, plan, write | a load run again creates nothing twice |

`PROJECT.json` lists these with their sources and status, and the catalogues, HTTP
plumbing, health, avatars, configuration and migrations, which keep no state that an
interleaving could break.

How they meet: expenses, refunds and payments move a card's available limit
(`applyAvailableLimitDelta`); payments, account expenses, earnings and transfers move a
balance (`applyBalanceDelta`); closing and paying change the status of expenses
(`markPaidByStatement`); expenses ask statements which window is closed (`closedThrough`);
the daily jobs call the same services as the requests; the load (`load/write.ts`) calls their
`create` and `setArchived`; the reports read what all of them committed.

What is hard: interleavings of the SQL statements of concurrent requests, decisions made
on rows read without a lock, the order in which locks are taken, rollbacks in the middle
of a movement, midnight passing during a request, long histories of closings, partial
payments and undone payments, requests and jobs that record the same thing, days that a
month does not have, and a load that stops half way. The
hazards in `PROJECT.json` give each one its line and the property that covers it.

## 2. The modules

### Cents, CentsLemmas

`Total(S, amount, max)` is the sum of the amounts of the rows in `S`: the `reduce` sums of
`totalOf`. It is the number of cents, as a cardinality, so that it needs no recursion and
facts about it can be proved: `CentsLemmas` proves what happens when one row changes.
`SumOf(S, debt)` sums debts, which may be credits, with the fold of the community modules.
`CentsLemmas` justifies it without an induction over data: among the sets of rows for which a
fact about the fold failed there would be a smallest one, and the fold of that one is the fold
of a smaller set and one row.

### BankLedger, BankTransfers, MCBankTransfers, BankTransfersProofs

`BankTransfers` is `BankTransferService` at the grain of its SQL statements. A request is
one transaction, a record in `tx`: it begins (`Create`, `OnTransfer`), waits for the row of
its transfer (`ChangeStatus`, `Update`, `Delete`, or `NotFound`), reads the two accounts
without a lock (`AssertFromUsable`, `AssertToUsable`), inserts, moves the balances one
account at a time in ascending order (`ApplyBalanceDelta`: wait for the row, read, write),
commits, and dispatches its event. What it writes stays in its record until `Commit`, which
publishes everything at once and releases its locks. `Abort` may happen at any statement,
`LoseEvents` between the commit and the dispatch. `SetArchived` may happen at any time.

`BankLedger` is the promise: each transfer is entered, completed, undone, edited or removed
in one step that moves both accounts. `BankTransfers` implements it with the identity on
`balance`, `archived` and `row` (`ImplementsLedger`).

Left out: description, notes and dates (no rule depends on them), workspaces (every query
is inside one), accounts that do not exist (refused as archived ones are).

### CardStatements, MCCardStatements, CardStatementsProofs

One card, its statements, expenses, refunds and payments, and the account that pays. A date
is the number of its cycle; `now` is the cycle of today, and the cycles before it are closed
(`closedThrough`). Whatever holds the advisory lock of the card (`Register`, `Pay`,
`PayEarly`, `Undo`, `UndoEarly`, `CreateRefund`, `DeleteRefund`) is one step. The operations
of `ExpenseService` do not take that lock: each is a step that reads the row, under its row
lock, and the window (`Arrive`, `Confirm`, `Verify`, `Update`, `ApplyModelToFollowing`,
`Leave`), and a later one that commits or rolls back. Updates by a statement (`Mark`) wait
for those row locks. `Rolled` and `Register` are the roll-over rules of `register`, `Chain`
is `chainStart`.

| Variable | Code |
| --- | --- |
| `expense`, `refund`, `payment` | tables `expenses`, `credit_card_refunds`, `credit_card_statement_payments` |
| `pending` | the write an expense operation has decided on, and its effect on the limit |
| `status`, `previousBalance` | table `credit_card_statements`; OPEN when not recorded |
| `available`, `balance` | `available_limit_cents`, `current_balance_cents` |

What is read is modelled beside what is written: `ShownPrevious` and the other `Shown...`
operators are the views of a statement (`statement-view.ts`), recorded or projected;
`AmountDue`, `ListedToday` and `Ledger` are the card debt of `card-debt.service.ts`, and
`Consolidated` puts it together with the account as the balance report does. `ReportedDebt`
compares them with the money itself.

`Straddle` says whether the cycle may end while an operation is in progress (and, with it,
whether a request on the statements may run between midnight and the closing it begins
with); `Repost` says whether an update may repeat the purchase date of an expense in the closed
window, which `Update` then posts in the open one. With either of them TRUE the closed window is
not safe (section 5): the run about statements has both FALSE, the run about money and
recording, and their proofs, both TRUE. One
account stands for the paying ones; which purchase a refund names and the minimum payment
are left out; the change of `closing_day` is in BillingCycles. The occurrences of a series
that an update with `scope=following` writes are written one at a time.

### EntryBook, Entries, MCEntries, EntriesProofs

Expenses and earnings, the balances of accounts and the available limits of cards, at the
grain of SQL statements. `row`, `value`, `limit` and `payment` are committed data; what a
request has locked and written is in its record `tx` until `Commit`, and `Abort` may happen
at any statement. A request goes through stages: it finds its rows (`OnEntry`: the row, or
its whole group of installments, found without a lock), locks them one by one by id
(`LockRow`, which passes over rows deleted meanwhile), decides on what it now holds
(`ChangeStatus`, `UpdateExpense`, `RepostExpense`, `UpdateEarning`, `ChangePaymentMethod`,
`Delete`), moves
accounts and cards one after the other (`ApplyDelta`: lock, read, write), and commits.
`Create` inserts one row or a group, with the parts of `splitCents`. `Pay` and `Undo` are
statement payments: they move the account, then the card, and then mark the rows of the
statement in no order (`MarkRow`); `MarkOverdue` is the daily sweep, one UPDATE that also
takes its rows in no order and evaluates its condition again when a row it waited for was
changed. `ChangeLimit`, `LoadForUpdate` and `WriteLimit` are the update of a card, which reads
without a lock. `RealizedBalance` and `ForecastBalance` are the reports on the accounts.

`EntryBook` is the promise: a request does all that it does at one moment, to the whole group
that is there then (`Enter`, `Reassign`, `Move`, `Remove`), to one row (`Restate`, `Amend`, `Repost`), to
the rows of a day (`FallOverdue`), or to a whole statement (`Pay` settles its rows exactly when
it leaves nothing of it, `Undo` puts back what was settled); and its money is no state of its own
but what the entries and payments come to at every moment (`Money`). `Entries` implements it
(`ImplementsBook`) with the identity on `row` and `payment`; the money of the book is the balance
of an account and, of a card, what is available less the total limit, so that a change of the
limit is no step of the book.

Entries are numbered as their uuids are ordered; accounts come before cards, in the order a
payment moves them. A card has at most one standing payment, which remembers whether it left
nothing of its statement (`full`): histories of payments are in CardStatements. An earning's
account, when one is given and be it the row's own, goes to its siblings too, so that a group
is together again. `Close` puts rows of a card in the closed window while nothing else runs:
what happens otherwise is CardStatements' `Straddle`. `RepostExpense` takes a row of it out
again, whatever its status: its amount, its card and the money stay, so that the book has a
step for it. `Overlap` says whether other requests run while a limit is being changed, and
whether an expense is posted again while a statement of a card is being paid (`MayBegin`); the
passing run has FALSE (section 5).

### UserProvisioning, WorkspaceMembers, MCWorkspaceMembers, WorkspaceMembersProofs

`UserProvisioning` is what every authenticated request begins with: the look-up by uid
(`FindByUid`), by e-mail in a snapshot of its own (`FindByEmail`), then `Create`, `Relink` or
`Refresh` of the row, which wait for another's uncommitted row with the same uid or e-mail,
as the unique indexes do, and fail on a committed one; a violation of
`uq_users_firebase_uid` starts over once (`Retry`). The configured administrator is promoted
and gets a workspace (`Promote`, `MemberExists`, `InsertMember`). Which uids and addresses a
user may come with is the constant `Token`; name and verified flag of the row are left out,
because nothing reads them.

`WorkspaceMembers` extends it with the requests of platform admins. A request reads the
membership of its target (`ChangeProfile`, `Approve`, `ApproveInNew`, `Revoke`), waits for
the workspace it read (`LockWorkspace`), counts the other members (`AssertAdminRemains`), and
writes whatever row is there then (`Write`), or inserts one (`Insert`), which the unique
index on the user may refuse. `SameTarget` allows two changes of one user at once,
`AnyFirst` a first member who is not an ADMIN; the passing run has neither (section 5).

### Recurrence, MCRecurrence, RecurrenceProofs

One series of expenses (of an account or a card, `onCard`) or of earnings, its occurrences,
and the daily jobs. An operation on the series locks the series, then the rows its statement
found, and commits when the last lock is granted (`EndSeries`/`CommitEnd`,
`UpdateFollowing`/`CommitFollowing`, `Extend`/`CommitExtend`); `Delete` first reads its
occurrence without a lock and then locks the series (`LockSeriesOf`, `CommitDelete`). The
rows are looked at again when they are locked, so what was confirmed, moved or deleted in
between is left alone. The model has two parts: the amount (with the account of an earning), and
the text, which stands for description, type and notes. A request gives some of the parts; a
settled occurrence takes no amount, one in a closed window only its own, and both take a text
(`MayTake`). `ListDue`, `Promote` and `StopPromotion` are the promotion of due
forecasts, each in its own transaction; `Reschedule`, `Repost` and `ChangeStatus` are operations on one
occurrence, and `CloseWindow` the end of a card's cycle. A date that is given together with
`scope=following` concerns its occurrence alone and is one of these. The job reads its list of series
without a lock before it locks each; since it locks and reads a series again before it uses
it, that list is folded into the guard of `Extend`.

Days are numbers with `Month` of them to a month. Bounds: only a forecast is rescheduled, only
to a later day, one at a time; windows close while nothing runs; new rows take identifiers no
transaction has seen. `mark` is history, used by the properties only.

### BillingCycles, MCBillingCycles, BillingCyclesProofs

The real calendar: a date is `32 * month + day`, so that dates compare as their strings do.
`CycleFor` and `NextCycle` are `billing-cycle.ts`, `Chain` is `statement-chain.ts`,
`ClosedThrough` the guard, `AddMonths` and `MonthlyInstallmentDates` `monthly-dates.ts`,
`PostedOn` and `PostedDates` the default of a purchase in installments, `SeriesDates` the
dates of a series. Days pass (`Midnight`), ended cycles are recorded (`CloseDue`), the closing
and due days change (`ChangeDays`). `Prompt` says whether ended cycles are recorded before
they change.

### InitialLoad, MCInitialLoad, InitialLoadProofs

The command that loads a sheet: the whole sheet is validated (`Start`), earning types are
looked for (`CheckEarningTypes`), and then every row is found or created in the order of the
sections (`Keep`, `Create`, `Refuse`, `NextSection`), against what was listed when its
section began; expense types that are not on the sheet are archived (`Archive`). A dry run
takes the same steps and writes nothing. Each row is a transaction of its own: a load that is
refused or killed (`Crash`) leaves what it wrote and is run again, perhaps on another day
(`Midnight`), while users archive, create and delete (`SetArchived`, `CreateType`,
`DeleteEntry`). Names and natural keys are members of a small set; reading and parsing the
csv is the attribute `wrong` of a row.

## 3. The runs

| Run | Bounds | Checks |
| --- | --- | --- |
| BankTransfers | 2 accounts, 2 transfers, 3 requests, 1 cent | types; balances conserved; nothing read is stale at the commit; no circular wait; events after commits; implements BankLedger (in which a completed transfer is only ever undone); every request ends |
| CardStatements | 4 cycles, 2 expenses, 1 refund, 2 payments, 1 cent | types; debt carried once; PAID exactly when nothing remains; expenses PAID exactly with their debt; the reports show that debt; closed cycles frozen |
| CardStatementsFair | 4 cycles, 1 expense, 1 refund, 1 payment, 2 cents; `Straddle` and `Repost` TRUE | limit and account conserved with partial payments and edits; recorded once; recorded in the end |
| Entries | 2 entries in one group, 2 accounts, 2 cards, 2 requests, 2 cents, limit of 1, `Bounds` of MCEntries | types; the balance is what the reports derive, and the forecast counts every entry once; nothing spent is lost; settled entries frozen; a circle of waits has a mass update in it; implements EntryBook |
| WorkspaceMembers | 3 users, 2 workspaces, 2 requests, 2 sign-ins, 4 tokens, 2 addresses of the administrator | an ADMIN remains; first requests are served |
| Recurrence | 1 request and the two jobs, 3 occurrences, months of 2 days, horizon 1, 2 days, 2 values of each part, `Bounds` of MCRecurrence | nothing after the end; forecasts follow the model; the past kept; what is deleted comes back only by a later request; in the end every month is filled and due forecasts confirmed |
| BillingCycles | registered on 31 January of a common year or 29 December before a leap one, 4 pairs of days, 2 months, 3 installments, horizon of 12 months | dates are dates; statements contiguous; the card shows the open cycle; one installment per statement; the window never reopens; series only grow at the end |
| InitialLoad | one row per tab, one of them changed or one repeated, 3 initial catalogues, 2 days, 1 edit, 1 crash | types and no key twice; what the sheet lists is there; the dry run is honest; a valid sheet is loaded in the end |
| EntriesOverlap, CardStatementsReposted, WorkspaceMembersRace, BillingCyclesReopened | as above, with the constant of section 2 reversed (EntriesOverlap: 1 account, 1 card with limits of 1 and 2; CardStatementsReposted: as CardStatementsFair, with `Straddle` FALSE; WorkspaceMembersRace: 1 sign-in) | the disagreements of section 5 |

Why these bounds. Two requests are what a lost update, a stale row or a circle of waits
needs: each of these properties relates two transactions. In BankTransfers a request runs
once, so a third one creates the transfer that the other two compete for; two accounts and
two transfers give A to B and B to A at the same time. In Entries a request begins again and
again. Two cards let a group of two installments be on two of them, and move between them,
while a payment moves an account and a card; two accounts let an earning change its account,
and its siblings follow. `Bounds` keeps that run within minutes: only the first entry is ever
worth more than a cent or being verified, not both at once and not on the last account or card;
the last account has earnings alone; and the cycle of the last card, which takes expenses, does
not end. The run without these reductions of amounts and statuses (`VERIFYING` on any entry, two
cents on any account or card for the first) also holds, with 1.6 million states. Four cycles let a debt roll
over twice and the chain then be paid and reopened; with two payments one is early or partial
and the other undone. Two cents give a partial payment and an amount that changes. Balances
and limits are never compared with anything by the code, so their opening values do not
matter. In Recurrence three occurrences are one that an operation is about, one before or
after it and one whose date the user moved; months of two days let it move within its month,
or to the next. `Bounds` leaves out what would multiply the states without a new relation: that
something is confirmed before its day, that a part of the model changes back, a request on a
series of a card while a date stands moved, and changes of the model off a card. The safety
properties were also run, outside the listed runs because they take longer, without `Bounds`
(two occurrences, months of one day, two values; three occurrences, months of two days, three
days, one value) and with two requests (two occurrences, months of one day), and hold. Three users let a user be the only other ADMIN
while a third approves; the tokens give a user with another uid for the same address (the
relink) and an address nobody has verified. The two registration days put the last days of
months of 28, 29, 30 and 31 days, and the turn of a year, inside the months followed.

WorkspaceMembers and CardStatements do not check for deadlock, because identifiers, cycles
and days run out in them; everywhere else a state without a successor would be reported.
WorkspaceMembers and Recurrence spend no property on types.

Symmetry (Entries over requests; CardStatements over expenses and payments; WorkspaceMembers
over requests, users, workspaces and sign-ins) is used only in runs without liveness, over
constants the modules never order.

Fairness:

- BankTransfers: as long as some accepted request can go on, one of them does (weak, over all
  of them). That is all the server has to give, because the order of the locks leaves no
  circle and a request that ends lets go of everything.
- CardStatementsFair: the closing is strongly fair, because the daily job and every request on
  the statements run it and its row locks are granted in order; the end of an operation in
  progress is weakly fair.
- Recurrence: the queue runs both jobs every day and tries a failed one again, so listing is
  weakly fair, and the extension, its commit and each promotion strongly fair: a job does not
  fail for ever at the same point. A request that was accepted ends.
- InitialLoad: a load goes on until it ends or is killed (weak), and is started again (strong,
  because starts alternate with dry runs and crashes).

Nothing is asked of users: no action that begins a request, pays, edits or archives is fair.

## 4. The proofs

Each `...Proofs` module proves an inductive invariant of its component from the named
assumption on its constants, and the properties from it. Where a property needs a hypothesis,
the instance of the passing run satisfies it, and section 5 says how the property fails without
it, for most of them with a run of its own.

| Module | Theorems | Hypotheses |
| --- | --- | --- |
| BankTransfersProofs | `TypeCorrect`, `NothingStale`, `Frozen`, `Conservation`, `Implementation`, `DeadlockFreedom`, `NoEventWithoutCommit` | none |
| CardStatementsProofs | `TypeCorrect`, `MoneyIsConserved`, `RecordedForGood` | none |
| | `ClosedWindowIsFrozen`, `StatusFollowsDebt`, `DebtIsCarried`, `ExpensesFollowTheDebt`, `ReportsShowTheDebt` | `~Repost` (CardStatementsReposted), `~Straddle` (section 5) |
| EntriesProofs | `TypeCorrect`, `BalancesAreKept`, `SettledIsFrozen`, `OnlyMarkersCloseCircles` | none |
| | `SpentIsKept`, `Implementation` | `~Overlap` (EntriesOverlap) |
| WorkspaceMembersProofs | `AdminAlwaysRemains` | `~SameTarget` (WorkspaceMembersRace), `~AnyFirst` (section 5) |
| | `AlwaysServed`, `RowsApart` | `SingleAddress`: who has an address that another user verified has no other (section 5) |
| RecurrenceProofs | `NoForecastAfterEnd`, `ForecastsHaveModel`, `PastIsKept`, `DeletionIsForGood` | none |
| BillingCyclesProofs | `TypeCorrect`, `Chained`, `OpenCycleShown`, `SeriesOnlyGrow`, `OneInstallmentEach` | none (`CreationAssumption`: cards are registered on dates) |
| | `WindowStaysClosed` | `Prompt` (BillingCyclesReopened) |
| InitialLoadProofs | `NothingTwice`, `EverythingLoaded`, `DryRunKept` | `KeysApart`: the rows that become entries have different keys, those of different tabs too (section 5) |

### Along which argument

**BankTransfers.** What a request read is current at its commit because it holds the locks of
what it read, and it holds them because of the stage it is in. `SnapshotCurrent` alone is not
inductive: it needs that a lock is held exactly while in use (`LocksMatchWork`), that each
stage has a row, a direction and accounts that fit it (`StagesFit`), and that a row being
created belongs to one request (`NewRowOwned`). Conservation then says that only a commit
changes a balance, and that it changes one row, so that each sum changes by what that row
contributes (`OneRowTotals`, from `CentsLemmas`). The refinement maps each commit to the
ledger's step for its kind of change and every other step to a stutter. Deadlock freedom adds
`Ascending`: the accounts a request has locked are below those it has still to lock; among
requests that wait for each other, one that holds the highest account waits for nobody.
`EventAfterCommit` adds that what is about to be dispatched is a completion that was committed.

**Entries.** The same idea, for transactions of many rows. `Sound` says of one transaction and
the committed tables what it knows at its stage: the rows and pots it has locked are copies of
the committed ones until it writes (`Holds`), in the order of the locks (`Ascending`); what it
has still to move is exactly the difference between the rows it holds and those it will leave
(`Moves`, `Decided`, `Marks`), pot by pot. It speaks only of what the transaction has locked, so
the commit of another one leaves it true, because two transactions lock nothing in common
(`Apart`). `Kept` is the money: each balance is what its rows and payments come to. Beside it stand
what the rules of the code make of the tables: groups are of one kind (`OneKind`), an expense of
a card is never overdue (`Fits`). A commit then changes a sum by the
flows of the rows that changed, and that is what it wrote. The limit is part of this only while
nobody writes back one that was read without a lock, hence `~Overlap`. For the circles:
whoever is not a mass update waits for something above all that it holds, rows before pots.

That `Entries` implements `EntryBook` needs more than the money: what a request decided must
still be, at its commit, what its operation does to the book. `Meaning` says so of every request in
progress. `Leaving` is what the operation leaves of the rows it holds, in the words of the book;
it speaks of those rows alone, so others leave it true. `Whole`: an operation on a group holds, or
is about to lock, every row of it, because the rows it found are all there were and a group gets
no rows later (`Unseen`: the rows a request inserts have been seen by nobody). `Dues`: a payment is
of at most what remains, and one that leaves nothing misses no closed row, because the closed rows
of a card stay the same ones while the payment runs (`Carried`; this is where posting one again
has to be excluded, `~Overlap`) and nobody else settles them (`CardFree`). Then each commit is the step of the book for its operation (`EntersBook` to
`SweepsBook`), `Close` is one too, and everything else leaves rows and payments alone. The money
of the book follows from `Kept`, because what an entry is worth is the difference of what it
counts for in the two flows (`WorthFlows`, `SumOfTotals`).

**CardStatements.** Everything under the advisory lock is one step, so the money needs only that
what an expense operation has decided on is still the row it read (`Pendings`): its row lock.
The history needs that a pending write leaves the closed window alone (`Windows`), which holds
when no cycle ends under it, `~Straddle`, and no closed expense is posted again, `~Repost`; and
`Booked`: the recorded cycles are the first ones and have ended (`Past`), a payment that is not
early is of one of them (`Homed`), and each is in the status that what is left of it says, with
nothing lost on the way to it (`Settlement`: what is left of a statement is all that was spent
until it, less all that was refunded and paid).
`DebtCarried` and `SettledIffPaid` follow. A payment or its undo changes the status of a whole
chain of statements at once, and `Debts` says that the expenses of the chain change with it.
`ReportedDebt` compares that with what the reports list on a day: the recorded statements and the
projected ones up to it. `Dated` says that only a recorded statement has received a balance and
that no payment has a day still to come. So the cycles listed are the first ones; each adds what is
due of it, the statements that rolled over add nothing, and by what `Debts` and `Settlement` say of
the last recorded one the sum up to any day is what was owed on it (`Carry`, then `DueAhead` cycle
by cycle).

**WorkspaceMembers.** A request about to write holds the lock of the workspace its target is in
(`StageFits`), and what it counted there is still so, because whoever changes a membership of
that workspace needs the lock. That holds while one request at a time is about a user
(`OneByOne`): the race of section 5 is the case in which the target moved before the lock.

**UserProvisioning** (in WorkspaceMembersProofs). No request looks at more than one row, and
yet rows never clash: `Rows` is kept because whoever writes has waited for the others that
write the same uid or address (`OneWriter`), and found none committed (`DraftFits`). A request
that starts over finds the row it lost to, because that row keeps its uid unless somebody else
verified its address (`SignInFits`).

**Recurrence.** The lock of the series orders its operations (`OneLocked`). Between the lock and
the commit of one, the others only confirm, settle, move or repost single occurrences: forecasts
become fewer, so the rows its statement found still include all that it has to change, and the
change it was given is still one that its occurrence takes, because its row is locked (`Stage`).
With that both invariants are inductive. A row has the model of the series after any number of
changes of some of its parts because it takes each of them when the series does, or was made
from the series, under the lock (`Remodelled`, `Inserted`). The end of a series goes back to a
later day only in the commit of an end request or of a deletion (`Reopens`).

**BillingCycles.** The calendar's own lemmas come first: a month and the months after it, the last
day of a month, the next day. The chain of a card closes once in each month (`ClosingMonth`), so
how many of its cycles ended on a date is a difference of months, and the cycle that contains a
date is one number more; that replaces every count and every step along the chain. The
invariant says that the recorded statements are linked (`Linked`), have ended (`Ended`), and that
the last one closed on a day of the card until its days change (`Own`).

**InitialLoad.** The argument looks at the rows still to be written. What is there of one was
listed when its section began (`Fresh`), because the rows written meanwhile have other keys and
users only delete: so nothing is created twice. While nobody edits, what was listed of it is what
is there (`Same`), and then what is written stays there (`Done`). `Foretold` is what the load in
progress will have done in the end: what it did and what is still missing. No step of it changes
that, in a dry run or in a real one, so what a dry run announced is what the load after it does
(`Promised`).

### What is only model-checked

- Liveness (`RequestsEnd`, `EveryCycleRecorded`, `SeriesFilled`, `DuePromoted`, `LoadEnds`): the
  provers do not handle fairness and ENABLED.

Everything else the passing runs check is a theorem. `Frozen`, which no run checks, is a
consequence of the ledger: there a completed transfer can only be undone.

## 5. Where code and documents disagree

Each of these has a passing run with the case excluded by a constant, and a run that finds the
violation with it allowed.

- **EntriesOverlap.** `loadForUpdate` (`credit-card.service.ts:196`) reads the card without a
  lock and `update` writes the available limit back: a purchase that commits in between
  disappears from it, although "o que não muda é o quanto já foi gasto" (line 171).
- **CardStatementsReposted.** `expense.service.ts:583` refuses a change of amount or date in the
  closed window only when the value given differs from the stored one; lines 604 to 612 then
  compute `posted_on` anew, from the first open day, whenever `occurredOn` is given, be it the
  same. A PATCH that repeats the purchase date takes an expense of a closed statement to the open
  one, even a PAID or a rolled over one. INV-0013-05 (`specs/0013-statements.md:544`) says that no
  operation changes the total of a closed statement. The status, the debt carried and the debt
  reported go wrong with it: what was paid or carried already is charged again on the open
  statement. Amount, card, limit and account stay right (`MoneyConserved`, `SpentKept`).
- **WorkspaceMembersRace.** `user.service.ts:229` reads the target's membership before the
  lock: a removal decided on a BILLER removes what has become the last ADMIN (INV-0021-07).
- **BillingCyclesReopened.** `credit-card.service.ts:115` changes `closing_day` while a cycle
  that ended is not recorded: the guard then computes that cycle from the new day, and days of
  a window already closed take entries again. `statement-period-guard.service.ts:31` says that
  a change never reopens one, and INV-0011-07 (`specs/0011-accounts.md:214`) that it does not
  recompute a closed cycle.

Seen while modelling, without a run of their own:

- `expense.service.ts:121` reads the closed window without the card's advisory lock, and so do
  the other operations on expenses: when the cycle ends, and is recorded, before the commit, the
  closed total changes, against INV-0013-05. `Straddle` = FALSE leaves it out of the runs and
  theorems about statements.
- The same PATCH during the payment of the statement: the payment counts the expense, the update
  takes it to the open statement, and the payment finds it no more and does not settle it
  (`markPaidByStatement`, `expense.service.ts:1142`). `Overlap` = FALSE leaves it out of the book.
- A month may have two occurrences: `extendSeries` (`expense-recurrence.service.ts:227`) compares
  dates, so it fills again a date whose occurrence was moved within the month. The comment at
  `:47`, and `specs/0017-jobs-and-recurrence.md:188`, say "um mês que já tem ocorrência nunca
  recebe outra", an altered one included. `SeriesFilled` says only that no month is left out.
- Deleting an occurrence that stands after the end of its series sets the end to the day before
  it, later than it was (`endSeriesBefore`, `expense.service.ts:1030`), and an end request may
  name a later day than the present end (`expense-recurrence.service.ts:145`): dates whose
  occurrences were deleted are then filled again. `DeletedForGood` says that nothing else does it.
- An update with `scope=following` may begin at a settled occurrence, or at one in a closed
  window: only its amount (and date, and account) is kept, its description, type and notes
  change with those of the later ones (`expense.service.ts:563`, `earning.service.ts:269`).
  `PastKept` is therefore about deletion and amount.
- `user.service.ts:191` inserts a member of any profile into a workspace whose last member was
  removed, against INV-0021-07 (`specs/0021-workspaces.md:272`); `AnyFirst` = FALSE leaves it
  out of the passing run.
- Two first requests of a user whose address is not verified: the second, when its look-up by
  uid came before the first's commit and its look-up by e-mail after, is answered
  EMAIL_NOT_VERIFIED (`user-provisioning.service.ts:69`, `:114`) although the row is its own;
  the comment at `:41` speaks of every lost race. `FirstRequestsServed` is therefore about
  verified addresses of one user.
- A user comes back with a verified address y instead of an unverified z, which another user has
  verified. One of the requests finds the row and is about to update it, another has found
  neither uid nor y; then the other user's request takes the row over by z, and the second one
  creates a row with y. The update of the first now writes y into a row that is no longer its own,
  breaks `uq_users_email` and fails: `user-provisioning.service.ts:44` tries only conflicts on the
  uid again. TLC finds it with three sign-ins and these three tokens; `SingleAddress` excludes it.
- Two first requests of a configured administrator who is still pending: the second breaks
  `uq_workspace_members_user_id` and fails, and only a conflict on the uid is tried again.
- Overdue marking may run before promotion on a day: an occurrence that is past due when it is
  promoted stays OPEN until the next day (AC-0017-13, `specs/0017-jobs-and-recurrence.md:325`).
- `credit-card.response.ts:33` takes the day of `new Date()` in UTC, not the business day.
- `validate.ts:521` says that the fixed and the installment tab share natural keys, and keeps
  a set for each: a key on both tabs is not reported. The load lists the keys before both tabs
  and does not add what it writes (`write.ts:235`), so it creates both; a load that stopped
  between the two takes the second for the first. `InitialLoad` follows the code, and `KeysApart`
  leaves such sheets out of its theorems, as the passing run does.
- A refund is limited by the amount its purchase has when it is created
  (`credit-card-refund.service.ts:257`); the amount may be lowered afterwards
  (`expense.service.ts:600`).
- One installment per statement (AC-0013-22, `specs/0013-statements.md:656`) needs days every
  month has: with closing or posting days of 29 to 31 two may fall in one statement.

## 6. Not modelled, and the plan

Not modelled, and why:

- the job queue: pg-boss is an external library seen through two calls, and no code enqueues a
  job; its effect, jobs that run again after a failure, is in the fairness of the modules;
- the pool of connections: closing reads the card and the expenses on a second connection
  inside its transaction, so what matters is how many closings run, not their data;
- the link of a refund to its purchase, and `update` of a statement payment (the informed
  minimum), which only a limit at creation and a mark of a view read;
- buckets by month, cash flow, movements and totals by type: they split the sums of `Entries`
  and `CardStatements` by date and type;
- names, descriptions, notes and types of everything, and the renames of the catalogues: no
  rule reads them once the row exists;
- two loads at a time: the command takes no lock and is meant for one person;
- authentication by Firebase, avatars, HTTP plumbing, health, configuration, shutdown and
  migrations: no state that several steps could break. The constraints of the migrations are
  used as facts of the tables.

Next, in this order:

1. The pool of connections, and the purchase of a refund.
2. Reports by date: buckets by month and cash flow.
