--------------------------- MODULE BankTransfers ---------------------------
(***************************************************************************)
(* Transfers between two bank accounts: BankTransferService and the        *)
(* balance half of BankAccountService, at the grain of the SQL statements  *)
(* each request issues inside TransactionRunner.run.                       *)
(*                                                                         *)
(* A request is one HTTP call: it runs one transaction and ends.  The      *)
(* database runs READ COMMITTED: balance, archived and row are the         *)
(* committed data, rowLock and accLock the row locks of PostgreSQL, and    *)
(* what a transaction has written but not committed is in its record tx.   *)
(*                                                                         *)
(* Accounts are numbered in the order of their uuids, the order in which   *)
(* moveBalances locks them.                                                *)
(***************************************************************************)
EXTENDS Integers, FiniteSets, Cents

CONSTANTS
    NumAccounts,    \* how many bank accounts there are
    Opening,        \* the opening balance of each account
    Transfer,       \* identifiers of transfers
    Request,        \* the requests that arrive
    MaxAmount,      \* the largest amount, in cents
    NoId, NoOne     \* no transfer, no transaction

Account == 1..NumAccounts
Amount  == 1..MaxAmount
Status  == {"SCHEDULED", "COMPLETED"}
Row     == [from : Account, to : Account, amount : Amount, status : Status]
Absent  == [status |-> "ABSENT"]

ASSUME BankTransfersAssumption ==
    /\ NumAccounts \in Nat \ {0}
    /\ Opening \in [Account -> Int]
    /\ IsFiniteSet(Transfer)
    /\ MaxAmount \in Nat \ {0}
    /\ NoId \notin Transfer
    /\ NoOne \notin Request

VARIABLES
    balance,        \* current_balance_cents, committed
    archived,       \* archived_at is not null, committed
    row,            \* the bank_transfers table, committed
    rowLock,        \* who inserted, or locked FOR UPDATE, each transfer
    accLock,        \* who locked each account FOR NO KEY UPDATE
    tx,             \* the transaction of each request
    dispatched      \* requests whose TransferCompleted reached the handlers

vars == <<balance, archived, row, rowLock, accLock, tx, dispatched>>

-----------------------------------------------------------------------------
(* A request's transaction: where it is, the transfer it works on, the row *)
(* it will leave there, the direction in which it moves the balances (0:   *)
(* it moves none), the accounts still to move and the balances it wrote.   *)

Pc == {"idle", "lock", "usableFrom", "usableTo", "insert", "move", "commit",
       "dispatch", "done", "failed"}
Op == {"none", "create", "changeStatus", "update", "delete"}

Tx == [pc : Pc, op : Op, id : Transfer \cup {NoId}, after : Row \cup {Absent},
       dir : {-1, 0, 1}, todo : SUBSET Account, draft : [Account -> Int]]

NoTx == [pc |-> "idle", op |-> "none", id |-> NoId, after |-> Absent,
         dir |-> 0, todo |-> {}, draft |-> [a \in Account |-> 0]]

Ends(t) == {t.from, t.to}

(* What moveBalances adds to account a: the origin loses, the destination  *)
(* gains, and direction -1 undoes it.                                      *)
Delta(t, dir, a) == IF a = t.from THEN -(t.amount * dir) ELSE t.amount * dir

(* The accounts whose balance request r has locked and written. *)
Written(r) ==
    IF tx[r].pc \in {"move", "commit"} /\ tx[r].dir # 0
    THEN Ends(tx[r].after) \ tx[r].todo
    ELSE {}

Active(r) == tx[r].pc \notin {"idle", "dispatch", "done", "failed"}

Release(r) ==
    /\ rowLock' = [t \in Transfer |-> IF rowLock[t] = r THEN NoOne ELSE rowLock[t]]
    /\ accLock' = [a \in Account |-> IF accLock[a] = r THEN NoOne ELSE accLock[a]]

(* Mutant of Rollback: the connection goes back to the pool without a      *)
(* ROLLBACK, and its locks stay.                                           *)
RollbackKeepingLocks(r) ==
    /\ tx' = [tx EXCEPT ![r] = [NoTx EXCEPT !.pc = "failed"]]
    /\ UNCHANGED <<balance, archived, row, rowLock, accLock, dispatched>>

(* An error thrown inside run(): the transaction is rolled back, its locks *)
(* and its events are dropped.                                             *)
Rollback(r) ==
    /\ tx' = [tx EXCEPT ![r] = [NoTx EXCEPT !.pc = "failed"]]
    /\ Release(r)
    /\ UNCHANGED <<balance, archived, row, dispatched>>

-----------------------------------------------------------------------------
Init ==
    /\ archived \in [Account -> BOOLEAN]
    /\ balance = Opening
    /\ row = [t \in Transfer |-> Absent]
    /\ rowLock = [t \in Transfer |-> NoOne]
    /\ accLock = [a \in Account |-> NoOne]
    /\ tx = [r \in Request |-> NoTx]
    /\ dispatched = {}

Begin(r, t) ==
    /\ tx[r].pc = "idle"
    /\ tx' = [tx EXCEPT ![r] = t]
    /\ UNCHANGED <<balance, archived, row, rowLock, accLock, dispatched>>

(* create: the schema has already refused equal accounts.  The row it will *)
(* insert gets an identifier nobody has seen; Transfer bounds how many.    *)
Fresh(t) == row[t] = Absent /\ \A q \in Request : tx[q].id # t

Create(r) ==
    \E t \in Transfer, new \in Row :
        /\ Fresh(t) /\ new.from # new.to
        /\ Begin(r, [NoTx EXCEPT !.pc = "usableFrom", !.op = "create", !.id = t,
                                 !.after = new])

(* changeStatus, update and delete begin by locking the transfer :id.  The *)
(* status or the changes the request carries are chosen where first used.  *)
OnTransfer(r) ==
    \E t \in Transfer, op \in {"changeStatus", "update", "delete"} :
        Begin(r, [NoTx EXCEPT !.pc = "lock", !.op = op, !.id = t])

(* Mutant of LockFree: a plain SELECT. *)
LockFreeUnlocked(r) == row[tx[r].id] # Absent

(* SELECT ... FOR UPDATE: waits for the lock; a row that is not there is   *)
(* not found without waiting.                                              *)
LockFree(r)  == row[tx[r].id] # Absent /\ rowLock[tx[r].id] = NoOne
NotFound(r)  == tx[r].pc = "lock" /\ row[tx[r].id] = Absent /\ Rollback(r)

Locked(r, t) ==
    /\ rowLock' = [rowLock EXCEPT ![t.id] = r]
    /\ tx' = [tx EXCEPT ![r] = t]
    /\ UNCHANGED <<balance, archived, row, accLock, dispatched>>

(* Moving to COMPLETED moves the balances forward, to SCHEDULED undoes it. *)
Moving(t, new) ==
    [t EXCEPT !.pc = "move", !.after = new, !.todo = Ends(new),
              !.dir = IF new.status = "COMPLETED" THEN 1 ELSE -1]

ChangeStatus(r) ==
    /\ tx[r].pc = "lock" /\ tx[r].op = "changeStatus" /\ LockFree(r)
    /\ \E status \in Status :
        IF row[tx[r].id].status = status
        THEN Rollback(r)
        ELSE Locked(r, Moving(tx[r], [row[tx[r].id] EXCEPT !.status = status]))

(* Mutant of Update: it edits a completed transfer. *)
UpdateCompleted(r) ==
    /\ tx[r].pc = "lock" /\ tx[r].op = "update" /\ LockFree(r)
    /\ \E new \in Row :
        /\ new.status = row[tx[r].id].status /\ new.from # new.to
        /\ Locked(r, [tx[r] EXCEPT !.after = new, !.pc = "usableFrom"])

(* The changes leave the row `new`; movement says whether the body names   *)
(* accounts, amount or date, accounts whether it names an account.         *)
Update(r) ==
    /\ tx[r].pc = "lock" /\ tx[r].op = "update" /\ LockFree(r)
    /\ \E new \in Row, movement, accounts \in BOOLEAN :
        LET old == row[tx[r].id] IN
        /\ new.status = old.status
        /\ new # old => movement
        /\ <<new.from, new.to>> # <<old.from, old.to>> => accounts
        /\ accounts => movement
        /\ IF (old.status = "COMPLETED" /\ movement) \/ new.from = new.to
           THEN Rollback(r)
           ELSE Locked(r, [tx[r] EXCEPT !.after = new,
                             !.pc = IF accounts THEN "usableFrom" ELSE "commit"])

(* Mutant of Delete: it marks the row as deleted, a status nobody knows. *)
DeleteSoftly(r) ==
    /\ tx[r].pc = "lock" /\ tx[r].op = "delete" /\ LockFree(r)
    /\ Locked(r, [tx[r] EXCEPT !.pc = "commit",
                               !.after = [row[tx[r].id] EXCEPT !.status = "DELETED"]])

Delete(r) ==
    /\ tx[r].pc = "lock" /\ tx[r].op = "delete" /\ LockFree(r)
    /\ IF row[tx[r].id].status = "COMPLETED"
       THEN Rollback(r)
       ELSE Locked(r, [tx[r] EXCEPT !.pc = "commit"])

(* assertAccountsAreUsable reads the two accounts, origin first, without   *)
(* a lock.                                                                 *)
AssertUsable(r, pc, a, next) ==
    /\ tx[r].pc = pc
    /\ IF archived[a]
       THEN Rollback(r)
       ELSE /\ tx' = [tx EXCEPT ![r].pc = next]
            /\ UNCHANGED <<balance, archived, row, rowLock, accLock, dispatched>>

AssertFromUsable(r) == AssertUsable(r, "usableFrom", tx[r].after.from, "usableTo")
AssertToUsable(r) ==
    AssertUsable(r, "usableTo", tx[r].after.to,
                 IF tx[r].op = "create" THEN "insert" ELSE "commit")

(* The inserted row is its transaction's alone until it commits. *)
Insert(r) ==
    /\ tx[r].pc = "insert"
    /\ Locked(r, IF tx[r].after.status = "COMPLETED"
                 THEN Moving(tx[r], tx[r].after)
                 ELSE [tx[r] EXCEPT !.pc = "commit"])

(* Mutants of ApplyBalanceDelta: the balance is read without its lock, or  *)
(* the origin is always moved first.                                       *)
ApplyBalanceDeltaUnlocked(r, a) ==
    /\ tx[r].pc = "move"
    /\ a \in tx[r].todo /\ \A b \in tx[r].todo : a <= b
    /\ tx' = [tx EXCEPT ![r].draft[a] = balance[a] + Delta(tx[r].after, tx[r].dir, a),
                        ![r].todo = @ \ {a},
                        ![r].pc = IF tx[r].todo = {a} THEN "commit" ELSE "move"]
    /\ UNCHANGED <<balance, archived, row, rowLock, accLock, dispatched>>

ApplyBalanceDeltaFromFirst(r, a) ==
    /\ tx[r].pc = "move" /\ a \in tx[r].todo
    /\ a = tx[r].after.from \/ tx[r].after.from \notin tx[r].todo
    /\ accLock[a] = NoOne
    /\ accLock' = [accLock EXCEPT ![a] = r]
    /\ tx' = [tx EXCEPT ![r].draft[a] = balance[a] + Delta(tx[r].after, tx[r].dir, a),
                        ![r].todo = @ \ {a},
                        ![r].pc = IF tx[r].todo = {a} THEN "commit" ELSE "move"]
    /\ UNCHANGED <<balance, archived, row, rowLock, dispatched>>

(* applyBalanceDelta on the next account, in ascending order: wait for the *)
(* row lock, read the balance, write it plus the delta.                    *)
ApplyBalanceDelta(r, a) ==
    /\ tx[r].pc = "move"
    /\ a \in tx[r].todo /\ \A b \in tx[r].todo : a <= b
    /\ accLock[a] = NoOne
    /\ accLock' = [accLock EXCEPT ![a] = r]
    /\ tx' = [tx EXCEPT ![r].draft[a] = balance[a] + Delta(tx[r].after, tx[r].dir, a),
                        ![r].todo = @ \ {a},
                        ![r].pc = IF tx[r].todo = {a} THEN "commit" ELSE "move"]
    /\ UNCHANGED <<balance, archived, row, rowLock, dispatched>>

(* COMMIT: everything the transaction wrote becomes visible at once and    *)
(* its locks are released.  A completion then has an event to dispatch.    *)
Commit(r) ==
    /\ tx[r].pc = "commit"
    /\ row' = [row EXCEPT ![tx[r].id] = tx[r].after]
    /\ balance' = [a \in Account |->
                     IF a \in Written(r) THEN tx[r].draft[a] ELSE balance[a]]
    /\ tx' = [tx EXCEPT ![r] = [NoTx EXCEPT !.pc = IF tx[r].dir = 1 THEN "dispatch" ELSE "done",
                                           !.id = tx[r].id, !.dir = tx[r].dir]]
    /\ Release(r)
    /\ UNCHANGED <<archived, dispatched>>

(* Mutant of Dispatch: the event is sent when it is published. *)
DispatchOnPublish(r) ==
    /\ tx[r].pc = "commit" /\ tx[r].dir = 1
    /\ dispatched' = dispatched \cup {r}
    /\ UNCHANGED <<balance, archived, row, rowLock, accLock, tx>>

Dispatch(r) ==
    /\ tx[r].pc = "dispatch"
    /\ tx' = [tx EXCEPT ![r].pc = "done"]
    /\ dispatched' = dispatched \cup {r}
    /\ UNCHANGED <<balance, archived, row, rowLock, accLock>>

(* The process or its connection dies: an open transaction is rolled back, *)
(* a committed one loses the events it had still to dispatch.              *)
Abort(r) == Active(r) /\ Rollback(r)
LoseEvents(r) ==
    /\ tx[r].pc = "dispatch"
    /\ tx' = [tx EXCEPT ![r].pc = "done"]
    /\ UNCHANGED <<balance, archived, row, rowLock, accLock, dispatched>>

(* BankAccountService.setArchived: one UPDATE, which waits for the row.    *)
SetArchived(a) ==
    /\ accLock[a] = NoOne
    /\ archived' = [archived EXCEPT ![a] = ~@]
    /\ UNCHANGED <<balance, row, rowLock, accLock, tx, dispatched>>

Step(r) ==
    \/ NotFound(r) \/ ChangeStatus(r) \/ Update(r) \/ Delete(r)
    \/ AssertFromUsable(r) \/ AssertToUsable(r) \/ Insert(r)
    \/ \E a \in Account : ApplyBalanceDelta(r, a)
    \/ Commit(r) \/ Dispatch(r)

Next ==
    \/ \E r \in Request : Create(r) \/ OnTransfer(r) \/ Step(r) \/ Abort(r) \/ LoseEvents(r)
    \/ \E a \in Account : SetArchived(a)

Spec == Init /\ [][Next]_vars

(* The server goes on with some request it has accepted, if any can go on. *)
FairSpec == Spec /\ WF_vars(\E r \in Request : Step(r))
-----------------------------------------------------------------------------
(* Properties.                                                             *)

(* Every variable keeps its type (the entities' columns, the enums). *)
TypeOK ==
    /\ balance \in [Account -> Int]
    /\ archived \in [Account -> BOOLEAN]
    /\ row \in [Transfer -> Row \cup {Absent}]
    /\ rowLock \in [Transfer -> Request \cup {NoOne}]
    /\ accLock \in [Account -> Request \cup {NoOne}]
    /\ tx \in [Request -> Tx]
    /\ dispatched \subseteq Request

Completed(t) == row[t].status = "COMPLETED"
Incoming(a)  == {t \in Transfer : Completed(t) /\ row[t].to = a}
Outgoing(a)  == {t \in Transfer : Completed(t) /\ row[t].from = a}
AmountOf     == [t \in Transfer |-> IF row[t] = Absent THEN 0 ELSE row[t].amount]

(* INV-0018-03: whatever the interleaving of requests, rollbacks and lost  *)
(* connections, each account's committed balance is its opening balance    *)
(* plus the completed transfers into it minus those out of it: none is     *)
(* counted twice, half applied or overwritten by a concurrent one.         *)
BalanceConserved ==
    \A a \in Account :
        balance[a] = Opening[a] + Total(Incoming(a), AmountOf, MaxAmount)
                                - Total(Outgoing(a), AmountOf, MaxAmount)

(* The stages in which request r holds its transfer's row: it moves        *)
(* balances or is about to commit, or it edits a row it has locked.        *)
Working(r)    == tx[r].pc \in {"move", "commit"}
Editing(r)    == tx[r].op = "update" /\ tx[r].pc \in {"usableFrom", "usableTo"}
HoldsRow(r)   == Working(r) \/ Editing(r)
NewRow(r)     == tx[r].op = "create" /\ tx[r].pc \in {"usableFrom", "usableTo", "insert"}

(* A lock is held exactly as long as what it protects is in use.           *)
LocksMatchWork ==
    /\ \A r \in Request, t \in Transfer : rowLock[t] = r <=> HoldsRow(r) /\ tx[r].id = t
    /\ \A r \in Request, a \in Account : accLock[a] = r <=> a \in Written(r)

(* The request's stage fits its operation ...                              *)
StageFits(r) ==
    /\ tx[r].pc \in {"usableFrom", "usableTo"} => tx[r].op \in {"create", "update"}
    /\ tx[r].pc = "insert" => tx[r].op = "create"
    /\ HoldsRow(r) \/ NewRow(r) \/ tx[r].pc = "lock" => tx[r].id \in Transfer
    /\ tx[r].pc = "lock" => tx[r].op # "create" /\ tx[r].todo = {} /\ tx[r].dir = 0
    /\ tx[r].pc = "lock" /\ tx[r].op = "delete" => tx[r].after = Absent
    /\ Editing(r) \/ NewRow(r) =>
         /\ tx[r].after \in Row /\ tx[r].after.from # tx[r].after.to
         /\ tx[r].todo = {} /\ tx[r].dir = 0
    /\ tx[r].pc = "move"   => tx[r].dir # 0 /\ tx[r].todo \subseteq Ends(tx[r].after)
    /\ tx[r].pc = "commit" => tx[r].todo = {}

(* ... and the row it is about to insert is its own.                       *)
NewRowOwned(r) ==
    NewRow(r) => /\ row[tx[r].id] = Absent /\ rowLock[tx[r].id] = NoOne
                 /\ \A q \in Request : NewRow(q) /\ tx[q].id = tx[r].id => q = r

StagesFit == \A r \in Request : StageFits(r) /\ NewRowOwned(r)

(* INV-0018-02: a stored transfer joins two different accounts.            *)
DifferentAccounts ==
    \A t \in Transfer : row[t] # Absent => row[t].from # row[t].to

(* What a request read under its locks is still what is committed when it  *)
(* commits: the row it replaces is the one it checked, and each balance it *)
(* wrote is the committed one plus its delta.  Nothing it decided on has   *)
(* gone stale between the read and the commit.                             *)
Snapshot(r) ==
    LET old == row[tx[r].id]
        new == tx[r].after IN
    /\ \A a \in Written(r) : tx[r].draft[a] = balance[a] + Delta(new, tx[r].dir, a)
    /\ Editing(r) => old.status = "SCHEDULED" /\ new.status = "SCHEDULED"
    /\ Working(r) =>
         /\ new # Absent => new \in Row /\ new.from # new.to
         /\ tx[r].dir = 0 =>
              old = new \/ (old.status # "COMPLETED" /\ new.status # "COMPLETED")
         /\ tx[r].dir = 1 =>
              /\ new.status = "COMPLETED"
              /\ old = Absent \/ old = [new EXCEPT !.status = "SCHEDULED"]
         /\ tx[r].dir = -1 =>
              new.status = "SCHEDULED" /\ old = [new EXCEPT !.status = "COMPLETED"]

SnapshotCurrent == \A r \in Request : Snapshot(r)

Inv == TypeOK /\ LocksMatchWork /\ StagesFit /\ DifferentAccounts /\ SnapshotCurrent

(* Request r waits for a row lock that request q holds. *)
WaitsForRow(r, q) ==
    /\ tx[r].pc = "lock" /\ row[tx[r].id] # Absent /\ rowLock[tx[r].id] = q
WaitsForAccount(r, q) ==
    /\ tx[r].pc = "move"
    /\ \E a \in tx[r].todo : (\A b \in tx[r].todo : a <= b) /\ accLock[a] = q
WaitsFor(r, q) == WaitsForRow(r, q) \/ WaitsForAccount(r, q)

(* INV-0018-04, AC-0018-04: no set of requests waits in a circle, so       *)
(* transfers A->B and B->A completed, undone and created at the same time  *)
(* never block one another for good.                                       *)
NoDeadlock ==
    \A S \in SUBSET Request :
        S # {} => \E r \in S : \A q \in S : ~WaitsFor(r, q)

(* INV-0018-06: a completed transfer never changes accounts or amount and  *)
(* never disappears: a step leaves it as it is or undoes it, even when     *)
(* updates, deletions and status changes of it run at the same time.       *)
CompletedFrozen ==
    [][\A t \in Transfer :
         Completed(t) => row'[t] \in {row[t], [row[t] EXCEPT !.status = "SCHEDULED"]}]_row

(* The runner's promise (AC-0018-02, AC-0018-03) for TransferCompleted: an *)
(* event reaches the handlers only when its request has committed a        *)
(* completion; one whose transaction is rolled back publishes nothing.     *)
EventAfterCommit ==
    \A r \in dispatched : tx[r].pc = "done" /\ tx[r].dir = 1

(* Every request the server accepted ends: it answers, is refused or is    *)
(* cut off, and is never left waiting for a lock.  A request that has left *)
(* idle does not come back to it, and Request is finite, so this is the    *)
(* same as tx[r].pc # "idle" ~> tx[r].pc \in {"done", "failed"} for each r: *)
(* again and again nothing is in flight.                                   *)
InFlight(r) == tx[r].pc \notin {"idle", "done", "failed"}
RequestsEnd == []<>(\A r \in Request : ~InFlight(r))

(* Each request is one atomic entry of the ledger: the balances and the    *)
(* table change together, as BankLedger says (ADR-0003, rule 4).           *)
Ledger == INSTANCE BankLedger WITH balance <- balance, archived <- archived, row <- row
ImplementsLedger == Ledger!Spec
=============================================================================
