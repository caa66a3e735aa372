------------------------ MODULE BankTransfersProofs ------------------------
(***************************************************************************)
(* Proofs about BankTransfers for every set of accounts, transfers and     *)
(* requests: types, the inductive invariant, conservation of the balances. *)
(***************************************************************************)
EXTENDS BankTransfers, CentsLemmas, WellFoundedInduction

USE BankTransfersAssumption DEF Account, Amount, Status

(* No transfer looks like the mark of a row that is not there.             *)
LEMMA AbsentNotRow == Absent \notin Row /\ \A m \in Row : m.status # "ABSENT"
  BY DEF Absent, Row

(* The empty transaction is well typed.                                    *)
LEMMA NoTxType == NoTx \in Tx
  BY DEF Tx, NoTx, Pc, Op, Absent

(* The shapes a transaction takes when it begins and when it has ended. *)
LEMMA FreshTxType ==
    /\ [NoTx EXCEPT !.pc = "failed"] \in Tx
    /\ \A t \in Transfer, new \in Row :
         [NoTx EXCEPT !.pc = "usableFrom", !.op = "create", !.id = t, !.after = new] \in Tx
    /\ \A t \in Transfer, op \in {"changeStatus", "update", "delete"} :
         [NoTx EXCEPT !.pc = "lock", !.op = op, !.id = t] \in Tx
    /\ \A pc \in {"dispatch", "done"}, id \in Transfer \cup {NoId}, dir \in {-1, 0, 1} :
         [NoTx EXCEPT !.pc = pc, !.id = id, !.dir = dir] \in Tx
<1>1. [NoTx EXCEPT !.pc = "failed"] \in Tx
  BY NoTxType DEF Tx, Pc
<1>2. ASSUME NEW t \in Transfer, NEW new \in Row
      PROVE  [NoTx EXCEPT !.pc = "usableFrom", !.op = "create", !.id = t, !.after = new] \in Tx
  BY NoTxType DEF Tx, Pc, Op
<1>3. ASSUME NEW t \in Transfer, NEW op \in {"changeStatus", "update", "delete"}
      PROVE  [NoTx EXCEPT !.pc = "lock", !.op = op, !.id = t] \in Tx
  BY NoTxType DEF Tx, Pc, Op
<1>4. ASSUME NEW pc \in {"dispatch", "done"}, NEW id \in Transfer \cup {NoId},
             NEW dir \in {-1, 0, 1}
      PROVE  [NoTx EXCEPT !.pc = pc, !.id = id, !.dir = dir] \in Tx
  BY NoTxType DEF Tx, Pc
<1>. QED
  BY <1>1, <1>2, <1>3, <1>4

(* A rolled back transaction leaves a typed state. *)
LEMMA RollbackType ==
    ASSUME TypeOK, NEW r \in Request, Rollback(r)
    PROVE  TypeOK'
<1>1. [NoTx EXCEPT !.pc = "failed"] \in Tx
  BY FreshTxType
<1>2. tx' \in [Request -> Tx]
  BY <1>1 DEF TypeOK, Rollback
<1>. QED
  BY <1>2 DEF TypeOK, Rollback, Release

(* A transaction that locks its transfer and goes on leaves a typed state. *)
LEMMA LockedType ==
    ASSUME TypeOK, NEW r \in Request, NEW t \in Tx, t.id \in Transfer, Locked(r, t)
    PROVE  TypeOK'
  BY DEF TypeOK, Locked

(* A transaction that starts to move balances is well typed.               *)
LEMMA MovingType ==
    ASSUME NEW t \in Tx, NEW new \in Row
    PROVE  Moving(t, new) \in Tx /\ Moving(t, new).id = t.id
  BY DEF Moving, Tx, Row, Pc, Ends

(* What a transfer adds to a balance is an integer.                        *)
LEMMA DeltaType ==
    ASSUME NEW m \in Row, NEW dir \in {-1, 0, 1}, NEW a \in Account
    PROVE  Delta(m, dir, a) \in Int
<1>1. m.amount \in Int
  BY DEF Row
<1>2. CASE dir = -1
  BY <1>1, <1>2 DEF Delta
<1>3. CASE dir = 0
  BY <1>1, <1>3 DEF Delta
<1>4. CASE dir = 1
  BY <1>1, <1>4 DEF Delta
<1>. QED
  BY <1>2, <1>3, <1>4

(* A transaction that moves balances has a row to leave. *)
LEMMA MovingRow ==
    ASSUME Inv, NEW r \in Request, Working(r), tx[r].dir # 0
    PROVE  /\ tx[r].after \in Row /\ tx[r].after.from # tx[r].after.to
           /\ tx[r].dir \in {-1, 1}
<1>1. tx[r] \in Tx
  BY DEF Inv, TypeOK
<1>2. tx[r].dir \in {-1, 1}
  BY <1>1 DEF Tx
<1>3. tx[r].after.status \in {"SCHEDULED", "COMPLETED"}
  BY <1>2 DEF Inv, SnapshotCurrent, Snapshot
<1>4. tx[r].after # Absent
  BY <1>3 DEF Absent
<1>. QED
  BY <1>2, <1>4 DEF Inv, SnapshotCurrent, Snapshot

(* One type step per action. *)
LEMMA StepType ==
    ASSUME Inv, NEW r \in Request,
           Create(r) \/ OnTransfer(r) \/ Step(r) \/ Abort(r) \/ LoseEvents(r)
    PROVE  TypeOK'
<1>. USE DEF Inv
<1>. tx[r] \in Tx
  BY DEF TypeOK
<1>a. /\ tx[r].pc \in {"lock", "insert", "move", "commit"} => tx[r].id \in Transfer
      /\ tx[r].pc \in {"insert", "move"} => tx[r].after \in Row
  BY MovingRow DEF StagesFit, StageFits, HoldsRow, NewRow, Working
<1>1. ASSUME Create(r) PROVE TypeOK'
  <2>. PICK t \in Transfer, new \in Row :
         Begin(r, [NoTx EXCEPT !.pc = "usableFrom", !.op = "create", !.id = t, !.after = new])
    BY <1>1 DEF Create
  <2>. QED
    BY FreshTxType DEF Begin, TypeOK
<1>2. ASSUME OnTransfer(r) PROVE TypeOK'
  <2>. PICK t \in Transfer, op \in {"changeStatus", "update", "delete"} :
         Begin(r, [NoTx EXCEPT !.pc = "lock", !.op = op, !.id = t])
    BY <1>2 DEF OnTransfer
  <2>. QED
    BY FreshTxType DEF Begin, TypeOK
<1>3. ASSUME NotFound(r) \/ Abort(r) PROVE TypeOK'
  BY <1>3, RollbackType DEF NotFound, Abort
<1>. DEFINE id == tx[r].id
<1>4. ASSUME tx[r].pc = "lock", LockFree(r) PROVE row[id] \in Row
  BY <1>4, <1>a DEF LockFree, TypeOK
<1>5. ASSUME ChangeStatus(r) PROVE TypeOK'
  <2>1. PICK status \in Status :
          IF row[id].status = status THEN Rollback(r)
          ELSE Locked(r, Moving(tx[r], [row[id] EXCEPT !.status = status]))
    BY <1>5 DEF ChangeStatus
  <2>2. row[id] \in Row
    BY <1>4, <1>5 DEF ChangeStatus
  <2>3. [row[id] EXCEPT !.status = status] \in Row
    BY <2>2 DEF Row
  <2>. QED
    BY <2>1, <2>3, <1>5, <1>a, RollbackType, MovingType, LockedType DEF ChangeStatus
<1>6. ASSUME Update(r) PROVE TypeOK'
  <2>1. PICK new \in Row, accounts \in BOOLEAN :
          \/ Rollback(r)
          \/ Locked(r, [tx[r] EXCEPT !.after = new,
                           !.pc = IF accounts THEN "usableFrom" ELSE "commit"])
    BY <1>6 DEF Update
  <2>. DEFINE t == [tx[r] EXCEPT !.after = new,
                       !.pc = IF accounts THEN "usableFrom" ELSE "commit"]
  <2>2. t \in Tx /\ t.id = id
    BY DEF Tx, Pc
  <2>. QED
    BY <2>1, <2>2, <1>6, <1>a, RollbackType, LockedType DEF Update
<1>7. ASSUME Delete(r) PROVE TypeOK'
  <2>1. [tx[r] EXCEPT !.pc = "commit"] \in Tx /\ [tx[r] EXCEPT !.pc = "commit"].id = id
    BY DEF Tx, Pc
  <2>. QED
    BY <2>1, <1>7, <1>a, RollbackType, LockedType DEF Delete
<1>8. ASSUME AssertFromUsable(r) \/ AssertToUsable(r) PROVE TypeOK'
  <2>1. CASE Rollback(r)
    BY <2>1, RollbackType
  <2>2. CASE /\ \E pc \in Pc : tx' = [tx EXCEPT ![r].pc = pc]
             /\ UNCHANGED <<balance, archived, row, rowLock, accLock, dispatched>>
    <3>1. PICK pc \in Pc : tx' = [tx EXCEPT ![r].pc = pc]
      BY <2>2
    <3>2. [tx[r] EXCEPT !.pc = pc] \in Tx
      BY DEF Tx
    <3>3. tx' = [tx EXCEPT ![r] = [tx[r] EXCEPT !.pc = pc]]
      BY <3>1 DEF TypeOK
    <3>. QED
      BY <2>2, <3>2, <3>3 DEF TypeOK
  <2>. QED
    BY <1>8, <2>1, <2>2 DEF AssertFromUsable, AssertToUsable, AssertUsable, Pc
<1>9. ASSUME Insert(r) PROVE TypeOK'
  <2>1. [tx[r] EXCEPT !.pc = "commit"] \in Tx /\ [tx[r] EXCEPT !.pc = "commit"].id = id
    BY DEF Tx, Pc
  <2>. QED
    BY <2>1, <1>9, <1>a, MovingType, LockedType DEF Insert
<1>10. ASSUME NEW a \in Account, ApplyBalanceDelta(r, a) PROVE TypeOK'
  <2>. DEFINE v == balance[a] + Delta(tx[r].after, tx[r].dir, a)
              pc == IF tx[r].todo = {a} THEN "commit" ELSE "move"
              t == [tx[r] EXCEPT !.draft[a] = v, !.todo = @ \ {a}, !.pc = pc]
  <2>1. v \in Int
    <3>1. tx[r].after \in Row /\ tx[r].dir \in {-1, 0, 1} /\ balance[a] \in Int
      BY <1>10, <1>a DEF TypeOK, Tx, ApplyBalanceDelta
    <3>2. Delta(tx[r].after, tx[r].dir, a) \in Int
      BY <3>1, DeltaType
    <3>. QED
      BY <3>1, <3>2
  <2>2. pc \in Pc
    BY DEF Pc
  <2>. HIDE DEF v, pc
  <2>3. t \in Tx
    BY <2>1, <2>2 DEF Tx
  <2>4. tx' = [tx EXCEPT ![r] = t]
    BY <1>10 DEF ApplyBalanceDelta, TypeOK, v, pc
  <2>. HIDE DEF t
  <2>5. tx' \in [Request -> Tx]
    BY <2>3, <2>4 DEF TypeOK
  <2>. QED
    BY <1>10, <2>5 DEF ApplyBalanceDelta, TypeOK
<1>11. ASSUME Commit(r) PROVE TypeOK'
  <2>1. row' \in [Transfer -> Row \cup {Absent}]
    BY <1>11, <1>a DEF Commit, TypeOK, Tx
  <2>2. balance' \in [Account -> Int]
    BY <1>11 DEF Commit, TypeOK, Tx
  <2>3. tx' \in [Request -> Tx]
    <3>. DEFINE pc == IF tx[r].dir = 1 THEN "dispatch" ELSE "done"
    <3>1. pc \in {"dispatch", "done"} /\ tx[r].id \in Transfer \cup {NoId}
            /\ tx[r].dir \in {-1, 0, 1}
      BY DEF Tx
    <3>. HIDE DEF pc
    <3>2. [NoTx EXCEPT !.pc = pc, !.id = tx[r].id, !.dir = tx[r].dir] \in Tx
      BY <3>1, FreshTxType
    <3>. QED
      BY <1>11, <3>2 DEF Commit, TypeOK, pc
  <2>. QED
    BY <1>11, <2>1, <2>2, <2>3 DEF Commit, Release, TypeOK
<1>12. ASSUME Dispatch(r) \/ LoseEvents(r) PROVE TypeOK'
  <2>1. [tx[r] EXCEPT !.pc = "done"] \in Tx
    BY DEF Tx, Pc
  <2>2. tx' = [tx EXCEPT ![r] = [tx[r] EXCEPT !.pc = "done"]]
    BY <1>12 DEF Dispatch, LoseEvents, TypeOK
  <2>. QED
    BY <1>12, <2>1, <2>2 DEF Dispatch, LoseEvents, TypeOK
<1>. QED
  BY <1>1, <1>2, <1>3, <1>5, <1>6, <1>7, <1>8, <1>9, <1>10, <1>11, <1>12 DEF Step

-----------------------------------------------------------------------------
(* The rest of the invariant, one lemma per kind of step. *)
Rest == LocksMatchWork /\ StagesFit /\ DifferentAccounts /\ SnapshotCurrent

(* What a step of r leaves alone: the stage of every other request. *)
LEMMA OtherRequests ==
    ASSUME NEW r \in Request, NEW q \in Request, tx'[q] = tx[q]
    PROVE  /\ Written(q)' = Written(q)
           /\ HoldsRow(q)' = HoldsRow(q) /\ NewRow(q)' = NewRow(q)
           /\ Editing(q)' = Editing(q) /\ Working(q)' = Working(q)
           /\ StageFits(q)' = StageFits(q)
  BY DEF Written, HoldsRow, NewRow, Editing, Working, StageFits

(* A rollback drops r's locks and its work together.                       *)
LEMMA RollbackRest ==
    ASSUME Inv, NEW r \in Request, Rollback(r)
    PROVE  Rest'
<1>. USE DEF Inv
<1>1. tx'[r] = [NoTx EXCEPT !.pc = "failed"] /\ \A q \in Request \ {r} : tx'[q] = tx[q]
  BY DEF Rollback, TypeOK
<1>2. tx'[r].pc = "failed"
  BY <1>1 DEF NoTx
<1>3. ~HoldsRow(r)' /\ ~NewRow(r)' /\ Written(r)' = {}
  BY <1>2 DEF HoldsRow, Working, Editing, NewRow, Written
<1>4. LocksMatchWork'
  <2>1. ASSUME NEW q \in Request, NEW t \in Transfer
        PROVE  rowLock'[t] = q <=> HoldsRow(q)' /\ tx'[q].id = t
    BY <1>1, <1>3, OtherRequests DEF Rollback, Release, LocksMatchWork
  <2>2. ASSUME NEW q \in Request, NEW a \in Account
        PROVE  accLock'[a] = q <=> a \in Written(q)'
    BY <1>1, <1>3, OtherRequests DEF Rollback, Release, LocksMatchWork
  <2>. QED
    BY <2>1, <2>2 DEF LocksMatchWork
<1>5. StagesFit'
  <2>1. StageFits(r)' /\ NewRowOwned(r)'
    BY <1>2, <1>3 DEF StageFits, NewRowOwned, HoldsRow, Working, Editing
  <2>2. ASSUME NEW q \in Request \ {r} PROVE StageFits(q)' /\ NewRowOwned(q)'
    <3>1. StageFits(q)'
      BY <1>1, OtherRequests DEF StagesFit
    <3>2. ASSUME NewRow(q)'
          PROVE  /\ row'[tx'[q].id] = Absent /\ rowLock'[tx'[q].id] = NoOne
                 /\ \A p \in Request : NewRow(p)' /\ tx'[p].id = tx'[q].id => p = q
      <4>1. NewRow(q) /\ tx'[q] = tx[q] /\ tx[q].id \in Transfer
        BY <1>1, <3>2, OtherRequests DEF StagesFit, StageFits
      <4>2. /\ row[tx[q].id] = Absent /\ rowLock[tx[q].id] = NoOne
            /\ \A p \in Request : NewRow(p) /\ tx[p].id = tx[q].id => p = q
        BY <4>1 DEF StagesFit, NewRowOwned
      <4>3. ASSUME NEW p \in Request, NewRow(p)', tx'[p].id = tx'[q].id PROVE p = q
        BY <1>1, <1>3, <4>1, <4>2, <4>3, OtherRequests
      <4>. QED
        BY <4>1, <4>2, <4>3 DEF Rollback, Release
    <3>. QED
      BY <3>1, <3>2 DEF NewRowOwned
  <2>. QED
    BY <2>1, <2>2 DEF StagesFit
<1>6. DifferentAccounts'
  BY DEF DifferentAccounts, Rollback
<1>7. SnapshotCurrent'
  <2>1. Snapshot(r)'
    BY <1>3 DEF Snapshot, HoldsRow
  <2>2. ASSUME NEW q \in Request \ {r} PROVE Snapshot(q)'
    BY <1>1, OtherRequests DEF Snapshot, SnapshotCurrent, Rollback
  <2>. QED
    BY <2>1, <2>2 DEF SnapshotCurrent
<1>. QED
  BY <1>4, <1>5, <1>6, <1>7 DEF Rest

(* A step that moves only r's own record, and none of its locks. *)
LEMMA TxOnlyRest ==
    ASSUME Inv, NEW r \in Request, NEW t, tx' = [tx EXCEPT ![r] = t],
           UNCHANGED <<balance, row, rowLock, accLock>>,
           HoldsRow(r)' <=> HoldsRow(r), HoldsRow(r) => t.id = tx[r].id,
           Written(r)' = Written(r),
           StageFits(r)', Snapshot(r)',
           NewRow(r)' => \/ NewRow(r) /\ t.id = tx[r].id
                         \/ row[t.id] = Absent /\ rowLock[t.id] = NoOne
                            /\ \A q \in Request : tx[q].id # t.id
    PROVE  Rest'
<1>. USE DEF Inv
<1>1. tx'[r] = t /\ \A q \in Request \ {r} : tx'[q] = tx[q]
  BY DEF TypeOK
<1>2. LocksMatchWork'
  <2>1. ASSUME NEW q \in Request, NEW u \in Transfer
        PROVE  rowLock'[u] = q <=> HoldsRow(q)' /\ tx'[q].id = u
    BY <1>1, OtherRequests DEF LocksMatchWork
  <2>2. ASSUME NEW q \in Request, NEW a \in Account
        PROVE  accLock'[a] = q <=> a \in Written(q)'
    BY <1>1, OtherRequests DEF LocksMatchWork
  <2>. QED
    BY <2>1, <2>2 DEF LocksMatchWork
<1>3. ASSUME NEW q \in Request PROVE StageFits(q)'
  BY <1>1, OtherRequests DEF StagesFit
<1>4. ASSUME NEW q \in Request, NewRow(q)'
      PROVE  /\ row'[tx'[q].id] = Absent /\ rowLock'[tx'[q].id] = NoOne
             /\ \A p \in Request : NewRow(p)' /\ tx'[p].id = tx'[q].id => p = q
  <2>1. row'[tx'[q].id] = Absent /\ rowLock'[tx'[q].id] = NoOne
    BY <1>1, <1>4, OtherRequests DEF StagesFit, NewRowOwned
  <2>2. ASSUME NEW p \in Request, NewRow(p)', tx'[p].id = tx'[q].id PROVE p = q
    BY <1>1, <1>4, <2>2, OtherRequests DEF StagesFit, NewRowOwned
  <2>. QED
    BY <2>1, <2>2
<1>5. StagesFit'
  BY <1>3, <1>4 DEF StagesFit, NewRowOwned
<1>6. SnapshotCurrent'
  <2>1. ASSUME NEW q \in Request \ {r} PROVE Snapshot(q)'
    BY <1>1, OtherRequests DEF Snapshot, SnapshotCurrent
  <2>. QED
    BY <2>1 DEF SnapshotCurrent
<1>. QED
  BY <1>2, <1>5, <1>6 DEF Rest, DifferentAccounts

(* A step in which r takes the row of its transfer. *)
LEMMA LockedRest ==
    ASSUME Inv, NEW r \in Request, NEW t, Locked(r, t),
           t.id = tx[r].id, t.id \in Transfer, rowLock[t.id] = NoOne,
           ~HoldsRow(r), HoldsRow(r)', ~NewRow(r)', Written(r) = {}, Written(r)' = {},
           StageFits(r)', Snapshot(r)',
           \A q \in Request \ {r} : NewRow(q) => tx[q].id # t.id
    PROVE  Rest'
<1>. USE DEF Inv
<1>1. tx'[r] = t /\ \A q \in Request \ {r} : tx'[q] = tx[q]
  BY DEF TypeOK, Locked
<1>2. LocksMatchWork'
  <2>1. ASSUME NEW q \in Request, NEW u \in Transfer
        PROVE  rowLock'[u] = q <=> HoldsRow(q)' /\ tx'[q].id = u
    <3>1. CASE q = r
      BY <1>1, <3>1 DEF LocksMatchWork, Locked, TypeOK
    <3>2. CASE q # r
      BY <1>1, <3>2, OtherRequests DEF LocksMatchWork, Locked, TypeOK
    <3>. QED
      BY <3>1, <3>2
  <2>2. ASSUME NEW q \in Request, NEW a \in Account
        PROVE  accLock'[a] = q <=> a \in Written(q)'
    BY <1>1, OtherRequests DEF LocksMatchWork, Locked
  <2>. QED
    BY <2>1, <2>2 DEF LocksMatchWork
<1>3. ASSUME NEW q \in Request PROVE StageFits(q)'
  BY <1>1, OtherRequests DEF StagesFit
<1>4. ASSUME NEW q \in Request, NewRow(q)'
      PROVE  /\ row'[tx'[q].id] = Absent /\ rowLock'[tx'[q].id] = NoOne
             /\ \A p \in Request : NewRow(p)' /\ tx'[p].id = tx'[q].id => p = q
  <2>1. q # r /\ NewRow(q) /\ tx'[q] = tx[q] /\ tx[q].id \in Transfer
    BY <1>1, <1>4, OtherRequests DEF StagesFit, StageFits
  <2>2. row'[tx'[q].id] = Absent /\ rowLock'[tx'[q].id] = NoOne
    BY <2>1 DEF StagesFit, NewRowOwned, Locked, TypeOK
  <2>3. ASSUME NEW p \in Request, NewRow(p)', tx'[p].id = tx'[q].id PROVE p = q
    BY <1>1, <2>1, <2>3, OtherRequests DEF StagesFit, NewRowOwned
  <2>. QED
    BY <2>2, <2>3
<1>5. StagesFit'
  BY <1>3, <1>4 DEF StagesFit, NewRowOwned
<1>6. SnapshotCurrent'
  <2>1. ASSUME NEW q \in Request \ {r} PROVE Snapshot(q)'
    BY <1>1, OtherRequests DEF Snapshot, SnapshotCurrent, Locked
  <2>. QED
    BY <2>1 DEF SnapshotCurrent
<1>. QED
  BY <1>2, <1>5, <1>6 DEF Rest, DifferentAccounts, Locked

(* A request that begins holds nothing; a new transfer is its own.         *)
LEMMA BeginRest ==
    ASSUME Inv, NEW r \in Request, Create(r) \/ OnTransfer(r)
    PROVE  Rest'
<1>. USE DEF Inv
<1>1. CASE Create(r)
  <2>. PICK t \in Transfer, new \in Row :
         /\ Fresh(t) /\ new.from # new.to
         /\ Begin(r, [NoTx EXCEPT !.pc = "usableFrom", !.op = "create", !.id = t, !.after = new])
    BY <1>1 DEF Create
  <2>. DEFINE b == [NoTx EXCEPT !.pc = "usableFrom", !.op = "create", !.id = t, !.after = new]
  <2>1. /\ b.pc = "usableFrom" /\ b.op = "create" /\ b.id = t /\ b.after = new
        /\ b.dir = 0 /\ b.todo = {}
    BY DEF NoTx
  <2>. HIDE DEF b
  <2>2. /\ tx' = [tx EXCEPT ![r] = b] /\ tx'[r] = b /\ tx[r].pc = "idle"
        /\ UNCHANGED <<balance, row, rowLock, accLock>>
    BY DEF Begin, b, TypeOK
  <2>3. /\ ~HoldsRow(r) /\ ~HoldsRow(r)' /\ Written(r) = {} /\ Written(r)' = {}
        /\ ~Working(r)' /\ ~Editing(r)'
    BY <2>1, <2>2 DEF HoldsRow, Working, Editing, Written
  <2>4. StageFits(r)'
    BY <2>1, <2>2, <2>3 DEF StageFits
  <2>5. Snapshot(r)'
    BY <2>3 DEF Snapshot
  <2>6. rowLock[t] = NoOne
    <3>1. \A q \in Request : rowLock[t] # q
      BY DEF LocksMatchWork, Fresh
    <3>. QED
      BY <3>1 DEF TypeOK
  <2>. QED
    BY <2>1, <2>2, <2>3, <2>4, <2>5, <2>6, TxOnlyRest DEF Fresh
<1>2. CASE OnTransfer(r)
  <2>. PICK t \in Transfer, op \in {"changeStatus", "update", "delete"} :
         Begin(r, [NoTx EXCEPT !.pc = "lock", !.op = op, !.id = t])
    BY <1>2 DEF OnTransfer
  <2>. DEFINE b == [NoTx EXCEPT !.pc = "lock", !.op = op, !.id = t]
  <2>1. /\ b.pc = "lock" /\ b.op = op /\ b.id = t /\ b.after = Absent
        /\ b.dir = 0 /\ b.todo = {}
    BY DEF NoTx
  <2>. HIDE DEF b
  <2>2. /\ tx' = [tx EXCEPT ![r] = b] /\ tx'[r] = b /\ tx[r].pc = "idle"
        /\ UNCHANGED <<balance, row, rowLock, accLock>>
    BY DEF Begin, b, TypeOK
  <2>3. /\ ~HoldsRow(r) /\ ~HoldsRow(r)' /\ Written(r) = {} /\ Written(r)' = {}
        /\ ~Working(r)' /\ ~Editing(r)' /\ ~NewRow(r)'
    BY <2>1, <2>2 DEF HoldsRow, Working, Editing, Written, NewRow
  <2>4. StageFits(r)'
    BY <2>1, <2>2, <2>3 DEF StageFits
  <2>5. Snapshot(r)'
    BY <2>3 DEF Snapshot
  <2>. QED
    BY <2>1, <2>2, <2>3, <2>4, <2>5, TxOnlyRest
<1>. QED
  BY <1>1, <1>2

(* Reading the two accounts changes no lock and no row.                    *)
LEMMA UsableRest ==
    ASSUME Inv, NEW r \in Request, AssertFromUsable(r) \/ AssertToUsable(r)
    PROVE  Rest'
<1>. USE DEF Inv
<1>1. CASE Rollback(r)
  BY <1>1, RollbackRest
<1>2. CASE ~Rollback(r)
  <2>1. PICK next \in {"usableTo", "insert", "commit"} :
          /\ tx[r].pc \in {"usableFrom", "usableTo"}
          /\ tx' = [tx EXCEPT ![r].pc = next]
          /\ next = "insert" => tx[r].op = "create"
          /\ next = "commit" => tx[r].op # "create"
          /\ UNCHANGED <<balance, row, rowLock, accLock>>
    BY <1>2 DEF AssertFromUsable, AssertToUsable, AssertUsable
  <2>. DEFINE b == [tx[r] EXCEPT !.pc = next]
  <2>2. tx' = [tx EXCEPT ![r] = b] /\ tx'[r] = b
    BY <2>1 DEF TypeOK
  <2>3. tx[r] \in Tx /\ tx[r].op \in {"create", "update"} /\ StageFits(r)
    BY <2>1 DEF TypeOK, StagesFit, StageFits
  <2>4. /\ b.pc = next /\ b.op = tx[r].op /\ b.id = tx[r].id /\ b.after = tx[r].after
        /\ b.dir = tx[r].dir /\ b.todo = tx[r].todo
    BY <2>3 DEF Tx
  <2>. HIDE DEF b
  <2>5. tx[r].dir = 0 /\ tx[r].todo = {}
    BY <2>1, <2>3 DEF StageFits, Editing, NewRow
  <2>6. HoldsRow(r)' <=> HoldsRow(r)
    BY <2>1, <2>2, <2>3, <2>4 DEF HoldsRow, Working, Editing
  <2>7. Written(r) = {} /\ Written(r)' = {}
    BY <2>1, <2>2, <2>4, <2>5 DEF Written
  <2>8. NewRow(r)' <=> NewRow(r)
    BY <2>1, <2>2, <2>3, <2>4 DEF NewRow
  <2>9. StageFits(r)'
    BY <2>1, <2>2, <2>3, <2>4, <2>5 DEF StageFits, HoldsRow, Working, Editing, NewRow
  <2>10. Snapshot(r)'
    <3>1. Snapshot(r)
      BY DEF SnapshotCurrent
    <3>2. Working(r)' => Editing(r)
      BY <2>1, <2>2, <2>3, <2>4 DEF Working, Editing
    <3>3. Editing(r)' => Editing(r)
      BY <2>1, <2>2, <2>3, <2>4 DEF Working, Editing
    <3>. QED
      BY <2>1, <2>2, <2>3, <2>4, <2>5, <2>7, <3>1, <3>2, <3>3 DEF Snapshot, StageFits
  <2>11. UNCHANGED <<balance, row, rowLock, accLock>>
    BY <2>1
  <2>12. Written(r)' = Written(r)
    BY <2>7
  <2>. QED
    BY <2>2, <2>4, <2>6, <2>8, <2>9, <2>10, <2>11, <2>12, TxOnlyRest
<1>. QED
  BY <1>1, <1>2

(* Handing the event over, or losing it, disturbs no other request.        *)
LEMMA DispatchRest ==
    ASSUME Inv, NEW r \in Request, Dispatch(r) \/ LoseEvents(r)
    PROVE  Rest'
<1>. USE DEF Inv
<1>. DEFINE b == [tx[r] EXCEPT !.pc = "done"]
<1>0. tx[r] \in Tx
  BY DEF TypeOK
<1>1. /\ tx' = [tx EXCEPT ![r] = b] /\ tx'[r] = b /\ tx[r].pc = "dispatch" /\ b.pc = "done"
      /\ UNCHANGED <<balance, row, rowLock, accLock>>
  BY <1>0 DEF Dispatch, LoseEvents, TypeOK, Tx
<1>. HIDE DEF b
<1>2. /\ ~HoldsRow(r) /\ ~HoldsRow(r)' /\ Written(r) = {} /\ Written(r)' = {}
      /\ ~Working(r)' /\ ~Editing(r)' /\ ~NewRow(r)'
  BY <1>1 DEF HoldsRow, Working, Editing, Written, NewRow
<1>3. StageFits(r)' /\ Snapshot(r)'
  BY <1>1, <1>2 DEF StageFits, Snapshot
<1>. QED
  BY <1>1, <1>2, <1>3, TxOnlyRest

(* The row r has just locked belongs to no request that is creating one. *)
LEMMA NotSomeonesNewRow ==
    ASSUME Inv, NEW r \in Request, tx[r].pc = "lock", LockFree(r)
    PROVE  /\ tx[r].id \in Transfer /\ row[tx[r].id] \in Row
           /\ row[tx[r].id].from # row[tx[r].id].to
           /\ ~HoldsRow(r) /\ Written(r) = {} /\ rowLock[tx[r].id] = NoOne
           /\ \A q \in Request \ {r} : NewRow(q) => tx[q].id # tx[r].id
<1>. USE DEF Inv
<1>1. tx[r].id \in Transfer /\ row[tx[r].id] # Absent /\ rowLock[tx[r].id] = NoOne
  BY DEF StagesFit, StageFits, LockFree
<1>2. row[tx[r].id] \in Row /\ row[tx[r].id].from # row[tx[r].id].to
  BY <1>1 DEF TypeOK, DifferentAccounts
<1>3. ~HoldsRow(r) /\ Written(r) = {}
  BY DEF HoldsRow, Working, Editing, Written
<1>4. \A q \in Request \ {r} : NewRow(q) => tx[q].id # tx[r].id
  BY <1>1 DEF StagesFit, NewRowOwned
<1>. QED
  BY <1>1, <1>2, <1>3, <1>4

(* What Moving does to a record, field by field. *)
LEMMA MovingFields ==
    ASSUME NEW t \in Tx, NEW new \in Row
    PROVE  LET m == Moving(t, new) IN
           /\ m.pc = "move" /\ m.op = t.op /\ m.id = t.id /\ m.after = new
           /\ m.todo = Ends(new) /\ m.todo # {}
           /\ m.dir = IF new.status = "COMPLETED" THEN 1 ELSE -1
  BY DEF Moving, Tx, Ends

(* A request that starts to move has locked no account yet. *)
LEMMA MovingStage ==
    ASSUME NEW r \in Request, NEW t \in Tx, NEW new \in Row, tx'[r] = Moving(t, new),
           t.id \in Transfer
    PROVE  HoldsRow(r)' /\ ~NewRow(r)' /\ ~Editing(r)' /\ Written(r)' = {} /\ StageFits(r)'
<1>1. /\ tx'[r].pc = "move" /\ tx'[r].id \in Transfer /\ tx'[r].after = new
      /\ tx'[r].todo = Ends(new) /\ tx'[r].dir # 0
  BY MovingFields
<1>. QED
  BY <1>1 DEF HoldsRow, NewRow, Working, Editing, Written, StageFits

(* A status change moves the balances under the row it has locked.         *)
LEMMA ChangeStatusRest ==
    ASSUME Inv, NEW r \in Request, ChangeStatus(r)
    PROVE  Rest'
<1>. USE DEF Inv
<1>. DEFINE old == row[tx[r].id]
<1>1. PICK status \in Status :
        IF old.status = status THEN Rollback(r)
        ELSE Locked(r, Moving(tx[r], [old EXCEPT !.status = status]))
  BY DEF ChangeStatus
<1>. DEFINE new == [old EXCEPT !.status = status]
            t == Moving(tx[r], new)
<1>2. /\ tx[r].id \in Transfer /\ old \in Row /\ old.from # old.to /\ tx[r] \in Tx
      /\ ~HoldsRow(r) /\ Written(r) = {} /\ rowLock[tx[r].id] = NoOne
      /\ \A q \in Request \ {r} : NewRow(q) => tx[q].id # tx[r].id
  BY NotSomeonesNewRow DEF ChangeStatus, TypeOK
<1>3. CASE old.status = status
  BY <1>1, <1>3, RollbackRest
<1>4. CASE old.status # status
  <2>1. /\ new \in Row /\ new.from # new.to /\ new.status = status
        /\ old.status \in Status /\ old = [new EXCEPT !.status = old.status]
    BY <1>2 DEF Row
  <2>2. Locked(r, t)
    BY <1>1, <1>4
  <2>3. tx'[r] = t /\ row' = row
    BY <2>2 DEF Locked, TypeOK
  <2>. HIDE DEF new
  <2>4. /\ t.id = tx[r].id /\ t.after = new
        /\ t.dir = IF new.status = "COMPLETED" THEN 1 ELSE -1
    BY <1>2, <2>1, MovingFields
  <2>5. HoldsRow(r)' /\ ~NewRow(r)' /\ ~Editing(r)' /\ Written(r)' = {} /\ StageFits(r)'
    BY <1>2, <2>1, <2>3, MovingStage
  <2>. HIDE DEF t
  <2>6. Snapshot(r)'
    BY <1>4, <2>1, <2>3, <2>4, <2>5 DEF Snapshot
  <2>. QED
    BY <1>2, <2>2, <2>4, <2>5, <2>6, LockedRest
<1>. QED
  BY <1>3, <1>4

(* An edit goes on from a scheduled row it has locked.                     *)
LEMMA UpdateRest ==
    ASSUME Inv, NEW r \in Request, Update(r)
    PROVE  Rest'
<1>. USE DEF Inv
<1>. DEFINE old == row[tx[r].id]
<1>1. PICK new \in Row, movement \in BOOLEAN, accounts \in BOOLEAN :
        /\ new.status = old.status
        /\ new # old => movement
        /\ accounts => movement
        /\ IF (old.status = "COMPLETED" /\ movement) \/ new.from = new.to
           THEN Rollback(r)
           ELSE Locked(r, [tx[r] EXCEPT !.after = new,
                             !.pc = IF accounts THEN "usableFrom" ELSE "commit"])
  BY DEF Update
<1>. DEFINE t == [tx[r] EXCEPT !.after = new, !.pc = IF accounts THEN "usableFrom" ELSE "commit"]
<1>2. /\ tx[r].id \in Transfer /\ old \in Row /\ tx[r] \in Tx
      /\ ~HoldsRow(r) /\ Written(r) = {} /\ rowLock[tx[r].id] = NoOne
      /\ \A q \in Request \ {r} : NewRow(q) => tx[q].id # tx[r].id
  BY NotSomeonesNewRow DEF Update, TypeOK
<1>3. CASE (old.status = "COMPLETED" /\ movement) \/ new.from = new.to
  BY <1>1, <1>3, RollbackRest
<1>4. CASE ~((old.status = "COMPLETED" /\ movement) \/ new.from = new.to)
  <2>1. Locked(r, t)
    BY <1>1, <1>4
  <2>2. tx[r].todo = {} /\ tx[r].dir = 0 /\ tx[r].op = "update"
    BY DEF StagesFit, StageFits, Update
  <2>3. /\ t.pc = IF accounts THEN "usableFrom" ELSE "commit"
        /\ t.op = "update" /\ t.id = tx[r].id /\ t.after = new /\ t.dir = 0 /\ t.todo = {}
    BY <1>2, <2>2 DEF Tx
  <2>. HIDE DEF t
  <2>4. tx'[r] = t /\ row' = row
    BY <2>1 DEF Locked, TypeOK
  <2>5. /\ HoldsRow(r)' /\ ~NewRow(r)' /\ Written(r)' = {}
        /\ Editing(r)' => accounts
    BY <2>3, <2>4 DEF HoldsRow, NewRow, Working, Editing, Written
  <2>6. StageFits(r)'
    BY <1>2, <1>4, <2>3, <2>4 DEF StageFits, HoldsRow, NewRow, Working, Editing
  <2>7. old.status = "SCHEDULED" \/ old.status = "COMPLETED"
    BY <1>2 DEF Row
  <2>8. Snapshot(r)'
    BY <1>1, <1>4, <2>3, <2>4, <2>5, <2>7 DEF Snapshot
  <2>. QED
    BY <1>2, <2>1, <2>3, <2>5, <2>6, <2>8, LockedRest
<1>. QED
  BY <1>3, <1>4

(* A deletion goes on from a scheduled row it has locked.                  *)
LEMMA DeleteRest ==
    ASSUME Inv, NEW r \in Request, Delete(r)
    PROVE  Rest'
<1>. USE DEF Inv
<1>. DEFINE old == row[tx[r].id]
            t == [tx[r] EXCEPT !.pc = "commit"]
<1>1. /\ tx[r].id \in Transfer /\ old \in Row /\ tx[r] \in Tx
      /\ ~HoldsRow(r) /\ Written(r) = {} /\ rowLock[tx[r].id] = NoOne
      /\ \A q \in Request \ {r} : NewRow(q) => tx[q].id # tx[r].id
  BY NotSomeonesNewRow DEF Delete, TypeOK
<1>2. CASE old.status = "COMPLETED"
  BY <1>2, RollbackRest DEF Delete
<1>3. CASE old.status # "COMPLETED"
  <2>1. Locked(r, t)
    BY <1>3 DEF Delete
  <2>2. tx[r].todo = {} /\ tx[r].dir = 0 /\ tx[r].after = Absent
    BY DEF StagesFit, StageFits, Delete
  <2>3. /\ t.pc = "commit" /\ t.id = tx[r].id /\ t.after = Absent /\ t.dir = 0 /\ t.todo = {}
    BY <1>1, <2>2 DEF Tx
  <2>. HIDE DEF t
  <2>4. tx'[r] = t /\ row' = row
    BY <2>1 DEF Locked, TypeOK
  <2>5. HoldsRow(r)' /\ ~NewRow(r)' /\ ~Editing(r)' /\ Written(r)' = {}
    BY <2>3, <2>4 DEF HoldsRow, NewRow, Working, Editing, Written
  <2>6. StageFits(r)'
    BY <1>1, <2>3, <2>4, <2>5 DEF StageFits
  <2>7. Snapshot(r)'
    BY <1>3, <2>3, <2>4, <2>5 DEF Snapshot, Absent
  <2>. QED
    BY <1>1, <2>1, <2>3, <2>5, <2>6, <2>7, LockedRest
<1>. QED
  BY <1>2, <1>3

(* The inserted row is locked by the request that created it.              *)
LEMMA InsertRest ==
    ASSUME Inv, NEW r \in Request, Insert(r)
    PROVE  Rest'
<1>. USE DEF Inv
<1>. DEFINE new == tx[r].after
<1>1. NewRow(r) /\ tx[r] \in Tx
  BY DEF Insert, StagesFit, StageFits, NewRow, TypeOK
<1>2. /\ tx[r].id \in Transfer /\ row[tx[r].id] = Absent /\ rowLock[tx[r].id] = NoOne
      /\ \A q \in Request \ {r} : NewRow(q) => tx[q].id # tx[r].id
      /\ new \in Row /\ new.from # new.to /\ tx[r].todo = {} /\ tx[r].dir = 0
  BY <1>1 DEF StagesFit, StageFits, NewRowOwned
<1>3. ~HoldsRow(r) /\ Written(r) = {}
  BY <1>2 DEF Insert, HoldsRow, Working, Editing, Written
<1>4. CASE new.status = "COMPLETED"
  <2>. DEFINE t == Moving(tx[r], new)
  <2>1. Locked(r, t)
    BY <1>4 DEF Insert
  <2>2. t.id = tx[r].id /\ t.after = new /\ t.dir = 1
    BY <1>1, <1>2, <1>4, MovingFields
  <2>3. tx'[r] = t /\ row' = row
    BY <2>1 DEF Locked, TypeOK
  <2>4. HoldsRow(r)' /\ ~NewRow(r)' /\ ~Editing(r)' /\ Written(r)' = {} /\ StageFits(r)'
    BY <1>1, <1>2, <2>3, MovingStage
  <2>. HIDE DEF t
  <2>5. Snapshot(r)'
    BY <1>2, <1>4, <2>2, <2>3, <2>4 DEF Snapshot
  <2>. QED
    BY <1>2, <1>3, <2>1, <2>2, <2>4, <2>5, LockedRest
<1>5. CASE new.status # "COMPLETED"
  <2>. DEFINE t == [tx[r] EXCEPT !.pc = "commit"]
  <2>1. Locked(r, t)
    BY <1>5 DEF Insert
  <2>2. t.pc = "commit" /\ t.id = tx[r].id /\ t.after = new /\ t.dir = 0 /\ t.todo = {}
    BY <1>1, <1>2 DEF Tx
  <2>. HIDE DEF t
  <2>3. tx'[r] = t /\ row' = row
    BY <2>1 DEF Locked, TypeOK
  <2>4. HoldsRow(r)' /\ ~NewRow(r)' /\ ~Editing(r)' /\ Written(r)' = {}
    BY <2>2, <2>3 DEF HoldsRow, NewRow, Working, Editing, Written
  <2>5. StageFits(r)'
    BY <1>2, <2>2, <2>3, <2>4 DEF StageFits
  <2>6. Snapshot(r)'
    BY <1>2, <1>5, <2>2, <2>3, <2>4 DEF Snapshot, Absent
  <2>. QED
    BY <1>2, <1>3, <2>1, <2>2, <2>4, <2>5, <2>6, LockedRest
<1>. QED
  BY <1>4, <1>5

(* The balance r reads under the account's lock is the committed one.      *)
LEMMA ApplyBalanceDeltaRest ==
    ASSUME Inv, NEW r \in Request, NEW a \in Account, ApplyBalanceDelta(r, a)
    PROVE  Rest'
<1>. USE DEF Inv
<1>. DEFINE pc == IF tx[r].todo = {a} THEN "commit" ELSE "move"
            v  == balance[a] + Delta(tx[r].after, tx[r].dir, a)
            t  == [tx[r] EXCEPT !.draft[a] = v, !.todo = @ \ {a}, !.pc = pc]
<1>1. tx[r] \in Tx /\ StageFits(r) /\ Snapshot(r) /\ tx[r].pc = "move" /\ Working(r)
  BY DEF TypeOK, StagesFit, SnapshotCurrent, ApplyBalanceDelta, Working
<1>2. tx' = [tx EXCEPT ![r] = t] /\ tx'[r] = t
  BY DEF ApplyBalanceDelta, TypeOK
<1>3. /\ t.pc \in {"move", "commit"} /\ t.op = tx[r].op /\ t.id = tx[r].id
      /\ t.after = tx[r].after /\ t.dir = tx[r].dir /\ t.todo = tx[r].todo \ {a}
      /\ t.pc = pc /\ t.draft[a] = v /\ \A b \in Account \ {a} : t.draft[b] = tx[r].draft[b]
  BY <1>1 DEF Tx
<1>4. /\ a \in tx[r].todo /\ accLock[a] = NoOne /\ accLock' = [accLock EXCEPT ![a] = r]
      /\ UNCHANGED <<balance, row, rowLock>>
  BY DEF ApplyBalanceDelta
<1>5. tx[r].dir # 0 /\ tx[r].todo \subseteq Ends(tx[r].after)
  BY <1>1 DEF StageFits
<1>. HIDE DEF t
<1>6. \A q \in Request \ {r} : tx'[q] = tx[q]
  BY <1>2 DEF TypeOK
<1>7. /\ Working(r)' /\ HoldsRow(r) /\ HoldsRow(r)' /\ ~NewRow(r)' /\ ~Editing(r)'
  BY <1>1, <1>2, <1>3 DEF Working, HoldsRow, NewRow, Editing
<1>8. Written(r)' = Written(r) \cup {a}
  BY <1>1, <1>2, <1>3, <1>4, <1>5 DEF Written
<1>9. LocksMatchWork'
  <2>1. ASSUME NEW q \in Request, NEW u \in Transfer
        PROVE  rowLock'[u] = q <=> HoldsRow(q)' /\ tx'[q].id = u
    <3>1. CASE q = r
      BY <1>2, <1>3, <1>4, <1>7, <3>1 DEF LocksMatchWork
    <3>2. CASE q # r
      BY <1>4, <1>6, <3>2, OtherRequests DEF LocksMatchWork
    <3>. QED
      BY <3>1, <3>2
  <2>2. ASSUME NEW q \in Request, NEW b \in Account
        PROVE  accLock'[b] = q <=> b \in Written(q)'
    <3>1. CASE q = r
      BY <1>4, <1>8, <3>1 DEF LocksMatchWork, TypeOK
    <3>2. CASE q # r
      BY <1>4, <1>6, <3>2, OtherRequests DEF LocksMatchWork, TypeOK
    <3>. QED
      BY <3>1, <3>2
  <2>. QED
    BY <2>1, <2>2 DEF LocksMatchWork
<1>10. StagesFit'
  <2>1. StageFits(r)'
    <3>1. pc = "commit" => tx[r].todo \ {a} = {}
      OBVIOUS
    <3>. QED
      BY <1>1, <1>2, <1>3, <1>5, <1>7, <3>1 DEF StageFits
  <2>2. ASSUME NEW q \in Request, NewRow(q)'
        PROVE  /\ row'[tx'[q].id] = Absent /\ rowLock'[tx'[q].id] = NoOne
               /\ \A p \in Request : NewRow(p)' /\ tx'[p].id = tx'[q].id => p = q
    <3>1. q # r /\ NewRow(q) /\ tx'[q] = tx[q]
      BY <1>6, <1>7, <2>2, OtherRequests
    <3>2. ASSUME NEW p \in Request, NewRow(p)', tx'[p].id = tx'[q].id PROVE p = q
      BY <1>6, <1>7, <3>1, <3>2, OtherRequests DEF StagesFit, NewRowOwned
    <3>. QED
      BY <1>4, <3>1, <3>2 DEF StagesFit, NewRowOwned
  <2>3. ASSUME NEW q \in Request PROVE StageFits(q)'
    BY <1>6, <2>1, OtherRequests DEF StagesFit
  <2>. QED
    BY <2>2, <2>3 DEF StagesFit, NewRowOwned
<1>11. SnapshotCurrent'
  <2>1. ASSUME NEW q \in Request \ {r} PROVE Snapshot(q)'
    BY <1>4, <1>6, OtherRequests DEF Snapshot, SnapshotCurrent
  <2>2. ASSUME NEW b \in Written(r)'
        PROVE  tx'[r].draft[b] = balance'[b] + Delta(tx'[r].after, tx'[r].dir, b)
    <3>1. CASE b = a
      BY <1>2, <1>3, <1>4, <3>1 DEF Delta
    <3>2. CASE b # a
      <4>0. tx[r].after \in Row
        BY <1>1, <1>5, MovingRow
      <4>1. b \in Written(r) /\ b \in Account
        BY <1>8, <2>2, <3>2, <4>0 DEF Written, Ends, Row
      <4>. QED
        BY <1>1, <1>2, <1>3, <1>4, <3>2, <4>1 DEF Snapshot, Delta
    <3>. QED
      BY <3>1, <3>2
  <2>3. Snapshot(r)'
    <3>1. /\ tx'[r].id = tx[r].id /\ tx'[r].after = tx[r].after /\ tx'[r].dir = tx[r].dir
          /\ row' = row
      BY <1>2, <1>3, <1>4
    <3>2. Snapshot(r) /\ Working(r)
      BY <1>1
    <3>. HIDE DEF pc, v, Inv
    <3>. QED
      BY <1>7, <2>2, <3>1, <3>2 DEF Snapshot
  <2>. QED
    BY <2>1, <2>3 DEF SnapshotCurrent
<1>. QED
  BY <1>4, <1>9, <1>10, <1>11 DEF Rest, DifferentAccounts

(* A commit touches nothing another request has read under its locks.      *)
LEMMA CommitRest ==
    ASSUME Inv, NEW r \in Request, Commit(r)
    PROVE  Rest'
<1>. USE DEF Inv
<1>1. /\ tx[r] \in Tx /\ StageFits(r) /\ Snapshot(r) /\ Working(r) /\ HoldsRow(r)
      /\ tx[r].id \in Transfer /\ rowLock[tx[r].id] = r
  BY DEF TypeOK, StagesFit, StageFits, SnapshotCurrent, LocksMatchWork, Commit, Working, HoldsRow
<1>2. tx'[r].pc \in {"dispatch", "done"} /\ \A q \in Request \ {r} : tx'[q] = tx[q]
  BY DEF Commit, TypeOK, NoTx
<1>3. /\ ~HoldsRow(r)' /\ ~NewRow(r)' /\ ~Working(r)' /\ ~Editing(r)' /\ Written(r)' = {}
  BY <1>2 DEF HoldsRow, Working, Editing, NewRow, Written
<1>4. LocksMatchWork'
  <2>1. ASSUME NEW q \in Request, NEW t \in Transfer
        PROVE  rowLock'[t] = q <=> HoldsRow(q)' /\ tx'[q].id = t
    BY <1>2, <1>3, OtherRequests DEF Commit, Release, LocksMatchWork
  <2>2. ASSUME NEW q \in Request, NEW a \in Account
        PROVE  accLock'[a] = q <=> a \in Written(q)'
    BY <1>2, <1>3, OtherRequests DEF Commit, Release, LocksMatchWork
  <2>. QED
    BY <2>1, <2>2 DEF LocksMatchWork
<1>5. ASSUME NEW q \in Request \ {r}, HoldsRow(q) \/ NewRow(q)
      PROVE  row'[tx[q].id] = row[tx[q].id]
  <2>1. tx[q].id \in Transfer
    BY <1>5 DEF StagesFit, StageFits
  <2>2. rowLock[tx[q].id] # r
    BY <1>5, <2>1 DEF StagesFit, NewRowOwned, LocksMatchWork
  <2>. QED
    BY <1>1, <2>1, <2>2 DEF Commit, TypeOK
<1>6. ASSUME NEW q \in Request \ {r}, NEW a \in Account, a \in Written(q)
      PROVE  balance'[a] = balance[a]
  BY <1>6 DEF LocksMatchWork, Commit
<1>7. StagesFit'
  <2>1. StageFits(r)' /\ NewRowOwned(r)'
    BY <1>2, <1>3 DEF StageFits, NewRowOwned
  <2>2. ASSUME NEW q \in Request \ {r} PROVE StageFits(q)' /\ NewRowOwned(q)'
    <3>1. StageFits(q)'
      BY <1>2, OtherRequests DEF StagesFit
    <3>2. ASSUME NewRow(q)'
          PROVE  /\ row'[tx'[q].id] = Absent /\ rowLock'[tx'[q].id] = NoOne
                 /\ \A p \in Request : NewRow(p)' /\ tx'[p].id = tx'[q].id => p = q
      <4>1. NewRow(q) /\ tx'[q] = tx[q] /\ tx[q].id \in Transfer
        BY <1>2, <3>2, OtherRequests DEF StagesFit, StageFits
      <4>2. /\ row[tx[q].id] = Absent /\ rowLock[tx[q].id] = NoOne
            /\ \A p \in Request : NewRow(p) /\ tx[p].id = tx[q].id => p = q
        BY <4>1 DEF StagesFit, NewRowOwned
      <4>3. ASSUME NEW p \in Request, NewRow(p)', tx'[p].id = tx'[q].id PROVE p = q
        BY <1>2, <1>3, <4>1, <4>2, <4>3, OtherRequests
      <4>. QED
        BY <1>5, <4>1, <4>2, <4>3 DEF Commit, Release
    <3>. QED
      BY <3>1, <3>2 DEF NewRowOwned
  <2>. QED
    BY <2>1, <2>2 DEF StagesFit
<1>8. DifferentAccounts'
  BY <1>1 DEF DifferentAccounts, Commit, Snapshot, TypeOK
<1>9. SnapshotCurrent'
  <2>1. Snapshot(r)'
    BY <1>3 DEF Snapshot
  <2>2. ASSUME NEW q \in Request \ {r} PROVE Snapshot(q)'
    <3>1. /\ Written(q)' = Written(q) /\ (Editing(q)' <=> Editing(q))
          /\ (Working(q)' <=> Working(q)) /\ tx'[q] = tx[q] /\ Snapshot(q)
      BY <1>2, OtherRequests DEF SnapshotCurrent
    <3>2. ASSUME NEW a \in Written(q)
          PROVE  tx'[q].draft[a] = balance'[a] + Delta(tx'[q].after, tx'[q].dir, a)
      <4>1. a \in Account
        BY <3>2, MovingRow DEF Written, Working, Ends, Row
      <4>. QED
        BY <1>6, <3>1, <3>2, <4>1 DEF Snapshot, Delta
    <3>3. Working(q) \/ Editing(q) => row'[tx[q].id] = row[tx[q].id]
      BY <1>5 DEF HoldsRow
    <3>. QED
      BY <3>1, <3>2, <3>3 DEF Snapshot
  <2>. QED
    BY <2>1, <2>2 DEF SnapshotCurrent
<1>. QED
  BY <1>4, <1>7, <1>8, <1>9 DEF Rest

(* Archiving an account touches no balance, row or lock.                   *)
LEMMA SetArchivedInv ==
    ASSUME Inv, NEW a \in Account, SetArchived(a)
    PROVE  Inv'
<1>. USE DEF Inv
<1>1. TypeOK'
  BY DEF TypeOK, SetArchived
<1>2. \A q \in Request : tx'[q] = tx[q]
  BY DEF SetArchived
<1>3. LocksMatchWork'
  BY DEF SetArchived, LocksMatchWork, HoldsRow, Working, Editing, Written
<1>4. StagesFit'
  <2>1. ASSUME NEW q \in Request PROVE StageFits(q)' /\ (NewRow(q)' <=> NewRow(q))
    BY <1>2, OtherRequests DEF StagesFit
  <2>. QED
    BY <1>2, <2>1 DEF SetArchived, StagesFit, NewRowOwned
<1>5. SnapshotCurrent'
  BY <1>2, OtherRequests DEF SetArchived, SnapshotCurrent, Snapshot
<1>. QED
  BY <1>1, <1>3, <1>4, <1>5 DEF DifferentAccounts, SetArchived

(* The invariant holds initially ... *)
LEMMA InitInv == Init => Inv
<1>. SUFFICES ASSUME Init PROVE Inv
  OBVIOUS
<1>1. tx = [r \in Request |-> NoTx] /\ NoTx \in Tx
  BY NoTxType DEF Init
<1>2. TypeOK
  BY <1>1 DEF Init, TypeOK
<1>3. \A r \in Request : tx[r].pc = "idle"
  BY <1>1 DEF NoTx
<1>4. ASSUME NEW r \in Request
      PROVE  ~HoldsRow(r) /\ ~Editing(r) /\ ~Working(r) /\ ~NewRow(r) /\ Written(r) = {}
  BY <1>3 DEF HoldsRow, Editing, Working, NewRow, Written
<1>. QED
  BY <1>2, <1>3, <1>4 DEF Init, Inv, LocksMatchWork, StagesFit, StageFits, NewRowOwned,
                           DifferentAccounts, SnapshotCurrent, Snapshot

(* ... and every step keeps it. *)
LEMMA NextInv == Inv /\ [Next]_vars => Inv'
<1>. SUFFICES ASSUME Inv, [Next]_vars PROVE Inv'
  OBVIOUS
<1>1. CASE UNCHANGED vars
  BY <1>1 DEF vars, Inv, TypeOK, LocksMatchWork, StagesFit, StageFits, NewRowOwned,
              DifferentAccounts, SnapshotCurrent, Snapshot, HoldsRow, Editing, Working,
              NewRow, Written
<1>2. ASSUME NEW a \in Account, SetArchived(a) PROVE Inv'
  BY <1>2, SetArchivedInv
<1>3. ASSUME NEW r \in Request,
             Create(r) \/ OnTransfer(r) \/ Step(r) \/ Abort(r) \/ LoseEvents(r)
      PROVE  Inv'
  <2>1. TypeOK'
    BY <1>3, StepType
  <2>2. Rest'
    <3>1. CASE NotFound(r) \/ Abort(r)
      BY <3>1, RollbackRest DEF NotFound, Abort
    <3>2. CASE \E a \in Account : ApplyBalanceDelta(r, a)
      BY <3>2, ApplyBalanceDeltaRest
    <3>. QED
      BY <1>3, <3>1, <3>2, BeginRest, UsableRest, DispatchRest, ChangeStatusRest, UpdateRest,
         DeleteRest, InsertRest, CommitRest DEF Step
  <2>. QED
    BY <2>1, <2>2 DEF Rest, Inv
<1>. QED
  BY <1>1, <1>2, <1>3 DEF Next

(* Types and locks: everything a request has read under a row lock stays   *)
(* what it read until the request ends.                                    *)
THEOREM Invariance == Spec => []Inv
  BY InitInv, NextInv, PTL DEF Spec

(* Every variable keeps its type. *)
THEOREM TypeCorrect == Spec => []TypeOK
  BY Invariance, PTL DEF Inv

(* No request commits on a row or a balance that has changed since it was  *)
(* read under its lock.                                                    *)
THEOREM NothingStale == Spec => []SnapshotCurrent
  BY Invariance, PTL DEF Inv

-----------------------------------------------------------------------------
(* Only a commit or an archiving changes what others can see. *)
LEMMA Silent ==
    ASSUME NEW r \in Request,
           Create(r) \/ OnTransfer(r) \/ Step(r) \/ Abort(r) \/ LoseEvents(r), ~Commit(r)
    PROVE  UNCHANGED <<balance, archived, row>>
  BY DEF Create, OnTransfer, Begin, Step, NotFound, ChangeStatus, Update, Delete,
         AssertFromUsable, AssertToUsable, AssertUsable, Insert, ApplyBalanceDelta,
         Dispatch, LoseEvents, Abort, Rollback, Locked

(* What a commit does to its own row, and that it knows the row it replaces. *)
LEMMA CommitRow ==
    ASSUME Inv, NEW r \in Request, Commit(r)
    PROVE  /\ tx[r] \in Tx /\ tx[r].id \in Transfer /\ Snapshot(r) /\ Working(r)
           /\ row' = [row EXCEPT ![tx[r].id] = tx[r].after]
           /\ row[tx[r].id] \in Row \cup {Absent} /\ tx[r].after \in Row \cup {Absent}
           /\ Written(r) = IF tx[r].dir = 0 THEN {} ELSE Ends(tx[r].after)
           /\ archived' = archived
<1>1. tx[r] \in Tx /\ tx[r].id \in Transfer /\ Working(r) /\ Snapshot(r) /\ tx[r].todo = {}
  BY DEF Inv, TypeOK, StagesFit, StageFits, SnapshotCurrent, HoldsRow, Working, Commit
<1>2. row[tx[r].id] \in Row \cup {Absent} /\ tx[r].after \in Row \cup {Absent}
  BY <1>1 DEF Inv, TypeOK, Tx
<1>3. Written(r) = IF tx[r].dir = 0 THEN {} ELSE Ends(tx[r].after)
  BY <1>1 DEF Written, Commit
<1>. QED
  BY <1>1, <1>2, <1>3 DEF Commit

(* INV-0018-06 for every interleaving: a completed transfer changes only   *)
(* by being undone.                                                        *)
THEOREM Frozen == Spec => CompletedFrozen
<1>1. Inv /\ [Next]_vars =>
        [\A t \in Transfer :
           Completed(t) => row'[t] \in {row[t], [row[t] EXCEPT !.status = "SCHEDULED"]}]_row
  <2>. SUFFICES ASSUME Inv, Next, row' # row, NEW t \in Transfer, Completed(t)
                PROVE  row'[t] \in {row[t], [row[t] EXCEPT !.status = "SCHEDULED"]}
    BY DEF vars
  <2>1. PICK r \in Request : Commit(r)
    BY Silent DEF Next, SetArchived
  <2>2. CASE t # tx[r].id
    BY <2>1, <2>2, CommitRow DEF Inv, TypeOK
  <2>3. CASE t = tx[r].id
    <3>1. /\ row'[t] = tx[r].after /\ Snapshot(r) /\ Working(r) /\ tx[r].dir \in {-1, 0, 1}
          /\ tx[r].after \in Row \cup {Absent} /\ row[t].status = "COMPLETED"
      BY <2>1, <2>3, CommitRow DEF Inv, TypeOK, Tx, Completed
    <3>2. CASE tx[r].dir = 0
      BY <2>3, <3>1, <3>2 DEF Snapshot
    <3>3. CASE tx[r].dir = 1
      BY <2>3, <3>1, <3>3 DEF Snapshot, Absent, Row
    <3>4. CASE tx[r].dir = -1
      <4>1. /\ tx[r].after.status = "SCHEDULED"
            /\ row[t] = [tx[r].after EXCEPT !.status = "COMPLETED"]
        BY <2>3, <3>1, <3>4 DEF Snapshot
      <4>2. tx[r].after \in Row
        BY <3>1, <4>1 DEF Absent
      <4>3. [row[t] EXCEPT !.status = "SCHEDULED"] = tx[r].after
        BY <4>1, <4>2 DEF Row
      <4>. QED
        BY <3>1, <4>3
    <3>. QED
      BY <3>1, <3>2, <3>3, <3>4
  <2>. QED
    BY <2>2, <2>3
<1>. QED
  BY <1>1, Invariance, PTL DEF Spec, CompletedFrozen

-----------------------------------------------------------------------------
(* Conservation. *)

(* What the row m of a transfer contributes to account a. *)
PartIn(m, a)  == IF m.status = "COMPLETED" /\ m.to = a THEN m.amount ELSE 0
PartOut(m, a) == IF m.status = "COMPLETED" /\ m.from = a THEN m.amount ELSE 0

(* What one row contributes to the two totals of an account.               *)
LEMMA PartsType ==
    ASSUME NEW m \in Row \cup {Absent}, NEW a \in Account
    PROVE  PartIn(m, a) \in Int /\ PartOut(m, a) \in Int
  BY DEF PartIn, PartOut, Row, Absent

(* When one row changes, each sum changes by what that row contributes.    *)
LEMMA OneRowTotals ==
    ASSUME TypeOK, NEW t \in Transfer, NEW m \in Row \cup {Absent},
           row' = [row EXCEPT ![t] = m], NEW a \in Account
    PROVE  /\ Total(Incoming(a), AmountOf, MaxAmount) \in Int
           /\ Total(Outgoing(a), AmountOf, MaxAmount) \in Int
           /\ Total(Incoming(a), AmountOf, MaxAmount)' =
                Total(Incoming(a), AmountOf, MaxAmount) - PartIn(row[t], a) + PartIn(m, a)
           /\ Total(Outgoing(a), AmountOf, MaxAmount)' =
                Total(Outgoing(a), AmountOf, MaxAmount) - PartOut(row[t], a) + PartOut(m, a)
<1>0. /\ MaxAmount \in Nat
      /\ \A S \in SUBSET Transfer : IsFiniteSet(S)
  BY FS_Subset
<1>1. /\ row'[t] = m /\ row[t] \in Row \cup {Absent}
      /\ \A u \in Transfer \ {t} : row'[u] = row[u]
  BY DEF TypeOK
<1>2. AmountOf[t] \in 0..MaxAmount /\ AmountOf'[t] \in 0..MaxAmount
  BY <1>1 DEF AmountOf, Row
<1>3. \A u \in Transfer \ {t} : AmountOf'[u] = AmountOf[u]
  BY <1>1 DEF AmountOf
<1>4. /\ Incoming(a) \in SUBSET Transfer /\ Incoming(a)' \in SUBSET Transfer
      /\ Outgoing(a) \in SUBSET Transfer /\ Outgoing(a)' \in SUBSET Transfer
      /\ Incoming(a)' \ {t} = Incoming(a) \ {t} /\ Outgoing(a)' \ {t} = Outgoing(a) \ {t}
  BY <1>1 DEF Incoming, Outgoing, Completed
<1>5. /\ (IF t \in Incoming(a) THEN AmountOf[t] ELSE 0) = PartIn(row[t], a)
      /\ (IF t \in Incoming(a)' THEN AmountOf'[t] ELSE 0) = PartIn(m, a)
      /\ (IF t \in Outgoing(a) THEN AmountOf[t] ELSE 0) = PartOut(row[t], a)
      /\ (IF t \in Outgoing(a)' THEN AmountOf'[t] ELSE 0) = PartOut(m, a)
  BY <1>1 DEF Incoming, Outgoing, Completed, AmountOf, PartIn, PartOut, Absent
<1>6. /\ Total(Incoming(a)' \ {t}, AmountOf', MaxAmount) = Total(Incoming(a) \ {t}, AmountOf, MaxAmount)
      /\ Total(Outgoing(a)' \ {t}, AmountOf', MaxAmount) = Total(Outgoing(a) \ {t}, AmountOf, MaxAmount)
  <2>1. \A x \in Incoming(a) \ {t} : AmountOf'[x] = AmountOf[x]
    BY <1>3, <1>4
  <2>2. \A x \in Outgoing(a) \ {t} : AmountOf'[x] = AmountOf[x]
    BY <1>3, <1>4
  <2>3. Total(Incoming(a) \ {t}, AmountOf', MaxAmount) = Total(Incoming(a) \ {t}, AmountOf, MaxAmount)
    BY <2>1, TotalSame
  <2>4. Total(Outgoing(a) \ {t}, AmountOf', MaxAmount) = Total(Outgoing(a) \ {t}, AmountOf, MaxAmount)
    BY <2>2, TotalSame
  <2>. QED
    BY <1>4, <2>3, <2>4
<1>7. /\ Total(Incoming(a) \ {t}, AmountOf, MaxAmount) \in Nat
      /\ Total(Incoming(a), AmountOf, MaxAmount) =
           Total(Incoming(a) \ {t}, AmountOf, MaxAmount) + PartIn(row[t], a)
  <2>1. IsFiniteSet(Incoming(a))
    BY <1>0, <1>4
  <2>2. /\ Total(Incoming(a) \ {t}, AmountOf, MaxAmount) \in Nat
        /\ Total(Incoming(a), AmountOf, MaxAmount) = Total(Incoming(a) \ {t}, AmountOf, MaxAmount)
             + (IF t \in Incoming(a) THEN AmountOf[t] ELSE 0)
    BY <1>0, <1>2, <2>1, TotalSplit
  <2>. QED
    BY <1>5, <2>2
<1>8. /\ Total(Incoming(a)' \ {t}, AmountOf', MaxAmount) \in Nat
      /\ Total(Incoming(a)', AmountOf', MaxAmount) =
           Total(Incoming(a)' \ {t}, AmountOf', MaxAmount) + PartIn(m, a)
  <2>1. IsFiniteSet(Incoming(a)')
    BY <1>0, <1>4
  <2>2. /\ Total(Incoming(a)' \ {t}, AmountOf', MaxAmount) \in Nat
        /\ Total(Incoming(a)', AmountOf', MaxAmount) = Total(Incoming(a)' \ {t}, AmountOf', MaxAmount)
             + (IF t \in Incoming(a)' THEN AmountOf'[t] ELSE 0)
    BY <1>0, <1>2, <2>1, TotalSplit
  <2>. QED
    BY <1>5, <2>2
<1>9. /\ Total(Outgoing(a) \ {t}, AmountOf, MaxAmount) \in Nat
      /\ Total(Outgoing(a), AmountOf, MaxAmount) =
           Total(Outgoing(a) \ {t}, AmountOf, MaxAmount) + PartOut(row[t], a)
  <2>1. IsFiniteSet(Outgoing(a))
    BY <1>0, <1>4
  <2>2. /\ Total(Outgoing(a) \ {t}, AmountOf, MaxAmount) \in Nat
        /\ Total(Outgoing(a), AmountOf, MaxAmount) = Total(Outgoing(a) \ {t}, AmountOf, MaxAmount)
             + (IF t \in Outgoing(a) THEN AmountOf[t] ELSE 0)
    BY <1>0, <1>2, <2>1, TotalSplit
  <2>. QED
    BY <1>5, <2>2
<1>10. /\ Total(Outgoing(a)' \ {t}, AmountOf', MaxAmount) \in Nat
      /\ Total(Outgoing(a)', AmountOf', MaxAmount) =
           Total(Outgoing(a)' \ {t}, AmountOf', MaxAmount) + PartOut(m, a)
  <2>1. IsFiniteSet(Outgoing(a)')
    BY <1>0, <1>4
  <2>2. /\ Total(Outgoing(a)' \ {t}, AmountOf', MaxAmount) \in Nat
        /\ Total(Outgoing(a)', AmountOf', MaxAmount) = Total(Outgoing(a)' \ {t}, AmountOf', MaxAmount)
             + (IF t \in Outgoing(a)' THEN AmountOf'[t] ELSE 0)
    BY <1>0, <1>2, <2>1, TotalSplit
  <2>. QED
    BY <1>5, <2>2
<1>11. PartIn(row[t], a) \in Int /\ PartIn(m, a) \in Int
      /\ PartOut(row[t], a) \in Int /\ PartOut(m, a) \in Int
  BY <1>1, PartsType
<1>12. /\ Total(Incoming(a), AmountOf, MaxAmount) \in Int
       /\ Total(Incoming(a)', AmountOf', MaxAmount) =
            Total(Incoming(a), AmountOf, MaxAmount) - PartIn(row[t], a) + PartIn(m, a)
  BY <1>6, <1>7, <1>8, <1>11
<1>13. /\ Total(Outgoing(a), AmountOf, MaxAmount) \in Int
       /\ Total(Outgoing(a)', AmountOf', MaxAmount) =
            Total(Outgoing(a), AmountOf, MaxAmount) - PartOut(row[t], a) + PartOut(m, a)
  BY <1>6, <1>9, <1>10, <1>11
<1>. QED
  BY <1>12, <1>13

(* The balances a commit writes are the committed ones plus what the row   *)
(* it writes contributes and minus what the row it replaces did.           *)
LEMMA CommitBalance ==
    ASSUME Inv, NEW r \in Request, Commit(r), NEW a \in Account
    PROVE  balance'[a] = balance[a] - PartIn(row[tx[r].id], a) + PartIn(tx[r].after, a)
                                    + PartOut(row[tx[r].id], a) - PartOut(tx[r].after, a)
<1>. DEFINE old == row[tx[r].id]
            new == tx[r].after
            dir == tx[r].dir
<1>1. /\ tx[r] \in Tx /\ Snapshot(r) /\ Working(r) /\ dir \in {-1, 0, 1}
      /\ old \in Row \cup {Absent} /\ new \in Row \cup {Absent}
      /\ Written(r) = IF dir = 0 THEN {} ELSE Ends(new)
  BY CommitRow DEF Tx
<1>2. balance'[a] = IF a \in Written(r) THEN tx[r].draft[a] ELSE balance[a]
  BY DEF Commit
<1>3. balance[a] \in Int
  BY DEF Inv, TypeOK
<1>4. CASE dir = 0
  <2>1. balance'[a] = balance[a]
    BY <1>1, <1>2, <1>4
  <2>2. PartIn(old, a) = PartIn(new, a) /\ PartOut(old, a) = PartOut(new, a)
    BY <1>1, <1>4 DEF Snapshot, PartIn, PartOut
  <2>3. PartIn(new, a) \in Int /\ PartOut(new, a) \in Int
    BY <1>1, PartsType
  <2>. HIDE DEF old, new
  <2>. QED
    BY <1>3, <2>1, <2>2, <2>3 DEF old, new
<1>5. CASE dir # 0
  <2>1. new \in Row /\ new.from # new.to
    BY <1>1, <1>5, MovingRow
  <2>2. new.amount \in Int
    BY <2>1 DEF Row
  <2>3. a \in Ends(new) => tx[r].draft[a] = balance[a] + Delta(new, dir, a)
    BY <1>1, <1>5 DEF Snapshot
  <2>. HIDE DEF old, new, dir
  <2>4. CASE dir = 1
    <3>1. new.status = "COMPLETED" /\ old.status # "COMPLETED"
      <4>1. /\ new.status = "COMPLETED"
            /\ old = Absent \/ old = [new EXCEPT !.status = "SCHEDULED"]
        BY <1>1, <2>4 DEF Snapshot, old, new, dir
      <4>. QED
        BY <2>1, <4>1 DEF Absent, Row
    <3>2. PartIn(old, a) = 0 /\ PartOut(old, a) = 0
      BY <3>1 DEF PartIn, PartOut
    <3>3. CASE a = new.from
      BY <1>1, <1>2, <1>3, <1>5, <2>1, <2>2, <2>3, <2>4, <3>1, <3>2, <3>3
         DEF Ends, Delta, PartIn, PartOut, old, new
    <3>4. CASE a = new.to
      BY <1>1, <1>2, <1>3, <1>5, <2>1, <2>2, <2>3, <2>4, <3>1, <3>2, <3>4
         DEF Ends, Delta, PartIn, PartOut, old, new
    <3>5. CASE a \notin Ends(new)
      BY <1>1, <1>2, <1>3, <1>5, <3>2, <3>5 DEF Ends, PartIn, PartOut, old, new
    <3>. QED
      BY <3>3, <3>4, <3>5 DEF Ends
  <2>5. CASE dir = -1
    <3>1. /\ new.status = "SCHEDULED" /\ old.status = "COMPLETED"
          /\ old.from = new.from /\ old.to = new.to /\ old.amount = new.amount
      BY <1>1, <2>1, <2>5 DEF Snapshot, old, new, dir, Row
    <3>2. PartIn(new, a) = 0 /\ PartOut(new, a) = 0
      BY <3>1 DEF PartIn, PartOut
    <3>3. CASE a = new.from
      BY <1>1, <1>2, <1>3, <1>5, <2>1, <2>2, <2>3, <2>5, <3>1, <3>2, <3>3
         DEF Ends, Delta, PartIn, PartOut, old, new
    <3>4. CASE a = new.to
      BY <1>1, <1>2, <1>3, <1>5, <2>1, <2>2, <2>3, <2>5, <3>1, <3>2, <3>4
         DEF Ends, Delta, PartIn, PartOut, old, new
    <3>5. CASE a \notin Ends(new)
      BY <1>1, <1>2, <1>3, <1>5, <3>1, <3>2, <3>5 DEF Ends, PartIn, PartOut, old, new
    <3>. QED
      BY <3>3, <3>4, <3>5 DEF Ends
  <2>. QED
    BY <1>1, <1>5, <2>4, <2>5
<1>. QED
  BY <1>4, <1>5

(* INV-0018-03 for any number of accounts, transfers and requests: each    *)
(* balance is the opening one plus completed transfers in minus those out. *)
THEOREM Conservation == Spec => []BalanceConserved
<1>1. Init => BalanceConserved
  <2>. SUFFICES ASSUME Init, NEW a \in Account
                PROVE  balance[a] = Opening[a] + Total(Incoming(a), AmountOf, MaxAmount)
                                               - Total(Outgoing(a), AmountOf, MaxAmount)
    BY DEF BalanceConserved
  <2>1. Incoming(a) = {} /\ Outgoing(a) = {}
    BY DEF Init, Incoming, Outgoing, Completed, Absent
  <2>2. Total({}, AmountOf, MaxAmount) = 0
    BY TotalEmpty
  <2>. QED
    BY <2>1, <2>2 DEF Init
<1>2. Inv /\ BalanceConserved /\ [Next]_vars => BalanceConserved'
  <2>. SUFFICES ASSUME Inv, BalanceConserved, [Next]_vars, NEW a \in Account
                PROVE  (balance[a] = Opening[a] + Total(Incoming(a), AmountOf, MaxAmount)
                                                - Total(Outgoing(a), AmountOf, MaxAmount))'
    BY DEF BalanceConserved
  <2>1. balance[a] = Opening[a] + Total(Incoming(a), AmountOf, MaxAmount)
                                - Total(Outgoing(a), AmountOf, MaxAmount)
    BY DEF BalanceConserved
  <2>2. CASE UNCHANGED <<balance, row>>
    <3>1. Incoming(a)' = Incoming(a) /\ Outgoing(a)' = Outgoing(a) /\ AmountOf' = AmountOf
      BY <2>2 DEF Incoming, Outgoing, Completed, AmountOf
    <3>. QED
      BY <2>1, <2>2, <3>1
  <2>3. ASSUME NEW r \in Request, Commit(r)
        PROVE  (balance[a] = Opening[a] + Total(Incoming(a), AmountOf, MaxAmount)
                                        - Total(Outgoing(a), AmountOf, MaxAmount))'
    <3>. DEFINE t == tx[r].id
                m == tx[r].after
    <3>1. /\ t \in Transfer /\ m \in Row \cup {Absent} /\ row[t] \in Row \cup {Absent}
          /\ row' = [row EXCEPT ![t] = m]
      BY <2>3, CommitRow
    <3>. HIDE DEF t, m
    <3>2. balance'[a] = balance[a] - PartIn(row[t], a) + PartIn(m, a)
                                   + PartOut(row[t], a) - PartOut(m, a)
      BY <2>3, CommitBalance DEF t, m
    <3>3. /\ Total(Incoming(a), AmountOf, MaxAmount) \in Int
          /\ Total(Outgoing(a), AmountOf, MaxAmount) \in Int
          /\ Total(Incoming(a), AmountOf, MaxAmount)' =
               Total(Incoming(a), AmountOf, MaxAmount) - PartIn(row[t], a) + PartIn(m, a)
          /\ Total(Outgoing(a), AmountOf, MaxAmount)' =
               Total(Outgoing(a), AmountOf, MaxAmount) - PartOut(row[t], a) + PartOut(m, a)
      BY <3>1, OneRowTotals DEF Inv
    <3>4. /\ PartIn(row[t], a) \in Int /\ PartIn(m, a) \in Int
          /\ PartOut(row[t], a) \in Int /\ PartOut(m, a) \in Int
      BY <3>1, PartsType
    <3>5. Opening[a] \in Int /\ balance[a] \in Int
      BY DEF Inv, TypeOK
    <3>. DEFINE in  == Total(Incoming(a), AmountOf, MaxAmount)
                out == Total(Outgoing(a), AmountOf, MaxAmount)
                p == PartIn(row[t], a)   q == PartIn(m, a)
                v == PartOut(row[t], a)  w == PartOut(m, a)
    <3>6. balance[a] = Opening[a] + in - out /\ in \in Int /\ out \in Int
      BY <2>1, <3>3
    <3>7. balance'[a] = balance[a] - p + q + v - w
      BY <3>2
    <3>8. balance'[a] = Opening[a] + (in - p + q) - (out - v + w)
      <4>. HIDE DEF in, out, p, q, v, w
      <4>1. p \in Int /\ q \in Int /\ v \in Int /\ w \in Int
        BY <3>4 DEF p, q, v, w
      <4>. QED
        BY <3>5, <3>6, <3>7, <4>1
    <3>. QED
      BY <3>3, <3>8
  <2>. QED
    BY <2>2, <2>3, Silent DEF Next, SetArchived, vars
<1>. QED
  BY <1>1, <1>2, Invariance, PTL DEF Spec

-----------------------------------------------------------------------------
(* Implementation of the ledger. *)

(* A commit that moves balances posts its row in the ledger's sense.       *)
LEMMA CommitPosts ==
    ASSUME Inv, NEW r \in Request, Commit(r)
    PROVE  /\ tx[r].dir = 0 => balance' = balance
           /\ tx[r].dir # 0 => balance' = Ledger!Posted(tx[r].after, tx[r].dir)
<1>. DEFINE new == tx[r].after
            dir == tx[r].dir
<1>1. /\ balance' = [a \in Account |-> IF a \in Written(r) THEN tx[r].draft[a] ELSE balance[a]]
      /\ balance \in [Account -> Int] /\ Snapshot(r)
      /\ Written(r) = IF dir = 0 THEN {} ELSE Ends(new)
  BY CommitRow DEF Commit, Inv, TypeOK
<1>2. CASE dir = 0
  BY <1>1, <1>2
<1>3. CASE dir # 0
  <2>1. new \in Row /\ new.from # new.to /\ dir \in {-1, 1}
    BY <1>3, CommitRow, MovingRow
  <2>2. /\ new.from \in Account /\ new.to \in Account /\ new.amount \in Int
    BY <2>1 DEF Row
  <2>3. \A a \in Ends(new) : balance'[a] = balance[a] + Delta(new, dir, a)
    BY <1>1, <1>3, <2>2 DEF Snapshot, Ends
  <2>4. \A a \in Account \ Ends(new) : balance'[a] = balance[a]
    BY <1>1, <1>3
  <2>. DEFINE side == new.amount * dir
  <2>5. side \in Int
    BY <2>1, <2>2
  <2>. HIDE DEF side
  <2>6. /\ balance'[new.from] = balance[new.from] - side
        /\ balance'[new.to] = balance[new.to] + side
    BY <1>1, <2>1, <2>2, <2>3, <2>5 DEF Ends, Delta, side
  <2>7. balance' = [balance EXCEPT ![new.from] = @ - side, ![new.to] = @ + side]
    <3>1. \A a \in Account :
            balance'[a] = [balance EXCEPT ![new.from] = @ - side, ![new.to] = @ + side][a]
      BY <1>1, <2>1, <2>2, <2>4, <2>6 DEF Ends
    <3>. QED
      BY <1>1, <3>1
  <2>. QED
    BY <1>3, <2>7 DEF Ledger!Posted, side
<1>. QED
  BY <1>2, <1>3

(* Each commit is one entry of the ledger, or changes nothing in it.       *)
LEMMA CommitIsLedgerStep ==
    ASSUME Inv, NEW r \in Request, Commit(r)
    PROVE  Ledger!Next \/ UNCHANGED <<balance, archived, row>>
<1>. DEFINE t   == tx[r].id
            old == row[t]
            new == tx[r].after
            dir == tx[r].dir
<1>1. /\ t \in Transfer /\ archived' = archived /\ row' = [row EXCEPT ![t] = new]
      /\ old \in Row \cup {Absent} /\ new \in Row \cup {Absent} /\ dir \in {-1, 0, 1}
      /\ Snapshot(r) /\ Working(r) /\ DOMAIN row = Transfer
  BY CommitRow DEF Inv, TypeOK, Tx
<1>2. /\ dir = 0 => balance' = balance
      /\ dir # 0 => balance' = Ledger!Posted(new, dir)
  BY CommitPosts
<1>3. Ledger!Row = Row /\ Ledger!Absent = Absent
  BY DEF Ledger!Row, Row, Ledger!Absent, Absent, Ledger!Account
<1>4. /\ new # Absent => new \in Row /\ new.from # new.to
      /\ dir = 0 => old = new \/ (old.status # "COMPLETED" /\ new.status # "COMPLETED")
      /\ dir = 1 => /\ new.status = "COMPLETED"
                    /\ old = Absent \/ old = [new EXCEPT !.status = "SCHEDULED"]
      /\ dir = -1 => new.status = "SCHEDULED" /\ old = [new EXCEPT !.status = "COMPLETED"]
  BY <1>1 DEF Snapshot
<1>5. \A m \in Row : m.status \in {"SCHEDULED", "COMPLETED"} /\ m # Absent
  BY AbsentNotRow DEF Row
<1>6. Absent.status = "ABSENT"
  BY DEF Absent
<1>. HIDE DEF t, old, new, dir
<1>7. ASSUME \/ \E m \in Row : Ledger!Enter(t, m) \/ Ledger!Edit(t, m)
             \/ Ledger!Complete(t) \/ Ledger!Undo(t) \/ Ledger!Remove(t)
      PROVE  Ledger!Next
  BY <1>1, <1>3, <1>7 DEF Ledger!Next
<1>8. CASE dir = 0
  <2>1. CASE old = new
    <3>1. row' = row
      BY <1>1, <2>1 DEF old, Inv, TypeOK
    <3>. QED
      BY <1>1, <1>2, <1>8, <3>1
  <2>2. CASE old # new /\ old = Absent
    <3>1. new \in Row /\ new.from # new.to /\ new.status # "COMPLETED"
      BY <1>1, <1>4, <1>6, <1>8, <2>2
    <3>2. Ledger!Enter(t, new)
      BY <1>1, <1>2, <1>3, <1>8, <2>2, <3>1 DEF Ledger!Enter, old
    <3>. QED
      BY <1>7, <3>1, <3>2
  <2>3. CASE old # new /\ new = Absent
    <3>1. Ledger!Remove(t)
      BY <1>1, <1>2, <1>3, <1>4, <1>5, <1>8, <2>3 DEF Ledger!Remove, old
    <3>. QED
      BY <1>7, <3>1
  <2>4. CASE old # new /\ old # Absent /\ new # Absent
    <3>1. /\ new \in Row /\ new.from # new.to
          /\ new.status = "SCHEDULED" /\ old.status = "SCHEDULED"
      BY <1>1, <1>4, <1>5, <1>8, <2>4
    <3>2. Ledger!Edit(t, new)
      BY <1>1, <1>2, <1>8, <3>1 DEF Ledger!Edit, old
    <3>. QED
      BY <1>7, <3>1, <3>2
  <2>. QED
    BY <2>1, <2>2, <2>3, <2>4
<1>9. CASE dir = 1
  <2>1. /\ new \in Row /\ new.from # new.to /\ new.status = "COMPLETED"
        /\ balance' = Ledger!Posted(new, 1)
    BY <1>1, <1>2, <1>4, <1>6, <1>9
  <2>2. CASE old = Absent
    <3>1. Ledger!Enter(t, new)
      BY <1>1, <1>3, <2>1, <2>2 DEF Ledger!Enter, old
    <3>. QED
      BY <1>7, <2>1, <3>1
  <2>3. CASE old = [new EXCEPT !.status = "SCHEDULED"]
    <3>1. /\ old.status = "SCHEDULED" /\ new = [old EXCEPT !.status = "COMPLETED"]
          /\ old.from = new.from /\ old.to = new.to /\ old.amount = new.amount
      BY <2>1, <2>3 DEF Row
    <3>2. Ledger!Posted(new, 1) = Ledger!Posted(old, 1)
      BY <3>1 DEF Ledger!Posted
    <3>3. Ledger!Complete(t)
      BY <1>1, <2>1, <3>1, <3>2 DEF Ledger!Complete, old
    <3>. QED
      BY <1>7, <3>3
  <2>. QED
    BY <1>4, <1>9, <2>2, <2>3
<1>10. CASE dir = -1
  <2>1. new \in Row
    BY <1>1, <1>4, <1>6, <1>10
  <2>2. /\ old.status = "COMPLETED" /\ new = [old EXCEPT !.status = "SCHEDULED"]
        /\ old.from = new.from /\ old.to = new.to /\ old.amount = new.amount
    BY <1>4, <1>10, <2>1 DEF Row
  <2>3. Ledger!Posted(new, -1) = Ledger!Posted(old, -1)
    BY <2>2 DEF Ledger!Posted
  <2>4. Ledger!Undo(t)
    BY <1>1, <1>2, <1>10, <2>2, <2>3 DEF Ledger!Undo, old
  <2>. QED
    BY <1>7, <2>4
<1>. QED
  BY <1>1, <1>8, <1>9, <1>10

(* Every behaviour of the requests, seen through what they commit, is a    *)
(* behaviour of the one-step-per-operation ledger.                         *)
THEOREM Implementation == Spec => ImplementsLedger
<1>1. Init => Ledger!Init
  BY DEF Init, Ledger!Init, Ledger!Account, Ledger!Absent, Absent
<1>2. Inv /\ [Next]_vars => [Ledger!Next]_<<balance, archived, row>>
  <2>. SUFFICES ASSUME Inv, [Next]_vars
                PROVE  Ledger!Next \/ UNCHANGED <<balance, archived, row>>
    OBVIOUS
  <2>1. ASSUME NEW r \in Request, Commit(r)
        PROVE  Ledger!Next \/ UNCHANGED <<balance, archived, row>>
    BY <2>1, CommitIsLedgerStep
  <2>2. ASSUME NEW a \in Account, SetArchived(a) PROVE Ledger!Next
    BY <2>2 DEF SetArchived, Ledger!Next, Ledger!Archive, Ledger!Account
  <2>. QED
    BY <2>1, <2>2, Silent DEF Next, vars
<1>. QED
  BY <1>1, <1>2, Invariance, PTL DEF Spec, ImplementsLedger, Ledger!Spec

-----------------------------------------------------------------------------
(* Freedom from deadlock. *)

(* Accounts already moved come before accounts still to move. *)
Ascending == \A r \in Request : \A a \in Written(r), b \in tx[r].todo : a < b

(* Every step keeps the locked accounts below those still to move.         *)
LEMMA AscendingStep == Inv /\ Ascending /\ [Next]_vars => Ascending'
<1>. SUFFICES ASSUME Inv, Ascending, [Next]_vars, NEW r \in Request,
                     NEW a \in Written(r)', NEW b \in tx'[r].todo
              PROVE  a < b
  BY DEF Ascending
<1>0. Inv'
  BY NextInv
<1>1. tx'[r].pc = "move" /\ HoldsRow(r)'
  BY <1>0 DEF Inv, StagesFit, StageFits, Written, HoldsRow, Working
<1>2. CASE tx'[r] = tx[r]
  BY <1>2, OtherRequests DEF Ascending
<1>3. CASE tx'[r] # tx[r]
  <2>1. Create(r) \/ OnTransfer(r) \/ Step(r) \/ Abort(r) \/ LoseEvents(r)
    <3>1. ASSUME NEW q \in Request \ {r}, tx'[r] # tx[r],
                 Create(q) \/ OnTransfer(q) \/ Step(q) \/ Abort(q) \/ LoseEvents(q)
          PROVE  FALSE
      <4>1. tx \in [Request -> Tx]
        BY DEF Inv, TypeOK
      <4>2. CASE Create(q) \/ OnTransfer(q)
        BY <3>1, <4>1, <4>2 DEF Create, OnTransfer, Begin
      <4>3. CASE NotFound(q) \/ Abort(q)
        BY <3>1, <4>1, <4>3 DEF NotFound, Abort, Rollback
      <4>4. CASE ChangeStatus(q) \/ Update(q) \/ Delete(q) \/ Insert(q)
        BY <3>1, <4>1, <4>4 DEF ChangeStatus, Update, Delete, Insert, Rollback, Locked
      <4>5. CASE AssertFromUsable(q) \/ AssertToUsable(q)
        BY <3>1, <4>1, <4>5 DEF AssertFromUsable, AssertToUsable, AssertUsable, Rollback
      <4>6. CASE \E c \in Account : ApplyBalanceDelta(q, c)
        BY <3>1, <4>1, <4>6 DEF ApplyBalanceDelta
      <4>7. CASE Commit(q) \/ Dispatch(q) \/ LoseEvents(q)
        BY <3>1, <4>1, <4>7 DEF Commit, Dispatch, LoseEvents
      <4>. QED
        BY <3>1, <4>2, <4>3, <4>4, <4>5, <4>6, <4>7 DEF Step
    <3>. QED
      BY <1>3, <3>1 DEF Next, SetArchived, vars
  <2>2. ~Rollback(r)
    BY <1>1 DEF Rollback, Inv, TypeOK, NoTx
  <2>3. CASE ChangeStatus(r) \/ Insert(r)
    <3>1. tx[r] \in Tx /\ tx[r].dir = 0 /\ Written(r) = {}
      BY <2>3 DEF Inv, TypeOK, StagesFit, StageFits, ChangeStatus, Insert, NewRow, Written
    <3>2. PICK new : Locked(r, Moving(tx[r], new)) \/ Locked(r, [tx[r] EXCEPT !.pc = "commit"])
      BY <2>2, <2>3 DEF ChangeStatus, Insert
    <3>3. tx'[r] = Moving(tx[r], new)
      BY <1>1, <3>1, <3>2 DEF Locked, Inv, TypeOK, Tx
    <3>4. tx'[r].todo = Ends(tx'[r].after)
      BY <3>1, <3>3 DEF Moving, Tx
    <3>. QED
      BY <3>4 DEF Written
  <2>4. ASSUME NEW c \in Account, ApplyBalanceDelta(r, c) PROVE a < b
    <3>1. /\ tx[r] \in Tx /\ tx[r].pc = "move" /\ c \in tx[r].todo
          /\ \A d \in tx[r].todo : c <= d
      BY <2>4 DEF Inv, TypeOK, ApplyBalanceDelta
    <3>2. /\ tx'[r].todo = tx[r].todo \ {c} /\ tx'[r].after = tx[r].after
          /\ tx'[r].dir = tx[r].dir
      BY <2>4, <3>1 DEF ApplyBalanceDelta, Inv, TypeOK, Tx
    <3>3. a \in Written(r) \cup {c}
      BY <1>1, <3>1, <3>2 DEF Written
    <3>4. b \in tx[r].todo /\ b # c /\ b \in Int /\ c \in Int
      BY <3>1, <3>2 DEF Tx
    <3>5. CASE a = c
      BY <3>1, <3>4, <3>5
    <3>6. CASE a # c
      BY <3>3, <3>4, <3>6 DEF Ascending
    <3>. QED
      BY <3>5, <3>6
  <2>5. CASE Create(r) \/ OnTransfer(r) \/ Update(r) \/ Delete(r) \/ AssertFromUsable(r)
             \/ AssertToUsable(r) \/ Commit(r) \/ Dispatch(r) \/ LoseEvents(r)
    <3>1. tx[r] \in Tx /\ tx \in [Request -> Tx]
      BY DEF Inv, TypeOK
    <3>2. tx'[r].pc # "move"
      <4>1. CASE Create(r) \/ OnTransfer(r)
        <5>1. CASE Create(r)
          <6>1. PICK t, new : Begin(r, [NoTx EXCEPT !.pc = "usableFrom", !.op = "create",
                                                    !.id = t, !.after = new])
            BY <5>1 DEF Create
          <6>. QED
            BY <3>1, <6>1 DEF Begin, NoTx
        <5>2. CASE OnTransfer(r)
          <6>1. PICK t, op : Begin(r, [NoTx EXCEPT !.pc = "lock", !.op = op, !.id = t])
            BY <5>2 DEF OnTransfer
          <6>. QED
            BY <3>1, <6>1 DEF Begin, NoTx
        <5>. QED
          BY <4>1, <5>1, <5>2
      <4>2. CASE Update(r)
        <5>1. PICK new \in Row, accounts \in BOOLEAN :
                Locked(r, [tx[r] EXCEPT !.after = new,
                             !.pc = IF accounts THEN "usableFrom" ELSE "commit"])
          BY <2>2, <4>2 DEF Update
        <5>. QED
          BY <3>1, <5>1 DEF Locked, Tx
      <4>3. CASE Delete(r)
        BY <2>2, <3>1, <4>3 DEF Delete, Locked, Tx
      <4>4. CASE AssertFromUsable(r) \/ AssertToUsable(r)
        <5>1. PICK pc \in {"usableTo", "insert", "commit"} : tx' = [tx EXCEPT ![r].pc = pc]
          BY <2>2, <4>4 DEF AssertFromUsable, AssertToUsable, AssertUsable
        <5>. QED
          BY <3>1, <5>1 DEF Tx
      <4>5. CASE Commit(r)
        BY <3>1, <4>5 DEF Commit, NoTx
      <4>6. CASE Dispatch(r) \/ LoseEvents(r)
        BY <3>1, <4>6 DEF Dispatch, LoseEvents, Tx
      <4>. QED
        BY <2>5, <4>1, <4>2, <4>3, <4>4, <4>5, <4>6
    <3>. QED
      BY <1>1, <3>2
  <2>. QED
    BY <2>1, <2>2, <2>3, <2>4, <2>5 DEF Step, NotFound, Abort
<1>. QED
  BY <1>2, <1>3

(* A non-empty set of account numbers has a largest one. *)
LEMMA LastAccount ==
    ASSUME NEW T \in SUBSET Account, T # {}
    PROVE  \E m \in T : \A a \in T : a <= m
<1>. DEFINE up(a) == {b \in Account : b >= a}
            U == {up(a) : a \in T}
            R == StrictSubsetOrdering(Account)
<1>1. IsFiniteSet(Account)
  BY FS_Interval
<1>2. IsWellFoundedOn(R, SUBSET Account)
  BY <1>1, FS_StrictSubsetOrderingWellFounded, FS_FiniteSubsetsOfFinite
<1>3. U \subseteq SUBSET Account /\ U # {}
  OBVIOUS
<1>. HIDE DEF R
<1>4. PICK X \in U : \A Y \in U : <<Y, X>> \notin R
  BY <1>2, <1>3, WFMin, Zenon
<1>5. PICK m \in T : X = up(m)
  BY <1>4
<1>6. ASSUME NEW a \in T, a > m PROVE FALSE
  <2>1. up(a) \in U /\ up(a) \in SUBSET Account /\ X \in SUBSET Account
    BY <1>3
  <2>2. up(a) \subseteq X /\ m \in X /\ m \notin up(a)
    BY <1>5, <1>6
  <2>3. <<up(a), X>> \in R
    BY <2>1, <2>2 DEF R, StrictSubsetOrdering
  <2>. QED
    BY <1>4, <2>1, <2>3
<1>. QED
  BY <1>5, <1>6

(* A request someone waits for, and which waits itself, is moving balances *)
(* and waits for an account.                                               *)
LEMMA WaitingHolder ==
    ASSUME Inv, NEW r \in Request, NEW q \in Request, NEW p \in Request,
           WaitsFor(r, q), WaitsFor(q, p)
    PROVE  WaitsForAccount(q, p) /\ tx[q].pc = "move" /\ tx[q].todo \subseteq Account
<1>. USE DEF Inv
<1>1. tx[q].pc \in {"lock", "move"} /\ tx[q] \in Tx /\ tx[r] \in Tx
  BY DEF WaitsFor, WaitsForRow, WaitsForAccount, TypeOK
<1>2. HoldsRow(q) \/ Written(q) # {}
  <2>1. CASE WaitsForRow(r, q)
    BY <2>1 DEF WaitsForRow, LocksMatchWork, StagesFit, StageFits
  <2>2. CASE WaitsForAccount(r, q)
    BY <1>1, <2>2 DEF WaitsForAccount, LocksMatchWork, Tx
  <2>. QED
    BY <2>1, <2>2 DEF WaitsFor
<1>3. tx[q].pc = "move"
  BY <1>1, <1>2 DEF HoldsRow, Working, Editing, Written
<1>4. WaitsForAccount(q, p)
  BY <1>3 DEF WaitsFor, WaitsForRow
<1>. QED
  BY <1>1, <1>3, <1>4 DEF Tx

(* INV-0018-04 for any number of accounts and requests: since accounts are *)
(* locked in ascending order after the transfer's row, nobody waits in a   *)
(* circle.                                                                 *)
THEOREM DeadlockFreedom == Spec => []NoDeadlock
<1>1. Init => Ascending
  <2>. SUFFICES ASSUME Init, NEW r \in Request PROVE Written(r) = {}
    BY DEF Ascending
  <2>. QED
    BY DEF Init, NoTx, Written
<1>2. Inv /\ Ascending => NoDeadlock
  <2>. SUFFICES ASSUME Inv, Ascending, NEW S \in SUBSET Request, S # {},
                       \A r \in S : \E q \in S : WaitsFor(r, q)
                PROVE  FALSE
    BY DEF NoDeadlock
  <2>. DEFINE M == {q \in S : \E r \in S : WaitsFor(r, q)}
              T == {a \in Account : \E r \in M : a \in tx[r].todo /\ accLock[a] \in M}
  <2>1. ASSUME NEW q \in M
        PROVE  \E p \in M : \E a \in tx[q].todo :
                 a \in Account /\ accLock[a] = p /\ tx[q].pc = "move"
    <3>1. PICK r \in S, p \in S : WaitsFor(r, q) /\ WaitsFor(q, p)
      BY <2>1
    <3>2. WaitsForAccount(q, p) /\ tx[q].pc = "move" /\ tx[q].todo \subseteq Account
      BY <3>1, WaitingHolder
    <3>3. p \in M
      BY <3>1
    <3>. QED
      BY <3>2, <3>3 DEF WaitsForAccount
  <2>2. M # {}
    OBVIOUS
  <2>3. T # {}
    <3>1. PICK q \in M : TRUE
      BY <2>2
    <3>2. PICK p \in M, a \in tx[q].todo : a \in Account /\ accLock[a] = p
      BY <2>1
    <3>. QED
      BY <3>2
  <2>4. PICK m \in T : \A a \in T : a <= m
    BY <2>3, LastAccount
  <2>5. PICK r \in M : m \in tx[r].todo /\ accLock[m] \in M
    BY <2>4
  <2>6. PICK q \in M : accLock[m] = q
    BY <2>5
  <2>7. PICK p \in M, b \in tx[q].todo : b \in Account /\ accLock[b] = p /\ tx[q].pc = "move"
    BY <2>1, <2>6
  <2>8. b \in T
    BY <2>6, <2>7
  <2>9. tx[r].pc = "move" /\ m \in Account
    BY <2>1, <2>4, <2>5
  <2>10. m \in Written(q)
    BY <2>6, <2>9 DEF Inv, LocksMatchWork
  <2>11. m < b
    BY <2>7, <2>10 DEF Ascending
  <2>. QED
    BY <2>4, <2>7, <2>8, <2>9, <2>11
<1>. QED
  BY <1>1, <1>2, AscendingStep, Invariance, PTL DEF Spec

-----------------------------------------------------------------------------
(* Events. *)

(* A request has an event to dispatch only after it committed a completion. *)
EventsAreOfCompletions ==
    /\ dispatched \subseteq Request
    /\ EventAfterCommit
    /\ \A r \in Request : tx[r].pc = "dispatch" => tx[r].dir = 1

(* A request that goes on and neither commits nor dispatches. *)
LEMMA NoEventYet ==
    ASSUME TypeOK, NEW r \in Request,
           Create(r) \/ OnTransfer(r) \/ Step(r) \/ Abort(r), ~Commit(r), ~Dispatch(r)
    PROVE  /\ tx[r].pc \notin {"dispatch", "done"} /\ tx'[r].pc # "dispatch"
           /\ \A q \in Request \ {r} : tx'[q] = tx[q]
           /\ UNCHANGED dispatched
<1>0. tx \in [Request -> Tx] /\ tx[r] \in Tx
  BY DEF TypeOK
<1>1. CASE Rollback(r) /\ tx[r].pc \notin {"dispatch", "done"}
  BY <1>0, <1>1 DEF Rollback, NoTx
<1>2. CASE Create(r) \/ OnTransfer(r)
  BY ZenonT(60), <1>0, <1>2 DEF Create, OnTransfer, Begin, NoTx
<1>3. CASE (ChangeStatus(r) \/ Update(r) \/ Delete(r) \/ Insert(r)) /\ ~Rollback(r)
  <2>1. PICK t : Locked(r, t) /\ t.pc \in {"usableFrom", "move", "commit"}
    <3>0. \A new : Moving(tx[r], new).pc = "move"
      BY <1>0 DEF Moving, Tx
    <3>1. CASE ChangeStatus(r) \/ Insert(r)
      <4>1. PICK new : Locked(r, Moving(tx[r], new)) \/ Locked(r, [tx[r] EXCEPT !.pc = "commit"])
        BY <1>3, <3>1 DEF ChangeStatus, Insert
      <4>2. [tx[r] EXCEPT !.pc = "commit"].pc = "commit"
        BY <1>0 DEF Tx
      <4>. QED
        BY <3>0, <4>1, <4>2
    <3>2. CASE Update(r)
      <4>1. PICK new \in Row, accounts \in BOOLEAN :
              Locked(r, [tx[r] EXCEPT !.after = new,
                           !.pc = IF accounts THEN "usableFrom" ELSE "commit"])
        BY <1>3, <3>2 DEF Update
      <4>2. PICK t : t = [tx[r] EXCEPT !.after = new,
                            !.pc = IF accounts THEN "usableFrom" ELSE "commit"]
        OBVIOUS
      <4>3. t.pc \in {"usableFrom", "commit"}
        BY <1>0, <4>2 DEF Tx
      <4>. QED
        BY <4>1, <4>2, <4>3
    <3>3. CASE Delete(r)
      <4>1. PICK t : t = [tx[r] EXCEPT !.pc = "commit"]
        OBVIOUS
      <4>2. t.pc = "commit"
        BY <1>0, <4>1 DEF Tx
      <4>3. Locked(r, t)
        BY <1>3, <3>3, <4>1 DEF Delete
      <4>. QED
        BY <4>2, <4>3
    <3>. QED
      BY <1>3, <3>1, <3>2, <3>3
  <2>2. tx[r].pc \in {"lock", "insert"}
    BY <1>3 DEF ChangeStatus, Update, Delete, Insert
  <2>. QED
    BY <1>0, <2>1, <2>2 DEF Locked
<1>4. CASE (AssertFromUsable(r) \/ AssertToUsable(r)) /\ ~Rollback(r)
  BY <1>0, <1>4 DEF AssertFromUsable, AssertToUsable, AssertUsable, Tx
<1>5. CASE \E a \in Account : ApplyBalanceDelta(r, a)
  BY <1>0, <1>5 DEF ApplyBalanceDelta, Tx
<1>6. CASE NotFound(r) \/ Abort(r)
  BY <1>1, <1>6 DEF NotFound, Abort, Active
<1>7. Rollback(r) /\ ~Create(r) /\ ~OnTransfer(r) => tx[r].pc \notin {"dispatch", "done"}
  BY DEF NotFound, ChangeStatus, Update, Delete, AssertFromUsable, AssertToUsable,
         AssertUsable, Insert, ApplyBalanceDelta, Abort, Active, Step
<1>. QED
  BY <1>1, <1>2, <1>3, <1>4, <1>5, <1>6, <1>7 DEF Step

(* AC-0018-02 and AC-0018-03: no interleaving lets the handlers see the    *)
(* event of a completion that is not committed or was rolled back.         *)
THEOREM NoEventWithoutCommit == Spec => []EventAfterCommit
<1>1. Init => EventsAreOfCompletions
  BY DEF Init, EventsAreOfCompletions, EventAfterCommit, NoTx
<1>2. TypeOK /\ EventsAreOfCompletions /\ [Next]_vars => EventsAreOfCompletions'
  <2>. SUFFICES ASSUME TypeOK, EventsAreOfCompletions, [Next]_vars
                PROVE  EventsAreOfCompletions'
    OBVIOUS
  <2>. USE DEF EventsAreOfCompletions, EventAfterCommit
  <2>0. tx \in [Request -> Tx]
    BY DEF TypeOK
  <2>1. CASE UNCHANGED vars \/ \E a \in Account : SetArchived(a)
    BY <2>1 DEF vars, SetArchived
  <2>2. ASSUME NEW r \in Request, Commit(r) PROVE EventsAreOfCompletions'
    <3>1. tx[r].pc = "commit" /\ UNCHANGED dispatched
      BY <2>2 DEF Commit
    <3>2. /\ tx'[r].pc = "dispatch" => tx'[r].dir = 1
          /\ \A q \in Request \ {r} : tx'[q] = tx[q]
      BY <2>0, <2>2 DEF Commit, NoTx, Tx
    <3>. QED
      BY <3>1, <3>2
  <2>3. ASSUME NEW r \in Request, Dispatch(r) \/ LoseEvents(r) PROVE EventsAreOfCompletions'
    <3>1. /\ tx[r].pc = "dispatch" /\ tx'[r].pc = "done" /\ tx'[r].dir = tx[r].dir
          /\ \A q \in Request \ {r} : tx'[q] = tx[q]
          /\ dispatched \subseteq dispatched' /\ dispatched' \subseteq dispatched \cup {r}
      BY <2>0, <2>3 DEF Dispatch, LoseEvents, Tx
    <3>. QED
      BY <3>1
  <2>4. ASSUME NEW r \in Request, ~Commit(r), ~Dispatch(r),
               Create(r) \/ OnTransfer(r) \/ Step(r) \/ Abort(r)
        PROVE  EventsAreOfCompletions'
    BY <2>4, NoEventYet
  <2>. QED
    BY <2>1, <2>2, <2>3, <2>4 DEF Next
<1>. QED
  BY <1>1, <1>2, TypeCorrect, PTL DEF Spec, EventsAreOfCompletions
=============================================================================
