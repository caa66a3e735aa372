-------------------------- MODULE RecurrenceProofs --------------------------
(***************************************************************************)
(* What the jobs and the requests on a series leave, for every calendar,   *)
(* set of requests and of values: no forecast outside the series, the      *)
(* model of the series on the forecasts, what was settled or closed as it  *)
(* was, and nothing left to extend into what was deleted.                  *)
(*                                                                         *)
(* The lock of the series orders the operations on it.  Between the lock   *)
(* and the commit of one, the others only confirm, settle or move single   *)
(* occurrences: forecasts become fewer, so the rows the statement found    *)
(* still include all that it has to change.                                *)
(***************************************************************************)
EXTENDS Recurrence, FiniteSetTheorems, FunctionTheorems, WellFoundedInduction, TLAPS

USE RecurrenceAssumption

Types ==
    /\ today \in Nat
    /\ series \in Series \cup {NoSeries}
    /\ occ \in [Id -> Row \cup {Absent}]
    /\ tx \in [Process -> Tx]
    /\ list \subseteq Id

InSpan(d) == d >= series.startsOn /\ (series.endsOn # NoDay => d <= series.endsOn)

(* One operation at a time has the lock of the series. *)
OneLocked == \A p, q \in Process : tx[p].pc = "locked" /\ tx[q].pc = "locked" => p = q

(* What an operation that has the lock found is still so; a delete whose   *)
(* occurrence is gone is going to be refused.                              *)
Stage(q) ==
    /\ tx[q].pc = "probe" => tx[q].on \in Id /\ tx[q].op = "delete"
    /\ tx[q].pc = "locked" /\ tx[q].op = "extend" =>
         series # NoSeries /\ \A d \in tx[q].dates : InSpan(d)
    /\ tx[q].pc = "locked" /\ tx[q].op = "end" =>
         /\ series # NoSeries /\ tx[q].date >= series.startsOn
         /\ \A i \in Id : Generated(i) /\ occ[i].date > tx[q].date => i \in tx[q].todo
    /\ tx[q].pc = "locked" /\ tx[q].op = "delete" =>
         /\ tx[q].on \in Id
         /\ Exists(tx[q].on) =>
              \A i \in Id : Generated(i) /\ occ[i].date >= tx[q].date => i \in tx[q].todo
    /\ tx[q].pc = "locked" /\ tx[q].op = "following" =>
         /\ series # NoSeries /\ tx[q].on \in Id
         /\ Exists(tx[q].on) /\ MayTake(tx[q].on, tx[q].change)
    /\ tx[q].pc = "locked" => tx[q].op # "none"

Inv ==
    /\ Types
    /\ OneLocked
    /\ \A q \in Process : Stage(q)
    /\ NothingAfterEnd
    /\ ForecastsFollowModel

(* A row that exists is told from one that does not. *)
LEMMA AbsentNotRow == \A x \in Row : x # Absent /\ x.status # "ABSENT"
  BY DEF Row, Absent, Status

(* A forecast is a row, of a day. *)
LEMMA ForecastRow ==
    ASSUME Types, NEW i \in Id, occ[i].status = "FORECAST"
    PROVE  occ[i] \in Row /\ occ[i].date \in Date /\ occ[i].date \in Nat
<1>1. occ[i] \in Row
  BY DEF Types, Absent
<1>2. occ[i].date \in Date
  BY <1>1 DEF Row
<1>. QED
  BY <1>1, <1>2 DEF Date

(* Days are natural numbers, identifiers are not the mark of none. *)
LEMMA Numbers == Date \subseteq Nat /\ Id \subseteq Nat /\ 0 \notin Id /\ NoDay \notin Date
  BY DEF Date, Id

(* A model changed is a model; one changed in every part is as given. *)
LEMMA ChangedModel ==
    ASSUME NEW model \in Model, NEW change \in Change
    PROVE  /\ Changed(model, change) \in Model
           /\ "amount" \notin DOMAIN change => Changed(model, change)["amount"] = model["amount"]
           /\ "amount" \in DOMAIN change => Changed(model, change)["amount"] = change["amount"]
           /\ DOMAIN change = Part =>
                \A other \in Model : Changed(other, change) = Changed(model, change)
<1>1. PICK given \in SUBSET Part : change \in [given -> Value]
  BY DEF Change
<1>2. "amount" \in Part
  BY DEF Part
<1>. QED
  BY <1>1, <1>2 DEF Changed, Model

(* There are models, and changes of nothing. *)
LEMMA SomeModel == Model # {} /\ NoChange \in Change
<1>1. PICK v \in Value : TRUE
  OBVIOUS
<1>2. [p \in Part |-> v] \in Model
  BY <1>1 DEF Model
<1>3. NoChange \in [{} -> Value] /\ {} \in SUBSET Part
  BY DEF NoChange
<1>. QED
  BY <1>2, <1>3 DEF Change

(* An idle process. *)
LEMMA NoTxType == NoTx \in Tx
  BY SomeModel DEF Tx, NoTx, Date

(* At the start nothing is in progress and there is no occurrence. *)
LEMMA InitInv == Init => Inv
<1>. SUFFICES ASSUME Init PROVE Inv
  OBVIOUS
<1>1. Types
  BY NoTxType DEF Init, Types
<1>2. \A i \in Id : occ[i].status = "ABSENT"
  BY DEF Init, Absent
<1>3. \A q \in Process : tx[q].pc = "idle"
  BY DEF Init, NoTx
<1>4. series = NoSeries
  BY DEF Init
<1>. QED
  BY <1>1, <1>2, <1>3, <1>4 DEF Inv, OneLocked, Stage, NothingAfterEnd, ForecastsFollowModel, Generated

-----------------------------------------------------------------------------
(* Steps on single occurrences. *)

(* What they have in common: no row appears or goes, none becomes a        *)
(* forecast, one that stays a forecast keeps its date unless the user      *)
(* moves it, and the row locked by a change of the model is left alone.    *)
Ordinary ==
    /\ UNCHANGED <<series, tx>>
    /\ \A i \in Id :
         /\ occ[i] = Absent => occ'[i] = Absent
         /\ occ[i] # Absent => occ'[i] # Absent /\ occ'[i].model = occ[i].model
         /\ occ'[i].status = "FORECAST" =>
              /\ occ[i].status = "FORECAST"
              /\ occ'[i].mark # "moved" => occ'[i].mark = occ[i].mark /\ occ'[i].date = occ[i].date
         /\ (\E q \in Process : tx[q].pc = "locked" /\ tx[q].op = "following" /\ tx[q].on = i) =>
              occ'[i] = occ[i]

(* They keep the invariant. *)
LEMMA OrdinaryInv ==
    ASSUME Inv, Ordinary, Types' PROVE Inv'
<1>. USE DEF Inv, Ordinary
<1>1. OneLocked'
  BY DEF OneLocked
<1>2. ASSUME NEW q \in Process PROVE Stage(q)'
  <2>1. \A i \in Id : Generated(i)' => Generated(i) /\ occ'[i].date = occ[i].date
    BY DEF Generated
  <2>2. \A i \in Id : Exists(i)' <=> Exists(i)
    BY DEF Exists
  <2>3. CASE tx[q].pc = "locked" /\ tx[q].op = "following"
    <3>1. Exists(tx[q].on)' /\ MayTake(tx[q].on, tx[q].change)'
      BY <2>3 DEF Stage, Exists, MayTake
    <3>. QED
      BY <2>3, <3>1 DEF Stage
  <2>4. CASE tx[q].pc = "locked" /\ tx[q].op = "delete"
    <3>1. tx[q].on \in Id /\ (Exists(tx[q].on)' <=> Exists(tx[q].on))
      BY <2>4 DEF Stage, Exists
    <3>. QED
      BY <2>1, <2>4, <3>1 DEF Stage
  <2>5. CASE ~(tx[q].pc = "locked" /\ tx[q].op \in {"following", "delete"})
    BY <2>1, <2>5 DEF Stage, InSpan
  <2>. QED
    BY <2>3, <2>4, <2>5
<1>3. NothingAfterEnd'
  BY DEF NothingAfterEnd, Generated
<1>4. ForecastsFollowModel'
  <2>1. \A i \in Id : occ[i] = Absent => occ'[i].status # "FORECAST"
    BY DEF Absent
  <2>. QED
    BY <2>1 DEF ForecastsFollowModel
<1>. QED
  BY <1>1, <1>2, <1>3, <1>4

(* One row takes a new value. *)
LEMMA OneRow ==
    ASSUME Inv, NEW i \in Id, RowFree(i), NEW x \in Row, Exists(i),
           occ' = [occ EXCEPT ![i] = x], UNCHANGED <<series, tx, today>>, list' \subseteq Id,
           x.model = occ[i].model,
           x.status = "FORECAST" =>
             /\ occ[i].status = "FORECAST"
             /\ x.mark # "moved" => x.mark = occ[i].mark /\ x.date = occ[i].date
    PROVE  Ordinary /\ Types'
<1>. USE DEF Inv
<1>1. \A j \in Id : occ'[j] = IF j = i THEN x ELSE occ[j]
  BY DEF Types
<1>2. occ[i] # Absent /\ x # Absent
  BY AbsentNotRow DEF Exists
<1>3. ASSUME NEW q \in Process, tx[q].pc = "locked", tx[q].op = "following", tx[q].on = i
      PROVE  FALSE
  BY <1>3 DEF RowFree
<1>4. Ordinary
  BY <1>1, <1>2, <1>3 DEF Ordinary
<1>. QED
  BY <1>4 DEF Types

(* Confirming, settling, moving or reposting an occurrence, alone or by    *)
(* the daily promotion.                                                    *)
LEMMA OneOccurrence ==
    ASSUME Inv, NEW i \in Id, Promote(i) \/ Reschedule(i) \/ Repost(i) \/ ChangeStatus(i)
    PROVE  Ordinary /\ Types'
<1>. USE DEF Inv
<1>1. Exists(i) => occ[i] \in Row
  BY DEF Exists, Types
<1>2. ASSUME occ[i] \in Row
      PROVE  /\ Confirmed(occ[i]) \in Row /\ Confirmed(occ[i]).status = "OPEN"
             /\ Confirmed(occ[i]).model = occ[i].model
             /\ \A status \in Status :
                  /\ [occ[i] EXCEPT !.status = status] \in Row
                  /\ [occ[i] EXCEPT !.status = status].status = status
                  /\ [occ[i] EXCEPT !.status = status].model = occ[i].model
  BY <1>2 DEF Confirmed, Row, Status
<1>3. CASE Promote(i)
  <2>1. RowFree(i) /\ UNCHANGED <<today, series, tx>> /\ list' \subseteq Id
    BY <1>3 DEF Promote, InOrder, Types
  <2>2. CASE occ[i].status = "FORECAST" /\ ~occ[i].closed
    <3>1. Exists(i) /\ occ' = [occ EXCEPT ![i] = Confirmed(occ[i])]
      BY <1>3, <2>2 DEF Promote, Exists, Absent
    <3>. QED
      BY <1>1, <1>2, <2>1, <3>1, OneRow
  <2>3. CASE ~(occ[i].status = "FORECAST" /\ ~occ[i].closed)
    <3>1. UNCHANGED occ
      BY <1>3, <2>3 DEF Promote
    <3>. QED
      BY <2>1, <3>1 DEF Ordinary, Types
  <2>. QED
    BY <2>2, <2>3
<1>4. CASE Reschedule(i)
  <2>1. PICK d \in Date : Alone(i, [occ[i] EXCEPT !.date = d, !.mark = "moved"])
    BY <1>4 DEF Reschedule
  <2>2. Exists(i) /\ occ[i].status = "FORECAST" /\ RowFree(i)
    BY <1>4, <2>1 DEF Reschedule, Alone
  <2>3. PICK x : x = [occ[i] EXCEPT !.date = d, !.mark = "moved"]
    OBVIOUS
  <2>4. x \in Row /\ x.model = occ[i].model /\ x.mark = "moved"
    BY <1>1, <2>2, <2>3 DEF Row
  <2>. QED
    BY <2>1, <2>2, <2>3, <2>4, OneRow DEF Alone, Types
<1>5. CASE ChangeStatus(i)
  <2>1. PICK x : /\ Alone(i, x)
                 /\ x = Confirmed(occ[i]) \/ \E s \in {"OPEN", "SETTLED"} : x = [occ[i] EXCEPT !.status = s]
    BY <1>5 DEF ChangeStatus
  <2>2. Exists(i) /\ RowFree(i) /\ occ[i] \in Row
    BY <1>1, <2>1 DEF Alone
  <2>3. x \in Row /\ x.model = occ[i].model /\ x.status # "FORECAST"
    BY <1>2, <2>1, <2>2 DEF Status
  <2>. QED
    BY <2>1, <2>2, <2>3, OneRow DEF Alone, Types
<1>6. CASE Repost(i)
  <2>1. PICK x : x = [occ[i] EXCEPT !.closed = FALSE]
    OBVIOUS
  <2>2. Exists(i) /\ RowFree(i) /\ Alone(i, x)
    BY <1>6, <2>1 DEF Repost, Alone
  <2>3. /\ x \in Row /\ x.model = occ[i].model /\ x.status = occ[i].status
        /\ x.mark = occ[i].mark /\ x.date = occ[i].date
    BY <1>1, <2>1, <2>2 DEF Row
  <2>. QED
    BY <2>2, <2>3, OneRow DEF Alone, Types
<1>. QED
  BY <1>3, <1>4, <1>5, <1>6

(* The steps of the calendar and of the promotion's list. *)
LEMMA OthersOrdinary ==
    ASSUME Inv, NextDay \/ CloseWindow \/ ListDue \/ StopPromotion \/ UNCHANGED vars
    PROVE  Ordinary /\ Types'
<1>. USE DEF Inv
<1>1. CASE NextDay \/ ListDue \/ StopPromotion \/ UNCHANGED vars
  BY <1>1 DEF NextDay, ListDue, StopPromotion, Due, vars, Ordinary, Types
<1>2. CASE CloseWindow
  <2>1. UNCHANGED <<today, series, tx, list>> /\ \A q \in Process : tx[q].pc = "idle"
    BY <1>2 DEF CloseWindow
  <2>2. PICK fallen : /\ fallen \subseteq {i \in Id : Exists(i)}
                      /\ occ' = [i \in Id |-> IF i \in fallen THEN [occ[i] EXCEPT !.closed = TRUE]
                                                             ELSE occ[i]]
    BY <1>2 DEF CloseWindow
  <2>3. \A i \in fallen : occ[i] \in Row
    BY <2>2 DEF Types, Exists
  <2>4. ASSUME NEW x \in Row
        PROVE  /\ [x EXCEPT !.closed = TRUE] \in Row
               /\ [x EXCEPT !.closed = TRUE].status = x.status
               /\ [x EXCEPT !.closed = TRUE].model = x.model
               /\ [x EXCEPT !.closed = TRUE].mark = x.mark
               /\ [x EXCEPT !.closed = TRUE].date = x.date
    BY DEF Row
  <2>5. Types'
    BY <2>1, <2>2, <2>3, <2>4 DEF Types
  <2>6. \A i \in Id :
          \/ occ'[i] = occ[i]
          \/ /\ occ'[i] \in Row /\ occ[i] \in Row
             /\ occ'[i].status = occ[i].status /\ occ'[i].model = occ[i].model
             /\ occ'[i].mark = occ[i].mark /\ occ'[i].date = occ[i].date
    BY <2>2, <2>3, <2>4
  <2>. QED
    BY <2>1, <2>5, <2>6, AbsentNotRow DEF Ordinary
<1>. QED
  BY <1>1, <1>2

-----------------------------------------------------------------------------
(* Steps of one transaction that write nothing. *)

(* A transaction takes the record t: if it then has the lock nobody else   *)
(* does, and it fits its stage.                                            *)
LEMMA RecordInv ==
    ASSUME Inv, NEW r \in Process, NEW t \in Tx, tx' = [tx EXCEPT ![r] = t],
           UNCHANGED <<today, series, occ, list>>,
           t.pc = "locked" => SeriesFree,
           Stage(r)'
    PROVE  Inv'
<1>. USE DEF Inv
<1>1. \A q \in Process : tx'[q] = IF q = r THEN t ELSE tx[q]
  BY DEF Types
<1>2. Types' /\ NothingAfterEnd' /\ ForecastsFollowModel'
  BY DEF Types, NothingAfterEnd, ForecastsFollowModel, Generated
<1>3. OneLocked'
  BY <1>1 DEF OneLocked, SeriesFree
<1>4. ASSUME NEW q \in Process PROVE Stage(q)'
  BY <1>1 DEF Stage, InSpan, Generated, Exists, MayTake
<1>. QED
  BY <1>2, <1>3, <1>4

(* Taking the lock, reading an occurrence to delete, giving up. *)
LEMMA BeginEndInv ==
    ASSUME Inv, NEW r \in Process, EndSeries(r) PROVE Inv'
<1>. USE DEF Inv
<1>1. PICK d \in Date :
        /\ d >= series.startsOn
        /\ Begin(r, [NoTx EXCEPT !.pc = "locked", !.op = "end", !.date = d, !.todo = After(d)])
  BY DEF EndSeries
<1>2. PICK t : t = [NoTx EXCEPT !.pc = "locked", !.op = "end", !.date = d, !.todo = After(d)]
  OBVIOUS
<1>3. /\ t \in Tx /\ t.pc = "locked" /\ t.op = "end" /\ t.date = d /\ t.todo = After(d)
  BY <1>2, NoTxType DEF NoTx, Tx, After
<1>4. tx' = [tx EXCEPT ![r] = t] /\ tx'[r] = t /\ UNCHANGED <<today, series, occ, list>>
  BY <1>1, <1>2 DEF Begin, Types
<1>5. Stage(r)'
  BY <1>1, <1>3, <1>4 DEF Stage, EndSeries, After, Generated
<1>. QED
  BY <1>3, <1>4, <1>5, RecordInv DEF EndSeries

(* delete finds its occurrence and then locks its series: nothing is written yet. *)
LEMMA BeginDeleteInv ==
    ASSUME Inv, NEW r \in Process, Delete(r) \/ LockSeriesOf(r) PROVE Inv'
<1>. USE DEF Inv
<1>1. CASE Delete(r)
  <2>1. PICK i \in Id :
          Exists(i) /\ Begin(r, [NoTx EXCEPT !.pc = "probe", !.op = "delete",
                                             !.on = i, !.date = occ[i].date])
    BY <1>1 DEF Delete
  <2>2. PICK t : t = [NoTx EXCEPT !.pc = "probe", !.op = "delete", !.on = i, !.date = occ[i].date]
    OBVIOUS
  <2>3. occ[i].date \in Date
    BY <2>1 DEF Types, Exists, Row
  <2>4. t \in Tx /\ t.pc = "probe" /\ t.op = "delete" /\ t.on = i
    BY <2>2, <2>3, NoTxType DEF NoTx, Tx
  <2>5. tx' = [tx EXCEPT ![r] = t] /\ tx'[r] = t /\ UNCHANGED <<today, series, occ, list>>
    BY <2>1, <2>2 DEF Begin, Types
  <2>6. Stage(r)'
    BY <2>4, <2>5 DEF Stage
  <2>. QED
    BY <2>4, <2>5, <2>6, RecordInv
<1>2. CASE LockSeriesOf(r)
  <2>1. PICK t : t = [tx[r] EXCEPT !.pc = "locked",
                                   !.todo = {i \in Id : Exists(i) /\ occ[i].date >= tx[r].date}]
    OBVIOUS
  <2>2. tx' = [tx EXCEPT ![r] = t] /\ tx'[r] = t /\ UNCHANGED <<today, series, occ, list>>
    BY <1>2, <2>1 DEF LockSeriesOf, Types
  <2>3. /\ t \in Tx /\ t.pc = "locked" /\ t.op = tx[r].op /\ t.on = tx[r].on
        /\ t.date = tx[r].date
        /\ t.todo = {i \in Id : Exists(i) /\ occ[i].date >= tx[r].date}
    BY <2>1 DEF Types, Tx
  <2>4. SeriesFree /\ tx[r].on \in Id /\ tx[r].op = "delete"
    BY <1>2 DEF LockSeriesOf, Stage
  <2>5. \A i \in Id : Generated(i) => Exists(i)
    BY DEF Generated, Exists, Absent
  <2>6. Stage(r)'
    BY <2>2, <2>3, <2>4, <2>5 DEF Stage, Generated, Exists
  <2>. QED
    BY <2>2, <2>3, <2>4, <2>6, RecordInv
<1>. QED
  BY <1>1, <1>2

(* An update of the following occurrences takes the series and lists its rows. *)
LEMMA BeginFollowingInv ==
    ASSUME Inv, NEW r \in Process, UpdateFollowing(r) PROVE Inv'
<1>. USE DEF Inv
<1>1. PICK i \in Id, c \in Change :
        /\ Exists(i) /\ MayTake(i, c)
        /\ Begin(r, [NoTx EXCEPT !.pc = "locked", !.op = "following", !.on = i, !.change = c,
                                 !.todo = After(occ[i].date)])
  BY DEF UpdateFollowing
<1>2. PICK t : t = [NoTx EXCEPT !.pc = "locked", !.op = "following", !.on = i, !.change = c,
                                !.todo = After(occ[i].date)]
  OBVIOUS
<1>3. t \in Tx /\ t.pc = "locked" /\ t.op = "following" /\ t.on = i /\ t.change = c
  BY <1>2, NoTxType DEF NoTx, Tx, After
<1>4. tx' = [tx EXCEPT ![r] = t] /\ tx'[r] = t /\ UNCHANGED <<today, series, occ, list>>
  BY <1>1, <1>2 DEF Begin, Types
<1>5. Stage(r)'
  BY <1>1, <1>3, <1>4 DEF Stage, UpdateFollowing, Exists, MayTake
<1>. QED
  BY <1>3, <1>4, <1>5, RecordInv DEF UpdateFollowing

(* The extension takes the series and lists the dates that are missing, all of its span. *)
LEMMA BeginExtendInv ==
    ASSUME Inv, Extend PROVE Inv'
<1>. USE DEF Inv
<1>1. PICK t : t = [NoTx EXCEPT !.pc = "locked", !.op = "extend",
                                !.dates = {d \in SeriesDates(series) : ~Occurring(d)}]
  OBVIOUS
<1>2. /\ t \in Tx /\ t.pc = "locked" /\ t.op = "extend"
      /\ \A d \in t.dates : d \in Date /\ InSpan(d)
  BY <1>1, NoTxType DEF NoTx, Tx, SeriesDates, InSpan
<1>3. /\ Job \in Process /\ tx' = [tx EXCEPT ![Job] = t] /\ tx'[Job] = t
      /\ UNCHANGED <<today, series, occ, list>>
  BY <1>1 DEF Extend, Begin, Types, Process
<1>4. Stage(Job)'
  BY <1>2, <1>3 DEF Stage, Extend, InSpan
<1>. QED
  BY <1>2, <1>3, <1>4, RecordInv DEF Extend

(* A transaction that rolls back leaves the tables as they were. *)
LEMMA LeaveInv ==
    ASSUME Inv, NEW r \in Process, Abort(r) PROVE Inv'
<1>1. tx' = [tx EXCEPT ![r] = NoTx] /\ tx'[r] = NoTx /\ UNCHANGED <<today, series, occ, list>>
  BY DEF Abort, Leave, Inv, Types
<1>2. NoTx.pc = "idle"
  BY DEF NoTx
<1>3. Stage(r)'
  BY <1>1, <1>2 DEF Stage
<1>. QED
  BY <1>1, <1>2, <1>3, NoTxType, RecordInv

-----------------------------------------------------------------------------
(* The commits: whoever commits had the lock, so nobody else has it then.  *)
LEMMA CommitInv ==
    ASSUME Inv, NEW r \in Process, tx[r].pc = "locked", Leave(r),
           occ' \in [Id -> Row \cup {Absent}], series' \in Series \cup {NoSeries},
           NothingAfterEnd', ForecastsFollowModel'
    PROVE  Inv'
<1>. USE DEF Inv
<1>1. \A q \in Process : tx'[q] = IF q = r THEN NoTx ELSE tx[q]
  BY DEF Types, Leave
<1>2. \A q \in Process \ {r} : tx[q].pc # "locked"
  BY DEF OneLocked
<1>3. \A q \in Process : tx'[q].pc # "locked"
  BY <1>1, <1>2 DEF NoTx
<1>4. \A q \in Process : Stage(q)'
  BY <1>1, <1>3 DEF Stage, NoTx
<1>. QED
  BY <1>3, <1>4, NoTxType DEF Types, Leave, OneLocked

(* end: what it leaves are the forecasts up to the date. *)
LEMMA CommitEndInv ==
    ASSUME Inv, NEW r \in Process, CommitEnd(r) PROVE Inv'
<1>. USE DEF Inv
<1>1. /\ tx[r].pc = "locked" /\ tx[r].op = "end" /\ tx[r] \in Tx
      /\ series \in Series /\ tx[r].date >= series.startsOn
      /\ \A i \in Id : Generated(i) /\ occ[i].date > tx[r].date => i \in tx[r].todo
  BY DEF CommitEnd, Committing, Stage, Types
<1>2. /\ series' = [series EXCEPT !.endsOn = tx[r].date]
      /\ occ' = [i \in Id |-> IF i \in tx[r].todo \cap After(tx[r].date) THEN Absent ELSE occ[i]]
      /\ Leave(r)
  BY DEF CommitEnd
<1>3. tx[r].date \in Date /\ tx[r].date \in Nat
  BY <1>1, Numbers DEF Tx
<1>4. /\ series' \in Series /\ series'.startsOn = series.startsOn
      /\ series'.endsOn = tx[r].date /\ series'.model = series.model
      /\ series.startsOn \in Nat
  BY <1>1, <1>2, <1>3, Numbers DEF Series
<1>5. series' # NoSeries
  BY <1>4, Numbers, <1>3 DEF NoSeries
<1>6. \A i \in Id : occ'[i] = Absent \/ (occ'[i] = occ[i] /\ (Generated(i) => occ[i].date <= tx[r].date))
  <2>1. \A i \in Id : Generated(i) => occ[i].date \in Nat
    BY ForecastRow DEF Generated
  <2>. QED
    BY <1>1, <1>2, <1>3, <2>1 DEF After, Generated
<1>7. NothingAfterEnd'
  BY <1>1, <1>4, <1>5, <1>6 DEF NothingAfterEnd, Generated, Absent
<1>8. ForecastsFollowModel'
  BY <1>4, <1>6 DEF ForecastsFollowModel, Absent
<1>9. occ' \in [Id -> Row \cup {Absent}]
  BY <1>2 DEF Types
<1>. QED
  BY <1>1, <1>2, <1>4, <1>7, <1>8, <1>9, CommitInv

(* A set of days that is not empty has a first one. *)
LEMMA FirstDay ==
    ASSUME NEW S \in SUBSET Date, S # {}
    PROVE  SmallestOf(S) \in S /\ \A d \in S : SmallestOf(S) <= d
<1>. DEFINE upTo(d) == {e \in Date : e <= d}
            U == {upTo(d) : d \in S}
            R == StrictSubsetOrdering(Date)
<1>1. IsFiniteSet(Date)
  BY FS_Interval DEF Date
<1>2. IsWellFoundedOn(R, SUBSET Date)
  BY <1>1, FS_StrictSubsetOrderingWellFounded, FS_FiniteSubsetsOfFinite
<1>3. U \subseteq SUBSET Date /\ U # {}
  OBVIOUS
<1>. HIDE DEF R
<1>4. PICK X \in U : \A Y \in U : <<Y, X>> \notin R
  BY <1>2, <1>3, WFMin, Zenon
<1>5. PICK m \in S : X = upTo(m)
  BY <1>4
<1>6. ASSUME NEW d \in S, d < m PROVE FALSE
  <2>1. upTo(d) \in U /\ upTo(d) \in SUBSET Date /\ X \in SUBSET Date
    BY <1>3
  <2>0. d \in Int /\ m \in Int /\ m \in Date /\ \A e \in Date : e \in Int
    BY Numbers
  <2>2. upTo(d) \subseteq upTo(m) /\ m \in upTo(m) /\ m \notin upTo(d)
    <3>1. \A e \in Date : e <= d => e <= m
      BY <1>6, <2>0
    <3>2. m <= m /\ ~(m <= d)
      BY <1>6, <2>0
    <3>. QED
      BY <2>0, <3>1, <3>2
  <2>3. <<upTo(d), X>> \in R
    BY <1>5, <2>1, <2>2 DEF R, StrictSubsetOrdering
  <2>. QED
    BY <1>4, <2>1, <2>3
<1>7. \E x \in S : \A d \in S : x <= d
  BY <1>5, <1>6, Numbers
<1>. QED
  BY <1>7 DEF SmallestOf

(* endSeriesBefore: what is left of the series has its days before the     *)
(* deletion, or is the first occurrence that was kept.                     *)
LEMMA EndsBefore ==
    ASSUME NEW s \in Series, NEW date \in Date, NEW rows \in [Id -> Row \cup {Absent}],
           NEW after, after = EndSeriesBefore(s, date, rows)
    PROVE  \/ /\ date > s.startsOn /\ after \in Series
              /\ after.startsOn = s.startsOn /\ after.endsOn = date - 1 /\ after.model = s.model
           \/ /\ date <= s.startsOn /\ after = NoSeries /\ \A i \in Id : rows[i] = Absent
           \/ /\ date <= s.startsOn /\ after \in Series
              /\ \E i \in Id : /\ rows[i] # Absent
                               /\ after.startsOn = rows[i].date /\ after.endsOn = rows[i].date
<1>. DEFINE left == {rows[i].date : i \in {j \in Id : rows[j] # Absent}}
<1>1. s.startsOn \in Date /\ s.startsOn \in Nat /\ date \in Nat
  BY Numbers DEF Series
<1>2. CASE date - 1 >= s.startsOn
  <2>1. date - 1 \in Date /\ date > s.startsOn
    BY <1>1, <1>2 DEF Date
  <2>2. after = [s EXCEPT !.endsOn = date - 1]
    BY <1>2 DEF EndSeriesBefore
  <2>. QED
    BY <2>1, <2>2 DEF Series
<1>3. CASE ~(date - 1 >= s.startsOn) /\ left = {}
  <2>1. \A i \in Id : rows[i] = Absent
    <3>. SUFFICES ASSUME NEW i \in Id, rows[i] # Absent PROVE FALSE
      OBVIOUS
    <3>1. rows[i].date \in left
      OBVIOUS
    <3>. QED
      BY <1>3, <3>1
  <2>2. after = NoSeries
    BY <1>3 DEF EndSeriesBefore
  <2>3. date <= s.startsOn
    BY <1>1, <1>3
  <2>. QED
    BY <2>1, <2>2, <2>3
<1>4. CASE ~(date - 1 >= s.startsOn) /\ left # {}
  <2>1. left \subseteq Date
    BY DEF Row
  <2>2. SmallestOf(left) \in left
    BY <1>4, <2>1, FirstDay
  <2>3. PICK i \in Id : rows[i] # Absent /\ rows[i].date = SmallestOf(left)
    BY <2>2
  <2>4. after = [s EXCEPT !.startsOn = rows[i].date, !.endsOn = rows[i].date]
    BY <1>4, <2>3 DEF EndSeriesBefore
  <2>5. rows[i].date \in Date
    BY <2>1, <2>2, <2>3
  <2>6. after \in Series /\ after.startsOn = rows[i].date /\ after.endsOn = rows[i].date
    BY <2>4, <2>5 DEF Series
  <2>7. date <= s.startsOn
    BY <1>1, <1>4
  <2>. QED
    BY <2>3, <2>6, <2>7
<1>. QED
  BY <1>2, <1>3, <1>4

(* What the commit of a delete leaves of the series. *)
LEMMA AfterDelete ==
    ASSUME Inv, NEW r \in Process, CommitDelete(r), NEW after, after = series'
    PROVE  LET date == tx[r].date IN
           \/ /\ date > series.startsOn /\ after \in Series
              /\ after.startsOn = series.startsOn /\ after.endsOn = date - 1
              /\ after.model = series.model
           \/ /\ date <= series.startsOn /\ after = NoSeries
           \/ /\ date <= series.startsOn /\ after \in Series
              /\ \E i \in Id : /\ occ'[i] # Absent
                               /\ after.startsOn = occ'[i].date /\ after.endsOn = occ'[i].date
<1>. USE DEF Inv
<1>. DEFINE date == tx[r].date
<1>1. occ' \in [Id -> Row \cup {Absent}] /\ after = EndSeriesBefore(series, date, occ')
  BY DEF CommitDelete, Types
<1>2. tx[r] \in Tx /\ series # NoSeries
  BY DEF CommitDelete, Types
<1>3. series \in Series /\ date \in Date
  BY <1>2 DEF Types, Tx
<1>4. \/ /\ date > series.startsOn /\ after \in Series
         /\ after.startsOn = series.startsOn /\ after.endsOn = date - 1
         /\ after.model = series.model
      \/ /\ date <= series.startsOn /\ after = NoSeries
      \/ /\ date <= series.startsOn /\ after \in Series
         /\ \E i \in Id : /\ occ'[i] # Absent
                          /\ after.startsOn = occ'[i].date /\ after.endsOn = occ'[i].date
  <2>1. PICK rows : rows = occ'
    OBVIOUS
  <2>2. rows \in [Id -> Row \cup {Absent}] /\ after = EndSeriesBefore(series, date, rows)
    BY <1>1, <2>1
  <2>3. PICK s \in Series, d \in Date : s = series /\ d = date
    BY <1>1, <1>3
  <2>4. after = EndSeriesBefore(s, d, rows)
    BY <2>2, <2>3
  <2>5. \/ /\ d > s.startsOn /\ after \in Series
           /\ after.startsOn = s.startsOn /\ after.endsOn = d - 1 /\ after.model = s.model
        \/ /\ d <= s.startsOn /\ after = NoSeries /\ \A i \in Id : rows[i] = Absent
        \/ /\ d <= s.startsOn /\ after \in Series
           /\ \E i \in Id : /\ rows[i] # Absent
                            /\ after.startsOn = rows[i].date /\ after.endsOn = rows[i].date
    BY <2>2, <2>4, EndsBefore
  <2>. QED
    BY <2>1, <2>3, <2>5
<1>. QED
  BY <1>4

(* delete: the forecasts it leaves are before its date, and so is the end. *)
LEMMA CommitDeleteInv ==
    ASSUME Inv, NEW r \in Process, CommitDelete(r) PROVE Inv'
<1>. USE DEF Inv
<1>. DEFINE date == tx[r].date
<1>1. PICK doomed : /\ doomed = {i \in tx[r].todo : Exists(i) /\ occ[i].date >= date /\ ~Kept(i)}
                    /\ tx[r].on \in doomed /\ series # NoSeries
                    /\ occ' = [i \in Id |-> IF i \in doomed THEN Absent ELSE occ[i]]
                    /\ series' = EndSeriesBefore(series, date, occ')
  BY DEF CommitDelete
<1>2. /\ tx[r].pc = "locked" /\ tx[r].op = "delete" /\ tx[r] \in Tx /\ Leave(r)
      /\ series \in Series /\ tx[r].on \in Id /\ Exists(tx[r].on)
  BY <1>1 DEF CommitDelete, Committing, Stage, Types
<1>3. \A i \in Id : Generated(i) /\ occ[i].date >= date => i \in tx[r].todo
  BY <1>2 DEF Stage
<1>4. occ' \in [Id -> Row \cup {Absent}]
  BY <1>1 DEF Types
<1>5. date \in Date /\ date \in Nat /\ series.startsOn \in Nat
  BY <1>2, Numbers DEF Tx, Series
<1>6. \A i \in Id : Generated(i)' => /\ Generated(i) /\ occ'[i] = occ[i] /\ occ[i].date <= date - 1
                                     /\ occ[i].date >= series.startsOn
  <2>. SUFFICES ASSUME NEW i \in Id, Generated(i)'
                PROVE  /\ Generated(i) /\ occ'[i] = occ[i] /\ occ[i].date <= date - 1
                       /\ occ[i].date >= series.startsOn
    OBVIOUS
  <2>1. occ'[i] = occ[i] /\ i \notin doomed
    BY <1>1 DEF Generated, Absent
  <2>2. Generated(i) /\ Exists(i) /\ ~Kept(i)
    BY <2>1 DEF Generated, Exists, Kept, Absent
  <2>3. ~(occ[i].date >= date)
    BY <1>1, <1>3, <2>1, <2>2
  <2>4. occ[i].date \in Nat
    BY <2>2, ForecastRow DEF Generated
  <2>. QED
    BY <1>5, <2>1, <2>2, <2>3, <2>4 DEF NothingAfterEnd
<1>7. PICK after : after = series'
  OBVIOUS
<1>8. \/ /\ date > series.startsOn /\ after \in Series
         /\ after.startsOn = series.startsOn /\ after.endsOn = date - 1
         /\ after.model = series.model
      \/ /\ date <= series.startsOn /\ after = NoSeries
      \/ /\ date <= series.startsOn /\ after \in Series
         /\ \E i \in Id : /\ occ'[i] # Absent
                          /\ after.startsOn = occ'[i].date /\ after.endsOn = occ'[i].date
  BY <1>7, AfterDelete
<1>9. series' = after
  BY <1>7
<1>10. CASE date > series.startsOn
  <2>1. /\ after.startsOn = series.startsOn /\ after.endsOn = date - 1
        /\ after.model = series.model /\ after \in Series
    BY <1>5, <1>8, <1>10
  <2>2. after # NoSeries
    <3>1. date - 1 # NoDay
      BY <1>5
    <3>. QED
      BY <2>1, <3>1 DEF NoSeries
  <2>3. NothingAfterEnd'
    BY <1>5, <1>6, <1>9, <1>10, <2>1, <2>2 DEF NothingAfterEnd
  <2>4. ForecastsFollowModel'
    BY <1>6, <1>9, <2>1 DEF ForecastsFollowModel, Generated
  <2>. QED
    BY <1>2, <1>4, <1>9, <2>1, <2>3, <2>4, CommitInv
<1>11. CASE date <= series.startsOn
  <2>1. \A i \in Id : ~Generated(i)'
    <3>1. ASSUME NEW i \in Id, Generated(i)' PROVE FALSE
      <4>1. occ[i].date \in Nat
        BY <1>6, <3>1, ForecastRow DEF Generated
      <4>. QED
        BY <1>5, <1>6, <1>11, <3>1, <4>1
    <3>. QED
      BY <3>1
  <2>2. after \in Series \cup {NoSeries} /\ (after # NoSeries => after.startsOn <= after.endsOn)
    <3>1. CASE after = NoSeries
      BY <3>1
    <3>2. CASE after # NoSeries
      <4>1. PICK i \in Id : /\ occ'[i] # Absent /\ after \in Series
                            /\ after.startsOn = occ'[i].date /\ after.endsOn = occ'[i].date
        BY <1>5, <1>8, <1>11, <3>2
      <4>2. occ'[i] \in Row
        BY <1>4, <4>1
      <4>3. occ'[i].date \in Nat
        BY <4>2, Numbers DEF Row
      <4>. QED
        BY <4>1, <4>3
    <3>. QED
      BY <3>1, <3>2
  <2>3. NothingAfterEnd' /\ ForecastsFollowModel'
    BY <1>9, <2>1, <2>2 DEF NothingAfterEnd, ForecastsFollowModel, Generated
  <2>. QED
    BY <1>2, <1>4, <1>9, <2>2, <2>3, CommitInv
<1>. QED
  BY <1>5, <1>10, <1>11

(* A row that takes a change is otherwise as it was; if it followed its    *)
(* series, or was given every part, it follows it after the change.        *)
LEMMA TakingRow ==
    ASSUME NEW x \in Row, NEW c \in Change, NEW y, y = Taking(x, c)
    PROVE  /\ y \in Row /\ y.status = x.status /\ y.date = x.date
           /\ y.mark = "moved" <=> x.mark = "moved"
           /\ y.model = Changed(x.model, c)
           /\ y.mark = "none" => x.mark = "none" \/ DOMAIN c = Part
<1>1. x.model \in Model
  BY DEF Row
<1>2. Changed(x.model, c) \in Model
  BY <1>1, ChangedModel
<1>. QED
  BY <1>2 DEF Taking, Row

(* A row that does not, and is not there at all.                           *)
LEMMA EarlyRow ==
    /\ Early(Absent) = Absent
    /\ \A x \in Row :
         /\ Early(x) \in Row /\ Early(x).status = x.status /\ Early(x).date = x.date
         /\ Early(x).model = x.model
         /\ Early(x).mark = "moved" <=> x.mark = "moved"
         /\ Early(x).status = "FORECAST" => Early(x).mark # "none"
  BY DEF Early, Row, Absent

(* What a change of the model leaves of each row.                          *)
LEMMA FollowingRows ==
    ASSUME Types, NEW r \in Process, CommitFollowing(r), Stage(r), NEW i \in Id
    PROVE  \/ occ[i] = Absent /\ occ'[i] = Absent
           \/ /\ occ[i] \in Row /\ occ'[i] \in Row
              /\ occ'[i].status = occ[i].status /\ occ'[i].date = occ[i].date
              /\ occ'[i].mark = "moved" <=> occ[i].mark = "moved"
              /\ \/ /\ i = tx[r].on \/ i \in After(occ[tx[r].on].date)
                    /\ occ'[i].model = Changed(occ[i].model, tx[r].change)
                    /\ occ'[i].mark = "none" =>
                         occ[i].mark = "none" \/ DOMAIN tx[r].change = Part
                 \/ /\ occ'[i].model = occ[i].model
                    /\ occ'[i].status = "FORECAST" => occ'[i].mark # "none"
<1>. DEFINE on    == tx[r].on
            takes == {on} \cup (tx[r].todo \cap After(occ[on].date))
<1>1. on \in Id /\ Exists(on) /\ tx[r].change \in Change
  BY DEF CommitFollowing, Committing, Stage, Types, Tx
<1>2. occ'[i] = IF i \in takes THEN Taking(occ[i], tx[r].change) ELSE Early(occ[i])
  BY DEF CommitFollowing, Remodelled
<1>3. CASE i \in takes
  <2>1. occ[i] \in Row
    <3>1. i # on => i \in After(occ[on].date)
      BY <1>3
    <3>. QED
      BY <1>1, <3>1, ForecastRow DEF After, Exists, Types
  <2>2. occ'[i] = Taking(occ[i], tx[r].change)
    BY <1>2, <1>3
  <2>3. i = on \/ i \in After(occ[on].date)
    BY <1>3
  <2>. HIDE DEF on
  <2>. QED
    BY <1>1, <2>1, <2>2, <2>3, TakingRow DEF on
<1>4. CASE i \notin takes
  <2>1. occ'[i] = Early(occ[i])
    BY <1>2, <1>4
  <2>2. CASE occ[i] = Absent
    BY <2>1, <2>2, EarlyRow
  <2>3. CASE occ[i] \in Row
    <3>1. /\ occ'[i] \in Row /\ occ'[i].status = occ[i].status /\ occ'[i].date = occ[i].date
          /\ occ'[i].model = occ[i].model /\ (occ'[i].mark = "moved" <=> occ[i].mark = "moved")
          /\ occ'[i].status = "FORECAST" => occ'[i].mark # "none"
      BY <2>1, <2>3, EarlyRow
    <3>. QED
      BY <2>3, <3>1
  <2>. QED
    BY <2>2, <2>3 DEF Types
<1>. QED
  BY <1>3, <1>4

(* scope=following: the forecasts that do not take the change are those    *)
(* marked as early.                                                        *)
LEMMA CommitFollowingInv ==
    ASSUME Inv, NEW r \in Process, CommitFollowing(r) PROVE Inv'
<1>. USE DEF Inv
<1>. DEFINE c == tx[r].change
<1>1. /\ tx[r].pc = "locked" /\ Leave(r) /\ series \in Series /\ series # NoSeries
      /\ c \in Change /\ series.model \in Model
  BY DEF CommitFollowing, Committing, Stage, Types, Tx, Series
<1>2. Changed(series.model, c) \in Model
  BY <1>1, ChangedModel
<1>3. /\ series' \in Series /\ series'.model = Changed(series.model, c)
      /\ series'.startsOn = series.startsOn /\ series'.endsOn = series.endsOn
  BY <1>1, <1>2 DEF CommitFollowing, Series
<1>4. series' # NoSeries
  <2>1. "model" \in DOMAIN series' /\ "model" \notin DOMAIN NoSeries
    BY <1>3 DEF Series, NoSeries
  <2>. QED
    BY <2>1
<1>5. \A i \in Id :
        \/ occ[i] = Absent /\ occ'[i] = Absent
        \/ /\ occ[i] \in Row /\ occ'[i] \in Row
           /\ occ'[i].status = occ[i].status /\ occ'[i].date = occ[i].date
           /\ occ'[i].mark = "moved" <=> occ[i].mark = "moved"
  BY FollowingRows
<1>6. ASSUME NEW i \in Id, occ'[i].status = "FORECAST", occ'[i].mark = "none"
      PROVE  occ'[i].model = series'.model
  <2>1. /\ occ[i] \in Row /\ occ[i].status = "FORECAST" /\ occ[i].model \in Model
        /\ occ'[i].model = Changed(occ[i].model, c)
        /\ occ[i].mark = "none" \/ DOMAIN c = Part
    BY <1>6, FollowingRows DEF Absent, Row
  <2>2. CASE occ[i].mark = "none"
    BY <1>3, <2>1, <2>2 DEF ForecastsFollowModel
  <2>3. CASE DOMAIN c = Part
    BY <1>1, <1>3, <2>1, <2>3, ChangedModel
  <2>. QED
    BY <2>1, <2>2, <2>3
<1>7. occ' \in [Id -> Row \cup {Absent}]
  BY <1>5 DEF CommitFollowing, Remodelled
<1>8. NothingAfterEnd'
  BY <1>1, <1>3, <1>4, <1>5 DEF NothingAfterEnd, Generated, Absent
<1>. QED
  BY <1>1, <1>3, <1>6, <1>7, <1>8, CommitInv DEF ForecastsFollowModel

-----------------------------------------------------------------------------
(* New occurrences. *)

(* The part of a finite set that is not in a subset of it.                 *)
LEMMA Rest ==
    ASSUME NEW S, IsFiniteSet(S), NEW T \in SUBSET S
    PROVE  /\ IsFiniteSet(T) /\ IsFiniteSet(S \ T)
           /\ Cardinality(T) \in Nat /\ Cardinality(S \ T) \in Nat
           /\ Cardinality(S) = Cardinality(T) + Cardinality(S \ T)
<1>1. IsFiniteSet(T) /\ IsFiniteSet(S \ T)
  BY FS_Subset
<1>2. Cardinality(T \cup (S \ T)) =
        Cardinality(T) + Cardinality(S \ T) - Cardinality(T \cap (S \ T))
  BY <1>1, FS_Union
<1>3. T \cup (S \ T) = S /\ T \cap (S \ T) = {}
  OBVIOUS
<1>4. Cardinality(T) \in Nat /\ Cardinality(S \ T) \in Nat
  BY <1>1, FS_CardinalityType
<1>5. Cardinality(T \cap (S \ T)) = 0
  BY <1>3, FS_EmptySet
<1>6. Cardinality(S) = Cardinality(T) + Cardinality(S \ T) - 0
  BY <1>2, <1>3, <1>5
<1>. QED
  BY <1>1, <1>4, <1>6

(* What there is enough of can be given out, one each.                     *)
LEMMA OneEach ==
    ASSUME NEW S, NEW T, IsFiniteSet(S), IsFiniteSet(T), Cardinality(S) <= Cardinality(T)
    PROVE  \E f \in [S -> T] : \A a, b \in S : f[a] = f[b] => a = b
<1>1. PICK n \in Nat : n = Cardinality(S) /\ ExistsBijection(1..n, S)
  BY FS_CardinalityType
<1>2. PICK k \in Nat : k = Cardinality(T) /\ ExistsBijection(1..k, T)
  BY FS_CardinalityType
<1>3. ExistsInjection(1..n, 1..k)
  BY <1>1, <1>2, Fun_NatInjLeq
<1>4. ExistsInjection(S, 1..n)
  BY <1>1, Fun_ExistsBijEquiv
<1>5. ExistsInjection(1..k, T)
  BY <1>2, Fun_ExistsBijEquiv
<1>6. ExistsInjection(S, T)
  BY <1>3, <1>4, <1>5, Fun_ExistsInjTransitive
<1>7. PICK f : f \in Injection(S, T)
  BY <1>6, Fun_ExistsInj
<1>. QED
  BY <1>7, Fun_InjectionProperties

(* Each date gets an identifier of its own. *)
LEMMA NewIdsType ==
    ASSUME NEW dates \in SUBSET Date, Enough(dates)
    PROVE  /\ NewIds(dates) \in [dates -> Fresh]
           /\ \A d, e \in dates : NewIds(dates)[d] = NewIds(dates)[e] => d = e
<1>. DEFINE own   == {d \in dates : d + 1 \in Fresh}
            taken == {d + 1 : d \in own}
            g     == [d \in own |-> d + 1]
<1>0. \A d \in Date : d \in Int
  BY Numbers
<1>1. IsFiniteSet(dates) /\ IsFiniteSet(Fresh)
  <2>1. IsFiniteSet(Date) /\ IsFiniteSet(Id)
    BY FS_Interval DEF Date, Id
  <2>2. Fresh \in SUBSET Id
    BY DEF Fresh
  <2>. QED
    BY <2>1, <2>2, FS_Subset
<1>2. own \in SUBSET dates /\ taken \in SUBSET Fresh
  OBVIOUS
<1>3. Cardinality(own) = Cardinality(taken)
  <2>1. g \in [own -> taken]
    OBVIOUS
  <2>2. \A a, b \in own : g[a] = g[b] => a = b
    BY <1>0
  <2>3. \A t \in taken : \E s \in own : g[s] = t
    OBVIOUS
  <2>4. g \in Bijection(own, taken)
    <3>. HIDE DEF g, own, taken
    <3>1. g \in Surjection(own, taken)
      BY <2>1, <2>3, Fun_IsSurj
    <3>. QED
      BY <2>1, <2>2, <3>1, Fun_IsBij
  <2>5. ExistsBijection(own, taken)
    <3>. HIDE DEF g, own, taken
    <3>. QED
      BY <2>4, Fun_ExistsBij
  <2>6. IsFiniteSet(own)
    BY <1>1, <1>2, FS_Subset
  <2>. HIDE DEF g, own, taken
  <2>. QED
    BY <2>5, <2>6, FS_Bijection
<1>4. /\ IsFiniteSet(dates \ own) /\ IsFiniteSet(Fresh \ taken)
      /\ Cardinality(dates \ own) <= Cardinality(Fresh \ taken)
  <2>. HIDE DEF own, taken, g
  <2>1. /\ Cardinality(dates) = Cardinality(own) + Cardinality(dates \ own)
        /\ Cardinality(own) \in Nat /\ Cardinality(dates \ own) \in Nat
        /\ IsFiniteSet(dates \ own)
    BY <1>1, <1>2, Rest
  <2>2. /\ Cardinality(Fresh) = Cardinality(taken) + Cardinality(Fresh \ taken)
        /\ Cardinality(taken) \in Nat /\ Cardinality(Fresh \ taken) \in Nat
        /\ IsFiniteSet(Fresh \ taken)
    BY <1>1, <1>2, Rest
  <2>. QED
    BY <1>3, <2>1, <2>2 DEF Enough
<1>5. PICK h \in [dates \ own -> Fresh \ taken] : \A a, b \in dates \ own : h[a] = h[b] => a = b
  BY <1>4, OneEach
<1>. DEFINE f == [d \in dates |-> IF d \in own THEN d + 1 ELSE h[d]]
<1>6. f \in [dates -> Fresh]
  BY <1>5
<1>7. \A d, e \in dates : f[d] = f[e] => d = e
  BY <1>0, <1>5
<1>8. \A d \in dates : d + 1 \in Fresh => f[d] = d + 1
  OBVIOUS
<1>9. \E ids \in [dates -> Fresh] :
        /\ \A d, e \in dates : ids[d] = ids[e] => d = e
        /\ \A d \in dates : d + 1 \in Fresh => ids[d] = d + 1
  BY <1>6, <1>7, <1>8
<1>. QED
  BY <1>9 DEF NewIds

(* A row for each date, and nothing else touched. *)
LEMMA InsertedRows ==
    ASSUME Types, NEW dates \in SUBSET Date, Enough(dates), NEW m \in Model,
           NEW ids, ids = NewIds(dates), NEW rows, rows = Inserted(ids, m)
    PROVE  /\ rows \in [Id -> Row \cup {Absent}]
           /\ \A i \in Id :
                \/ rows[i] = occ[i] /\ \A d \in dates : ids[d] # i
                \/ /\ i \in Fresh /\ rows[i] \in Row
                   /\ rows[i].date \in dates /\ ids[rows[i].date] = i
                   /\ rows[i].status = "FORECAST" /\ rows[i].mark = "none"
                   /\ rows[i].model = m
           /\ \A d \in dates : ids[d] \in Id /\ rows[ids[d]] \in Row /\ rows[ids[d]].date = d
<1>1. /\ ids \in [dates -> Fresh] /\ DOMAIN ids = dates
      /\ \A d, e \in dates : ids[d] = ids[e] => d = e
  BY NewIdsType
<1>2. Fresh \subseteq Id
  BY DEF Fresh
<1>3. ASSUME NEW d \in dates
      PROVE  rows[ids[d]] = [date |-> d, status |-> "FORECAST", model |-> m, mark |-> "none",
                             closed |-> FALSE]
  <2>1. (CHOOSE e \in dates : ids[e] = ids[d]) = d
    BY <1>1
  <2>2. ids[d] \in Id
    BY <1>1, <1>2
  <2>. QED
    BY <1>1, <2>1, <2>2 DEF Inserted
<1>4. ASSUME NEW d \in dates
      PROVE  /\ ids[d] \in Fresh /\ rows[ids[d]] \in Row /\ rows[ids[d]].date = d
             /\ rows[ids[d]].status = "FORECAST" /\ rows[ids[d]].mark = "none"
             /\ rows[ids[d]].model = m
  <2>1. PICK x : x = [date |-> d, status |-> "FORECAST", model |-> m, mark |-> "none",
                      closed |-> FALSE]
    OBVIOUS
  <2>2. x \in Row /\ x.date = d /\ x.status = "FORECAST" /\ x.mark = "none" /\ x.model = m
    BY <2>1 DEF Row, Status
  <2>. QED
    BY <1>1, <1>3, <2>1, <2>2
<1>5. ASSUME NEW i \in Id, \A d \in dates : ids[d] # i PROVE rows[i] = occ[i]
  BY <1>1, <1>5 DEF Inserted
<1>6. \A i \in Id : rows[i] \in Row \cup {Absent}
  BY <1>4, <1>5 DEF Types
<1>7. rows \in [Id -> Row \cup {Absent}]
  BY <1>6 DEF Inserted
<1>. QED
  BY <1>2, <1>4, <1>5, <1>7

(* extend: the dates were found in the span of the series, which nobody    *)
(* has changed since.                                                      *)
LEMMA CommitExtendInv ==
    ASSUME Inv, CommitExtend PROVE Inv'
<1>. USE DEF Inv
<1>. DEFINE dates == tx[Job].dates
<1>1. /\ Job \in Process /\ tx[Job].pc = "locked" /\ Leave(Job) /\ UNCHANGED series
      /\ Enough(dates) /\ dates \in SUBSET Date
      /\ series # NoSeries /\ \A d \in dates : InSpan(d)
  BY DEF CommitExtend, Committing, Process, Stage, Types, Tx
<1>2. series \in Series /\ series.model \in Model
  BY <1>1 DEF Types, Series
<1>3. /\ occ' \in [Id -> Row \cup {Absent}]
      /\ \A i \in Id : occ'[i] = occ[i] \/ /\ occ'[i].date \in dates
                                           /\ occ'[i].model = series.model
  <2>1. occ' = Inserted(NewIds(dates), series.model)
    BY DEF CommitExtend
  <2>2. PICK D \in SUBSET Date, m \in Model : D = dates /\ m = series.model
    BY <1>1, <1>2
  <2>3. PICK ids, rows : ids = NewIds(D) /\ rows = Inserted(ids, m)
    OBVIOUS
  <2>4. rows = occ'
    BY <2>1, <2>2, <2>3
  <2>6. Enough(D)
    BY <1>1, <2>2
  <2>5. /\ rows \in [Id -> Row \cup {Absent}]
        /\ \A i \in Id : rows[i] = occ[i] \/ (rows[i].date \in D /\ rows[i].model = m)
    BY <2>3, <2>6, InsertedRows
  <2>. QED
    BY <2>2, <2>4, <2>5
<1>4. NothingAfterEnd'
  BY <1>1, <1>3 DEF NothingAfterEnd, Generated, InSpan
<1>5. ForecastsFollowModel'
  BY <1>1, <1>3 DEF ForecastsFollowModel
<1>. QED
  BY <1>1, <1>2, <1>3, <1>4, <1>5, CommitInv

(* create: the first occurrences are in the span; whoever has the lock of  *)
(* the series that is gone is a delete that will not find its occurrence.  *)
LEMMA CreateInv ==
    ASSUME Inv, Create PROVE Inv'
<1>. USE DEF Inv
<1>1. series = NoSeries /\ (\A i \in Id : occ[i] = Absent) /\ UNCHANGED <<today, tx, list>>
  BY DEF Create
<1>0. PICK start \in Date, end \in Date \cup {NoDay}, status \in {"FORECAST", "OPEN"} :
        LET model == CHOOSE x \in Model : TRUE
            new == [startsOn |-> start, endsOn |-> end, model |-> model] IN
        /\ end # NoDay => end >= start
        /\ series' = new
        /\ Enough(SeriesDates(new))
        /\ LET ids == NewIds(SeriesDates(new)) IN
           occ' = [Inserted(ids, model) EXCEPT ![ids[start]].status = status]
  BY ZenonT(60) DEF Create
<1>22. PICK m : m = CHOOSE x \in Model : TRUE
  OBVIOUS
<1>2. /\ end # NoDay => end >= start
      /\ series' = [startsOn |-> start, endsOn |-> end, model |-> m]
      /\ Enough(SeriesDates([startsOn |-> start, endsOn |-> end, model |-> m]))
      /\ LET ids == NewIds(SeriesDates([startsOn |-> start, endsOn |-> end, model |-> m])) IN
         occ' = [Inserted(ids, m) EXCEPT ![ids[start]].status = status]
  BY <1>0, <1>22
<1>3. m \in Model
  BY <1>22, SomeModel
<1>4. /\ series' \in Series /\ series' # NoSeries /\ series'.startsOn = start
      /\ series'.endsOn = end /\ series'.model = m
  <2>1. "model" \in DOMAIN series' /\ "model" \notin DOMAIN NoSeries
    BY <1>2 DEF NoSeries
  <2>. QED
    BY <1>2, <1>3, <2>1 DEF Series
<1>5. PICK dates \in SUBSET Date :
        dates = SeriesDates([startsOn |-> start, endsOn |-> end, model |-> m])
  BY DEF SeriesDates
<1>6. start \in Int /\ (start - start) % Month = 0
  <2>1. start \in Int /\ start - start = 0
    BY Numbers
  <2>2. 0 % Month = 0
    OBVIOUS
  <2>. QED
    BY <2>1, <2>2
<1>7. /\ start \in dates
      /\ \A d \in dates : d >= start /\ (end # NoDay => d <= end)
  BY <1>2, <1>5, <1>6 DEF SeriesDates
<1>8. PICK ids, rows : ids = NewIds(dates) /\ rows = Inserted(ids, m)
  OBVIOUS
<1>9. /\ rows \in [Id -> Row \cup {Absent}]
      /\ \A i \in Id :
           \/ rows[i] = occ[i]
           \/ i \in Fresh /\ rows[i] \in Row /\ rows[i].date \in dates /\ rows[i].model = m
      /\ ids[start] \in Id /\ rows[ids[start]] \in Row /\ rows[ids[start]].date = start
  <2>1. Enough(dates)
    BY <1>2, <1>5
  <2>2. /\ rows \in [Id -> Row \cup {Absent}]
        /\ \A i \in Id :
             \/ rows[i] = occ[i]
             \/ i \in Fresh /\ rows[i] \in Row /\ rows[i].date \in dates /\ rows[i].model = m
        /\ \A d \in dates : ids[d] \in Id /\ rows[ids[d]] \in Row /\ rows[ids[d]].date = d
    BY <1>3, <1>8, <2>1, InsertedRows
  <2>. QED
    BY <1>7, <2>2
<1>10. occ' = [rows EXCEPT ![ids[start]].status = status]
  BY <1>2, <1>5, <1>8
<1>11. PICK i0 \in Id, x \in Row :
         /\ i0 = ids[start] /\ rows[i0] = x
         /\ occ' = [rows EXCEPT ![i0] = [x EXCEPT !.status = status]]
  BY <1>9, <1>10
<1>12. PICK y : y = [x EXCEPT !.status = status]
  OBVIOUS
<1>20. y \in Row /\ y.date = x.date /\ y.model = x.model
  BY <1>12 DEF Row, Status
<1>13. \A i \in Id : occ'[i] = IF i = i0 THEN y ELSE rows[i]
  BY <1>9, <1>11, <1>12
<1>21. i0 \in Fresh /\ x.date \in dates /\ x.model = m
  BY <1>1, <1>9, <1>11, AbsentNotRow
<1>14. \A i \in Id :
         \/ occ'[i] = Absent
         \/ i \in Fresh /\ occ'[i].date \in dates /\ occ'[i].model = m
  BY <1>1, <1>9, <1>13, <1>20, <1>21
<1>15. Types'
  BY <1>1, <1>4, <1>9, <1>11, <1>12, <1>20 DEF Types
<1>16. NothingAfterEnd'
  <2>1. series'.endsOn # NoDay => series'.startsOn <= series'.endsOn
    <3>1. start \in Int /\ (end # NoDay => end \in Int)
      BY Numbers
    <3>. QED
      BY <1>2, <1>4, <3>1
  <2>2. \A i \in Id : Generated(i)' => occ'[i].date \in dates
    BY <1>14 DEF Generated, Absent
  <2>. QED
    BY <1>4, <1>7, <2>1, <2>2 DEF NothingAfterEnd
<1>17. ForecastsFollowModel'
  BY <1>4, <1>14 DEF ForecastsFollowModel, Absent
<1>18. OneLocked'
  BY <1>1 DEF OneLocked
<1>19. ASSUME NEW q \in Process PROVE Stage(q)'
  <2>1. tx[q].on \notin Fresh
    BY DEF Fresh
  <2>2. tx[q].pc = "locked" => tx[q].op \notin {"extend", "end", "following", "none"}
    BY <1>1 DEF Stage
  <2>3. tx[q].pc = "locked" /\ tx[q].op = "delete" => tx[q].on \in Id /\ ~Exists(tx[q].on)'
    BY <1>1, <1>14, <2>1 DEF Stage, Exists
  <2>. QED
    BY <1>1, <2>2, <2>3 DEF Stage, Exists
<1>. QED
  BY <1>15, <1>16, <1>17, <1>18, <1>19

-----------------------------------------------------------------------------
(* Every step keeps the invariant. *)
LEMMA NextInv == Inv /\ [Next]_vars => Inv'
<1>. SUFFICES ASSUME Inv, [Next]_vars PROVE Inv'
  OBVIOUS
<1>1. CASE NextDay \/ CloseWindow \/ ListDue \/ StopPromotion \/ UNCHANGED vars
  BY <1>1, OthersOrdinary, OrdinaryInv
<1>2. ASSUME NEW i \in Id, Promote(i) \/ Reschedule(i) \/ Repost(i) \/ ChangeStatus(i) PROVE Inv'
  BY <1>2, OneOccurrence, OrdinaryInv
<1>3. ASSUME NEW r \in Process, User(r) \/ Work(r) \/ Abort(r) PROVE Inv'
  BY <1>3, BeginEndInv, BeginDeleteInv, BeginFollowingInv, CommitEndInv, CommitDeleteInv,
     CommitFollowingInv, LeaveInv DEF User, Work
<1>4. CASE Extend \/ CommitExtend \/ Create
  BY <1>4, BeginExtendInv, CommitExtendInv, CreateInv
<1>. QED
  BY <1>1, <1>2, <1>3, <1>4 DEF Next, Process

(* Types, the lock of the series, and what each stage found: kept by every *)
(* step.                                                                   *)
THEOREM Invariance == Spec => []Inv
  BY InitInv, NextInv, PTL DEF Spec

(* AC-0017-10, AC-0017-11: ending a series, by its end or by deleting an   *)
(* occurrence, leaves no forecast outside it, whatever extension, change   *)
(* of the model or promotion it crosses.                                   *)
THEOREM NoForecastAfterEnd == Spec => []NothingAfterEnd
  BY Invariance, PTL DEF Inv

(* INV-0017-07: the forecasts of a series, those the extension creates     *)
(* while the model changes included, have its model.                       *)
THEOREM ForecastsHaveModel == Spec => []ForecastsFollowModel
  BY Invariance, PTL DEF Inv

(* INV-0017-06, INV-0017-07: no step deletes, or gives another amount, an  *)
(* occurrence that is settled or counts in a closed window, and none goes  *)
(* back to a forecast; a change of the model may give it another text.     *)
THEOREM PastIsKept == Spec => PastKept
<1>. DEFINE Keeps == \A i \in Id : Exists(i) =>
                       /\ Kept(i) =>
                            occ'[i] # Absent /\ occ'[i].model["amount"] = occ[i].model["amount"]
                       /\ occ[i].status # "FORECAST" => occ'[i].status # "FORECAST"
<1>1. ASSUME Inv, [Next]_vars PROVE Keeps
  <2>. USE <1>1 DEF Inv
  <2>1. CASE Ordinary
    BY <2>1 DEF Ordinary, Exists
  <2>2. CASE UNCHANGED occ
    BY <2>2 DEF Exists
  <2>3. ASSUME NEW r \in Process, CommitEnd(r) PROVE Keeps
    <3>1. \A i \in Id : occ'[i] = occ[i] \/ (i \in After(tx[r].date) /\ occ'[i] = Absent)
      BY <2>3 DEF CommitEnd
    <3>2. \A i \in After(tx[r].date) : occ[i].status = "FORECAST" /\ ~Kept(i)
      BY DEF After, Kept
    <3>. QED
      BY <3>1, <3>2 DEF Exists
  <2>4. ASSUME NEW r \in Process, CommitDelete(r) PROVE Keeps
    <3>1. \A i \in Id : occ'[i] = occ[i] \/ (~Kept(i) /\ occ'[i] = Absent)
      BY <2>4 DEF CommitDelete
    <3>. QED
      BY <3>1 DEF Exists, Absent
  <2>5. ASSUME NEW r \in Process, CommitFollowing(r) PROVE Keeps
    <3>. SUFFICES ASSUME NEW i \in Id, Exists(i)
                  PROVE  /\ Kept(i) => occ'[i].model["amount"] = occ[i].model["amount"]
                         /\ occ'[i] # Absent /\ occ'[i].status = occ[i].status
      OBVIOUS
    <3>1. /\ occ[i] \in Row /\ occ'[i] \in Row /\ occ'[i].status = occ[i].status
          /\ \/ /\ i = tx[r].on \/ i \in After(occ[tx[r].on].date)
                /\ occ'[i].model = Changed(occ[i].model, tx[r].change)
             \/ occ'[i].model = occ[i].model
      BY <2>5, FollowingRows DEF Exists
    <3>2. ASSUME Kept(i), i = tx[r].on, occ'[i].model = Changed(occ[i].model, tx[r].change)
          PROVE  occ'[i].model["amount"] = occ[i].model["amount"]
      <4>1. MayTake(i, tx[r].change) /\ tx[r].change \in Change /\ occ[i].model \in Model
        BY <2>5, <3>1, <3>2 DEF CommitFollowing, Committing, Stage, Types, Tx, Row
      <4>2. "amount" \in DOMAIN tx[r].change => tx[r].change["amount"] = occ[i].model["amount"]
        BY <3>2, <4>1 DEF MayTake, Kept
      <4>. QED
        BY <3>2, <4>1, <4>2, ChangedModel
    <3>3. i \in After(occ[tx[r].on].date) => ~Kept(i)
      BY DEF After, Kept
    <3>. QED
      BY <3>1, <3>2, <3>3, AbsentNotRow
  <2>6. CASE CommitExtend
    <3>1. PICK ids \in [tx[Job].dates -> Fresh] : occ' = Inserted(ids, series.model)
      BY <2>6, NewIdsType DEF CommitExtend, Types, Tx, Process
    <3>2. \A i \in Id : Exists(i) => occ'[i] = occ[i]
      BY <3>1 DEF Inserted, Fresh
    <3>. QED
      BY <3>2 DEF Exists
  <2>7. CASE Create
    BY <2>7 DEF Create, Exists
  <2>8. CASE NextDay \/ CloseWindow \/ ListDue \/ StopPromotion \/ UNCHANGED vars
    BY <2>1, <2>8, OthersOrdinary
  <2>9. ASSUME NEW i \in Id, Promote(i) \/ Reschedule(i) \/ Repost(i) \/ ChangeStatus(i) PROVE Keeps
    BY <2>1, <2>9, OneOccurrence
  <2>10. ASSUME NEW r \in Process, User(r) \/ LockSeriesOf(r) \/ Abort(r) \/ Extend
         PROVE  UNCHANGED occ
    BY <2>10 DEF User, EndSeries, Delete, UpdateFollowing, Begin, LockSeriesOf, Abort, Extend
  <2>. QED
    BY <1>1, <2>2, <2>3, <2>4, <2>5, <2>6, <2>7, <2>8, <2>9, <2>10 DEF Next, Work, Process
<1>. QED
  BY <1>1, Invariance, PTL DEF Spec, PastKept

(* Deleting, or ending the series, whatever is extended at the same time,  *)
(* leaves no date from there on for the daily extension to fill; and none  *)
(* of the later steps brings a date after the end back, except a request   *)
(* for a later end and a deletion after the end.                           *)
THEOREM DeletionIsForGood == Spec => DeletedForGood
<1>. DEFINE Gone(i)  == Exists(i) /\ occ'[i] = Absent =>
                          ~\E d \in Date : d >= occ[i].date /\ ToFill(d)'
            Stays(d) == Ended(d) /\ ToFill(d)' => \E r \in Request : Reopens(r, d)
            Good     == (\A i \in Id : Gone(i)) /\ (\A d \in Date : Stays(d))
<1>. USE DEF Inv
<1>0. ASSUME Inv, NEW i \in Id, Exists(i) PROVE occ[i] \in Row /\ occ[i].date \in Nat
  <2>1. occ[i] \in Row
    BY <1>0 DEF Exists, Types
  <2>. QED
    BY <2>1, Numbers DEF Row
<1>1. ASSUME Inv, \A i \in Id : Exists(i) => occ'[i] # Absent,
             series' # NoSeries /\ series # NoSeries => series'.endsOn = series.endsOn
      PROVE  Good
  <2>1. ASSUME NEW d \in Date, Ended(d), ToFill(d)' PROVE FALSE
    <3>1. series'.endsOn = series.endsOn /\ series.endsOn # NoDay /\ d > series.endsOn
      BY <1>1, <2>1 DEF Ended, ToFill
    <3>2. d <= series'.endsOn
      BY <2>1, <3>1 DEF ToFill, SeriesDates
    <3>3. series.endsOn \in Nat
      BY <1>1, <2>1, <3>1, Numbers DEF Ended, Types, Series
    <3>. QED
      BY <3>1, <3>2, <3>3, Numbers
  <2>. QED
    BY <1>1, <2>1
<1>2. ASSUME Inv, NEW r \in Request, CommitEnd(r) PROVE Good
  <2>1. tx[r].date \in Date /\ series \in Series
    BY <1>2 DEF CommitEnd, Committing, Stage, Types, Tx, Process
  <2>2. series'.endsOn = tx[r].date
    BY <1>2, <2>1 DEF CommitEnd, Series
  <2>3. tx[r].date \in Nat /\ tx[r].date # NoDay
    BY <2>1, Numbers
  <2>4. \A d \in Date : ToFill(d)' => d <= tx[r].date /\ d \in Nat
    BY <2>2, <2>3, Numbers DEF ToFill, SeriesDates
  <2>5. \A i \in Id : Exists(i) /\ occ'[i] = Absent => occ[i].date > tx[r].date
    BY <1>2 DEF CommitEnd, After, Exists
  <2>6. \A d \in Date : Stays(d)
    BY <1>2, <2>4 DEF CommitEnd, Reopens
  <2>7. \A i \in Id : Gone(i)
    BY <1>0, <1>2, <2>3, <2>4, <2>5
  <2>. QED
    BY <2>6, <2>7
<1>3. ASSUME Inv, NEW r \in Request, CommitDelete(r) PROVE Good
  <2>. DEFINE date == tx[r].date
  <2>1. date \in Nat
    <3>1. date \in Date
      BY <1>3 DEF CommitDelete, Committing, Types, Tx, Process
    <3>. QED
      BY <3>1, Numbers
  <2>2. \A i \in Id : Exists(i) /\ occ'[i] = Absent => occ[i].date >= date
    BY <1>3 DEF CommitDelete, Exists
  <2>3. PICK after : after = series'
    OBVIOUS
  <2>4. ASSUME NEW d \in Date, ToFill(d)' PROVE d <= date - 1 /\ d \in Nat
    <3>1. /\ d \in Nat /\ d >= after.startsOn /\ (after.endsOn # NoDay => d <= after.endsOn)
          /\ after # NoSeries /\ ~Occurring(d)'
      BY <2>3, <2>4, Numbers DEF ToFill, SeriesDates
    <3>2. CASE after.endsOn = date - 1
      <4>1. after.endsOn # NoDay
        BY <2>1, <3>2
      <4>. QED
        BY <3>1, <3>2, <4>1
    <3>3. ASSUME NEW j \in Id, occ'[j] # Absent, after.startsOn = occ'[j].date,
                 after.endsOn = occ'[j].date
          PROVE  FALSE
      <4>1. occ'[j] \in Row
        BY <1>3, <3>3 DEF CommitDelete, Types
      <4>2. occ'[j].date \in Nat /\ occ'[j].date # NoDay
        BY <4>1, Numbers DEF Row
      <4>3. d = occ'[j].date
        BY <3>1, <3>3, <4>2
      <4>. QED
        BY <3>1, <3>3, <4>3 DEF Occurring, Exists
    <3>. QED
      BY <1>3, <2>3, <3>1, <3>2, <3>3, AfterDelete DEF Process
  <2>5. \A d \in Date : Stays(d)
    <3>1. \A d \in Date : ToFill(d)' => d < date
      BY <2>1, <2>4
    <3>. QED
      BY <1>3, <3>1 DEF CommitDelete, Reopens
  <2>6. \A i \in Id : Gone(i)
    <3>. SUFFICES ASSUME NEW i \in Id, Exists(i), occ'[i] = Absent,
                         NEW d \in Date, d >= occ[i].date, ToFill(d)'
                  PROVE  FALSE
      OBVIOUS
    <3>1. occ[i].date \in Nat /\ occ[i].date >= date /\ d <= date - 1 /\ d \in Nat
      BY <1>0, <1>3, <2>2, <2>4
    <3>. QED
      BY <2>1, <3>1
  <2>. HIDE DEF Gone, Stays
  <2>. QED
    BY <2>5, <2>6
<1>4. ASSUME Inv, NEW r \in Request, CommitFollowing(r) PROVE Good
  <2>1. \A i \in Id : Exists(i) => occ'[i] # Absent
    BY <1>4, FollowingRows, AbsentNotRow DEF Exists, Process
  <2>2. series' # NoSeries /\ series # NoSeries => series'.endsOn = series.endsOn
    BY <1>4 DEF CommitFollowing, Types, Series
  <2>. HIDE DEF Good
  <2>. QED
    BY <1>1, <1>4, <2>1, <2>2
<1>5. ASSUME Inv, CommitExtend PROVE Good
  <2>1. PICK ids \in [tx[Job].dates -> Fresh] : occ' = Inserted(ids, series.model)
    BY <1>5, NewIdsType DEF CommitExtend, Types, Tx, Process
  <2>2. \A j \in Id : Exists(j) => occ'[j] = occ[j]
    BY <2>1 DEF Inserted, Fresh
  <2>3. (\A j \in Id : Exists(j) => occ'[j] # Absent) /\ UNCHANGED series
    BY <1>5, <2>2 DEF Exists, CommitExtend
  <2>. HIDE DEF Good
  <2>. QED
    BY <1>1, <1>5, <2>2, <2>3
<1>6. ASSUME Inv, Create PROVE Good
  BY <1>6 DEF Create, Exists, Ended
<1>7. ASSUME Inv, Ordinary \/ UNCHANGED <<series, occ>> PROVE Good
  <2>1. (\A j \in Id : Exists(j) => occ'[j] # Absent) /\ UNCHANGED series
    BY <1>7 DEF Ordinary, Exists
  <2>. HIDE DEF Good
  <2>. QED
    BY <1>1, <1>7, <2>1
<1>8. ASSUME Inv, [Next]_vars PROVE Good
  <2>. HIDE DEF Good
  <2>1. CASE NextDay \/ CloseWindow \/ ListDue \/ StopPromotion \/ UNCHANGED vars
    BY <1>7, <1>8, <2>1, OthersOrdinary
  <2>2. ASSUME NEW j \in Id, Promote(j) \/ Reschedule(j) \/ Repost(j) \/ ChangeStatus(j) PROVE Good
    BY <1>7, <1>8, <2>2, OneOccurrence
  <2>3. ASSUME NEW r \in Process, User(r) \/ LockSeriesOf(r) \/ Abort(r) \/ Extend
        PROVE  UNCHANGED <<series, occ>>
    BY <2>3 DEF User, EndSeries, Delete, UpdateFollowing, Begin, LockSeriesOf, Abort, Extend
  <2>. QED
    BY <1>2, <1>3, <1>4, <1>5, <1>6, <1>7, <1>8, <2>1, <2>2, <2>3 DEF Next, Work, Process
<1>9. ASSUME Inv, [Next]_vars
      PROVE  /\ \A i \in Id : Exists(i) /\ occ'[i] = Absent =>
                  ~\E d \in Date : d >= occ[i].date /\ ToFill(d)'
             /\ \A d \in Date : Ended(d) /\ ToFill(d)' => \E r \in Request : Reopens(r, d)
  BY <1>8, <1>9
<1>. QED
  BY <1>9, Invariance, PTL DEF Spec, DeletedForGood
=============================================================================
