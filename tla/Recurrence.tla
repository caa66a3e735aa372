----------------------------- MODULE Recurrence -----------------------------
(***************************************************************************)
(* A series of fixed expenses, or earnings, and the daily jobs on it:      *)
(* ExpenseRecurrenceService and EarningRecurrenceService, and the branches *)
(* of ExpenseService and EarningService that work on a series.             *)
(*                                                                         *)
(* Days are numbers and a month has Month of them; the real calendar is in *)
(* BillingCycles.  The database runs READ COMMITTED: series and occ are    *)
(* committed data.  An operation on one occurrence is one step, taken      *)
(* while nobody holds its row; an operation on the series locks the        *)
(* series, then its rows, then commits.  All the rows it needs are locked  *)
(* in one step: their order is in Entries.                                 *)
(***************************************************************************)
EXTENDS Integers, FiniteSets

CONSTANTS
    Request,        \* the requests that run at the same time
    NumIds,         \* how many occurrences there can be at a time
    Month,          \* the days of a month
    Horizon,        \* how many days ahead a series is extended
    MaxToday,       \* the last day of the calendar
    Value,          \* of each part of the model
    NoDay           \* no last day

Id   == 1..NumIds
Date == 0..MaxToday + Horizon
Job  == "extend"

ASSUME RecurrenceAssumption ==
    /\ NumIds \in Nat \ {0} /\ Month \in Nat \ {0} /\ Horizon \in Nat /\ MaxToday \in Nat
    /\ Value # {}
    /\ NoDay \notin Int /\ Job \notin Request

(* What an occurrence copies from its series: "amount" (and the account of *)
(* an earning), and "text", the description, type and notes.  A request    *)
(* gives some of the parts a new value.                                    *)
Part    == {"amount", "text"}
Model   == [Part -> Value]
Change  == UNION {[given -> Value] : given \in SUBSET Part}
NoChange == [p \in {} |-> 0]

Changed(model, change) == [p \in Part |-> IF p \in DOMAIN change THEN change[p] ELSE model[p]]

(* OPEN stands for OPEN, VERIFYING and OVERDUE, alike to every operation   *)
(* here.  closed: its card's window is closed on the occurrence.  mark is  *)
(* history: "moved" where the user changed the date (one at a time is the  *)
(* bound), "early" for a forecast not after the occurrence from which the  *)
(* model was last changed.                                                 *)
Status == {"FORECAST", "OPEN", "SETTLED"}
Row    == [date : Date, status : Status, model : Model,
           mark : {"none", "moved", "early"}, closed : BOOLEAN]
Absent == [status |-> "ABSENT"]

Series   == [startsOn : Date, endsOn : Date \cup {NoDay}, model : Model]
NoSeries == [endsOn |-> NoDay]

VARIABLES
    today,
    onCard,         \* is the series paid with a credit card?
    series,         \* the row of expense_recurrences, or earning_recurrences
    occ,            \* its occurrences
    tx,             \* the transaction of each request, and of the extension
    list            \* what the promotion has still to promote

vars == <<today, onCard, series, occ, tx, list>>

-----------------------------------------------------------------------------
(* A transaction on the series: the occurrence it is about, the date it    *)
(* read or was given, the change it was given, the rows its statement      *)
(* found and has to lock, the dates it is going to insert.  "probe": a     *)
(* delete that has read its occurrence and not locked anything.            *)
Tx == [pc : {"idle", "probe", "locked"}, op : {"none", "extend", "end", "delete", "following"},
       on : Id \cup {0}, date : Date, change : Change,
       todo : SUBSET Id, dates : SUBSET Date]

NoTx == [pc |-> "idle", op |-> "none", on |-> 0, date |-> 0, change |-> NoChange,
         todo |-> {}, dates |-> {}]

Process == Request \cup {Job}

Exists(i)    == occ[i] # Absent
Occurring(d) == \E i \in Id : Exists(i) /\ occ[i].date = d
SeriesFree   == \A q \in Process : tx[q].pc # "locked"

(* The row of the occurrence that a change of the model began with. *)
RowFree(i)   == \A q \in Process : ~(tx[q].op = "following" /\ tx[q].on = i)
SmallestOf(S) == CHOOSE x \in S : \A y \in S : x <= y

(* Identifiers no transaction and no list has seen, for one new row each.  *)
Fresh == {i \in Id : /\ ~Exists(i) /\ i \notin list
                     /\ \A q \in Process : i # tx[q].on /\ i \notin tx[q].todo}

(* seriesDates: one a month from startsOn to the horizon or the end.       *)
SeriesDates(s) ==
    {d \in Date : /\ (d - s.startsOn) % Month = 0 /\ d >= s.startsOn
                  /\ d = s.startsOn \/ d <= today + Horizon
                  /\ s.endsOn # NoDay => d <= s.endsOn}

(* A fresh identifier for each date, if there are so many; which of them   *)
(* is immaterial.                                                          *)
Enough(dates) == Cardinality(dates) <= Cardinality(Fresh)
NewIds(dates) ==
    CHOOSE f \in [dates -> Fresh] :
        /\ \A d, e \in dates : f[d] = f[e] => d = e
        /\ \A d \in dates : d + 1 \in Fresh => f[d] = d + 1

(* The rows after inserting one FORECAST per date, which copies the model. *)
Inserted(ids, model) ==
    [i \in Id |->
       IF \E d \in DOMAIN ids : ids[d] = i
       THEN [date |-> CHOOSE d \in DOMAIN ids : ids[d] = i, status |-> "FORECAST",
             model |-> model, mark |-> "none", closed |-> FALSE]
       ELSE occ[i]]

-----------------------------------------------------------------------------
Init ==
    /\ today = 0 /\ onCard \in BOOLEAN
    /\ series = NoSeries
    /\ occ = [i \in Id |-> Absent]
    /\ tx = [q \in Process |-> NoTx]
    /\ list = {}

(* create with kind FIXED: the first occurrence has the status informed,   *)
(* the others, up to the horizon, are forecasts.  Which model the first    *)
(* one has is immaterial.                                                  *)
Create ==
    /\ series = NoSeries /\ occ = [i \in Id |-> Absent]
    /\ \E start \in Date, end \in Date \cup {NoDay}, status \in {"FORECAST", "OPEN"} :
        LET m   == CHOOSE x \in Model : TRUE
            new == [startsOn |-> start, endsOn |-> end, model |-> m] IN
        /\ start < Month /\ (end # NoDay => end >= start)
        /\ series' = new
        /\ Enough(SeriesDates(new))
        /\ LET ids == NewIds(SeriesDates(new)) IN
           occ' = [Inserted(ids, m) EXCEPT ![ids[start]].status = status]
    /\ UNCHANGED <<today, onCard, tx, list>>

Begin(r, t) ==
    /\ tx[r].pc = "idle"
    /\ tx' = [tx EXCEPT ![r] = t]
    /\ UNCHANGED <<today, onCard, series, occ, list>>

(* An occurrence that no operation on the series deletes or charges anew:  *)
(* settled, or counting in a closed window of its card.                    *)
Kept(i) == occ[i].status = "SETTLED" \/ (occ[i].closed /\ occ[i].status # "FORECAST")

(* end: the series is locked, and the DELETE finds the later forecasts.    *)
After(d) == {i \in Id : occ[i].status = "FORECAST" /\ occ[i].date > d}

EndSeries(r) ==
    /\ series # NoSeries /\ SeriesFree
    /\ \E d \in Date :
        /\ d >= series.startsOn
        /\ Begin(r, [NoTx EXCEPT !.pc = "locked", !.op = "end", !.date = d, !.todo = After(d)])

(* delete reads the occurrence, and its date, without a lock ...           *)
Delete(r) ==
    \E i \in Id : Exists(i) /\ Begin(r, [NoTx EXCEPT !.pc = "probe", !.op = "delete",
                                                     !.on = i, !.date = occ[i].date])

(* ... locks the series (lockSeriesOf) and finds the rows from that date.  *)
LockSeriesOf(r) ==
    /\ tx[r].pc = "probe" /\ SeriesFree
    /\ tx' = [tx EXCEPT ![r].pc = "locked",
                        ![r].todo = {i \in Id : Exists(i) /\ occ[i].date >= tx[r].date}]
    /\ UNCHANGED <<today, onCard, series, occ, list>>

(* A settled occurrence takes no amount; one in a closed window only its   *)
(* own; the text can always be changed.                                    *)
MayTake(i, change) ==
    "amount" \in DOMAIN change =>
        occ[i].status # "SETTLED" /\ (occ[i].closed => change["amount"] = occ[i].model["amount"])

(* update with scope=following: the series and the occurrence are locked,  *)
(* the occurrence takes the change, and the UPDATE finds the forecasts     *)
(* after it.  (A date given too is in Reschedule and Repost.)              *)
UpdateFollowing(r) ==
    /\ series # NoSeries /\ SeriesFree
    /\ \E i \in Id, change \in Change \ {NoChange} :
        /\ Exists(i) /\ MayTake(i, change)
        /\ Begin(r, [NoTx EXCEPT !.pc = "locked", !.op = "following", !.on = i,
                                 !.change = change,
                                 !.todo = After(occ[i].date)])

(* Mutants of Extend: the dates are read without the lock, and another     *)
(* operation on the series may be under way; or only those after the last  *)
(* occurrence are looked at.                                               *)
ExtendUnlocked ==
    /\ series # NoSeries
    /\ series.endsOn # NoDay => series.endsOn > today
    /\ Begin(Job, [NoTx EXCEPT !.pc = "locked", !.op = "extend",
                               !.dates = {d \in SeriesDates(series) : ~Occurring(d)}])
ExtendAfterLast ==
    /\ series # NoSeries /\ SeriesFree
    /\ series.endsOn # NoDay => series.endsOn > today
    /\ Begin(Job, [NoTx EXCEPT !.pc = "locked", !.op = "extend",
                               !.dates = {d \in SeriesDates(series) :
                                            \A i \in Id : Exists(i) => occ[i].date < d}])

(* extend: the daily job, or its retry, on a series that has not ended;    *)
(* what is missing is read under the lock of the series.                   *)
Extend ==
    /\ series # NoSeries /\ SeriesFree
    /\ series.endsOn # NoDay => series.endsOn > today
    /\ Begin(Job, [NoTx EXCEPT !.pc = "locked", !.op = "extend",
                               !.dates = {d \in SeriesDates(series) : ~Occurring(d)}])

(* From here on an operation takes effect in the step in which its last    *)
(* row lock is granted: nothing it works on can change after that.         *)
Committing(r, op) == tx[r].pc = "locked" /\ tx[r].op = op

Leave(r) ==
    /\ tx' = [tx EXCEPT ![r] = NoTx]
    /\ UNCHANGED <<today, onCard, list>>

(* uq_recurrence_id_occurred_on: an occurrence moved to one of the dates   *)
(* in the meantime makes the extension fail.                               *)
CommitExtend ==
    /\ Committing(Job, "extend")
    /\ \A d \in tx[Job].dates : ~Occurring(d)
    /\ Enough(tx[Job].dates)
    /\ occ' = Inserted(NewIds(tx[Job].dates), series.model)
    /\ UNCHANGED series
    /\ Leave(Job)

(* Mutant of CommitEnd: the rows it found are deleted whatever they became.*)
CommitEndFound(r) ==
    /\ Committing(r, "end")
    /\ occ' = [i \in Id |-> IF i \in tx[r].todo THEN Absent ELSE occ[i]]
    /\ series' = [series EXCEPT !.endsOn = tx[r].date]
    /\ Leave(r)

(* The rows it found are deleted if they are still later forecasts.        *)
CommitEnd(r) ==
    /\ Committing(r, "end")
    /\ occ' = [i \in Id |-> IF i \in tx[r].todo \cap After(tx[r].date) THEN Absent ELSE occ[i]]
    /\ series' = [series EXCEPT !.endsOn = tx[r].date]
    /\ Leave(r)

(* Mutant of EndSeriesBefore: the first occurrence ends nothing. *)
EndSeriesBeforeOnly(s, date, rows) ==
    IF date - 1 >= s.startsOn THEN [s EXCEPT !.endsOn = date - 1] ELSE s

(* endSeriesBefore: the series s after its occurrence of that date was     *)
(* deleted and rows are what is left.                                      *)
EndSeriesBefore(s, date, rows) ==
    LET left  == {rows[i].date : i \in {j \in Id : rows[j] # Absent}}
        first == SmallestOf(left) IN
    IF date - 1 >= s.startsOn THEN [s EXCEPT !.endsOn = date - 1]
    ELSE IF left = {} THEN NoSeries
    ELSE [s EXCEPT !.startsOn = first, !.endsOn = first]

(* Every row still there, not kept and not before the date goes; refused   *)
(* when the occurrence itself is not one of them.                          *)
CommitDelete(r) ==
    /\ Committing(r, "delete")
    /\ LET doomed == {i \in tx[r].todo : Exists(i) /\ occ[i].date >= tx[r].date /\ ~Kept(i)} IN
       /\ tx[r].on \in doomed /\ series # NoSeries
       /\ occ' = [i \in Id |-> IF i \in doomed THEN Absent ELSE occ[i]]
       /\ series' = EndSeriesBefore(series, tx[r].date, occ')
    /\ Leave(r)

Early(x) == IF x.status = "FORECAST" /\ x.mark = "none" THEN [x EXCEPT !.mark = "early"] ELSE x

(* A row that takes a change: once given every part, it follows again.     *)
Taking(x, change) ==
    [x EXCEPT !.model = Changed(@, change),
              !.mark  = IF @ = "early" /\ DOMAIN change = Part THEN "none" ELSE @]

(* The rows after a change of the model: its own, and those it found that  *)
(* are still later forecasts.                                              *)
Remodelled(r) ==
    LET takes == {tx[r].on} \cup (tx[r].todo \cap After(occ[tx[r].on].date)) IN
    [i \in Id |-> IF i \in takes THEN Taking(occ[i], tx[r].change) ELSE Early(occ[i])]

(* Mutant of CommitFollowing: the series itself keeps its old model. *)
CommitFollowingRowsOnly(r) ==
    /\ Committing(r, "following")
    /\ occ' = Remodelled(r)
    /\ UNCHANGED series
    /\ Leave(r)

(* applyModelToFollowing: the occurrence, the series, the later forecasts. *)
CommitFollowing(r) ==
    /\ Committing(r, "following")
    /\ occ' = Remodelled(r)
    /\ series' = [series EXCEPT !.model = Changed(@, tx[r].change)]
    /\ Leave(r)

(* A refusal, an error or a lost connection, of a request or the job. *)
Abort(r) == tx[r].pc # "idle" /\ Leave(r) /\ UNCHANGED <<series, occ>>

-----------------------------------------------------------------------------
(* Operations on occurrence i alone, without scope. *)
Alone(i, new) ==
    /\ Exists(i) /\ RowFree(i)
    /\ occ' = [occ EXCEPT ![i] = new]
    /\ UNCHANGED <<today, onCard, series, tx, list>>

(* update of the date, in an open window; no two of a series share one.    *)
(* That only a forecast moves, and only to a later day, is a bound.  (A    *)
(* change of the amount alone is in Entries.)                              *)
Reschedule(i) ==
    \E d \in Date :
        /\ Exists(i) /\ occ[i].status = "FORECAST" /\ ~occ[i].closed
        /\ d > occ[i].date /\ ~Occurring(d)
        /\ \A j \in Id \ {i} : Exists(j) => occ[j].mark # "moved"
        /\ Alone(i, [occ[i] EXCEPT !.date = d, !.mark = "moved"])

(* update repeating the date of an occurrence in a closed window: it       *)
(* posts the occurrence again, in the open one.                            *)
Repost(i) == Exists(i) /\ occ[i].closed /\ Alone(i, [occ[i] EXCEPT !.closed = FALSE])

(* changeStatus; an occurrence of a card is settled, and open again, with  *)
(* its statement.                                                          *)
Confirmed(x) == [x EXCEPT !.status = "OPEN", !.mark = IF @ = "early" THEN "none" ELSE @]

ChangeStatus(i) ==
    \/ occ[i].status = "FORECAST" /\ ~occ[i].closed /\ Alone(i, Confirmed(occ[i]))
    \/ occ[i].status = "OPEN" /\ (onCard => occ[i].closed)
         /\ Alone(i, [occ[i] EXCEPT !.status = "SETTLED"])
    \/ occ[i].status = "SETTLED" /\ (onCard => occ[i].closed)
         /\ Alone(i, [occ[i] EXCEPT !.status = "OPEN"])

-----------------------------------------------------------------------------
(* promote, the daily job or its retry: it lists the forecasts that are    *)
(* due, by date, and confirms them one by one, each in its transaction.    *)
Due == {i \in Id : occ[i].status = "FORECAST" /\ occ[i].date <= today}

ListDue ==
    /\ list = {} /\ Due # {}
    /\ list' = Due
    /\ UNCHANGED <<today, onCard, series, occ, tx>>

InOrder(i) ==
    /\ i \in list
    /\ \A j \in list : Exists(i) /\ Exists(j) => occ[i].date <= occ[j].date

(* Mutant of Promote: a closed window ends the run like any other error. *)
PromoteOrStop(i) ==
    /\ InOrder(i) /\ RowFree(i)
    /\ LET rest == list \ {i}
           ok   == occ[i].status = "FORECAST" /\ ~occ[i].closed IN
       /\ occ' = IF ok THEN [occ EXCEPT ![i] = Confirmed(@)] ELSE occ
       /\ list' = IF ok THEN rest ELSE {}
    /\ UNCHANGED <<today, onCard, series, tx>>

(* changeStatus to OPEN: one in a closed window is passed over; one that   *)
(* is gone, or no longer a forecast, is an error that ends the run.        *)
Promote(i) ==
    /\ InOrder(i) /\ RowFree(i)
    /\ LET rest == list \ {i}
           ok   == occ[i].status = "FORECAST" IN
       /\ occ' = IF ok /\ ~occ[i].closed THEN [occ EXCEPT ![i] = Confirmed(@)] ELSE occ
       /\ list' = IF ok THEN rest ELSE {}
    /\ UNCHANGED <<today, onCard, series, tx>>

(* Any other error, once it got the row it waited for. *)
StopPromotion ==
    /\ \E i \in Id : InOrder(i) /\ RowFree(i)
    /\ list' = {}
    /\ UNCHANGED <<today, onCard, series, occ, tx>>

NextDay ==
    /\ today < MaxToday /\ today' = today + 1
    /\ UNCHANGED <<onCard, series, occ, tx, list>>

(* The card's cycle ends, and its occurrences posted in it are in a closed *)
(* window; while a request or a promotion runs the step is left to         *)
(* CardStatements.                                                         *)
CloseWindow ==
    /\ onCard /\ \A q \in Process : tx[q].pc = "idle"
    /\ LET fallen == {i \in Id : Exists(i) /\ occ[i].date < today /\ ~occ[i].closed} IN
       /\ fallen # {}
       /\ occ' = [i \in Id |-> IF i \in fallen THEN [occ[i] EXCEPT !.closed = TRUE] ELSE occ[i]]
    /\ UNCHANGED <<today, onCard, series, tx, list>>

User(r) == EndSeries(r) \/ Delete(r) \/ UpdateFollowing(r)
Work(r) == LockSeriesOf(r) \/ CommitEnd(r) \/ CommitDelete(r) \/ CommitFollowing(r)

Next ==
    \/ Create \/ Extend \/ NextDay \/ CloseWindow
    \/ ListDue \/ StopPromotion
    \/ \E i \in Id : Promote(i) \/ Reschedule(i) \/ Repost(i) \/ ChangeStatus(i)
    \/ CommitExtend
    \/ \E r \in Request : User(r) \/ Work(r)
    \/ \E r \in Process : Abort(r)

Spec == Init /\ [][Next]_vars

(* The queue runs its jobs every day and tries a failed one again, so they *)
(* do not fail for good at the same point; PostgreSQL grants locks in      *)
(* order; the server runs what it accepted.                                *)
FairSpec ==
    /\ Spec
    /\ WF_vars(ListDue) /\ SF_vars(Extend) /\ SF_vars(CommitExtend)
    /\ WF_vars(CommitExtend \/ Abort(Job))
    /\ \A i \in Id : SF_vars(Promote(i))
    /\ \A r \in Request : WF_vars(Work(r) \/ Abort(r))
-----------------------------------------------------------------------------
(* Properties.                                                             *)

(* A forecast whose date nobody changed. *)
Generated(i) == occ[i].status = "FORECAST" /\ occ[i].mark # "moved"

(* Ending a series, by its end or by deleting an occurrence, leaves no     *)
(* forecast after the end, and the extension that runs at the same time,   *)
(* or afterwards, brings none back (AC-0017-10, AC-0017-11); and a series  *)
(* never ends before it begins.                                            *)
NothingAfterEnd ==
    /\ series # NoSeries /\ series.endsOn # NoDay => series.startsOn <= series.endsOn
    /\ \A i \in Id : Generated(i) =>
         /\ series # NoSeries
         /\ occ[i].date >= series.startsOn
         /\ series.endsOn # NoDay => occ[i].date <= series.endsOn

(* scope=following (INV-0017-07): the forecasts after the occurrence whose *)
(* change was applied to the series, those created later included, follow  *)
(* its model.                                                              *)
ForecastsFollowModel ==
    \A i \in Id : occ[i].status = "FORECAST" /\ occ[i].mark = "none" =>
        occ[i].model = series.model

(* Deleting an occurrence, or ending the series, leaves no date from there *)
(* on for the extension to fill (AC-0017-11); and a date after the end is  *)
(* filled again only by a user: by a request to end the series that names  *)
(* a later day, or by deleting an occurrence that stands after the end,    *)
(* since the series then ends the day before that one.                     *)
ToFill(d) == series # NoSeries /\ d \in SeriesDates(series) /\ ~Occurring(d)
Ended(d)  == series # NoSeries /\ series.endsOn # NoDay /\ d > series.endsOn

Reopens(r, d) ==
    \/ Committing(r, "end") /\ d <= tx[r].date
    \/ Committing(r, "delete") /\ d < tx[r].date

DeletedForGood ==
    [][/\ \A i \in Id : Exists(i) /\ occ'[i] = Absent =>
            ~\E d \in Date : d >= occ[i].date /\ ToFill(d)'
       /\ \A d \in Date : Ended(d) /\ ToFill(d)' => \E r \in Request : Reopens(r, d)]_<<series, occ>>

(* INV-0017-06, INV-0017-07: a settled occurrence, or one that counts in a *)
(* closed window, is never deleted and its amount never changes (its text  *)
(* may), and no occurrence goes back to a forecast.                        *)
PastKept ==
    [][\A i \in Id : Exists(i) =>
         /\ Kept(i) => occ'[i] # Absent /\ occ'[i].model["amount"] = occ[i].model["amount"]
         /\ occ[i].status # "FORECAST" => occ'[i].status # "FORECAST"]_occ

(* Every month of the series up to the horizon gets its occurrence, unless *)
(* the series ends before it.  (The converse, that a month with one never  *)
(* gets another, does not hold: the extension looks for the date, so it    *)
(* fills again a date whose occurrence was moved within the month.)        *)
MonthOf(d) == d \div Month
Missing(d) ==
    /\ series # NoSeries /\ d \in SeriesDates(series)
    /\ \A i \in Id : Exists(i) => MonthOf(occ[i].date) # MonthOf(d)
    /\ series.endsOn # NoDay => series.endsOn > today
SeriesFilled == \A d \in Date : Missing(d) ~> ~Missing(d)

(* Every forecast that is due is confirmed, however often the job fails or *)
(* finds another one in a closed window.                                   *)
DuePromoted == \A i \in Id : i \in Due /\ ~occ[i].closed ~> ~(i \in Due /\ ~occ[i].closed)
=============================================================================
