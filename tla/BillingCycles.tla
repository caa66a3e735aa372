---------------------------- MODULE BillingCycles ----------------------------
(***************************************************************************)
(* The calendar of a credit card: billing-cycle.ts, statement-chain.ts,    *)
(* monthly-dates.ts and the dates of a series, on the real calendar, and   *)
(* the days on which the statements of a card are recorded while its       *)
(* closing and due days change.  What the statements are worth is in       *)
(* CardStatements.                                                         *)
(*                                                                         *)
(* A date is 32 * month + day, where months are counted from year 0, so    *)
(* that dates compare as their YYYY-MM-DD strings do.                      *)
(***************************************************************************)
EXTENDS Integers, FiniteSets, Sequences

CONSTANTS
    CreationDates,  \* the days on which the card may be registered
    Config,         \* the closing and due days a card may have
    NumMonths,      \* how many months after its registration are followed
    Installments,   \* in how many installments a purchase is paid
    HorizonMonths,  \* how many months ahead a series is extended (12)
    Prompt          \* are ended cycles recorded before closing_day changes?

ASSUME BillingCyclesAssumption ==
    /\ CreationDates \subseteq Nat
    /\ Config \subseteq [closingDay : 1..31, dueDay : 1..31]
    /\ {NumMonths, Installments, HorizonMonths} \subseteq Nat \ {0}
    /\ Prompt \in BOOLEAN

VARIABLES
    today,          \* businessToday()
    createdOn,      \* the day on which the card was registered
    config,         \* its closing_day and due_day
    changed,        \* history: were they ever changed?
    statements      \* its rows of credit_card_statements, in closes_on order

vars == <<today, createdOn, config, changed, statements>>

-----------------------------------------------------------------------------
(* Dates. *)
DateOf(month, day) == 32 * month + day
MonthOf(date)      == date \div 32
DayOf(date)        == date % 32

IsLeapYear(year) == year % 4 = 0 /\ (year % 100 = 0 => year % 400 = 0)

DaysInMonth(month) ==
    CASE month % 12 = 1 -> IF IsLeapYear(month \div 12) THEN 29 ELSE 28
      [] month % 12 \in {3, 5, 8, 10} -> 30
      [] OTHER -> 31

IsDate(date) == DayOf(date) \in 1..DaysInMonth(MonthOf(date))

(* A card is registered on a date, and not before the calendar begins.     *)
ASSUME CreationAssumption ==
    \A date \in CreationDates : IsDate(date) /\ MonthOf(date) > 0

(* Mutant of ResolveDay: every month is as long as the day asks. *)
ResolveDayAsIs(month, day) == DateOf(month, day)

(* A day that does not exist in the month is its last one. *)
ResolveDay(month, day) ==
    DateOf(month, IF day <= DaysInMonth(month) THEN day ELSE DaysInMonth(month))

NextDay(date) ==
    IF DayOf(date) < DaysInMonth(MonthOf(date)) THEN date + 1
    ELSE DateOf(MonthOf(date) + 1, 1)

PreviousDay(date) ==
    IF DayOf(date) > 1 THEN date - 1
    ELSE DateOf(MonthOf(date) - 1, DaysInMonth(MonthOf(date) - 1))

AddMonths(date, n) == ResolveDay(MonthOf(date) + n, DayOf(date))

(* Installment k falls k - 1 months after the first one. *)
MonthlyInstallmentDates(first) == [k \in 1..Installments |-> AddMonths(first, k - 1)]

(* recurrenceHorizon: the last day of the last month ahead. *)
RecurrenceHorizon(date) ==
    LET month == MonthOf(date) + HorizonMonths IN DateOf(month, DaysInMonth(month))

(* Mutant of SeriesDates: the months are counted from today. *)
SeriesDatesFromToday(startsOn, endsOn, date) ==
    {d \in {AddMonths(startsOn, k) : k \in MonthOf(date) - MonthOf(startsOn)..
                                           MonthOf(RecurrenceHorizon(date)) - MonthOf(startsOn)} :
        d = startsOn \/ d <= endsOn}

(* seriesDates, for a series extended on date. *)
SeriesDates(startsOn, endsOn, date) ==
    LET horizon == RecurrenceHorizon(date)
        limit   == IF endsOn < horizon THEN endsOn ELSE horizon
    IN {startsOn} \cup {d \in {AddMonths(startsOn, k) : k \in 0..MonthOf(limit) - MonthOf(startsOn)} :
                          d <= limit}

-----------------------------------------------------------------------------
(* Cycles. *)

(* The first due day after the closing: in the month of the closing, or in *)
(* the next one, by the days of the card; a month later when both resolve  *)
(* to the same day.                                                        *)
DueOn(c, closesOn) ==
    LET month == MonthOf(closesOn) + (IF c.dueDay > c.closingDay THEN 0 ELSE 1)
        due   == ResolveDay(month, c.dueDay)
    IN IF due > closesOn THEN due ELSE ResolveDay(month + 1, c.dueDay)

(* The cycle of a card with days c to which a date belongs. *)
CycleFor(c, date) ==
    LET closing  == ResolveDay(MonthOf(date), c.closingDay)
        closesOn == IF closing < date THEN ResolveDay(MonthOf(date) + 1, c.closingDay) ELSE closing
    IN [startsOn |-> NextDay(ResolveDay(MonthOf(closesOn) - 1, c.closingDay)),
        closesOn |-> closesOn,
        dueOn    |-> DueOn(c, closesOn)]

(* Mutant of NextCycle: the cycle is the one of the card's own days. *)
NextCycleUnchained(c, previousClosesOn) == CycleFor(c, NextDay(previousClosesOn))

(* The cycle after one that closed goes on from it. *)
NextCycle(c, previousClosesOn) ==
    [CycleFor(c, NextDay(previousClosesOn)) EXCEPT !.startsOn = NextDay(previousClosesOn)]

(* chainOf and chainCycles: the cycles of a card with days c and recorded  *)
(* statements rows that are not recorded; the first of them is the current *)
(* one once those that ended are.  Each goes on from the one before, and   *)
(* its closing is the one of the next month (StatementsChained compares it *)
(* with NextCycle).                                                        *)
ChainOf(c, rows) ==
    LET first == IF rows = <<>> THEN CycleFor(c, createdOn)
                 ELSE NextCycle(c, rows[Len(rows)].closesOn)
        closing(n) == ResolveDay(MonthOf(first.closesOn) + n - 1, c.closingDay)
    IN [n \in 1..NumMonths + Installments + 2 |->
          IF n = 1 THEN first ELSE NextCycle(c, closing(n - 1))]

Chain == ChainOf(config, statements)

(* How many cycles of the chain ended; cycleContaining, and the loop of    *)
(* list: the place of a date in the chain.                                 *)
Before(date, chain) == Cardinality({n \in DOMAIN chain : chain[n].closesOn < date})

NumEnded == Before(today, Chain)
CycleContaining(date) == Before(date, Chain) + 1

(* closedThrough of StatementPeriodGuardService: the last day that ended,  *)
(* recorded or not.                                                        *)
ClosedThroughOf(date, chain) == PreviousDay(chain[Before(date, chain) + 1].startsOn)
ClosedThrough == ClosedThroughOf(today, Chain)

(* create: the day on which a purchase of a date is posted by default.     *)
PostedOn(occurredOn) ==
    LET earliestOpen == NextDay(ClosedThrough) IN
    IF occurredOn > earliestOpen THEN occurredOn ELSE earliestOpen

(* Mutant of PostedDates: each installment has a default of its own. *)
PostedDatesEach(occurredOn) ==
    [k \in 1..Installments |-> PostedOn(AddMonths(occurredOn, k - 1))]

(* A purchase pushed to the open statement pushes all its installments. *)
PostedDates(occurredOn) == MonthlyInstallmentDates(PostedOn(occurredOn))

-----------------------------------------------------------------------------
Init ==
    /\ createdOn \in CreationDates
    /\ today = createdOn
    /\ config \in Config
    /\ changed = FALSE
    /\ statements = <<>>

(* Midnight in the time zone of the business. *)
Midnight ==
    /\ MonthOf(today) - MonthOf(createdOn) <= NumMonths
    /\ today' = NextDay(today)
    /\ UNCHANGED <<createdOn, config, changed, statements>>

(* PATCH of closing_day or due_day, at any time; nothing is recorded then. *)
ChangeDays ==
    /\ Prompt => NumEnded = 0
    /\ \E c \in Config \ {config} : config' = c
    /\ changed' = TRUE
    /\ UNCHANGED <<today, createdOn, statements>>

(* Mutant of CloseDue: a cycle is recorded on the very day it closes. *)
CloseDueSameDay ==
    /\ Chain[1].closesOn <= today
    /\ statements' = Append(statements, Chain[1])
    /\ UNCHANGED <<today, createdOn, config, changed>>

(* closeCard, by the daily job or by an operation on the statements: every *)
(* cycle that ended is recorded.                                           *)
CloseDue ==
    /\ NumEnded > 0
    /\ statements' = statements \o SubSeq(Chain, 1, NumEnded)
    /\ UNCHANGED <<today, createdOn, config, changed>>

Next == Midnight \/ ChangeDays \/ CloseDue

Spec == Init /\ [][Next]_vars
-----------------------------------------------------------------------------
(* Properties.                                                             *)

Cycle == [startsOn : Nat, closesOn : Nat, dueOn : Nat]

(* Every variable keeps its type, and every date is one. *)
TypeOK ==
    /\ IsDate(today) /\ createdOn \in CreationDates
    /\ config \in Config /\ changed \in BOOLEAN
    /\ \A n \in DOMAIN statements :
        /\ statements[n] \in Cycle
        /\ \A field \in DOMAIN statements[n] : IsDate(statements[n][field])

(* INV-0011-08, INV-0013-03: the statements of a card, recorded and        *)
(* projected, follow each other without a hole or an overlap, none longer  *)
(* than a month and every one due after it closes and before the month     *)
(* after the next ends, whatever the closing day was changed to.           *)
StatementsChained ==
    LET chain == Chain
        all   == statements \o chain IN
    /\ \A n \in DOMAIN chain \ {1} : chain[n] = NextCycle(config, chain[n - 1].closesOn)
    /\ \A n \in DOMAIN all :
        LET cycle == all[n] IN
        /\ n > 1 => cycle.startsOn = NextDay(all[n - 1].closesOn)
        /\ cycle.startsOn <= cycle.closesOn
        /\ MonthOf(cycle.closesOn) <= MonthOf(cycle.startsOn) + 1
        /\ cycle.closesOn < cycle.dueOn
        /\ MonthOf(cycle.dueOn) <= MonthOf(cycle.closesOn) + 2

(* currentCycle of the card's response, which derives the cycle of today   *)
(* from the days of the card alone, is the cycle the statements reach by   *)
(* chaining from the day of registration, until those days change.         *)
CardShowsOpenCycle ==
    ~changed => CycleFor(config, today) = Chain[CycleContaining(today)]

(* The purchases that may be registered today: made today, or a month or   *)
(* two ago.                                                                *)
Purchases == {AddMonths(today, -2), AddMonths(today, -1), today}

(* AC-0013-22, AC-0012-08, ck_expenses_posted_on: a purchase registered    *)
(* now in installments is posted in the open window, each installment a    *)
(* month after the one before and never before it occurs; and it appears   *)
(* in as many statements, one installment in each (unless the closing day  *)
(* or the day of posting is missing in some month: two may meet then).     *)
InstallmentsSpread ==
    \A occurredOn \in Purchases :
        LET posted == PostedDates(occurredOn)
            dates  == MonthlyInstallmentDates(occurredOn) IN
        /\ posted[1] > ClosedThrough
        /\ \A k \in 1..Installments :
            LET occurred == dates[k] IN
            /\ posted[k] >= occurred
            /\ DayOf(occurred) = DayOf(occurredOn) \/ (IsDate(occurred) /\ ~IsDate(occurred + 1))
        /\ config.closingDay <= 28 /\ DayOf(posted[1]) <= 28 =>
            \A k \in 2..Installments :
                CycleContaining(posted[k]) = CycleContaining(posted[k - 1]) + 1

(* "The chain continues from the last recorded statement when there is     *)
(* one, so a closing_day change never reopens a closed window" (the guard, *)
(* INV-0011-07): the last closed day never goes back once a statement is   *)
(* recorded, and recording what ended, which computes the chain again for  *)
(* itself, leaves it where it was.                                         *)
WindowNeverReopens ==
    [][\A date \in {today'}, c \in {config'}, rows \in {statements'} :
         /\ statements # <<>> => ClosedThroughOf(date, ChainOf(c, rows)) >= ClosedThrough
         /\ rows # statements => rows[Len(rows)].closesOn = ClosedThrough]_vars

(* INV-0017-02: extending a series on a later day, or after days without   *)
(* the job, only adds dates at its end: none it gave is dropped or moved,  *)
(* and none comes before the last.                                         *)
SeriesGrows ==
    [][\A date \in {today'}, startsOn \in {AddMonths(createdOn, -1), createdOn},
          endsOn \in {AddMonths(createdOn, 1), RecurrenceHorizon(today) + 32} :
         LET before == SeriesDates(startsOn, endsOn, today)
             after  == SeriesDates(startsOn, endsOn, date) IN
         /\ before \subseteq after
         /\ \A d \in after \ before, e \in before : e < d]_today
=============================================================================
