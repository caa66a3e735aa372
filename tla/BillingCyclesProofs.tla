------------------------ MODULE BillingCyclesProofs ------------------------
(***************************************************************************)
(* The statements of a card, for every card, day of registration and       *)
(* length of time: they follow each other without a hole, the cycle a card *)
(* shows is the one they reach, installments fall one in each, and the     *)
(* closed window never goes back when what ended is recorded before the    *)
(* days of the card change.                                                *)
(*                                                                         *)
(* Everything is said of months: the chain of a card closes once in each   *)
(* of them, so how many of its cycles ended on a date is a difference of   *)
(* two months.                                                             *)
(***************************************************************************)
EXTENDS BillingCycles, FiniteSetTheorems, SequenceTheorems, TLAPS

USE BillingCyclesAssumption

-----------------------------------------------------------------------------
(* Dates. *)

(* A date is its month and its day. *)
LEMMA Parts ==
    ASSUME NEW x \in Int
    PROVE  MonthOf(x) \in Int /\ DayOf(x) \in 0..31 /\ x = 32 * MonthOf(x) + DayOf(x)
  BY DEF MonthOf, DayOf

(* A month and a day make a date of that month and day. *)
LEMMA OfParts ==
    ASSUME NEW m \in Int, NEW d \in 0..31
    PROVE  DateOf(m, d) \in Int /\ MonthOf(DateOf(m, d)) = m /\ DayOf(DateOf(m, d)) = d
  BY DEF DateOf, MonthOf, DayOf

(* Months have 28 days at least and 31 at most. *)
LEMMA MonthLength == \A m \in Int : DaysInMonth(m) \in 28..31
  BY DEF DaysInMonth

(* Dates are in the order of their months, and of their days in a month. *)
LEMMA InOrder ==
    ASSUME NEW x \in Int, NEW y \in Int
    PROVE  x < y <=> MonthOf(x) < MonthOf(y) \/ (MonthOf(x) = MonthOf(y) /\ DayOf(x) < DayOf(y))
<1>1. PICK m \in Int, d \in 0..31 : MonthOf(x) = m /\ DayOf(x) = d /\ x = 32 * m + d
  BY Parts
<1>2. PICK n \in Int, e \in 0..31 : MonthOf(y) = n /\ DayOf(y) = e /\ y = 32 * n + e
  BY Parts
<1>. QED
  BY <1>1, <1>2

(* The day resolved in a month is a date of that month. *)
LEMMA Resolved ==
    ASSUME NEW m \in Int, NEW d \in 1..31
    PROVE  /\ ResolveDay(m, d) \in Int /\ MonthOf(ResolveDay(m, d)) = m
           /\ DayOf(ResolveDay(m, d)) = IF d <= DaysInMonth(m) THEN d ELSE DaysInMonth(m)
           /\ IsDate(ResolveDay(m, d))
           /\ m >= 0 => ResolveDay(m, d) \in Nat
<1>. DEFINE r == IF d <= DaysInMonth(m) THEN d ELSE DaysInMonth(m)
<1>1. r \in 1..DaysInMonth(m) /\ r \in 0..31 /\ ResolveDay(m, d) = DateOf(m, r)
  BY MonthLength DEF ResolveDay
<1>2. DateOf(m, r) \in Int /\ MonthOf(DateOf(m, r)) = m /\ DayOf(DateOf(m, r)) = r
  BY <1>1, OfParts
<1>3. m >= 0 => DateOf(m, r) \in Nat
  BY <1>1 DEF DateOf
<1>. QED
  BY <1>1, <1>2, <1>3 DEF IsDate

(* A later day, or a later month, is not resolved earlier. *)
LEMMA ResolvedInOrder ==
    ASSUME NEW m \in Int, NEW n \in Int, NEW d \in 1..31, NEW e \in 1..31
    PROVE  /\ m < n => ResolveDay(m, d) < ResolveDay(n, e)
           /\ d <= e => ResolveDay(m, d) <= ResolveDay(m, e)
<1>1. PICK x \in Int : /\ x = ResolveDay(m, d) /\ MonthOf(x) = m
                       /\ DayOf(x) = IF d <= DaysInMonth(m) THEN d ELSE DaysInMonth(m)
  BY Resolved
<1>2. PICK y \in Int : /\ y = ResolveDay(m, e) /\ MonthOf(y) = m
                       /\ DayOf(y) = IF e <= DaysInMonth(m) THEN e ELSE DaysInMonth(m)
  BY Resolved
<1>3. PICK z \in Int : z = ResolveDay(n, e) /\ MonthOf(z) = n
  BY Resolved
<1>4. DaysInMonth(m) \in Int
  BY MonthLength
<1>5. m < n => x < z
  BY <1>1, <1>3, InOrder
<1>6. d <= e => ~(DayOf(y) < DayOf(x))
  BY <1>1, <1>2, <1>4
<1>7. d <= e => ~(y < x)
  BY <1>1, <1>2, <1>6, InOrder
<1>. QED
  BY <1>1, <1>2, <1>3, <1>5, <1>7

(* The day after a date is the next date there is. *)
LEMMA DayAfter ==
    ASSUME NEW x \in Int, IsDate(x)
    PROVE  /\ NextDay(x) \in Int /\ IsDate(NextDay(x)) /\ x < NextDay(x)
           /\ MonthOf(NextDay(x)) \in {MonthOf(x), MonthOf(x) + 1}
           /\ PreviousDay(NextDay(x)) = x
           /\ \A y \in Int : IsDate(y) /\ x < y => NextDay(x) <= y
<1>1. PICK m \in Int, d \in 0..31 : MonthOf(x) = m /\ DayOf(x) = d /\ x = 32 * m + d
  BY Parts
<1>2. PICK l \in 28..31 : DaysInMonth(m) = l
  BY MonthLength
<1>3. d \in 1..l
  BY <1>1, <1>2 DEF IsDate
<1>4. CASE d < l
  <2>1. NextDay(x) = x + 1 /\ x + 1 = DateOf(m, d + 1)
    BY <1>1, <1>2, <1>4 DEF NextDay, DateOf
  <2>2. MonthOf(x + 1) = m /\ DayOf(x + 1) = d + 1
    <3>1. d + 1 \in 0..31
      BY <1>2, <1>4
    <3>2. MonthOf(DateOf(m, d + 1)) = m /\ DayOf(DateOf(m, d + 1)) = d + 1
      BY <3>1, OfParts
    <3>. QED
      BY <2>1, <3>2
  <2>3. PreviousDay(x + 1) = x
    BY <2>2, <1>1, <1>3 DEF PreviousDay
  <2>4. IsDate(x + 1)
    BY <2>2, <1>2, <1>3, <1>4 DEF IsDate
  <2>. QED
    BY <2>1, <2>2, <2>3, <2>4, <1>1
<1>5. CASE d = l
  <2>1. NextDay(x) = DateOf(m + 1, 1)
    BY <1>1, <1>2, <1>5 DEF NextDay
  <2>2. DateOf(m + 1, 1) \in Int /\ MonthOf(DateOf(m + 1, 1)) = m + 1 /\ DayOf(DateOf(m + 1, 1)) = 1
    <3>1. 1 \in 0..31 /\ m + 1 \in Int
      OBVIOUS
    <3>. QED
      BY <3>1, OfParts
  <2>3. PreviousDay(DateOf(m + 1, 1)) = x
    BY <2>2, <1>1, <1>2, <1>5 DEF PreviousDay, DateOf
  <2>4. IsDate(DateOf(m + 1, 1))
    BY <2>2, <1>1, MonthLength DEF IsDate
  <2>5. ASSUME NEW y \in Int, IsDate(y), x < y PROVE DateOf(m + 1, 1) <= y
    <3>1. PICK n \in Int, e \in 0..31 : MonthOf(y) = n /\ DayOf(y) = e /\ y = 32 * n + e
      BY Parts
    <3>2. e \in 1..DaysInMonth(n)
      BY <2>5, <3>1 DEF IsDate
    <3>3. n # m \/ e <= l
      BY <3>2, <1>2
    <3>4. n > m /\ e >= 1
      BY <2>5, <3>1, <3>2, <3>3, <1>1, <1>5, MonthLength
    <3>. QED
      BY <3>1, <3>4, <1>1 DEF DateOf
  <2>. QED
    BY <2>1, <2>2, <2>3, <2>4, <2>5, <1>1, <1>5, x < DateOf(m + 1, 1) DEF DateOf
<1>. QED
  BY <1>2, <1>3, <1>4, <1>5


(* The day after a later date is later. *)
LEMMA DaysAfter ==
    ASSUME NEW x \in Int, NEW y \in Int, IsDate(x), IsDate(y)
    PROVE  x < y => NextDay(x) < NextDay(y)
  BY DayAfter

-----------------------------------------------------------------------------
(* Cycles.                                                                 *)

(* The day on which a card with days c closes in a month. *)
Closing(c, m) == ResolveDay(m, c.closingDay)

(* The month in which the cycle of a date closes. *)
ClosingMonth(c, x) == MonthOf(x) + (IF Closing(c, MonthOf(x)) < x THEN 1 ELSE 0)

(* The cycle that closes in a month. *)
CycleOf(c, m) ==
    [startsOn |-> NextDay(Closing(c, m - 1)), closesOn |-> Closing(c, m),
     dueOn |-> DueOn(c, Closing(c, m))]

(* The days of a card. *)
LEMMA Days == \A c \in Config : c.closingDay \in 1..31 /\ c.dueDay \in 1..31
  OBVIOUS

(* A card closes on a date of each month, later in later ones. *)
LEMMA Closes ==
    ASSUME NEW c \in Config, NEW m \in Int
    PROVE  /\ Closing(c, m) \in Int /\ IsDate(Closing(c, m)) /\ MonthOf(Closing(c, m)) = m
           /\ m >= 0 => Closing(c, m) \in Nat
           /\ \A n \in Int : m < n => Closing(c, m) < Closing(c, n)
  BY Days, Resolved, ResolvedInOrder DEF Closing

(* The month in which the cycle of a date closes is the one whose closing  *)
(* is the first that the date does not pass.                               *)
LEMMA MonthOfClosing ==
    ASSUME NEW c \in Config, NEW x \in Int
    PROVE  /\ ClosingMonth(c, x) \in Int
           /\ \A m \in Int : Closing(c, m) < x <=> m < ClosingMonth(c, x)
<1>1. PICK n \in Int : n = MonthOf(x)
  BY Parts
<1>2. \A m \in Int : m < n => Closing(c, m) < x
  BY <1>1, Closes, InOrder
<1>3. \A m \in Int : m > n => ~(Closing(c, m) < x)
  BY <1>1, Closes, InOrder
<1>4. ClosingMonth(c, x) = n + (IF Closing(c, n) < x THEN 1 ELSE 0)
  BY <1>1 DEF ClosingMonth
<1>5. ASSUME NEW m \in Int PROVE Closing(c, m) < x <=> m < ClosingMonth(c, x)
  <2>1. CASE m = n
    BY <2>1, <1>4
  <2>2. CASE m < n
    BY <2>2, <1>2, <1>4
  <2>3. CASE m > n
    BY <2>3, <1>3, <1>4
  <2>. QED
    BY <2>1, <2>2, <2>3
<1>. QED
  BY <1>4, <1>5

(* It is not earlier for a later date. *)
LEMMA MonthsOfClosing ==
    ASSUME NEW c \in Config, NEW x \in Int, NEW y \in Int, x <= y
    PROVE  ClosingMonth(c, x) <= ClosingMonth(c, y)
<1>1. PICK m \in Int : m = ClosingMonth(c, x) - 1
  BY MonthOfClosing
<1>2. Closing(c, m) < x /\ Closing(c, m) \in Int
  BY <1>1, MonthOfClosing, Closes
<1>3. m < ClosingMonth(c, y)
  BY <1>2, MonthOfClosing
<1>. QED
  BY <1>1, <1>3, MonthOfClosing

(* The cycle of the day after a closing closes in the next month. *)
LEMMA NextClosing ==
    ASSUME NEW c \in Config, NEW m \in Int
    PROVE  ClosingMonth(c, NextDay(Closing(c, m))) = m + 1
<1>1. PICK x \in Int : x = Closing(c, m) /\ IsDate(x)
  BY Closes
<1>2. PICK y \in Int : y = NextDay(x) /\ x < y /\ \A z \in Int : IsDate(z) /\ x < z => y <= z
  BY <1>1, DayAfter
<1>3. PICK z \in Int : z = Closing(c, m + 1) /\ IsDate(z) /\ x < z
  BY <1>1, Closes
<1>4. Closing(c, m) < y /\ ~(Closing(c, m + 1) < y)
  BY <1>1, <1>2, <1>3
<1>5. m < ClosingMonth(c, y) /\ ~(m + 1 < ClosingMonth(c, y)) /\ ClosingMonth(c, y) \in Int
  BY <1>4, MonthOfClosing
<1>. QED
  BY <1>1, <1>2, <1>5

(* What the code computes from the days of the card alone. *)
LEMMA CycleForIs ==
    ASSUME NEW c \in Config, NEW x \in Int
    PROVE  CycleFor(c, x) = CycleOf(c, ClosingMonth(c, x))
<1>1. PICK n \in Int : n = MonthOf(x)
  BY Parts
<1>2. PICK m \in Int : m = ClosingMonth(c, x)
  BY MonthOfClosing
<1>3. m = n + (IF Closing(c, n) < x THEN 1 ELSE 0)
  BY <1>1, <1>2 DEF ClosingMonth
<1>4. (IF Closing(c, n) < x THEN Closing(c, n + 1) ELSE Closing(c, n)) = Closing(c, m)
  BY <1>3
<1>5. MonthOf(Closing(c, m)) = m
  BY Closes
<1>. QED
  BY <1>1, <1>2, <1>4, <1>5 DEF CycleFor, CycleOf, Closing

(* What it computes after a recorded statement. *)
LEMMA NextCycleIs ==
    ASSUME NEW c \in Config, NEW x \in Int, IsDate(x)
    PROVE  NextCycle(c, x) = [CycleOf(c, ClosingMonth(c, NextDay(x))) EXCEPT !.startsOn = NextDay(x)]
  BY DayAfter, CycleForIs DEF NextCycle

(* After a closing of its own it computes the cycle of the next month. *)
LEMMA NextCycleOwn ==
    ASSUME NEW c \in Config, NEW m \in Int
    PROVE  NextCycle(c, Closing(c, m)) = CycleOf(c, m + 1)
<1>1. Closing(c, m) \in Int /\ IsDate(Closing(c, m)) /\ (m + 1) - 1 = m
  BY Closes
<1>2. NextCycle(c, Closing(c, m))
        = [CycleOf(c, m + 1) EXCEPT !.startsOn = NextDay(Closing(c, m))]
  BY <1>1, NextCycleIs, NextClosing
<1>3. CycleOf(c, m + 1).startsOn = NextDay(Closing(c, m))
  BY <1>1 DEF CycleOf
<1>. QED
  BY <1>2, <1>3 DEF CycleOf

(* A cycle is due after it closes, and at most two months later. *)
LEMMA Due ==
    ASSUME NEW c \in Config, NEW m \in Int
    PROVE  /\ DueOn(c, Closing(c, m)) \in Int /\ IsDate(DueOn(c, Closing(c, m)))
           /\ Closing(c, m) < DueOn(c, Closing(c, m))
           /\ MonthOf(DueOn(c, Closing(c, m))) \in {m, m + 1, m + 2}
<1>. DEFINE n == m + (IF c.dueDay > c.closingDay THEN 0 ELSE 1)
            due == ResolveDay(n, c.dueDay)
            later == ResolveDay(n + 1, c.dueDay)
<1>0. c.closingDay \in 1..31 /\ c.dueDay \in 1..31 /\ n \in {m, m + 1}
  BY Days
<1>1. due \in Int /\ IsDate(due) /\ MonthOf(due) = n
  <2>1. n \in Int
    OBVIOUS
  <2>. QED
    BY <1>0, <2>1, Resolved
<1>2. later \in Int /\ IsDate(later) /\ MonthOf(later) = n + 1
  <2>1. n + 1 \in Int
    OBVIOUS
  <2>. QED
    BY <1>0, <2>1, Resolved
<1>3. Closing(c, m) < later
  <2>1. m < n + 1 /\ n + 1 \in Int
    BY <1>0
  <2>. QED
    BY <1>0, <2>1, ResolvedInOrder DEF Closing
<1>4. DueOn(c, Closing(c, m)) = IF due > Closing(c, m) THEN due ELSE later
  BY Closes DEF DueOn
<1>. HIDE DEF n, due, later
<1>. QED
  BY <1>0, <1>1, <1>2, <1>3, <1>4, Closes


-----------------------------------------------------------------------------
(* The chain.                                                              *)

Length == NumMonths + Installments + 2

(* The statements that may be recorded, as far as the chain reads them.    *)
Ends(rows) == rows # <<>> => rows[Len(rows)].closesOn \in Int /\ IsDate(rows[Len(rows)].closesOn)

(* The day the chain goes on from, and the month it first closes in.       *)
From(rows) == IF rows = <<>> THEN createdOn ELSE NextDay(rows[Len(rows)].closesOn)
FirstMonth(c, rows) == ClosingMonth(c, From(rows))

(* The chain of a card closes once in each month, from its first one.      *)
LEMMA ChainIs ==
    ASSUME NEW c \in Config, NEW rows, Ends(rows), createdOn \in Int
    PROVE  /\ From(rows) \in Int /\ FirstMonth(c, rows) \in Int
           /\ DOMAIN ChainOf(c, rows) = 1..Length
           /\ ChainOf(c, rows)[1] =
                IF rows = <<>> THEN CycleOf(c, FirstMonth(c, rows))
                ELSE [CycleOf(c, FirstMonth(c, rows)) EXCEPT !.startsOn = From(rows)]
           /\ \A n \in 2..Length : ChainOf(c, rows)[n] = CycleOf(c, FirstMonth(c, rows) + n - 1)
<1>. DEFINE last == rows[Len(rows)].closesOn
            F == FirstMonth(c, rows)
            first == IF rows = <<>> THEN CycleFor(c, createdOn) ELSE NextCycle(c, last)
<1>1. From(rows) \in Int /\ (rows # <<>> => last \in Int /\ IsDate(last) /\ From(rows) = NextDay(last))
  BY DayAfter DEF From, Ends
<1>2. PICK m \in Int : m = F
  BY <1>1, MonthOfClosing DEF FirstMonth
<1>3. first = IF rows = <<>> THEN CycleOf(c, m)
              ELSE [CycleOf(c, m) EXCEPT !.startsOn = From(rows)]
  <2>1. CASE rows = <<>>
    BY <2>1, <1>2, CycleForIs DEF FirstMonth, From
  <2>2. CASE rows # <<>>
    BY <2>2, <1>1, <1>2, NextCycleIs DEF FirstMonth
  <2>. QED
    BY <2>1, <2>2
<1>4. first.closesOn = Closing(c, m)
  BY <1>3 DEF CycleOf
<1>5. MonthOf(first.closesOn) = m
  BY <1>4, Closes
<1>6. ChainOf(c, rows) =
        [n \in 1..Length |-> IF n = 1 THEN first
                             ELSE NextCycle(c, ResolveDay(m + (n - 1) - 1, c.closingDay))]
  BY <1>5 DEF ChainOf, Length
<1>7. ASSUME NEW n \in 2..Length PROVE ChainOf(c, rows)[n] = CycleOf(c, m + n - 1)
  <2>1. PICK k \in Int : k = m + (n - 1) - 1
    OBVIOUS
  <2>2. n \in 1..Length /\ n # 1 /\ k + 1 = m + n - 1
    BY <2>1 DEF Length
  <2>3. ChainOf(c, rows)[n] = NextCycle(c, Closing(c, k))
    BY <1>6, <2>1, <2>2 DEF Closing
  <2>. QED
    BY <2>2, <2>3, NextCycleOwn
<1>8. 1 \in 1..Length /\ DOMAIN ChainOf(c, rows) = 1..Length
  BY <1>6 DEF Length
<1>9. ChainOf(c, rows)[1] = first
  BY <1>6, <1>8
<1>. HIDE DEF first
<1>. QED
  BY <1>1, <1>2, <1>3, <1>7, <1>8, <1>9

(* A record with the fields of a cycle. *)
HasFields(z) == \E a, b, d : z = [startsOn |-> a, closesOn |-> b, dueOn |-> d]

(* What each cycle of the chain is.                                        *)
LEMMA InChain ==
    ASSUME NEW c \in Config, NEW rows, Ends(rows), createdOn \in Int, NEW n \in 1..Length
    PROVE  /\ ChainOf(c, rows)[n].closesOn = Closing(c, FirstMonth(c, rows) + n - 1)
           /\ ChainOf(c, rows)[n].dueOn = DueOn(c, Closing(c, FirstMonth(c, rows) + n - 1))
           /\ ChainOf(c, rows)[n].startsOn =
                IF n = 1 /\ rows # <<>> THEN From(rows)
                ELSE NextDay(Closing(c, FirstMonth(c, rows) + n - 2))
           /\ HasFields(ChainOf(c, rows)[n])
<1>. DEFINE m == FirstMonth(c, rows)
            x == ChainOf(c, rows)[n]
<1>1. m \in Int
  BY ChainIs
<1>2. m + n - 1 \in Int /\ (m + n - 1) - 1 = m + n - 2 /\ (n = 1 => m + n - 1 = m)
  BY <1>1
<1>3. x = IF n = 1 /\ rows # <<>> THEN [CycleOf(c, m + n - 1) EXCEPT !.startsOn = From(rows)]
          ELSE CycleOf(c, m + n - 1)
  <2>1. CASE n = 1
    BY <2>1, <1>2, ChainIs
  <2>2. CASE n # 1
    <3>1. n \in 2..Length
      BY <2>2
    <3>. QED
      BY <2>2, <3>1, ChainIs
  <2>. QED
    BY <2>1, <2>2
<1>. HIDE DEF x
<1>4. /\ x.closesOn = Closing(c, m + n - 1) /\ x.dueOn = DueOn(c, Closing(c, m + n - 1))
      /\ x.startsOn = IF n = 1 /\ rows # <<>> THEN From(rows) ELSE NextDay(Closing(c, m + n - 2))
  BY <1>2, <1>3 DEF CycleOf
<1>5. HasFields(x)
  BY <1>2, <1>3 DEF CycleOf, HasFields
<1>. QED
  BY <1>4, <1>5 DEF x

(* How many cycles of the chain ended on a date: one in each month after   *)
(* the first, as far as the chain goes.                                    *)
LEMMA BeforeIs ==
    ASSUME NEW c \in Config, NEW rows, Ends(rows), createdOn \in Int, NEW x \in Int,
           NEW k \in 0..Length,
           k = ClosingMonth(c, x) - FirstMonth(c, rows)
             \/ (k = 0 /\ ClosingMonth(c, x) <= FirstMonth(c, rows))
    PROVE  Before(x, ChainOf(c, rows)) = k
<1>. DEFINE m == FirstMonth(c, rows)
            S == {n \in DOMAIN ChainOf(c, rows) : ChainOf(c, rows)[n].closesOn < x}
<1>1. m \in Int /\ ClosingMonth(c, x) \in Int /\ DOMAIN ChainOf(c, rows) = 1..Length
  BY ChainIs, MonthOfClosing
<1>2. ASSUME NEW n \in 1..Length PROVE ChainOf(c, rows)[n].closesOn < x <=> n <= k
  <2>1. PICK i \in Int : i = m + n - 1
    BY <1>1
  <2>2. ChainOf(c, rows)[n].closesOn = Closing(c, i)
    <3>1. ChainOf(c, rows)[n].closesOn = Closing(c, FirstMonth(c, rows) + n - 1)
      BY InChain
    <3>. QED
      BY <2>1, <3>1
  <2>3. Closing(c, i) < x <=> i < ClosingMonth(c, x)
    BY MonthOfClosing
  <2>. QED
    BY <2>1, <2>2, <2>3, <1>1
<1>3. S = 1..k
  <2>1. ASSUME NEW n PROVE n \in S <=> n \in 1..k
    <3>1. n \in 1..k => n \in 1..Length
      BY DEF Length
    <3>2. n \in 1..k <=> n \in 1..Length /\ n <= k
      BY <3>1 DEF Length
    <3>. QED
      BY <3>2, <1>1, <1>2
  <2>. QED
    BY <2>1
<1>4. Cardinality(1..k) = k
  <2>1. 1 \in Int /\ k \in Int /\ k >= 0
    OBVIOUS
  <2>2. Cardinality(1..k) = IF 1 > k THEN 0 ELSE k - 1 + 1
    BY <2>1, FS_Interval
  <2>. QED
    BY <2>1, <2>2
<1>. QED
  BY <1>3, <1>4 DEF Before


-----------------------------------------------------------------------------
(* The inductive invariant.                                                *)

(* A cycle is of dates, no longer than a month, and due after it closes.   *)
Sized(z) ==
    /\ z \in Cycle
    /\ IsDate(z.startsOn) /\ IsDate(z.closesOn) /\ IsDate(z.dueOn)
    /\ z.startsOn <= z.closesOn /\ MonthOf(z.closesOn) <= MonthOf(z.startsOn) + 1
    /\ z.closesOn < z.dueOn /\ MonthOf(z.dueOn) <= MonthOf(z.closesOn) + 2

(* Days pass from that of the registration, for as long as they are followed. *)
Times ==
    /\ createdOn \in CreationDates /\ today \in Nat /\ IsDate(today)
    /\ createdOn <= today /\ MonthOf(today) <= MonthOf(createdOn) + NumMonths + 1

(* The recorded statements follow each other, and have all ended. *)
Linked(rows) ==
    /\ rows \in Seq(Cycle)
    /\ \A n \in 1..Len(rows) :
         Sized(rows[n]) /\ (n > 1 => rows[n].startsOn = NextDay(rows[n - 1].closesOn))
Ended(rows) == rows # <<>> => createdOn <= rows[Len(rows)].closesOn /\ rows[Len(rows)].closesOn < today

(* Until the days of the card change, the last one closed on one of them. *)
Own == ~changed /\ statements # <<>> =>
         \E m \in Int : statements[Len(statements)].closesOn = Closing(config, m)

Inv ==
    /\ Times /\ config \in Config /\ changed \in BOOLEAN
    /\ Linked(statements) /\ Ended(statements) /\ Own

(* Cards are registered on dates after the first month. *)
LEMMA Registered ==
    ASSUME createdOn \in CreationDates
    PROVE  createdOn \in Nat /\ createdOn \in Int /\ IsDate(createdOn) /\ MonthOf(createdOn) > 0
  BY CreationAssumption

(* The last of the recorded statements. *)
LEMMA LastOne ==
    ASSUME NEW rows, Linked(rows), rows # <<>>
    PROVE  /\ Len(rows) \in Nat /\ Len(rows) >= 1
           /\ Sized(rows[Len(rows)]) /\ rows[Len(rows)].closesOn \in Nat
           /\ IsDate(rows[Len(rows)].closesOn)
<1>1. Len(rows) \in 1..Len(rows)
  <2>1. rows \in Seq(Cycle)
    BY DEF Linked
  <2>. QED
    BY <2>1
<1>. QED
  BY <1>1 DEF Linked, Sized, Cycle

(* The chain goes on from a date that is not before the registration. *)
LEMMA FromWhen ==
    ASSUME NEW rows, Linked(rows), Ended(rows), Times
    PROVE  /\ Ends(rows) /\ createdOn \in Int
           /\ From(rows) \in Int /\ IsDate(From(rows)) /\ createdOn <= From(rows) /\ From(rows) <= today
           /\ \A c \in Config : /\ FirstMonth(c, rows) \in Int
                                /\ MonthOf(createdOn) <= FirstMonth(c, rows)
                                /\ FirstMonth(c, rows) \in {MonthOf(From(rows)), MonthOf(From(rows)) + 1}
<1>1. createdOn \in Int /\ IsDate(createdOn) /\ today \in Int /\ IsDate(today) /\ createdOn <= today
  BY Registered DEF Times
<1>2. Ends(rows)
  BY LastOne DEF Ends
<1>3. From(rows) \in Int /\ IsDate(From(rows)) /\ createdOn <= From(rows) /\ From(rows) <= today
  <2>1. CASE rows = <<>>
    BY <2>1, <1>1 DEF From
  <2>2. CASE rows # <<>>
    <3>1. PICK x \in Nat : /\ x = rows[Len(rows)].closesOn /\ IsDate(x)
                           /\ createdOn <= x /\ x < today
      BY <2>2, LastOne DEF Ended
    <3>2. NextDay(x) \in Int /\ IsDate(NextDay(x)) /\ x < NextDay(x) /\ NextDay(x) <= today
      <4>1. x \in Int /\ IsDate(x)
        BY <3>1
      <4>2. NextDay(x) \in Int /\ IsDate(NextDay(x)) /\ x < NextDay(x)
        BY <4>1, DayAfter
      <4>3. NextDay(x) <= today
        BY <4>1, <3>1, <1>1, DayAfter
      <4>. QED
        BY <4>2, <4>3
    <3>3. From(rows) = NextDay(x)
      BY <2>2, <3>1 DEF From
    <3>. QED
      BY <1>1, <3>1, <3>2, <3>3
  <2>. QED
    BY <2>1, <2>2
<1>4. ASSUME NEW c \in Config
      PROVE  /\ FirstMonth(c, rows) \in Int
             /\ MonthOf(createdOn) <= FirstMonth(c, rows)
             /\ FirstMonth(c, rows) \in {MonthOf(From(rows)), MonthOf(From(rows)) + 1}
  <2>1. PICK m \in Int, n \in Int : m = MonthOf(createdOn) /\ n = MonthOf(From(rows))
    BY <1>1, <1>3, Parts
  <2>2. FirstMonth(c, rows) \in {n, n + 1}
    BY <2>1 DEF FirstMonth, ClosingMonth
  <2>3. ~(n < m)
    BY <1>1, <1>3, <2>1, InOrder
  <2>. QED
    BY <2>1, <2>2, <2>3
<1>. QED
  BY <1>1, <1>2, <1>3, <1>4

(* Each cycle of the chain is sized, and goes on from the one before. *)
LEMMA ChainSized ==
    ASSUME NEW c \in Config, NEW rows, Linked(rows), Ended(rows), Times, NEW n \in 1..Length
    PROVE  /\ Sized(ChainOf(c, rows)[n])
           /\ n > 1 => ChainOf(c, rows)[n].startsOn = NextDay(ChainOf(c, rows)[n - 1].closesOn)
           /\ n = 1 /\ rows # <<>> =>
                ChainOf(c, rows)[n].startsOn = NextDay(rows[Len(rows)].closesOn)
<1>1. PICK F \in Int : /\ F = FirstMonth(c, rows) /\ F > 0
                       /\ F \in {MonthOf(From(rows)), MonthOf(From(rows)) + 1}
  <2>1. MonthOf(createdOn) \in Int /\ MonthOf(createdOn) > 0
    BY Registered, Parts DEF Times
  <2>. QED
    BY <2>1, FromWhen
<1>2. PICK m \in Int, k \in Int : m = F + n - 1 /\ k = F + n - 2 /\ m = k + 1 /\ k >= 0
  BY <1>1
<1>3. PICK z : z = ChainOf(c, rows)[n]
  OBVIOUS
<1>4. z.closesOn = Closing(c, m) /\ z.dueOn = DueOn(c, Closing(c, m))
  BY SMTT(30), <1>1, <1>2, <1>3, FromWhen, InChain
<1>5. z.startsOn = IF n = 1 /\ rows # <<>> THEN From(rows) ELSE NextDay(Closing(c, k))
  BY SMTT(30), <1>1, <1>2, <1>3, FromWhen, InChain
<1>6. /\ z.closesOn \in Nat /\ IsDate(z.closesOn) /\ MonthOf(z.closesOn) = m
      /\ z.dueOn \in Int /\ IsDate(z.dueOn) /\ z.closesOn < z.dueOn
      /\ MonthOf(z.dueOn) <= m + 2
  <2>1. z.closesOn \in Nat /\ IsDate(z.closesOn) /\ MonthOf(z.closesOn) = m
    BY <1>2, <1>4, Closes
  <2>2. /\ z.dueOn \in Int /\ IsDate(z.dueOn) /\ z.closesOn < z.dueOn
        /\ MonthOf(z.dueOn) \in {m, m + 1, m + 2}
    BY <1>2, <1>4, Due
  <2>. QED
    BY <2>1, <2>2
<1>7. /\ z.startsOn \in Nat /\ IsDate(z.startsOn) /\ z.startsOn <= z.closesOn
      /\ m <= MonthOf(z.startsOn) + 1
  <2>1. CASE n = 1 /\ rows # <<>>
    <3>1. z.startsOn = From(rows) /\ m = F
      BY <2>1, <1>2, <1>5
    <3>2. createdOn \in Nat
      BY Registered DEF Times
    <3>3. From(rows) \in Nat /\ IsDate(From(rows))
      BY <3>2, FromWhen
    <3>4. ~(Closing(c, m) < From(rows))
      BY <1>1, <3>1, <3>3, MonthOfClosing DEF FirstMonth
    <3>5. MonthOf(From(rows)) \in Int
      BY <3>3, Parts
    <3>. QED
      BY <1>1, <1>4, <1>6, <3>1, <3>3, <3>4, <3>5
  <2>2. CASE ~(n = 1 /\ rows # <<>>)
    <3>1. PICK x \in Nat : x = Closing(c, k) /\ IsDate(x) /\ MonthOf(x) = k /\ x < z.closesOn
      BY <1>2, <1>4, Closes
    <3>2. z.startsOn = NextDay(x)
      BY <2>2, <1>5, <3>1
    <3>3. /\ NextDay(x) \in Int /\ IsDate(NextDay(x)) /\ x < NextDay(x)
          /\ NextDay(x) <= z.closesOn /\ MonthOf(NextDay(x)) \in {k, k + 1}
      BY <3>1, <1>6, DayAfter
    <3>. QED
      BY <1>2, <3>1, <3>2, <3>3
  <2>. QED
    BY <2>1, <2>2
<1>8. HasFields(z)
  BY <1>3, FromWhen, InChain
<1>9. z \in Cycle
  BY <1>6, <1>7, <1>8 DEF Cycle, HasFields
<1>10. ASSUME n > 1 PROVE ChainOf(c, rows)[n - 1].closesOn = Closing(c, k)
  <2>1. n - 1 \in 1..Length
    BY <1>10 DEF Length
  <2>2. ChainOf(c, rows)[n - 1].closesOn = Closing(c, F + (n - 1) - 1)
    BY <2>1, <1>1, FromWhen, InChain
  <2>3. F + (n - 1) - 1 = k
    BY <1>2
  <2>. QED
    BY <2>2, <2>3
<1>11. n = 1 /\ rows # <<>> => From(rows) = NextDay(rows[Len(rows)].closesOn)
  BY DEF From
<1>. QED
  BY <1>3, <1>5, <1>6, <1>7, <1>9, <1>10, <1>11 DEF Sized


(* How many cycles of the chain ended on a date, and the last day that     *)
(* did.                                                                    *)
LEMMA WindowIs ==
    ASSUME NEW c \in Config, NEW rows, Linked(rows), Ended(rows), Times,
           NEW x \in Int, From(rows) <= x, MonthOf(x) <= MonthOf(createdOn) + NumMonths + 1,
           NEW k \in Int, k = ClosingMonth(c, x) - FirstMonth(c, rows)
    PROVE  /\ k \in 0..NumMonths + 2 /\ k \in 0..Length /\ k + 1 \in 1..Length
           /\ Before(x, ChainOf(c, rows)) = k
           /\ ChainOf(c, rows)[k + 1].startsOn =
                NextDay(ClosedThroughOf(x, ChainOf(c, rows)))
           /\ ClosedThroughOf(x, ChainOf(c, rows)) \in Int
           /\ IsDate(ClosedThroughOf(x, ChainOf(c, rows)))
           /\ ClosedThroughOf(x, ChainOf(c, rows)) =
                IF k = 0 /\ rows # <<>> THEN rows[Len(rows)].closesOn
                ELSE Closing(c, FirstMonth(c, rows) + k - 1)
<1>1. PICK F \in Int : F = FirstMonth(c, rows) /\ MonthOf(createdOn) <= F
  BY FromWhen
<1>2. MonthOf(createdOn) \in Int /\ MonthOf(x) \in Int
  BY FromWhen, Parts
<1>3. k >= 0
  BY <1>1, FromWhen, MonthsOfClosing, MonthOfClosing DEF FirstMonth
<1>4. k <= NumMonths + 2
  BY <1>1, <1>2 DEF ClosingMonth
<1>5. k \in 0..NumMonths + 2 /\ k \in 0..Length /\ k + 1 \in 1..Length /\ k + 1 \in Int
  BY <1>3, <1>4 DEF Length
<1>6. Before(x, ChainOf(c, rows)) = k
  BY <1>5, FromWhen, BeforeIs
<1>7. PICK j \in Int : j = F + k - 1 /\ j = F + (k + 1) - 2
  OBVIOUS
<1>8. PICK y \in Int : /\ IsDate(y) /\ ChainOf(c, rows)[k + 1].startsOn = NextDay(y)
                       /\ y = IF k = 0 /\ rows # <<>> THEN rows[Len(rows)].closesOn
                              ELSE Closing(c, F + k - 1)
  <2>1. ChainOf(c, rows)[k + 1].startsOn =
          IF k + 1 = 1 /\ rows # <<>> THEN From(rows) ELSE NextDay(Closing(c, F + (k + 1) - 2))
    BY <1>1, <1>5, FromWhen, InChain
  <2>2. CASE k = 0 /\ rows # <<>>
    BY <2>1, <2>2, LastOne DEF From
  <2>3. CASE ~(k = 0 /\ rows # <<>>)
    <3>1. Closing(c, j) \in Int /\ IsDate(Closing(c, j))
      BY Closes
    <3>. QED
      BY SMTT(30), <2>1, <2>3, <3>1, <1>7
  <2>. QED
    BY <2>2, <2>3
<1>9. ClosedThroughOf(x, ChainOf(c, rows)) = y
  BY <1>6, <1>8, DayAfter DEF ClosedThroughOf
<1>. QED
  BY <1>1, <1>5, <1>6, <1>8, <1>9

-----------------------------------------------------------------------------
(* The steps.                                                              *)

(* A card is registered with nothing recorded. *)
LEMMA InitInv == Init => Inv
<1>. SUFFICES ASSUME Init PROVE Inv
  OBVIOUS
<1>1. createdOn \in CreationDates /\ today = createdOn /\ statements = <<>>
  BY DEF Init
<1>2. createdOn \in Nat /\ IsDate(createdOn) /\ MonthOf(createdOn) \in Int
  BY <1>1, Registered, Parts
<1>3. Times
  BY <1>1, <1>2 DEF Times
<1>4. Linked(statements) /\ Ended(statements) /\ Own
  BY <1>1 DEF Linked, Ended, Own
<1>. QED
  BY <1>3, <1>4 DEF Inv, Init

(* A day passes. *)
LEMMA MidnightInv == ASSUME Inv, Midnight PROVE Inv' /\ today < today'
<1>1. today \in Int /\ IsDate(today) /\ MonthOf(today) \in Int /\ MonthOf(createdOn) \in Int
  BY Registered, Parts DEF Inv, Times
<1>2. PICK m \in Int, n \in Int : /\ m = MonthOf(today) /\ n = MonthOf(createdOn)
                                  /\ m - n <= NumMonths
  BY <1>1 DEF Midnight
<1>3. /\ today' \in Int /\ IsDate(today') /\ today < today'
      /\ MonthOf(today') \in {m, m + 1}
  BY <1>1, <1>2, DayAfter DEF Midnight
<1>4. MonthOf(today') <= n + NumMonths + 1
  BY <1>2, <1>3
<1>5. UNCHANGED <<createdOn, config, changed, statements>>
  BY DEF Midnight
<1>6. Times'
  BY <1>2, <1>3, <1>4, <1>5 DEF Inv, Times
<1>7. Linked(statements)' /\ Own'
  BY <1>5 DEF Inv, Linked, Own
<1>8. Ended(statements)'
  <2>1. statements # <<>> => statements[Len(statements)].closesOn \in Int
    BY LastOne DEF Inv
  <2>. QED
    BY <2>1, <1>1, <1>3, <1>5 DEF Inv, Ended
<1>. QED
  BY <1>3, <1>5, <1>6, <1>7, <1>8 DEF Inv

(* The card gets other days. *)
LEMMA ChangeDaysInv == ASSUME Inv, ChangeDays PROVE Inv'
<1>1. UNCHANGED <<today, createdOn, statements>> /\ config' \in Config /\ changed' = TRUE
  BY DEF ChangeDays
<1>. QED
  BY <1>1 DEF Inv, Times, Linked, Ended, Own

(* What ended is recorded: the chain is cut after it, and goes on.         *)
LEMMA Recording ==
    ASSUME Inv, CloseDue
    PROVE  /\ Inv'
           /\ NumEnded \in 1..Length
           /\ statements' # <<>>
           /\ statements'[Len(statements')].closesOn
                = Closing(config, FirstMonth(config, statements) + NumEnded - 1)
           /\ NumEnded = ClosingMonth(config, today) - FirstMonth(config, statements)
<1>. USE DEF Inv
<1>1. PICK F \in Int : F = FirstMonth(config, statements)
  BY FromWhen
<1>2. PICK m \in Int : m = ClosingMonth(config, today)
  BY MonthOfClosing DEF Times
<1>3. PICK k \in Int : k = m - F
  OBVIOUS
<1>4. From(statements) \in Int /\ From(statements) <= today /\ createdOn <= From(statements)
      /\ today \in Int /\ createdOn \in Int
  BY FromWhen DEF Times
<1>5. k \in 0..Length /\ NumEnded = k
  BY <1>1, <1>2, <1>3, <1>4, WindowIs DEF NumEnded, Chain, Times
<1>6. k \in 1..Length /\ statements' = statements \o SubSeq(Chain, 1, k)
      /\ UNCHANGED <<today, createdOn, config, changed>>
  BY <1>5 DEF CloseDue
<1>7. ASSUME NEW n \in 1..Length
      PROVE  /\ Sized(Chain[n]) /\ Chain[n] \in Cycle
             /\ n > 1 => Chain[n].startsOn = NextDay(Chain[n - 1].closesOn)
             /\ n = 1 /\ statements # <<>> =>
                  Chain[n].startsOn = NextDay(statements[Len(statements)].closesOn)
  BY ChainSized DEF Chain, Sized
<1>8. PICK D : D = SubSeq(Chain, 1, k)
  OBVIOUS
<1>9. D \in Seq(Cycle) /\ Len(D) = k /\ \A i \in 1..k : D[i] = Chain[i]
  <2>1. \A i \in 1..k : Chain[i] \in Cycle
    BY <1>6, <1>7 DEF Length
  <2>2. k - 1 + 1 = k /\ 1 <= k /\ 1 \in Int /\ k \in Int
    BY <1>6
  <2>3. /\ D \in Seq(Cycle) /\ Len(D) = IF 1 <= k THEN k - 1 + 1 ELSE 0
        /\ \A i \in 1..k - 1 + 1 : D[i] = Chain[1 + i - 1]
    BY <1>8, <2>1, <2>2, SubSeqProperties
  <2>. QED
    BY <2>2, <2>3
<1>10. PICK L \in Nat : L = Len(statements)
  BY LenProperties DEF Linked
<1>11. statements \in Seq(Cycle) /\ (statements # <<>> <=> L > 0)
  BY <1>10, EmptySeq DEF Linked
<1>12. /\ statements' \in Seq(Cycle) /\ Len(statements') = L + k
       /\ \A i \in 1..L + k : statements'[i] = IF i <= L THEN statements[i] ELSE Chain[i - L]
  <2>1. /\ statements \o D \in Seq(Cycle) /\ Len(statements \o D) = Len(statements) + Len(D)
        /\ \A i \in 1..Len(statements) + Len(D) :
             (statements \o D)[i] = IF i <= Len(statements) THEN statements[i]
                                    ELSE D[i - Len(statements)]
    BY <1>9, <1>11, ConcatProperties
  <2>2. statements' = statements \o D
    BY <1>6, <1>8
  <2>3. ASSUME NEW i \in 1..L + k
        PROVE  statements'[i] = IF i <= L THEN statements[i] ELSE Chain[i - L]
    <3>1. statements'[i] = IF i <= L THEN statements[i] ELSE D[i - L]
      BY <2>1, <2>2, <1>9, <1>10
    <3>2. ~(i <= L) => i - L \in 1..k
      OBVIOUS
    <3>. QED
      BY <3>1, <3>2, <1>9
  <2>. QED
    BY <2>1, <2>2, <2>3, <1>9, <1>10
<1>13. Linked(statements')
  <2>1. ASSUME NEW n \in 1..L + k
        PROVE  /\ Sized(statements'[n])
               /\ n > 1 => statements'[n].startsOn = NextDay(statements'[n - 1].closesOn)
    <3>1. CASE n <= L
      <4>1. n \in 1..L /\ statements'[n] = statements[n]
        BY <3>1, <1>12
      <4>2. n > 1 => n - 1 \in 1..L + k /\ statements'[n - 1] = statements[n - 1]
        BY <3>1, <1>12
      <4>. QED
        BY <4>1, <4>2, <1>10 DEF Linked
    <3>2. CASE n = L + 1
      <4>0. k \in Int /\ 1 <= k /\ 1 \in 1..Length
        BY <1>6 DEF Length
      <4>1. statements'[n] = Chain[1]
        <5>1. n \in 1..L + k /\ ~(n <= L) /\ n - L = 1
          BY <3>2
        <5>. QED
          BY <5>1, <1>12
      <4>2. ASSUME n > 1
            PROVE  n - 1 = L /\ L > 0 /\ statements'[n - 1] = statements[L]
        <5>1. n - 1 = L /\ L > 0
          BY <3>2, <4>2
        <5>2. L \in 1..L + k
          BY <5>1, <4>0
        <5>3. statements'[L] = statements[L]
          BY <5>2, <1>12
        <5>. QED
          BY <5>1, <5>3
      <4>. QED
        BY <4>0, <4>1, <4>2, <1>7, <1>10, <1>11
    <3>3. CASE n > L + 1
      <4>1. PICK j \in Int : j = n - L /\ j \in 1..Length /\ j > 1
        BY <3>3, <1>6 DEF Length
      <4>2. statements'[n] = Chain[j]
        <5>1. n \in 1..L + k /\ ~(n <= L) /\ n - L = j
          BY <3>3, <4>1
        <5>. QED
          BY <5>1, <1>12
      <4>3. statements'[n - 1] = Chain[j - 1]
        <5>1. n - 1 \in 1..L + k /\ ~(n - 1 <= L) /\ (n - 1) - L = j - 1
          BY <3>3, <4>1
        <5>. QED
          BY <5>1, <1>12
      <4>. QED
        BY <4>1, <4>2, <4>3, <1>7
    <3>. QED
      BY <3>1, <3>2, <3>3
  <2>. QED
    BY <2>1, <1>12 DEF Linked
<1>14. statements' # <<>> /\ statements'[Len(statements')] = Chain[k]
  <2>1. L + k \in 1..L + k /\ ~(L + k <= L) /\ (L + k) - L = k
    BY <1>6
  <2>2. statements'[L + k] = Chain[k]
    BY <2>1, <1>12
  <2>3. Len(statements') # 0
    BY <2>1, <1>12
  <2>. QED
    BY <2>2, <2>3, <1>12, EmptySeq
<1>15. Chain[k].closesOn = Closing(config, F + k - 1)
  BY <1>1, <1>6, FromWhen, InChain DEF Chain
<1>16. PICK j \in Int : j = F + k - 1 /\ j = m - 1 /\ F <= j
  BY <1>3, <1>6
<1>17. Closing(config, j) < today
  BY <1>2, <1>4, <1>16, MonthOfClosing
<1>18. createdOn <= Closing(config, j)
  <2>1. ~(Closing(config, F) < From(statements))
    BY <1>1, <1>4, MonthOfClosing DEF FirstMonth
  <2>2. Closing(config, F) <= Closing(config, j)
    BY <1>16, Closes
  <2>3. Closing(config, F) \in Int /\ Closing(config, j) \in Int
    BY Closes
  <2>. QED
    BY <2>1, <2>2, <2>3, <1>4
<1>19. Times' /\ config' \in Config /\ changed' \in BOOLEAN
  BY <1>6 DEF Times
<1>20. Ended(statements)' /\ Own'
  BY <1>6, <1>14, <1>15, <1>16, <1>17, <1>18 DEF Ended, Own
<1>21. Linked(statements)'
  BY <1>13 DEF Linked
<1>. QED
  BY <1>1, <1>2, <1>3, <1>5, <1>6, <1>14, <1>15, <1>19, <1>20, <1>21


(* The chain of the card as it is now. *)
LEMMA ChainNow ==
    ASSUME Inv
    PROVE  /\ config \in Config /\ Linked(statements) /\ Ended(statements) /\ Times
           /\ Ends(statements) /\ createdOn \in Int /\ today \in Int
           /\ FirstMonth(config, statements) \in Int
           /\ Length \in Nat /\ Length > 0 /\ DOMAIN Chain = 1..Length
           /\ Chain[1] = IF statements = <<>> THEN CycleOf(config, FirstMonth(config, statements))
                         ELSE [CycleOf(config, FirstMonth(config, statements)) EXCEPT
                                 !.startsOn = From(statements)]
           /\ \A n \in 2..Length : Chain[n] = CycleOf(config, FirstMonth(config, statements) + n - 1)
<1>1. /\ config \in Config /\ Linked(statements) /\ Ended(statements) /\ Times
      /\ Ends(statements) /\ createdOn \in Int /\ today \in Int
      /\ FirstMonth(config, statements) \in Int
  BY FromWhen DEF Inv, Times
<1>2. Length \in Nat /\ Length > 0
  BY DEF Length
<1>. QED
  BY <1>1, <1>2, ChainIs DEF Chain

(* Every step keeps the invariant. *)
LEMMA NextInv == Inv /\ [Next]_vars => Inv'
<1>. SUFFICES ASSUME Inv, [Next]_vars PROVE Inv'
  OBVIOUS
<1>1. CASE UNCHANGED vars
  BY <1>1 DEF vars, Inv, Times, Linked, Ended, Own
<1>. QED
  BY <1>1, MidnightInv, ChangeDaysInv, Recording DEF Next

(* What was recorded and the day are so, for any card, day of registration *)
(* and number of months.                                                   *)
THEOREM Invariance == Spec => []Inv
  BY InitInv, NextInv, PTL DEF Spec

-----------------------------------------------------------------------------
(* What the invariant says of the properties of the runs.                  *)

(* Every date that is kept is one of the calendar.                         *)
THEOREM TypeCorrect == Spec => []TypeOK
<1>1. Inv => TypeOK
  <2>. SUFFICES ASSUME Inv PROVE TypeOK
    OBVIOUS
  <2>1. DOMAIN statements = 1..Len(statements)
    BY LenProperties DEF Inv, Linked
  <2>2. ASSUME NEW n \in DOMAIN statements
        PROVE  /\ statements[n] \in Cycle
               /\ \A field \in DOMAIN statements[n] : IsDate(statements[n][field])
    <3>1. Sized(statements[n])
      BY <2>1 DEF Inv, Linked
    <3>. QED
      BY <3>1 DEF Sized, Cycle
  <2>. QED
    BY <2>2 DEF Inv, Times, TypeOK
<1>. QED
  BY <1>1, Invariance, PTL

(* INV-0011-08, INV-0013-03: recorded and projected statements follow each *)
(* other without a hole or an overlap, and each is due after it closes,    *)
(* whatever the days of the card were changed to, and when.                *)
THEOREM Chained == Spec => []StatementsChained
<1>1. Inv => StatementsChained
  <2>. SUFFICES ASSUME Inv PROVE StatementsChained
    OBVIOUS
  <2>. USE DEF Inv
  <2>1. PICK F \in Int : F = FirstMonth(config, statements)
    BY FromWhen
  <2>2. PICK ch : ch = Chain
    OBVIOUS
  <2>3. DOMAIN ch = 1..Length /\ Length \in Nat /\ Length > 0
    BY <2>2, ChainNow
  <2>4. ASSUME NEW n \in 1..Length
        PROVE  /\ Sized(ch[n]) /\ ch[n] \in Cycle
               /\ n > 1 => ch[n].startsOn = NextDay(ch[n - 1].closesOn)
               /\ n = 1 /\ statements # <<>> =>
                    ch[n].startsOn = NextDay(statements[Len(statements)].closesOn)
    BY <2>2, ChainSized DEF Chain, Sized
  <2>5. ASSUME NEW n \in 2..Length PROVE ch[n] = NextCycle(config, ch[n - 1].closesOn)
    <3>1. n - 1 \in 1..Length
      BY <2>3
    <3>2. ch[n] = CycleOf(config, F + n - 1)
      BY ZenonT(60), <2>1, <2>2, FromWhen, ChainIs DEF Chain
    <3>3. ch[n - 1].closesOn = Closing(config, F + (n - 1) - 1)
      BY <2>1, <2>2, <3>1, FromWhen, InChain DEF Chain
    <3>4. PICK j \in Int : j = F + (n - 1) - 1 /\ j + 1 = F + n - 1
      OBVIOUS
    <3>. QED
      BY <3>2, <3>3, <3>4, NextCycleOwn
  <2>6. PICK all : all = statements \o ch
    OBVIOUS
  <2>7. PICK L \in Nat : L = Len(statements) /\ (L > 0 => statements # <<>>)
    BY LenProperties, EmptySeq DEF Linked
  <2>8. DOMAIN all = 1..L + Length
        /\ \A n \in 1..L + Length : all[n] = IF n <= L THEN statements[n] ELSE ch[n - L]
    <3>1. ch = [n \in 1..Length |-> ch[n]]
      <4>1. Chain = [n \in DOMAIN Chain |-> Chain[n]]
        BY DEF Chain, ChainOf
      <4>. QED
        BY <4>1, <2>2, <2>3
    <3>2. ch \in [1..Length -> Cycle]
      BY <3>1, <2>4
    <3>3. ch \in Seq(Cycle)
      BY <2>3, <3>2, SeqDef
    <3>4. Len(ch) = Length
      BY <2>3, <3>3, LenProperties
    <3>5. statements \in Seq(Cycle)
      BY DEF Linked
    <3>6. /\ all \in Seq(Cycle) /\ Len(all) = L + Length
          /\ \A n \in 1..L + Length : all[n] = IF n <= L THEN statements[n] ELSE ch[n - L]
      BY ZenonT(60), <2>6, <2>7, <3>3, <3>4, <3>5, ConcatProperties
    <3>. QED
      BY <3>6, LenProperties
  <2>9. ASSUME NEW n \in 1..L + Length
        PROVE  Sized(all[n]) /\ (n > 1 => all[n].startsOn = NextDay(all[n - 1].closesOn))
    <3>1. CASE n <= L
      <4>1. n \in 1..L /\ all[n] = statements[n]
        BY <3>1, <2>8
      <4>2. n > 1 => n - 1 \in 1..L + Length /\ all[n - 1] = statements[n - 1]
        BY <3>1, <2>3, <2>8
      <4>. QED
        BY <4>1, <4>2, <2>7 DEF Linked
    <3>2. CASE n = L + 1
      <4>1. all[n] = ch[1] /\ 1 \in 1..Length
        <5>1. ~(n <= L) /\ n - L = 1
          BY <3>2
        <5>. QED
          BY <5>1, <2>3, <2>8
      <4>2. ASSUME n > 1
            PROVE  statements # <<>> /\ all[n - 1] = statements[L]
        <5>1. n - 1 = L /\ L > 0
          BY <3>2, <4>2
        <5>2. L \in 1..L + Length
          BY <5>1, <2>3
        <5>3. all[L] = statements[L]
          BY <5>2, <2>8
        <5>. QED
          BY <5>1, <5>3, <2>7
      <4>. QED
        BY <4>1, <4>2, <2>4, <2>7
    <3>3. CASE n > L + 1
      <4>1. PICK j \in Int : j = n - L /\ j \in 1..Length /\ j > 1
        BY <3>3, <2>3
      <4>2. all[n] = ch[j]
        BY <3>3, <4>1, <2>8
      <4>3. all[n - 1] = ch[j - 1]
        <5>1. n - 1 \in 1..L + Length /\ ~(n - 1 <= L) /\ (n - 1) - L = j - 1
          BY <3>3, <4>1, <2>3
        <5>. QED
          BY <5>1, <2>8
      <4>. QED
        BY <4>1, <4>2, <4>3, <2>4
    <3>. QED
      BY <3>1, <3>2, <3>3
  <2>10. \A n \in DOMAIN ch \ {1} : n \in 2..Length
    BY <2>3
  <2>11. \A n \in DOMAIN ch \ {1} : ch[n] = NextCycle(config, ch[n - 1].closesOn)
    BY <2>5, <2>10
  <2>12. ASSUME NEW n \in DOMAIN all
         PROVE  /\ n > 1 => all[n].startsOn = NextDay(all[n - 1].closesOn)
                /\ all[n].startsOn <= all[n].closesOn
                /\ MonthOf(all[n].closesOn) <= MonthOf(all[n].startsOn) + 1
                /\ all[n].closesOn < all[n].dueOn
                /\ MonthOf(all[n].dueOn) <= MonthOf(all[n].closesOn) + 2
    BY <2>8, <2>9 DEF Sized
  <2>. QED
    BY <2>2, <2>6, <2>11, <2>12 DEF StatementsChained
<1>. QED
  BY <1>1, Invariance, PTL

(* currentCycle: until the days of the card change, the cycle they give    *)
(* for today is the one its statements reach from the registration.        *)
THEOREM OpenCycleShown == Spec => []CardShowsOpenCycle
<1>1. Inv => CardShowsOpenCycle
  <2>. SUFFICES ASSUME Inv, ~changed PROVE CycleFor(config, today) = Chain[CycleContaining(today)]
    BY DEF CardShowsOpenCycle
  <2>. USE DEF Inv
  <2>1. PICK F \in Int : F = FirstMonth(config, statements)
    BY FromWhen
  <2>2. today \in Int
    BY DEF Times
  <2>3. PICK m \in Int : m = ClosingMonth(config, today)
    BY <2>2, MonthOfClosing
  <2>4. PICK k \in Int : k = m - F /\ m = F + (k + 1) - 1
    OBVIOUS
  <2>5. k + 1 \in 1..Length /\ CycleContaining(today) = k + 1
    <3>1. From(statements) <= today /\ MonthOf(today) <= MonthOf(createdOn) + NumMonths + 1
      BY ChainNow, FromWhen DEF Times
    <3>2. k + 1 \in 1..Length /\ Before(today, ChainOf(config, statements)) = k
      BY <2>1, <2>3, <2>4, <3>1, ChainNow, WindowIs
    <3>. QED
      BY <3>2 DEF CycleContaining, Chain
  <2>6. CycleFor(config, today) = CycleOf(config, m)
    BY <2>2, <2>3, CycleForIs
  <2>7. Chain[k + 1] = CycleOf(config, m)
    <3>1. CASE k # 0
      <4>1. k + 1 \in 2..Length
        BY <3>1, <2>5
      <4>. QED
        BY <4>1, <2>1, <2>4, ChainNow
    <3>2. CASE k = 0 /\ statements = <<>>
      <4>1. m = F
        BY <3>2, <2>4
      <4>. QED
        BY <3>2, <4>1, <2>1, ChainNow
    <3>3. CASE k = 0 /\ statements # <<>>
      <4>1. PICK n \in Int : statements[Len(statements)].closesOn = Closing(config, n)
        BY <3>3 DEF Own
      <4>2. From(statements) = NextDay(Closing(config, n))
        BY <3>3, <4>1 DEF From
      <4>3. F = n + 1
        BY <4>2, <2>1, NextClosing DEF FirstMonth
      <4>4. m = n + 1 /\ m - 1 = n
        BY <4>3, <3>3, <2>4
      <4>5. Chain[1] = [CycleOf(config, m) EXCEPT !.startsOn = From(statements)]
        BY <3>3, <4>3, <4>4, <2>1, ChainNow
      <4>6. CycleOf(config, m).startsOn = From(statements)
        BY <4>2, <4>4 DEF CycleOf
      <4>. QED
        BY <4>5, <4>6, <3>3 DEF CycleOf
    <3>. QED
      BY <3>1, <3>2, <3>3
  <2>. QED
    BY <2>5, <2>6, <2>7
<1>. QED
  BY <1>1, Invariance, PTL


-----------------------------------------------------------------------------
(* The closed window.                                                      *)

(* Once a statement is recorded its last day stays closed, on any later    *)
(* date and for any days of the card.                                      *)
LEMMA LastStays ==
    ASSUME NEW c \in Config, NEW rows, Linked(rows), Ended(rows), Times, rows # <<>>,
           NEW x \in Int, From(rows) <= x, MonthOf(x) <= MonthOf(createdOn) + NumMonths + 1
    PROVE  /\ rows[Len(rows)].closesOn \in Int
           /\ ClosedThroughOf(x, ChainOf(c, rows)) \in Int
           /\ rows[Len(rows)].closesOn <= ClosedThroughOf(x, ChainOf(c, rows))
<1>1. PICK y \in Int : y = rows[Len(rows)].closesOn /\ IsDate(y)
  BY LastOne
<1>2. PICK F \in Int : F = FirstMonth(c, rows)
  BY FromWhen
<1>3. PICK k \in Int : k = ClosingMonth(c, x) - F
  BY MonthOfClosing
<1>4. PICK z \in Int : /\ z = ClosedThroughOf(x, ChainOf(c, rows)) /\ k >= 0
                       /\ z = IF k = 0 /\ rows # <<>> THEN y ELSE Closing(c, F + k - 1)
  <2>1. k = ClosingMonth(c, x) - FirstMonth(c, rows)
    BY <1>2, <1>3
  <2>2. /\ k \in 0..NumMonths + 2 /\ ClosedThroughOf(x, ChainOf(c, rows)) \in Int
        /\ ClosedThroughOf(x, ChainOf(c, rows)) =
             IF k = 0 /\ rows # <<>> THEN rows[Len(rows)].closesOn
             ELSE Closing(c, FirstMonth(c, rows) + k - 1)
    BY <2>1, WindowIs
  <2>. QED
    BY <2>2, <1>1, <1>2
<1>5. CASE k = 0
  BY <1>1, <1>4, <1>5
<1>6. CASE k # 0
  <2>1. PICK j \in Int : j = F + k - 1 /\ F <= j
    BY <1>4, <1>6
  <2>2. From(rows) = NextDay(y) /\ NextDay(y) \in Int /\ y < NextDay(y)
    BY <1>1, DayAfter DEF From
  <2>3. ~(Closing(c, j) < NextDay(y))
    <3>1. F = ClosingMonth(c, NextDay(y))
      BY <1>2, <2>2 DEF FirstMonth
    <3>2. ~(j < F)
      BY <2>1
    <3>. QED
      BY <2>2, <3>1, <3>2, MonthOfClosing
  <2>4. Closing(c, j) \in Int /\ z = Closing(c, j)
    BY <1>4, <1>6, <2>1, Closes
  <2>. QED
    BY <1>1, <1>4, <2>2, <2>3, <2>4
<1>. QED
  BY <1>5, <1>6

(* On a later date no less is closed. *)
LEMMA MoreIsClosed ==
    ASSUME NEW c \in Config, NEW rows, Linked(rows), Ended(rows), Times, rows # <<>>,
           NEW x \in Int, NEW y \in Int, From(rows) <= x, x <= y,
           MonthOf(y) <= MonthOf(createdOn) + NumMonths + 1
    PROVE  ClosedThroughOf(x, ChainOf(c, rows)) <= ClosedThroughOf(y, ChainOf(c, rows))
<1>0. From(rows) \in Int /\ From(rows) <= y
  BY FromWhen
<1>1. MonthOf(x) <= MonthOf(createdOn) + NumMonths + 1
  <2>1. MonthOf(x) \in Int /\ MonthOf(y) \in Int /\ MonthOf(createdOn) \in Int /\ ~(MonthOf(y) < MonthOf(x))
    BY FromWhen, Parts, InOrder
  <2>. QED
    BY <2>1
<1>2. PICK F \in Int : F = FirstMonth(c, rows)
  BY FromWhen
<1>3. PICK k \in Int : k = ClosingMonth(c, x) - F
  BY MonthOfClosing
<1>4. PICK l \in Int : l = ClosingMonth(c, y) - F
  BY MonthOfClosing
<1>5. k <= l
  <2>1. PICK i \in Int, j \in Int : i = ClosingMonth(c, x) /\ j = ClosingMonth(c, y)
    BY MonthOfClosing
  <2>2. i <= j
    BY <2>1, MonthsOfClosing
  <2>. QED
    BY <1>3, <1>4, <2>1, <2>2
<1>6. k >= 0 /\ ClosedThroughOf(x, ChainOf(c, rows)) =
                  IF k = 0 /\ rows # <<>> THEN rows[Len(rows)].closesOn ELSE Closing(c, F + k - 1)
  BY SMTT(30), <1>1, <1>2, <1>3, WindowIs
<1>7. ClosedThroughOf(y, ChainOf(c, rows)) =
        IF l = 0 /\ rows # <<>> THEN rows[Len(rows)].closesOn ELSE Closing(c, F + l - 1)
  BY <1>0, <1>2, <1>4, WindowIs
<1>8. CASE k = 0
  BY <1>0, <1>6, <1>8, LastStays
<1>9. CASE k # 0
  <2>1. PICK i \in Int, j \in Int : i = F + k - 1 /\ j = F + l - 1 /\ i <= j
    BY <1>5
  <2>2. Closing(c, i) <= Closing(c, j)
    <3>1. Closing(c, i) \in Int /\ Closing(c, j) \in Int
      BY Closes
    <3>2. i < j => Closing(c, i) < Closing(c, j)
      BY Closes
    <3>. QED
      BY <2>1, <3>1, <3>2
  <2>3. l # 0
    BY <1>5, <1>6, <1>9
  <2>. QED
    BY <1>6, <1>7, <1>9, <2>1, <2>2, <2>3
<1>. QED
  BY <1>8, <1>9

(* "A closing_day change never reopens a closed window", when what ended   *)
(* is recorded before the days of a card change: neither the passing of    *)
(* days nor a recording takes the last closed day back, and a recording    *)
(* ends exactly where the window was.                                      *)
THEOREM WindowStaysClosed == ASSUME Prompt PROVE Spec => WindowNeverReopens
<1>. DEFINE Kept == \A date \in {today'}, c \in {config'}, rows \in {statements'} :
                      /\ statements # <<>> => ClosedThroughOf(date, ChainOf(c, rows)) >= ClosedThrough
                      /\ rows # statements => rows[Len(rows)].closesOn = ClosedThrough
<1>1. ASSUME Inv, Inv', Next PROVE Kept
  <2>0. PICK x \in Int, y \in Int :
          /\ x = today /\ y = today' /\ From(statements) <= x
          /\ MonthOf(x) <= MonthOf(createdOn) + NumMonths + 1
          /\ createdOn' = createdOn => MonthOf(y) <= MonthOf(createdOn) + NumMonths + 1
    BY <1>1, ChainNow, FromWhen DEF Inv, Times
  <2>1. ClosedThrough = ClosedThroughOf(x, ChainOf(config, statements))
    BY <2>0 DEF ClosedThrough, Chain
  <2>2. PICK F \in Int, k \in Int : F = FirstMonth(config, statements) /\ k = ClosingMonth(config, x) - F
    BY <1>1, ChainNow, MonthOfClosing
  <2>3. /\ NumEnded = k /\ k >= 0 /\ ClosedThrough \in Int
        /\ ClosedThrough = IF k = 0 /\ statements # <<>> THEN statements[Len(statements)].closesOn
                           ELSE Closing(config, F + k - 1)
    BY SMTT(30), <1>1, <2>0, <2>1, <2>2, ChainNow, WindowIs DEF NumEnded, Chain
  <2>4. CASE Midnight
    <3>1. config' = config /\ statements' = statements /\ createdOn' = createdOn /\ x <= y
      BY <1>1, <2>0, <2>4, MidnightInv DEF Midnight
    <3>2. statements # <<>> =>
            ClosedThroughOf(x, ChainOf(config, statements))
              <= ClosedThroughOf(y, ChainOf(config, statements))
      BY <1>1, <2>0, <3>1, ChainNow, MoreIsClosed
    <3>3. statements # <<>> => ClosedThroughOf(y, ChainOf(config, statements)) \in Int
      BY <1>1, <2>0, <3>1, ChainNow, FromWhen, LastStays
    <3>. QED
      BY <2>0, <2>1, <2>3, <3>1, <3>2, <3>3
  <2>5. CASE ChangeDays
    <3>1. /\ config' \in Config /\ statements' = statements /\ y = x /\ k = 0
      BY <2>0, <2>3, <2>5, BillingCyclesAssumption DEF ChangeDays
    <3>2. statements # <<>> =>
            /\ statements[Len(statements)].closesOn \in Int
            /\ ClosedThroughOf(x, ChainOf(config', statements)) \in Int
            /\ statements[Len(statements)].closesOn <= ClosedThroughOf(x, ChainOf(config', statements))
      <4>. SUFFICES ASSUME NEW c \in Config, c = config', statements # <<>>
                    PROVE  /\ statements[Len(statements)].closesOn \in Int
                           /\ ClosedThroughOf(x, ChainOf(c, statements)) \in Int
                           /\ statements[Len(statements)].closesOn
                                <= ClosedThroughOf(x, ChainOf(c, statements))
        BY <3>1
      <4>. QED
        BY <1>1, <2>0, ChainNow, LastStays
    <3>. QED
      BY <2>0, <2>3, <3>1, <3>2
  <2>6. CASE CloseDue
    <3>1. /\ createdOn' = createdOn /\ today' = today /\ config' = config
      BY <2>6 DEF CloseDue
    <3>2. PICK rows : /\ rows = statements' /\ rows # <<>> /\ k \in 1..Length
                      /\ rows[Len(rows)].closesOn = Closing(config, F + k - 1)
      BY <1>1, <2>2, <2>3, <2>6, Recording
    <3>3. Linked(rows) /\ Ended(rows)
      BY <1>1, <3>1, <3>2 DEF Inv, Linked, Ended
    <3>4. PICK j \in Int : j = F + k - 1 /\ j + 1 = ClosingMonth(config, x)
      <4>1. ClosingMonth(config, x) \in Int
        BY <1>1, ChainNow, MonthOfClosing
      <4>. QED
        BY <2>2, <4>1
    <3>5. From(rows) = NextDay(Closing(config, j))
      BY <3>2, <3>4 DEF From
    <3>6. FirstMonth(config, rows) = ClosingMonth(config, x)
      BY <1>1, <3>4, <3>5, NextClosing, ChainNow DEF FirstMonth
    <3>7. From(rows) <= x /\ Times /\ config \in Config
      BY <1>1, <2>0, <3>3, ChainNow, FromWhen
    <3>8. 0 = ClosingMonth(config, x) - FirstMonth(config, rows)
      BY <3>4, <3>6
    <3>9. ClosedThroughOf(x, ChainOf(config, rows)) = rows[Len(rows)].closesOn
      BY <2>0, <3>2, <3>3, <3>7, <3>8, WindowIs
    <3>10. ClosedThrough = Closing(config, F + k - 1)
      BY <2>3, <3>2
    <3>. QED
      BY <2>0, <2>3, <3>1, <3>2, <3>9, <3>10
  <2>. QED
    BY <1>1, <2>4, <2>5, <2>6 DEF Next
<1>2. Inv /\ Inv' /\ [Next]_vars => [Kept]_vars
  BY <1>1
<1>. QED
  BY <1>2, Invariance, PTL DEF Spec, WindowNeverReopens


-----------------------------------------------------------------------------
(* Months later.                                                           *)

(* A date some months later is of that month, on the same day or on the    *)
(* last one of the month, and no months later is the date itself.          *)
LEMMA MonthsLater ==
    ASSUME NEW x \in Int, IsDate(x), NEW n \in Int
    PROVE  /\ AddMonths(x, n) \in Int /\ IsDate(AddMonths(x, n))
           /\ MonthOf(AddMonths(x, n)) = MonthOf(x) + n
           /\ DayOf(AddMonths(x, n)) = DayOf(x) \/ ~IsDate(AddMonths(x, n) + 1)
           /\ DayOf(x) <= 28 => DayOf(AddMonths(x, n)) = DayOf(x)
           /\ n = 0 => AddMonths(x, n) = x
<1>1. PICK m \in Int, d \in 0..31 : m = MonthOf(x) /\ d = DayOf(x) /\ x = 32 * m + d
  BY Parts
<1>2. PICK k \in Int : k = m + n
  OBVIOUS
<1>3. PICK l \in 28..31 : l = DaysInMonth(k)
  BY MonthLength
<1>4. d \in 1..31 /\ d <= DaysInMonth(m)
  BY <1>1, MonthLength DEF IsDate
<1>5. PICK y \in Int : y = AddMonths(x, n) /\ y = ResolveDay(k, d)
  BY <1>1, <1>2, <1>4, Resolved DEF AddMonths
<1>6. IsDate(y) /\ MonthOf(y) = k /\ DayOf(y) = IF d <= l THEN d ELSE l
  <2>1. /\ IsDate(ResolveDay(k, d)) /\ MonthOf(ResolveDay(k, d)) = k
        /\ DayOf(ResolveDay(k, d)) = IF d <= DaysInMonth(k) THEN d ELSE DaysInMonth(k)
    BY <1>4, Resolved
  <2>. QED
    BY <2>1, <1>3, <1>5
<1>7. ASSUME ~(d <= l) PROVE ~IsDate(y + 1)
  <2>1. y = 32 * k + l /\ l + 1 \in 0..31
    BY <1>4, <1>6, <1>7, Parts
  <2>2. y + 1 = DateOf(k, l + 1)
    BY <2>1 DEF DateOf
  <2>3. MonthOf(y + 1) = k /\ DayOf(y + 1) = l + 1
    <3>1. MonthOf(DateOf(k, l + 1)) = k /\ DayOf(DateOf(k, l + 1)) = l + 1
      BY <2>1, OfParts
    <3>. QED
      BY <2>2, <3>1
  <2>. QED
    BY <2>3, <1>3 DEF IsDate
<1>8. n = 0 => y = x
  <2>1. ResolveDay(m, d) = x
    BY <1>1, <1>4 DEF ResolveDay, DateOf
  <2>2. n = 0 => k = m
    BY <1>2
  <2>. QED
    BY <2>1, <2>2, <1>5
<1>9. d <= 28 => d <= l
  OBVIOUS
<1>10. DayOf(y) = d \/ ~IsDate(y + 1)
  BY <1>6, <1>7
<1>11. d <= 28 => DayOf(y) = d
  BY <1>6, <1>9
<1>. QED
  BY <1>1, <1>2, <1>5, <1>6, <1>8, <1>10, <1>11

(* A later date is not earlier some months later. *)
LEMMA MonthsLaterInOrder ==
    ASSUME NEW x \in Int, IsDate(x), NEW y \in Int, IsDate(y), x <= y, NEW n \in Int
    PROVE  AddMonths(x, n) <= AddMonths(y, n)
<1>1. PICK m \in Int, d \in 0..31 : m = MonthOf(x) /\ d = DayOf(x) /\ x = 32 * m + d
  BY Parts
<1>2. PICK k \in Int, e \in 0..31 : k = MonthOf(y) /\ e = DayOf(y) /\ y = 32 * k + e
  BY Parts
<1>3. d \in 1..31 /\ e \in 1..31
  BY <1>1, <1>2, MonthLength DEF IsDate
<1>4. m < k \/ (m = k /\ d <= e)
  BY <1>1, <1>2
<1>5. PICK i \in Int, j \in Int : i = m + n /\ j = k + n
  OBVIOUS
<1>6. AddMonths(x, n) = ResolveDay(i, d) /\ AddMonths(y, n) = ResolveDay(j, e)
  BY <1>1, <1>2, <1>5 DEF AddMonths
<1>7. i < j \/ (i = j /\ d <= e)
  BY <1>4, <1>5
<1>8. ResolveDay(i, d) \in Int /\ ResolveDay(j, e) \in Int
  BY <1>3, Resolved
<1>9. i < j => ResolveDay(i, d) < ResolveDay(j, e)
  BY <1>3, ResolvedInOrder
<1>10. i = j /\ d <= e => ResolveDay(i, d) <= ResolveDay(j, e)
  BY <1>3, ResolvedInOrder
<1>. QED
  BY <1>6, <1>7, <1>8, <1>9, <1>10

(* Extended on a later date, a series has the dates it had, and others     *)
(* after them.                                                             *)
LEMMA LongerSeries ==
    ASSUME NEW s \in Int, IsDate(s), NEW e \in Int, NEW x \in Int, NEW y \in Int, x <= y
    PROVE  /\ SeriesDates(s, e, x) \subseteq SeriesDates(s, e, y)
           /\ \A d \in SeriesDates(s, e, y) \ SeriesDates(s, e, x), f \in SeriesDates(s, e, x) : f < d
<1>. DEFINE Limit(z) == IF e < RecurrenceHorizon(z) THEN e ELSE RecurrenceHorizon(z)
            Dates(l) == {s} \cup {d \in {AddMonths(s, k) : k \in 0..MonthOf(l) - MonthOf(s)} : d <= l}
<1>1. RecurrenceHorizon(x) \in Int /\ RecurrenceHorizon(y) \in Int
      /\ RecurrenceHorizon(x) <= RecurrenceHorizon(y)
  <2>1. PICK m \in Int, n \in Int : m = MonthOf(x) + HorizonMonths /\ n = MonthOf(y) + HorizonMonths
                                    /\ m <= n
    <3>1. MonthOf(x) \in Int /\ MonthOf(y) \in Int /\ ~(MonthOf(y) < MonthOf(x))
      BY Parts, InOrder
    <3>. QED
      BY <3>1
  <2>2. PICK d \in 28..31, f \in 28..31 : d = DaysInMonth(m) /\ f = DaysInMonth(n)
    BY MonthLength
  <2>3. RecurrenceHorizon(x) = 32 * m + d /\ RecurrenceHorizon(y) = 32 * n + f
    BY <2>1, <2>2 DEF RecurrenceHorizon, DateOf
  <2>4. m = n => d = f
    BY <2>2
  <2>. QED
    BY <2>1, <2>3, <2>4
<1>2. PICK p \in Int : p = Limit(x)
  BY <1>1
<1>3. PICK q \in Int : q = Limit(y) /\ p <= q
  BY <1>1, <1>2
<1>4. SeriesDates(s, e, x) = Dates(p) /\ SeriesDates(s, e, y) = Dates(q)
  BY <1>2, <1>3 DEF SeriesDates
<1>5. MonthOf(s) \in Int /\ MonthOf(p) \in Int /\ MonthOf(q) \in Int /\ MonthOf(p) <= MonthOf(q)
  <2>1. MonthOf(s) \in Int /\ MonthOf(p) \in Int /\ MonthOf(q) \in Int /\ ~(MonthOf(q) < MonthOf(p))
    BY SMTT(30), <1>3, Parts, InOrder
  <2>. QED
    BY <2>1
<1>6. ASSUME NEW d \in Dates(p) PROVE d \in Dates(q) /\ d \in Int /\ (d = s \/ d <= p)
  <2>1. CASE d = s
    BY <2>1
  <2>2. CASE d # s
    <3>1. PICK k \in 0..MonthOf(p) - MonthOf(s) : d = AddMonths(s, k) /\ d <= p
      BY <2>2
    <3>2. k \in 0..MonthOf(q) - MonthOf(s) /\ d \in Int
      BY <3>1, <1>5, MonthsLater
    <3>. QED
      BY <3>1, <3>2, <1>3
  <2>. QED
    BY <2>1, <2>2
<1>7. ASSUME NEW d \in Dates(q) \ Dates(p) PROVE d \in Int /\ s < d /\ p < d
  <2>1. PICK k \in 0..MonthOf(q) - MonthOf(s) : d = AddMonths(s, k) /\ d # s /\ d <= q
    OBVIOUS
  <2>2. k \in Int /\ k # 0 /\ d \in Int /\ MonthOf(d) = MonthOf(s) + k
    BY <2>1, <1>5, MonthsLater
  <2>3. s < d
    BY <2>1, <2>2, <1>5, InOrder
  <2>4. ~(d <= p) \/ k > MonthOf(p) - MonthOf(s)
    BY <2>1, <1>5
  <2>5. k > MonthOf(p) - MonthOf(s) => p < d
    BY <2>2, <1>5, InOrder
  <2>. QED
    BY <2>2, <2>3, <2>4, <2>5
<1>. HIDE DEF Dates
<1>. QED
  BY <1>4, <1>6, <1>7

(* INV-0017-02: extending a series on a later day only adds dates at its   *)
(* end.                                                                    *)
THEOREM SeriesOnlyGrow == Spec => SeriesGrows
<1>. DEFINE Grown ==
       \A date \in {today'}, startsOn \in {AddMonths(createdOn, -1), createdOn},
          endsOn \in {AddMonths(createdOn, 1), RecurrenceHorizon(today) + 32} :
         LET before == SeriesDates(startsOn, endsOn, today)
             after  == SeriesDates(startsOn, endsOn, date) IN
         /\ before \subseteq after
         /\ \A d \in after \ before, e \in before : e < d
<1>1. ASSUME Inv, Midnight PROVE Grown
  <2>1. today \in Int /\ today' \in Int /\ today <= today'
    <3>1. today' = NextDay(today) /\ today \in Int /\ IsDate(today)
      BY <1>1 DEF Midnight, Inv, Times
    <3>. QED
      BY <3>1, DayAfter
  <2>2. createdOn \in Int /\ IsDate(createdOn)
    BY <1>1, Registered DEF Inv, Times
  <2>3. \A n \in Int : AddMonths(createdOn, n) \in Int /\ IsDate(AddMonths(createdOn, n))
    BY <2>2, MonthsLater
  <2>4. RecurrenceHorizon(today) + 32 \in Int
    <3>1. MonthOf(today) + HorizonMonths \in Int
      BY <2>1, Parts
    <3>. QED
      BY <3>1, MonthLength DEF RecurrenceHorizon, DateOf
  <2>5. ASSUME NEW s \in {AddMonths(createdOn, -1), createdOn} PROVE s \in Int /\ IsDate(s)
    BY <2>2, <2>3
  <2>6. ASSUME NEW e \in {AddMonths(createdOn, 1), RecurrenceHorizon(today) + 32} PROVE e \in Int
    BY <2>3, <2>4
  <2>. QED
    BY <2>1, <2>5, <2>6, LongerSeries
<1>2. Inv /\ [Next]_vars => [Grown]_today
  BY <1>1 DEF Next, vars, ChangeDays, CloseDue
<1>. QED
  BY <1>2, Invariance, PTL DEF Spec, SeriesGrows


-----------------------------------------------------------------------------
(* Installments.                                                           *)

(* A purchase that may be registered today is of a date, today at latest.  *)
LEMMA Purchased ==
    ASSUME Inv, NEW x \in Purchases
    PROVE  x \in Int /\ IsDate(x) /\ x <= today
<1>1. today \in Int /\ IsDate(today)
  BY DEF Inv, Times
<1>2. ASSUME NEW n \in {-1, -2}
      PROVE  AddMonths(today, n) \in Int /\ IsDate(AddMonths(today, n)) /\ AddMonths(today, n) <= today
  <2>1. n \in Int /\ n < 0
    OBVIOUS
  <2>2. /\ AddMonths(today, n) \in Int /\ IsDate(AddMonths(today, n))
        /\ MonthOf(AddMonths(today, n)) = MonthOf(today) + n
    BY <1>1, <2>1, MonthsLater
  <2>3. AddMonths(today, n) < today
    BY <1>1, <2>1, <2>2, Parts, InOrder
  <2>. QED
    BY <1>1, <2>2, <2>3
<1>. QED
  BY <1>1, <1>2 DEF Purchases

(* It is posted in the open window, and not after today; the cycle of that *)
(* day is in the chain.                                                    *)
LEMMA Posted ==
    ASSUME Inv, NEW x \in Purchases
    PROVE  /\ PostedOn(x) \in Int /\ IsDate(PostedOn(x))
           /\ x <= PostedOn(x) /\ PostedOn(x) <= today
           /\ ClosedThrough \in Int /\ ClosedThrough < PostedOn(x)
           /\ FirstMonth(config, statements) <= ClosingMonth(config, PostedOn(x))
<1>1. x \in Int /\ IsDate(x) /\ x <= today /\ today \in Int /\ IsDate(today)
  BY Purchased DEF Inv, Times
<1>2. PICK F \in Int, m \in Int, k \in Int :
        F = FirstMonth(config, statements) /\ m = ClosingMonth(config, today) /\ k = m - F
  BY ChainNow, MonthOfClosing
<1>3. From(statements) <= today /\ MonthOf(today) <= MonthOf(createdOn) + NumMonths + 1
  BY ChainNow, FromWhen DEF Times
<1>4. k = ClosingMonth(config, today) - FirstMonth(config, statements)
  BY <1>2
<1>5. /\ k \in 0..NumMonths + 2 /\ ClosedThrough \in Int /\ IsDate(ClosedThrough)
      /\ ClosedThrough = IF k = 0 /\ statements # <<>> THEN statements[Len(statements)].closesOn
                         ELSE Closing(config, FirstMonth(config, statements) + k - 1)
  BY SMTT(30), <1>3, <1>4, ChainNow, WindowIs DEF ClosedThrough, Chain
<1>6. PICK w \in Int : w = ClosedThrough /\ IsDate(w)
  BY <1>5
<1>7. PICK d \in Int : d = NextDay(w) /\ IsDate(d) /\ w < d /\ \A y \in Int : IsDate(y) /\ w < y => d <= y
  BY <1>6, DayAfter
<1>8. /\ w < today
      /\ \A y \in Int : d <= y => F <= ClosingMonth(config, y)
  <2>1. CASE k = 0 /\ statements # <<>>
    <3>1. w = statements[Len(statements)].closesOn
      BY <2>1, <1>5, <1>6
    <3>2. w < today
      BY <2>1, <3>1, ChainNow DEF Ended
    <3>3. d = From(statements)
      BY <2>1, <3>1, <1>7 DEF From
    <3>4. ASSUME NEW y \in Int, d <= y PROVE F <= ClosingMonth(config, y)
      <4>1. F = ClosingMonth(config, d)
        BY <3>3, <1>2 DEF FirstMonth
      <4>. QED
        BY <3>4, <4>1, ChainNow, MonthsOfClosing
    <3>. QED
      BY <3>2, <3>4
  <2>2. CASE ~(k = 0 /\ statements # <<>>)
    <3>1. PICK j \in Int : j = F + k - 1 /\ F <= j + 1 /\ j < m
      <4>1. k >= 0
        BY <1>5
      <4>. QED
        BY <1>2, <4>1
    <3>2. w = Closing(config, j)
      BY <2>2, <3>1, <1>2, <1>5, <1>6
    <3>3. w < today
      BY <3>1, <3>2, <1>1, <1>2, ChainNow, MonthOfClosing
    <3>4. ASSUME NEW y \in Int, d <= y PROVE F <= ClosingMonth(config, y)
      <4>1. w < y
        BY <3>4, <1>7
      <4>2. j < ClosingMonth(config, y) /\ ClosingMonth(config, y) \in Int
        BY <4>1, <3>2, ChainNow, MonthOfClosing
      <4>. QED
        BY <4>2, <3>1
    <3>. QED
      BY <3>3, <3>4
  <2>. QED
    BY <2>1, <2>2
<1>9. d <= today
  BY <1>1, <1>7, <1>8
<1>10. PostedOn(x) = IF x > d THEN x ELSE d
  BY <1>6, <1>7 DEF PostedOn
<1>11. PICK p \in Int : /\ p = PostedOn(x) /\ IsDate(p) /\ x <= p /\ p <= today /\ d <= p
  BY <1>1, <1>7, <1>9, <1>10
<1>. QED
  BY <1>2, <1>6, <1>7, <1>8, <1>11

(* AC-0013-22, AC-0012-08: a purchase in installments is posted in the     *)
(* open window, each installment on a date that is a month after the one   *)
(* before and never before it occurs; when every month has the days, it is *)
(* in as many statements as it has installments, one in each.              *)
THEOREM OneInstallmentEach == Spec => []InstallmentsSpread
<1>1. ASSUME Inv, NEW x \in Purchases
      PROVE  LET posted == PostedDates(x)
                 dates  == MonthlyInstallmentDates(x) IN
             /\ posted[1] > ClosedThrough
             /\ \A k \in 1..Installments :
                 LET occurred == dates[k] IN
                 /\ posted[k] >= occurred
                 /\ DayOf(occurred) = DayOf(x) \/ (IsDate(occurred) /\ ~IsDate(occurred + 1))
             /\ config.closingDay <= 28 /\ DayOf(posted[1]) <= 28 =>
                 \A k \in 2..Installments :
                     CycleContaining(posted[k]) = CycleContaining(posted[k - 1]) + 1
  <2>1. x \in Int /\ IsDate(x) /\ x <= today
    BY <1>1, Purchased
  <2>2. PICK p \in Int :
          /\ p = PostedOn(x) /\ IsDate(p) /\ x <= p /\ p <= today /\ ClosedThrough < p
          /\ FirstMonth(config, statements) <= ClosingMonth(config, p)
    BY <1>1, Posted
  <2>3. PICK posted : posted = PostedDates(x)
    OBVIOUS
  <2>4. PICK dates : dates = MonthlyInstallmentDates(x)
    OBVIOUS
  <2>5. ASSUME NEW k \in 1..Installments
        PROVE  posted[k] = AddMonths(p, k - 1) /\ dates[k] = AddMonths(x, k - 1)
    BY <2>2, <2>3, <2>4 DEF PostedDates, MonthlyInstallmentDates
  <2>6. posted[1] = p
    <3>1. 1 \in 1..Installments /\ 1 - 1 = 0
      OBVIOUS
    <3>2. posted[1] = AddMonths(p, 0)
      BY <2>5, <3>1
    <3>. QED
      BY <2>2, <3>2, MonthsLater
  <2>7. ASSUME NEW k \in 1..Installments
        PROVE  /\ dates[k] <= posted[k]
               /\ DayOf(dates[k]) = DayOf(x) \/ (IsDate(dates[k]) /\ ~IsDate(dates[k] + 1))
    <3>1. PICK n \in Int : n = k - 1
      OBVIOUS
    <3>2. posted[k] = AddMonths(p, n) /\ dates[k] = AddMonths(x, n)
      BY <2>5, <3>1
    <3>3. AddMonths(x, n) <= AddMonths(p, n)
      BY <2>1, <2>2, MonthsLaterInOrder
    <3>4. DayOf(AddMonths(x, n)) = DayOf(x)
            \/ (IsDate(AddMonths(x, n)) /\ ~IsDate(AddMonths(x, n) + 1))
      BY <2>1, MonthsLater
    <3>. QED
      BY <3>2, <3>3, <3>4
  <2>8. ASSUME config.closingDay <= 28, DayOf(p) <= 28
        PROVE  \A k \in 2..Installments :
                 CycleContaining(posted[k]) = CycleContaining(posted[k - 1]) + 1
    <3>1. PICK F \in Int, c \in Int, m \in Int :
            /\ F = FirstMonth(config, statements) /\ c = MonthOf(createdOn) /\ c <= F
            /\ m = MonthOf(p)
      BY <1>1, <2>2, ChainNow, FromWhen, Parts
    <3>2. m <= c + NumMonths + 1
      <4>1. MonthOf(today) \in Int /\ ~(MonthOf(today) < MonthOf(p))
        BY <1>1, <2>2, ChainNow, Parts, InOrder
      <4>2. MonthOf(today) <= MonthOf(createdOn) + NumMonths + 1
        BY <1>1, ChainNow DEF Times
      <4>. QED
        BY <3>1, <4>1, <4>2
    <3>3. PICK b \in {0, 1} : b = IF config.closingDay < DayOf(p) THEN 1 ELSE 0
      OBVIOUS
    <3>4. ASSUME NEW n \in Nat
          PROVE  AddMonths(p, n) \in Int /\ ClosingMonth(config, AddMonths(p, n)) = m + n + b
      <4>1. PICK y \in Int : /\ y = AddMonths(p, n) /\ MonthOf(y) = m + n /\ DayOf(y) = DayOf(p)
        <5>1. n \in Int
          OBVIOUS
        <5>2. /\ AddMonths(p, n) \in Int /\ MonthOf(AddMonths(p, n)) = MonthOf(p) + n
              /\ DayOf(AddMonths(p, n)) = DayOf(p)
          BY <2>2, <2>8, <5>1, MonthsLater
        <5>. QED
          BY <5>2, <3>1
      <4>2. PICK i \in Int : i = m + n
        OBVIOUS
      <4>3. config.closingDay \in 1..31
        BY <1>1, ChainNow
      <4>4. DaysInMonth(i) >= 28
        BY MonthLength
      <4>5. /\ Closing(config, i) \in Int /\ MonthOf(Closing(config, i)) = i
            /\ DayOf(Closing(config, i)) = IF config.closingDay <= DaysInMonth(i)
                                           THEN config.closingDay ELSE DaysInMonth(i)
        BY <4>3, Resolved DEF Closing
      <4>6. DayOf(Closing(config, i)) = config.closingDay
        BY <2>8, <4>3, <4>4, <4>5, MonthLength
      <4>7. Closing(config, i) < y <=> config.closingDay < DayOf(p)
        BY <4>1, <4>2, <4>5, <4>6, InOrder
      <4>. QED
        BY <4>1, <4>2, <4>7, <3>3 DEF ClosingMonth
    <3>5. F <= m + b
      <4>1. AddMonths(p, 0) = p
        BY <2>2, MonthsLater
      <4>2. ClosingMonth(config, p) = m + 0 + b
        BY <3>4, <4>1
      <4>. QED
        BY <2>2, <3>1, <4>2
    <3>6. ASSUME NEW k \in 1..Installments
          PROVE  CycleContaining(posted[k]) = (m + b - F) + k
      <4>1. PICK n \in Nat : n = k - 1
        OBVIOUS
      <4>2. PICK y \in Int : y = posted[k] /\ ClosingMonth(config, y) = m + n + b
        BY <2>5, <3>4, <4>1
      <4>3. PICK j \in Int : j = m + n + b - F
        OBVIOUS
      <4>4. j \in 0..Length
        BY <3>1, <3>2, <3>3, <3>5, <4>1, <4>3 DEF Length
      <4>5. j = ClosingMonth(config, y) - FirstMonth(config, statements)
        BY <3>1, <4>2, <4>3
      <4>6. Before(y, Chain) = j
        BY <1>1, <4>4, <4>5, ChainNow, BeforeIs DEF Chain
      <4>. QED
        BY <4>1, <4>2, <4>3, <4>6 DEF CycleContaining
    <3>7. ASSUME NEW k \in 2..Installments
          PROVE  CycleContaining(posted[k]) = CycleContaining(posted[k - 1]) + 1
      <4>1. k \in 1..Installments /\ k - 1 \in 1..Installments
        OBVIOUS
      <4>2. CycleContaining(posted[k - 1]) = (m + b - F) + (k - 1)
        BY <3>6, <4>1
      <4>3. CycleContaining(posted[k]) = (m + b - F) + k
        BY <3>6, <4>1
      <4>. QED
        BY <4>2, <4>3
    <3>. QED
      BY <3>7
  <2>9. ClosedThrough \in Int
    BY <1>1, Posted
  <2>10. ASSUME NEW k \in 1..Installments PROVE posted[k] \in Int /\ dates[k] \in Int
    <3>1. k - 1 \in Int
      OBVIOUS
    <3>2. AddMonths(p, k - 1) \in Int /\ AddMonths(x, k - 1) \in Int
      BY <2>1, <2>2, <3>1, MonthsLater
    <3>. QED
      BY <2>5, <3>2
  <2>. QED
    BY <2>2, <2>3, <2>4, <2>6, <2>7, <2>8, <2>9, <2>10
<1>2. Inv => InstallmentsSpread
  BY <1>1 DEF InstallmentsSpread
<1>. QED
  BY <1>2, Invariance, PTL
=============================================================================
